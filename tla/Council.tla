------------------------------- MODULE Council -------------------------------
(***************************************************************************)
(* The council of voting agents (application/council): what each agent     *)
(* votes on a market context, how the votes are weighted and aggregated,   *)
(* how disagreement, veto and the reinforcement-learning policy size or    *)
(* cancel the order.  The council keeps no state.                          *)
(*                                                                         *)
(* A context is                                                            *)
(*   ema, rsi, band  where the price stands for TrendAgent, MomentumAgent  *)
(*                   and VolatilityAgent, "none" for a missing feature;    *)
(*   spread, latency numbers, or NoFeature;                                *)
(*   held            the position of the symbol;                           *)
(*   score, preferred, avoid   memory_score and the active knowledge items *)
(*                   of the two kinds PatternAgent reads;                  *)
(*   forecast        "none", "bullish" or "bearish".                       *)
(* Confidences are in hundredths, weights in eighths, sizes in quarters.   *)
(***************************************************************************)
EXTENDS Integers, FiniteSetsExt

CONSTANTS NoFeature, NoPolicy,
          MaxSpread,    \* 5.0, LiquidityAgent
          MaxLatency    \* 200.0 ms, ExecutionAgent

ASSUME CouncilAssumption ==
    NoFeature \notin Nat /\ MaxSpread \in Nat /\ MaxLatency \in Nat

Agents == {"TrendAgent", "MomentumAgent", "VolatilityAgent", "LiquidityAgent",
           "PatternAgent", "PortfolioAgent", "ExecutionAgent", "NewsAgent"}
SafetyAgents == {"LiquidityAgent", "ExecutionAgent"}

\* The keys of the agent_weights _process_bar makes of a policy's action.
PolicyKeys == {"Trend", "Momentum", "Volatility", "Liquidity",
               "Pattern", "News", "Portfolio", "Execution"}

Vote(v, c) == [vote |-> v, conf |-> c]
Abstain == Vote("WAIT", 0)

\* The Kronos part of TrendAgent and PatternAgent: agreement raises the
\* confidence, disagreement lowers it, down to an abstention below 0.2.
WithForecast(base, forecast, bonus, malus) ==
    IF forecast = "none" \/ base.vote = "WAIT" THEN base
    ELSE IF (base.vote = "BUY") = (forecast = "bullish")
         THEN Vote(base.vote, Min({base.conf + bonus, 100}))
    ELSE IF base.conf - malus < 20 THEN Abstain
    ELSE Vote(base.vote, base.conf - malus)

TrendVote(ctx) ==
    CASE ctx.ema = "none" -> Abstain
      [] ctx.ema = "near" -> Vote("WAIT", 20)
      [] OTHER -> WithForecast(Vote(IF ctx.ema = "above" THEN "BUY" ELSE "SELL", 70),
                               ctx.forecast, 15, 20)

MomentumVote(ctx) ==
    CASE ctx.rsi = "none" -> Abstain
      [] ctx.rsi = "oversold" -> Vote("BUY", 80)
      [] ctx.rsi = "overbought" -> Vote("SELL", 80)
      [] OTHER -> Vote("WAIT", 10)

VolatilityVote(ctx) ==
    CASE ctx.band = "none" -> Abstain
      [] ctx.band = "over" -> Vote("SELL", 75)
      [] ctx.band = "under" -> Vote("BUY", 75)
      [] OTHER -> Vote("WAIT", 30)

\* A spread nobody observed is not a wide one.
LiquidityVote(ctx) ==
    IF ctx.spread # NoFeature /\ ctx.spread > MaxSpread THEN Vote("WAIT", 90) ELSE Abstain

\* Each matching knowledge item moves the score by ten, within -100 .. 100.
PatternVote(ctx) ==
    LET score == IF ctx.score > 0 THEN Min({ctx.score + 10 * ctx.preferred, 100})
                 ELSE IF ctx.score < 0 THEN Max({ctx.score - 10 * ctx.avoid, -100})
                 ELSE 0
    IN  CASE score = 0 -> Abstain
          [] score > 0 -> WithForecast(Vote("BUY", score), ctx.forecast, 10, 15)
          [] OTHER -> WithForecast(Vote("SELL", -score), ctx.forecast, 10, 15)

PortfolioVote(ctx) ==
    IF ctx.held = 0 THEN Abstain ELSE Vote(IF ctx.held > 0 THEN "SELL" ELSE "BUY", 20)

\* A latency nobody measured is 0.
ExecutionVote(ctx) ==
    IF ctx.latency # NoFeature /\ ctx.latency > MaxLatency THEN Vote("WAIT", 95) ELSE Abstain

\* NewsAgent is a stub that abstains.
VoteOf(a, ctx) ==
    CASE a = "TrendAgent" -> TrendVote(ctx)
      [] a = "MomentumAgent" -> MomentumVote(ctx)
      [] a = "VolatilityAgent" -> VolatilityVote(ctx)
      [] a = "LiquidityAgent" -> LiquidityVote(ctx)
      [] a = "PatternAgent" -> PatternVote(ctx)
      [] a = "PortfolioAgent" -> PortfolioVote(ctx)
      [] a = "ExecutionAgent" -> ExecutionVote(ctx)
      [] a = "NewsAgent" -> Abstain

-----------------------------------------------------------------------------
\* VoteAggregator._get_weight: the policy's weight for the agent's name, or 1/8.
Weights(policy) ==
    [a \in Agents |-> IF policy # NoPolicy /\ a \in DOMAIN policy.weights
                      THEN policy.weights[a] ELSE 1]

\* The votes of one direction, weighted; a score is this over the total weight.
Score(direction, ctx, w) ==
    MapThenSumSet(LAMBDA a : VoteOf(a, ctx).conf * w[a],
                  {a \in Agents : VoteOf(a, ctx).vote = direction})

TotalWeight(w) ==
    LET total == MapThenSumSet(LAMBDA a : w[a], Agents) IN IF total = 0 THEN 1 ELSE total

\* ConflictResolver.resolve
SizeMultiplier(buy, sell) ==
    LET low == Min({buy, sell})
        high == Max({buy, sell})
    IN  CASE high = 0 -> 0
          [] 100 * low >= 95 * high -> 0
          [] 100 * low >= 80 * high -> 1
          [] OTHER -> 4

Vetoed(ctx) == \E a \in SafetyAgents : VoteOf(a, ctx).vote = "WAIT" /\ VoteOf(a, ctx).conf >= 80

\* MultiAgentCouncil.evaluate: direction and size.
Verdict(ctx, policy) ==
    LET w == Weights(policy)
        buy == Score("BUY", ctx, w)
        sell == Score("SELL", ctx, w)
        size == SizeMultiplier(buy, sell) * (IF policy = NoPolicy THEN 1 ELSE policy.risk)
        unsure == /\ policy # NoPolicy
                  /\ Max({buy, sell}) < (50 + policy.adjustment) * TotalWeight(w)
    IN  IF Vetoed(ctx) \/ unsure \/ size <= 0 \/ buy = sell
        THEN [vote |-> "WAIT", size |-> 0]
        ELSE [vote |-> IF buy > sell THEN "BUY" ELSE "SELL", size |-> size]

\* create_order, for a base volume of one unit: 0 when there is no order,
\* otherwise the signed volume in quarters.
OrderVolume(verdict) ==
    CASE verdict.vote = "WAIT" -> 0
      [] verdict.vote = "BUY" -> verdict.size
      [] OTHER -> -verdict.size
=============================================================================
