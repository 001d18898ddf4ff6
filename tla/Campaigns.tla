------------------------------ MODULE Campaigns ------------------------------
(***************************************************************************)
(* The validation of one strategy, campaign by campaign: the folds of the  *)
(* walk-forward, hold-out, Monte-Carlo, benchmark and the multi-market     *)
(* campaigns, each a backtest that may raise, and the score of what they   *)
(* measured, saved as an experiment of ResearchLab, which takes any result *)
(* a runner may end with.                                                  *)
(*                                                                         *)
(* Ratios are percentages; compounding rounds down.                        *)
(***************************************************************************)
EXTENDS ResearchLab, Sequences, SequencesExt

CONSTANTS Configurations,   \* active_campaigns: sequences of campaigns
          Histories,        \* numbers of bars of the data
          Tearsheets,       \* [sharpe, win, net, drawdown] of a backtest that ends
          TradeCounts,      \* the trades of a backtest
          RuinPcts,         \* ruin probabilities of the bootstrap
          TermFrom,         \* points of the economic term -> the least net that earns them
          Markets,          \* markets and timeframes of the multi campaigns
          NoTrades          \* the win rate of a backtest without a trade: NaN

\* ValidationCampaignType.
CampaignTypes == Campaigns \cup {"multi_market", "multi_timeframe"}

\* No configuration lists a campaign twice.
ASSUME CampaignsAssumption ==
    /\ \A c \in Configurations : c \in Seq(CampaignTypes) /\ IsInjective(c)
    /\ Histories \subseteq Nat /\ TradeCounts \subseteq Nat /\ RuinPcts \subseteq 0..100
    /\ \A t \in Tearsheets : t.drawdown \in Nat
    /\ DOMAIN TermFrom \subseteq 1..100

VARIABLES todo,       \* the campaigns left; the first one is running
          bars,       \* the bars of the feed
          start,      \* the bar the next fold begins at
          folds,      \* what each fold gave
          results,    \* campaign_results
          \* history
          crashed,    \* backtests of folds that raised
          replayed,   \* how often the folds replayed each bar
          trades      \* the trades Monte-Carlo resampled

campaignVars == <<files, todo, bars, start, folds, results, crashed, replayed, trades>>

MinTrades == 30
MaxToleratedDrawdown == 30

CampaignsInit ==
    /\ LabInit
    /\ todo \in Configurations /\ bars \in Histories
    /\ start = 1 /\ folds = <<>> /\ results = {}
    /\ crashed = 0 /\ replayed = [b \in 1..bars |-> 0] /\ trades = 0
-----------------------------------------------------------------------------
Running(c) == todo # <<>> /\ Head(todo) = c

Verdict(c, passed, net, drawdown, ruin) ==
    [campaign |-> c, passed |-> passed, net |-> net, drawdown |-> drawdown, ruin |-> ruin]

\* The metrics a campaign does not report.
NoNet == NotMeasured
NoDrawdown == -1
NoRuin == -1

Conclude(verdicts) == results' = results \cup verdicts /\ todo' = Tail(todo)

\* Five folds of equal length, fewer for a short history; the last takes the rest.
FoldCount == IF bars < 10 THEN (IF bars < 4 THEN 1 ELSE bars \div 2) ELSE 5
FoldSize == bars \div FoldCount
FoldEnd == IF start = 1 + (FoldCount - 1) * FoldSize THEN bars ELSE start + FoldSize - 1

TotalLoss == [sharpe |-> 0, win |-> 0, net |-> -100, drawdown |-> 100]

\* Slip: a fold that raises is left out.
RunFoldOrSkip ==
    /\ Running("walk_forward") /\ start <= bars /\ FoldEnd > start
    /\ \/ \E t \in Tearsheets : folds' = Append(folds, t) /\ UNCHANGED crashed
       \/ crashed' = crashed + 1 /\ UNCHANGED folds
    /\ replayed' = [b \in 1..bars |-> replayed[b] + IF b \in start..FoldEnd THEN 1 ELSE 0]
    /\ start' = FoldEnd + 1
    /\ UNCHANGED <<files, todo, bars, results, trades>>

\* A fold; one that raises counts as the loss of everything.
RunFold ==
    /\ Running("walk_forward") /\ start <= bars /\ FoldEnd > start
    /\ \/ \E t \in Tearsheets : folds' = Append(folds, t) /\ UNCHANGED crashed
       \/ folds' = Append(folds, TotalLoss) /\ crashed' = crashed + 1
    /\ replayed' = [b \in 1..bars |-> replayed[b] + IF b \in start..FoldEnd THEN 1 ELSE 0]
    /\ start' = FoldEnd + 1
    /\ UNCHANGED <<files, todo, bars, results, trades>>

Total(f(_)) == FoldLeft(LAMBDA sum, t : sum + f(t), 0, folds)

Compounded == FoldLeft(LAMBDA c, t : (c * (100 + t.net)) \div 100, 100, folds) - 100

WorstDrawdown == CHOOSE d \in {folds[i].drawdown : i \in DOMAIN folds} :
                    \A i \in DOMAIN folds : folds[i].drawdown <= d

\* Sharpe of 0.3 and wins of 40 % on average; an average with NaN passes nothing.
FoldsPass ==
    /\ Total(LAMBDA t : t.sharpe) >= 30 * Len(folds)
    /\ \A i \in DOMAIN folds : folds[i].win # NoTrades
    /\ Total(LAMBDA t : t.win) >= 40 * Len(folds)

\* The end of the walk-forward.  A history too short for a fold of two bars passes
\* nothing, nor does a feed that raises, or the broker's factory at any fold.
WalkForward ==
    /\ Running("walk_forward")
    /\ \/ start > bars /\ folds # <<>>
          /\ Conclude({Verdict("walk_forward", FoldsPass, Compounded, WorstDrawdown, NoRuin)})
       \/ Conclude({Verdict("walk_forward", FALSE, -100, 100, NoRuin)})
    /\ UNCHANGED <<files, bars, start, folds, crashed, replayed, trades>>

\* One backtest, over all the bars; raised by the broker's factory, the exception
\* leaves the campaign, and it is missing.
HoldOut ==
    /\ Running("hold_out")
    /\ \/ \E t \in Tearsheets :
             Conclude({Verdict("hold_out", t.sharpe >= 50 /\ t.drawdown <= 30,
                               t.net, t.drawdown, NoRuin)})
       \/ Conclude({Verdict("hold_out", FALSE, -100, 100, NoRuin)})
       \/ Conclude({})
    /\ UNCHANGED <<files, bars, start, folds, crashed, replayed, trades>>

\* Slip: too few trades are inconclusive, and not a certain ruin.
MonteCarloInconclusive ==
    /\ Running("monte_carlo")
    /\ \/ \E n \in TradeCounts :
             /\ trades' = n
             /\ IF n < MinTrades
                THEN Conclude({Verdict("monte_carlo", FALSE, NoNet, NoDrawdown, NoRuin)})
                ELSE \E ruin \in RuinPcts, gains \in BOOLEAN :
                        Conclude({Verdict("monte_carlo", ruin < 5 /\ gains, NoNet, NoDrawdown, ruin)})
       \/ Conclude({Verdict("monte_carlo", FALSE, NoNet, NoDrawdown, 100)}) /\ UNCHANGED trades
       \/ Conclude({}) /\ UNCHANGED trades
    /\ UNCHANGED <<files, bars, start, folds, crashed, replayed>>

\* The bootstrap of the trades: too few of them, or a backtest that raises, are
\* reported as a certain ruin.
MonteCarlo ==
    /\ Running("monte_carlo")
    /\ \/ \E n \in TradeCounts :
             /\ trades' = n
             /\ IF n < MinTrades
                THEN Conclude({Verdict("monte_carlo", FALSE, NoNet, NoDrawdown, 100)})
                ELSE \E ruin \in RuinPcts, gains \in BOOLEAN :
                        Conclude({Verdict("monte_carlo", ruin < 5 /\ gains, NoNet, NoDrawdown, ruin)})
       \/ Conclude({Verdict("monte_carlo", FALSE, NoNet, NoDrawdown, 100)}) /\ UNCHANGED trades
       \/ Conclude({}) /\ UNCHANGED trades
    /\ UNCHANGED <<files, bars, start, folds, crashed, replayed>>

\* The strategy and buy-and-hold, on the same bars.
Benchmark ==
    /\ Running("benchmark")
    /\ \/ \E strategy, hold \in Tearsheets :
             Conclude({Verdict("benchmark",
                               strategy.net >= hold.net /\ strategy.sharpe >= hold.sharpe,
                               strategy.net, NoDrawdown, NoRuin)})
       \/ Conclude({Verdict("benchmark", FALSE, -100, NoDrawdown, NoRuin)})
    /\ UNCHANGED <<files, bars, start, folds, crashed, replayed, trades>>

\* Half of the markets, or timeframes, with a positive Sharpe; one that raises is
\* not one of them.  The score takes nothing from these.
MultiCampaign ==
    /\ todo # <<>> /\ Head(todo) \in {"multi_market", "multi_timeframe"}
    /\ \E positive \in 0..Markets :
          Conclude({Verdict(Head(todo), 2 * positive >= Markets, NoNet, NoDrawdown, NoRuin)})
    /\ UNCHANGED <<files, bars, start, folds, crashed, replayed, trades>>
-----------------------------------------------------------------------------
Of(c) == {v \in results : v.campaign = c}
Precedence == <<"hold_out", "walk_forward", "benchmark">>

\* _economic_term, 50 (1 + tanh(net / 10 %)) in whole points.
EconomicTerm(net) == Max({0} \cup {points \in DOMAIN TermFrom : TermFrom[points] <= net})

\* _extract_net_return.
Economic ==
    LET measured == SelectSeq(Precedence, LAMBDA c : Of(c) # {}) IN
    IF measured = <<>> THEN NotMeasured
    ELSE EconomicTerm((CHOOSE v \in Of(measured[1]) : TRUE).net)

\* _drawdown_factor: the worst drawdown of those reported.
DrawdownFactor ==
    LET reported == {v.drawdown : v \in results} \ {NoDrawdown} IN
    IF reported = {} THEN 100
    ELSE LET worst == CHOOSE d \in reported : \A e \in reported : e <= d IN
         IF worst >= MaxToleratedDrawdown THEN 0 ELSE 100 - (100 * worst) \div MaxToleratedDrawdown

\* _ruin_factor.
RuinFactor == IF \E v \in Of("monte_carlo") : v.ruin # NoRuin
              THEN 100 - (CHOOSE v \in Of("monte_carlo") : TRUE).ruin ELSE 100

\* What calculate_score reads of the results.
Report == [ran |-> {v.campaign : v \in results} \cap Campaigns,
           passed |-> {v.campaign : v \in {w \in results : w.passed}} \cap Campaigns,
           economic |-> Economic, drawdown |-> DrawdownFactor, ruin |-> RuinFactor]

\* The score, the artifact and the experiment, which fails when the artifact
\* cannot be written.
ScoreAndSave ==
    /\ todo = <<>>
    /\ Save(Fresh("COMPLETED", Report)) \/ Save(Fresh("FAILED", NoResult))
    /\ UNCHANGED <<todo, bars, start, folds, results, crashed, replayed, trades>>

CampaignsNext ==
    \/ RunFold \/ WalkForward \/ HoldOut \/ MonteCarlo \/ Benchmark \/ MultiCampaign
    \/ ScoreAndSave

CampaignsSpec == CampaignsInit /\ [][CampaignsNext]_campaignVars
-----------------------------------------------------------------------------
\* Each campaign has at most one verdict; what the registry is given is a result
\* ResearchLab expects of a runner.
CampaignsTypeOK ==
    /\ bars \in Nat /\ start \in 1..(bars + 1) /\ crashed \in Nat /\ trades \in Nat
    /\ replayed \in [1..bars -> Nat]
    /\ \A v, w \in results : v.campaign = w.campaign => v = w
    /\ \A i \in Recorded : files[i].result \in Results /\ Possible(files[i].result)

\* An approved strategy survived: the folds replayed every bar, each once, and no
\* fold raised, since such a fold's drawdown takes the whole score; and when
\* Monte-Carlo came to a verdict, it had the trades for it.
ApprovedSurvived ==
    \A i \in Recorded :
      Approved(files[i]) =>
        /\ crashed = 0 /\ \A b \in 1..bars : replayed[b] = 1
        /\ "monte_carlo" \in files[i].result.ran => trades >= MinTrades
=============================================================================
