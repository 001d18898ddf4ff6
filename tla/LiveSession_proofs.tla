------------------------- MODULE LiveSession_proofs -------------------------
(***************************************************************************)
(* Proofs about a session in front of Deriv, for any number of feed loops, *)
(* kill switches, connections and orders: what the kill switch stops, what *)
(* a reply that never comes costs, whose money is spent, what the risk     *)
(* portfolio's exposure is made of, on which market an order leaves, and   *)
(* what the reports of the kill switches may claim.                        *)
(***************************************************************************)
EXTENDS LiveSession, Portfolio_proofs, SequenceTheorems, TLAPS

CallStates == {"idle", "sent", "bought", "refused"}
CallRecord == [at : CallStates, sym : Symbols, q : Int, ask : Nat, deal : Nat]
DealStates == {"open", "sold", "expired", "stub"}
DealRecord == [sym : Symbols, q : Int, by : Feeds, ask : Nat, at : DealStates]

\* The part of the type the arguments below rest on.
SessionType ==
    /\ deal \in Seq(DealRecord)
    /\ call \in [Feeds -> CallRecord]
    /\ mode \in [Feeds -> {"absent", "live", "over"}]
    /\ asks \in Nat /\ atHalt \in Nat /\ halted \in BOOLEAN
    /\ site \in Sites /\ confirmed \in BOOLEAN /\ api \in {"none", "open"}
    /\ told \subseteq DOMAIN deal

\* Orders are numbered as they leave, and none leaves after the kill switch.
AsksAreBounded ==
    /\ IF halted THEN asks <= atHalt ELSE asks <= MaxAsks /\ atHalt = MaxAsks
    /\ \A f \in Feeds : call[f].ask <= asks
    /\ \A i \in DOMAIN deal : deal[i].ask <= asks

\* A loop waits for the contract its call opened.
CallsOwnTheirDeals ==
    \A f \in Feeds : call[f].at = "bought" => call[f].deal \in DOMAIN deal

\* Nothing is sent to Deriv on an account that was not confirmed.
OnlyConfirmedSends ==
    /\ confirmed => site.live \/ site.virtual
    /\ \A f \in Feeds : call[f].at # "idle" => confirmed
    /\ Contracts # {} => confirmed

SessionInv ==
    /\ SessionType
    /\ AsksAreBounded
    /\ CallsOwnTheirDeals
    /\ UntoldStopsItsLoop
    /\ OnlyConfirmedSends
-----------------------------------------------------------------------------
\* The assumptions about the tasks, as the steps below use them.
LEMMA TaskFacts ==
    /\ Callers = Feeds /\ Sellers = Halts /\ Instruments = Symbols
    /\ MaxAsks \in Nat /\ MaxContracts \in Nat
    /\ Idle \in CallRecord /\ Idle.at = "idle" /\ Idle.ask = 0
  <1>1. /\ Callers = Feeds /\ Sellers = Halts /\ Instruments = Symbols /\ Symbols # {}
        /\ MaxAsks \in Nat /\ MaxContracts \in Nat
    BY LiveAssumption, DerivAssumption
  <1>2. (CHOOSE s \in Instruments : TRUE) \in Symbols
    BY <1>1
  <1>3. QED
    BY <1>1, <1>2 DEF Idle, CallRecord, CallStates

\* A tick has a symbol and positive prices, and every symbol has a name.
LEMMA TickFacts ==
    /\ \A t \in Ticks : t.sym \in Symbols /\ t.bid \in Nat \ {0} /\ t.ask \in Nat \ {0}
    /\ \A s \in Symbols, k \in Quotes : Tick(s, k) \in Ticks
    /\ \A s \in Symbols : NameOf[s] \in Names
  <1>1. ASSUME NEW s \in Symbols, NEW k \in Quotes
        PROVE  /\ Tick(s, k).sym = s /\ Tick(s, k).bid \in Nat \ {0}
               /\ Tick(s, k).ask \in Nat \ {0} /\ Tick(s, k) \in Ticks
    <2>1. k \in [bid : Nat, ask : Nat] /\ 0 < k.bid /\ k.bid <= k.ask
      BY DerivAssumption
    <2>2. k.bid \in Nat \ {0} /\ k.ask \in Nat \ {0}
      BY <2>1
    <2>3. QED
      BY <2>2, TaskFacts DEF Tick, Ticks
  <1>2. \A s \in Symbols : NameOf[s] \in Names
    BY TaskFacts, DerivAssumption
  <1>3. ASSUME NEW t \in Ticks
        PROVE  t.sym \in Symbols /\ t.bid \in Nat \ {0} /\ t.ask \in Nat \ {0}
    <2>1. PICK s \in Symbols, k \in Quotes : t = Tick(s, k)
      BY TaskFacts DEF Ticks
    <2>2. QED
      BY <1>1, <2>1
  <1>4. QED
    BY <1>1, <1>2, <1>3

\* What the council orders is an integer volume.
LEMMA DecidedType ==
    ASSUME NEW s \in Symbols, NEW p, NEW sig, NEW policy \in Policies
    PROVE  /\ Decided(s, p, sig, policy) \in Int
           /\ Decided(s, p, sig, policy) # 0 => ~halted
  <1> DEFINE ctx == Context(s, sig)
             w == Weights(policy)
             mult == SizeMultiplier(Score("BUY", ctx, w), Score("SELL", ctx, w))
             risk == IF policy = NoPolicy THEN 1 ELSE policy.risk
             v == Verdict(ctx, policy)
             q == OrderVolume(v)
  <1>1. mult \in {0, 1, 4}
    BY DEF SizeMultiplier
  <1>2. risk \in Nat
    BY LiveAssumption
  <1>3. mult * risk \in Int
    BY <1>1, <1>2
  <1>4. v.size \in Int
    BY <1>3 DEF Verdict
  <1>5. q \in Int
    BY <1>4 DEF OrderVolume
  <1>6. QED
    BY <1>5 DEF Decided, ValidateOrder

\* A new deal at the end of the list leaves the others as they are.
LEMMA DealAppended ==
    ASSUME deal \in Seq(DealRecord), NEW e \in DealRecord, deal' = Append(deal, e)
    PROVE  /\ deal' \in Seq(DealRecord)
           /\ Len(deal) \in Nat /\ Len(deal) + 1 \notin DOMAIN deal
           /\ DOMAIN deal' = DOMAIN deal \cup {Len(deal) + 1}
           /\ \A i \in DOMAIN deal : deal'[i] = deal[i]
           /\ deal'[Len(deal) + 1] = e
  <1>1. /\ Append(deal, e) \in Seq(DealRecord)
        /\ Len(Append(deal, e)) = Len(deal) + 1
        /\ \A i \in 1..Len(deal) : Append(deal, e)[i] = deal[i]
        /\ Append(deal, e)[Len(deal) + 1] = e
    BY AppendProperties
  <1>2. /\ Len(deal) \in Nat /\ DOMAIN deal = 1..Len(deal)
        /\ DOMAIN deal' = 1..(Len(deal) + 1)
    BY <1>1
  <1>3. QED
    BY <1>1, <1>2

\* A contract that is sold or expires changes its state only.
LEMMA DealEnded ==
    ASSUME deal \in Seq(DealRecord), NEW i \in DOMAIN deal, deal[i].at = "open",
           NEW a \in {"sold", "expired"}, deal' = [deal EXCEPT ![i].at = a]
    PROVE  /\ deal' \in Seq(DealRecord)
           /\ DOMAIN deal' = DOMAIN deal
           /\ \A j \in DOMAIN deal : deal'[j].ask = deal[j].ask /\ deal'[j].by = deal[j].by
           /\ \A j \in DOMAIN deal : deal'[j].at = "stub" <=> deal[j].at = "stub"
  <1>1. deal \in [1..Len(deal) -> DealRecord] /\ Len(deal) \in Nat
    OBVIOUS
  <1>2. [deal[i] EXCEPT !.at = a] \in DealRecord
    BY <1>1 DEF DealRecord, DealStates
  <1>3. deal' \in [1..Len(deal) -> DealRecord]
    BY <1>1, <1>2
  <1>4. deal' \in Seq(DealRecord)
    BY <1>1, <1>3
  <1>5. QED
    BY <1>1, <1>3, <1>4 DEF DealRecord

\* A deal has its owner and its number.
LEMMA DealFields ==
    ASSUME SessionType
    PROVE  \A i \in DOMAIN deal : deal[i].by \in Feeds /\ deal[i].ask \in Nat
  <1>1. deal \in [1..Len(deal) -> DealRecord] /\ DOMAIN deal = 1..Len(deal)
    BY DEF SessionType
  <1>2. \A i \in DOMAIN deal : deal[i] \in DealRecord
    BY <1>1
  <1>3. QED
    BY <1>2 DEF DealRecord

\* The steps that touch neither a call nor a deal nor the loops' fate.
LEMMA QuietStepKeeps ==
    ASSUME SessionInv, UNCHANGED <<deal, call, mode, asks, atHalt, halted, site, confirmed, api, told>>
    PROVE  SessionInv'
  BY DEF SessionInv, SessionType, AsksAreBounded, CallsOwnTheirDeals, UntoldStopsItsLoop,
         OnlyConfirmedSends, Contracts

LEMMA InitEstablishes == LiveInit => SessionInv
  <1> SUFFICES ASSUME LiveInit PROVE SessionInv
    OBVIOUS
  <1>1. deal = <<>> /\ deal \in Seq(DealRecord) /\ DOMAIN deal = {}
    BY DEF LiveInit, GatewayInit
  <1>2. call \in [Feeds -> CallRecord] /\ \A f \in Feeds : call[f].at = "idle" /\ call[f].ask = 0
    BY TaskFacts DEF LiveInit, GatewayInit
  <1>3. SessionType
    BY <1>1, <1>2, TaskFacts DEF LiveInit, GatewayInit, SessionType
  <1>4. QED
    BY <1>1, <1>2, <1>3, TaskFacts
    DEF LiveInit, GatewayInit, SessionInv, AsksAreBounded, CallsOwnTheirDeals,
        UntoldStopsItsLoop, OnlyConfirmedSends, Contracts

LEMMA StartKeeps ==
    ASSUME SessionInv, NEW f \in Feeds, Start(f) PROVE SessionInv'
  <1>1. /\ UNCHANGED <<deal, call, asks, atHalt, halted, site, confirmed, api, told>>
        /\ mode[f] = "absent" /\ mode' = [mode EXCEPT ![f] = "live"]
    BY DEF Start, gatewayVars, connection, historyOfLive
  <1>2. mode' \in [Feeds -> {"absent", "live", "over"}]
    BY <1>1 DEF SessionInv, SessionType
  <1>3. \A g \in Feeds : mode[g] = "over" => mode'[g] = "over"
    BY <1>1 DEF SessionInv, SessionType
  <1>4. \A i \in DOMAIN deal : deal[i].by \in Feeds
    BY DealFields DEF SessionInv
  <1>5. UntoldStopsItsLoop'
    BY <1>1, <1>3, <1>4 DEF SessionInv, UntoldStopsItsLoop
  <1>6. QED
    BY <1>1, <1>2, <1>5 DEF SessionInv, SessionType, AsksAreBounded, CallsOwnTheirDeals,
                            OnlyConfirmedSends, Contracts

\* A loop that ends, whether it was cancelled, failed or ran out of bars.
LEMMA EndOfLoopKeeps ==
    ASSUME SessionInv, NEW f \in Feeds, mode' = [mode EXCEPT ![f] = "over"],
           \/ call' = call
           \/ call' = [call EXCEPT ![f] = Idle],
           UNCHANGED <<deal, asks, atHalt, halted, site, confirmed, api, told>>
    PROVE  SessionInv'
  <1>1. mode' \in [Feeds -> {"absent", "live", "over"}] /\ mode'[f] = "over"
        /\ \A g \in Feeds : g # f => mode'[g] = mode[g]
    BY DEF SessionInv, SessionType
  <1>2. /\ call' \in [Feeds -> CallRecord]
        /\ \A g \in Feeds : call'[g] = call[g] \/ (g = f /\ call'[g] = Idle)
    BY TaskFacts DEF SessionInv, SessionType
  <1>3. \A i \in DOMAIN deal : deal[i].by \in Feeds
    BY DealFields DEF SessionInv
  <1>4. UntoldStopsItsLoop'
    BY <1>1, <1>2, <1>3 DEF SessionInv, UntoldStopsItsLoop
  <1>5. SessionType'
    BY <1>1, <1>2 DEF SessionInv, SessionType
  <1>6. AsksAreBounded'
    BY <1>2, TaskFacts DEF SessionInv, SessionType, AsksAreBounded
  <1>7. CallsOwnTheirDeals'
    BY <1>2, TaskFacts DEF SessionInv, CallsOwnTheirDeals
  <1>8. OnlyConfirmedSends'
    BY <1>2, TaskFacts DEF SessionInv, OnlyConfirmedSends, Contracts
  <1>9. QED
    BY <1>4, <1>5, <1>6, <1>7, <1>8 DEF SessionInv

\* An order of a bar goes to Deriv.
LEMMA SentBarKeeps ==
    ASSUME SessionInv, NEW f \in Feeds, NEW s \in Symbols, NEW p, NEW q \in Int, ~halted,
           call[f].at = "idle", asks < MaxAsks, SentBar(f, s, p, q)
    PROVE  SessionInv'
  <1> DEFINE c == [at |-> "sent", sym |-> s, q |-> q, ask |-> asks + 1, deal |-> 0]
  <1>1. /\ UNCHANGED <<deal, mode, atHalt, halted, site, confirmed, api, told>>
        /\ asks' = asks + 1 /\ call' = [call EXCEPT ![f] = c]
        /\ confirmed
    BY DEF SentBar, Buying, CannotExecute, connection, controlVars
  <1>2. c \in CallRecord
    BY DEF SessionInv, SessionType, CallRecord, CallStates
  <1>3. call' \in [Feeds -> CallRecord] /\ call'[f] = c
        /\ \A g \in Feeds : g # f => call'[g] = call[g]
    BY <1>1, <1>2 DEF SessionInv, SessionType
  <1>4. SessionType'
    BY <1>1, <1>3 DEF SessionInv, SessionType
  <1>5. AsksAreBounded'
    <2>1. asks \in Nat /\ MaxAsks \in Nat /\ asks + 1 <= MaxAsks /\ ~halted'
      BY <1>1, TaskFacts DEF SessionInv, SessionType
    <2>2. \A g \in Feeds : call[g].ask \in Nat /\ call[g].ask <= asks
      BY DEF SessionInv, SessionType, AsksAreBounded, CallRecord
    <2>3. \A i \in DOMAIN deal : deal[i].ask \in Nat /\ deal[i].ask <= asks
      BY DealFields DEF SessionInv, AsksAreBounded
    <2>4. \A g \in Feeds : call'[g].ask <= asks'
      BY <1>1, <1>3, <2>1, <2>2
    <2>5. \A i \in DOMAIN deal' : deal'[i].ask <= asks'
      BY <1>1, <2>1, <2>3
    <2>6. QED
      BY <1>1, <2>1, <2>4, <2>5 DEF SessionInv, AsksAreBounded
  <1>6. CallsOwnTheirDeals'
    BY <1>1, <1>3 DEF SessionInv, CallsOwnTheirDeals
  <1>7. UntoldStopsItsLoop'
    <2>1. \A i \in DOMAIN deal : deal[i].by \in Feeds
      BY DealFields DEF SessionInv
    <2>2. QED
      BY <1>1, <1>3, <2>1 DEF SessionInv, UntoldStopsItsLoop
  <1>8. OnlyConfirmedSends'
    BY <1>1, <1>3 DEF SessionInv, OnlyConfirmedSends, Contracts
  <1>9. QED
    BY <1>4, <1>5, <1>6, <1>7, <1>8 DEF SessionInv

\* A new deal, a simulated one or one of the call that waits for it.
LEMMA NewDealKeeps ==
    ASSUME SessionInv, NEW f \in Feeds, NEW e \in DealRecord,
           deal' = Append(deal, e), e.by = f,
           asks' \in Nat, asks <= asks', e.ask <= asks',
           IF halted THEN asks' <= atHalt ELSE asks' <= MaxAsks /\ atHalt = MaxAsks,
           \/ e.at = "stub" /\ call' = call /\ told' = told \cup {Len(deal) + 1}
           \/ /\ call[f].at = "sent" /\ told' = told
              /\ call' = [call EXCEPT ![f].at = "bought", ![f].deal = Len(deal) + 1],
           UNCHANGED <<mode, atHalt, halted, site, confirmed, api>>
    PROVE  SessionInv'
  <1>1. /\ deal' \in Seq(DealRecord) /\ Len(deal) \in Nat
        /\ Len(deal) + 1 \notin DOMAIN deal
        /\ DOMAIN deal' = DOMAIN deal \cup {Len(deal) + 1}
        /\ \A i \in DOMAIN deal : deal'[i] = deal[i]
        /\ deal'[Len(deal) + 1] = e
    BY DealAppended DEF SessionInv, SessionType
  <1>2. /\ call' \in [Feeds -> CallRecord]
        /\ \A g \in Feeds : call'[g].ask = call[g].ask
        /\ \A g \in Feeds : g # f => call'[g] = call[g]
        /\ \A g \in Feeds : call'[g].at # "idle" => call[g].at # "idle"
    <2>1. CASE call' = call
      BY <2>1 DEF SessionInv, SessionType
    <2>2. CASE call' = [call EXCEPT ![f].at = "bought", ![f].deal = Len(deal) + 1] /\ call[f].at = "sent"
      <3>0. call[f] \in CallRecord /\ Len(deal) + 1 \in Nat
        BY <1>1 DEF SessionInv, SessionType
      <3>1. [call[f] EXCEPT !.at = "bought", !.deal = Len(deal) + 1] \in CallRecord
        BY <3>0 DEF CallRecord, CallStates
      <3>2. QED
        BY <2>2, <3>1 DEF SessionInv, SessionType, CallRecord
    <2>3. QED
      BY <2>1, <2>2
  <1>3. SessionType'
    BY <1>1, <1>2 DEF SessionInv, SessionType
  <1>4. AsksAreBounded'
    <2>1. /\ asks \in Nat /\ \A g \in Feeds : call[g].ask \in Nat /\ call[g].ask <= asks
          /\ \A i \in DOMAIN deal : deal[i].ask \in Nat /\ deal[i].ask <= asks
      BY DealFields DEF SessionInv, SessionType, AsksAreBounded, CallRecord
    <2>2. \A g \in Feeds : call'[g].ask <= asks'
      BY <1>2, <2>1
    <2>3. \A i \in DOMAIN deal' : deal'[i].ask <= asks'
      BY <1>1, <2>1
    <2>4. QED
      BY <2>2, <2>3 DEF AsksAreBounded
  <1>5. CallsOwnTheirDeals'
    <2>1. CASE call' = call
      BY <1>1, <2>1 DEF SessionInv, CallsOwnTheirDeals
    <2>2. CASE call' = [call EXCEPT ![f].at = "bought", ![f].deal = Len(deal) + 1]
      <3>1. call'[f].deal = Len(deal) + 1
        BY <2>2 DEF SessionInv, SessionType, CallRecord
      <3>2. QED
        BY <1>1, <1>2, <3>1 DEF SessionInv, CallsOwnTheirDeals
    <2>3. QED
      BY <2>1, <2>2
  <1>6. UntoldStopsItsLoop'
    <2> SUFFICES ASSUME NEW i \in DOMAIN deal' \ told'
                 PROVE  \/ mode[deal'[i].by] = "over"
                        \/ call'[deal'[i].by].at = "bought" /\ call'[deal'[i].by].deal = i
      BY DEF UntoldStopsItsLoop
    <2>1. CASE i = Len(deal) + 1
      <3>1. call' = [call EXCEPT ![f].at = "bought", ![f].deal = Len(deal) + 1]
        BY <2>1
      <3>2. call'[f].at = "bought" /\ call'[f].deal = Len(deal) + 1
        BY <3>1 DEF SessionInv, SessionType, CallRecord
      <3>3. QED
        BY <1>1, <2>1, <3>2
    <2>2. CASE i \in DOMAIN deal
      <3>1. i \notin told /\ deal'[i] = deal[i] /\ deal[i].by \in Feeds
        BY <1>1, <2>2, DealFields DEF SessionInv
      <3>2. mode[deal[i].by] = "over" \/ (call[deal[i].by].at = "bought" /\ call[deal[i].by].deal = i)
        BY <2>2, <3>1 DEF SessionInv, UntoldStopsItsLoop
      <3>3. CASE call' = call
        BY <3>1, <3>2, <3>3
      <3>4. CASE call[f].at = "sent"
        BY <1>2, <3>1, <3>2, <3>4
      <3>5. QED
        BY <3>3, <3>4
    <2>3. QED
      BY <1>1, <2>1, <2>2
  <1>7. OnlyConfirmedSends'
    <2>1. \A g \in Feeds : call'[g].at # "idle" => confirmed'
      BY <1>2 DEF SessionInv, OnlyConfirmedSends
    <2>2. Contracts' # {} => confirmed'
      <3> SUFFICES ASSUME NEW i \in DOMAIN deal', deal'[i].at # "stub" PROVE confirmed'
        BY DEF Contracts
      <3>1. CASE i \in DOMAIN deal
        BY <1>1, <3>1 DEF SessionInv, OnlyConfirmedSends, Contracts
      <3>2. CASE i = Len(deal) + 1
        <4>1. call[f].at = "sent"
          BY <1>1, <3>2
        <4>2. QED
          BY <4>1 DEF SessionInv, OnlyConfirmedSends
      <3>3. QED
        BY <1>1, <3>1, <3>2
    <2>3. QED
      BY <2>1, <2>2 DEF SessionInv, OnlyConfirmedSends
  <1>8. QED
    BY <1>3, <1>4, <1>5, <1>6, <1>7 DEF SessionInv

\* Contracts that end concern nobody here.
LEMMA EndedDealKeeps ==
    ASSUME SessionInv, NEW i \in DOMAIN deal, deal[i].at = "open", NEW a \in {"sold", "expired"},
           deal' = [deal EXCEPT ![i].at = a],
           UNCHANGED <<call, mode, asks, atHalt, halted, site, confirmed, api, told>>
    PROVE  SessionInv'
  <1>1. /\ deal' \in Seq(DealRecord) /\ DOMAIN deal' = DOMAIN deal
        /\ \A j \in DOMAIN deal : deal'[j].ask = deal[j].ask /\ deal'[j].by = deal[j].by
        /\ \A j \in DOMAIN deal : deal'[j].at = "stub" <=> deal[j].at = "stub"
    BY DealEnded DEF SessionInv, SessionType
  <1>2. SessionType' /\ AsksAreBounded' /\ CallsOwnTheirDeals'
    BY <1>1 DEF SessionInv, SessionType, AsksAreBounded, CallsOwnTheirDeals
  <1>3. UntoldStopsItsLoop'
    BY <1>1 DEF SessionInv, UntoldStopsItsLoop
  <1>4. OnlyConfirmedSends'
    BY <1>1 DEF SessionInv, OnlyConfirmedSends, Contracts
  <1>5. QED
    BY <1>2, <1>3, <1>4 DEF SessionInv

\* The reply of a purchase reaches the portfolio.
LEMMA BuyReturnsKeeps ==
    ASSUME SessionInv, NEW f \in Feeds, NEW px, NEW ms, BuyReturns(f, px, ms) PROVE SessionInv'
  <1>1. /\ UNCHANGED <<deal, mode, asks, atHalt, halted, site, confirmed, api>>
        /\ call[f].at = "bought" /\ told' = told \cup {call[f].deal}
        /\ call' = [call EXCEPT ![f] = Idle]
    BY DEF BuyReturns, connection, controlVars
  <1>2. /\ call' \in [Feeds -> CallRecord] /\ call'[f] = Idle
        /\ \A g \in Feeds : g # f => call'[g] = call[g]
    BY <1>1, TaskFacts DEF SessionInv, SessionType
  <1>3. SessionType'
    BY <1>1, <1>2 DEF SessionInv, SessionType, CallsOwnTheirDeals
  <1>4. AsksAreBounded'
    BY <1>1, <1>2, TaskFacts DEF SessionInv, SessionType, AsksAreBounded
  <1>5. CallsOwnTheirDeals'
    BY <1>1, <1>2, TaskFacts DEF SessionInv, CallsOwnTheirDeals
  <1>6. UntoldStopsItsLoop'
    <2> SUFFICES ASSUME NEW i \in DOMAIN deal \ told'
                 PROVE  \/ mode[deal[i].by] = "over"
                        \/ call'[deal[i].by].at = "bought" /\ call'[deal[i].by].deal = i
      BY <1>1 DEF UntoldStopsItsLoop
    <2>1. i \notin told /\ i # call[f].deal /\ deal[i].by \in Feeds
      BY <1>1, DealFields DEF SessionInv
    <2>2. mode[deal[i].by] = "over" \/ (call[deal[i].by].at = "bought" /\ call[deal[i].by].deal = i)
      BY <2>1 DEF SessionInv, UntoldStopsItsLoop
    <2>3. QED
      BY <1>2, <2>1, <2>2
  <1>7. OnlyConfirmedSends'
    BY <1>1, <1>2, TaskFacts DEF SessionInv, OnlyConfirmedSends, Contracts
  <1>8. QED
    BY <1>3, <1>4, <1>5, <1>6, <1>7 DEF SessionInv

\* Deriv answers a purchase.
LEMMA DerivBuysKeeps ==
    ASSUME SessionInv, NEW f \in Feeds, DerivBuys(f),
           UNCHANGED <<mode, asks, atHalt, halted, told>>
    PROVE  SessionInv'
  <1>1. /\ UNCHANGED <<site, api, confirmed>> /\ call[f].at = "sent"
    BY DEF DerivBuys, connection
  <1>2. call[f] \in CallRecord /\ asks \in Nat /\ call[f].ask <= asks
    BY DEF SessionInv, SessionType, AsksAreBounded
  <1>3. CASE /\ deal' = Append(deal, [sym |-> call[f].sym, q |-> call[f].q, by |-> f,
                                      ask |-> call[f].ask, at |-> "open"])
             /\ call' = [call EXCEPT ![f].at = "bought", ![f].deal = Len(deal) + 1]
    <2>1. [sym |-> call[f].sym, q |-> call[f].q, by |-> f, ask |-> call[f].ask, at |-> "open"]
              \in DealRecord
      BY <1>2 DEF CallRecord, DealRecord, DealStates
    <2>2. PICK e \in DealRecord : /\ deal' = Append(deal, e) /\ e.by = f
                                  /\ e.ask = call[f].ask
      BY <1>3, <2>1
    <2>3. IF halted THEN asks' <= atHalt ELSE asks' <= MaxAsks /\ atHalt = MaxAsks
      BY DEF SessionInv, AsksAreBounded
    <2>4. asks' \in Nat /\ asks <= asks' /\ e.ask <= asks'
      BY <1>2, <2>2
    <2>5. QED
      BY <1>1, <1>3, <2>2, <2>3, <2>4, NewDealKeeps
  <1>4. CASE call' = [call EXCEPT ![f].at = "refused"] /\ deal' = deal
    <2>1. [call[f] EXCEPT !.at = "refused"] \in CallRecord
      BY <1>2 DEF CallRecord, CallStates
    <2>2. /\ call' \in [Feeds -> CallRecord] /\ call'[f].at = "refused"
          /\ call'[f].ask = call[f].ask
          /\ \A g \in Feeds : g # f => call'[g] = call[g]
      BY <1>2, <1>4, <2>1 DEF SessionInv, SessionType, CallRecord
    <2>3. SessionType' /\ AsksAreBounded' /\ CallsOwnTheirDeals'
      BY <1>1, <1>4, <2>2 DEF SessionInv, SessionType, AsksAreBounded, CallsOwnTheirDeals
    <2>4. UntoldStopsItsLoop'
      <3>1. \A i \in DOMAIN deal : deal[i].by \in Feeds
        BY DealFields DEF SessionInv
      <3>2. QED
        BY <1>1, <1>4, <2>2, <3>1 DEF SessionInv, UntoldStopsItsLoop
    <2>5. OnlyConfirmedSends'
      BY <1>1, <1>4, <2>2 DEF SessionInv, OnlyConfirmedSends, Contracts
    <2>6. QED
      BY <2>3, <2>4, <2>5 DEF SessionInv
  <1>5. QED
    BY <1>3, <1>4 DEF DerivBuys

\* A connection, and its confirmation, which is never taken back.
LEMMA ConnectionKeeps ==
    ASSUME SessionInv, Connect \/ AuthorizeReply, UNCHANGED <<mode, asks, atHalt, halted, told>>
    PROVE  SessionInv'
  <1>0. site \in [live : BOOLEAN, virtual : BOOLEAN, sdk : BOOLEAN]
    BY DerivAssumption DEF SessionInv, SessionType
  <1>1. UNCHANGED <<site, deal, call>> /\ api' \in {"none", "open"} /\ confirmed' \in BOOLEAN
        /\ (confirmed => confirmed') /\ (confirmed' => confirmed \/ site.live \/ site.virtual)
    <2>1. CASE Connect
      BY <2>1 DEF Connect, SessionInv, SessionType
    <2>2. CASE AuthorizeReply
      BY <1>0, <2>2 DEF AuthorizeReply, SessionInv, SessionType
    <2>3. QED
      BY <2>1, <2>2
  <1>2. SessionType' /\ AsksAreBounded' /\ CallsOwnTheirDeals' /\ UntoldStopsItsLoop'
    BY <1>1 DEF SessionInv, SessionType, AsksAreBounded, CallsOwnTheirDeals, UntoldStopsItsLoop
  <1>3. OnlyConfirmedSends'
    BY <1>1 DEF SessionInv, OnlyConfirmedSends, Contracts
  <1>4. QED
    BY <1>2, <1>3 DEF SessionInv

LEMMA GatewayStepKeeps == SessionInv /\ GatewayStep => SessionInv'
  <1> SUFFICES ASSUME SessionInv, GatewayStep PROVE SessionInv'
    OBVIOUS
  <1>0. UNCHANGED <<mode, asks, atHalt, halted, told>>
    BY DEF GatewayStep, controlVars, historyOfLive
  <1>1. CASE Connect \/ AuthorizeReply
    BY <1>0, <1>1, ConnectionKeeps
  <1>2. ASSUME NEW f \in Feeds, DerivBuys(f) PROVE SessionInv'
    BY <1>0, <1>2, DerivBuysKeeps
  <1>3. ASSUME NEW i \in OpenContracts, Expire(i) PROVE SessionInv'
    <2>1. /\ i \in DOMAIN deal /\ deal[i].at = "open"
          /\ deal' = [deal EXCEPT ![i].at = "expired"]
          /\ UNCHANGED <<call, site, confirmed, api>>
      BY <1>3 DEF Expire, OpenContracts, connection
    <2>2. QED
      BY <1>0, <2>1, EndedDealKeeps
  <1>4. ASSUME NEW h \in Halts, PortfolioReply(h) PROVE SessionInv'
    <2>1. UNCHANGED <<deal, call, site, confirmed, api>>
      BY <1>4 DEF PortfolioReply, connection
    <2>2. QED
      BY <1>0, <2>1, QuietStepKeeps
  <1>5. ASSUME NEW h \in Halts, SellReply(h) PROVE SessionInv'
    <2>1. PICK i \in sale[h].left :
             /\ deal' = deal \/ (deal[i].at = "open" /\ deal' = [deal EXCEPT ![i].at = "sold"])
             /\ UNCHANGED <<call, site, confirmed, api>>
      BY <1>5 DEF SellReply, connection
    <2>2. CASE deal' = deal
      BY <1>0, <2>1, <2>2, QuietStepKeeps
    <2>3. CASE i \in DOMAIN deal /\ deal[i].at = "open" /\ deal' = [deal EXCEPT ![i].at = "sold"]
      BY <1>0, <2>1, <2>3, EndedDealKeeps
    <2>4. i \notin DOMAIN deal /\ deal' = [deal EXCEPT ![i].at = "sold"] => deal' = deal
      <3>1. deal \in [1..Len(deal) -> DealRecord] /\ DOMAIN deal = 1..Len(deal)
        BY DEF SessionInv, SessionType
      <3>2. QED
        BY <3>1
    <2>5. QED
      BY <2>1, <2>2, <2>3, <2>4
  <1>6. QED
    BY <1>1, <1>2, <1>3, <1>4, <1>5 DEF GatewayStep, LiquidationStep

LEMMA BarKeeps ==
    ASSUME SessionInv, NEW f \in Feeds, NEW s \in Symbols, NEW p \in Prices,
           NEW sig \in Signals, NEW policy \in Policies, Bar(f, s, p, sig, policy)
    PROVE  SessionInv'
  <1> DEFINE q == Decided(s, p, sig, policy)
  <1>1. q \in Int /\ (q # 0 => ~halted) /\ asks < MaxAsks /\ call[f].at = "idle"
    BY DecidedType DEF Bar
  <1>2. CASE QuietBar(s, p)
    <2>1. UNCHANGED <<deal, call, mode, asks, atHalt, halted, site, confirmed, api, told>>
      BY <1>2 DEF QuietBar, gatewayVars, connection, controlVars, historyOfLive
    <2>2. QED
      BY <2>1, QuietStepKeeps
  <1>3. CASE RefusedBar(f, s, p)
    <2>1. /\ UNCHANGED <<deal, call, asks, atHalt, halted, site, confirmed, api, told>>
          /\ mode' = [mode EXCEPT ![f] = "over"]
      BY <1>3 DEF RefusedBar, Dies, gatewayVars, connection, historyOfLive
    <2>2. QED
      BY <2>1, EndOfLoopKeeps
  <1>4. CASE q # 0 /\ SentBar(f, s, p, q)
    BY <1>1, <1>4, SentBarKeeps
  <1>5. CASE q # 0 /\ StubBar(f, s, p, q)
    <2>1. /\ deal' = Append(deal, [sym |-> s, q |-> q, by |-> f, ask |-> asks + 1, at |-> "stub"])
          /\ call' = call /\ asks' = asks + 1 /\ told' = told \cup {Len(deal) + 1}
          /\ UNCHANGED <<mode, atHalt, halted, site, confirmed, api>>
      BY <1>5 DEF StubBar, StubDeal, connection, controlVars
    <2>2. asks \in Nat /\ MaxAsks \in Nat /\ asks' \in Nat /\ asks <= asks' /\ asks' <= MaxAsks
      BY <1>1, <2>1, TaskFacts DEF SessionInv, SessionType
    <2>3. [sym |-> s, q |-> q, by |-> f, ask |-> asks + 1, at |-> "stub"] \in DealRecord
      BY <1>1, <2>2 DEF DealRecord, DealStates
    <2>4. PICK e \in DealRecord : deal' = Append(deal, e) /\ e.by = f /\ e.ask = asks + 1
                                  /\ e.at = "stub"
      BY <2>1, <2>3
    <2>5. IF halted THEN asks' <= atHalt ELSE asks' <= MaxAsks /\ atHalt = MaxAsks
      BY <1>1, <1>5, <2>2 DEF SessionInv, AsksAreBounded
    <2>6. e.ask <= asks'
      BY <2>1, <2>2, <2>4
    <2>7. QED
      BY <2>1, <2>2, <2>4, <2>5, <2>6, NewDealKeeps
  <1>6. QED
    BY <1>2, <1>3, <1>4, <1>5 DEF Bar

\* The kill switch: from here no order is numbered.
LEMMA HaltKeeps ==
    ASSUME SessionInv, NEW h \in Halts, Halt(h) PROVE SessionInv'
  <1>1. /\ UNCHANGED <<deal, call, mode, asks, site, confirmed, api, told>> /\ halted' = TRUE
        /\ atHalt' = IF halted THEN atHalt ELSE asks
    BY DEF Halt, connection, controlVars
  <1>2. SessionType' /\ AsksAreBounded'
    BY <1>1 DEF SessionInv, SessionType, AsksAreBounded
  <1>3. CallsOwnTheirDeals' /\ UntoldStopsItsLoop' /\ OnlyConfirmedSends'
    BY <1>1 DEF SessionInv, CallsOwnTheirDeals, UntoldStopsItsLoop, OnlyConfirmedSends, Contracts
  <1>4. QED
    BY <1>2, <1>3 DEF SessionInv

THEOREM SessionInvIsInductive == SessionInv /\ [LiveNext]_liveVars => SessionInv'
  <1> SUFFICES ASSUME SessionInv, [LiveNext]_liveVars PROVE SessionInv'
    OBVIOUS
  <1>1. ASSUME NEW f \in Feeds, Start(f) PROVE SessionInv'
    BY <1>1, StartKeeps
  <1>2. ASSUME NEW f \in Feeds, FeedEnds(f) PROVE SessionInv'
    <2>1. /\ UNCHANGED <<deal, call, asks, atHalt, halted, site, confirmed, api, told>>
          /\ mode' = [mode EXCEPT ![f] = "over"]
      BY <1>2 DEF FeedEnds, gatewayVars, connection, historyOfLive
    <2>2. QED
      BY <2>1, EndOfLoopKeeps
  <1>3. ASSUME NEW f \in Feeds, BuyFails(f) PROVE SessionInv'
    <2>1. /\ UNCHANGED <<deal, asks, atHalt, halted, site, confirmed, api, told>>
          /\ mode' = [mode EXCEPT ![f] = "over"] /\ call' = [call EXCEPT ![f] = Idle]
      BY <1>3 DEF BuyFails, Dies, connection, historyOfLive
    <2>2. QED
      BY <2>1, EndOfLoopKeeps
  <1>4. ASSUME NEW f \in Feeds, NEW px \in Prices, NEW ms \in Latencies, BuyReturns(f, px, ms)
        PROVE  SessionInv'
    BY <1>4, BuyReturnsKeeps
  <1>5. ASSUME NEW f \in Feeds, NEW s \in Symbols, NEW p \in Prices, NEW sig \in Signals,
               NEW pol \in Policies, Bar(f, s, p, sig, pol)
        PROVE  SessionInv'
    BY <1>5, BarKeeps
  <1>6. ASSUME NEW s \in Symbols, NEW k \in Quotes, ObserveTick(s, k) PROVE SessionInv'
    <2>1. UNCHANGED <<deal, call, mode, asks, atHalt, halted, site, confirmed, api, told>>
      BY <1>6 DEF ObserveTick, connection, controlVars, historyOfLive
    <2>2. QED
      BY <2>1, QuietStepKeeps
  <1>7. CASE Stop
    <2>0. feedTask \in Feeds \/ mode' = mode
      <3>1. mode \in [Feeds -> {"absent", "live", "over"}] /\ mode' = [mode EXCEPT ![feedTask] = "over"]
        BY <1>7 DEF Stop, SessionInv, SessionType
      <3>2. QED
        BY <3>1
    <2>1. /\ UNCHANGED <<deal, call, asks, atHalt, halted, site, confirmed, api, told>>
          /\ mode' = [mode EXCEPT ![feedTask] = "over"]
      BY <1>7 DEF Stop, gatewayVars, connection, historyOfLive
    <2>2. CASE feedTask \in Feeds
      BY <2>1, <2>2, EndOfLoopKeeps
    <2>3. CASE mode' = mode
      BY <2>1, <2>3, QuietStepKeeps
    <2>4. QED
      BY <2>0, <2>2, <2>3
  <1>8. ASSUME NEW h \in Halts, Halt(h) PROVE SessionInv'
    BY <1>8, HaltKeeps
  <1>9. CASE GatewayStep
    BY <1>9, GatewayStepKeeps
  <1>10. CASE UNCHANGED liveVars
    <2>1. UNCHANGED <<deal, call, mode, asks, atHalt, halted, site, confirmed, api, told>>
      BY <1>10 DEF liveVars, gatewayVars, connection, controlVars, historyOfLive
    <2>2. QED
      BY <2>1, QuietStepKeeps
  <1>11. QED
    BY <1>1, <1>2, <1>3, <1>4, <1>5, <1>6, <1>7, <1>8, <1>9, <1>10 DEF LiveNext

THEOREM LiveSessionSafe == LiveSpec => []SessionInv
  BY InitEstablishes, SessionInvIsInductive, PTL DEF LiveSpec

\* After the kill switch Deriv executes nothing but what was already asked, in
\* whatever order the loops, the connections and the liquidation proceed.
THEOREM HaltStopsBuyingAlways == LiveSpec => []HaltStopsBuying
  <1>1. SessionInv => HaltStopsBuying
    <2> SUFFICES ASSUME SessionInv, NEW i \in DOMAIN deal PROVE deal[i].ask <= atHalt
      BY DEF HaltStopsBuying
    <2>1. deal[i].ask \in Nat /\ asks \in Nat /\ atHalt \in Nat /\ MaxAsks \in Nat
      BY DealFields, TaskFacts DEF SessionInv, SessionType
    <2>2. deal[i].ask <= asks /\ asks <= atHalt
      BY <2>1 DEF SessionInv, AsksAreBounded
    <2>3. QED
      BY <2>1, <2>2
  <1>2. QED
    BY <1>1, LiveSessionSafe, PTL

\* A contract the portfolio was not told of has stopped its loop, or is the one
\* the loop waits for.
THEOREM UntoldAlwaysStopsItsLoop == LiveSpec => []UntoldStopsItsLoop
  <1>1. SessionInv => UntoldStopsItsLoop
    BY DEF SessionInv
  <1>2. QED
    BY <1>1, LiveSessionSafe, PTL

\* The demo class never spends real money.
THEOREM NeverRealMoneyInDemo == LiveSpec => []NoRealMoneyInDemo
  <1>1. SessionInv => NoRealMoneyInDemo
    BY DEF SessionInv, OnlyConfirmedSends, NoRealMoneyInDemo
  <1>2. QED
    BY <1>1, LiveSessionSafe, PTL

-----------------------------------------------------------------------------
(* The exposure is a sum over the deals reported.  Every deal is reported   *)
(* once: a loop waits for a deal of its own, one the portfolio does not     *)
(* know, of the side and size that it sent.                                 *)

Quantities == [i \in DOMAIN deal |-> deal[i].q]
ReportedOn(s) == {i \in told : deal[i].sym = s}

CallsMatchTheirDeals ==
    \A f \in Feeds : call[f].at = "bought" =>
        LET i == call[f].deal
        IN  i \in DOMAIN deal \ told /\ deal[i].by = f
            /\ deal[i].sym = call[f].sym /\ deal[i].q = call[f].q

VolumesAreSums == \A s \in Symbols : vol[s] = SumOf(Quantities, ReportedOn(s))

ExposureInv ==
    /\ SessionInv
    /\ vol \in [Symbols -> Int] /\ avg \in [Symbols -> Int]
    /\ lastTick \in [Names -> Ticks \cup {NoQuote}]
    /\ CallsMatchTheirDeals
    /\ VolumesAreSums

\* The property's fold is such a sum.
LEMMA FoldOfQuantities ==
    ASSUME NEW T, IsFiniteSet(T), T \subseteq DOMAIN deal
    PROVE  MapThenSumSet(LAMBDA i : deal[i].q, T) = SumOf(Quantities, T)
<1> DEFINE F == Quantities
           Step(h) == [s \in SUBSET T |->
                          IF s = {} THEN 0
                          ELSE LET x == CHOOSE y \in s : TRUE IN deal[x].q + h[s \ {x}]]
<1>1. MapThenSumSet(LAMBDA i : deal[i].q, T) = (CHOOSE h : h = Step(h))[T]
  BY DEF MapThenSumSet, MapThenFoldSet
<1>2. ASSUME NEW h PROVE Step(h) = [s \in SUBSET T |-> Folded(F, h, s)]
  <2>1. ASSUME NEW s \in SUBSET T
        PROVE  Step(h)[s] = Folded(F, h, s)
    <3>1. s # {} => Picked(s) \in DOMAIN deal
      BY PickedFact
    <3> QED
      BY <3>1 DEF Folded, Picked, Quantities
  <2> QED
    BY <2>1
<1> HIDE DEF Step, F
<1>3. \E h : h = Step(h)
  <2>1. PICK h : Sums(F, T, h)
    BY AllSummed DEF Summed
  <2> QED
    BY <1>2, <2>1 DEF Sums
<1> DEFINE k == CHOOSE h : h = Step(h)
<1>4. k = Step(k)
  BY <1>3
<1> HIDE DEF k
<1>5. Sums(F, T, k)
  BY <1>2, <1>4 DEF Sums
<1>6. k[T] = SumOf(F, T)
  BY <1>5, AllSummed, SumOfSums
<1> QED
  BY <1>1, <1>6 DEF F, k

\* The deals that are counted are finitely many, and their quantities integers.
LEMMA DealNumbers ==
    ASSUME NEW ds \in Seq(DealRecord), NEW t, t \subseteq DOMAIN ds
    PROVE  IsFiniteSet(t) /\ \A i \in DOMAIN ds : ds[i].q \in Int
<1>1. ds \in [1..Len(ds) -> DealRecord] /\ Len(ds) \in Nat /\ DOMAIN ds = 1..Len(ds)
  OBVIOUS
<1>2. \A i \in DOMAIN ds : ds[i].q \in Int
  BY <1>1 DEF DealRecord
<1>3. IsFiniteSet(1..Len(ds))
  <2>1. 1 \in Int /\ Len(ds) \in Int
    BY <1>1
  <2> QED
    BY <2>1, FS_Interval
<1>4. t \subseteq 1..Len(ds)
  BY <1>1
<1>5. IsFiniteSet(t)
  BY <1>3, <1>4, FS_Subset
<1> QED
  BY <1>2, <1>5

LEMMA ReportedFacts ==
    ASSUME SessionInv
    PROVE  /\ IsFiniteSet(told) /\ told \subseteq DOMAIN deal
           /\ \A i \in DOMAIN deal : deal[i].q \in Int /\ Quantities[i] = deal[i].q
           /\ \A s : IsFiniteSet(ReportedOn(s)) /\ ReportedOn(s) \subseteq DOMAIN deal
<1>1. deal \in Seq(DealRecord) /\ told \subseteq DOMAIN deal
  BY DEF SessionInv, SessionType
<1>2. IsFiniteSet(told) /\ \A i \in DOMAIN deal : deal[i].q \in Int
  BY <1>1, DealNumbers
<1>3. \A s : ReportedOn(s) \subseteq told
  BY DEF ReportedOn
<1> QED
  BY <1>1, <1>2, <1>3, FS_Subset DEF Quantities

\* What a deal was is never changed.
DealsKept ==
    /\ DOMAIN deal \subseteq DOMAIN deal'
    /\ \A i \in DOMAIN deal :
          deal'[i].sym = deal[i].sym /\ deal'[i].q = deal[i].q /\ deal'[i].by = deal[i].by

LEMMA NothingTold ==
    ASSUME ExposureInv, SessionInv', DealsKept, UNCHANGED <<told, vol>>
    PROVE  VolumesAreSums'
<1> SUFFICES ASSUME NEW s \in Symbols
             PROVE  vol[s] = SumOf(Quantities', ReportedOn(s)')
  BY DEF VolumesAreSums
<1>1. told \subseteq DOMAIN deal /\ IsFiniteSet(ReportedOn(s)) /\ ReportedOn(s) \subseteq DOMAIN deal
  BY ReportedFacts DEF ExposureInv
<1>2. ReportedOn(s)' = ReportedOn(s)
  BY <1>1 DEF ReportedOn, DealsKept
<1>3. \A i \in ReportedOn(s) : Quantities[i] = Quantities'[i]
  BY <1>1 DEF DealsKept, Quantities
<1> DEFINE F == Quantities
           G == Quantities'
           T == ReportedOn(s)
<1> HIDE DEF F, G, T
<1>4. SumOf(F, T) = SumOf(G, T)
  BY <1>1, <1>3, SumSame DEF F, G, T
<1>5. vol[s] = SumOf(Quantities, ReportedOn(s))
  BY DEF ExposureInv, VolumesAreSums
<1> QED
  BY <1>2, <1>4, <1>5 DEF F, G, T

LEMMA OneTold ==
    ASSUME ExposureInv, SessionInv', DealsKept,
           NEW d \in DOMAIN deal', d \notin told, told' = told \cup {d},
           NEW s \in Symbols, NEW q \in Int, deal'[d].sym = s, deal'[d].q = q,
           vol' = [vol EXCEPT ![s] = vol[s] + q]
    PROVE  VolumesAreSums'
<1> SUFFICES ASSUME NEW x \in Symbols
             PROVE  vol'[x] = SumOf(Quantities', ReportedOn(x)')
  BY DEF VolumesAreSums
<1>1. told \subseteq DOMAIN deal /\ IsFiniteSet(ReportedOn(x)) /\ ReportedOn(x) \subseteq DOMAIN deal
  BY ReportedFacts DEF ExposureInv
<1>2. /\ \A i \in DOMAIN deal' : Quantities'[i] = deal'[i].q
      /\ \A i \in DOMAIN deal' : deal'[i].q \in Int
      /\ IsFiniteSet(ReportedOn(x)') /\ ReportedOn(x)' \subseteq DOMAIN deal'
  <2>1. deal' \in Seq(DealRecord) /\ told' \subseteq DOMAIN deal'
    BY DEF SessionInv, SessionType
  <2>2. IsFiniteSet(told') /\ \A i \in DOMAIN deal' : deal'[i].q \in Int
    BY <2>1, DealNumbers
  <2>3. ReportedOn(x)' \subseteq told'
    BY DEF ReportedOn
  <2>4. IsFiniteSet(ReportedOn(x)') /\ ReportedOn(x)' \subseteq DOMAIN deal'
    BY <2>1, <2>2, <2>3, FS_Subset
  <2> QED
    BY <2>2, <2>4 DEF Quantities
<1>3. ReportedOn(x)' = ReportedOn(x) \cup (IF x = s THEN {d} ELSE {})
  BY <1>1 DEF ReportedOn, DealsKept
<1>4. \A i \in ReportedOn(x) : Quantities[i] = Quantities'[i]
  BY <1>1 DEF DealsKept, Quantities
<1> DEFINE F == Quantities
           G == Quantities'
           T == ReportedOn(x)
           U == ReportedOn(x)'
<1> HIDE DEF F, G, T, U
<1>5. SumOf(F, T) = SumOf(G, T)
  BY <1>1, <1>4, SumSame DEF F, G, T
<1>6. vol \in [Symbols -> Int] /\ vol[x] = SumOf(F, T)
  BY DEF ExposureInv, VolumesAreSums, F, T
<1>7. CASE x # s
  <2>1. U = T /\ vol'[x] = vol[x]
    BY <1>3, <1>6, <1>7 DEF U, T
  <2> QED
    BY <1>5, <1>6, <2>1 DEF G, U
<1>8. CASE x = s
  <2>1. U = T \cup {d} /\ d \notin T /\ d \in U
    BY <1>3, <1>8 DEF U, T, ReportedOn
  <2>2. U \ {d} = T
    BY <2>1
  <2>3. IsFiniteSet(U) /\ (\A i \in U : G[i] \in Int) /\ G[d] = q
    BY <1>2, <2>1 DEF U, G
  <2>4. SumOf(G, U) = G[d] + SumOf(G, U \ {d})
    BY <2>1, <2>3, SumWithout
  <2>5. vol'[x] = vol[x] + q /\ vol[x] \in Int
    BY <1>6, <1>8
  <2> QED
    BY <1>5, <1>6, <2>2, <2>3, <2>4, <2>5 DEF G, U
<1> QED
  BY <1>7, <1>8

\* A loop that waits for a deal waited for it before, or it has just been opened.
LEMMA MatchKept ==
    ASSUME ExposureInv, DealsKept,
           \A g \in Feeds : call'[g].at = "bought" =>
              \/ call'[g] = call[g] /\ call[g].deal \notin told'
              \/ /\ call'[g].deal \in DOMAIN deal' \ told'
                 /\ deal'[call'[g].deal].by = g
                 /\ deal'[call'[g].deal].sym = call'[g].sym
                 /\ deal'[call'[g].deal].q = call'[g].q
    PROVE  CallsMatchTheirDeals'
<1> SUFFICES ASSUME NEW g \in Feeds, call'[g].at = "bought"
             PROVE  /\ call'[g].deal \in DOMAIN deal' \ told'
                    /\ deal'[call'[g].deal].by = g
                    /\ deal'[call'[g].deal].sym = call'[g].sym
                    /\ deal'[call'[g].deal].q = call'[g].q
  BY DEF CallsMatchTheirDeals
<1>1. CASE call'[g] = call[g] /\ call[g].deal \notin told'
  <2>1. /\ call[g].deal \in DOMAIN deal
        /\ deal[call[g].deal].by = g
        /\ deal[call[g].deal].sym = call[g].sym /\ deal[call[g].deal].q = call[g].q
    BY <1>1 DEF ExposureInv, CallsMatchTheirDeals
  <2> QED
    BY <1>1, <2>1 DEF DealsKept
<1> QED
  BY <1>1

\* A step that tells the portfolio of no deal, and after which no more loops wait.
LEMMA QuietExposure ==
    ASSUME ExposureInv, SessionInv', DealsKept, UNCHANGED <<told, vol, avg>>,
           lastTick' \in [Names -> Ticks \cup {NoQuote}],
           \A g \in Feeds : call'[g] = call[g] \/ call'[g].at # "bought"
    PROVE  ExposureInv'
<1>1. CallsMatchTheirDeals'
  <2>1. \A g \in Feeds : call'[g].at = "bought" =>
           call'[g] = call[g] /\ call[g].deal \notin told'
    BY DEF ExposureInv, CallsMatchTheirDeals
  <2> QED
    BY <2>1, MatchKept
<1>2. VolumesAreSums'
  BY NothingTold
<1> QED
  BY <1>1, <1>2 DEF ExposureInv

LEMMA SameDealsKept == ASSUME deal' = deal PROVE DealsKept
BY DEF DealsKept

LEMMA EndedDealsKept ==
    ASSUME SessionInv, NEW i, NEW a, deal' = [deal EXCEPT ![i].at = a]
    PROVE  DealsKept
<1>1. deal \in [1..Len(deal) -> DealRecord] /\ DOMAIN deal = 1..Len(deal)
  BY DEF SessionInv, SessionType
<1>2. DOMAIN deal' = DOMAIN deal /\ \A j \in DOMAIN deal : deal[j] \in DealRecord
  BY <1>1
<1> QED
  BY <1>2 DEF DealsKept, DealRecord

LEMMA AppendedDealsKept ==
    ASSUME SessionInv, NEW e \in DealRecord, deal' = Append(deal, e)
    PROVE  /\ DealsKept
           /\ Len(deal) + 1 \in DOMAIN deal' /\ Len(deal) + 1 \notin told
           /\ deal'[Len(deal) + 1] = e
<1>1. deal \in Seq(DealRecord) /\ told \subseteq DOMAIN deal
  BY DEF SessionInv, SessionType
<1> QED
  BY <1>1, DealAppended DEF DealsKept

\* The loop whose call is answered with a contract waits for it.
LEMMA BoughtExposure ==
    ASSUME ExposureInv, SessionInv', NEW f \in Feeds,
           deal' = Append(deal, [sym |-> call[f].sym, q |-> call[f].q, by |-> f,
                                 ask |-> call[f].ask, at |-> "open"]),
           call' = [call EXCEPT ![f].at = "bought", ![f].deal = Len(deal) + 1],
           UNCHANGED <<told, vol, avg, lastTick>>
    PROVE  ExposureInv'
<1>1. SessionInv /\ call \in [Feeds -> CallRecord]
  BY DEF ExposureInv, SessionInv, SessionType
<1>2. [sym |-> call[f].sym, q |-> call[f].q, by |-> f, ask |-> call[f].ask, at |-> "open"]
          \in DealRecord
  BY <1>1 DEF CallRecord, DealRecord, DealStates
<1>3. PICK e \in DealRecord : /\ deal' = Append(deal, e) /\ e.sym = call[f].sym
                              /\ e.q = call[f].q /\ e.by = f
  BY <1>2
<1>4. /\ DealsKept /\ Len(deal) + 1 \in DOMAIN deal' /\ Len(deal) + 1 \notin told
      /\ deal'[Len(deal) + 1] = e
  BY <1>1, <1>3, AppendedDealsKept
<1>5. /\ \A g \in Feeds : g # f => call'[g] = call[g]
      /\ call'[f].deal = Len(deal) + 1
      /\ call'[f].sym = call[f].sym /\ call'[f].q = call[f].q
  BY <1>1 DEF CallRecord
<1>6. CallsMatchTheirDeals'
  <2>1. ASSUME NEW g \in Feeds, call'[g].at = "bought"
        PROVE  \/ call'[g] = call[g] /\ call[g].deal \notin told'
               \/ /\ call'[g].deal \in DOMAIN deal' \ told'
                  /\ deal'[call'[g].deal].by = g
                  /\ deal'[call'[g].deal].sym = call'[g].sym
                  /\ deal'[call'[g].deal].q = call'[g].q
    <3>1. CASE g = f
      BY <1>3, <1>4, <1>5, <3>1
    <3>2. CASE g # f
      BY <1>5, <2>1, <3>2 DEF ExposureInv, CallsMatchTheirDeals
    <3> QED
      BY <3>1, <3>2
  <2> QED
    BY <1>4, <2>1, MatchKept
<1>7. VolumesAreSums'
  BY <1>4, NothingTold
<1> QED
  BY <1>6, <1>7 DEF ExposureInv

\* The portfolio is told of the deal a loop waited for, which was no other loop's.
LEMMA ReturnedExposure ==
    ASSUME ExposureInv, SessionInv', NEW f \in Feeds, NEW px \in Prices, NEW ms,
           BuyReturns(f, px, ms)
    PROVE  ExposureInv'
<1> DEFINE d == call[f].deal
<1>1. /\ call[f].at = "bought" /\ OnFill(call[f].sym, call[f].q, px, 0)
      /\ told' = told \cup {d} /\ call' = [call EXCEPT ![f] = Idle]
      /\ UNCHANGED <<deal, lastTick>>
  BY DEF BuyReturns
<1>2. /\ SessionInv /\ call \in [Feeds -> CallRecord]
      /\ d \in DOMAIN deal \ told /\ deal[d].by = f
      /\ deal[d].sym = call[f].sym /\ deal[d].q = call[f].q
  BY <1>1 DEF ExposureInv, SessionInv, SessionType, CallsMatchTheirDeals
<1>3. PICK s \in Symbols, q \in Int : s = call[f].sym /\ q = call[f].q
  BY <1>2 DEF CallRecord
<1>4. /\ vol \in [Symbols -> Int] /\ avg \in [Symbols -> Int] /\ px \in Int
  BY PortfolioAssumption DEF ExposureInv
<1>5. /\ FillOutcome(vol[s], avg[s], q, px).v = vol[s] + q
      /\ FillOutcome(vol[s], avg[s], q, px).a \in Int
  <2>1. vol[s] \in Int /\ avg[s] \in Int /\ px \in Int
    BY <1>4
  <2>2. \A w \in Int, e \in Int : /\ FillOutcome(w, e, q, px).v = w + q
                                  /\ FillOutcome(w, e, q, px).out = q * px
                                  /\ FillOutcome(w, e, q, px).a \in Int
    BY <2>1, OutcomeTyped
  <2> QED
    BY <2>1, <2>2
<1>6. /\ vol' = [vol EXCEPT ![s] = vol[s] + q]
      /\ vol' \in [Symbols -> Int] /\ avg' \in [Symbols -> Int]
  <2>1. /\ vol' = [vol EXCEPT ![s] = FillOutcome(vol[s], avg[s], q, px).v]
        /\ avg' = [avg EXCEPT ![s] = FillOutcome(vol[s], avg[s], q, px).a]
    BY <1>1, <1>3 DEF OnFill
  <2> QED
    BY <1>4, <1>5, <2>1
<1>7. DealsKept
  BY <1>1, SameDealsKept
<1>8. VolumesAreSums'
  BY <1>1, <1>2, <1>3, <1>6, <1>7, OneTold
<1>9. CallsMatchTheirDeals'
  <2>1. ASSUME NEW g \in Feeds, call'[g].at = "bought"
        PROVE  call'[g] = call[g] /\ call[g].deal \notin told'
    <3>1. call'[g] = call[g] /\ g # f
      BY <1>1, <1>2, <2>1, TaskFacts
    <3>2. call[g].deal \notin told /\ deal[call[g].deal].by = g
      BY <2>1, <3>1 DEF ExposureInv, CallsMatchTheirDeals
    <3> QED
      BY <1>1, <1>2, <3>1, <3>2
  <2> QED
    BY <1>7, <2>1, MatchKept
<1> QED
  BY <1>1, <1>6, <1>8, <1>9 DEF ExposureInv

\* A simulated deal is told at once.
LEMMA StubExposure ==
    ASSUME ExposureInv, SessionInv', NEW f \in Feeds, NEW s \in Symbols, NEW p,
           NEW q \in Int, StubBar(f, s, p, q)
    PROVE  ExposureInv'
<1> DEFINE px == ExecutionPrice(s, q)
<1>1. /\ deal' = Append(deal, [sym |-> s, q |-> q, by |-> f, ask |-> asks + 1, at |-> "stub"])
      /\ call' = call /\ told' = told \cup {Len(deal) + 1} /\ lastTick' = lastTick
      /\ TickFor(s) # NoQuote /\ BarAndFill(s, p, q, px)
  BY DEF StubBar, StubDeal, CannotExecute
<1>2. SessionInv /\ asks \in Nat
  BY DEF ExposureInv, SessionInv, SessionType
<1>3. [sym |-> s, q |-> q, by |-> f, ask |-> asks + 1, at |-> "stub"] \in DealRecord
  BY <1>2 DEF DealRecord, DealStates
<1>4. PICK e \in DealRecord : deal' = Append(deal, e) /\ e.sym = s /\ e.q = q
  BY <1>1, <1>3
<1>5. /\ DealsKept /\ Len(deal) + 1 \in DOMAIN deal' /\ Len(deal) + 1 \notin told
      /\ deal'[Len(deal) + 1] = e
  BY <1>2, <1>4, AppendedDealsKept
<1>6. vol \in [Symbols -> Int] /\ avg \in [Symbols -> Int] /\ px \in Int
  <2>1. TickFor(s) \in Ticks
    BY <1>1, TickFacts DEF ExposureInv, TickFor
  <2>2. TickFor(s).bid \in Int /\ TickFor(s).ask \in Int
    BY <2>1, TickFacts
  <2> QED
    BY <2>2 DEF ExposureInv, ExecutionPrice
<1> HIDE DEF px
<1>7. /\ FillOutcome(vol[s], avg[s], q, px).v = vol[s] + q
      /\ FillOutcome(vol[s], avg[s], q, px).a \in Int
  <2>1. vol[s] \in Int /\ avg[s] \in Int /\ px \in Int
    BY <1>6
  <2>2. \A w \in Int, m \in Int : /\ FillOutcome(w, m, q, px).v = w + q
                                  /\ FillOutcome(w, m, q, px).out = q * px
                                  /\ FillOutcome(w, m, q, px).a \in Int
    BY <2>1, OutcomeTyped
  <2> QED
    BY <2>1, <2>2
<1>8. /\ vol' = [vol EXCEPT ![s] = vol[s] + q]
      /\ vol' \in [Symbols -> Int] /\ avg' \in [Symbols -> Int]
  <2>1. /\ vol' = [vol EXCEPT ![s] = FillOutcome(vol[s], avg[s], q, px).v]
        /\ avg' = [avg EXCEPT ![s] = FillOutcome(vol[s], avg[s], q, px).a]
    BY <1>1 DEF BarAndFill
  <2> QED
    BY <1>6, <1>7, <2>1
<1>9. VolumesAreSums'
  BY <1>1, <1>4, <1>5, <1>8, OneTold
<1>10. CallsMatchTheirDeals'
  <2>1. ASSUME NEW g \in Feeds, call'[g].at = "bought"
        PROVE  call'[g] = call[g] /\ call[g].deal \notin told'
    <3>1. deal \in Seq(DealRecord)
      BY <1>2 DEF SessionInv, SessionType
    <3>2. Len(deal) + 1 \notin DOMAIN deal
      BY <3>1
    <3> QED
      BY <1>1, <2>1, <3>2 DEF ExposureInv, CallsMatchTheirDeals
  <2> QED
    BY <1>5, <2>1, MatchKept
<1> QED
  BY <1>1, <1>8, <1>9, <1>10 DEF ExposureInv

LEMMA InitialExposure == LiveInit => ExposureInv
<1> SUFFICES ASSUME LiveInit PROVE ExposureInv
  OBVIOUS
<1>1. SessionInv
  BY InitEstablishes
<1>2. /\ told = {} /\ vol = [s \in Symbols |-> 0] /\ avg = [s \in Symbols |-> 0]
      /\ lastTick = [n \in Names |-> NoQuote]
      /\ \A f \in Feeds : call[f].at # "bought"
  BY TaskFacts DEF LiveInit, PortfolioInit, GatewayInit
<1>3. VolumesAreSums
  <2>1. \A s \in Symbols : ReportedOn(s) = {} /\ vol[s] = 0
    BY <1>2 DEF ReportedOn
  <2>2. SumOf(Quantities, {}) = 0
    BY SumEmpty
  <2> QED
    BY <2>1, <2>2 DEF VolumesAreSums
<1> QED
  BY <1>1, <1>2, <1>3 DEF ExposureInv, CallsMatchTheirDeals

LEMMA BarExposure ==
    ASSUME ExposureInv, SessionInv', NEW f \in Feeds, NEW s \in Symbols, NEW p \in Prices,
           NEW sig \in Signals, NEW policy \in Policies, Bar(f, s, p, sig, policy)
    PROVE  ExposureInv'
<1> DEFINE q == Decided(s, p, sig, policy)
<1>1. q \in Int
  BY DecidedType
<1>2. CASE QuietBar(s, p)
  <2>1. UNCHANGED <<deal, told, vol, avg, lastTick, call>>
    BY <1>2 DEF QuietBar, OnMarket, gatewayVars, historyOfLive
  <2> QED
    BY <2>1, SameDealsKept, QuietExposure DEF ExposureInv
<1>3. CASE RefusedBar(f, s, p)
  <2>1. UNCHANGED <<deal, told, vol, avg, lastTick, call>>
    BY <1>3 DEF RefusedBar, OnMarket, gatewayVars, historyOfLive
  <2> QED
    BY <2>1, SameDealsKept, QuietExposure DEF ExposureInv
<1>4. CASE SentBar(f, s, p, q)
  <2>1. /\ UNCHANGED <<deal, told, vol, avg, lastTick>>
        /\ call' = [call EXCEPT ![f] = [at |-> "sent", sym |-> s, q |-> q, ask |-> asks + 1,
                                        deal |-> 0]]
    BY <1>4 DEF SentBar, Buying, OnMarket
  <2>2. call \in [Feeds -> CallRecord]
    BY DEF ExposureInv, SessionInv, SessionType
  <2>3. \A g \in Feeds : call'[g] = call[g] \/ call'[g].at # "bought"
    BY <2>1, <2>2
  <2> QED
    BY <2>1, <2>3, SameDealsKept, QuietExposure DEF ExposureInv
<1>5. CASE StubBar(f, s, p, q)
  BY <1>1, <1>5, StubExposure
<1> QED
  BY <1>2, <1>3, <1>4, <1>5 DEF Bar

LEMMA GatewayStepExposure ==
    ASSUME ExposureInv, SessionInv', GatewayStep PROVE ExposureInv'
<1>0. UNCHANGED <<told, vol, avg>>
  BY DEF GatewayStep, historyOfLive, portfolioVars, bookVars
<1>1. SessionInv /\ call \in [Feeds -> CallRecord]
      /\ lastTick \in [Names -> Ticks \cup {NoQuote}]
  BY DEF ExposureInv, SessionInv, SessionType
<1>2. CASE Connect \/ AuthorizeReply
  <2>1. UNCHANGED <<deal, call, lastTick>>
    BY <1>2 DEF Connect, AuthorizeReply
  <2> QED
    BY <1>0, <1>1, <2>1, SameDealsKept, QuietExposure
<1>3. ASSUME NEW f \in Feeds, DerivBuys(f) PROVE ExposureInv'
  <2>1. lastTick' = lastTick
    BY <1>3 DEF DerivBuys
  <2>2. CASE call' = [call EXCEPT ![f].at = "refused"] /\ deal' = deal
    <3>1. \A g \in Feeds : call'[g] = call[g] \/ call'[g].at # "bought"
      BY <1>1, <2>2 DEF CallRecord
    <3> QED
      BY <1>0, <1>1, <2>1, <2>2, <3>1, SameDealsKept, QuietExposure
  <2>3. CASE /\ deal' = Append(deal, [sym |-> call[f].sym, q |-> call[f].q, by |-> f,
                                      ask |-> call[f].ask, at |-> "open"])
             /\ call' = [call EXCEPT ![f].at = "bought", ![f].deal = Len(deal) + 1]
    BY <1>0, <2>1, <2>3, BoughtExposure
  <2> QED
    BY <1>3, <2>2, <2>3 DEF DerivBuys
<1>4. ASSUME NEW i \in OpenContracts, Expire(i) PROVE ExposureInv'
  <2>1. UNCHANGED <<call, lastTick>> /\ deal' = [deal EXCEPT ![i].at = "expired"]
    BY <1>4 DEF Expire
  <2> QED
    BY <1>0, <1>1, <2>1, EndedDealsKept, QuietExposure
<1>5. ASSUME NEW h \in Halts, PortfolioReply(h) PROVE ExposureInv'
  <2>1. UNCHANGED <<deal, call, lastTick>>
    BY <1>5 DEF PortfolioReply
  <2> QED
    BY <1>0, <1>1, <2>1, SameDealsKept, QuietExposure
<1>6. ASSUME NEW h \in Halts, SellReply(h) PROVE ExposureInv'
  <2>1. PICK i \in sale[h].left :
           /\ deal' = deal \/ deal' = [deal EXCEPT ![i].at = "sold"]
           /\ UNCHANGED <<call, lastTick>>
    BY <1>6 DEF SellReply
  <2>2. DealsKept
    BY <1>1, <2>1, SameDealsKept, EndedDealsKept
  <2> QED
    BY <1>0, <1>1, <2>1, <2>2, QuietExposure
<1> QED
  BY <1>2, <1>3, <1>4, <1>5, <1>6 DEF GatewayStep, LiquidationStep

LEMMA ExposureInvIsInductive == ExposureInv /\ [LiveNext]_liveVars => ExposureInv'
<1> SUFFICES ASSUME ExposureInv, [LiveNext]_liveVars PROVE ExposureInv'
  OBVIOUS
<1>0. SessionInv'
  BY SessionInvIsInductive DEF ExposureInv
<1>a. call \in [Feeds -> CallRecord] /\ lastTick \in [Names -> Ticks \cup {NoQuote}]
  BY DEF ExposureInv, SessionInv, SessionType
<1>1. ASSUME NEW f \in Feeds, Start(f) \/ FeedEnds(f) PROVE ExposureInv'
  <2>1. UNCHANGED <<deal, told, vol, avg, lastTick, call>>
    BY <1>1 DEF Start, FeedEnds, gatewayVars, portfolioVars, bookVars, historyOfLive
  <2> QED
    BY <1>0, <1>a, <2>1, SameDealsKept, QuietExposure
<1>2. ASSUME NEW f \in Feeds, BuyFails(f) PROVE ExposureInv'
  <2>1. UNCHANGED <<deal, told, vol, avg, lastTick>> /\ call' = [call EXCEPT ![f] = Idle]
    BY <1>2 DEF BuyFails, portfolioVars, bookVars, historyOfLive
  <2>2. \A g \in Feeds : call'[g] = call[g] \/ call'[g].at # "bought"
    BY <1>a, <2>1, TaskFacts
  <2> QED
    BY <1>0, <1>a, <2>1, <2>2, SameDealsKept, QuietExposure
<1>3. ASSUME NEW f \in Feeds, NEW px \in Prices, NEW ms \in Latencies, BuyReturns(f, px, ms)
      PROVE  ExposureInv'
  BY <1>0, <1>3, ReturnedExposure
<1>4. ASSUME NEW f \in Feeds, NEW s \in Symbols, NEW p \in Prices, NEW sig \in Signals,
             NEW pol \in Policies, Bar(f, s, p, sig, pol)
      PROVE  ExposureInv'
  BY <1>0, <1>4, BarExposure
<1>5. ASSUME NEW s \in Symbols, NEW k \in Quotes, ObserveTick(s, k) PROVE ExposureInv'
  <2>1. /\ UNCHANGED <<deal, told, vol, avg, call>>
        /\ lastTick' = [lastTick EXCEPT ![NameOf[s]] = Tick(s, k)]
    BY <1>5 DEF ObserveTick, GatewayTick, portfolioVars, bookVars, historyOfLive
  <2>2. lastTick' \in [Names -> Ticks \cup {NoQuote}]
    BY <1>a, <2>1, TickFacts
  <2> QED
    BY <1>0, <2>1, <2>2, SameDealsKept, QuietExposure
<1>6. CASE Stop \/ UNCHANGED liveVars
  <2>1. UNCHANGED <<deal, told, vol, avg, lastTick, call>>
    BY <1>6 DEF Stop, liveVars, gatewayVars, portfolioVars, bookVars, historyOfLive
  <2> QED
    BY <1>0, <1>a, <2>1, SameDealsKept, QuietExposure
<1>7. ASSUME NEW h \in Halts, Halt(h) PROVE ExposureInv'
  <2>1. UNCHANGED <<deal, told, vol, avg, lastTick, call>>
    BY <1>7 DEF Halt, portfolioVars, bookVars
  <2> QED
    BY <1>0, <1>a, <2>1, SameDealsKept, QuietExposure
<1>8. CASE GatewayStep
  BY <1>0, <1>8, GatewayStepExposure
<1> QED
  BY <1>1, <1>2, <1>3, <1>4, <1>5, <1>6, <1>7, <1>8 DEF LiveNext

\* Through lost answers, cancelled loops, connections that come and go, sales and
\* expirations, the exposure the risk gate reads is the sum of the orders executed
\* and reported, each once, at the side and size that was sent.
THEOREM ExposureIsAlwaysWhatWasTold == LiveSpec => []ExposureIsWhatWasTold
<1>1. ExposureInv => ExposureIsWhatWasTold
  <2> SUFFICES ASSUME ExposureInv, NEW s \in Symbols
               PROVE  vol[s] = MapThenSumSet(LAMBDA i : deal[i].q,
                                             {i \in told : deal[i].sym = s})
    BY Zenon DEF ExposureIsWhatWasTold
  <2>1. IsFiniteSet(ReportedOn(s)) /\ ReportedOn(s) \subseteq DOMAIN deal
    BY ReportedFacts DEF ExposureInv
  <2>2. MapThenSumSet(LAMBDA i : deal[i].q, ReportedOn(s)) = SumOf(Quantities, ReportedOn(s))
    BY <2>1, FoldOfQuantities
  <2>3. vol[s] = SumOf(Quantities, ReportedOn(s))
    BY DEF ExposureInv, VolumesAreSums
  <2>4. vol[s] = MapThenSumSet(LAMBDA i : deal[i].q, ReportedOn(s))
    BY <2>2, <2>3, Zenon
  <2> QED
    BY <2>4, Zenon DEF ReportedOn
<1>2. LiveSpec => []ExposureInv
  BY InitialExposure, ExposureInvIsInductive, PTL DEF LiveSpec
<1> QED
  BY <1>1, <1>2, PTL

-----------------------------------------------------------------------------
\* What the council is told of the market is the broker's own quotation, when that is
\* of the same symbol, and what it is told of the execution is the last one, or nothing
\* before the first.
MarketInv ==
    /\ lastTick \in [Names -> Ticks \cup {NoQuote}]
    /\ spread = [s \in Symbols |-> spread[s]]
    /\ \A s \in Symbols : TickFor(s) # NoQuote /\ TickFor(s).sym = s =>
          spread[s] = TickFor(s).ask - TickFor(s).bid
    /\ lastExec \in Nat
    /\ latency = lastExec \/ (latency = NoFeature /\ lastExec = 0)

\* The two safety agents cannot be outvoted, whatever the others say and whatever
\* the policy weighs.
LEMMA OrdersAreNotVetoed ==
    ASSUME NEW ctx, NEW policy, OrderVolume(Verdict(ctx, policy)) # 0
    PROVE  /\ ~(ctx.spread # NoFeature /\ ctx.spread > MaxSpread)
           /\ ~(ctx.latency # NoFeature /\ ctx.latency > MaxLatency)
<1>1. ~Vetoed(ctx)
  BY DEF OrderVolume, Verdict
<1>2. /\ VoteOf("LiquidityAgent", ctx) = LiquidityVote(ctx)
      /\ VoteOf("ExecutionAgent", ctx) = ExecutionVote(ctx)
  BY DEF VoteOf
<1>3. /\ ~(LiquidityVote(ctx).vote = "WAIT" /\ LiquidityVote(ctx).conf >= 80)
      /\ ~(ExecutionVote(ctx).vote = "WAIT" /\ ExecutionVote(ctx).conf >= 80)
  BY <1>1, <1>2 DEF Vetoed, SafetyAgents
<1> QED
  BY <1>3 DEF LiquidityVote, ExecutionVote, Vote

\* An order is decided on the quotation it is executed at, or its namesake is executed.
LEMMA DecidedOnSoundMarket ==
    ASSUME MarketInv, NEW s \in Symbols, NEW p, NEW sig, NEW policy,
           Decided(s, p, sig, policy) # 0, TickFor(s) # NoQuote
    PROVE  /\ TickFor(s).sym = s => TickFor(s).ask - TickFor(s).bid <= MaxSpread
           /\ lastExec <= MaxLatency
<1> DEFINE ctx == Context(s, sig)
<1>1. OrderVolume(Verdict(ctx, policy)) # 0
  BY DEF Decided
<1>2. ctx.spread = spread[s] /\ ctx.latency = latency
  BY DEF Context
<1>3. /\ ~(spread[s] # NoFeature /\ spread[s] > MaxSpread)
      /\ ~(latency # NoFeature /\ latency > MaxLatency)
  BY <1>1, <1>2, OrdersAreNotVetoed
<1>4. TickFor(s).ask \in Nat /\ TickFor(s).bid \in Nat
  <2>1. TickFor(s) \in Ticks
    BY TickFacts DEF MarketInv, TickFor
  <2> QED
    BY <2>1, TickFacts
<1>5. TickFor(s).sym = s => spread[s] = TickFor(s).ask - TickFor(s).bid
  BY DEF MarketInv
<1>6. ASSUME TickFor(s).sym = s PROVE TickFor(s).ask - TickFor(s).bid <= MaxSpread
  <2> DEFINE d == TickFor(s).ask - TickFor(s).bid
  <2>1. d \in Int /\ spread[s] = d /\ MaxSpread \in Nat /\ NoFeature \notin Nat
    BY <1>4, <1>5, <1>6, CouncilAssumption
  <2>2. ~(d # NoFeature /\ d > MaxSpread)
    BY <1>3, <2>1
  <2> HIDE DEF d
  <2>3. d <= MaxSpread
    <3>1. CASE d = NoFeature
      BY <3>1, <2>1
    <3>2. CASE d # NoFeature
      BY <3>2, <2>1, <2>2
    <3> QED
      BY <3>1, <3>2
  <2> QED
    BY <2>3 DEF d
<1>7. lastExec <= MaxLatency
  BY <1>3, CouncilAssumption DEF MarketInv
<1> QED
  BY <1>6, <1>7

LEMMA InitialMarket == LiveInit => MarketInv
<1> SUFFICES ASSUME LiveInit PROVE MarketInv
  OBVIOUS
<1>1. /\ lastTick = [n \in Names |-> NoQuote] /\ spread = [s \in Symbols |-> NoFeature]
      /\ latency = NoFeature /\ lastExec = 0
  BY DEF LiveInit, GatewayInit
<1>2. \A s \in Symbols : TickFor(s) = NoQuote
  BY <1>1, TickFacts DEF TickFor
<1> QED
  BY <1>1, <1>2 DEF MarketInv

LEMMA MarketInvIsInductive == MarketInv /\ [LiveNext]_liveVars => MarketInv'
<1> SUFFICES ASSUME MarketInv, [LiveNext]_liveVars PROVE MarketInv'
  OBVIOUS
<1>1. CASE UNCHANGED <<lastTick, spread, latency, lastExec>>
  BY <1>1 DEF MarketInv, TickFor
<1>2. ASSUME NEW f \in Feeds, NEW px \in Prices, NEW ms \in Latencies, BuyReturns(f, px, ms)
      PROVE  MarketInv'
  <2>1. UNCHANGED <<lastTick, spread>> /\ latency' = ms /\ lastExec' = ms /\ ms \in Nat
    BY <1>2, LiveAssumption DEF BuyReturns
  <2> QED
    BY <2>1 DEF MarketInv, TickFor
<1>3. ASSUME NEW f \in Feeds, NEW s \in Symbols, NEW p \in Prices, NEW q,
             StubBar(f, s, p, q)
      PROVE  MarketInv'
  <2>1. UNCHANGED <<lastTick, spread>> /\ latency' = 0 /\ lastExec' = 0
    BY <1>3 DEF StubBar
  <2> QED
    BY <2>1 DEF MarketInv, TickFor
<1>4. ASSUME NEW s \in Symbols, NEW k \in Quotes, ObserveTick(s, k) PROVE MarketInv'
  <2>1. /\ spread' = [spread EXCEPT ![s] = k.ask - k.bid]
        /\ lastTick' = [lastTick EXCEPT ![NameOf[s]] = Tick(s, k)]
        /\ UNCHANGED <<latency, lastExec>>
    BY <1>4 DEF ObserveTick, GatewayTick, historyOfLive
  <2>2. lastTick \in [Names -> Ticks \cup {NoQuote}] /\ spread = [r \in Symbols |-> spread[r]]
    BY DEF MarketInv
  <2>3. lastTick' \in [Names -> Ticks \cup {NoQuote}] /\ spread' = [r \in Symbols |-> spread'[r]]
    BY <2>1, <2>2, TickFacts
  <2>4. ASSUME NEW r \in Symbols, TickFor(r)' # NoQuote, TickFor(r)'.sym = r
        PROVE  spread'[r] = TickFor(r)'.ask - TickFor(r)'.bid
    <3>1. Tick(s, k).sym = s /\ Tick(s, k).ask = k.ask /\ Tick(s, k).bid = k.bid
      BY DEF Tick
    <3>2. CASE NameOf[r] = NameOf[s]
      <4>1. TickFor(r)' = Tick(s, k)
        BY <2>1, <2>2, <3>2, TickFacts DEF TickFor
      <4>2. r = s
        BY <2>4, <3>1, <4>1
      <4> QED
        BY <2>1, <2>2, <3>1, <4>1, <4>2
    <3>3. CASE NameOf[r] # NameOf[s]
      <4>1. TickFor(r)' = TickFor(r) /\ r # s
        BY <2>1, <2>2, <3>3, TickFacts DEF TickFor
      <4>2. spread'[r] = spread[r]
        BY <2>1, <2>2, <4>1
      <4> QED
        BY <2>4, <4>1, <4>2 DEF MarketInv
    <3> QED
      BY <3>2, <3>3
  <2> QED
    BY <2>1, <2>3, <2>4 DEF MarketInv
<1>5. ASSUME NEW f \in Feeds, NEW s \in Symbols, NEW p \in Prices, NEW sig \in Signals,
             NEW pol \in Policies, Bar(f, s, p, sig, pol)
      PROVE  MarketInv'
  <2>1. \/ QuietBar(s, p) \/ RefusedBar(f, s, p)
        \/ \E q : SentBar(f, s, p, q) \/ StubBar(f, s, p, q)
    BY <1>5 DEF Bar
  <2>2. \A q : SentBar(f, s, p, q) => UNCHANGED <<lastTick, spread, latency, lastExec>>
    BY DEF SentBar, providerVars
  <2>3. QuietBar(s, p) \/ RefusedBar(f, s, p) => UNCHANGED <<lastTick, spread, latency, lastExec>>
    BY DEF QuietBar, RefusedBar, gatewayVars, providerVars, historyOfLive
  <2> QED
    BY <1>1, <1>3, <2>1, <2>2, <2>3
<1>6. ASSUME NEW f \in Feeds, Start(f) \/ FeedEnds(f) \/ BuyFails(f) PROVE MarketInv'
  BY <1>1, <1>6 DEF Start, FeedEnds, BuyFails, gatewayVars, providerVars, historyOfLive
<1>7. ASSUME NEW h \in Halts, Halt(h) PROVE MarketInv'
  BY <1>1, <1>7 DEF Halt, providerVars
<1>8. CASE Stop \/ UNCHANGED liveVars
  BY <1>1, <1>8 DEF Stop, liveVars, gatewayVars, providerVars, historyOfLive
<1>9. CASE GatewayStep
  <2>1. UNCHANGED <<spread, latency, lastExec>>
    BY <1>9 DEF GatewayStep, providerVars, historyOfLive
  <2>2. UNCHANGED lastTick
    BY <1>9 DEF GatewayStep, Connect, AuthorizeReply, DerivBuys, Expire, LiquidationStep,
                PortfolioReply, SellReply
  <2> QED
    BY <1>1, <2>1, <2>2
<1> QED
  BY <1>2, <1>4, <1>5, <1>6, <1>7, <1>8, <1>9 DEF LiveNext

\* An order leaves for the gateway only on a quotation of acceptable spread, the one it
\* will be executed at unless a symbol of the same name was quoted since, and after an
\* execution that was not slow: no policy and no majority sends it otherwise.
THEOREM OrdersOnlyEverOnSoundMarket == LiveSpec => OrdersOnlyOnSoundMarket
<1> DEFINE Sound == \E s \in Symbols :
                       /\ Leaves(s) /\ TickFor(s) # NoQuote
                       /\ TickFor(s).sym = s => TickFor(s).ask - TickFor(s).bid <= MaxSpread
                       /\ lastExec <= MaxLatency
<1>1. SessionInv /\ MarketInv /\ [LiveNext]_liveVars => [asks' # asks => Sound]_liveVars
  <2> SUFFICES ASSUME SessionInv, MarketInv, [LiveNext]_liveVars, asks' # asks PROVE Sound
    OBVIOUS
  <2>1. PICK f \in Feeds, s \in Symbols, p \in Prices, sig \in Signals, pol \in Policies :
            Bar(f, s, p, sig, pol)
    BY DEF LiveNext, liveVars, Start, FeedEnds, BuyFails, BuyReturns, ObserveTick, Stop, Halt,
           GatewayStep, historyOfLive
  <2>2. Decided(s, p, sig, pol) # 0 /\ TickFor(s) # NoQuote
    BY <2>1 DEF Bar, QuietBar, RefusedBar, SentBar, StubBar, CannotExecute, historyOfLive
  <2>3. PICK q : SentBar(f, s, p, q) \/ StubBar(f, s, p, q)
    BY <2>1 DEF Bar, QuietBar, RefusedBar, historyOfLive
  <2>4. Leaves(s)
    <3>1. CASE SentBar(f, s, p, q)
      <4>1. call' = [call EXCEPT ![f] = [at |-> "sent", sym |-> s, q |-> q, ask |-> asks + 1,
                                         deal |-> 0]]
            /\ asks' = asks + 1
        BY <3>1 DEF SentBar, Buying
      <4>2. call'[f].ask = asks' /\ call'[f].sym = s
        BY <4>1 DEF SessionInv, SessionType
      <4> QED
        BY <4>2 DEF Leaves
    <3>2. CASE StubBar(f, s, p, q)
      <4> DEFINE e == [sym |-> s, q |-> q, by |-> f, ask |-> asks + 1, at |-> "stub"]
      <4>1. deal' = Append(deal, e)
        BY <3>2 DEF StubBar, StubDeal
      <4>2. deal \in Seq(DealRecord)
        BY DEF SessionInv, SessionType
      <4>3. Len(deal') = Len(deal) + 1 /\ deal'[Len(deal')] = e
        BY <4>1, <4>2
      <4> QED
        BY <4>2, <4>3 DEF Leaves
    <3> QED
      BY <2>3, <3>1, <3>2
  <2> QED
    BY <2>2, <2>4, DecidedOnSoundMarket
<1>2. LiveSpec => []MarketInv
  BY InitialMarket, MarketInvIsInductive, PTL DEF LiveSpec
<1>3. LiveSpec => []SessionInv
  BY InitEstablishes, SessionInvIsInductive, PTL DEF LiveSpec
<1>4. LiveSpec => [][asks' # asks => Sound]_liveVars
  BY <1>1, <1>2, <1>3, PTL DEF LiveSpec
<1> QED
  BY <1>4 DEF OrdersOnlyOnSoundMarket
-----------------------------------------------------------------------------
Sold == {i \in DOMAIN deal : deal[i].at = "sold"}
Claims == [h \in Halts |-> sale[h].count]

SaleRecord == [at : {"absent", "listing1", "selling1", "listing2", "selling2", "over"},
               left : SUBSET Nat, count : Nat, error : BOOLEAN, reported : BOOLEAN]

\* A contract is counted in the step that sells it, and is not open again.
ClaimsInv ==
    /\ SessionInv
    /\ sale \in [Halts -> SaleRecord]
    /\ \A h \in Halts : sale[h].left \subseteq DOMAIN deal
    /\ SumOf(Claims, Halts) <= Cardinality(Sold)

LEMMA DealIds ==
    ASSUME SessionInv
    PROVE  IsFiniteSet(DOMAIN deal) /\ DOMAIN deal \subseteq Nat /\ IsFiniteSet(Sold)
<1>1. deal \in Seq(DealRecord)
  BY DEF SessionInv, SessionType
<1>2. DOMAIN deal = 1..Len(deal) /\ Len(deal) \in Nat
  BY <1>1
<1>3. IsFiniteSet(DOMAIN deal)
  BY <1>1, DealNumbers
<1> QED
  BY <1>2, <1>3, FS_Subset DEF Sold

LEMMA PhaseFacts ==
    ASSUME NEW x \in SaleRecord, NEW y \in {Over(x), NextPhase(x), Failed(x)}
    PROVE  y \in SaleRecord /\ y.count = x.count /\ y.left = {}
  BY DEF Over, NextPhase, Failed, Propagates, SaleRecord

\* What was sold stays sold.
LEMMA SoldKept ==
    ASSUME SessionInv,
           \/ deal' = deal
           \/ \E d \in DealRecord : deal' = Append(deal, d)
           \/ \E i \in DOMAIN deal, a \in {"sold", "expired"} :
                 deal[i].at = "open" /\ deal' = [deal EXCEPT ![i].at = a]
    PROVE  Sold \subseteq Sold' /\ DOMAIN deal \subseteq DOMAIN deal'
<1>1. deal \in Seq(DealRecord)
  BY DEF SessionInv, SessionType
<1>2. ASSUME NEW d \in DealRecord, deal' = Append(deal, d)
      PROVE  Sold \subseteq Sold' /\ DOMAIN deal \subseteq DOMAIN deal'
  BY <1>1, <1>2, DealAppended DEF Sold
<1>3. ASSUME NEW i \in DOMAIN deal, NEW a \in {"sold", "expired"}, deal[i].at = "open",
             deal' = [deal EXCEPT ![i].at = a]
      PROVE  Sold \subseteq Sold' /\ DOMAIN deal \subseteq DOMAIN deal'
  <2>1. DOMAIN deal' = DOMAIN deal /\ \A j \in DOMAIN deal \ {i} : deal'[j] = deal[j]
    BY <1>3
  <2> QED
    BY <1>3, <2>1 DEF Sold
<1> QED
  BY <1>2, <1>3 DEF Sold

\* Steps in which no liquidation counts anything.
LEMMA NothingClaimed ==
    ASSUME IsFiniteSet(Halts), ClaimsInv, SessionInv', sale' \in [Halts -> SaleRecord],
           \A h \in Halts : sale'[h].left \subseteq DOMAIN deal' /\ sale'[h].count = sale[h].count,
           Sold \subseteq Sold'
    PROVE  ClaimsInv'
<1>1. Claims' = Claims
  BY DEF Claims
<1>2. IsFiniteSet(Sold') /\ IsFiniteSet(Sold)
  <2>1. IsFiniteSet(DOMAIN deal')
    <3>1. deal' \in Seq(DealRecord)
      BY DEF SessionInv, SessionType
    <3> QED
      BY <3>1, DealNumbers
  <2>2. Sold' \subseteq DOMAIN deal'
    BY DEF Sold
  <2> QED
    BY <2>1, <2>2, DealIds, FS_Subset DEF ClaimsInv
<1>3. Cardinality(Sold) <= Cardinality(Sold')
      /\ Cardinality(Sold) \in Nat /\ Cardinality(Sold') \in Nat
  BY <1>2, FS_Subset, FS_CardinalityType
<1>4. SumOf(Claims, Halts) \in Int
  <2>1. \A h \in Halts : Claims[h] \in Int
    BY DEF Claims, ClaimsInv, SaleRecord
  <2> QED
    BY <2>1, SumTyped
<1>5. SumOf(Claims', Halts) <= Cardinality(Sold')
  BY <1>1, <1>3, <1>4 DEF ClaimsInv
<1> QED
  BY <1>5 DEF ClaimsInv

\* A sale that is answered: one contract more is sold, one more is counted.
LEMMA OneClaimed ==
    ASSUME IsFiniteSet(Halts), ClaimsInv, SessionInv', NEW h \in Halts, NEW i \in DOMAIN deal,
           deal[i].at = "open", deal' = [deal EXCEPT ![i].at = "sold"],
           NEW x \in SaleRecord, sale' = [sale EXCEPT ![h] = x],
           x.left \subseteq DOMAIN deal, x.count = sale[h].count + 1
    PROVE  ClaimsInv'
<1>1. Sold' = Sold \cup {i} /\ i \notin Sold /\ DOMAIN deal' = DOMAIN deal
  <2>1. deal \in [1..Len(deal) -> DealRecord] /\ DOMAIN deal = 1..Len(deal)
    BY DEF ClaimsInv, SessionInv, SessionType
  <2>2. /\ DOMAIN deal' = DOMAIN deal /\ deal'[i].at = "sold"
        /\ \A j \in DOMAIN deal \ {i} : deal'[j] = deal[j]
    BY <2>1 DEF DealRecord
  <2> QED
    BY <2>2 DEF Sold
<1>2. Cardinality(Sold') = Cardinality(Sold) + 1 /\ Cardinality(Sold) \in Nat
  <2>1. IsFiniteSet(Sold)
    BY DealIds DEF ClaimsInv
  <2> QED
    BY <1>1, <2>1, FS_AddElement, FS_CardinalityType
<1>3. sale \in [Halts -> SaleRecord]
  BY DEF ClaimsInv
<1>4. sale' \in [Halts -> SaleRecord] /\ \A g \in Halts : sale'[g].left \subseteq DOMAIN deal'
  BY <1>1, <1>3 DEF ClaimsInv
<1>5. /\ \A g \in Halts : Claims[g] \in Int /\ Claims'[g] \in Int
      /\ \A g \in Halts \ {h} : Claims[g] = Claims'[g]
      /\ Claims'[h] = Claims[h] + 1
  BY <1>3, <1>4 DEF Claims, SaleRecord
<1> DEFINE F == Claims
           G == Claims'
<1> HIDE DEF F, G
<1>6. SumOf(G, Halts) = SumOf(F, Halts) - F[h] + G[h]
  BY <1>5, SumChange DEF F, G
<1>7. SumOf(F, Halts) \in Int
  BY <1>5, SumTyped DEF F
<1>8. F[h] \in Int /\ G[h] = F[h] + 1
  BY <1>5 DEF F, G
<1>9. SumOf(F, Halts) <= Cardinality(Sold)
  BY DEF ClaimsInv, F
<1>10. SumOf(G, Halts) <= Cardinality(Sold')
  BY <1>2, <1>6, <1>7, <1>8, <1>9
<1>11. SumOf(Claims', Halts) <= Cardinality(Sold')
  BY <1>10 DEF G
<1> QED
  BY <1>4, <1>11 DEF ClaimsInv

\* Steps of a liquidation that count nothing.
LEMMA PhaseClaims ==
    ASSUME IsFiniteSet(Halts), ClaimsInv, SessionInv', NEW h \in Halts,
           NEW x \in SaleRecord, sale' = [sale EXCEPT ![h] = x],
           x.left \subseteq DOMAIN deal, x.count = sale[h].count,
           Sold \subseteq Sold', DOMAIN deal \subseteq DOMAIN deal'
    PROVE  ClaimsInv'
<1>1. sale' \in [Halts -> SaleRecord]
  BY DEF ClaimsInv
<1>2. \A g \in Halts : sale'[g].left \subseteq DOMAIN deal' /\ sale'[g].count = sale[g].count
  BY DEF ClaimsInv
<1> QED
  BY <1>1, <1>2, NothingClaimed

LEMMA SaleUntouched ==
    ASSUME IsFiniteSet(Halts), ClaimsInv, SessionInv', sale' = sale,
           \/ deal' = deal
           \/ \E d \in DealRecord : deal' = Append(deal, d)
           \/ \E i \in DOMAIN deal, a \in {"sold", "expired"} :
                 deal[i].at = "open" /\ deal' = [deal EXCEPT ![i].at = a]
    PROVE  ClaimsInv'
<1>1. Sold \subseteq Sold' /\ DOMAIN deal \subseteq DOMAIN deal'
  BY SoldKept DEF ClaimsInv
<1> QED
  BY <1>1, NothingClaimed DEF ClaimsInv

LEMMA LiquidationClaims ==
    ASSUME IsFiniteSet(Halts), ClaimsInv, SessionInv', NEW h \in Halts, LiquidationStep(h)
    PROVE  ClaimsInv'
<1> DEFINE x == sale[h]
<1>1. x \in SaleRecord /\ x.left \subseteq DOMAIN deal /\ SessionInv
  BY DEF ClaimsInv
<1>2. DOMAIN deal \subseteq Nat /\ OpenContracts \subseteq DOMAIN deal
  BY <1>1, DealIds DEF OpenContracts
<1>3. CASE PortfolioReply(h)
  <2> DEFINE y == [x EXCEPT !.at = IF x.at = "listing1" THEN "selling1" ELSE "selling2",
                            !.left = OpenContracts]
  <2>1. deal' = deal
    BY <1>3 DEF PortfolioReply
  <2>2. Sold \subseteq Sold' /\ DOMAIN deal \subseteq DOMAIN deal'
    BY <1>1, <2>1, SoldKept
  <2>3. y \in SaleRecord /\ y.count = x.count /\ y.left \subseteq DOMAIN deal
    BY <1>1, <1>2 DEF SaleRecord
  <2>a. \/ sale' = [sale EXCEPT ![h] = IF OpenContracts = {} THEN NextPhase(x) ELSE y]
        \/ sale' = [sale EXCEPT ![h] = Failed(x)]
    BY <1>3 DEF PortfolioReply
  <2> HIDE DEF y
  <2>4. PICK z \in {NextPhase(x), y, Failed(x)} : sale' = [sale EXCEPT ![h] = z]
    <3>1. CASE OpenContracts = {}
      BY <2>a, <3>1
    <3>2. CASE OpenContracts # {}
      BY <2>a, <3>2
    <3> QED
      BY <3>1, <3>2
  <2>5. z \in SaleRecord /\ z.left \subseteq DOMAIN deal /\ z.count = x.count
    BY <1>1, <2>3, <2>4, PhaseFacts
  <2> QED
    BY <2>2, <2>4, <2>5, PhaseClaims
<1>4. CASE SellReply(h)
  <2>1. PICK i \in x.left :
           LET open == deal[i].at = "open"
               sold == [deal EXCEPT ![i].at = "sold"]
               counted == [sale[h] EXCEPT !.count = @ + 1, !.left = @ \ {i}]
           IN  \/ /\ open
                  /\ deal' = sold
                  /\ sale' = [sale EXCEPT ![h] =
                        IF counted.left = {} THEN NextPhase(counted) ELSE counted]
               \/ /\ deal' \in {deal} \cup (IF open THEN {sold} ELSE {})
                  /\ sale' = [sale EXCEPT ![h] = Failed(@)]
    BY <1>4 DEF SellReply
  <2> DEFINE counted == [x EXCEPT !.count = @ + 1, !.left = @ \ {i}]
             z == IF counted.left = {} THEN NextPhase(counted) ELSE counted
  <2>2. i \in DOMAIN deal
    BY <1>1
  <2>3. counted \in SaleRecord /\ counted.count = x.count + 1 /\ counted.left \subseteq DOMAIN deal
    <3>1. /\ x.count + 1 \in Nat
          /\ x.left \ {i} \subseteq Nat /\ x.left \ {i} \subseteq DOMAIN deal
      BY <1>1 DEF SaleRecord
    <3>2. counted = [x EXCEPT !.count = x.count + 1, !.left = x.left \ {i}]
      OBVIOUS
    <3> HIDE DEF counted, x
    <3> QED
      BY <1>1, <3>1, <3>2 DEF SaleRecord
  <2>4. z \in SaleRecord /\ z.count = x.count + 1 /\ z.left \subseteq DOMAIN deal
    <3> HIDE DEF counted
    <3> QED
      BY <2>3, PhaseFacts
  <2>5. CASE /\ deal[i].at = "open" /\ deal' = [deal EXCEPT ![i].at = "sold"]
             /\ sale' = [sale EXCEPT ![h] = z]
    <3> HIDE DEF z
    <3> QED
      BY <2>2, <2>4, <2>5, OneClaimed
  <2>6. CASE /\ deal' = deal \/ (deal[i].at = "open" /\ deal' = [deal EXCEPT ![i].at = "sold"])
             /\ sale' = [sale EXCEPT ![h] = Failed(x)]
    <3>1. Sold \subseteq Sold' /\ DOMAIN deal \subseteq DOMAIN deal'
      BY <1>1, <2>2, <2>6, SoldKept
    <3>2. Failed(x) \in SaleRecord /\ Failed(x).left = {} /\ Failed(x).count = x.count
      BY <1>1, PhaseFacts
    <3> QED
      BY <2>6, <3>1, <3>2, PhaseClaims
  <2> QED
    BY <2>1, <2>5, <2>6
<1> QED
  BY <1>3, <1>4 DEF LiquidationStep

LEMMA GatewayStepClaims ==
    ASSUME IsFiniteSet(Halts), ClaimsInv, SessionInv', GatewayStep PROVE ClaimsInv'
<1>1. CASE Connect \/ AuthorizeReply
  BY <1>1, SaleUntouched DEF Connect, AuthorizeReply
<1>2. ASSUME NEW f \in Feeds, DerivBuys(f) PROVE ClaimsInv'
  <2> DEFINE d == [sym |-> call[f].sym, q |-> call[f].q, by |-> f,
                   ask |-> call[f].ask, at |-> "open"]
  <2>1. sale' = sale /\ (deal' = deal \/ deal' = Append(deal, d))
    BY <1>2 DEF DerivBuys
  <2>2. d \in DealRecord
    BY DEF ClaimsInv, SessionInv, SessionType, CallRecord, DealRecord, DealStates
  <2> HIDE DEF d
  <2> QED
    BY <2>1, <2>2, SaleUntouched
<1>3. ASSUME NEW i \in OpenContracts, Expire(i) PROVE ClaimsInv'
  <2>1. /\ i \in DOMAIN deal /\ deal[i].at = "open" /\ sale' = sale
        /\ deal' = [deal EXCEPT ![i].at = "expired"]
    BY <1>3 DEF Expire, OpenContracts
  <2> QED
    BY <2>1, SaleUntouched
<1> QED
  BY <1>1, <1>2, <1>3, LiquidationClaims DEF GatewayStep

\* The bars: at most a deal filled at once.
LEMMA BarClaims ==
    ASSUME IsFiniteSet(Halts), ClaimsInv, SessionInv', NEW f \in Feeds, NEW s \in Symbols,
           NEW p \in Prices, NEW sig \in Signals, NEW pol \in Policies, Bar(f, s, p, sig, pol)
    PROVE  ClaimsInv'
<1> DEFINE q == Decided(s, p, sig, pol)
<1>1. q \in Int /\ asks \in Nat
  BY DecidedType DEF ClaimsInv, SessionInv, SessionType
<1>2. CASE QuietBar(s, p) \/ RefusedBar(f, s, p)
  BY <1>2, SaleUntouched DEF QuietBar, RefusedBar, gatewayVars
<1>3. CASE SentBar(f, s, p, q)
  BY <1>3, SaleUntouched DEF SentBar, Buying
<1>4. CASE StubBar(f, s, p, q)
  <2> DEFINE d == [sym |-> s, q |-> q, by |-> f, ask |-> asks + 1, at |-> "stub"]
  <2>1. deal' = Append(deal, d) /\ sale' = sale
    BY <1>4 DEF StubBar, StubDeal
  <2>2. d \in DealRecord
    BY <1>1 DEF DealRecord, DealStates
  <2> HIDE DEF d
  <2> QED
    BY <2>1, <2>2, SaleUntouched
<1> QED
  BY <1>2, <1>3, <1>4 DEF Bar

LEMMA ClaimsInvIsInductive ==
    ASSUME IsFiniteSet(Halts) PROVE ClaimsInv /\ [LiveNext]_liveVars => ClaimsInv'
<1> SUFFICES ASSUME ClaimsInv, [LiveNext]_liveVars PROVE ClaimsInv'
  OBVIOUS
<1>0. SessionInv'
  BY SessionInvIsInductive DEF ClaimsInv
<1>1. CASE UNCHANGED <<deal, sale>>
  BY <1>0, <1>1, SaleUntouched
<1>2. ASSUME NEW f \in Feeds, Start(f) \/ FeedEnds(f) \/ BuyFails(f) PROVE ClaimsInv'
  BY <1>1, <1>2 DEF Start, FeedEnds, BuyFails, gatewayVars
<1>3. ASSUME NEW f \in Feeds, NEW px \in Prices, NEW ms \in Latencies, BuyReturns(f, px, ms)
      PROVE  ClaimsInv'
  BY <1>1, <1>3 DEF BuyReturns
<1>4. ASSUME NEW s \in Symbols, NEW k \in Quotes, ObserveTick(s, k) PROVE ClaimsInv'
  BY <1>1, <1>4 DEF ObserveTick
<1>5. CASE Stop \/ UNCHANGED liveVars
  BY <1>1, <1>5 DEF Stop, liveVars, gatewayVars
<1>6. ASSUME NEW h \in Halts, Halt(h) PROVE ClaimsInv'
  <2> DEFINE y == IF api = "none" THEN Over(sale[h]) ELSE [sale[h] EXCEPT !.at = "listing1"]
  <2>1. sale' = [sale EXCEPT ![h] = y] /\ deal' = deal
    BY <1>6 DEF Halt, Liquidation
  <2>2. sale[h] \in SaleRecord /\ sale[h].left \subseteq DOMAIN deal /\ SessionInv
    BY DEF ClaimsInv
  <2>3. y \in SaleRecord /\ y.count = sale[h].count /\ y.left \subseteq DOMAIN deal
    BY <2>2, PhaseFacts DEF SaleRecord
  <2>4. Sold \subseteq Sold' /\ DOMAIN deal \subseteq DOMAIN deal'
    BY <2>1, <2>2, SoldKept
  <2> HIDE DEF y
  <2> QED
    BY <1>0, <2>1, <2>3, <2>4, PhaseClaims
<1>7. CASE GatewayStep
  BY <1>0, <1>7, GatewayStepClaims
<1> QED
  BY <1>0, <1>2, <1>3, <1>4, <1>5, <1>6, <1>7, BarClaims DEF LiveNext

LEMMA FoldOfClaims ==
    ASSUME IsFiniteSet(Halts)
    PROVE  MapThenSumSet(LAMBDA h : sale[h].count, Halts) = SumOf(Claims, Halts)
<1> DEFINE F == Claims
           Step(f) == [s \in SUBSET Halts |->
                          IF s = {} THEN 0
                          ELSE LET x == CHOOSE y \in s : TRUE IN sale[x].count + f[s \ {x}]]
<1>1. MapThenSumSet(LAMBDA h : sale[h].count, Halts) = (CHOOSE f : f = Step(f))[Halts]
  BY DEF MapThenSumSet, MapThenFoldSet
<1>2. ASSUME NEW f PROVE Step(f) = [s \in SUBSET Halts |-> Folded(F, f, s)]
  <2>1. ASSUME NEW s \in SUBSET Halts
        PROVE  Step(f)[s] = Folded(F, f, s)
    <3>1. s # {} => Picked(s) \in Halts
      BY PickedFact
    <3> QED
      BY <3>1 DEF Folded, Picked, Claims
  <2> QED
    BY <2>1
<1> HIDE DEF Step, F
<1>3. \E f : f = Step(f)
  <2>1. PICK f : Sums(F, Halts, f)
    BY AllSummed DEF Summed
  <2> QED
    BY <1>2, <2>1 DEF Sums
<1> DEFINE k == CHOOSE f : f = Step(f)
<1>4. k = Step(k)
  BY <1>3
<1> HIDE DEF k
<1>5. Sums(F, Halts, k)
  BY <1>2, <1>4 DEF Sums
<1>6. k[Halts] = SumOf(F, Halts)
  BY <1>5, AllSummed, SumOfSums
<1> QED
  BY <1>1, <1>6 DEF F, k

LEMMA InitialClaims == ASSUME IsFiniteSet(Halts) PROVE LiveInit => ClaimsInv
<1> SUFFICES ASSUME LiveInit PROVE ClaimsInv
  OBVIOUS
<1>1. SessionInv
  BY InitEstablishes
<1>2. sale = [h \in Halts |-> NotSelling] /\ deal = <<>>
  BY TaskFacts DEF LiveInit, GatewayInit
<1>3. \A h \in Halts : sale[h] \in SaleRecord /\ sale[h].count = 0 /\ sale[h].left = {}
  BY <1>2 DEF NotSelling, SaleRecord
<1>4. SumOf(Claims, Halts) = SumOf(Claims, {})
  <2>1. \A h \in Halts : Claims[h] = 0
    BY <1>3 DEF Claims
  <2> QED
    BY <2>1, SumOfPart
<1>5. Cardinality(Sold) \in Nat
  BY <1>1, DealIds, FS_CardinalityType
<1> QED
  BY <1>1, <1>2, <1>3, <1>4, <1>5, SumEmpty DEF ClaimsInv

\* Through expirations, lost answers and sales that fail half way, by any number of
\* kill switches at once, the contracts that the reports claim were sold were sold,
\* each once.
THEOREM ReportsAlwaysClaimOnlySales ==
    ASSUME IsFiniteSet(Halts) PROVE LiveSpec => []ReportsClaimOnlySales
<1>1. ClaimsInv => ReportsClaimOnlySales
  <2> SUFFICES ASSUME ClaimsInv
               PROVE  MapThenSumSet(LAMBDA h : sale[h].count, Halts) <= Cardinality(Sold)
    BY Zenon DEF ReportsClaimOnlySales, Sold
  <2>1. MapThenSumSet(LAMBDA h : sale[h].count, Halts) = SumOf(Claims, Halts)
    BY FoldOfClaims
  <2>2. SumOf(Claims, Halts) <= Cardinality(Sold)
    BY DEF ClaimsInv
  <2> QED
    BY <2>1, <2>2, Zenon
<1>2. LiveSpec => []ClaimsInv
  BY InitialClaims, ClaimsInvIsInductive, PTL DEF LiveSpec
<1> QED
  BY <1>1, <1>2, PTL
-----------------------------------------------------------------------------
(* The risk portfolio of a live session is an account like any other: what  *)
(* the session does to it is fills of whole units at a price, and prices.   *)

\* A loop that is buying is not buying nothing.
CallsReal == \A f \in Feeds : call[f].at # "idle" => call[f].q # 0

LEMMA SameCallsReal ==
    ASSUME CallsReal, \A f \in Feeds : call'[f] = call[f] \/ call'[f].at = "idle"
                                       \/ (call[f].at # "idle" /\ call'[f].q = call[f].q)
    PROVE  CallsReal'
BY DEF CallsReal

\* An order that finds no connection is filled on the bar that decided it.
LEMMA StubIsBooked ==
    ASSUME BookInv, ExposureInv, NEW f \in Feeds, NEW s \in Symbols, NEW p \in Prices,
           NEW q \in Int \ {0}, StubBar(f, s, p, q)
    PROVE  PortfolioEvent
<1> DEFINE px == ExecutionPrice(s, q)
<1>1. TickFor(s) # NoQuote /\ BarAndFill(s, p, q, px)
  BY DEF StubBar, CannotExecute
<1>2. px \in Nat \ {0}
  <2>1. TickFor(s) \in Ticks
    BY <1>1, TickFacts DEF ExposureInv, TickFor
  <2>2. TickFor(s).bid \in Nat \ {0} /\ TickFor(s).ask \in Nat \ {0}
    BY <2>1, TickFacts
  <2> QED
    BY <2>2 DEF ExecutionPrice
<1> HIDE DEF px
<1>3. Booked(s, q, px, 0)
  <2> DEFINE o == FillOutcome(vol[s], avg[s], q, px)
  <2>1. cash \in Int /\ fees + 0 = fees
    BY DEF BookInv, BookTypeOK
  <2>2. o.out \in Int
    <3>1. q \in Int /\ px \in Int /\ vol[s] \in Int /\ avg[s] \in Int
      BY <1>2 DEF BookInv, BookTypeOK
    <3> HIDE DEF o
    <3>2. \A w \in Int, m \in Int : FillOutcome(w, m, q, px).out = q * px
      BY <3>1, OutcomeTyped
    <3>3. o.out = q * px
      BY <3>1, <3>2 DEF o
    <3> QED
      BY <3>1, <3>3
  <2>3. cash - 0 - o.out = cash - o.out
    BY <2>1, <2>2
  <2> QED
    BY <1>1, <2>1, <2>3 DEF BarAndFill, Booked
<1> QED
  BY <1>1, <1>2, <1>3 DEF PortfolioEvent

LEMMA LiveMovesPortfolio ==
    ASSUME BookInv, ExposureInv, CallsReal, [LiveNext]_liveVars
    PROVE  CallsReal' /\ [PortfolioEvent]_portfolioVars
<1>0. call \in [Feeds -> CallRecord] /\ SessionInv
  BY DEF ExposureInv, SessionInv, SessionType
<1>1. ASSUME NEW f \in Feeds, Start(f) \/ FeedEnds(f)
      PROVE  CallsReal' /\ [PortfolioEvent]_portfolioVars
  <2>1. UNCHANGED <<portfolioVars, call>>
    BY <1>1 DEF Start, FeedEnds, gatewayVars
  <2> QED
    BY <2>1, SameCallsReal
<1>2. ASSUME NEW f \in Feeds, BuyFails(f)
      PROVE  CallsReal' /\ [PortfolioEvent]_portfolioVars
  <2>1. UNCHANGED portfolioVars /\ call' = [call EXCEPT ![f] = Idle]
    BY <1>2 DEF BuyFails
  <2>2. \A g \in Feeds : call'[g] = call[g] \/ call'[g].at = "idle"
    BY <1>0, <2>1, TaskFacts
  <2> QED
    BY <2>1, <2>2, SameCallsReal
<1>3. ASSUME NEW f \in Feeds, NEW px \in Prices, NEW ms \in Latencies, BuyReturns(f, px, ms)
      PROVE  CallsReal' /\ [PortfolioEvent]_portfolioVars
  <2>1. /\ OnFill(call[f].sym, call[f].q, px, 0) /\ call[f].at = "bought"
        /\ call' = [call EXCEPT ![f] = Idle]
    BY <1>3 DEF BuyReturns
  <2>2. \A g \in Feeds : call'[g] = call[g] \/ call'[g].at = "idle"
    BY <1>0, <2>1, TaskFacts
  <2>3. call[f].sym \in Symbols /\ call[f].q \in Int \ {0}
    <3>1. call[f] \in CallRecord
      BY <1>0
    <3> QED
      BY <2>1, <3>1 DEF CallRecord, CallsReal
  <2>4. px \in Nat \ {0} /\ 0 \in Nat
    BY PortfolioAssumption
  <2>5. PortfolioEvent
    BY <2>1, <2>3, <2>4, FillIsEvent
  <2> QED
    BY <2>2, <2>5, SameCallsReal
<1>4. ASSUME NEW f \in Feeds, NEW s \in Symbols, NEW p \in Prices, NEW sig \in Signals,
             NEW pol \in Policies, Bar(f, s, p, sig, pol)
      PROVE  CallsReal' /\ [PortfolioEvent]_portfolioVars
  <2> DEFINE q == Decided(s, p, sig, pol)
  <2>1. q \in Int
    BY DecidedType
  <2>2. CASE QuietBar(s, p) \/ RefusedBar(f, s, p)
    <3>1. OnMarket(s, p) /\ call' = call
      BY <2>2 DEF QuietBar, RefusedBar, gatewayVars
    <3> QED
      BY <3>1, SameCallsReal DEF PortfolioEvent
  <2>3. CASE q # 0 /\ SentBar(f, s, p, q)
    <3>1. /\ OnMarket(s, p)
          /\ call' = [call EXCEPT ![f] = [at |-> "sent", sym |-> s, q |-> q, ask |-> asks + 1,
                                          deal |-> 0]]
      BY <2>3 DEF SentBar, Buying
    <3> HIDE DEF q
    <3>2. CallsReal'
      BY <1>0, <2>3, <3>1 DEF CallsReal
    <3> QED
      BY <3>1, <3>2 DEF PortfolioEvent
  <2>4. CASE q # 0 /\ StubBar(f, s, p, q)
    <3>1. call' = call
      BY <2>4 DEF StubBar, StubDeal
    <3> HIDE DEF q
    <3>2. PortfolioEvent
      BY <2>1, <2>4, StubIsBooked
    <3> QED
      BY <3>1, <3>2, SameCallsReal
  <2> QED
    BY <1>4, <2>2, <2>3, <2>4 DEF Bar
<1>5. ASSUME NEW s \in Symbols, NEW k \in Quotes, ObserveTick(s, k)
      PROVE  CallsReal' /\ [PortfolioEvent]_portfolioVars
  <2>1. UNCHANGED <<portfolioVars, call>>
    BY <1>5 DEF ObserveTick
  <2> QED
    BY <2>1, SameCallsReal
<1>6. CASE Stop \/ UNCHANGED liveVars
  <2>1. UNCHANGED <<portfolioVars, call>>
    BY <1>6 DEF Stop, liveVars, gatewayVars
  <2> QED
    BY <2>1, SameCallsReal
<1>7. ASSUME NEW h \in Halts, Halt(h) PROVE CallsReal' /\ [PortfolioEvent]_portfolioVars
  <2>1. UNCHANGED <<portfolioVars, call>>
    BY <1>7 DEF Halt
  <2> QED
    BY <2>1, SameCallsReal
<1>8. CASE GatewayStep
  <2>1. UNCHANGED portfolioVars
    BY <1>8 DEF GatewayStep
  <2>2. ASSUME NEW f \in Feeds, DerivBuys(f) PROVE CallsReal'
    <3>1. call[f].at = "sent"
          /\ (\/ call' = [call EXCEPT ![f].at = "bought", ![f].deal = Len(deal) + 1]
              \/ call' = [call EXCEPT ![f].at = "refused"])
      BY <2>2 DEF DerivBuys
    <3>2. \A g \in Feeds : call'[g] = call[g] \/ (call[g].at # "idle" /\ call'[g].q = call[g].q)
      BY <1>0, <3>1 DEF CallRecord
    <3> QED
      BY <3>2, SameCallsReal
  <2>3. CASE ~ \E f \in Feeds : DerivBuys(f)
    <3>1. call' = call
      BY <1>8, <2>3 DEF GatewayStep, Connect, AuthorizeReply, Expire, LiquidationStep,
                        PortfolioReply, SellReply
    <3> QED
      BY <2>1, <3>1, SameCallsReal
  <2> QED
    BY <2>1, <2>2, <2>3
<1> QED
  BY <1>1, <1>2, <1>3, <1>4, <1>5, <1>6, <1>7, <1>8 DEF LiveNext

\* Through lost answers, cancelled loops and fills made on the bar that decided them,
\* the risk portfolio of a live session explains its realized PnL and its equity, and
\* implements the ledger.
THEOREM LiveAccountIsSound ==
    LiveSpec => /\ []RealizedPnlExplainsCash
                /\ []EquityIsExplained
                /\ AnyLedger!Spec
<1>1. LiveInit => BookInv /\ ExposureInv /\ CallsReal /\ PortfolioInit
  <2>1. LiveInit => PortfolioInit /\ CallsReal
    BY TaskFacts DEF LiveInit, GatewayInit, CallsReal
  <2> QED
    BY <2>1, BookInitial, InitialExposure
<1>2. BookInv /\ ExposureInv /\ CallsReal /\ [LiveNext]_liveVars
        => BookInv' /\ ExposureInv' /\ CallsReal' /\ [PortfolioEvent]_portfolioVars
  BY ExposureInvIsInductive, LiveMovesPortfolio, BookInductive
<1>3. LiveSpec => AnyPortfolio
  BY <1>1, <1>2, PTL DEF LiveSpec, AnyPortfolio
<1> QED
  BY <1>3, AnyPortfolioIsSound
=============================================================================
