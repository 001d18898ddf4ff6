---------------------------- MODULE LiveRoundTrip ----------------------------
(***************************************************************************)
(* scripts/measure_deriv_live_round_trip.py, the one program of the        *)
(* repository that sends orders past the risk gate: it picks a demo        *)
(* account, opens a socket, and buys and sells one Multipliers contract    *)
(* after the other to measure what a round trip costs.  Calls are answered,*)
(* refused, answered with nonsense or cut off by the network; the user may *)
(* interrupt, twice.  Spots and costs are left out: they steer nothing.    *)
(***************************************************************************)
EXTENDS FiniteSets, Integers, Sequences, SequencesExt

CONSTANTS AccountLists,  \* the lists of [id, type, status] Deriv may answer with
          AccountIds, Anybody,  \* --account-id, or Anybody when it is not given
          Trades         \* --trades

ASSUME RoundTripAssumption ==
    Trades \in 1..20   \* validate_run_parameters, MAX_TRADES_PER_RUN

VARIABLES step,       \* the call the script is in, or "write", "over"
          sent,       \* its request has left
          requested,  \* --account-id
          accounts,   \* the answer of list_accounts
          account,    \* the account chosen
          channel,    \* "demo" or "real": what the socket is bound to; "none" before
          mine,       \* contract_id of run_round_trip; 0 before the purchase is answered
          cause,      \* what raised before the sale of last resort
          trips,      \* round_trips: the contracts of those complete
          csv,        \* the rows written
          said,       \* contracts logged as NON FERME
          \* Deriv
          contract,   \* each contract: "open", "sold" or "stopped" out
          onReal,     \* contracts of a real account
          cut,        \* the connection is lost
          interrupts,
          \* history
          known,      \* contracts whose purchase was answered
          abandoned   \* contracts whose sale of last resort the user interrupted

tripVars == <<step, sent, requested, accounts, account, channel, mine, cause, trips, csv, said,
              contract, onReal, cut, interrupts, known, abandoned>>
seen == <<known, abandoned>>
deriv == <<contract, onReal>>
chosen == <<requested, accounts, account, channel>>

NoAccount == [id |-> "", type |-> "", status |-> ""]
Calls == {"entry_spot", "buy", "exit_spot", "sell", "rescue", "settled"}
Holding == {"sleep", "exit_spot", "sell"}

RoundTripInit ==
    /\ step = "accounts" /\ sent = FALSE
    /\ requested \in AccountIds \cup {Anybody} /\ accounts \in AccountLists
    /\ account = NoAccount /\ channel = "none"
    /\ mine = 0 /\ cause = "none" /\ trips = <<>> /\ csv = <<>> /\ said = {}
    /\ contract = <<>> /\ onReal = {} /\ cut = FALSE /\ interrupts = 0
    /\ known = {} /\ abandoned = {}
-----------------------------------------------------------------------------
\* select_demo_account: the requested account when it is a demo one, or the only
\* active demo account there is.
Selected ==
    IF requested # Anybody
    THEN LET matching == SelectSeq(accounts, LAMBDA a : a.id = requested) IN
         IF matching = <<>> THEN {} ELSE {a \in {matching[1]} : a.type = "demo"}
    ELSE LET active == SelectSeq(accounts, LAMBDA a : a.type = "demo" /\ a.status = "active") IN
         IF Len(active) = 1 THEN {active[1]} ELSE {}

\* list_accounts and the choice; without one, or refused by Deriv, no order is sent.
SelectDemoAccount ==
    /\ step = "accounts"
    /\ \/ \E a \in Selected : account' = a /\ step' = "otp"
       \/ step' = "over" /\ UNCHANGED account
    /\ UNCHANGED <<sent, requested, accounts, channel, mine, cause, trips, csv, said, deriv, cut,
                   interrupts, seen>>

\* request_otp: Deriv binds the socket to a channel, and assert_demo_ws_url refuses
\* any but the demo one, whatever the list said of the account.
OpenDemoSession ==
    /\ step = "otp"
    /\ \E bound \in {"demo", "real"} :
          /\ channel' = bound
          /\ step' \in IF bound = "demo" THEN {"entry_spot", "over"} ELSE {"over"}
    /\ UNCHANGED <<sent, requested, accounts, account, mine, cause, trips, csv, said, deriv, cut,
                   interrupts, seen>>
-----------------------------------------------------------------------------
\* What Deriv does on a request it gets; a sale of a contract that is not open
\* does nothing.
Served ==
    CASE step = "buy" -> /\ contract' = Append(contract, "open")
                         /\ onReal' = IF channel = "real" THEN onReal \cup {Len(contract) + 1}
                                      ELSE onReal
      [] step \in {"sell", "rescue"} /\ contract[mine] = "open"
           -> contract' = [contract EXCEPT ![mine] = "sold"] /\ UNCHANGED onReal
      [] OTHER -> UNCHANGED deriv

\* _request up to its first recv.  What is sent reaches Deriv and is executed, or not.
Send ==
    /\ step \in Calls /\ ~sent /\ ~cut
    /\ sent' = TRUE
    /\ Served \/ UNCHANGED deriv
    /\ UNCHANGED <<step, chosen, mine, cause, trips, csv, said, cut, interrupts, seen>>

\* External: what the account lives through meanwhile.
StopOut ==
    /\ \E i \in DOMAIN contract : contract[i] = "open"
                                  /\ contract' = [contract EXCEPT ![i] = "stopped"]
    /\ step # "over"
    /\ UNCHANGED <<step, sent, chosen, mine, cause, trips, csv, said, onReal, cut, interrupts, seen>>

CutOff ==
    /\ step \in Calls \cup {"sleep"} /\ ~cut /\ cut' = TRUE
    /\ UNCHANGED <<step, sent, chosen, mine, cause, trips, csv, said, deriv, interrupts, seen>>
-----------------------------------------------------------------------------
\* An exception leaves run_round_trip: run_session catches DerivApiError alone,
\* and writes what it has.
Leave(kind) == step' = IF kind = "api" THEN "write" ELSE "over"

\* The first exception goes on when the sale of last resort fails, unless that was
\* interrupted.
Surfacing(kind) == IF kind = "interrupt" THEN kind ELSE cause

\* Slip: the session goes on with the next round trip.
RaiseGoOn(kind) ==
    /\ sent' = FALSE
    /\ \/ step \in Holding /\ step' = "rescue" /\ cause' = kind /\ UNCHANGED <<mine, said>>
       \/ /\ step \in {"entry_spot", "buy", "settled"} /\ step' = "entry_spot" /\ mine' = 0
          /\ UNCHANGED <<cause, said>>
       \/ /\ step = "rescue" /\ Leave(Surfacing(kind)) /\ UNCHANGED <<mine, cause>>
          /\ said' = IF kind = "interrupt" THEN said ELSE said \cup {mine}

\* Something is raised inside the call.  While a contract is held it is sold before
\* the exception goes on; when that fails too, it is said, but for an interrupt,
\* which is no Exception.
Raise(kind) ==
    /\ sent' = FALSE
    /\ \/ step \in Holding /\ step' = "rescue" /\ cause' = kind /\ UNCHANGED said
       \/ step \in {"entry_spot", "buy", "settled"} /\ Leave(kind) /\ UNCHANGED <<cause, said>>
       \/ /\ step = "rescue" /\ Leave(Surfacing(kind)) /\ UNCHANGED cause
          /\ said' = IF kind = "interrupt" THEN said ELSE said \cup {mine}
    /\ UNCHANGED mine

\* ConnectionClosed, from send or recv: no DerivApiError.
Lost ==
    /\ step \in Calls /\ cut /\ Raise("other")
    /\ UNCHANGED <<chosen, trips, csv, deriv, cut, interrupts, seen>>

\* An error (DerivApiError), or an answer that is not what was asked: its spot, its
\* fields (DerivApiError again), its JSON or the number of its contract.  Whatever
\* Deriv did is done.
Refused ==
    /\ step \in Calls /\ sent /\ \E kind \in {"api", "other"} : Raise(kind)
    /\ UNCHANGED <<chosen, trips, csv, deriv, cut, interrupts, seen>>

\* The first interrupt cancels the task at its await, the second ends it.
Interrupt ==
    /\ step \in Calls \cup {"sleep"} /\ interrupts < 2
    /\ interrupts' = interrupts + 1
    /\ Raise("interrupt")
    /\ abandoned' = IF step = "rescue" THEN abandoned \cup {mine} ELSE abandoned
    /\ UNCHANGED <<chosen, trips, csv, deriv, cut, known>>

\* The answer to this request (others are passed over): a purchase with its
\* contract, a sale that was made, a contract with its exit spot.
BuyAnswered ==
    /\ step = "buy" /\ sent /\ Len(contract) > Cardinality(known)
    /\ mine' = Len(contract) /\ known' = known \cup {Len(contract)}
    /\ step' = "sleep" /\ sent' = FALSE
    /\ UNCHANGED <<chosen, cause, trips, csv, said, deriv, cut, interrupts, abandoned>>

SpotAnswered ==
    /\ step \in {"entry_spot", "exit_spot"} /\ sent
    /\ step' = IF step = "entry_spot" THEN "buy" ELSE "sell"
    /\ sent' = FALSE
    /\ UNCHANGED <<chosen, mine, cause, trips, csv, said, deriv, cut, interrupts, seen>>

SellAnswered ==
    /\ step \in {"sell", "rescue"} /\ sent /\ contract[mine] = "sold"
    /\ sent' = FALSE
    /\ IF step = "sell" THEN step' = "settled" ELSE Leave(cause)
    /\ UNCHANGED <<chosen, mine, cause, trips, csv, said, deriv, cut, interrupts, seen>>

\* The round trip is complete, and the next one begins, or the session ends.
Settled ==
    /\ step = "settled" /\ sent /\ contract[mine] # "open"
    /\ trips' = Append(trips, mine) /\ mine' = 0
    /\ step' = IF Len(trips') < Trades THEN "entry_spot" ELSE "write"
    /\ sent' = FALSE
    /\ UNCHANGED <<chosen, cause, csv, said, deriv, cut, interrupts, seen>>

HoldOver ==
    /\ step = "sleep" /\ step' = "exit_spot"
    /\ UNCHANGED <<sent, chosen, mine, cause, trips, csv, said, deriv, cut, interrupts, seen>>

AppendRoundTrips ==
    /\ step = "write" /\ csv' = trips /\ step' = "over"
    /\ UNCHANGED <<sent, chosen, mine, cause, trips, said, deriv, cut, interrupts, seen>>

RoundTripNext ==
    \/ SelectDemoAccount \/ OpenDemoSession
    \/ Send \/ StopOut \/ CutOff
    \/ Lost \/ Refused \/ Interrupt
    \/ BuyAnswered \/ SpotAnswered \/ SellAnswered \/ Settled
    \/ HoldOver \/ AppendRoundTrips

RoundTripSpec == RoundTripInit /\ [][RoundTripNext]_tripVars
-----------------------------------------------------------------------------
\* Contracts are named by their number; two interrupts end the process.
RoundTripTypeOK ==
    /\ step \in Calls \cup {"accounts", "otp", "sleep", "write", "over"}
    /\ {sent, cut} \subseteq BOOLEAN
    /\ channel \in {"none", "demo", "real"} /\ cause \in {"none", "api", "other", "interrupt"}
    /\ contract \in Seq({"open", "sold", "stopped"})
    /\ mine \in 0..Len(contract)
    /\ trips \in Seq(DOMAIN contract) /\ csv \in Seq(DOMAIN contract)
    /\ said \cup onReal \cup known \cup abandoned \subseteq DOMAIN contract
    /\ interrupts \in 0..2

\* Whatever is refused, lost or interrupted, a contract left open is the last one
\* the script bought, on the demo channel, and no secret: the script is about to
\* sell it or has logged that it could not, unless its purchase was never answered
\* or the user interrupted the sale of last resort.
UnclosedIsLastAndSaid ==
    \A i \in DOMAIN contract :
      contract[i] = "open" =>
        /\ i = Len(contract) /\ i \notin onReal
        /\ IF i \in known
           THEN (i = mine /\ step \in Holding \cup {"rescue"}) \/ i \in said \cup abandoned
           ELSE step \in {"buy", "write", "over"}
=============================================================================
