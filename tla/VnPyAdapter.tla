----------------------------- MODULE VnPyAdapter -----------------------------
(***************************************************************************)
(* The other consumer of vn.py's trades, VnpyAdapter                       *)
(* (providers/vnpy_adapter.py): a process is wired with it or with the     *)
(* gateway of VnPyFills.  vn.py's event thread appends the fills to a      *)
(* list; the trading thread takes them with poll_fills, which copies the   *)
(* list and then clears it, two steps the event thread can come between.   *)
(***************************************************************************)
EXTENDS VnPyFills

VARIABLES wiring,   \* "gateway" or "adapter", fixed when the process starts
          queue,    \* event_queue; a fill is the number of its delivery
          poll,     \* poll_fills: "idle", or "copied" before it clears
          copy,     \* the local list of poll_fills
          \* history
          handed,   \* the fills poll_fills has returned, in order
          raced     \* the fills appended between the copy and the clear

adapterVars == <<wiring, queue, poll, copy, handed, raced>>
liveVars == <<vnpyVars, adapterVars>>

LiveInit ==
    /\ VnPyInit
    /\ wiring \in {"gateway", "adapter"}
    /\ queue = <<>> /\ poll = "idle" /\ copy = <<>>
    /\ handed = <<>> /\ raced = {}
-----------------------------------------------------------------------------
\* send_order through the gate, with the price of the latest market event; the
\* name is sent as it is, no mapper learns the symbol.
AdapterSend(s, q, table) ==
    /\ Len(order) < MaxOrders
    /\ ValidateOrder(s, q, ResolvePrices(s, table), equity, peak)
    /\ order' = Append(order, [sym |-> s, q |-> q, life |-> life])
    /\ UNCHANGED <<portfolioVars, halted, trade, gatewayVars, life, arrived, applied, told,
                   adapterVars>>

\* on_trade, on the event thread: every delivery is a fill, repeated or not.
AdapterOnTrade(t) ==
    /\ arrived < MaxDeliveries /\ arrived' = arrived + 1
    /\ queue' = Append(queue, arrived')
    /\ raced' = IF poll = "copied" THEN raced \cup {arrived'} ELSE raced
    /\ UNCHANGED <<portfolioVars, halted, order, trade, gatewayVars, life, applied, told,
                   wiring, poll, copy, handed>>

PollCopy ==
    /\ poll = "idle"
    /\ poll' = "copied" /\ copy' = queue
    /\ UNCHANGED <<vnpyVars, wiring, queue, handed, raced>>

\* Slip: only the first fill of the copy is returned.
PollReturnFirst ==
    /\ poll = "copied"
    /\ poll' = "idle" /\ copy' = <<>> /\ queue' = <<>>
    /\ handed' = IF copy = <<>> THEN handed ELSE Append(handed, Head(copy))
    /\ UNCHANGED <<vnpyVars, wiring, raced>>

PollReturn ==
    /\ poll = "copied"
    /\ poll' = "idle" /\ handed' = handed \o copy /\ copy' = <<>> /\ queue' = <<>>
    /\ UNCHANGED <<vnpyVars, wiring, raced>>

AdapterNext ==
    \/ \E s \in Symbols, q \in SignedVolumes, p \in Prices : AdapterSend(s, q, Quote(s, p))
    \/ \E t \in DOMAIN trade : AdapterOnTrade(t)
    \/ PollCopy
    \/ PollReturn

LiveNext ==
    \/ wiring = "gateway" /\ VnPyNext /\ UNCHANGED adapterVars
    \/ wiring = "adapter" /\ AdapterNext
    \/ /\ wiring = "adapter"
       /\ \E i \in DOMAIN order, q \in SignedVolumes, p \in Prices : Execute(i, q, p)
       /\ UNCHANGED adapterVars

LiveSpec == LiveInit /\ [][LiveNext]_liveVars
-----------------------------------------------------------------------------
AdapterTypeOK ==
    /\ wiring \in {"gateway", "adapter"} /\ poll \in {"idle", "copied"}
    /\ queue \in Seq(1..arrived) /\ copy \in Seq(1..arrived) /\ handed \in Seq(1..arrived)
    /\ raced \subseteq 1..arrived

\* The trading thread gets the fills in the order vn.py delivered them, none twice.
HandedInOrder ==
    \A i, j \in DOMAIN handed : i < j => handed[i] < handed[j]

\* poll_fills loses a fill only if it was appended between its copy and its
\* clear (and those it may lose, silently); every other one is still to come.
OnlyRacedFillsLost ==
    wiring = "adapter" =>
        \A f \in 1..arrived : \/ f \in Range(handed) \/ f \in Range(queue)
                              \/ f \in raced

\* Whoever sums the fills it is given, on the bus or by polling, never counts
\* more than vn.py delivered, and misses only what the code can lose: the fill
\* whose publication raised, or which raced the poll.
FillsReachTheirReader == PublishedOnlyIfApplied /\ HandedInOrder /\ OnlyRacedFillsLost
=============================================================================
