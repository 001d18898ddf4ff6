---------------------------- MODULE HistoryPages ----------------------------
(***************************************************************************)
(* Deep history from the Deriv API, DerivHistoricalData.                   *)
(* fetch_candles_paginated: one connection, page after page, each ending   *)
(* before the oldest candle received so far and never at a time at which   *)
(* the market of gold is closed for the week-end.  Time is counted in      *)
(* candles; which of them exist depends on the symbol.                     *)
(***************************************************************************)
EXTENDS FiniteSets, FiniteSetsExt, Integers

CONSTANTS LastCandle,  \* the most recent time (bound)
          Weekend,     \* times for which _is_weekend_close holds
          PageSize, TargetCount

ASSUME PagesAssumption ==
    /\ LastCandle \in Nat \ {0} /\ Weekend \subseteq 1..LastCandle
    /\ {PageSize, TargetCount} \subseteq Nat \ {0}

VARIABLES traded,      \* the times that have a candle at the server
          got,         \* by_epoch
          end,         \* the cursor; LastCandle for "latest"
          paging,      \* the loop runs
          cut,         \* history: the connection was lost, or a request refused
          silent       \* history: an answer brought nothing while there was more

pagesVars == <<traded, got, end, paging, cut, silent>>

PagesInit ==
    /\ traded \in SUBSET (1..LastCandle)
    /\ got = {} /\ end = LastCandle /\ paging = TRUE /\ cut = FALSE /\ silent = FALSE
-----------------------------------------------------------------------------
\* _snap_to_friday_close: the last time before the week-end of t, or 0, before
\* the first candle.
FridayClose(t) == Max({0} \cup {u \in 1..t : u \notin Weekend})

\* The cursor below the oldest candle of a page.
CursorBelow(page) ==
    LET t == Min(page) - 1 IN IF t \in Weekend THEN FridayClose(t) ELSE t

Older(upTo) == {t \in traded : t <= upTo}

\* External: candles in a row that reach back to the cursor or further, newer ones
\* perhaps sent again; or none or known ones only, at the beginning of the history
\* or, against the truth, before it.
Pages(upTo) ==
    {{t \in traded : from <= t /\ t <= to} : from \in Older(upTo), to \in upTo..LastCandle}
      \cup SUBSET got

\* Slip: a page that is not full is taken for the last one.
ExhaustedWhenShort(page) == Cardinality(page) < PageSize

\* "Une page qui n'apporte aucune barre inédite": nothing older is left.
Exhausted(page) == page \subseteq got

\* One turn of the loop.  No candle: a cursor in the week-end would leave it (it is
\* never there, as CursorBelow has left it already); else the history is at its end.
FetchPage ==
    /\ paging /\ Cardinality(got) < TargetCount
    /\ \E page \in {p \in Pages(end) : Cardinality(p) <= PageSize} :
         /\ IF page = {}
            THEN /\ IF end # LastCandle /\ end \in Weekend
                    THEN end' = FridayClose(end) /\ UNCHANGED paging
                    ELSE paging' = FALSE /\ UNCHANGED end
                 /\ UNCHANGED got
            ELSE /\ got' = got \cup page
                 /\ IF Exhausted(page) THEN paging' = FALSE /\ UNCHANGED end
                    ELSE end' = CursorBelow(page) /\ UNCHANGED paging
         /\ silent' = (silent \/ (page \subseteq got /\ Older(end) # {}))
    /\ UNCHANGED <<traded, cut>>

\* A ConnectionError reads as a page without candles; an error of the API and the
\* exception of a closed connection leave the caller with nothing.
RequestFails ==
    /\ paging /\ Cardinality(got) < TargetCount
    /\ paging' = FALSE /\ cut' = TRUE /\ got' \in {got, {}}
    /\ UNCHANGED <<traded, end, silent>>

\* The latest TargetCount candles are returned.
TargetReached ==
    /\ paging /\ Cardinality(got) >= TargetCount
    /\ paging' = FALSE
    /\ \E latest \in SUBSET got :
         /\ Cardinality(latest) = TargetCount
         /\ \A t \in got \ latest, u \in latest : t < u
         /\ got' = latest
    /\ UNCHANGED <<traded, end, cut, silent>>

PagesNext == FetchPage \/ RequestFails \/ TargetReached

PagesSpec == PagesInit /\ [][PagesNext]_pagesVars
-----------------------------------------------------------------------------
\* Candles come from the server, and the cursor from the past.
PagesTypeOK ==
    /\ traded \subseteq 1..LastCandle /\ got \subseteq traded
    /\ end \in 0..LastCandle
    /\ {paging, cut, silent} \subseteq BOOLEAN

\* Pages of any length, with gaps and week-ends among them, sent twice in part or
\* repeated, join up: outside the week-end, every candle newer than one received is
\* received as well.  The next page is asked for below every candle received.  A
\* history shorter than asked for has no older candle left, unless a request failed
\* or the server kept candles back.  At the week-end a symbol that trades then loses
\* candles.
PagesLeaveNoHole ==
    /\ \A t \in traded \ (got \cup Weekend) : \A u \in got : t < u
    /\ \A u \in got : end < u
    /\ ~paging /\ ~cut /\ ~silent /\ Cardinality(got) < TargetCount
         => traded \ Weekend \subseteq got
=============================================================================
