---------------------------- MODULE CostMeasure ----------------------------
(***************************************************************************)
(* The cost of a round trip, measured on tickets of a demo account.  Which *)
(* way the positions went was not written down: infer_direction finds the  *)
(* side that no ticket contradicts, a ticket costing at least the          *)
(* commission displayed.  Amounts are shown rounded to a display step.     *)
(***************************************************************************)
EXTENDS Integers, FiniteSets

CONSTANTS PriceMoves,   \* what the market gave a long position before it was closed
          Fees,         \* commissions of the instrument, before display
          Residues,     \* what a round trip costs above the commission
          DisplayStep,  \* PNL_DISPLAY_STEP_USD
          MaxTickets    \* bound

ASSUME CostMeasureAssumption ==
    /\ PriceMoves \subseteq Int /\ Fees \cup Residues \subseteq Nat
    /\ DisplayStep \in Nat \ {0} /\ DisplayStep % 2 = 0 /\ MaxTickets \in Nat

VARIABLES taken,     \* the side of the positions, not recorded: 1 or -1
          fee,
          tickets    \* recorded: the move between the two spots and the P&L shown

measureVars == <<taken, fee, tickets>>

MeasureInit == taken \in {1, -1} /\ fee \in Fees /\ tickets = {}

\* What the platform shows of an amount.
Shown(amount) == DisplayStep * ((amount + DisplayStep \div 2) \div DisplayStep)

\* A round trip by hand.
Ticket(move, residue) ==
    /\ Cardinality(tickets) < MaxTickets
    /\ tickets' = tickets \cup {[move |-> move, pnl |-> Shown(taken * move - fee - residue)]}
    /\ UNCHANGED <<taken, fee>>

\* round_trip_costs_bps: the move of the market is taken out of the P&L.
CostIf(direction, ticket) == direction * ticket.move - ticket.pnl

\* Slip: displays are taken to be exact.
FloorAsShown == Shown(fee)

\* What a round trip costs at least, as far as the displays can tell.
Floor == Shown(fee) - DisplayStep

Admissible ==
    {direction \in {1, -1} : \A ticket \in tickets : CostIf(direction, ticket) >= Floor}

\* infer_direction; 0 when it raises.
Inferred ==
    IF Cardinality(Admissible) = 1 THEN CHOOSE direction \in Admissible : TRUE ELSE 0

MeasureNext == \E move \in PriceMoves, residue \in Residues : Ticket(move, residue)

MeasureSpec == MeasureInit /\ [][MeasureNext]_measureVars
-----------------------------------------------------------------------------
MeasureTypeOK ==
    taken \in {1, -1} /\ fee \in Fees /\ \A t \in tickets : t.pnl % DisplayStep = 0

\* The side inferred is the one that was taken, whatever the displays rounded:
\* a wrong one would shift every cost by twice the move of the market.
InferredIsTheTruth == Inferred \in {0, taken}
=============================================================================
