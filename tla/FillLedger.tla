----------------------------- MODULE FillLedger -----------------------------
(***************************************************************************)
(* What every book of this system promises of a fill, whatever the book    *)
(* does internally: one execution of q signed units of s at price p with   *)
(* commission c takes q * p + c out of the balance and adds q to the       *)
(* holding of s, exactly once and both together.  engine/portfolio.py      *)
(* reaches this through five branches, infrastructure/paper/broker.py      *)
(* through two writes with an await between them.                          *)
(***************************************************************************)
EXTENDS Integers

CONSTANTS Instruments,   \* the instruments that can be held
          Opening,       \* the balance before the first fill
          Quantities,    \* signed quantities a fill can have
          FillPrices,    \* prices a fill can have
          Commissions    \* commissions a fill can have

VARIABLES balance, holding
ledgerVars == <<balance, holding>>

Init ==
    /\ balance = Opening
    /\ holding = [s \in Instruments |-> 0]

Execute(s, q, p, c) ==
    /\ balance' = balance - (q * p) - c
    /\ holding' = [holding EXCEPT ![s] = @ + q]

Next ==
    \E s \in Instruments, q \in Quantities, p \in FillPrices, c \in Commissions :
        Execute(s, q, p, c)

Spec == Init /\ [][Next]_ledgerVars
=============================================================================
