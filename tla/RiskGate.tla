------------------------------ MODULE RiskGate ------------------------------
(***************************************************************************)
(* The gate every client order passes: RiskGate (engine/risk_gate.py) over *)
(* GlobalRiskManager (engine/global_risk.py), reading the Portfolio.       *)
(*                                                                         *)
(* Limits are percentages; a ratio r = n / d compared with a limit is      *)
(* written 100 * n against limit * d, which needs no division.  The        *)
(* manager is the one api/deps.py builds, without a CapitalAllocation.     *)
(***************************************************************************)
EXTENDS Portfolio

CONSTANTS MaxDrawdownPct, MaxConcentrationPct, MaxGrossPct

ASSUME LimitsAssumption ==
    MaxDrawdownPct \in Nat /\ MaxConcentrationPct \in Nat /\ MaxGrossPct \in Nat

VARIABLE halted   \* GlobalRiskManager._emergency_halt_active

\* RiskGate.resolve_prices: the caller's table, completed for the order's symbol
\* only with what the portfolio has observed.
ResolvePrices(s, table) ==
    IF table[s] = NoPrice THEN [table EXCEPT ![s] = lastPrice[s]] ELSE table

\* GlobalRiskManager._is_opening_order: an order against the position is never
\* an opening one, even when it is large enough to reverse it.
IsOpening(s, q) == vol[s] = 0 \/ (vol[s] > 0 /\ q > 0) \/ (vol[s] < 0 /\ q < 0)

DrawdownReached(eq, hwm) == 100 * (hwm - eq) >= MaxDrawdownPct * hwm

WithinConcentration(v, p, eq) == 100 * Abs(v) * p <= MaxConcentrationPct * eq

\* Gross exposure after the order; a symbol missing from the table counts for 0.
GrossAfter(s, q, table) ==
    Abs(vol[s] + q) * table[s]
    + MapThenSumSet(LAMBDA x : Abs(vol[x]) * (IF table[x] = NoPrice THEN 0 ELSE table[x]),
                    Open \ {s})

\* Slip: the limits are tested on the position as it is before the order.
ValidateBeforeOrder(s, q, table, eq, hwm) ==
    /\ ~halted
    /\ eq > 0
    /\ table[s] # NoPrice /\ table[s] > 0
    /\ ~(DrawdownReached(eq, hwm) /\ IsOpening(s, q))
    /\ WithinConcentration(vol[s], table[s], eq)
    /\ 100 * GrossAfter(s, 0, table) <= MaxGrossPct * eq

\* GlobalRiskManager.validate_order; eq and hwm are portfolio.equity and the
\* maximum of its curve at the call.
ValidateOrder(s, q, table, eq, hwm) ==
    /\ ~halted
    /\ eq > 0
    /\ table[s] # NoPrice /\ table[s] > 0
    /\ ~(DrawdownReached(eq, hwm) /\ IsOpening(s, q))
    /\ WithinConcentration(vol[s] + q, table[s], eq)
    /\ 100 * GrossAfter(s, q, table) <= MaxGrossPct * eq
=============================================================================
