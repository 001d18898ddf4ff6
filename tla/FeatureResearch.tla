--------------------------- MODULE FeatureResearch ---------------------------
(***************************************************************************)
(* The searches for features that predict: the macro series of FRED and    *)
(* the weekly positioning reports of the CFTC laid over the bars, one test *)
(* per feature and horizon, and the correction for the number of tests     *)
(* that decides what is reported as significant.                           *)
(*                                                                         *)
(* A p-value is in thousandths.  A value laid over a bar stands for the    *)
(* day it was observed; what it is worth is left out.                      *)
(***************************************************************************)
EXTENDS Integers, Sequences, FiniteSets

CONSTANTS Calendars,    \* sets of days with a bar
          Observations, \* sets of days with a value of a macro series
          Tuesdays,     \* sets of days of positioning reports
          PValues,      \* of the tests
          RowCounts,    \* complete rows of a test
          MaxTests,     \* bound
          NoValue

ASSUME ResearchAssumption ==
    /\ PValues \subseteq 0..1000 /\ RowCounts \subseteq Nat /\ NoValue \notin Int
    /\ \A c \in Calendars \cup Observations \cup Tuesdays :
          IsFiniteSet(c) /\ c # {} /\ c \subseteq Int

VARIABLES family,    \* "macro": run_h4_d1_feature_research; "positioning"
          calendar,  \* the days of the bars
          series,    \* the days the series has a value for
          laid,      \* the day of the value laid over each bar
          tests,     \* all_experiments: [p, rows, spurious]
          verdicts   \* evaluated_all: the tests by p-value, with their verdicts

researchVars == <<family, calendar, series, laid, tests, verdicts>>

ResearchInit ==
    /\ calendar \in Calendars
    /\ \/ family = "macro" /\ series \in Observations
       \/ family = "positioning" /\ series \in Tuesdays
    /\ laid = [d \in {} |-> NoValue] /\ tests = <<>> /\ verdicts = <<>>
-----------------------------------------------------------------------------
Latest(days) == CHOOSE d \in days : \A e \in days : e <= d
Earliest(days) == CHOOSE d \in days : \A e \in days : d <= e

\* The day of the series whose value is dated `d': series.shift(1), the observation
\* before d's; date_usable, the Tuesday six days before.
Dated(d) ==
    IF family = "macro"
    THEN IF d \in series /\ \E e \in series : e < d THEN Latest({e \in series : e < d}) ELSE NoValue
    ELSE IF d - 6 \in series THEN d - 6 ELSE NoValue

Matched == {d \in calendar : Dated(d) # NoValue}

\* Slip: filled backwards before it is filled forwards.
LayBackwards ==
    /\ laid = [d \in {} |-> NoValue]
    /\ laid' = [d \in calendar |->
          IF \E e \in Matched : e >= d THEN Dated(Earliest({e \in Matched : e >= d}))
          ELSE IF Matched # {} THEN Dated(Latest(Matched)) ELSE NoValue]
    /\ UNCHANGED <<family, calendar, series, tests, verdicts>>

\* merge_macro_features and the left join on date_usable: bars take the value
\* dated their own day, or else the one of the bar before; macro bars before the
\* first such value take that one (bfill).
Lay ==
    /\ laid = [d \in {} |-> NoValue]
    /\ laid' = [d \in calendar |->
          IF \E e \in Matched : e <= d THEN Dated(Latest({e \in Matched : e <= d}))
          ELSE IF family = "macro" /\ Matched # {} THEN Dated(Earliest(Matched)) ELSE NoValue]
    /\ UNCHANGED <<family, calendar, series, tests, verdicts>>

\* One feature at one horizon: compute_newey_west_tstat.  With fewer than 30 rows
\* nothing is significant, or positioning leaves the test out; a positioning
\* feature neither stationary nor cointegrated with the price is spurious.
Test ==
    /\ laid # [d \in {} |-> NoValue] /\ Len(tests) < MaxTests /\ verdicts = <<>>
    /\ \E p \in PValues, rows \in RowCounts, spurious \in BOOLEAN :
          /\ family = "macro" => ~spurious
          /\ tests' =
                IF rows < 30 /\ family = "positioning" THEN tests
                ELSE Append(tests, [p |-> IF rows < 30 \/ spurious THEN 1000 ELSE p,
                                    rows |-> rows, spurious |-> spurious])
    /\ UNCHANGED <<family, calendar, series, laid, verdicts>>

\* A stable sort.
SmallerP(s, i, j) == s[i].p < s[j].p \/ (s[i].p = s[j].p /\ i < j)
ByPValue(s) ==
    [k \in DOMAIN s |->
       s[CHOOSE j \in DOMAIN s : Cardinality({i \in DOMAIN s : SmallerP(s, i, j)}) = k - 1]]

\* q and alpha of 5 %, over ranks and tests.
TestVerdict(test, rank, count) ==
    [test |-> test, bh |-> test.p * count <= rank * 50, bonferroni |-> test.p * count <= 50]

\* Slip: ranks are those of the order the tests were made in.
CorrectUnsorted ==
    /\ tests # <<>> /\ verdicts = <<>>
    /\ verdicts' = [i \in DOMAIN tests |-> TestVerdict(tests[i], i, Len(tests))]
    /\ UNCHANGED <<family, calendar, series, laid, tests>>

\* apply_benjamini_hochberg, and its copy in the positioning research: each test
\* against the threshold of its own rank.  Without a test the division raises.
Correct ==
    /\ tests # <<>> /\ verdicts = <<>>
    /\ LET sorted == ByPValue(tests) IN
       verdicts' = [i \in DOMAIN sorted |-> TestVerdict(sorted[i], i, Len(sorted))]
    /\ UNCHANGED <<family, calendar, series, laid, tests>>

ResearchNext == Lay \/ Test \/ Correct

ResearchSpec == ResearchInit /\ [][ResearchNext]_researchVars
-----------------------------------------------------------------------------
ResearchTypeOK ==
    /\ family \in {"macro", "positioning"} /\ calendar \subseteq Int /\ series \subseteq Int
    /\ DOMAIN laid \in {{}, calendar} /\ \A d \in DOMAIN laid : laid[d] \in series \cup {NoValue}
    /\ tests \in Seq([p : 0..1000, rows : Nat, spurious : BOOLEAN])
    /\ Len(verdicts) \in {0, Len(tests)}

\* A feature tells nothing of the future: the value over a bar was observed before
\* the bar's day (six days before, for a positioning report), but for the bars of a
\* macro series that no value precedes, which are filled backwards.
OnlyTheHeadLooksAhead ==
    \A d \in DOMAIN laid :
      laid[d] # NoValue =>
        \/ laid[d] < d /\ (family = "positioning" => laid[d] <= d - 6)
        \/ family = "macro" /\ \A e \in calendar : e <= d => Dated(e) = NoValue

\* The step-up procedure of Benjamini and Hochberg: with the largest p-value that is
\* below the threshold of its rank, every smaller one is rejected.
StepUp ==
    {i \in DOMAIN verdicts : \E j \in DOMAIN verdicts :
        LET p == verdicts[j].test.p
            rank == Cardinality({k \in DOMAIN verdicts : verdicts[k].test.p <= p}) IN
        verdicts[i].test.p <= p /\ p * Len(verdicts) <= rank * 50}

\* However many tests, and in whatever order they were made: a feature is reported
\* only where the step-up procedure would report it too, so that the false discovery
\* rate announced is kept (it may report fewer: a test below a later threshold but
\* above its own is left out); what passes Bonferroni is reported; and a feature
\* that is spurious, or measured on fewer than 30 rows, never is.
ReportedIsControlled ==
    \A i \in DOMAIN verdicts :
      /\ verdicts[i].bonferroni => verdicts[i].bh
      /\ verdicts[i].bh => i \in StepUp /\ verdicts[i].test.rows >= 30 /\ ~verdicts[i].test.spurious
=============================================================================
