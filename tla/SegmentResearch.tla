--------------------------- MODULE SegmentResearch ---------------------------
(***************************************************************************)
(* Is there a signal, whatever the model?  run_feature_research and        *)
(* run_macro_feature_research split a series at 70 % and measure the rank  *)
(* correlation of each feature with the return h bars later, once on each  *)
(* segment, with ResearchEngine; evaluate_horizon_cost_gate asks how many  *)
(* windows the last 30 % hold.                                             *)
(*                                                                         *)
(* Rows are numbered; a correlation is a percentage the data may give.     *)
(***************************************************************************)
EXTENDS Money, Sequences, FiniteSets

CONSTANTS SeriesLengths,  \* rows of a series
          Holes,          \* sets of rows a feature has no value for
          Correlations,   \* percent, -100..100
          Lags,           \* horizons, in rows
          Coverages,      \* mean move over the cost of a round trip
          MaxScores       \* bound

ASSUME SegmentAssumption ==
    /\ SeriesLengths \subseteq Nat /\ Lags \subseteq Nat \ {0} /\ Correlations \subseteq -100..100
    /\ \A hole \in Holes : IsFiniteSet(hole) /\ hole \subseteq Nat
    /\ Coverages \subseteq Nat /\ MaxScores \in Nat

VARIABLES searcher,      \* "features": run_feature_research; "macro"
          seriesLength,
          scores,        \* what is reported of each feature and horizon
          gates          \* the horizons evaluate_horizon_cost_gate lets pass

segmentVars == <<searcher, seriesLength, scores, gates>>

SegmentInit ==
    /\ searcher \in {"features", "macro"} /\ seriesLength \in SeriesLengths
    /\ scores = <<>> /\ gates = {}
-----------------------------------------------------------------------------
\* split_train_test.
SegmentCut == SeventyPercent(seriesLength)

\* Slip: the forward return is computed before the split.
MeasuredAcross(first, last, hole, lag) ==
    {r \in first..last : r \notin hole /\ r + lag <= seriesLength}

\* valid_mask: the rows of a segment that have the feature and, within the segment,
\* a price `lag' rows later.
Measured(first, last, hole, lag) ==
    {r \in first..last : r \notin hole /\ r + lag <= last}

\* ic_spearman.  Fewer than 10 observations, or a feature the segment lacks, is 0.
RankIC(rows, correlation) == IF Cardinality(rows) < 10 THEN 0 ELSE correlation

\* _effective_observations.
Effective(rows, lag) == Cardinality(rows) \div lag

\* _rank_ic_t_stat, by what it is compared with: t^2 = ic^2 (n - 2) / (1 - ic^2) is
\* above 4 when ic^2 (n + 2), in squared percents, is above 40000; below 3
\* observations t is 0.
TSquared(ic, n) == IF n < 3 THEN 0 ELSE ic * ic * (n + 2)

\* is_significant of the engine's score; SegmentedScore.survives also wants the sign
\* of the training segment.
Survives(icTrain, icTest, n) == TSquared(icTest, n) > 40000 /\ icTrain * icTest > 0

\* The macro search takes a t of exactly 2 as well.
SurvivesMacro(icTrain, icTest, n) == TSquared(icTest, n) >= 40000 /\ icTrain * icTest > 0

\* evaluate_segment on both segments, neither empty; a feature the test segment has.
Score ==
    /\ Len(scores) < MaxScores /\ 0 < SegmentCut
    /\ \E lag \in Lags, hole \in Holes, x \in Correlations, y \in Correlations :
         LET train == Measured(1, SegmentCut, hole, lag)
             test == Measured(SegmentCut + 1, seriesLength, hole, lag) IN
         /\ ~((SegmentCut + 1)..seriesLength \subseteq hole)
         /\ scores' = Append(scores,
              [lag |-> lag, train |-> train, test |-> test, icTest |-> RankIC(test, y),
               survives |->
                  IF searcher = "macro"
                  THEN SurvivesMacro(RankIC(train, x), RankIC(test, y), Effective(test, lag))
                  ELSE Survives(RankIC(train, x), RankIC(test, y), Effective(test, lag))])
    /\ UNCHANGED <<searcher, seriesLength, gates>>

ScoreFeature == searcher = "features" /\ Score
ScoreMacroFeature == searcher = "macro" /\ Score

\* evaluate_asset_tradability: the rows that have a return, cut at 70 % of all the
\* rows; the move must cover the cost 5 times, and the holdout last 30 horizons.
Holdout(lag) == (SegmentCut + 1)..(seriesLength - lag)

GateHorizon ==
    /\ \E lag \in Lags, coverage \in Coverages :
         /\ coverage >= 5 /\ Cardinality(Holdout(lag)) >= 30 * lag
         /\ gates' = gates \cup {[lag |-> lag, rows |-> Holdout(lag)]}
    /\ UNCHANGED <<searcher, seriesLength, scores>>

SegmentNext == ScoreFeature \/ ScoreMacroFeature \/ GateHorizon

SegmentSpec == SegmentInit /\ [][SegmentNext]_segmentVars
-----------------------------------------------------------------------------
SegmentTypeOK ==
    /\ searcher \in {"features", "macro"} /\ seriesLength \in SeriesLengths
    /\ Len(scores) <= MaxScores
    /\ \A i \in DOMAIN scores :
          /\ scores[i].lag \in Lags /\ scores[i].train \cup scores[i].test \subseteq Nat
          /\ scores[i].survives \in BOOLEAN
    /\ \A g \in gates : g.lag \in Lags /\ g.rows \subseteq Nat

\* Rows taken every `lag' rows of those measured.
EveryLag(rows, lag) == {r \in rows : Cardinality({q \in rows : q < r}) % lag = 0}

\* A verdict spends no information twice.  A feature that survives would be as
\* significant on test rows whose returns share no bar, however its missing rows are
\* spread ("the size of the largest non-overlapping subsample"); the returns it was
\* trained on end before the first test row; and it was measured in training.  A
\* horizon that passes the gate has 30 windows in the holdout that share no bar.
VerdictsSpendRowsOnce ==
    /\ \A i \in DOMAIN scores : scores[i].survives =>
         LET lag == scores[i].lag
             apart == EveryLag(scores[i].test, lag) IN
         /\ \A q, r \in apart : q < r => q + lag <= r
         /\ TSquared(scores[i].icTest, Cardinality(apart)) >= 40000
         /\ \A q \in scores[i].train, r \in scores[i].test : q + lag < r
         /\ Cardinality(scores[i].train) >= 10
    /\ \A g \in gates :
         LET apart == EveryLag(g.rows, g.lag) IN
         /\ Cardinality(apart) >= 30
         /\ \A q, r \in apart : q < r => q + g.lag <= r
=============================================================================
