---------------------------- MODULE ModelTraining ----------------------------
(***************************************************************************)
(* The trainings of the repository: scripts/train_qlib_model.py, from the  *)
(* bars to data/models through DatasetBuilder, LightGBMModel and the       *)
(* validators; scripts/train_multi_asset_lightgbm.py; the fine-tuning of   *)
(* Kronos.  A value stands for the bars it was computed from: what matters *)
(* is which bars a model is fitted on, and which it is judged on.          *)
(***************************************************************************)
EXTENDS Money, FiniteSets

CONSTANTS Lengths,          \* numbers of bars of a history
          Horizon,          \* bars from a row to its label
          BurnIn,           \* rows whose rolling windows are not full: NaN
          MinRows,          \* rows needed to fit: 50 in the code
          Window, Stride, Batch,   \* of Kronos: 101, 10 and 4
          MaxRuns,          \* bound
          NoModel

ASSUME TrainingAssumption ==
    /\ Lengths \subseteq Nat /\ {Horizon, MinRows, Window, Stride, Batch} \subseteq Nat \ {0}
    /\ BurnIn \in Nat /\ Stride <= Window /\ NoModel \notin Nat

VARIABLES stage, pipeline,
          length,            \* of the history loaded
          fitted, judged,    \* of each model: the bars it was fitted on, and judged on
          approved,          \* models whose validation was approved
          booster, sidecar,  \* data/models: the model that each file is of
          loaded             \* the files of the model a process has loaded

trainingVars == <<stage, pipeline, length, fitted, judged, approved, booster, sidecar, loaded>>

Pipelines == {"qlib", "multi_asset", "kronos"}
Model == Cardinality(DOMAIN fitted)   \* the one being trained: the last
Nothing == [i \in {} |-> {}]

TrainingInit ==
    /\ stage = "idle" /\ pipeline = "qlib" /\ length = 0
    /\ fitted = Nothing /\ judged = Nothing
    /\ approved = {} /\ booster = NoModel /\ sidecar = NoModel /\ loaded = <<NoModel, NoModel>>
-----------------------------------------------------------------------------
\* load_bars, fetch_asset_history; without a bar there is no run.
LoadBars ==
    /\ stage = "idle" /\ Model < MaxRuns
    /\ \E p \in Pipelines, n \in Lengths \ {0} : pipeline' = p /\ length' = n
    /\ stage' = "fit"
    /\ UNCHANGED <<fitted, judged, approved, booster, sidecar, loaded>>

\* The bars that a row with full windows and a label is computed from.
Labelled(rows, last) ==
    UNION {(i - BurnIn)..(i + Horizon) : i \in {r \in rows : r > BurnIn /\ r + Horizon <= last}}

LabelledCount(rows, last) == Cardinality({r \in rows : r > BurnIn /\ r + Horizon <= last})

\* split_train_test: 70 %.
Cut == SeventyPercent(length)

\* Slip: the label is computed on the whole history, and the split comes after.
SupervisedLate == [fit |-> Labelled(1..Cut, length), judge |-> (Cut + 1)..length,
                   rows |-> LabelledCount(1..Cut, length)]

\* build_supervised is given the training segment alone: its last rows have no label.
Supervised == [fit |-> Labelled(1..Cut, Cut), judge |-> (Cut + 1)..length,
               rows |-> LabelledCount(1..Cut, Cut)]

\* build_asset_features labels the whole history, rows that are not complete are
\* dropped, and the dates left are split.  (Factors are standardized over all the
\* rows, holdout included, before the split.)
MultiAsset ==
    LET kept == {r \in 1..length : r > BurnIn /\ r + Horizon <= length}
        first == BurnIn + SeventyPercent(Cardinality(kept))
        train == {r \in kept : r <= first} IN
    [fit |-> Labelled(train, length), judge |-> {r \in kept : r > first},
     rows |-> Cardinality(train)]

\* KronosDatasetBuilder: windows of the raw bars every Stride bars, the first 80 %
\* of the windows to train, the others to validate.  The loader shuffles and drops the
\* batch that is not full, another one every epoch: too few windows train nothing.
Kronos ==
    LET windows == IF length < Window THEN 0 ELSE 1 + (length - Window) \div Stride
        split == (windows * 8) \div 10
        bars(k) == ((k - 1) * Stride + 1)..((k - 1) * Stride + Window) IN
    [fit |-> IF split < Batch THEN {} ELSE UNION {bars(k) : k \in 1..split},
     judge |-> UNION {bars(k) : k \in (split + 1)..windows}, rows |-> split]

Segments == CASE pipeline = "qlib" -> Supervised
              [] pipeline = "multi_asset" -> MultiAsset
              [] pipeline = "kronos" -> Kronos

\* LightGBMModel.fit refuses a dataset too small; PureNumpyRidgeRegressor.fit and
\* KronosFineTuner.train take what there is, if there is any.
Fit ==
    /\ stage = "fit"
    /\ IF Segments.rows >= (IF pipeline = "qlib" THEN MinRows ELSE 1)
       THEN /\ fitted' = [m \in DOMAIN fitted \cup {Model + 1} |->
                            IF m \in DOMAIN fitted THEN fitted[m] ELSE Segments.fit]
            /\ judged' = [m \in DOMAIN fitted' |->
                            IF m \in DOMAIN judged THEN judged[m] ELSE {}]
            /\ stage' = "judge"
       ELSE stage' = "idle" /\ UNCHANGED <<fitted, judged>>
    /\ UNCHANGED <<pipeline, length, approved, booster, sidecar, loaded>>

\* The validators on the test segment, the rank correlation on the holdout, the
\* validation loss: only the first gives a verdict, and an approved model is saved.
\* (The others save no model: the line of Kronos that would is commented out.)
Judge ==
    /\ stage = "judge"
    /\ judged' = [judged EXCEPT ![Model] = Segments.judge]
    /\ \/ pipeline = "qlib" /\ approved' = approved \cup {Model} /\ stage' = "booster"
       \/ stage' = "idle" /\ UNCHANGED approved
    /\ UNCHANGED <<pipeline, length, fitted, booster, sidecar, loaded>>

\* LightGBMModel.save: the booster, then its sidecar.
SaveBooster ==
    /\ stage = "booster" /\ booster' = Model /\ stage' = "sidecar"
    /\ UNCHANGED <<pipeline, length, fitted, judged, approved, sidecar, loaded>>

SaveSidecar ==
    /\ stage = "sidecar" /\ sidecar' = Model /\ stage' = "idle"
    /\ UNCHANGED <<pipeline, length, fitted, judged, approved, booster, loaded>>

\* The process dies, or a write fails, between the two writes or within one, whose
\* file is then cut: a file that is not whole is of no model.
TrainingCrash ==
    /\ stage # "idle" /\ stage' = "idle"
    /\ booster' \in {booster} \cup {m \in {NoModel} : stage = "booster"}
    /\ sidecar' \in {sidecar} \cup {m \in {NoModel} : stage = "sidecar"}
    /\ UNCHANGED <<pipeline, length, fitted, judged, approved, loaded>>

\* LightGBMModel.load: needs both files, whole, and compares nothing.
Load ==
    /\ booster # NoModel /\ sidecar # NoModel
    /\ loaded' = <<booster, sidecar>>
    /\ UNCHANGED <<stage, pipeline, length, fitted, judged, approved, booster, sidecar>>

TrainingNext ==
    \/ LoadBars \/ Fit \/ Judge \/ SaveBooster \/ SaveSidecar \/ TrainingCrash \/ Load

TrainingSpec == TrainingInit /\ [][TrainingNext]_trainingVars
-----------------------------------------------------------------------------
\* Models are numbered in the order they were fitted.
TrainingTypeOK ==
    /\ stage \in {"idle", "fit", "judge", "booster", "sidecar"} /\ pipeline \in Pipelines
    /\ length \in Nat /\ DOMAIN fitted = 1..Model /\ DOMAIN judged = 1..Model
    /\ approved \subseteq 1..Model /\ {booster, sidecar} \subseteq (1..Model) \cup {NoModel}

\* A model that can be loaded, its booster and its sidecar, was approved on bars
\* that all came after the ones it was fitted on, labels included.
LoadedWasJudgedApart ==
    \A m \in {loaded[1], loaded[2]} \ {NoModel} :
      m \in approved /\ \A i \in fitted[m], j \in judged[m] : i < j
=============================================================================
