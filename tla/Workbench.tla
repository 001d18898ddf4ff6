----------------------------- MODULE Workbench -----------------------------
(***************************************************************************)
(* The research side, away from the trading loop: round trips on a live    *)
(* demo account and the cost measured on them, the tradability of a        *)
(* horizon, the searches for features, the training of models, the signals *)
(* of the strategies, the decomposition of what they earn, and the         *)
(* campaigns that validate them.  These programs                           *)
(* share no state: as for Services, a behaviour follows one of them, and   *)
(* the inputs of the others are fixed.                                     *)
(***************************************************************************)
EXTENDS LiveRoundTrip, CostMeasure, Tradability, FeatureResearch, SegmentResearch, ModelTraining,
        SignalStreams, PnlDecomposition, Campaigns

VARIABLE focus   \* the program this behaviour follows

Programs == {"trip", "measure", "gate", "research", "segments", "training", "stream", "pnl",
             "campaigns"}

vars == <<focus, tripVars, measureVars, gateVars, researchVars, segmentVars, trainingVars,
          streamVars, pnlVars, campaignVars>>

Fixed(S) == CHOOSE x \in S : TRUE

Init ==
    /\ focus \in Programs
    /\ RoundTripInit
    /\ focus # "trip" => requested = Anybody /\ accounts = Fixed(AccountLists)
    /\ MeasureInit
    /\ focus # "measure" => taken = 1 /\ fee = Fixed(Fees)
    /\ GateInit
    /\ focus # "gate" => /\ horizon = 1 /\ commission = Fixed(Commissions)
                         /\ slippage = Fixed(Slippages) /\ margin = Fixed(Margins)
                         /\ minRatio = Fixed(MinRatios)
    /\ ResearchInit
    /\ focus # "research" => /\ family = "macro" /\ calendar = Fixed(Calendars)
                             /\ series = Fixed(Observations)
    /\ SegmentInit
    /\ focus # "segments" => searcher = "macro" /\ seriesLength = Fixed(SeriesLengths)
    /\ TrainingInit
    /\ PnlInit
    /\ StreamInit
    /\ focus # "stream" => strategy = "buy_and_hold"
    /\ CampaignsInit
    /\ focus # "campaigns" => todo = Fixed(Configurations) /\ bars = Fixed(Histories)

TripStep ==
    /\ focus = "trip" /\ RoundTripNext
    /\ UNCHANGED <<focus, measureVars, gateVars, researchVars, segmentVars,
                   trainingVars, streamVars, pnlVars, campaignVars>>

MeasureStep ==
    /\ focus = "measure" /\ MeasureNext
    /\ UNCHANGED <<focus, tripVars, gateVars, researchVars, segmentVars,
                   trainingVars, streamVars, pnlVars, campaignVars>>

GateStep ==
    /\ focus = "gate" /\ GateNext
    /\ UNCHANGED <<focus, tripVars, measureVars, researchVars, segmentVars,
                   trainingVars, streamVars, pnlVars, campaignVars>>

ResearchStep ==
    /\ focus = "research" /\ ResearchNext
    /\ UNCHANGED <<focus, tripVars, measureVars, gateVars, segmentVars,
                   trainingVars, streamVars, pnlVars, campaignVars>>

SegmentStep ==
    /\ focus = "segments" /\ SegmentNext
    /\ UNCHANGED <<focus, tripVars, measureVars, gateVars, researchVars,
                   trainingVars, streamVars, pnlVars, campaignVars>>

TrainingStep ==
    /\ focus = "training" /\ TrainingNext
    /\ UNCHANGED <<focus, tripVars, measureVars, gateVars, researchVars,
                   segmentVars, streamVars, pnlVars, campaignVars>>

StreamStep ==
    /\ focus = "stream" /\ StreamNext
    /\ UNCHANGED <<focus, tripVars, measureVars, gateVars, researchVars,
                   segmentVars, trainingVars, pnlVars, campaignVars>>

PnlStep ==
    /\ focus = "pnl" /\ PnlNext
    /\ UNCHANGED <<focus, tripVars, measureVars, gateVars, researchVars,
                   segmentVars, trainingVars, streamVars, campaignVars>>

CampaignsStep ==
    /\ focus = "campaigns" /\ CampaignsNext
    /\ UNCHANGED <<focus, tripVars, measureVars, gateVars, researchVars,
                   segmentVars, trainingVars, streamVars, pnlVars>>

Next ==
    \/ TripStep \/ MeasureStep \/ GateStep \/ ResearchStep \/ SegmentStep \/ TrainingStep
    \/ StreamStep \/ PnlStep \/ CampaignsStep

Spec == Init /\ [][Next]_vars

\* Every program keeps its own type invariant.
WorkbenchTypeOK ==
    /\ focus \in Programs
    /\ RoundTripTypeOK /\ MeasureTypeOK /\ GateTypeOK /\ ResearchTypeOK
    /\ SegmentTypeOK /\ TrainingTypeOK /\ StreamTypeOK /\ PnlTypeOK /\ CampaignsTypeOK
=============================================================================
