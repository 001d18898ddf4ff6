--------------------------- MODULE Workbench_proofs ---------------------------
(***************************************************************************)
(* Proofs about the research programs, for every value of the constants:   *)
(* the side inferred from the tickets, the round trips, the costs and the  *)
(* runs of the tradability gate, the signals of the strategies, the models *)
(* that can be loaded, the series laid over the bars and the tests         *)
(* corrected, the rows the verdicts on features are made of, the           *)
(* decomposition of the account and the campaigns behind an approval; and  *)
(* that the composition is, for each program, its own specification, so    *)
(* that what is proved of a program holds of the composition.              *)
(***************************************************************************)
EXTENDS Workbench, SumsAndRanks, TLAPS

\* What each step of the composition is for one program: a step of it, or none.
LEMMA StepOfEachProgram ==
    [Next]_vars =>
        /\ [RoundTripNext]_tripVars /\ [MeasureNext]_measureVars /\ [GateNext]_gateVars
        /\ [ResearchNext]_researchVars /\ [SegmentNext]_segmentVars
        /\ [TrainingNext]_trainingVars /\ [StreamNext]_streamVars /\ [PnlNext]_pnlVars
        /\ [CampaignsNext]_campaignVars
<1> SUFFICES ASSUME [Next]_vars
             PROVE  /\ [RoundTripNext]_tripVars /\ [MeasureNext]_measureVars
                    /\ [GateNext]_gateVars /\ [ResearchNext]_researchVars
                    /\ [SegmentNext]_segmentVars /\ [TrainingNext]_trainingVars
                    /\ [StreamNext]_streamVars /\ [PnlNext]_pnlVars
                    /\ [CampaignsNext]_campaignVars
  OBVIOUS
<1>1. CASE TripStep
  BY <1>1, Zenon DEF TripStep
<1>2. CASE MeasureStep
  BY <1>2, Zenon DEF MeasureStep
<1>3. CASE GateStep
  BY <1>3, Zenon DEF GateStep
<1>4. CASE ResearchStep
  BY <1>4, Zenon DEF ResearchStep
<1>5. CASE SegmentStep
  BY <1>5, Zenon DEF SegmentStep
<1>6. CASE TrainingStep
  BY <1>6, Zenon DEF TrainingStep
<1>7. CASE StreamStep
  BY <1>7, Zenon DEF StreamStep
<1>8. CASE PnlStep
  BY <1>8, Zenon DEF PnlStep
<1>9. CASE CampaignsStep
  BY <1>9, Zenon DEF CampaignsStep
<1>10. CASE UNCHANGED vars
  BY <1>10, Zenon DEF vars
<1> QED
  BY <1>1, <1>2, <1>3, <1>4, <1>5, <1>6, <1>7, <1>8, <1>9, <1>10 DEF Next

\* Following one program at a time loses nothing of any of them: the composition
\* implements the specification of every program.
THEOREM EachProgramIsKept ==
    Spec => /\ RoundTripSpec /\ MeasureSpec /\ GateSpec /\ ResearchSpec /\ SegmentSpec
            /\ TrainingSpec /\ StreamSpec /\ PnlSpec /\ CampaignsSpec
<1>1. Init => /\ RoundTripInit /\ MeasureInit /\ GateInit /\ ResearchInit /\ SegmentInit
              /\ TrainingInit /\ StreamInit /\ PnlInit /\ CampaignsInit
  BY DEF Init
<1> QED
  BY <1>1, StepOfEachProgram, PTL DEF Spec, RoundTripSpec, MeasureSpec, GateSpec, ResearchSpec,
     SegmentSpec, TrainingSpec, StreamSpec, PnlSpec, CampaignsSpec
-----------------------------------------------------------------------------
\* What is shown is at most half a display step away from the amount.
LEMMA ShownNear ==
    ASSUME NEW amount \in Int
    PROVE  /\ Shown(amount) \in Int
           /\ 2 * (Shown(amount) - amount) <= DisplayStep
           /\ 2 * (amount - Shown(amount)) <= DisplayStep
<1> DEFINE half == DisplayStep \div 2
           sum == amount + half
           steps == sum \div DisplayStep
           rest == sum % DisplayStep
<1>1. half \in Int /\ 2 * half = DisplayStep
  BY CostMeasureAssumption
<1> HIDE DEF half
<1>2. sum \in Int
  BY <1>1
<1> HIDE DEF sum
<1>3. steps \in Int /\ rest \in 0 .. DisplayStep - 1 /\ sum = DisplayStep * steps + rest
  BY <1>2, CostMeasureAssumption
<1>4. Shown(amount) = DisplayStep * steps
  BY DEF Shown, steps, sum, half
<1> HIDE DEF steps, rest
<1> DEFINE shown == DisplayStep * steps
<1>5. shown \in Int
  BY <1>3, CostMeasureAssumption
<1> HIDE DEF shown
<1>6. sum = shown + rest
  BY <1>3 DEF shown
<1> QED
  BY <1>1, <1>3, <1>4, <1>5, <1>6, CostMeasureAssumption DEF sum, shown

\* No ticket contradicts the side that was taken: the two displays together hide
\* at most one display step, and the floor leaves one.
MeasureInv ==
    /\ taken \in {1, -1} /\ fee \in Nat
    /\ \A ticket \in tickets : CostIf(taken, ticket) >= Floor

LEMMA TicketAdmits ==
    ASSUME taken \in {1, -1}, fee \in Nat, NEW movement \in Int, NEW residue \in Nat
    PROVE  taken * movement - Shown(taken * movement - fee - residue) >= Shown(fee) - DisplayStep
<1>1. taken * movement \in Int
  OBVIOUS
<1> DEFINE gain == taken * movement
<1> HIDE DEF gain
<1>2. gain - fee - residue \in Int
  BY <1>1 DEF gain
<1>3. /\ Shown(gain - fee - residue) \in Int
      /\ 2 * (Shown(gain - fee - residue) - (gain - fee - residue)) <= DisplayStep
  BY <1>2, ShownNear
<1>4. Shown(fee) \in Int /\ 2 * (Shown(fee) - fee) <= DisplayStep
  BY ShownNear
<1>5. gain - Shown(gain - fee - residue) >= Shown(fee) - DisplayStep
  BY <1>1, <1>3, <1>4, CostMeasureAssumption DEF gain
<1> QED
  BY <1>5 DEF gain

LEMMA MeasureInvStep == MeasureInv /\ [MeasureNext]_measureVars => MeasureInv'
<1> SUFFICES ASSUME MeasureInv, [MeasureNext]_measureVars PROVE MeasureInv'
  OBVIOUS
<1>1. ASSUME NEW movement \in PriceMoves, NEW residue \in Residues, Ticket(movement, residue)
      PROVE  MeasureInv'
  <2> DEFINE new == [move |-> movement, pnl |-> Shown(taken * movement - fee - residue)]
  <2>1. taken' = taken /\ fee' = fee /\ tickets' = tickets \cup {new}
    BY <1>1 DEF Ticket
  <2>2. movement \in Int /\ residue \in Nat
    BY CostMeasureAssumption
  <2>3. CostIf(taken, new) >= Floor
    BY <2>2, TicketAdmits DEF CostIf, Floor, MeasureInv
  <2>4. \A ticket \in tickets' : CostIf(taken, ticket) >= Floor
    BY <2>1, <2>3 DEF MeasureInv
  <2> QED
    BY <2>1, <2>4 DEF MeasureInv, CostIf, Floor
<1>2. CASE UNCHANGED measureVars
  BY <1>2 DEF MeasureInv, measureVars, CostIf, Floor
<1> QED
  BY <1>1, <1>2 DEF MeasureNext

\* The side inferred from the tickets is never the wrong one (infer_direction),
\* whatever the display step, the commissions and the moves of the market.
THEOREM InferredIsAlwaysTheTruth == MeasureSpec => []InferredIsTheTruth
<1>1. MeasureInit => MeasureInv
  BY CostMeasureAssumption DEF MeasureInit, MeasureInv
<1>2. MeasureInv => InferredIsTheTruth
  <2> SUFFICES ASSUME MeasureInv, Cardinality(Admissible) = 1
               PROVE  (CHOOSE direction \in Admissible : TRUE) = taken
    BY DEF InferredIsTheTruth, Inferred
  <2>1. taken \in Admissible
    BY DEF MeasureInv, Admissible
  <2>2. IsFiniteSet(Admissible)
    <3>1. Admissible \subseteq {1} \cup {-1}
      BY DEF Admissible
    <3>2. IsFiniteSet({1} \cup {-1})
      BY FS_Singleton, FS_Union, Zenon
    <3> QED
      BY <3>1, <3>2, FS_Subset
  <2>3. PICK only : Admissible = {only}
    BY <2>2, FS_Singleton
  <2> QED
    BY <2>1, <2>3
<1> QED
  BY <1>1, <1>2, MeasureInvStep, PTL DEF MeasureSpec
-----------------------------------------------------------------------------
\* A strategy of crossings has spoken only after its warm-up.
StreamInv ==
    /\ observed \in Nat /\ order \in {-1, 0, 1} /\ intent \in {-1, 0, 1}
    /\ strategy \in {"ema_cross", "engine_ema_cross"} /\ intent # 0 => observed > WarmUp
    /\ SignalsFollowTrend

LEMMA StreamInvStep == StreamInv /\ [StreamNext]_streamVars => StreamInv'
<1> SUFFICES ASSUME StreamInv, [StreamNext]_streamVars PROVE StreamInv'
  OBVIOUS
<1> USE SignalStreamsAssumption DEF StreamInv, SignalsFollowTrend
<1>0. WarmUp \in Nat
  BY DEF WarmUp
<1>1. ASSUME Observe PROVE StreamInv'
  <2>0. observed' = observed + 1 /\ strategy' = strategy /\ WarmUp' = WarmUp
    BY <1>1 DEF Observe, WarmUp
  <2>1. ASSUME NEW next \in {-1, 0, 1}, NEW rsi \in {-1, 0, 1}, NEW dollar \in {-1, 0, 1},
               CrossBar(next, rsi, dollar)
        PROVE  StreamInv'
    BY <1>0, <2>0, <2>1 DEF CrossBar, Crossed, Confirmed
  <2>2. ASSUME NEW close \in Closes, ReturnBar(close)
        PROVE  StreamInv'
    <3> DEFINE window == Append(closes, close)
               full == IF Len(window) > Lookback + 1 THEN Tail(window) ELSE window
               return == IF Len(full) = Lookback + 1
                         THEN Sign(full[Lookback + 1] - full[1]) ELSE 0
    <3>1. return \in {-1, 0, 1}
      BY DEF Sign
    <3>2. /\ strategy = "return5" /\ order' = order
          /\ move' = IF return # 0 THEN return ELSE move
          /\ intent' = IF return # 0 /\ return # intent THEN return ELSE intent
      BY <2>2, Zenon DEF ReturnBar
    <3> HIDE DEF return
    <3> QED
      BY <2>0, <3>1, <3>2
  <2>3. ASSUME NEW dollar \in {-1, 0, 1}, DollarBar(dollar)
        PROVE  StreamInv'
    BY <2>0, <2>3 DEF DollarBar
  <2>4. ASSUME HoldBar
        PROVE  StreamInv'
    BY <2>0, <2>4 DEF HoldBar
  <2> QED
    BY <1>1, <2>1, <2>2, <2>3, <2>4 DEF Observe
<1>2. ASSUME Ignore PROVE StreamInv'
  BY <1>2 DEF Ignore, WarmUp
<1>3. CASE UNCHANGED streamVars
  BY <1>3 DEF streamVars, WarmUp
<1> QED
  BY <1>1, <1>2, <1>3 DEF StreamNext

\* Whatever the periods and the length of the feed, the last signal of a strategy
\* is not contradicted by its averages or its return (on_market_event).
THEOREM SignalsAlwaysFollowTrend == StreamSpec => []SignalsFollowTrend
<1>1. StreamInit => StreamInv
  BY DEF StreamInit, StreamInv, SignalsFollowTrend
<1>2. StreamInv => SignalsFollowTrend
  BY DEF StreamInv
<1> QED
  BY <1>1, <1>2, StreamInvStep, PTL DEF StreamSpec
-----------------------------------------------------------------------------
\* The cut of a series is 7/10 of it, or one less.
LEMMA SeventyPercentFact ==
    ASSUME NEW n \in Nat
    PROVE  /\ SeventyPercent(n) \in Int
           /\ SeventyPercent(n) + 1 \in Nat
<1>1. (7 * n) \div 10 \in Nat
  OBVIOUS
<1>2. SeventyPercent(n) = (7 * n) \div 10 \/ SeventyPercent(n) = (7 * n) \div 10 - 1
  BY DEF SeventyPercent
<1> QED
  BY <1>1, <1>2

\* Every bar a row of the training segment is computed from, its label included, is
\* in the training segment: the rows to judge on come after.
LEMMA SupervisedApart ==
    ASSUME length \in Nat
    PROVE  \A i \in Supervised.fit, j \in Supervised.judge : i < j
<1> DEFINE k == Cut
<1>1. k \in Int
  BY SeventyPercentFact DEF Cut
<1>2. Supervised.fit = Labelled(1..k, k) /\ Supervised.judge = (k + 1)..length
  BY DEF Supervised
<1> HIDE DEF k
<1>3. \A i \in Labelled(1..k, k) : i \in Int /\ i <= k
  BY <1>1, TrainingAssumption DEF Labelled
<1> QED
  BY <1>1, <1>2, <1>3

\* The models are numbered from 1, each has what it was fitted and judged on; only
\* the one being judged may be approved, and only approved ones are written.
TrainingInv ==
    /\ stage \in {"idle", "fit", "judge", "booster", "sidecar"}
    /\ length \in Nat
    /\ \E n \in Nat : DOMAIN fitted = 1..n
    /\ DOMAIN judged = DOMAIN fitted
    /\ approved \subseteq DOMAIN fitted
    /\ stage \in {"judge", "booster", "sidecar"} => Model \in DOMAIN fitted
    /\ stage = "judge" => Model \notin approved
    /\ stage = "judge" /\ pipeline = "qlib" => fitted[Model] = Supervised.fit
    /\ stage \in {"booster", "sidecar"} => Model \in approved
    /\ {booster, sidecar, loaded[1], loaded[2]} \subseteq approved \cup {NoModel}
    /\ \A m \in approved : \A i \in fitted[m], j \in judged[m] : i < j

LEMMA ModelIsLast ==
    ASSUME NEW n \in Nat, DOMAIN fitted = 1..n
    PROVE  Model = n
BY FS_Interval DEF Model

LEMMA TrainingInvStep == TrainingInv /\ [TrainingNext]_trainingVars => TrainingInv'
<1> SUFFICES ASSUME TrainingInv, [TrainingNext]_trainingVars PROVE TrainingInv'
  OBVIOUS
<1>0. PICK n \in Nat : DOMAIN fitted = 1..n
  BY DEF TrainingInv
<1>m. Model = n
  BY <1>0, ModelIsLast
<1>1. ASSUME LoadBars PROVE TrainingInv'
  BY <1>1, TrainingAssumption DEF LoadBars, TrainingInv, Model
<1>2. ASSUME Fit PROVE TrainingInv'
  <2>1. CASE UNCHANGED <<fitted, judged>> /\ stage' = "idle"
    BY <1>2, <2>1 DEF Fit, TrainingInv, Model
  <2>2. CASE /\ fitted' = [m \in DOMAIN fitted \cup {Model + 1} |->
                             IF m \in DOMAIN fitted THEN fitted[m] ELSE Segments.fit]
             /\ judged' = [m \in DOMAIN fitted' |-> IF m \in DOMAIN judged THEN judged[m] ELSE {}]
             /\ stage' = "judge"
    <3>1. DOMAIN fitted' = 1..(n + 1) /\ DOMAIN judged' = 1..(n + 1)
      BY <2>2, <1>0, <1>m
    <3>2. Model' = n + 1
      BY <3>1, FS_Interval DEF Model
    <3>3. \A m \in 1..n : fitted'[m] = fitted[m] /\ judged'[m] = judged[m]
      BY <2>2, <1>0, <1>m, <3>1 DEF TrainingInv
    <3>4. UNCHANGED <<pipeline, length, approved, booster, sidecar, loaded>>
      BY <1>2 DEF Fit
    <3>5. pipeline = "qlib" => fitted'[n + 1] = Supervised.fit
      BY <2>2, <1>0, <1>m, <3>1 DEF Segments
    <3>6. (Supervised.fit)' = Supervised.fit
      BY <3>4 DEF Supervised, Cut, Labelled
    <3> QED
      BY <1>0, <2>2, <3>1, <3>2, <3>3, <3>4, <3>5, <3>6 DEF TrainingInv
  <2> QED
    BY <1>2, <2>1, <2>2 DEF Fit
<1>3. ASSUME Judge PROVE TrainingInv'
  <2>1. /\ stage = "judge" /\ judged' = [judged EXCEPT ![n] = Segments.judge]
        /\ UNCHANGED <<pipeline, length, fitted, booster, sidecar, loaded>>
        /\ \/ pipeline = "qlib" /\ approved' = approved \cup {n} /\ stage' = "booster"
           \/ stage' = "idle" /\ UNCHANGED approved
    BY <1>3, <1>m, Zenon DEF Judge
  <2>2. Model' = n /\ n \in 1..n /\ n \notin approved
    BY <2>1, <1>0, <1>m DEF TrainingInv, Model
  <2>3. \A m \in approved : judged'[m] = judged[m]
    BY <2>1, <2>2 DEF TrainingInv
  <2>4. pipeline = "qlib" => \A i \in fitted[n], j \in judged'[n] : i < j
    BY <2>1, <2>2, <1>0, <1>m, SupervisedApart DEF TrainingInv, Segments
  <2>5. DOMAIN judged' = DOMAIN fitted'
    BY <2>1 DEF TrainingInv
  <2>6. \A m \in approved' : \A i \in fitted'[m], j \in judged'[m] : i < j
    BY <2>1, <2>3, <2>4 DEF TrainingInv
  <2>7. /\ approved' \subseteq DOMAIN fitted' /\ stage' \in {"idle", "booster"}
        /\ stage' = "booster" => n \in approved'
        /\ approved \subseteq approved'
    BY <2>1, <2>2, <1>0 DEF TrainingInv
  <2> QED
    BY <1>0, <2>1, <2>2, <2>5, <2>6, <2>7 DEF TrainingInv
<1>4. ASSUME SaveBooster PROVE TrainingInv'
  BY <1>4 DEF SaveBooster, TrainingInv, Model
<1>5. ASSUME SaveSidecar PROVE TrainingInv'
  BY <1>5 DEF SaveSidecar, TrainingInv, Model
<1>6. ASSUME TrainingCrash PROVE TrainingInv'
  BY <1>6 DEF TrainingCrash, TrainingInv, Model
<1>7. ASSUME Load PROVE TrainingInv'
  <2>1. (Supervised.fit)' = Supervised.fit
    BY <1>7 DEF Load, Supervised, Cut, Labelled
  <2> QED
    BY <1>7, <2>1 DEF Load, TrainingInv, Model
<1>8. CASE UNCHANGED trainingVars
  <2>1. (Supervised.fit)' = Supervised.fit
    BY <1>8 DEF trainingVars, Supervised, Cut, Labelled
  <2> QED
    BY <1>8, <2>1 DEF trainingVars, TrainingInv, Model
<1> QED
  BY <1>1, <1>2, <1>3, <1>4, <1>5, <1>6, <1>7, <1>8 DEF TrainingNext

\* No crash, no order of trainings and no length of history makes loadable a model
\* that was not approved, or one judged on bars it had seen (LightGBMModel.load).
THEOREM LoadedAlwaysJudgedApart == TrainingSpec => []LoadedWasJudgedApart
<1>1. TrainingInit => TrainingInv
  <2> SUFFICES ASSUME TrainingInit PROVE TrainingInv
    OBVIOUS
  <2>1. DOMAIN fitted = 1..0 /\ DOMAIN judged = 1..0
    BY DEF TrainingInit, Nothing
  <2> QED
    BY <2>1 DEF TrainingInit, TrainingInv
<1>2. TrainingInv => LoadedWasJudgedApart
  BY DEF TrainingInv, LoadedWasJudgedApart
<1> QED
  BY <1>1, <1>2, TrainingInvStep, PTL DEF TrainingSpec
-----------------------------------------------------------------------------
States == {"open", "sold", "stopped"}
Answered == Cardinality(known)

\* The purchases answered are the first ones, and all but perhaps the last; the
\* contract held is the last; and none is open but the one held, or the last one when
\* the script is leaving.
TripInv ==
    /\ step \in Calls \cup {"accounts", "otp", "sleep", "write", "over"}
    /\ contract \in Seq(States) /\ onReal = {}
    /\ Answered \in Nat /\ known = 1..Answered
    /\ Len(contract) \in {Answered, Answered + 1}
    /\ Len(contract) # Answered => step \in {"write", "over"} \/ (step = "buy" /\ sent)
    /\ step \in Holding \cup {"rescue", "settled"} => mine = Len(contract) /\ mine # 0
    /\ step \in {"accounts", "otp"} => contract = <<>>
    /\ sent \in BOOLEAN /\ (sent => step \in Calls)
    /\ step \in Calls \cup {"sleep"} => channel = "demo"
    /\ \A i \in 1..Len(contract) : contract[i] = "open" =>
         /\ i = Len(contract)
         /\ i <= Answered => \/ step \in Holding \cup {"rescue"}
                             \/ step \in {"write", "over"} /\ i \in said \cup abandoned

LEMMA AppendFact ==
    ASSUME NEW q \in Seq(States), NEW x \in States
    PROVE  /\ Append(q, x) \in Seq(States) /\ Len(Append(q, x)) = Len(q) + 1
           /\ \A i \in 1..Len(q) : Append(q, x)[i] = q[i]
OBVIOUS

LEMMA ReplaceFact ==
    ASSUME NEW q \in Seq(States), NEW j \in 1..Len(q), NEW x \in States
    PROVE  /\ [q EXCEPT ![j] = x] \in Seq(States) /\ Len([q EXCEPT ![j] = x]) = Len(q)
           /\ \A i \in 1..Len(q) : [q EXCEPT ![j] = x][i] = IF i = j THEN x ELSE q[i]
OBVIOUS

\* Deriv executes what is sent, or does not.
LEMMA SendKeeps == TripInv /\ Send => TripInv'
<1> SUFFICES ASSUME TripInv, Send PROVE TripInv'
  OBVIOUS
<1>0. /\ step \in Calls /\ ~sent /\ sent' = TRUE
      /\ UNCHANGED <<step, channel, mine, said, known, abandoned>>
  BY DEF Send, chosen, seen
<1>1. Answered' = Answered
  BY <1>0 DEF Answered
<1>2. CASE UNCHANGED deriv
  BY <1>0, <1>1, <1>2 DEF TripInv, deriv
<1>3. CASE step = "buy" /\ contract' = Append(contract, "open") /\ onReal' = onReal
  <2>1. /\ contract' \in Seq(States) /\ Len(contract') = Len(contract) + 1
        /\ \A i \in 1..Len(contract) : contract'[i] = contract[i]
    BY <1>3, AppendFact DEF TripInv, States
  <2>2. Len(contract) = Answered
    BY <1>0, <1>3 DEF TripInv
  <2>3. \A i \in 1..Len(contract) : contract[i] # "open"
    BY <1>3, <2>2 DEF TripInv, Holding
  <2> QED
    BY <1>0, <1>1, <1>3, <2>1, <2>2, <2>3 DEF TripInv, Holding, Calls
<1>4. CASE /\ step \in {"sell", "rescue"} /\ contract' = [contract EXCEPT ![mine] = "sold"]
           /\ onReal' = onReal
  <2>1. mine \in 1..Len(contract) /\ mine = Len(contract)
    BY <1>4 DEF TripInv, Holding
  <2>2. /\ contract' \in Seq(States) /\ Len(contract') = Len(contract)
        /\ \A i \in 1..Len(contract) : contract'[i] = IF i = mine THEN "sold" ELSE contract[i]
    BY <1>4, <2>1, ReplaceFact DEF TripInv, States
  <2> QED
    BY <1>0, <1>1, <1>4, <2>1, <2>2 DEF TripInv, Holding, Calls
<1> QED
  BY <1>0, <1>2, <1>3, <1>4 DEF Send, Served, TripInv

LEMMA StopOutKeeps == TripInv /\ StopOut => TripInv'
<1> SUFFICES ASSUME TripInv, StopOut PROVE TripInv'
  OBVIOUS
<1>1. PICK j \in DOMAIN contract : contract' = [contract EXCEPT ![j] = "stopped"]
  BY DEF StopOut
<1>2. DOMAIN contract = 1..Len(contract)
  BY DEF TripInv
<1>3. /\ contract' \in Seq(States) /\ Len(contract') = Len(contract)
      /\ \A i \in 1..Len(contract) : contract'[i] = IF i = j THEN "stopped" ELSE contract[i]
  BY <1>1, <1>2, ReplaceFact DEF TripInv, States
<1>4. UNCHANGED <<step, sent, channel, mine, said, onReal, known, abandoned>>
  BY DEF StopOut, chosen, seen
<1>5. Answered' = Answered
  BY <1>4 DEF Answered
<1>6. step \in {"accounts", "otp"} => contract' = <<>>
  BY <1>1, <1>2 DEF TripInv
<1> QED
  BY <1>3, <1>4, <1>5, <1>6 DEF TripInv, Holding

\* What is raised is followed by a sale, or by the end.
LEMMA RaiseKeeps ==
    ASSUME TripInv, step \in Calls \cup {"sleep"}, NEW kind, Raise(kind),
           UNCHANGED <<channel, deriv, known>>,
           abandoned' = IF step = "rescue" /\ kind = "interrupt" THEN abandoned \cup {mine}
                        ELSE abandoned
    PROVE  TripInv'
<1>1. Answered' = Answered /\ UNCHANGED <<contract, onReal, channel, mine>> /\ sent' = FALSE
  BY DEF Answered, deriv, Raise
<1>2. CASE step \in Holding
  <2>1. step' = "rescue" /\ said' = said /\ abandoned' = abandoned
    BY <1>2 DEF Raise, Holding
  <2> QED
    BY <1>1, <1>2, <2>1 DEF TripInv, Holding, Calls
<1>3. CASE step \in {"entry_spot", "buy", "settled"}
  <2>1. step' \in {"write", "over"} /\ said' = said /\ abandoned' = abandoned
    BY <1>3 DEF Raise, Holding, Leave
  <2> QED
    BY <1>1, <1>3, <2>1 DEF TripInv, Holding, Calls
<1>4. CASE step = "rescue"
  <2>1. step' \in {"write", "over"} /\ mine \in said' \cup abandoned'
    BY <1>4 DEF Raise, Holding, Leave
  <2> QED
    BY <1>1, <1>4, <2>1 DEF TripInv, Holding, Calls
<1> QED
  BY <1>2, <1>3, <1>4 DEF Calls, Holding

LEMMA BuyAnsweredKeeps == TripInv /\ BuyAnswered => TripInv'
<1> SUFFICES ASSUME TripInv, BuyAnswered PROVE TripInv'
  OBVIOUS
<1>1. /\ step = "buy" /\ Len(contract) > Answered /\ mine' = Len(contract)
      /\ known' = known \cup {Len(contract)} /\ step' = "sleep" /\ sent' = FALSE
      /\ UNCHANGED <<channel, said, contract, onReal, abandoned>>
  BY DEF BuyAnswered, Answered, chosen, deriv
<1>2. Len(contract) \in Nat /\ known' = 1..Len(contract)
  BY <1>1 DEF TripInv
<1>3. Answered' = Len(contract)
  BY <1>2, <1>1, FS_Interval DEF Answered
<1>4. Len(contract) # 0
  BY <1>1 DEF TripInv
<1> QED
  BY <1>1, <1>2, <1>3, <1>4 DEF TripInv, Holding, Calls

LEMMA TripInvStep == TripInv /\ [RoundTripNext]_tripVars => TripInv'
<1> SUFFICES ASSUME TripInv, [RoundTripNext]_tripVars PROVE TripInv'
  OBVIOUS
<1> USE DEF TripInv, Holding, Calls, chosen, deriv, seen, Answered
<1>1. CASE SelectDemoAccount
  BY <1>1 DEF SelectDemoAccount
<1>2. CASE OpenDemoSession
  BY <1>2 DEF OpenDemoSession
<1>3. CASE Send
  BY <1>3, SendKeeps
<1>4. CASE StopOut
  BY <1>4, StopOutKeeps
<1>5. CASE CutOff
  BY <1>5 DEF CutOff
<1>6. CASE Lost
  BY <1>6, RaiseKeeps DEF Lost
<1>7. CASE Refused
  BY <1>7, RaiseKeeps DEF Refused
<1>8. CASE Interrupt
  BY <1>8, RaiseKeeps DEF Interrupt
<1>9. CASE BuyAnswered
  BY <1>9, BuyAnsweredKeeps
<1>10. CASE SpotAnswered
  BY <1>10 DEF SpotAnswered
<1>11. CASE SellAnswered
  BY <1>11 DEF SellAnswered, Leave
<1>12. CASE Settled
  BY <1>12 DEF Settled
<1>13. CASE HoldOver
  BY <1>13 DEF HoldOver
<1>14. CASE AppendRoundTrips
  BY <1>14 DEF AppendRoundTrips
<1>15. CASE UNCHANGED tripVars
  BY <1>15 DEF tripVars
<1> QED
  BY <1>1, <1>2, <1>3, <1>4, <1>5, <1>6, <1>7, <1>8, <1>9, <1>10, <1>11, <1>12, <1>13, <1>14,
     <1>15 DEF RoundTripNext

\* The program that sends real orders leaves at most its last contract open, on a
\* demo account and not in silence (run_round_trip, run_session): for any number of
\* round trips, and any account list.
THEOREM UnclosedAlwaysLastAndSaid == RoundTripSpec => []UnclosedIsLastAndSaid
<1>1. RoundTripInit => TripInv
  <2> SUFFICES ASSUME RoundTripInit PROVE TripInv
    OBVIOUS
  <2>1. Answered = 0 /\ known = 1..0
    BY FS_EmptySet DEF RoundTripInit, Answered
  <2>2. contract \in Seq(States) /\ Len(contract) = 0
    BY DEF RoundTripInit
  <2> QED
    BY <2>1, <2>2 DEF RoundTripInit, TripInv, Calls, Holding
<1>2. TripInv => UnclosedIsLastAndSaid
  BY DEF TripInv, UnclosedIsLastAndSaid, Holding
<1> QED
  BY <1>1, <1>2, TripInvStep, PTL DEF RoundTripSpec
-----------------------------------------------------------------------------
\* Multiplying both sides by a factor.
LEMMA Scaled ==
    ASSUME NEW x \in Int, NEW y \in Int, NEW k \in Nat, x <= y
    PROVE  x * k <= y * k
OBVIOUS
LEMMA ScaledStrictly ==
    ASSUME NEW x \in Int, NEW y \in Int, NEW k \in Nat \ {0}, x < y
    PROVE  x * k < y * k
OBVIOUS

\* The threshold of a rise, in hundredths of the entry price, stays under what the
\* broker takes at both ends, relative to what it leaves: the product of slippage and
\* commission never outweighs their sum.
LEMMA RiseRate ==
    ASSUME NEW c \in 0..99, NEW s \in 0..99
    PROVE  (100 + 2 * (c + s)) * ((100 - s) * (100 - c)) <= 100 * ((100 + s) * (100 + c))
<1> DEFINE p == s * c
           u == c + s
<1>1. p \in Nat /\ u \in Nat /\ p <= 100 * u
  <2>1. s * c <= 99 * c
    BY Scaled
  <2> QED
    BY <2>1
<1>2. (100 - s) * (100 - c) = 10000 - 100 * u + p
  OBVIOUS
<1>3. (100 + s) * (100 + c) = 10000 + 100 * u + p
  OBVIOUS
<1>4. p * u <= (100 * u) * u
  BY <1>1, Scaled
<1> HIDE DEF p, u
<1>5. (100 + 2 * u) * (10000 - 100 * u + p) = 1000000 + 10000 * u + 100 * p - 200 * (u * u) + 2 * (p * u)
  BY <1>1
<1>6. (100 * u) * u = 100 * (u * u)
  BY <1>1
<1> QED
  BY <1>1, <1>2, <1>3, <1>4, <1>5, <1>6 DEF u

\* The same of a fall, where the threshold is the larger of the two.
LEMMA FallRate ==
    ASSUME NEW c \in 0..99, NEW s \in 0..99
    PROVE  (100 - 2 * (c + s)) * ((100 + s) * (100 + c)) <= 100 * ((100 - s) * (100 - c))
<1> DEFINE p == s * c
           u == c + s
<1>1. p \in Nat /\ u \in Nat
  OBVIOUS
<1>2. (100 - s) * (100 - c) = 10000 - 100 * u + p
  OBVIOUS
<1>3. (100 + s) * (100 + c) = 10000 + 100 * u + p
  OBVIOUS
<1> HIDE DEF p, u
<1>5. (100 - 2 * u) * (10000 + 100 * u + p) = 1000000 - 10000 * u + 100 * p - 200 * (u * u) - 2 * (p * u)
  BY <1>1
<1>6. p * u \in Nat /\ u * u \in Nat
  BY <1>1
<1> QED
  BY <1>1, <1>2, <1>3, <1>5, <1>6 DEF u

\* From v to w, a rise below the threshold loses to the broker; a fall above it pays.
LEMMA RefusedRiseLoses ==
    ASSUME NEW c \in 0..99, NEW s \in 0..99, NEW v \in Nat \ {0}, NEW w \in Nat \ {0},
           100 * (w - v) < (2 * (c + s)) * v
    PROVE  w * (100 - s) * (100 - c) < v * (100 + s) * (100 + c)
<1> DEFINE a == (100 - s) * (100 - c)
           b == (100 + s) * (100 + c)
           r == 100 + 2 * (c + s)
<1>1. a \in Nat \ {0} /\ b \in Nat \ {0} /\ r \in Nat
  <2>1. {100 - s, 100 - c, 100 + s, 100 + c} \subseteq Nat \ {0}
    OBVIOUS
  <2>2. \A x, y \in Nat \ {0} : x * y \in Nat \ {0}
    OBVIOUS
  <2> QED
    BY <2>1, <2>2
<1>2. r * a <= 100 * b
  BY RiseRate
<1>3. 100 * w < r * v
  OBVIOUS
<1>7. w * (100 - s) * (100 - c) = w * a /\ v * (100 + s) * (100 + c) = v * b
  OBVIOUS
<1> HIDE DEF a, b, r
<1>4. (100 * w) * a < (r * v) * a
  BY <1>1, <1>3, ScaledStrictly
<1>5. (r * a) * v <= (100 * b) * v
  BY <1>1, <1>2, Scaled
<1>6. /\ (r * v) * a = (r * a) * v /\ (100 * w) * a = 100 * (w * a) /\ (100 * b) * v = 100 * (v * b)
      /\ w * a \in Int /\ v * b \in Int /\ (r * a) * v \in Int
  BY <1>1
<1> QED
  BY <1>4, <1>5, <1>6, <1>7

LEMMA AcceptedFallPays ==
    ASSUME NEW c \in 0..99, NEW s \in 0..99, NEW v \in Nat \ {0}, NEW w \in Nat \ {0},
           (2 * (c + s)) * v <= 100 * (v - w)
    PROVE  w * (100 + s) * (100 + c) <= v * (100 - s) * (100 - c)
<1> DEFINE a == (100 - s) * (100 - c)
           b == (100 + s) * (100 + c)
           r == 100 - 2 * (c + s)
<1>1. a \in Nat /\ b \in Nat /\ r \in Int
  <2>1. 100 - s \in Nat /\ 100 - c \in Nat /\ 100 + s \in Nat /\ 100 + c \in Nat
    OBVIOUS
  <2>2. \A x, y \in Nat : x * y \in Nat
    OBVIOUS
  <2> QED
    BY <2>1, <2>2
<1>2. r * b <= 100 * a
  BY FallRate
<1>3. 100 * w <= r * v
  OBVIOUS
<1>7. w * (100 + s) * (100 + c) = w * b /\ v * (100 - s) * (100 - c) = v * a
  OBVIOUS
<1> HIDE DEF a, b, r
<1>4. (100 * w) * b <= (r * v) * b
  BY <1>1, <1>3, Scaled
<1>5. (r * b) * v <= (100 * a) * v
  BY <1>1, <1>2, Scaled
<1>6. /\ (r * v) * b = (r * b) * v /\ (100 * w) * b = 100 * (w * b) /\ (100 * a) * v = 100 * (v * a)
      /\ w * b \in Int /\ v * a \in Int /\ (r * b) * v \in Int
  BY <1>1
<1> QED
  BY <1>4, <1>5, <1>6, <1>7

\* The series and the costs are what the run was given.
GateInv ==
    /\ prices \in Seq(Prices) /\ horizon \in 1..MaxHorizon
    /\ commission \in Commissions /\ slippage \in Slippages /\ margin \in Margins
    /\ minRatio \in MinRatios

\* A window is made of two prices of the series.
LEMMA WindowFacts ==
    ASSUME GateInv, NEW i \in DOMAIN Windows
    PROVE  /\ Windows[i][1] \in Nat \ {0} /\ Windows[i][2] \in Nat \ {0}
           /\ i \in TradableWindows <=>
                100 * Size(Windows[i][2] - Windows[i][1]) >= Breakeven * Windows[i][1]
<1>1. i \in 1..(Len(prices) - horizon) /\ Windows[i] = <<prices[i], prices[i + horizon]>>
  BY DEF Windows
<1>2. i \in 1..Len(prices) /\ i + horizon \in 1..Len(prices)
  BY <1>1, TradabilityAssumption DEF GateInv
<1>3. prices[i] \in Prices /\ prices[i + horizon] \in Prices
  BY <1>2 DEF GateInv
<1>4. i \in TradableWindows <=> Covers(Windows[i], Breakeven)
  BY DEF TradableWindows
<1>5. Windows[i][1] = prices[i] /\ Windows[i][2] = prices[i + horizon]
  BY <1>1
<1>6. prices[i] \in Nat \ {0} /\ prices[i + horizon] \in Nat \ {0}
  BY <1>3, TradabilityAssumption
<1> QED
  BY <1>4, <1>5, <1>6 DEF Covers

LEMMA GateInvInit == GateInit => GateInv
BY DEF GateInit, GateInv

LEMMA GateInvStep == GateInv /\ [GateNext]_gateVars => GateInv'
<1> SUFFICES ASSUME GateInv, [GateNext]_gateVars PROVE GateInv'
  OBVIOUS
<1>1. ASSUME NEW p \in Prices, NextPrice(p)
      PROVE  GateInv'
  <2>1. /\ prices' = Append(prices, p)
        /\ UNCHANGED <<horizon, commission, slippage, margin, minRatio>>
    BY <1>1 DEF NextPrice
  <2> QED
    BY <2>1 DEF GateInv
<1>2. CASE UNCHANGED gateVars
  BY <1>2 DEF GateInv, gateVars
<1> QED
  BY <1>1, <1>2 DEF GateNext

\* The gate of a horizon and the arithmetic of SimulatedBroker agree, for every cost
\* below 100 %, every margin and every series of prices.
THEOREM GateAlwaysAgreesWithBroker == GateSpec => []GateAgreesWithBroker
<1>1. GateInv => GateAgreesWithBroker
  <2> SUFFICES ASSUME GateInv, NEW i \in DOMAIN Windows
               PROVE  /\ margin = 1 /\ i \notin TradableWindows => Bought(Windows[i]) < 0
                      /\ i \in TradableWindows /\ Windows[i][2] < Windows[i][1]
                           => Sold(Windows[i]) >= 0
    BY DEF GateAgreesWithBroker
  <2> DEFINE v == Windows[i][1]
             w == Windows[i][2]
  <2>1. v \in Nat \ {0} /\ w \in Nat \ {0}
    BY WindowFacts
  <2>2. i \in TradableWindows <=> 100 * Size(w - v) >= Breakeven * v
    BY WindowFacts
  <2>3. commission \in 0..99 /\ slippage \in 0..99 /\ margin \in Nat \ {0}
    BY TradabilityAssumption DEF GateInv
  <2>4. /\ Bought(Windows[i]) = w * (100 - slippage) * (100 - commission)
                                - v * (100 + slippage) * (100 + commission)
        /\ Sold(Windows[i]) = v * (100 - slippage) * (100 - commission)
                              - w * (100 + slippage) * (100 + commission)
    BY DEF Bought, Sold
  <2> HIDE DEF v, w
  <2>5. ASSUME margin = 1, i \notin TradableWindows PROVE Bought(Windows[i]) < 0
    <3>1. Breakeven = 2 * (commission + slippage)
      BY <2>3, <2>5 DEF Breakeven
    <3>2. w - v <= Size(w - v) /\ Size(w - v) \in Int
      BY <2>1 DEF Size
    <3>3. Breakeven * v \in Int
      BY <2>1, <2>3, <3>1
    <3>4. 100 * (w - v) < (2 * (commission + slippage)) * v
      BY <2>1, <2>2, <2>5, <3>1, <3>2, <3>3
    <3>5. w * (100 - slippage) * (100 - commission) < v * (100 + slippage) * (100 + commission)
      BY <2>1, <2>3, <3>4, RefusedRiseLoses
    <3> QED
      BY <2>1, <2>3, <2>4, <3>5
  <2>6. ASSUME i \in TradableWindows, w < v PROVE Sold(Windows[i]) >= 0
    <3> DEFINE twice == 2 * (commission + slippage)
    <3>0. twice \in Nat
      BY <2>3
    <3>1. Breakeven = twice * margin /\ Breakeven \in Nat
      BY <2>3 DEF Breakeven
    <3> HIDE DEF twice
    <3>2. twice <= twice * margin
      BY <2>3, <3>0
    <3>3. Size(w - v) = v - w
      BY <2>1, <2>6 DEF Size
    <3>4. twice * v <= Breakeven * v
      BY <2>1, <3>0, <3>1, <3>2, Scaled
    <3>5. Breakeven * v <= 100 * (v - w) /\ Breakeven * v \in Int /\ twice * v \in Int
      BY <2>1, <2>2, <2>6, <3>0, <3>1, <3>3
    <3>6. twice * v <= 100 * (v - w)
      BY <2>1, <3>4, <3>5
    <3>7. w * (100 + slippage) * (100 + commission) <= v * (100 - slippage) * (100 - commission)
      BY <2>1, <2>3, <3>6, AcceptedFallPays DEF twice
    <3> QED
      BY <2>1, <2>3, <2>4, <3>7
  <2> QED
    BY <2>5, <2>6 DEF v, w
<1> QED
  BY <1>1, GateInvInit, GateInvStep, PTL DEF GateSpec
-----------------------------------------------------------------------------
\* Moves relative to their prices, compared by cross-multiplication: the comparison is
\* transitive, and strict where one of the two it is made of is.
LEMMA CrossAtLeast ==
    ASSUME NEW a \in Nat, NEW b \in Nat, NEW c \in Nat,
           NEW x \in Nat \ {0}, NEW y \in Nat \ {0}, NEW z \in Nat \ {0},
           b * x <= a * y, c * y <= b * z
    PROVE  /\ c * x <= a * z
           /\ c * x = a * z => b * x = a * y /\ c * y = b * z
<1> DEFINE p == b * x
           q == a * y
           r == c * y
           s == b * z
           u == c * x
           v == a * z
<1>1. {p, q, r, s, u, v} \subseteq Nat
  OBVIOUS
<1>2. p * z <= q * z /\ r * x <= s * x
  BY <1>1
<1>3. q * z = v * y /\ p * z = s * x /\ r * x = u * y
  OBVIOUS
<1> HIDE DEF p, q, r, s, u, v
<1>4. u * y <= v * y
  BY <1>1, <1>2, <1>3
<1>5. u <= v
  <2>1. SUFFICES ASSUME v < u PROVE FALSE
    BY <1>1
  <2>2. v * y < u * y
    BY <1>1, <2>1
  <2> QED
    BY <1>1, <1>4, <2>2
<1>6. ASSUME u = v PROVE p = q /\ r = s
  <2>1. p * z = q * z /\ r * x = s * x
    BY <1>1, <1>2, <1>3, <1>6
  <2> QED
    BY <1>1, <2>1
<1> QED
  BY <1>5, <1>6 DEF p, q, r, s, u, v

\* The move of a window and the price it starts at.
MoveOf(i) == Size(Windows[i][2] - Windows[i][1])
StartOf(i) == Windows[i][1]

LEMMA WindowsFact ==
    ASSUME GateInv
    PROVE  /\ Len(Windows) \in Nat /\ DOMAIN Windows = 1..Len(Windows)
           /\ IsFiniteSet(DOMAIN Windows) /\ Cardinality(DOMAIN Windows) = Len(Windows)
           /\ \A i \in DOMAIN Windows : MoveOf(i) \in Nat /\ StartOf(i) \in Nat \ {0}
<1> DEFINE n == Len(prices) - horizon
           m == IF n < 0 THEN 0 ELSE n
<1>1. n \in Int /\ m \in Nat /\ 1..n = 1..m
  BY TradabilityAssumption DEF GateInv
<1>2. Windows = [i \in 1..n |-> <<prices[i], prices[i + horizon]>>]
  BY DEF Windows
<1> HIDE DEF n, m
<1>3. DOMAIN Windows = 1..m /\ Len(Windows) = m
  <2>1. DOMAIN Windows = 1..n
    BY <1>2
  <2>2. Windows = [i \in 1..m |-> Windows[i]]
    BY <1>1, <1>2, <2>1
  <2> DEFINE w == Windows
  <2> HIDE DEF w
  <2>3. w = [i \in 1..m |-> w[i]]
    BY <2>2 DEF w
  <2>4. w \in Seq({w[i] : i \in 1..m})
    BY <1>1, <2>3
  <2>5. DOMAIN w = 1..m
    BY <1>1, <2>1 DEF w
  <2>6. Len(w) \in Nat /\ DOMAIN w = 1..Len(w)
    BY <2>4
  <2>7. Len(w) = m
    BY <1>1, <2>5, <2>6
  <2> QED
    BY <2>5, <2>7 DEF w
<1>4. IsFiniteSet(1..m) /\ Cardinality(1..m) = m
  <2>1. 1 \in Int /\ m \in Int
    BY <1>1
  <2>2. IsFiniteSet(1..m) /\ Cardinality(1..m) = IF 1 > m THEN 0 ELSE m - 1 + 1
    BY <2>1, FS_Interval
  <2> QED
    BY <1>1, <2>2
<1>5. ASSUME NEW i \in DOMAIN Windows PROVE MoveOf(i) \in Nat /\ StartOf(i) \in Nat \ {0}
  <2>1. Windows[i][1] \in Nat \ {0} /\ Windows[i][2] \in Nat \ {0}
    BY WindowFacts
  <2> QED
    BY <2>1 DEF MoveOf, StartOf, Size
<1> QED
  BY <1>1, <1>3, <1>4, <1>5

\* The windows in the order of their moves.
ByMove == {q \in (DOMAIN Windows) \X (DOMAIN Windows) : MovesMore(q[1], q[2])}

LEMMA MovesOrder ==
    ASSUME GateInv
    PROVE  /\ StrictOrder(ByMove, DOMAIN Windows)
           /\ \A i, j \in DOMAIN Windows :
                 /\ <<i, j>> \in ByMove => ~LargerMove(Windows[j], Windows[i])
                 /\ LargerMove(Windows[i], Windows[j]) => <<i, j>> \in ByMove
           /\ \A j \in DOMAIN Windows : Cardinality({i \in DOMAIN Windows : MovesMore(i, j)})
                                      = RankOf(ByMove, DOMAIN Windows, j)
<1> DEFINE T == DOMAIN Windows
           R == ByMove
<1>1. \A i, j \in T : <<i, j>> \in R <=> MovesMore(i, j)
  BY DEF ByMove
<1>2. \A i, j \in T : LargerMove(Windows[i], Windows[j]) <=> MoveOf(j) * StartOf(i) < MoveOf(i) * StartOf(j)
  <2> SUFFICES ASSUME NEW i \in T, NEW j \in T
               PROVE  LargerMove(Windows[i], Windows[j])
                        <=> MoveOf(j) * StartOf(i) < MoveOf(i) * StartOf(j)
    OBVIOUS
  <2>1. LargerMove(Windows[i], Windows[j]) = (MoveOf(i) * StartOf(j) > MoveOf(j) * StartOf(i))
    BY DEF LargerMove, MoveOf, StartOf
  <2>2. MoveOf(i) * StartOf(j) \in Int /\ MoveOf(j) * StartOf(i) \in Int
    BY WindowsFact
  <2> QED
    BY <2>1, <2>2
<1>3. \A i, j \in T : <<i, j>> \in R <=>
         \/ MoveOf(j) * StartOf(i) < MoveOf(i) * StartOf(j)
         \/ ~(MoveOf(i) * StartOf(j) < MoveOf(j) * StartOf(i)) /\ i < j
  BY <1>1, <1>2 DEF MovesMore
<1>4. \A i \in T : i \in Int /\ MoveOf(i) \in Nat /\ StartOf(i) \in Nat \ {0}
  BY WindowsFact
<1>5. \A j \in T : Cardinality({i \in T : MovesMore(i, j)}) = RankOf(R, T, j)
  <2> HIDE DEF R, T
  <2> QED
    BY <1>1 DEF RankOf, Below
<1> HIDE DEF R, T
<1>6. \A i, j \in T : MoveOf(j) * StartOf(i) \in Int
  BY <1>4
<1>7. \A i \in T : <<i, i>> \notin R
  BY <1>3, <1>4, <1>6
<1>8. \A i, j \in T : i # j => <<i, j>> \in R \/ <<j, i>> \in R
  BY <1>3, <1>4, <1>6
<1>9. ASSUME NEW i \in T, NEW j \in T, NEW k \in T, <<i, j>> \in R, <<j, k>> \in R
      PROVE  <<i, k>> \in R
  <2> DEFINE a == MoveOf(i)
             b == MoveOf(j)
             c == MoveOf(k)
             x == StartOf(i)
             y == StartOf(j)
             z == StartOf(k)
  <2>1. /\ a \in Nat /\ b \in Nat /\ c \in Nat
        /\ x \in Nat \ {0} /\ y \in Nat \ {0} /\ z \in Nat \ {0}
        /\ i \in Int /\ j \in Int /\ k \in Int
    BY <1>4
  <2>2. /\ b * x < a * y \/ (~(a * y < b * x) /\ i < j)
        /\ c * y < b * z \/ (~(b * z < c * y) /\ j < k)
    BY <1>3, <1>9
  <2>3. <<i, k>> \in R <=> (c * x < a * z \/ (~(a * z < c * x) /\ i < k))
    BY <1>3
  <2> HIDE DEF a, b, c, x, y, z
  <2>4. b * x \in Int /\ a * y \in Int /\ c * y \in Int /\ b * z \in Int /\ c * x \in Int /\ a * z \in Int
    BY <2>1
  <2>5. b * x <= a * y /\ c * y <= b * z
    BY <2>2, <2>4
  <2>6. c * x <= a * z /\ (c * x = a * z => b * x = a * y /\ c * y = b * z)
    BY <2>1, <2>5, CrossAtLeast
  <2>7. CASE c * x = a * z
    BY <2>1, <2>2, <2>3, <2>4, <2>6, <2>7
  <2>8. CASE c * x # a * z
    BY <2>3, <2>4, <2>6, <2>8
  <2> QED
    BY <2>7, <2>8
<1>10. StrictOrder(R, T)
  BY <1>7, <1>8, <1>9 DEF StrictOrder
<1>11. ASSUME NEW i \in T, NEW j \in T
       PROVE  /\ <<i, j>> \in R => ~LargerMove(Windows[j], Windows[i])
              /\ LargerMove(Windows[i], Windows[j]) => <<i, j>> \in R
  BY <1>2, <1>3, <1>6
<1> QED
  BY <1>5, <1>10, <1>11 DEF R, T

\* The rank of the share asked, rounded up.
LEMMA ViableRankFact ==
    ASSUME NEW n \in Nat \ {0}, NEW ratio \in 1..100
    PROVE  LET rank == (n * ratio + 99) \div 100 IN
           /\ rank \in 1..n
           /\ 100 * rank >= ratio * n /\ 100 * (rank - 1) < ratio * n
<1> DEFINE m == n * ratio
           rank == (m + 99) \div 100
<1>1. m \in Nat /\ m >= 1 /\ m <= 100 * n /\ m = ratio * n
  <2>1. ratio \in Nat /\ ratio >= 1 /\ ratio <= 100
    OBVIOUS
  <2>2. n * 1 <= n * ratio /\ n * ratio <= n * 100
    BY <2>1
  <2> QED
    BY <2>1, <2>2
<1> HIDE DEF m
<1>2. rank \in Int /\ 100 * rank <= m + 99 /\ m + 99 < 100 * rank + 100
  BY <1>1
<1> HIDE DEF rank
<1>3. rank >= 1 /\ rank <= n /\ 100 * rank >= m /\ 100 * (rank - 1) < m
  BY <1>1, <1>2
<1> QED
  BY <1>1, <1>2, <1>3 DEF rank, m

\* For any prices, horizon and share asked: the cost answered leaves that share of
\* tradable windows, and a higher one does not (max_viable_round_trip_cost).
THEOREM ViableCostAlwaysTheLimit == GateSpec => []ViableCostIsTheLimit
<1>1. GateInv => ViableCostIsTheLimit
  <2> SUFFICES ASSUME GateInv, Windows # <<>> PROVE ViableCostIsTheLimit
    BY DEF ViableCostIsTheLimit
  <2> DEFINE T == DOMAIN Windows
             R == ByMove
             n == Len(Windows)
             rank == ViableRank
             v == CHOOSE j \in T : Cardinality({i \in T : MovesMore(i, j)}) = rank - 1
             AtLeast == {i \in T : ~LargerMove(Windows[v], Windows[i])}
             Above == {i \in T : LargerMove(Windows[i], Windows[v])}
  <2>1. n \in Nat \ {0} /\ IsFiniteSet(T) /\ Cardinality(T) = n
    BY WindowsFact
  <2>2. minRatio \in 1..100
    BY TradabilityAssumption DEF GateInv
  <2>3. rank \in 1..n /\ 100 * rank >= minRatio * n /\ 100 * (rank - 1) < minRatio * n
    BY <2>1, <2>2, ViableRankFact DEF ViableRank
  <2>4. /\ StrictOrder(R, T)
        /\ \A i, j \in T : /\ <<i, j>> \in R => ~LargerMove(Windows[j], Windows[i])
                           /\ LargerMove(Windows[i], Windows[j]) => <<i, j>> \in R
        /\ \A j \in T : Cardinality({i \in T : MovesMore(i, j)}) = RankOf(R, T, j)
    BY MovesOrder
  <2>5. ViableCostIsTheLimit <=>
           /\ 100 * Cardinality(AtLeast) >= minRatio * n
           /\ 100 * Cardinality(Above) < minRatio * n
    BY DEF ViableCostIsTheLimit, ViableWindow
  <2> HIDE DEF T, R, n, rank
  <2>6. RankTaken(R, T, rank - 1)
    <3>1. \A k \in Ranks(T) : RankTaken(R, T, k)
      BY <2>1, <2>4, RanksAreTaken
    <3>2. rank - 1 \in Ranks(T)
      BY <2>1, <2>3 DEF Ranks
    <3> QED
      BY <3>1, <3>2
  <2>7. v \in T /\ RankOf(R, T, v) = rank - 1
    <3>1. \E j \in T : Cardinality({i \in T : MovesMore(i, j)}) = rank - 1
      BY <2>4, <2>6 DEF RankTaken
    <3> QED
      BY <2>4, <3>1
  <2> HIDE DEF v
  <2>8. rank \in Int
    BY <2>1, <2>3
  <2> DEFINE B == Below(R, T, v)
  <2>9. IsFiniteSet(B) /\ Cardinality(B) = rank - 1
    BY <2>1, <2>4, <2>7, RankFact DEF RankOf
  <2>10. Above \subseteq B /\ B \cup {v} \subseteq AtLeast /\ v \notin B
    <3>1. ~LargerMove(Windows[v], Windows[v])
      BY <2>4, <2>7 DEF StrictOrder
    <3> QED
      BY <2>4, <2>7, <3>1 DEF Below, StrictOrder
  <2>11. IsFiniteSet(AtLeast)
    BY <2>1, FS_Subset
  <2> HIDE DEF B, AtLeast, Above
  <2>12. Cardinality(Above) <= rank - 1 /\ Cardinality(Above) \in Int
    BY <2>9, <2>10, FS_Subset, FS_CardinalityType
  <2>13. Cardinality(AtLeast) >= rank /\ Cardinality(AtLeast) \in Int
    <3>1. IsFiniteSet(B \cup {v}) /\ Cardinality(B \cup {v}) = rank
      BY <2>8, <2>9, <2>10, FS_AddElement
    <3>2. Cardinality(B \cup {v}) <= Cardinality(AtLeast)
      BY <2>10, <2>11, <3>1, FS_Subset
    <3> QED
      BY <2>8, <2>11, <3>1, <3>2, FS_CardinalityType
  <2> DEFINE share == minRatio * n
  <2>14. share \in Int
    BY <2>1, <2>2
  <2>15. 100 * Cardinality(AtLeast) >= share /\ 100 * Cardinality(Above) < share
    <3>1. 100 * rank >= share /\ 100 * (rank - 1) < share
      BY <2>3
    <3> HIDE DEF share
    <3> QED
      BY <2>8, <2>12, <2>13, <2>14, <3>1
  <2> QED
    BY <2>5, <2>15
<1> QED
  BY <1>1, GateInvInit, GateInvStep, PTL DEF GateSpec

-----------------------------------------------------------------------------
\* The exposure a window calls for, the windows a position is opened at.
Target(i) == TargetExposure(Windows[i])
Opens == {i \in DOMAIN Windows : Target(i) # 0 /\ (i = 1 \/ Target(i - 1) # Target(i))}

\* PeriodsAreTheRuns, and the side held, which is the one of the last window.
RunsInv ==
    /\ GateInv /\ held \in Nat /\ periods \in Seq(Nat)
    /\ side = IF Len(Windows) = 0 THEN 0 ELSE Target(Len(Windows))
    /\ Len(HoldingPeriods) = Cardinality(Opens)
    /\ Accumulated(HoldingPeriods) = Cardinality(TradableWindows)

LEMMA SameLength ==
    ASSUME NEW a \in Nat, NEW b \in Nat, 1..a = 1..b
    PROVE  a = b
<1>1. CASE a < b
  <2>1. b \in 1..b /\ b \notin 1..a
    BY <1>1
  <2> QED
    BY <2>1
<1>2. CASE b < a
  <2>1. a \in 1..a /\ a \notin 1..b
    BY <1>2
  <2> QED
    BY <2>1
<1> QED
  BY <1>1, <1>2

LEMMA RunsInvInit == GateInit => RunsInv
<1> SUFFICES ASSUME GateInit PROVE RunsInv
  OBVIOUS
<1>1. GateInv /\ held \in Nat /\ side = 0 /\ periods \in Seq(Nat) /\ periods = <<>> /\ prices = <<>>
  BY GateInvInit DEF GateInit
<1>2. Len(Windows) = 0 /\ DOMAIN Windows = {}
  <2>1. DOMAIN Windows = 1..(0 - horizon)
    BY <1>1 DEF Windows
  <2>2. DOMAIN Windows = {}
    BY <1>1, <2>1, TradabilityAssumption DEF GateInv
  <2> QED
    BY <1>1, <2>2, WindowsFact
<1>3. Opens = {} /\ TradableWindows = {} /\ HoldingPeriods = <<>>
  BY <1>1, <1>2 DEF Opens, TradableWindows, HoldingPeriods
<1>4. Cardinality(Opens) = 0 /\ Cardinality(TradableWindows) = 0 /\ Len(HoldingPeriods) = 0
  BY <1>3, FS_EmptySet
<1>5. Accumulated(HoldingPeriods) = 0
  <2> DEFINE none == <<>>
  <2>1. none \in Seq(Int) /\ 0 \in Int
    OBVIOUS
  <2>2. Accumulated(none) = 0
    BY <2>1, FoldOfAppend
  <2> QED
    BY <1>3, <2>2
<1> QED
  BY <1>1, <1>2, <1>4, <1>5 DEF RunsInv

\* A price leaves the windows there are as they are, and from the horizon on adds one
\* that the code and the definition of the windows read alike.
LEMMA NextWindow ==
    ASSUME GateInv, NEW p \in Prices, NextPrice(p), NEW m, m = Len(Windows)
    PROVE  /\ Len(prices) < horizon =>
                 m = 0 /\ DOMAIN Windows = {} /\ (DOMAIN Windows)' = {} /\ Len(Windows') = 0
           /\ ~(Len(prices) < horizon) =>
                 /\ m \in Nat /\ DOMAIN Windows = 1..m
                 /\ (DOMAIN Windows)' = 1..(m + 1) /\ Len(Windows') = m + 1
                 /\ \A i \in 1..m : Windows'[i] = Windows[i]
                 /\ Windows'[m + 1] = <<prices'[Len(prices') - horizon], p>>
<1>1. /\ prices \in Seq(Prices) /\ prices' = Append(prices, p)
      /\ horizon \in Nat \ {0} /\ horizon' = horizon
  BY TradabilityAssumption DEF NextPrice, GateInv
<1>2. /\ Len(prices) \in Nat /\ Len(prices') = Len(prices) + 1
      /\ \A i \in 1..Len(prices) : prices'[i] = prices[i]
      /\ prices'[Len(prices) + 1] = p
  BY <1>1
<1>3. GateInv'
  BY GateInvStep DEF GateNext
<1> DEFINE n == Len(prices) - horizon
<1>4. /\ Windows = [i \in 1..n |-> <<prices[i], prices[i + horizon]>>]
      /\ Windows' = [i \in 1..(n + 1) |-> <<prices'[i], prices'[i + horizon]>>]
  <2>1. Windows = [i \in 1..n |-> <<prices[i], prices[i + horizon]>>]
    BY DEF Windows
  <2>2. Windows' = [i \in 1..(Len(prices') - horizon') |-> <<prices'[i], prices'[i + horizon']>>]
    BY DEF Windows
  <2>3. Len(prices') - horizon' = n + 1
    BY <1>1, <1>2
  <2> QED
    BY <1>1, <2>1, <2>2, <2>3
<1>5. DOMAIN Windows = 1..n /\ (DOMAIN Windows)' = 1..(n + 1) /\ n \in Int
  BY <1>1, <1>2, <1>4
<1>6. /\ m \in Nat /\ DOMAIN Windows = 1..m
      /\ Len(Windows') \in Nat /\ (DOMAIN Windows)' = 1..Len(Windows')
  <2>1. m \in Nat /\ DOMAIN Windows = 1..m
    BY WindowsFact
  <2>2. (GateInv => Len(Windows) \in Nat /\ DOMAIN Windows = 1..Len(Windows))'
    BY WindowsFact, PTL
  <2> QED
    BY <1>3, <2>1, <2>2
<1>7. CASE Len(prices) < horizon
  <2>1. n < 0 /\ 1..n = {} /\ 1..(n + 1) = {}
    BY <1>1, <1>2, <1>7
  <2> HIDE DEF n
  <2> QED
    BY <1>5, <1>6, <1>7, <2>1
<1>8. CASE ~(Len(prices) < horizon)
  <2>1. n \in Nat /\ n + 1 \in Nat
    BY <1>1, <1>2, <1>8
  <2>2. m = n /\ Len(Windows') = n + 1
    <3> HIDE DEF n
    <3>1. 1..n = 1..m /\ 1..(n + 1) = 1..Len(Windows')
      BY <1>5, <1>6
    <3>2. n = m
      BY <1>6, <2>1, <3>1, SameLength
    <3> DEFINE k == n + 1
               next == Len(Windows')
    <3>3. k \in Nat /\ next \in Nat /\ 1..k = 1..next
      BY <1>6, <2>1, <3>1
    <3> HIDE DEF k, next
    <3>4. k = next
      BY <3>3, SameLength
    <3> QED
      BY <3>2, <3>4 DEF k, next
  <2>3. \A i \in 1..m : Windows'[i] = Windows[i]
    BY <1>1, <1>2, <1>4, <2>1, <2>2
  <2>4. Windows'[m + 1] = <<prices'[Len(prices') - horizon], p>>
    BY <1>1, <1>2, <1>4, <2>1, <2>2
  <2> QED
    BY <1>5, <1>8, <2>1, <2>2, <2>3, <2>4
<1> QED
  BY <1>7, <1>8

LEMMA RunsInvStep == RunsInv /\ [GateNext]_gateVars => RunsInv'
<1> SUFFICES ASSUME RunsInv, [GateNext]_gateVars PROVE RunsInv'
  OBVIOUS
<1>1. GateInv /\ GateInv'
  BY GateInvStep DEF RunsInv
<1>2. CASE UNCHANGED gateVars
  <2>1. UNCHANGED <<prices, horizon, commission, slippage, margin, side, held, periods>>
    BY <1>2 DEF gateVars
  <2>2. Windows' = Windows
    BY <2>1 DEF Windows
  <2>3. \A v : TargetExposure(v)' = TargetExposure(v) /\ Covers(v, Breakeven)' = Covers(v, Breakeven)
    BY <2>1 DEF TargetExposure, Covers, Breakeven
  <2>4. \A i : Target(i)' = Target(i)
    BY <2>2, <2>3 DEF Target
  <2>5. Opens' = Opens /\ TradableWindows' = TradableWindows
    BY <2>2, <2>3, <2>4 DEF Opens, TradableWindows
  <2>6. HoldingPeriods' = HoldingPeriods
    BY <2>1 DEF HoldingPeriods
  <2>7. Accumulated(HoldingPeriods') = Accumulated(HoldingPeriods)
    BY <2>6
  <2> QED
    BY <1>1, <2>1, <2>2, <2>4, <2>5, <2>6, <2>7 DEF RunsInv
<1>3. ASSUME NEW p \in Prices, NextPrice(p)
      PROVE  RunsInv'
  <2>0. PICK m : m = Len(Windows)
    OBVIOUS
  <2> DEFINE w == <<prices'[Len(prices') - horizon], p>>
             target == TargetExposure(w)
  <2>1. /\ m \in Nat /\ DOMAIN Windows = 1..m
        /\ held \in Nat /\ periods \in Seq(Nat)
        /\ side = IF m = 0 THEN 0 ELSE Target(m)
        /\ Len(HoldingPeriods) = Cardinality(Opens)
        /\ Accumulated(HoldingPeriods) = Cardinality(TradableWindows)
    BY <1>1, <2>0, WindowsFact DEF RunsInv
  <2>2. UNCHANGED <<horizon, commission, slippage, margin>>
    BY <1>3 DEF NextPrice
  <2>3. \A v : TargetExposure(v)' = TargetExposure(v) /\ (TargetExposure(v) # 0 <=> Covers(v, Breakeven))
    BY <2>2 DEF TargetExposure, Covers, Breakeven
  <2>4. \A i : Target(i) = TargetExposure(Windows[i]) /\ Target(i)' = TargetExposure(Windows'[i])
    BY <2>3 DEF Target
  <2>5. /\ TradableWindows = {i \in DOMAIN Windows : Target(i) # 0}
        /\ TradableWindows' = {i \in (DOMAIN Windows)' : Target(i)' # 0}
    <3>1. \A v : Covers(v, Breakeven)' = Covers(v, Breakeven)
      BY <2>2 DEF Covers, Breakeven
    <3> QED
      BY <2>3, <2>4, <3>1 DEF TradableWindows
  <2>6. /\ Opens = {i \in DOMAIN Windows : Target(i) # 0 /\ (i = 1 \/ Target(i - 1) # Target(i))}
        /\ Opens' = {i \in (DOMAIN Windows)' :
                       Target(i)' # 0 /\ (i = 1 \/ Target(i - 1)' # Target(i)')}
    BY DEF Opens
  <2>7. CASE Len(prices) < horizon
    <3>1. m = 0 /\ DOMAIN Windows = {} /\ (DOMAIN Windows)' = {} /\ Len(Windows') = 0
      BY <1>1, <1>3, <2>0, <2>7, NextWindow
    <3>2. UNCHANGED <<side, held, periods>>
      BY <1>3, <2>7 DEF NextPrice
    <3>3. Opens' = Opens /\ TradableWindows' = TradableWindows
      BY <2>5, <2>6, <3>1
    <3>4. HoldingPeriods' = HoldingPeriods
      BY <3>2 DEF HoldingPeriods
    <3>5. Accumulated(HoldingPeriods') = Accumulated(HoldingPeriods)
      BY <3>4
    <3>6. side' = 0
      BY <2>1, <3>1, <3>2
    <3> QED
      BY <1>1, <2>1, <3>1, <3>2, <3>3, <3>4, <3>5, <3>6 DEF RunsInv
  <2>8. CASE ~(Len(prices) < horizon)
    <3>1. /\ (DOMAIN Windows)' = 1..(m + 1) /\ Len(Windows') = m + 1
          /\ \A i \in 1..m : Windows'[i] = Windows[i]
          /\ Windows'[m + 1] = w
      BY <1>1, <1>3, <2>0, <2>8, NextWindow
    <3>2. Hold(target)
      BY <1>3, <2>8 DEF NextPrice
    <3>3. (\A i \in 1..m : Target(i)' = Target(i)) /\ Target(m + 1)' = target
      BY <2>4, <3>1
    <3>4. IsFiniteSet(Opens) /\ IsFiniteSet(TradableWindows) /\ m + 1 \notin 1..m
      <4>1. Opens \subseteq DOMAIN Windows /\ TradableWindows \subseteq DOMAIN Windows
        BY DEF Opens, TradableWindows
      <4> QED
        BY <1>1, <2>1, <4>1, WindowsFact, FS_Subset
    <3>5. m + 1 \in Nat /\ 1..(m + 1) = 1..m \cup {m + 1} /\ m \in 1..m \cup {0}
      BY <2>1
    <3> HIDE DEF w, target
    <3>6. TradableWindows' = TradableWindows \cup (IF target = 0 THEN {} ELSE {m + 1})
      BY <2>1, <2>5, <3>1, <3>3, <3>4, <3>5
    <3>7. Opens' = Opens \cup (IF target = 0 \/ target = side THEN {} ELSE {m + 1})
      <4>1. \A i \in 1..m : i - 1 \in 1..m \/ i = 1
        BY <2>1
      <4>2. \A i \in 1..m : i \in Opens' <=> i \in Opens
        BY <2>1, <2>6, <3>1, <3>3, <3>5, <4>1
      <4>3. m + 1 \in Opens' <=> target # 0 /\ (m = 0 \/ Target(m)' # target)
        <5>1. (m + 1 = 1 <=> m = 0) /\ (m + 1) - 1 = m
          BY <2>1
        <5> QED
          BY <2>6, <3>1, <3>3, <3>5, <5>1
      <4>4. m # 0 => Target(m)' = side
        BY <2>1, <3>3, <3>5
      <4>5. m + 1 \in Opens' <=> target # 0 /\ target # side
        BY <2>1, <4>3, <4>4
      <4>6. Opens \subseteq 1..m /\ Opens' \subseteq 1..m \cup {m + 1}
        BY <2>1, <2>6, <3>1, <3>5
      <4> QED
        BY <3>4, <4>2, <4>5, <4>6
    <3>8. HoldingPeriods \in Seq(Nat) /\ HoldingPeriods = IF side = 0 THEN periods ELSE Append(periods, held)
      BY <2>1 DEF HoldingPeriods
    <3>9. Cardinality(Opens) \in Nat /\ Cardinality(TradableWindows) \in Nat
      BY <3>4, FS_CardinalityType
    <3>10. \A q \in Seq(Nat), v \in Nat : Accumulated(Append(q, v)) = Accumulated(q) + v
      <4> SUFFICES ASSUME NEW q \in Seq(Nat), NEW v \in Nat
                   PROVE  Accumulated(Append(q, v)) = Accumulated(q) + v
        OBVIOUS
      <4>1. q \in Seq(Int) /\ v \in Int
        OBVIOUS
      <4> QED
        BY <4>1, FoldOfAppend
    <3>11. m + 1 \notin Opens /\ m + 1 \notin TradableWindows
      BY <2>1, <3>4 DEF Opens, TradableWindows
    <3>12. side' = target /\ held' \in Nat /\ periods' \in Seq(Nat)
      <4>1. /\ side' = target
            /\ held' = held + 1 \/ held' = 1
            /\ periods' = periods \/ periods' = Append(periods, held)
        BY <3>2 DEF Hold
      <4>2. held' \in Nat
        BY <2>1, <4>1
      <4>3. Append(periods, held) \in Seq(Nat)
        BY <2>1
      <4> QED
        BY <2>1, <4>1, <4>2, <4>3
    <3>13. side' = Target(m + 1)'
      BY <3>3, <3>12
    <3>14. /\ Len(HoldingPeriods') = Cardinality(Opens')
           /\ Accumulated(HoldingPeriods') = Cardinality(TradableWindows')
      <4>1. HoldingPeriods' = IF target = 0 THEN periods' ELSE Append(periods', held')
        BY <3>12 DEF HoldingPeriods
      <4>2. CASE target = 0 /\ side = 0
        <5>1. HoldingPeriods' = HoldingPeriods
          BY <3>2, <3>8, <4>1, <4>2 DEF Hold
        <5>2. Opens' = Opens /\ TradableWindows' = TradableWindows
          BY <3>6, <3>7, <4>2
        <5> QED
          BY <2>1, <5>1, <5>2
      <4>3. CASE target = 0 /\ side # 0
        <5>1. HoldingPeriods' = HoldingPeriods
          BY <3>2, <3>8, <4>1, <4>3 DEF Hold
        <5>2. Opens' = Opens /\ TradableWindows' = TradableWindows
          BY <3>6, <3>7, <4>3
        <5> QED
          BY <2>1, <5>1, <5>2
      <4>4. CASE target # 0 /\ target = side
        <5>1. HoldingPeriods' = Append(periods, held + 1) /\ HoldingPeriods = Append(periods, held)
          BY <3>2, <3>8, <4>1, <4>4 DEF Hold
        <5>2. Len(HoldingPeriods') = Len(HoldingPeriods)
          BY <2>1, <5>1
        <5>3. Accumulated(HoldingPeriods') = Accumulated(HoldingPeriods) + 1
          <6>1. Accumulated(HoldingPeriods') = Accumulated(periods) + (held + 1)
            BY <2>1, <3>10, <5>1
          <6>2. Accumulated(HoldingPeriods) = Accumulated(periods) + held
            BY <2>1, <3>10, <5>1
          <6>3. Accumulated(periods) \in Int
            <7>1. periods \in Seq(Int) /\ 0 \in Int
              BY <2>1
            <7> QED
              BY <7>1, FoldOfAppend
          <6> QED
            BY <2>1, <6>1, <6>2, <6>3
        <5>4. Opens' = Opens /\ TradableWindows' = TradableWindows \cup {m + 1}
          BY <3>6, <3>7, <4>4
        <5>5. Cardinality(TradableWindows') = Cardinality(TradableWindows) + 1
          BY <3>4, <3>11, <5>4, FS_AddElement
        <5> QED
          BY <2>1, <5>2, <5>3, <5>4, <5>5
      <4>5. CASE target # 0 /\ target # side
        <5>1. HoldingPeriods' = Append(HoldingPeriods, 1)
          BY <3>2, <3>8, <4>1, <4>5 DEF Hold
        <5>2. Len(HoldingPeriods') = Len(HoldingPeriods) + 1
          BY <3>8, <5>1
        <5>3. Accumulated(HoldingPeriods') = Accumulated(HoldingPeriods) + 1
          BY <3>8, <3>10, <5>1
        <5>4. /\ Opens' = Opens \cup {m + 1}
              /\ TradableWindows' = TradableWindows \cup {m + 1}
          BY <3>6, <3>7, <4>5
        <5>5. /\ Cardinality(TradableWindows') = Cardinality(TradableWindows) + 1
              /\ Cardinality(Opens') = Cardinality(Opens) + 1
          BY <3>4, <3>11, <5>4, FS_AddElement
        <5> QED
          BY <2>1, <5>2, <5>3, <5>5
      <4> QED
        BY <4>2, <4>3, <4>4, <4>5
    <3> QED
      <4>1. side' = (IF Len(Windows) = 0 THEN 0 ELSE Target(Len(Windows)))'
        BY <2>1, <3>1, <3>13
      <4> QED
        BY <1>1, <3>12, <3>14, <4>1 DEF RunsInv
  <2> QED
    BY <2>7, <2>8
<1> QED
  BY <1>2, <1>3 DEF GateNext

\* For any prices, horizon and costs: the holding periods of the oracle are the longest
\* runs of one side, a reversal starting one (oracle_holding_periods).
THEOREM PeriodsAlwaysTheRuns == GateSpec => []PeriodsAreTheRuns
<1>1. RunsInv => PeriodsAreTheRuns
  <2> SUFFICES ASSUME RunsInv PROVE PeriodsAreTheRuns
    OBVIOUS
  <2> DEFINE target == [i \in DOMAIN Windows |-> TargetExposure(Windows[i])]
             Opened == {i \in DOMAIN target : target[i] # 0 /\ (i = 1 \/ target[i - 1] # target[i])}
  <2>1. Opened = Opens
    <3>1. \A i \in DOMAIN Windows : i = 1 \/ i - 1 \in DOMAIN Windows
      <4>1. Len(Windows) \in Nat /\ DOMAIN Windows = 1..Len(Windows)
        BY WindowsFact DEF RunsInv
      <4> QED
        BY <4>1
    <3>2. DOMAIN target = DOMAIN Windows /\ \A i \in DOMAIN Windows : target[i] = Target(i)
      BY DEF Target
    <3> HIDE DEF target
    <3> QED
      BY <3>1, <3>2 DEF Opens
  <2>2. Len(HoldingPeriods) = Cardinality(Opened)
    BY <2>1 DEF RunsInv
  <2>3. FoldLeft(LAMBDA sum, x : sum + x, 0, HoldingPeriods) = Cardinality(TradableWindows)
    BY DEF RunsInv, Accumulated
  <2> QED
    BY <2>2, <2>3, Zenon DEF PeriodsAreTheRuns
<1> QED
  BY <1>1, RunsInvInit, RunsInvStep, PTL DEF GateSpec

-----------------------------------------------------------------------------
\* A finite set of integers has a latest and an earliest day: among its subsets with
\* none, a smallest would have one.
LEMMA LatestExists ==
    ASSUME NEW T \in SUBSET Int, IsFiniteSet(T), T # {}
    PROVE  \E x \in T : \A y \in T : y <= x
<1> DEFINE Ends(U) == \E x \in U : \A y \in U : y <= x
           Endless == {U \in FiniteSubsetsOf(T) : U # {} /\ ~Ends(U)}
<1>1. T \in FiniteSubsetsOf(T)
  BY DEF FiniteSubsetsOf
<1>2. SUFFICES ASSUME Endless # {} PROVE FALSE
  BY <1>1
<1>3. IsWellFoundedOn(StrictSubsetOrdering(T), FiniteSubsetsOf(T))
  BY FS_StrictSubsetOrderingWellFounded
<1>4. \E U \in Endless : \A V \in Endless : <<V, U>> \notin StrictSubsetOrdering(T)
  <2>1. Endless \subseteq FiniteSubsetsOf(T)
    OBVIOUS
  <2> HIDE DEF Endless
  <2> QED
    BY <1>2, <1>3, <2>1, WFMin
<1>5. PICK U \in Endless : \A V \in Endless : <<V, U>> \notin StrictSubsetOrdering(T)
  BY <1>4
<1>6. U \subseteq T /\ IsFiniteSet(U) /\ U # {} /\ ~Ends(U)
  BY <1>5 DEF FiniteSubsetsOf
<1>7. PICK x \in U : TRUE
  BY <1>6
<1> DEFINE V == U \ {x}
<1>8. V \in FiniteSubsetsOf(T) /\ V \subseteq T
  BY <1>6, FS_Subset DEF FiniteSubsetsOf
<1>9. <<V, U>> \in StrictSubsetOrdering(T)
  BY <1>6, <1>7, <1>8 DEF StrictSubsetOrdering
<1>10. V = {} \/ Ends(V)
  BY <1>5, <1>8, <1>9
<1>11. CASE V = {}
  <2>1. U = {x} /\ x \in Int
    BY <1>6, <1>7, <1>11
  <2> QED
    BY <1>6, <2>1
<1>12. CASE Ends(V)
  <2>1. PICK m \in V : \A y \in V : y <= m
    BY <1>12
  <2>2. U = V \cup {x} /\ x \in Int /\ m \in Int /\ m \in U
    BY <1>6, <1>7, <2>1
  <2>3. CASE x <= m
    BY <1>6, <2>1, <2>2, <2>3
  <2>4. CASE m <= x
    <3>1. \A y \in V : y \in Int /\ y <= m
      BY <1>8, <2>1
    <3>2. \A y \in U : y <= x
      BY <2>2, <2>4, <3>1
    <3> QED
      BY <1>6, <3>2
  <2> QED
    BY <2>2, <2>3, <2>4
<1> QED
  BY <1>10, <1>11, <1>12

LEMMA LatestFact ==
    ASSUME NEW T \in SUBSET Int, IsFiniteSet(T), T # {}
    PROVE  Latest(T) \in T
BY LatestExists DEF Latest

\* The value laid over a day was observed before it, or six days before.
LEMMA DatedFact ==
    ASSUME NEW d \in Int, IsFiniteSet(series), series \subseteq Int,
           family \in {"macro", "positioning"}, Dated(d) # NoValue
    PROVE  Dated(d) \in Int /\ Dated(d) < d /\ (family = "positioning" => Dated(d) <= d - 6)
<1>1. CASE family = "macro"
  <2> DEFINE Earlier == {e \in series : e < d}
  <2>1. Dated(d) = Latest(Earlier) /\ Earlier # {}
    BY <1>1 DEF Dated
  <2>2. Earlier \in SUBSET Int /\ IsFiniteSet(Earlier)
    BY FS_Subset
  <2>3. Dated(d) \in Earlier
    BY <2>1, <2>2, LatestFact
  <2> QED
    BY <1>1, <2>3
<1>2. CASE family = "positioning"
  <2>1. Dated(d) = IF d - 6 \in series THEN d - 6 ELSE NoValue
    BY <1>2 DEF Dated
  <2>2. Dated(d) = d - 6
    BY <2>1
  <2> QED
    BY <2>2
<1> QED
  BY <1>1, <1>2

\* What was laid over the bars does not change, nor do the days it was chosen from.
ResearchInv ==
    /\ family \in {"macro", "positioning"}
    /\ calendar \in Calendars /\ series \in Observations \cup Tuesdays
    /\ OnlyTheHeadLooksAhead

LEMMA ResearchInvInit == ResearchInit => ResearchInv
BY DEF ResearchInit, ResearchInv, OnlyTheHeadLooksAhead

LEMMA ResearchInvStep == ResearchInv /\ [ResearchNext]_researchVars => ResearchInv'
<1> SUFFICES ASSUME ResearchInv, [ResearchNext]_researchVars PROVE ResearchInv'
  OBVIOUS
<1>1. CASE Lay
  <2>1. /\ UNCHANGED <<family, calendar, series>>
        /\ laid' = [d \in calendar |->
              IF \E e \in Matched : e <= d THEN Dated(Latest({e \in Matched : e <= d}))
              ELSE IF family = "macro" /\ Matched # {} THEN Dated(Earliest(Matched)) ELSE NoValue]
    BY <1>1 DEF Lay
  <2>2. /\ calendar \subseteq Int /\ IsFiniteSet(calendar)
        /\ series \subseteq Int /\ IsFiniteSet(series)
        /\ family \in {"macro", "positioning"}
    BY ResearchAssumption DEF ResearchInv
  <2>3. ASSUME NEW d \in calendar, laid'[d] # NoValue
        PROVE  \/ laid'[d] < d /\ (family = "positioning" => laid'[d] <= d - 6)
               \/ family = "macro" /\ \A e \in calendar : e <= d => Dated(e) = NoValue
    <3>1. CASE \E e \in Matched : e <= d
      <4> DEFINE Before == {e \in Matched : e <= d}
      <4>1. Before \in SUBSET Int /\ IsFiniteSet(Before) /\ Before # {}
        BY <2>2, <3>1, FS_Subset DEF Matched
      <4>2. Latest(Before) \in Before
        BY <4>1, LatestFact
      <4>3. PICK e \in Before : laid'[d] = Dated(e)
        BY <2>1, <3>1, <4>2
      <4>4. e \in Int /\ d \in Int /\ e <= d /\ Dated(e) # NoValue
        BY <2>2, <4>3 DEF Matched
      <4>5. Dated(e) \in Int /\ Dated(e) < e /\ (family = "positioning" => Dated(e) <= e - 6)
        BY <2>2, <4>4, DatedFact
      <4> QED
        BY <4>3, <4>4, <4>5
    <3>2. CASE ~\E e \in Matched : e <= d
      BY <2>1, <2>3, <3>2 DEF Matched
    <3> QED
      BY <3>1, <3>2
  <2>4. DOMAIN laid' = calendar /\ \A e : Dated(e)' = Dated(e)
    BY <2>1 DEF Dated
  <2> QED
    BY <2>1, <2>3, <2>4 DEF ResearchInv, OnlyTheHeadLooksAhead
<1>2. CASE UNCHANGED <<family, calendar, series, laid>>
  BY <1>2 DEF ResearchInv, OnlyTheHeadLooksAhead, Dated
<1> QED
  BY <1>1, <1>2 DEF ResearchNext, Test, Correct, researchVars

\* For any calendars of bars and of series: no value laid over a bar was observed on
\* the bar's day or later, but over the first bars of a macro series
\* (merge_macro_features, and the join on date_usable).
THEOREM OnlyTheHeadLooksAheadAlways == ResearchSpec => []OnlyTheHeadLooksAhead
<1>1. ResearchInv => OnlyTheHeadLooksAhead
  BY DEF ResearchInv
<1> QED
  BY <1>1, ResearchInvInit, ResearchInvStep, PTL DEF ResearchSpec

-----------------------------------------------------------------------------
\* A test that counts for nothing has the p-value 1; once corrected, the tests do not
\* change any more.
Tests == {t \in [p : 0..1000, rows : Nat, spurious : BOOLEAN] :
             t.rows < 30 \/ t.spurious => t.p = 1000}
Corrected(s) == [i \in DOMAIN s |-> TestVerdict(ByPValue(s)[i], i, Len(s))]
CorrectionInv ==
    /\ tests \in Seq(Tests)
    /\ verdicts # <<>> => tests # <<>> /\ verdicts = Corrected(tests)

LEMMA TestFact ==
    ASSUME NEW t \in Tests
    PROVE  t.p \in Nat /\ t.p <= 1000
<1>1. t.p \in 0..1000
  BY DEF Tests
<1>2. \A p \in 0..1000 : p \in Nat /\ p <= 1000
  OBVIOUS
<1> QED
  BY <1>1, <1>2

LEMMA CorrectionInvInit == ResearchInit => CorrectionInv
BY DEF ResearchInit, CorrectionInv

LEMMA CorrectionInvStep == CorrectionInv /\ [ResearchNext]_researchVars => CorrectionInv'
<1> SUFFICES ASSUME CorrectionInv, [ResearchNext]_researchVars PROVE CorrectionInv'
  OBVIOUS
<1>1. CASE Test
  <2>1. PICK p \in PValues, rows \in RowCounts, spurious \in BOOLEAN :
           tests' = IF rows < 30 /\ family = "positioning" THEN tests
                    ELSE Append(tests, [p |-> IF rows < 30 \/ spurious THEN 1000 ELSE p,
                                        rows |-> rows, spurious |-> spurious])
    BY <1>1 DEF Test
  <2> DEFINE t == [p |-> IF rows < 30 \/ spurious THEN 1000 ELSE p,
                   rows |-> rows, spurious |-> spurious]
  <2>2. t \in Tests
    <3>1. p \in 0..1000 /\ rows \in Nat /\ 1000 \in 0..1000
      BY ResearchAssumption
    <3>2. t \in [p : 0..1000, rows : Nat, spurious : BOOLEAN]
      BY <3>1
    <3> QED
      BY <3>2 DEF Tests
  <2> HIDE DEF t
  <2>3. tests' = tests \/ tests' = Append(tests, t)
    BY <2>1 DEF t
  <2>4. verdicts' = <<>>
    BY <1>1 DEF Test
  <2> QED
    BY <2>2, <2>3, <2>4 DEF CorrectionInv
<1>2. CASE Correct
  <2>1. /\ tests # <<>> /\ tests' = tests
        /\ verdicts' = [i \in DOMAIN ByPValue(tests) |->
                          TestVerdict(ByPValue(tests)[i], i, Len(ByPValue(tests)))]
    BY <1>2 DEF Correct
  <2>2. DOMAIN ByPValue(tests) = 1..Len(tests) /\ Len(tests) \in Nat /\ DOMAIN tests = 1..Len(tests)
    BY DEF CorrectionInv, ByPValue
  <2>3. Len(ByPValue(tests)) = Len(tests)
    BY <2>2
  <2> QED
    BY <2>1, <2>2, <2>3 DEF CorrectionInv, Corrected
<1>3. CASE UNCHANGED <<tests, verdicts>>
  BY <1>3 DEF CorrectionInv
<1> QED
  BY <1>1, <1>2, <1>3 DEF ResearchNext, Lay, researchVars

\* Tests in the order of their p-values, and which test comes k-th.
PrecedesP(s) == {q \in (DOMAIN s) \X (DOMAIN s) : SmallerP(s, q[1], q[2])}

LEMMA SortOrders ==
    ASSUME NEW s \in Seq(Tests)
    PROVE  /\ IsFiniteSet(DOMAIN s) /\ Cardinality(DOMAIN s) = Len(s)
           /\ StrictOrder(PrecedesP(s), DOMAIN s)
           /\ \A j \in DOMAIN s : Cardinality({i \in DOMAIN s : SmallerP(s, i, j)})
                                 = RankOf(PrecedesP(s), DOMAIN s, j)
<1> DEFINE T == DOMAIN s
           R == PrecedesP(s)
<1>1. T = 1..Len(s) /\ Len(s) \in Nat
  OBVIOUS
<1>2. IsFiniteSet(T) /\ Cardinality(T) = Len(s)
  <2>1. 1 \in Int /\ Len(s) \in Int
    BY <1>1
  <2> QED
    BY <1>1, <2>1, FS_Interval
<1>3. \A i, j \in T : <<i, j>> \in R <=> SmallerP(s, i, j)
  BY DEF PrecedesP
<1>4. \A i \in T : i \in Int /\ s[i].p \in Int
  <2> SUFFICES ASSUME NEW i \in T PROVE i \in Int /\ s[i].p \in Int
    OBVIOUS
  <2>1. s[i] \in Tests
    OBVIOUS
  <2> QED
    BY <1>1, <2>1, TestFact
<1> HIDE DEF R, T
<1>5. StrictOrder(R, T)
  <2>1. \A i, j \in T : <<i, j>> \in R <=> s[i].p < s[j].p \/ (s[i].p = s[j].p /\ i < j)
    BY <1>3 DEF SmallerP
  <2> QED
    BY <1>4, <2>1 DEF StrictOrder
<1>6. \A j \in T : Cardinality({i \in T : SmallerP(s, i, j)}) = RankOf(R, T, j)
  BY <1>3 DEF RankOf, Below
<1> QED
  BY <1>2, <1>5, <1>6 DEF R, T

LEMMA SortedFact ==
    ASSUME NEW s \in Seq(Tests), NEW k \in DOMAIN s
    PROVE  \E j \in DOMAIN s : ByPValue(s)[k] = s[j] /\ RankOf(PrecedesP(s), DOMAIN s, j) = k - 1
<1> DEFINE T == DOMAIN s
           R == PrecedesP(s)
<1>1. T = 1..Len(s) /\ Len(s) \in Nat /\ k \in T
  OBVIOUS
<1>2. /\ IsFiniteSet(T) /\ Cardinality(T) = Len(s) /\ StrictOrder(R, T)
      /\ \A j \in T : Cardinality({i \in T : SmallerP(s, i, j)}) = RankOf(R, T, j)
  BY SortOrders
<1> HIDE DEF R, T
<1>6. RankTaken(R, T, k - 1)
  <2>1. \A m \in Ranks(T) : RankTaken(R, T, m)
    BY <1>2, RanksAreTaken
  <2>2. k - 1 \in Ranks(T)
    BY <1>1, <1>2 DEF Ranks
  <2> QED
    BY <2>1, <2>2
<1> DEFINE j == CHOOSE i \in T : Cardinality({h \in T : SmallerP(s, h, i)}) = k - 1
<1>7. \E i \in T : Cardinality({h \in T : SmallerP(s, h, i)}) = k - 1
  BY <1>2, <1>6 DEF RankTaken
<1>8. j \in T /\ Cardinality({h \in T : SmallerP(s, h, j)}) = k - 1
  BY <1>7
<1>9. ByPValue(s)[k] = s[j]
  BY <1>1 DEF ByPValue, T
<1> HIDE DEF j
<1> QED
  BY <1>2, <1>8, <1>9 DEF R, T

LEMMA SortedGrows ==
    ASSUME NEW s \in Seq(Tests), NEW k \in DOMAIN s, NEW m \in DOMAIN s, k <= m
    PROVE  ByPValue(s)[k].p <= ByPValue(s)[m].p
<1>1. PICK i \in DOMAIN s : ByPValue(s)[k] = s[i] /\ RankOf(PrecedesP(s), DOMAIN s, i) = k - 1
  BY SortedFact
<1>2. PICK j \in DOMAIN s : ByPValue(s)[m] = s[j] /\ RankOf(PrecedesP(s), DOMAIN s, j) = m - 1
  BY SortedFact
<1>3. s[i].p \in Int /\ s[j].p \in Int
  <2>1. s[i] \in Tests /\ s[j] \in Tests
    OBVIOUS
  <2> QED
    BY <2>1, TestFact
<1>4. SUFFICES ASSUME s[j].p < s[i].p PROVE FALSE
  BY <1>1, <1>2, <1>3
<1>5. <<j, i>> \in PrecedesP(s)
  <2>1. SmallerP(s, j, i)
    BY <1>4 DEF SmallerP
  <2> QED
    BY <2>1 DEF PrecedesP
<1>6. IsFiniteSet(DOMAIN s) /\ StrictOrder(PrecedesP(s), DOMAIN s)
  BY SortOrders
<1>7. RankOf(PrecedesP(s), DOMAIN s, j) < RankOf(PrecedesP(s), DOMAIN s, i)
  BY <1>5, <1>6, RanksGrow
<1> QED
  BY <1>1, <1>2, <1>7

\* For any p-values and any number of tests, in whatever order they were made: what is
\* reported is what the step-up procedure may report (apply_benjamini_hochberg).
THEOREM ReportedAlwaysControlled == ResearchSpec => []ReportedIsControlled
<1>1. CorrectionInv => ReportedIsControlled
  <2> SUFFICES ASSUME CorrectionInv, NEW i \in DOMAIN verdicts
               PROVE  /\ verdicts[i].bonferroni => verdicts[i].bh
                      /\ verdicts[i].bh => /\ i \in StepUp /\ verdicts[i].test.rows >= 30
                                          /\ ~verdicts[i].test.spurious
    BY DEF ReportedIsControlled
  <2> DEFINE n == Len(tests)
             sorted == ByPValue(tests)
  <2>1. /\ tests \in Seq(Tests) /\ n \in Nat /\ DOMAIN tests = 1..n
        /\ verdicts = Corrected(tests)
    BY DEF CorrectionInv
  <2>2. DOMAIN verdicts = 1..n /\ Len(verdicts) = n /\ i \in 1..n
    BY <2>1 DEF Corrected
  <2>3. ASSUME NEW k \in 1..n
        PROVE  /\ verdicts[k].test = sorted[k] /\ sorted[k] \in Tests
               /\ verdicts[k].bh = (sorted[k].p * n <= k * 50)
               /\ verdicts[k].bonferroni = (sorted[k].p * n <= 50)
    <3>1. verdicts[k] = TestVerdict(sorted[k], k, n)
      BY <2>1 DEF Corrected
    <3>2. sorted[k] \in Tests
      <4>1. PICK j \in DOMAIN tests : sorted[k] = tests[j]
        BY <2>1, SortedFact
      <4> QED
        BY <2>1, <4>1
    <3> QED
      BY <3>1, <3>2 DEF TestVerdict
  <2>4. \A k, m \in 1..n : k <= m => sorted[k].p <= sorted[m].p
    BY <2>1, SortedGrows
  <2> HIDE DEF n, sorted
  <2> DEFINE p == sorted[i].p
  <2>5. p \in Nat /\ p <= 1000 /\ p * n \in Int
    <3>1. sorted[i] \in Tests
      BY <2>2, <2>3
    <3>2. p \in Nat /\ p <= 1000
      BY <3>1, TestFact
    <3> HIDE DEF p
    <3> QED
      BY <2>1, <3>2
  <2>6. ASSUME verdicts[i].bonferroni PROVE verdicts[i].bh
    <3>1. p * n <= 50
      BY <2>2, <2>3, <2>6
    <3> HIDE DEF p
    <3>2. p * n <= i * 50
      BY <2>1, <2>2, <2>5, <3>1
    <3> QED
      BY <2>2, <2>3, <3>2 DEF p
  <2>7. ASSUME verdicts[i].bh
        PROVE  i \in StepUp /\ verdicts[i].test.rows >= 30 /\ ~verdicts[i].test.spurious
    <3>1. p * n <= i * 50
      BY <2>2, <2>3, <2>7
    <3> DEFINE below == {k \in 1..n : verdicts[k].test.p <= p}
               rank == Cardinality(below)
    <3>2. rank \in Nat /\ i <= rank
      <4>1. 1..i \subseteq below
        <5> SUFFICES ASSUME NEW k \in 1..i PROVE k \in below
          OBVIOUS
        <5>1. k \in 1..n /\ k <= i
          BY <2>1, <2>2
        <5> QED
          BY <2>2, <2>3, <2>4, <5>1
      <4>2. IsFiniteSet(1..n)
        BY <2>1, FS_Interval
      <4>3. IsFiniteSet(below)
        BY <4>2, FS_Subset
      <4>4. Cardinality(1..i) = i
        <5>1. 1 \in Int /\ i \in Int /\ i >= 1
          BY <2>1, <2>2
        <5> QED
          BY <5>1, FS_Interval
      <4> HIDE DEF below
      <4>5. Cardinality(1..i) <= Cardinality(below)
        BY <4>1, <4>3, FS_Subset
      <4> QED
        BY <4>3, <4>4, <4>5, FS_CardinalityType
    <3> HIDE DEF rank
    <3>3. p * n <= rank * 50
      <4>1. i \in Nat
        BY <2>1, <2>2
      <4> HIDE DEF p
      <4> QED
        BY <2>5, <3>1, <3>2, <4>1
    <3>4. i \in StepUp
      <4>1. verdicts[i].test.p = p
        BY <2>2, <2>3
      <4>2. verdicts[i].test.p * Len(verdicts)
              <= Cardinality({k \in DOMAIN verdicts : verdicts[k].test.p <= verdicts[i].test.p}) * 50
        BY <2>2, <3>3, <4>1 DEF rank
      <4>3. verdicts[i].test.p <= verdicts[i].test.p
        BY <2>5, <4>1
      <4> QED
        BY <4>2, <4>3 DEF StepUp
    <3>5. p # 1000
      <4>1. SUFFICES ASSUME p = 1000 PROVE FALSE
        OBVIOUS
      <4> HIDE DEF p
      <4>2. 1000 * n <= i * 50 /\ i \in Nat /\ i <= n /\ n >= 1
        BY <2>1, <2>2, <3>1, <4>1
      <4> QED
        BY <2>1, <4>2
    <3>6. verdicts[i].test = sorted[i] /\ sorted[i] \in Tests
      BY <2>2, <2>3
    <3>7. sorted[i].rows >= 30 /\ ~sorted[i].spurious
      BY <3>5, <3>6 DEF Tests
    <3> QED
      BY <3>4, <3>6, <3>7
  <2> QED
    BY <2>6, <2>7
<1> QED
  BY <1>1, CorrectionInvInit, CorrectionInvStep, PTL DEF ResearchSpec

-----------------------------------------------------------------------------
\* Quotient and rest.
LEMMA DivisionFact ==
    ASSUME NEW n \in Nat, NEW d \in Nat \ {0}
    PROVE  /\ n \div d \in Nat /\ n % d \in 0 .. d - 1
           /\ n = d * (n \div d) + (n % d)
OBVIOUS

LEMMA MultipleFact ==
    ASSUME NEW k \in Nat, NEW d \in Nat \ {0}
    PROVE  (d * k) % d = 0
<1> DEFINE q == (d * k) \div d
           r == (d * k) % d
<1>1. d * k \in Nat
  OBVIOUS
<1>2. q \in Nat /\ r \in 0 .. d - 1 /\ d * k = d * q + r
  BY <1>1, DivisionFact
<1> HIDE DEF q, r
<1>3. d * (k - q) = r
  BY <1>2
<1>4. k - q <= 0 \/ k - q >= 1
  BY <1>2
<1>5. CASE k - q >= 1
  <2>1. d * (k - q) >= d
    BY <1>2, <1>5
  <2> QED
    BY <1>2, <1>3, <2>1
<1>6. CASE k - q <= 0
  <2>1. d * (k - q) <= 0
    BY <1>2, <1>6
  <2> QED
    BY <1>2, <1>3, <2>1
<1> QED
  BY <1>4, <1>5, <1>6 DEF r

LEMMA MultiplesApart ==
    ASSUME NEW d \in Nat \ {0}, NEW m \in Nat, NEW n \in Nat, m % d = 0, n % d = 0, m < n
    PROVE  m + d <= n
<1> DEFINE p == m \div d
           q == n \div d
<1>1. p \in Nat /\ q \in Nat /\ m = d * p /\ n = d * q
  BY DivisionFact
<1> HIDE DEF p, q
<1>2. p < q
  <2>1. SUFFICES ASSUME q <= p PROVE FALSE
    BY <1>1
  <2>2. d * q <= d * p
    BY <1>1, <2>1
  <2> QED
    BY <1>1, <2>2
<1>3. d * (p + 1) <= d * q
  BY <1>1, <1>2
<1>4. d * (p + 1) = d * p + d
  BY <1>1
<1> QED
  BY <1>1, <1>3, <1>4

\* The rows of a segment in their order.
Earlier == {p \in Nat \X Nat : p[1] < p[2]}

LEMMA EarlierOrders ==
    ASSUME NEW rows \in SUBSET Nat
    PROVE  /\ StrictOrder(Earlier, rows)
           /\ \A r \in rows : Cardinality({q \in rows : q < r}) = RankOf(Earlier, rows, r)
<1>1. \A q, r \in rows : <<q, r>> \in Earlier <=> q < r
  BY DEF Earlier
<1>2. \A q \in rows : q \in Int
  OBVIOUS
<1>3. StrictOrder(Earlier, rows)
  BY <1>1, <1>2 DEF StrictOrder
<1> QED
  BY <1>1, <1>3 DEF Below, RankOf

\* Of two rows, as many measured ones lie between them as there is room for.
LEMMA RowsBetween ==
    ASSUME NEW rows \in SUBSET Nat, IsFiniteSet(rows), NEW q \in rows, NEW r \in rows, q < r
    PROVE  Cardinality({x \in rows : x < r}) <= Cardinality({x \in rows : x < q}) + (r - q)
<1> DEFINE A == {x \in rows : x < q}
           B == {x \in rows : x < r}
           C == q .. (r - 1)
<1>1. q \in Int /\ r \in Int /\ r - 1 \in Int
  OBVIOUS
<1>2. IsFiniteSet(C) /\ Cardinality(C) = r - q
  <2>1. IsFiniteSet(C) /\ Cardinality(C) = IF q > r - 1 THEN 0 ELSE (r - 1) - q + 1
    BY <1>1, FS_Interval
  <2> QED
    BY <1>1, <2>1
<1>3. IsFiniteSet(A) /\ IsFiniteSet(B)
  BY FS_Subset
<1>4. B \subseteq A \cup C
  <2>1. ASSUME NEW x \in rows, x < r PROVE x < q \/ x \in q .. (r - 1)
    BY <2>1, <1>1
  <2> QED
    BY <2>1
<1> HIDE DEF A, B, C
<1>5. /\ IsFiniteSet(A \cup C)
      /\ Cardinality(A \cup C) = Cardinality(A) + Cardinality(C) - Cardinality(A \cap C)
  BY <1>2, <1>3, FS_Union
<1>6. Cardinality(B) <= Cardinality(A \cup C)
  BY <1>4, <1>5, FS_Subset
<1>7. Cardinality(A \cap C) \in Nat /\ Cardinality(A) \in Nat /\ Cardinality(B) \in Nat
  BY <1>3, FS_Intersection, FS_CardinalityType
<1> QED
  BY <1>1, <1>2, <1>5, <1>6, <1>7 DEF A, B

\* Rows taken every `lag' of those measured are `lag' rows apart, and as many as the
\* rows measured have room for.
LEMMA EveryLagApart ==
    ASSUME NEW rows \in SUBSET Nat, IsFiniteSet(rows), NEW lag \in Nat \ {0}
    PROVE  \A q, r \in EveryLag(rows, lag) : q < r => q + lag <= r
<1> SUFFICES ASSUME NEW q \in EveryLag(rows, lag), NEW r \in EveryLag(rows, lag), q < r
             PROVE  q + lag <= r
  OBVIOUS
<1> DEFINE m == Cardinality({x \in rows : x < q})
           n == Cardinality({x \in rows : x < r})
<1>1. q \in rows /\ r \in rows /\ m % lag = 0 /\ n % lag = 0
  BY DEF EveryLag
<1>2. m \in Nat /\ n \in Nat /\ m < n
  <2>1. <<q, r>> \in Earlier
    BY <1>1 DEF Earlier
  <2>2. /\ m = RankOf(Earlier, rows, q) /\ n = RankOf(Earlier, rows, r)
        /\ StrictOrder(Earlier, rows)
    BY <1>1, EarlierOrders
  <2>3. m \in Ranks(rows) /\ n \in Ranks(rows) /\ m < n
    BY <1>1, <2>1, <2>2, RankFact, RanksGrow
  <2> QED
    BY <2>3 DEF Ranks
<1>3. n <= m + (r - q)
  BY <1>1, RowsBetween
<1> HIDE DEF m, n
<1>4. m + lag <= n
  BY <1>1, <1>2, MultiplesApart
<1>5. q \in Nat /\ r \in Nat
  BY <1>1
<1> QED
  BY <1>2, <1>3, <1>4, <1>5

LEMMA EveryLagMany ==
    ASSUME NEW rows \in SUBSET Nat, IsFiniteSet(rows), NEW lag \in Nat \ {0}
    PROVE  /\ Cardinality(EveryLag(rows, lag)) \in Nat
           /\ Cardinality(rows) \div lag <= Cardinality(EveryLag(rows, lag))
<1> DEFINE n == Cardinality(rows)
           m == n \div lag
           TakenAt(k) == CHOOSE r \in rows : RankOf(Earlier, rows, r) = lag * k
           f == [k \in 0 .. m - 1 |-> TakenAt(k)]
<1>1. n \in Nat /\ m \in Nat /\ lag * m <= n
  <2>1. n \in Nat
    BY FS_CardinalityType
  <2> HIDE DEF n
  <2>2. m \in Nat /\ n % lag \in 0 .. lag - 1 /\ n = lag * m + (n % lag)
    BY <2>1, DivisionFact
  <2> HIDE DEF m
  <2> QED
    BY <2>1, <2>2
<1>2. IsFiniteSet(EveryLag(rows, lag)) /\ Cardinality(EveryLag(rows, lag)) \in Nat
  BY FS_Subset, FS_CardinalityType DEF EveryLag
<1>3. ASSUME NEW k \in 0 .. m - 1
      PROVE  /\ TakenAt(k) \in EveryLag(rows, lag)
             /\ RankOf(Earlier, rows, TakenAt(k)) = lag * k
  <2> HIDE DEF m
  <2>1. lag * k \in 0 .. n - 1
    <3>1. k \in Nat /\ k + 1 <= m
      BY <1>1
    <3>2. lag * (k + 1) <= lag * m /\ lag * (k + 1) = lag * k + lag /\ lag * k \in Nat
      BY <1>1, <3>1
    <3> QED
      BY <1>1, <3>1, <3>2
  <2>2. RankTaken(Earlier, rows, lag * k)
    <3>1. StrictOrder(Earlier, rows)
      BY EarlierOrders
    <3>2. \A j \in Ranks(rows) : RankTaken(Earlier, rows, j)
      BY <3>1, RanksAreTaken
    <3>3. lag * k \in Ranks(rows)
      BY <2>1 DEF n, Ranks
    <3> QED
      BY <3>2, <3>3
  <2>3. TakenAt(k) \in rows /\ RankOf(Earlier, rows, TakenAt(k)) = lag * k
    BY <2>2 DEF RankTaken
  <2> HIDE DEF TakenAt
  <2>4. Cardinality({q \in rows : q < TakenAt(k)}) = RankOf(Earlier, rows, TakenAt(k))
    BY <2>3, EarlierOrders
  <2>5. (lag * k) % lag = 0
    BY <1>1, MultipleFact
  <2> QED
    BY <2>3, <2>4, <2>5 DEF EveryLag
<1> HIDE DEF TakenAt
<1>4. f \in [0 .. m - 1 -> EveryLag(rows, lag)]
  BY <1>3
<1>5. ASSUME NEW j \in 0 .. m - 1, NEW k \in 0 .. m - 1, f[j] = f[k]
      PROVE  j = k
  <2>1. lag * j = lag * k
    BY <1>3, <1>5
  <2> HIDE DEF m
  <2>2. j \in Nat /\ k \in Nat
    BY <1>1
  <2>3. j < k => lag * j < lag * k
    BY <2>2
  <2>4. k < j => lag * k < lag * j
    BY <2>2
  <2> QED
    BY <2>1, <2>2, <2>3, <2>4
<1> HIDE DEF f
<1>6. f \in Injection(0 .. m - 1, EveryLag(rows, lag))
  BY <1>4, <1>5 DEF Injection, IsInjective
<1>7. Cardinality(0 .. m - 1) = m
  <2> HIDE DEF m
  <2>1. m - 1 \in Int /\ 0 \in Int
    BY <1>1
  <2> QED
    BY <1>1, <2>1, FS_Interval
<1>8. Cardinality(0 .. m - 1) <= Cardinality(EveryLag(rows, lag))
  BY <1>2, <1>6, FS_Injection
<1> QED
  BY <1>2, <1>7, <1>8

\* The significance of a correlation grows with the observations.
LEMMA TSquaredGrows ==
    ASSUME NEW ic \in Int, NEW m \in Nat, NEW n \in Nat, m <= n, TSquared(ic, m) > 0
    PROVE  TSquared(ic, m) <= TSquared(ic, n)
<1> DEFINE s == ic * ic
<1>1. s \in Nat
  BY SMTT(30)
<1>2. m >= 3 /\ TSquared(ic, m) = s * (m + 2) /\ TSquared(ic, n) = s * (n + 2)
  BY DEF TSquared
<1> HIDE DEF s
<1>3. m + 2 \in Nat /\ n + 2 \in Nat /\ m + 2 <= n + 2
  OBVIOUS
<1>4. s * (m + 2) <= s * (n + 2)
  <2>1. n - m \in Nat /\ s * (n + 2) = s * (m + 2) + s * (n - m)
    BY <1>1
  <2>2. s * (n - m) \in Nat /\ s * (m + 2) \in Nat
    BY <1>1, <2>1
  <2> QED
    BY <2>1, <2>2
<1> QED
  BY <1>2, <1>4

\* What a verdict rests on: training rows whose returns end before the test rows,
\* and as many test rows as its significance was computed with.
ScoreRecord ==
    [lag : Lags, train : SUBSET Nat, test : SUBSET Nat, icTest : Int, survives : BOOLEAN]
SoundScores ==
    {s \in ScoreRecord :
        /\ IsFiniteSet(s.test) /\ \A q \in s.train, r \in s.test : q + s.lag < r
        /\ s.survives => /\ Cardinality(s.train) >= 10
                         /\ TSquared(s.icTest, Effective(s.test, s.lag)) >= 40000}

SegmentInv ==
    /\ searcher \in {"features", "macro"} /\ seriesLength \in Nat
    /\ scores \in Seq(SoundScores)
    /\ \A g \in gates : /\ g.lag \in Lags /\ g.rows \in SUBSET Nat /\ IsFiniteSet(g.rows)
                        /\ Cardinality(g.rows) >= 30 * g.lag

LEMMA MeasuredFact ==
    ASSUME NEW first \in Nat, NEW last \in Nat, NEW hole, NEW lag \in Nat
    PROVE  /\ Measured(first, last, hole, lag) \in SUBSET Nat
           /\ IsFiniteSet(Measured(first, last, hole, lag))
           /\ \A r \in Measured(first, last, hole, lag) : first <= r /\ r + lag <= last
<1>1. Measured(first, last, hole, lag) \subseteq first..last
  BY DEF Measured
<1>2. IsFiniteSet(first..last) /\ first..last \subseteq Nat
  BY FS_Interval
<1>3. IsFiniteSet(Measured(first, last, hole, lag))
  BY <1>1, <1>2, FS_Subset
<1> QED
  BY <1>1, <1>2, <1>3 DEF Measured

LEMMA SignOfProduct ==
    ASSUME NEW a \in Int, NEW b \in Int, a * b > 0
    PROVE  a # 0
OBVIOUS

LEMMA ScoreIsSound ==
    ASSUME SegmentInv, Score
    PROVE  SegmentInv'
<1>1. PICK lag \in Lags, hole \in Holes, x \in Correlations, y \in Correlations :
         LET train == Measured(1, SegmentCut, hole, lag)
             test == Measured(SegmentCut + 1, seriesLength, hole, lag) IN
         scores' = Append(scores,
              [lag |-> lag, train |-> train, test |-> test, icTest |-> RankIC(test, y),
               survives |->
                  IF searcher = "macro"
                  THEN SurvivesMacro(RankIC(train, x), RankIC(test, y), Effective(test, lag))
                  ELSE Survives(RankIC(train, x), RankIC(test, y), Effective(test, lag))])
  BY DEF Score
<1> DEFINE k == SegmentCut
           train == Measured(1, k, hole, lag)
           test == Measured(k + 1, seriesLength, hole, lag)
           icTrain == RankIC(train, x)
           icTest == RankIC(test, y)
           n == Effective(test, lag)
           s == [lag |-> lag, train |-> train, test |-> test, icTest |-> icTest,
                 survives |-> IF searcher = "macro" THEN SurvivesMacro(icTrain, icTest, n)
                              ELSE Survives(icTrain, icTest, n)]
<1>2. scores' = Append(scores, s) /\ searcher' = searcher /\ seriesLength' = seriesLength
      /\ gates' = gates
  BY <1>1 DEF Score
<1>3. k \in Nat /\ lag \in Nat /\ lag \in Lags /\ x \in Int /\ y \in Int
  <2>1. k \in Nat
    <3>1. SegmentCut \in Int
      BY SegmentAssumption, SeventyPercentFact DEF SegmentInv, SegmentCut
    <3>2. 0 < SegmentCut
      BY DEF Score
    <3> QED
      BY <3>1, <3>2
  <2> QED
    BY <2>1, SegmentAssumption
<1> HIDE DEF k
<1>4. /\ train \in SUBSET Nat /\ \A r \in train : r + lag <= k
      /\ test \in SUBSET Nat /\ IsFiniteSet(test) /\ \A r \in test : k + 1 <= r
  <2>1. 1 \in Nat /\ k + 1 \in Nat /\ seriesLength \in Nat
    BY <1>3 DEF SegmentInv
  <2> QED
    BY <1>3, <2>1, MeasuredFact
<1> HIDE DEF train, test
<1>5. \A q \in train, r \in test : q + lag < r
  <2> SUFFICES ASSUME NEW q \in train, NEW r \in test PROVE q + lag < r
    OBVIOUS
  <2>1. q \in Nat /\ r \in Nat /\ q + lag <= k /\ k + 1 <= r
    BY <1>4
  <2> QED
    BY <1>3, <2>1
<1>6. icTrain \in Int /\ icTest \in Int /\ (icTrain # 0 => Cardinality(train) >= 10)
  <2>1. Cardinality(train) < 10 \/ Cardinality(train) >= 10
    <3>1. IsFiniteSet(train)
      <4>1. 1 \in Nat
        OBVIOUS
      <4> QED
        BY <1>3, <4>1, MeasuredFact DEF train
    <3>2. Cardinality(train) \in Nat
      BY <3>1, FS_CardinalityType
    <3> QED
      BY <3>2
  <2> QED
    BY <1>3, <2>1 DEF RankIC
<1>10. icTest * icTest * (n + 2) \in Int
  <2>1. n \in Nat
    <3>1. Cardinality(test) \in Nat
      BY <1>4, FS_CardinalityType
    <3> QED
      BY <1>3, <3>1, SegmentAssumption, DivisionFact DEF Effective
  <2> HIDE DEF icTest, n
  <2>2. icTest * icTest \in Int /\ n + 2 \in Int
    BY <1>6, <2>1
  <2> QED
    BY <2>2
<1>7. ASSUME s.survives PROVE Cardinality(train) >= 10 /\ TSquared(icTest, n) >= 40000
  <2>1. SurvivesMacro(icTrain, icTest, n) \/ Survives(icTrain, icTest, n)
    BY <1>7
  <2> HIDE DEF icTrain, icTest, n
  <2>2. TSquared(icTest, n) >= 40000 /\ icTrain * icTest > 0
    <3>1. \A a \in Int : a > 40000 => a >= 40000
      OBVIOUS
    <3>2. TSquared(icTest, n) \in Int
      BY <1>10 DEF TSquared
    <3> QED
      BY <2>1, <3>1, <3>2 DEF SurvivesMacro, Survives
  <2> QED
    BY <1>6, <2>2, SignOfProduct
<1>8. s \in SoundScores
  <2>1. s.survives \in BOOLEAN
    <3> HIDE DEF icTrain, icTest, n
    <3>1. /\ SurvivesMacro(icTrain, icTest, n) \in BOOLEAN
          /\ Survives(icTrain, icTest, n) \in BOOLEAN
      BY DEF SurvivesMacro, Survives
    <3> QED
      BY <3>1
  <2> HIDE DEF icTrain, icTest
  <2>2. s \in ScoreRecord
    BY <1>3, <1>4, <1>6, <2>1 DEF ScoreRecord
  <2>3. /\ s.test = test /\ s.train = train /\ s.lag = lag /\ s.icTest = icTest
    OBVIOUS
  <2>4. s.survives => Cardinality(train) >= 10 /\ TSquared(icTest, Effective(test, lag)) >= 40000
    BY <1>7 DEF n
  <2> HIDE DEF s
  <2>5. IsFiniteSet(s.test)
    BY <1>4, <2>3
  <2>6. \A q \in s.train, r \in s.test : q + s.lag < r
    <3> SUFFICES ASSUME NEW q \in s.train, NEW r \in s.test PROVE q + s.lag < r
      OBVIOUS
    <3>1. q \in train /\ r \in test
      BY <2>3
    <3>2. q + lag < r
      BY <1>5, <3>1
    <3> QED
      BY <2>3, <3>2
  <2>7. s.survives => /\ Cardinality(s.train) >= 10
                      /\ TSquared(s.icTest, Effective(s.test, s.lag)) >= 40000
    BY <2>3, <2>4
  <2> QED
    BY <2>2, <2>5, <2>6, <2>7 DEF SoundScores
<1> HIDE DEF s
<1>9. scores' \in Seq(SoundScores)
  BY <1>2, <1>8 DEF SegmentInv
<1> QED
  BY <1>2, <1>9 DEF SegmentInv

LEMMA GateIsSound ==
    ASSUME SegmentInv, GateHorizon
    PROVE  SegmentInv'
<1>1. PICK lag \in Lags :
         /\ Cardinality(Holdout(lag)) >= 30 * lag
         /\ gates' = gates \cup {[lag |-> lag, rows |-> Holdout(lag)]}
  BY DEF GateHorizon
<1>2. UNCHANGED <<searcher, seriesLength, scores>>
  BY DEF GateHorizon
<1>3. Holdout(lag) \in SUBSET Nat /\ IsFiniteSet(Holdout(lag))
  <2>1. SegmentCut \in Int /\ SegmentCut + 1 \in Nat /\ lag \in Nat
    BY SegmentAssumption, SeventyPercentFact DEF SegmentInv, SegmentCut
  <2> DEFINE k == SegmentCut
             m == seriesLength - lag
  <2>2. k + 1 \in Nat /\ m \in Int
    BY <2>1 DEF SegmentInv
  <2> HIDE DEF k, m
  <2>3. IsFiniteSet((k + 1)..m) /\ (k + 1)..m \subseteq Nat
    BY <2>2, FS_Interval
  <2> QED
    BY <2>3 DEF Holdout, k, m
<1> QED
  BY <1>1, <1>2, <1>3 DEF SegmentInv

LEMMA SegmentInvInit == SegmentInit => SegmentInv
BY SegmentAssumption DEF SegmentInit, SegmentInv

LEMMA SegmentInvStep == SegmentInv /\ [SegmentNext]_segmentVars => SegmentInv'
<1>1. SegmentInv /\ UNCHANGED segmentVars => SegmentInv'
  BY DEF SegmentInv, segmentVars
<1> QED
  BY <1>1, ScoreIsSound, GateIsSound DEF SegmentNext, ScoreFeature, ScoreMacroFeature

\* No verdict of the feature searches or of the horizon gate spends a row twice:
\* for any series, holes, correlations and horizons, significance counts rows whose
\* returns share no bar, and those it was trained on come before
\* (_effective_observations, split_train_test, evaluate_asset_tradability).
THEOREM VerdictsAlwaysSpendRowsOnce == SegmentSpec => []VerdictsSpendRowsOnce
<1>1. SegmentInv => VerdictsSpendRowsOnce
  <2> SUFFICES ASSUME SegmentInv PROVE VerdictsSpendRowsOnce
    OBVIOUS
  <2>1. ASSUME NEW i \in DOMAIN scores, scores[i].survives
        PROVE  LET lag == scores[i].lag
                   apart == EveryLag(scores[i].test, lag) IN
               /\ \A q, r \in apart : q < r => q + lag <= r
               /\ TSquared(scores[i].icTest, Cardinality(apart)) >= 40000
               /\ \A q \in scores[i].train, r \in scores[i].test : q + lag < r
               /\ Cardinality(scores[i].train) >= 10
    <3> DEFINE s == scores[i]
    <3>1. s \in SoundScores
      BY DEF SegmentInv
    <3> HIDE DEF s
    <3>2. /\ s.lag \in Nat \ {0} /\ s.test \in SUBSET Nat /\ IsFiniteSet(s.test) /\ s.icTest \in Int
          /\ \A q \in s.train, r \in s.test : q + s.lag < r
      <4>1. s \in ScoreRecord
        BY <3>1 DEF SoundScores
      <4>2. s.lag \in Lags /\ s.test \in SUBSET Nat /\ s.icTest \in Int
        BY <4>1 DEF ScoreRecord
      <4>3. IsFiniteSet(s.test) /\ \A q \in s.train, r \in s.test : q + s.lag < r
        BY <3>1, SMT DEF SoundScores
      <4>4. s.lag \in Nat \ {0}
        BY <4>2, SegmentAssumption
      <4> QED
        BY <4>2, <4>3, <4>4
    <3>3. /\ Cardinality(s.train) >= 10
          /\ TSquared(s.icTest, Effective(s.test, s.lag)) >= 40000
      BY <2>1, <3>1 DEF SoundScores, s
    <3>4. \A q, r \in EveryLag(s.test, s.lag) : q < r => q + s.lag <= r
      BY <3>2, EveryLagApart
    <3> DEFINE m == Effective(s.test, s.lag)
               n == Cardinality(EveryLag(s.test, s.lag))
    <3>5. m \in Nat /\ n \in Nat /\ m <= n
      <4>1. Cardinality(s.test) \in Nat
        BY <3>2, FS_CardinalityType
      <4>2. Cardinality(s.test) \div s.lag \in Nat
        BY <3>2, <4>1, DivisionFact
      <4> QED
        BY <3>2, <4>2, EveryLagMany DEF Effective
    <3> HIDE DEF m, n
    <3>6. TSquared(s.icTest, n) >= 40000
      <4> DEFINE ic == s.icTest
      <4>1. ic \in Int
        BY <3>2
      <4> HIDE DEF ic
      <4>2. TSquared(ic, m) \in Int /\ TSquared(ic, n) \in Int
        <5>1. ic * ic \in Int /\ m + 2 \in Int /\ n + 2 \in Int
          BY <3>5, <4>1
        <5>2. (ic * ic) * (m + 2) \in Int /\ (ic * ic) * (n + 2) \in Int
          BY <5>1
        <5> QED
          BY <5>2 DEF TSquared
      <4>3. TSquared(ic, m) >= 40000
        BY <3>3 DEF ic, m
      <4>4. TSquared(ic, m) > 0
        BY <4>2, <4>3
      <4>5. TSquared(ic, m) <= TSquared(ic, n)
        BY <3>5, <4>1, <4>4, TSquaredGrows
      <4>6. TSquared(ic, n) >= 40000
        BY <4>2, <4>3, <4>5
      <4> QED
        BY <4>6 DEF ic
    <3> QED
      BY <3>2, <3>3, <3>4, <3>6 DEF s, n
  <2>2. ASSUME NEW g \in gates
        PROVE  LET apart == EveryLag(g.rows, g.lag) IN
               /\ Cardinality(apart) >= 30
               /\ \A q, r \in apart : q < r => q + g.lag <= r
    <3>1. /\ g.lag \in Nat \ {0} /\ g.rows \in SUBSET Nat /\ IsFiniteSet(g.rows)
          /\ Cardinality(g.rows) >= 30 * g.lag
      BY SegmentAssumption DEF SegmentInv
    <3>2. \A q, r \in EveryLag(g.rows, g.lag) : q < r => q + g.lag <= r
      BY <3>1, EveryLagApart
    <3> DEFINE d == g.lag
               n == Cardinality(g.rows)
               q == n \div d
    <3>3. /\ Cardinality(EveryLag(g.rows, g.lag)) \in Nat
          /\ q <= Cardinality(EveryLag(g.rows, g.lag))
      BY <3>1, EveryLagMany
    <3>4. n \in Nat /\ d \in Nat \ {0} /\ n >= 30 * d
      BY <3>1, FS_CardinalityType
    <3> HIDE DEF n, d
    <3>5. q \in Nat /\ n = d * q + (n % d) /\ n % d \in 0 .. d - 1
      BY <3>4, DivisionFact
    <3> HIDE DEF q
    <3>6. q >= 30
      <4>1. SUFFICES ASSUME q <= 29 PROVE FALSE
        BY <3>5
      <4>2. d * q <= d * 29
        BY <3>4, <3>5, <4>1
      <4> QED
        BY <3>4, <3>5, <4>2
    <3> QED
      BY <3>2, <3>3, <3>5, <3>6
  <2> QED
    BY <2>1, <2>2 DEF VerdictsSpendRowsOnce
<1> QED
  BY <1>1, SegmentInvInit, SegmentInvStep, PTL DEF SegmentSpec

-----------------------------------------------------------------------------
\* Squares, and how many amounts it takes for their sum to stand out of their squares.
LEMMA SquareFact ==
    ASSUME NEW p \in Int
    PROVE  p * p \in Nat /\ (p # 0 => p * p > 0)
<1>1. CASE p >= 0
  BY <1>1
<1>2. CASE p < 0
  <2>1. p * p = (-p) * (-p)
    OBVIOUS
  <2>2. -p \in Nat \ {0}
    BY <1>2
  <2>3. (-p) * (-p) \in Nat \ {0}
    BY <2>2
  <2> QED
    BY <2>1, <2>3
<1> QED
  BY <1>1, <1>2

LEMMA SquareOfSum ==
    ASSUME NEW p \in Int, NEW q \in Int
    PROVE  (p + q) * (p + q) <= 2 * (p * p + q * q)
<1>1. (p - q) * (p - q) \in Nat
  <2>1. p - q \in Int
    OBVIOUS
  <2> QED
    BY <2>1, SquareFact
<1> DEFINE a == p * p
           b == q * q
           c == p * q
<1>2. /\ a \in Int /\ b \in Int /\ c \in Int
      /\ (p - q) * (p - q) = a - 2 * c + b
      /\ (p + q) * (p + q) = a + 2 * c + b
  BY SMTT(30)
<1> HIDE DEF a, b, c
<1>3. (p + q) * (p + q) <= 2 * (a + b)
  BY <1>1, <1>2
<1> QED
  BY <1>3 DEF a, b

LEMMA SquaresOrdered ==
    ASSUME NEW p \in Nat, NEW q \in Nat, p <= q
    PROVE  p * p <= q * q
<1>1. p * p <= q * p /\ q * p <= q * q
  OBVIOUS
<1> QED
  BY <1>1

\* Of which no more than two are gains, amounts have a sum whose square is at most
\* twice the sum of their squares.
LEMMA FewGains ==
    ASSUME NEW T, IsFiniteSet(T), NEW F, NEW H,
           \A x \in T : F[x] \in Int /\ H[x] = F[x] * F[x],
           Cardinality({x \in T : F[x] > 0}) <= 2, SumOf(F, T) > 0
    PROVE  /\ SumOf(F, T) * SumOf(F, T) <= 2 * SumOf(H, T)
           /\ SumOf(F, T) \in Int /\ SumOf(H, T) \in Int
<1> DEFINE P == {x \in T : F[x] > 0}
           G == [x \in T |-> IF F[x] > 0 THEN F[x] ELSE 0]
           K == [x \in T |-> IF F[x] > 0 THEN H[x] ELSE 0]
<1>1. /\ \A x \in T : F[x] \in Int /\ H[x] \in Int /\ G[x] \in Int /\ K[x] \in Int
      /\ \A x \in T : F[x] <= G[x] /\ K[x] <= H[x]
      /\ \A x \in T \ P : G[x] = 0 /\ K[x] = 0
      /\ \A x \in P : G[x] \in Int /\ K[x] = G[x] * G[x]
  BY SquareFact
<1>2. P \in SUBSET T /\ IsFiniteSet(P) /\ Cardinality(P) \in Nat
  BY FS_Subset, FS_CardinalityType
<1> DEFINE S == SumOf(F, T)
           Q == SumOf(H, T)
           s == SumOf(G, P)
           q == SumOf(K, P)
<1> HIDE DEF P, G, K
<1>3. S \in Int /\ Q \in Int
  BY <1>1, SumTyped
<1>4. S <= s /\ s \in Int
  <2>1. SumOf(F, T) <= SumOf(G, T)
    BY <1>1, SumBound
  <2>2. SumOf(G, T) = SumOf(G, P)
    BY <1>1, <1>2, SumOfPart
  <2>3. SumOf(G, P) \in Int
    BY <1>1, <1>2, SumTyped
  <2> QED
    BY <2>1, <2>2, <2>3
<1>5. q <= Q /\ q \in Int
  <2>1. SumOf(K, T) <= SumOf(H, T)
    BY <1>1, SumBound
  <2>2. SumOf(K, T) = SumOf(K, P)
    BY <1>1, <1>2, SumOfPart
  <2>3. SumOf(K, P) \in Int
    BY <1>1, <1>2, SumTyped
  <2> QED
    BY <2>1, <2>2, <2>3
<1>6. s * s <= 2 * q
  <2>1. CASE P = {}
    <3>1. s = 0 /\ q = 0
      BY <2>1, SumEmpty
    <3> QED
      BY <3>1
  <2>2. CASE P # {}
    <3>1. PICK a \in P : TRUE
      BY <2>2
    <3>2. /\ s = G[a] + SumOf(G, P \ {a})
          /\ q = K[a] + SumOf(K, P \ {a})
      <4>1. \A x \in P : G[x] \in Int /\ K[x] \in Int
        BY <1>1, <1>2
      <4>2. P \in SUBSET P
        OBVIOUS
      <4>3. SumOf(G, P) = G[a] + SumOf(G, P \ {a})
        BY <1>2, <4>1, <4>2, SumWithout
      <4>4. SumOf(K, P) = K[a] + SumOf(K, P \ {a})
        BY <1>2, <4>1, <4>2, SumWithout
      <4> QED
        BY <4>3, <4>4
    <3>3. IsFiniteSet(P \ {a}) /\ Cardinality(P \ {a}) = Cardinality(P) - 1
      BY <1>2, FS_RemoveElement
    <3>4. G[a] \in Int /\ K[a] = G[a] * G[a] /\ G[a] * G[a] \in Nat
      BY <1>1, SquareFact
    <3>5. CASE P \ {a} = {}
      <4>1. SumOf(G, P \ {a}) = 0 /\ SumOf(K, P \ {a}) = 0
        BY <3>5, SumEmpty
      <4>2. s = G[a] /\ q = G[a] * G[a]
        BY <3>2, <3>4, <4>1
      <4> QED
        BY <3>4, <4>2
    <3>6. CASE P \ {a} # {}
      <4>1. PICK b \in P \ {a} : TRUE
        BY <3>6
      <4>2. (P \ {a}) \ {b} = {}
        <5>1. /\ IsFiniteSet((P \ {a}) \ {b})
              /\ Cardinality((P \ {a}) \ {b}) = Cardinality(P \ {a}) - 1
          BY <3>3, FS_RemoveElement
        <5>2. Cardinality((P \ {a}) \ {b}) \in Nat
          BY <5>1, FS_CardinalityType
        <5>3. Cardinality(P) <= 2
          BY DEF P
        <5>4. Cardinality((P \ {a}) \ {b}) = 0
          BY <1>2, <3>3, <5>1, <5>2, <5>3
        <5> QED
          BY <5>1, <5>4, FS_EmptySet
      <4>3. SumOf(G, P \ {a}) = G[b] /\ SumOf(K, P \ {a}) = K[b]
        <5>1. \A x \in P \ {a} : G[x] \in Int /\ K[x] \in Int
          BY <1>1, <1>2
        <5>2. P \ {a} \in SUBSET (P \ {a})
          OBVIOUS
        <5>3. SumOf(G, P \ {a}) = G[b] + SumOf(G, (P \ {a}) \ {b})
          BY <3>3, <5>1, <5>2, SumWithout
        <5>4. SumOf(K, P \ {a}) = K[b] + SumOf(K, (P \ {a}) \ {b})
          BY <3>3, <5>1, <5>2, SumWithout
        <5>5. SumOf(G, (P \ {a}) \ {b}) = 0 /\ SumOf(K, (P \ {a}) \ {b}) = 0
          BY <4>2, SumEmpty
        <5>6. G[b] \in Int /\ K[b] \in Int
          BY <4>1, <5>1
        <5> QED
          BY <5>3, <5>4, <5>5, <5>6
      <4>4. G[b] \in Int /\ K[b] = G[b] * G[b]
        BY <1>1
      <4>5. s = G[a] + G[b] /\ q = G[a] * G[a] + G[b] * G[b]
        BY <3>2, <3>4, <4>3, <4>4
      <4> QED
        BY <3>4, <4>4, <4>5, SquareOfSum
    <3> QED
      BY <3>5, <3>6
  <2> QED
    BY <2>1, <2>2
<1>7. S > 0
  OBVIOUS
<1> HIDE DEF S, Q, s, q
<1>8. S * S <= s * s
  <2>1. S \in Nat /\ s \in Nat
    BY <1>3, <1>4, <1>7
  <2> QED
    BY <1>4, <2>1, SquaresOrdered
<1>9. S * S \in Int /\ s * s \in Int
  BY <1>3, <1>4
<1>10. S * S <= 2 * Q
  BY <1>3, <1>5, <1>6, <1>8, <1>9
<1> QED
  BY <1>3, <1>10 DEF S, Q

-----------------------------------------------------------------------------
\* The columns of the history: what each line nets, turns over, and grosses.
Nets(lines) == [i \in DOMAIN lines |-> lines[i].pnl]
Turnovers(lines) == [i \in DOMAIN lines |-> lines[i].turnover]
Grosses(lines) == [i \in DOMAIN lines |-> GrossOf(lines[i])]
Lines == [turnover : Int, pnl : Int]

\* DecompositionIsTheAccount, with the toll of every line exact, and a first line that
\* opens a position and so has gained nothing.
PnlInv ==
    /\ barPrice \in BarPrices \cup {0}
    /\ position \in Int /\ averagePrice \in Int /\ capital \in Int /\ tolls \in Int
    /\ executions \in Seq(Lines)
    /\ capital = StartingCapital + Accumulated(Nets(executions))
    /\ Accumulated(Turnovers(executions)) * CommissionBps = 10000 * tolls
    /\ Accumulated(Grosses(executions)) = Accumulated(Nets(executions)) + tolls
    /\ executions = <<>> => position = 0
    /\ executions # <<>> => GrossOf(executions[1]) = 0

LEMMA ColumnsEmpty ==
    /\ Accumulated(Nets(<<>>)) = 0 /\ Accumulated(Turnovers(<<>>)) = 0
    /\ Accumulated(Grosses(<<>>)) = 0
<1> DEFINE none == <<>>
<1>1. Nets(none) = none /\ Turnovers(none) = none /\ Grosses(none) = none
  BY DEF Nets, Turnovers, Grosses
<1>2. Accumulated(none) = 0
  <2>1. none \in Seq(Int) /\ 0 \in Int
    OBVIOUS
  <2> QED
    BY <2>1, FoldOfAppend
<1> HIDE DEF none
<1>3. Accumulated(Nets(none)) = 0 /\ Accumulated(Turnovers(none)) = 0 /\ Accumulated(Grosses(none)) = 0
  BY <1>1, <1>2
<1> QED
  BY <1>3 DEF none

LEMMA PnlInvInit == PnlInit => PnlInv
<1> SUFFICES ASSUME PnlInit PROVE PnlInv
  OBVIOUS
<1>1. /\ barPrice = 0 /\ position = 0 /\ averagePrice = 0 /\ tolls = 0
      /\ capital = StartingCapital /\ executions = <<>>
  BY DEF PnlInit, BacktestInit
<1>2. StartingCapital \in Nat
  BY BacktestAssumption
<1>3. executions \in Seq(Lines)
  BY <1>1
<1>4. /\ Accumulated(Nets(executions)) = 0 /\ Accumulated(Turnovers(executions)) = 0
      /\ Accumulated(Grosses(executions)) = 0
  BY <1>1, ColumnsEmpty
<1>5. 0 * CommissionBps = 0
  BY BacktestAssumption
<1> QED
  BY <1>1, <1>2, <1>3, <1>4, <1>5 DEF PnlInv

\* A line more adds its part to each column.
LEMMA ColumnsGrow ==
    ASSUME NEW lines \in Seq(Lines), NEW line \in Lines,
           \A t \in Lines : GrossOf(t) \in Int
    PROVE  /\ Accumulated(Nets(Append(lines, line))) = Accumulated(Nets(lines)) + line.pnl
           /\ Accumulated(Turnovers(Append(lines, line)))
                = Accumulated(Turnovers(lines)) + line.turnover
           /\ Accumulated(Grosses(Append(lines, line)))
                = Accumulated(Grosses(lines)) + GrossOf(line)
           /\ Accumulated(Nets(lines)) \in Int /\ Accumulated(Turnovers(lines)) \in Int
<1> DEFINE n == Len(lines)
           more == Append(lines, line)
<1>1. /\ n \in Nat /\ DOMAIN lines = 1..n /\ DOMAIN more = 1..(n + 1)
      /\ \A i \in 1..n : more[i] = lines[i] /\ lines[i] \in Lines
      /\ more[n + 1] = line
  OBVIOUS
<1>2. line.pnl \in Int /\ line.turnover \in Int /\ GrossOf(line) \in Int
  BY DEF Lines
<1>3. /\ Nets(lines) \in Seq(Int) /\ Turnovers(lines) \in Seq(Int) /\ Grosses(lines) \in Seq(Int)
  <2>1. \A i \in 1..n : lines[i].pnl \in Int /\ lines[i].turnover \in Int /\ GrossOf(lines[i]) \in Int
    BY <1>1 DEF Lines
  <2> QED
    BY <1>1, <2>1 DEF Nets, Turnovers, Grosses
<1>4. Nets(more) = Append(Nets(lines), line.pnl)
  BY <1>1, <1>3, SMTT(30) DEF Nets
<1>5. Turnovers(more) = Append(Turnovers(lines), line.turnover)
  BY <1>1, <1>3, SMTT(30) DEF Turnovers
<1>6. Grosses(more) = Append(Grosses(lines), GrossOf(line))
  BY <1>1, <1>3, SMTT(30) DEF Grosses
<1> HIDE DEF more
<1>7. /\ Accumulated(Nets(more)) = Accumulated(Nets(lines)) + line.pnl
      /\ Accumulated(Nets(lines)) \in Int
  BY <1>2, <1>3, <1>4, FoldOfAppend
<1>8. /\ Accumulated(Turnovers(more)) = Accumulated(Turnovers(lines)) + line.turnover
      /\ Accumulated(Turnovers(lines)) \in Int
  BY <1>2, <1>3, <1>5, FoldOfAppend
<1>9. Accumulated(Grosses(more)) = Accumulated(Grosses(lines)) + GrossOf(line)
  BY <1>2, <1>3, <1>6, FoldOfAppend
<1> QED
  BY <1>7, <1>8, <1>9 DEF more

\* What a signal fills: its line grosses what the fill realizes, which is nothing when
\* it opens a position, and its toll is exactly what the account was charged.
LEMMA FillLine ==
    ASSUME PnlInv, NEW direction \in {-1, 0, 1}, BacktestSignal(direction), NEW s, NEW q,
           s = IF direction # 0 THEN direction ELSE IF position > 0 THEN -1 ELSE 1,
           q = OrderQuantity(direction)
    PROVE  /\ TradeLine(s, q) \in Lines /\ Commission(s, q) \in Int /\ RealizedPnl(s, q) \in Int
           /\ TradeLine(s, q).pnl = RealizedPnl(s, q) - Commission(s, q)
           /\ TradeLine(s, q).turnover * CommissionBps = 10000 * Commission(s, q)
           /\ GrossOf(TradeLine(s, q)) = RealizedPnl(s, q)
           /\ position = 0 => RealizedPnl(s, q) = 0
           /\ capital' = capital + RealizedPnl(s, q) - Commission(s, q)
           /\ position' \in Int /\ averagePrice' \in Int /\ barPrice' = barPrice
<1> DEFINE price == FillPrice(s)
           duty == Commission(s, q)
           pnl == RealizedPnl(s, q)
<1>1. /\ barPrice # 0 /\ barPrice' = barPrice /\ q > 0 /\ ProcessFill(s, q)
  BY DEF BacktestSignal
<1>2. s \in {-1, 1} /\ position \in Int /\ averagePrice \in Int /\ capital \in Int
      /\ barPrice \in Nat \ {0} /\ barPrice \in BarPrices /\ CommissionBps \in Nat
  BY <1>1, BacktestAssumption DEF PnlInv
<1>3. price \in Int
  <2>1. barPrice * (10000 + s * SlippageBps) \in Int
    BY SMTT(30), <1>2, BacktestAssumption
  <2> QED
    BY <2>1 DEF FillPrice
<1>4. q \in Nat \ {0}
  <2>1. Sized \in Int
    <3>1. capital * 95 \in Int /\ 100 * barPrice \in Nat \ {0}
      BY <1>2
    <3> QED
      BY <3>1 DEF Sized
  <2>2. q \in Int
    BY <1>2, <2>1 DEF OrderQuantity, Abs
  <2> QED
    BY <1>1, <2>2
<1>5. PICK j \in Int : price * CommissionBps = 10000 * j
  <2> DEFINE charged == price * CommissionBps
  <2>1. charged \in Int
    BY <1>2, <1>3
  <2>2. charged % 10000 = 0
    BY <1>2, CommissionsAreWhole DEF FillPrice
  <2> HIDE DEF charged
  <2>3. charged = 10000 * (charged \div 10000) /\ charged \div 10000 \in Int
    BY <2>1, <2>2
  <2> QED
    BY <2>3 DEF charged
<1> HIDE DEF price
<1>6. duty \in Int /\ (q * price) * CommissionBps = 10000 * duty
  <2>1. j * q \in Int /\ (q * price) * CommissionBps = 10000 * (j * q)
        /\ price * q * CommissionBps = 10000 * (j * q)
    <3>1. (q * price) * CommissionBps = q * (price * CommissionBps)
          /\ price * q * CommissionBps = q * (price * CommissionBps)
      BY <1>2, <1>3, <1>4
    <3>2. q * (10000 * j) = 10000 * (j * q)
      BY <1>4
    <3> QED
      BY <1>4, <1>5, <3>1, <3>2
  <2>2. duty = (price * q * CommissionBps) \div 10000
    BY DEF Commission, price
  <2> DEFINE k == j * q
  <2> HIDE DEF k
  <2>3. (10000 * k) \div 10000 = k
    BY <2>1 DEF k
  <2> QED
    BY <2>1, <2>2, <2>3 DEF k
<1>7. pnl \in Int /\ (position = 0 => pnl = 0)
  <2>1. pnl = IF position > 0 /\ s < 0 THEN (price - averagePrice) * Lesser(position, q)
              ELSE IF position < 0 /\ s > 0 THEN (averagePrice - price) * Lesser(-position, q)
              ELSE 0
    BY DEF RealizedPnl, price
  <2>2. Lesser(position, q) \in Int /\ Lesser(-position, q) \in Int
    BY <1>2, <1>4 DEF Lesser
  <2> HIDE DEF pnl
  <2>3. (price - averagePrice) * Lesser(position, q) \in Int
        /\ (averagePrice - price) * Lesser(-position, q) \in Int
    BY <1>2, <1>3, <2>2
  <2> QED
    BY <1>2, <2>1, <2>3
<1>8. TradeLine(s, q) = [turnover |-> q * price, pnl |-> pnl - duty]
  BY DEF TradeLine, price
<1>9. /\ capital' = capital + pnl - duty
      /\ position' = position + s * q
      /\ averagePrice' \in {0, price, averagePrice}
  BY <1>1 DEF ProcessFill, price
<1>10. GrossOf(TradeLine(s, q)) = (pnl - duty) + ((q * price) * CommissionBps) \div 10000
  BY <1>8 DEF GrossOf
<1> HIDE DEF pnl, duty
<1>11. ((q * price) * CommissionBps) \div 10000 = duty
  BY <1>6
<1>12. position' \in Int /\ averagePrice' \in Int
  BY <1>2, <1>3, <1>4, <1>9
<1>13. q * price \in Int
  BY <1>3, <1>4
<1>14. TradeLine(s, q) \in Lines /\ GrossOf(TradeLine(s, q)) = pnl
       /\ TradeLine(s, q).pnl = pnl - duty /\ TradeLine(s, q).turnover = q * price
  BY <1>6, <1>7, <1>8, <1>10, <1>11, <1>13 DEF Lines
<1> QED
  BY <1>1, <1>6, <1>7, <1>9, <1>12, <1>14 DEF pnl, duty

LEMMA PnlInvStep == PnlInv /\ [PnlNext]_pnlVars => PnlInv'
<1> SUFFICES ASSUME PnlInv, [PnlNext]_pnlVars PROVE PnlInv'
  OBVIOUS
<1>1. ASSUME UNCHANGED <<position, averagePrice, capital, executions, tolls>>,
             barPrice' \in BarPrices \cup {0}
      PROVE  PnlInv'
  <2>1. /\ Nets(executions') = Nets(executions) /\ Turnovers(executions') = Turnovers(executions)
        /\ Grosses(executions') = Grosses(executions)
    BY <1>1
  <2>2. \A t : GrossOf(t)' = GrossOf(t)
    BY DEF GrossOf
  <2>3. Nets(executions)' = Nets(executions) /\ Turnovers(executions)' = Turnovers(executions)
        /\ Grosses(executions)' = Grosses(executions)
    BY <1>1 DEF Nets, Turnovers, Grosses, GrossOf
  <2>4. /\ Accumulated(Nets(executions))' = Accumulated(Nets(executions))
        /\ Accumulated(Turnovers(executions))' = Accumulated(Turnovers(executions))
        /\ Accumulated(Grosses(executions))' = Accumulated(Grosses(executions))
    BY <2>3
  <2> QED
    BY <1>1, <2>2, <2>4 DEF PnlInv
<1>2. ASSUME NEW p \in BarPrices, PnlBar(p) PROVE PnlInv'
  <2>1. UNCHANGED <<position, averagePrice, capital, executions, tolls>> /\ barPrice' = p
    BY <1>2 DEF PnlBar, BacktestBar
  <2> QED
    BY <1>1, <2>1
<1>3. ASSUME NEW r \in Predictions, Decide(r) PROVE PnlInv'
  <2> DEFINE direction == WantedExposure(r)
             s == IF direction # 0 THEN direction ELSE IF position > 0 THEN -1 ELSE 1
             q == OrderQuantity(direction)
             line == TradeLine(s, q)
             duty == Commission(s, q)
             pnl == RealizedPnl(s, q)
  <2>1. /\ BacktestSignal(direction)
        /\ executions' = Append(executions, line)
        /\ tolls' = tolls + duty
    BY <1>3 DEF Decide
  <2>2. direction \in {-1, 0, 1}
    BY DEF WantedExposure
  <2>3. /\ line \in Lines /\ duty \in Int /\ pnl \in Int
        /\ line.pnl = pnl - duty
        /\ line.turnover * CommissionBps = 10000 * duty
        /\ GrossOf(line) = pnl
        /\ position = 0 => pnl = 0
        /\ capital' = capital + pnl - duty
        /\ position' \in Int /\ averagePrice' \in Int /\ barPrice' = barPrice
    <3> HIDE DEF direction
    <3> QED
      BY <2>1, <2>2, FillLine
  <2>4. \A t \in Lines : GrossOf(t) \in Int
    <3>1. \A t \in Lines : t.pnl \in Int /\ t.turnover * CommissionBps \in Int
      BY BacktestAssumption DEF Lines
    <3> QED
      BY <3>1 DEF GrossOf
  <2> HIDE DEF direction, s, q, line, duty, pnl
  <2> DEFINE N == Accumulated(Nets(executions))
             U == Accumulated(Turnovers(executions))
             G == Accumulated(Grosses(executions))
  <2>5. /\ executions \in Seq(Lines) /\ capital = StartingCapital + N
        /\ U * CommissionBps = 10000 * tolls /\ G = N + tolls
        /\ capital \in Int /\ tolls \in Int /\ barPrice \in BarPrices \cup {0}
        /\ (executions = <<>> => position = 0)
        /\ (executions # <<>> => GrossOf(executions[1]) = 0)
    BY DEF PnlInv
  <2>6. /\ Accumulated(Nets(executions')) = N + line.pnl
        /\ Accumulated(Turnovers(executions')) = U + line.turnover
        /\ Accumulated(Grosses(executions')) = G + GrossOf(line)
        /\ N \in Int /\ U \in Int
    <3>1. executions \in Seq(Lines) /\ line \in Lines
      BY <2>3, <2>5
    <3> DEFINE more == Append(executions, line)
    <3>2. /\ Accumulated(Nets(more)) = N + line.pnl
          /\ Accumulated(Turnovers(more)) = U + line.turnover
          /\ Accumulated(Grosses(more)) = G + GrossOf(line)
          /\ N \in Int /\ U \in Int
      BY <2>4, <3>1, ColumnsGrow
    <3>3. executions' = more
      BY <2>1
    <3> HIDE DEF more, N, U, G
    <3> QED
      BY <3>2, <3>3
  <2>7. line.turnover \in Int
    BY <2>3 DEF Lines
  <2> HIDE DEF N, U, G
  <2>8. capital' = StartingCapital + Accumulated(Nets(executions'))
    BY <2>3, <2>5, <2>6, BacktestAssumption
  <2>9. Accumulated(Turnovers(executions')) * CommissionBps = 10000 * tolls'
    <3>1. CommissionBps \in Int
      BY BacktestAssumption
    <3>2. (U + line.turnover) * CommissionBps = U * CommissionBps + line.turnover * CommissionBps
      BY <2>6, <2>7, <3>1
    <3>3. 10000 * (tolls + duty) = 10000 * tolls + 10000 * duty
      BY <2>3, <2>5
    <3> QED
      BY <2>1, <2>3, <2>5, <2>6, <3>2, <3>3
  <2>10. Accumulated(Grosses(executions')) = Accumulated(Nets(executions')) + tolls'
    BY <2>1, <2>3, <2>5, <2>6
  <2>11. executions' # <<>> /\ executions' \in Seq(Lines)
    <3>1. executions \in Seq(Lines) /\ line \in Lines
      BY <2>3, <2>5
    <3>2. Append(executions, line) \in Seq(Lines)
      BY <3>1
    <3>3. Append(executions, line) # <<>>
      <4> DEFINE more == Append(executions, line)
      <4>1. Len(more) = Len(executions) + 1 /\ Len(executions) \in Nat /\ Len(<<>>) = 0
        BY <3>1
      <4> HIDE DEF more
      <4>2. more # <<>>
        BY <4>1
      <4> QED
        BY <4>2 DEF more
    <3> QED
      BY <2>1, <3>2, <3>3
  <2>12. GrossOf(executions'[1]) = 0
    <3>1. CASE executions = <<>>
      <4>1. executions'[1] = line
        BY <2>1, <3>1
      <4> QED
        BY <2>3, <2>5, <3>1, <4>1
    <3>2. CASE executions # <<>>
      <4>1. executions'[1] = executions[1]
        BY <2>1, <2>5, <3>2
      <4> QED
        BY <2>5, <3>2, <4>1
    <3> QED
      BY <3>1, <3>2
  <2>13. capital' \in Int /\ tolls' \in Int
    BY <2>1, <2>3, <2>5
  <2>14. /\ (Accumulated(Nets(executions)))' = Accumulated(Nets(executions'))
         /\ (Accumulated(Turnovers(executions)))' = Accumulated(Turnovers(executions'))
         /\ (Accumulated(Grosses(executions)))' = Accumulated(Grosses(executions'))
         /\ (GrossOf(executions[1]))' = GrossOf(executions'[1])
    BY DEF Nets, Turnovers, Grosses, GrossOf
  <2> QED
    BY <2>3, <2>5, <2>8, <2>9, <2>10, <2>11, <2>12, <2>13, <2>14 DEF PnlInv
<1>4. CASE UNCHANGED pnlVars
  <2>1. UNCHANGED <<position, averagePrice, capital, executions, tolls>> /\ barPrice' = barPrice
    BY <1>4 DEF pnlVars, backtestVars
  <2>2. barPrice \in BarPrices \cup {0}
    BY DEF PnlInv
  <2> QED
    BY <1>1, <2>1, <2>2
<1> QED
  BY <1>2, <1>3, <1>4 DEF PnlNext

\* For any prices, predictions, slippage, commission and capital: the lines of the
\* history explain what the account gained and was charged, and the verdict of an edge
\* takes three executions that gained (decompose_pnl, reconcile).
THEOREM DecompositionAlwaysTheAccount == PnlSpec => []DecompositionIsTheAccount
<1>1. PnlInv => DecompositionIsTheAccount
  <2> SUFFICES ASSUME PnlInv PROVE DecompositionIsTheAccount
    OBVIOUS
  <2> DEFINE n == Len(executions)
             x == Grosses(executions)
             sq == [i \in DOMAIN executions |-> GrossOf(executions[i]) * GrossOf(executions[i])]
             S == SumOf(x, 1..n)
             Q == SumOf(sq, 1..n)
  <2>1. /\ executions \in Seq(Lines) /\ n \in Nat /\ DOMAIN executions = 1..n
        /\ \A i \in 1..n : executions[i] \in Lines
    BY DEF PnlInv
  <2>2. \A i \in 1..n : GrossOf(executions[i]) \in Int
    <3>1. \A t \in Lines : t.pnl \in Int /\ t.turnover * CommissionBps \in Int
      BY BacktestAssumption DEF Lines
    <3> QED
      BY <2>1, <3>1 DEF GrossOf
  <2>3. /\ NetPnl = Accumulated(Nets(executions))
        /\ TotalTurnover = Accumulated(Turnovers(executions))
    BY DEF NetPnl, TotalTurnover, SumOver, Accumulated, Nets, Turnovers
  <2>4. /\ capital = StartingCapital + NetPnl
        /\ TotalTurnover * CommissionBps = 10000 * tolls
    BY <2>3 DEF PnlInv
  <2>5. IsFiniteSet(1..n)
    BY <2>1, FS_Interval
  <2>6. /\ DOMAIN x = 1..n /\ DOMAIN sq = 1..n
        /\ \A i \in 1..n : x[i] \in Int /\ x[i] = GrossOf(executions[i]) /\ sq[i] = x[i] * x[i]
        /\ \A i \in 1..n : sq[i] \in Int
    BY <2>1, <2>2 DEF Grosses
  <2>7. GrossPnl = Accumulated(x)
    <3>1. (TotalTurnover * CommissionBps) \div 10000 = tolls
      BY <2>4 DEF PnlInv
    <3> QED
      BY <2>3, <3>1 DEF GrossPnl, PnlInv
  <2>8. Distinguishable => n >= 2 /\ n * Accumulated(sq) - GrossPnl * GrossPnl > 0
                        /\ GrossPnl * GrossPnl * (n - 1) > 4 * (n * Accumulated(sq) - GrossPnl * GrossPnl)
    BY DEF Distinguishable, SumOver, Accumulated
  <2> DEFINE gains == {i \in DOMAIN executions : GrossOf(executions[i]) > 0}
  <2>9. gains = {i \in 1..n : x[i] > 0}
    <3> HIDE DEF x, n
    <3> QED
      BY <2>1, <2>6
  <2>10. n # 0 => x[1] = 0
    <3>1. n # 0 => executions # <<>> /\ 1 \in 1..n
      BY <2>1
    <3> QED
      BY <2>6, <3>1 DEF PnlInv
  <2>11. /\ Accumulated(x) = S /\ Accumulated(sq) = Q
    <3> HIDE DEF x, sq, n
    <3>1. Accumulated(x) = SumOf(x, 1..n)
      BY <2>1, <2>6, FoldIsSum
    <3>2. Accumulated(sq) = SumOf(sq, 1..n)
      BY <2>1, <2>6, FoldIsSum
    <3> QED
      BY <3>1, <3>2
  <2>12. IsFiniteSet(gains) /\ Cardinality(gains) \in Nat
    <3> HIDE DEF x, n
    <3> QED
      BY <2>5, <2>9, FS_Subset, FS_CardinalityType
  <2> HIDE DEF x, sq, n, gains
  <2>13. ASSUME EdgeVerdict = "edge", Cardinality(gains) <= 2
         PROVE  FALSE
    <3>1. /\ S > 0 /\ n >= 2
          /\ S * S * (n - 1) > 4 * (n * Q - S * S)
      <4>1. S \in Int
        BY <2>5, <2>6, SumTyped DEF S
      <4>2. GrossPnl = S /\ Accumulated(sq) = Q
        BY <2>7, <2>11
      <4>3. Distinguishable /\ ~(GrossPnl <= 0)
        BY <2>13 DEF EdgeVerdict
      <4> HIDE DEF S, Q
      <4>4. S > 0
        BY <4>1, <4>2, <4>3
      <4> QED
        BY <2>8, <4>2, <4>3, <4>4
    <3>2. /\ S * S <= 2 * Q /\ S \in Int /\ Q \in Int
      <4>1. Cardinality({i \in 1..n : x[i] > 0}) <= 2
        BY <2>9, <2>13
      <4> QED
        BY <2>5, <2>6, <3>1, <4>1, FewGains
    <3>3. n = 2 => Q = S * S
      <4> SUFFICES ASSUME n = 2 PROVE Q = S * S
        OBVIOUS
      <4>1. 1..2 = {1, 2} /\ IsFiniteSet(1..2) /\ (1..2) \ {1} = {2} /\ {2} \ {2} = {}
        BY <2>5
      <4>2. \A i \in 1..2 : x[i] \in Int /\ sq[i] \in Int
        BY <2>6
      <4>3. x[1] = 0 /\ sq[1] = 0 /\ sq[2] = x[2] * x[2] /\ x[2] \in Int
        BY <2>6, <2>10, <4>1
      <4>4. S = x[1] + SumOf(x, {2}) /\ SumOf(x, {2}) = x[2] + SumOf(x, {})
        <5>1. SumOf(x, 1..2) = x[1] + SumOf(x, (1..2) \ {1})
          BY <4>1, <4>2, SumWithout
        <5>2. SumOf(x, {2}) = x[2] + SumOf(x, {2} \ {2})
          BY <4>1, <4>2, SumWithout
        <5> QED
          BY <4>1, <5>1, <5>2
      <4>5. Q = sq[1] + SumOf(sq, {2}) /\ SumOf(sq, {2}) = sq[2] + SumOf(sq, {})
        <5>1. SumOf(sq, 1..2) = sq[1] + SumOf(sq, (1..2) \ {1})
          BY <4>1, <4>2, SumWithout
        <5>2. SumOf(sq, {2}) = sq[2] + SumOf(sq, {2} \ {2})
          BY <4>1, <4>2, SumWithout
        <5> QED
          BY <4>1, <5>1, <5>2
      <4>6. SumOf(x, {}) = 0 /\ SumOf(sq, {}) = 0
        BY SumEmpty
      <4> HIDE DEF S, Q
      <4>7. S = x[2] /\ Q = x[2] * x[2]
        BY <4>3, <4>4, <4>5, <4>6
      <4> QED
        BY <4>7
    <3> DEFINE ss == S * S
    <3> HIDE DEF S, Q
    <3>4. ss \in Nat /\ ss > 0
      BY <3>1, <3>2, SquareFact
    <3> HIDE DEF ss
    <3>5. ss * (n - 1) > 4 * (n * Q - ss) /\ ss <= 2 * Q
      BY <3>1, <3>2 DEF ss
    <3>6. n = 2 => ss = Q
      BY <3>3 DEF ss
    <3>7. CASE n = 2
      BY <3>2, <3>4, <3>5, <3>6, <3>7
    <3>8. CASE n >= 3
      <4>1. ss * (n + 3) > 4 * (n * Q)
        BY <2>1, <3>2, <3>4, <3>5
      <4>2. n * ss <= n * (2 * Q)
        BY <2>1, <3>2, <3>4, <3>5
      <4> DEFINE a == n * ss
                 b == n * Q
      <4>3. a + 3 * ss > 4 * b /\ a <= 2 * b /\ a \in Int /\ b \in Int
        BY <2>1, <3>2, <3>4, <4>1, <4>2
      <4>4. a >= 3 * ss
        BY <2>1, <3>4, <3>8
      <4> HIDE DEF a, b
      <4> QED
        BY <3>4, <4>3, <4>4
    <3> QED
      BY <2>1, <3>1, <3>7, <3>8
  <2> QED
    BY <2>4, <2>12, <2>13 DEF DecompositionIsTheAccount, gains
<1> QED
  BY <1>1, PnlInvInit, PnlInvStep, PTL DEF PnlSpec

-----------------------------------------------------------------------------
\* What is known of a verdict: a walk-forward that passed replayed every bar, and
\* reports the drawdown of a fold that raised; a ruin below certainty was resampled
\* from trades enough.
SoundVerdict(v) ==
    /\ v.drawdown \in Nat \cup {NoDrawdown}
    /\ v.campaign = "walk_forward" /\ v.passed => start > bars /\ (crashed > 0 => v.drawdown >= 100)
    /\ v.campaign = "monte_carlo" => v.ruin \in 0..100 /\ (v.ruin < 100 => trades >= MinTrades)

\* The campaigns left are distinct and have no verdict yet, those with a verdict have
\* one, and what the folds replayed is what precedes the next.
SurvivalInv ==
    /\ bars \in Nat /\ start \in Nat /\ crashed \in Nat /\ trades \in Nat
    /\ replayed = [b \in 1..bars |-> IF b < start THEN 1 ELSE 0]
    /\ folds \in Seq(Tearsheets \cup {TotalLoss})
    /\ crashed > 0 => \E i \in DOMAIN folds : folds[i].drawdown = 100
    /\ todo \in Seq(CampaignTypes)
    /\ \A i, j \in DOMAIN todo : todo[i] = todo[j] => i = j
    /\ IsFiniteSet(results)
    /\ \A v \in results : \A i \in DOMAIN todo : todo[i] # v.campaign
    /\ \A v, w \in results : v.campaign = w.campaign => v = w
    /\ \A v \in results : SoundVerdict(v)
    /\ Recorded # {} => todo = <<>>
    /\ ApprovedSurvived

LEMMA SurvivalInvInit == CampaignsInit => SurvivalInv
<1> SUFFICES ASSUME CampaignsInit PROVE SurvivalInv
  OBVIOUS
<1>1. /\ todo \in Configurations /\ bars \in Histories
      /\ start = 1 /\ folds = <<>> /\ results = {}
      /\ crashed = 0 /\ replayed = [b \in 1..bars |-> 0] /\ trades = 0
      /\ Recorded = {}
  BY DEF CampaignsInit, LabInit, Recorded
<1>2. bars \in Nat /\ todo \in Seq(CampaignTypes) /\ \A i, j \in DOMAIN todo : todo[i] = todo[j] => i = j
  BY <1>1, CampaignsAssumption DEF IsInjective
<1>3. replayed = [b \in 1..bars |-> IF b < start THEN 1 ELSE 0]
  BY <1>1, <1>2
<1>4. folds \in Seq(Tearsheets \cup {TotalLoss})
  BY <1>1
<1>5. IsFiniteSet(results)
  BY <1>1, FS_EmptySet
<1>6. ApprovedSurvived
  BY <1>1 DEF ApprovedSurvived
<1> QED
  BY <1>1, <1>2, <1>3, <1>4, <1>5, <1>6 DEF SurvivalInv

\* The end of a campaign that runs: its verdict, if it has one, is sound and the only
\* one it gets.
LEMMA ConcludeFact ==
    ASSUME SurvivalInv, todo # <<>>, NEW verdictsOf, Conclude(verdictsOf),
           IsFiniteSet(verdictsOf),
           \A v \in verdictsOf : v.campaign = Head(todo) /\ SoundVerdict(v)',
           \A v, w \in verdictsOf : v = w,
           UNCHANGED <<files, bars, start, folds, crashed, replayed>>, trades' \in Nat,
           Head(todo) # "monte_carlo" => trades' = trades
    PROVE  SurvivalInv'
<1> USE DEF SurvivalInv
<1>1. results' = results \cup verdictsOf /\ todo' = Tail(todo)
  BY DEF Conclude
<1>2. /\ todo' \in Seq(CampaignTypes) /\ Len(todo) \in Nat \ {0} /\ 1 \in DOMAIN todo
      /\ Head(todo) = todo[1]
      /\ \A i \in DOMAIN todo' : i + 1 \in DOMAIN todo /\ todo'[i] = todo[i + 1] /\ i \in Nat \ {0}
  BY <1>1
<1>3. \A i, j \in DOMAIN todo' : todo'[i] = todo'[j] => i = j
  <2> SUFFICES ASSUME NEW i \in DOMAIN todo', NEW j \in DOMAIN todo', todo'[i] = todo'[j]
               PROVE  i = j
    OBVIOUS
  <2>1. i + 1 = j + 1
    BY <1>2
  <2> QED
    BY <1>2, <2>1
<1>4. \A i \in DOMAIN todo' : todo'[i] # Head(todo)
  <2> SUFFICES ASSUME NEW i \in DOMAIN todo', todo'[i] = Head(todo) PROVE FALSE
    OBVIOUS
  <2>1. i + 1 = 1
    BY <1>2
  <2> QED
    BY <1>2, <2>1
<1>5. IsFiniteSet(results')
  BY <1>1, FS_Union
<1>6. \A v \in results : v.campaign # Head(todo)
  BY <1>2
<1>7. \A v \in results' : \A i \in DOMAIN todo' : todo'[i] # v.campaign
  BY <1>1, <1>2, <1>4
<1>8. \A v, w \in results' : v.campaign = w.campaign => v = w
  BY <1>1, <1>6
<1>9. \A v \in results : SoundVerdict(v)'
  BY <1>6 DEF SoundVerdict
<1>10. \A v \in results' : SoundVerdict(v)'
  BY <1>1, <1>9
<1>11. Recorded = {} /\ Recorded' = {}
  BY DEF Recorded
<1>12. ApprovedSurvived'
  BY <1>11 DEF ApprovedSurvived
<1>13. UNCHANGED <<bars, start, crashed, replayed, folds>>
  OBVIOUS
<1> QED
  BY <1>2, <1>3, <1>5, <1>7, <1>8, <1>10, <1>11, <1>12, <1>13

\* The worst drawdown of the folds is one of them.
LEMMA WorstFact ==
    ASSUME SurvivalInv, folds # <<>>
    PROVE  WorstDrawdown \in Nat /\ (crashed > 0 => WorstDrawdown >= 100)
<1> DEFINE D == {folds[i].drawdown : i \in DOMAIN folds}
<1>1. /\ folds \in Seq(Tearsheets \cup {TotalLoss}) /\ Len(folds) \in Nat
      /\ DOMAIN folds = 1..Len(folds) /\ 1 \in DOMAIN folds
      /\ \A i \in DOMAIN folds : folds[i] \in Tearsheets \cup {TotalLoss}
  BY DEF SurvivalInv
<1>2. \A i \in DOMAIN folds : folds[i].drawdown \in Nat
  BY <1>1, CampaignsAssumption DEF TotalLoss
<1>3. D \in SUBSET Int /\ D # {} /\ IsFiniteSet(D)
  <2>1. IsFiniteSet(DOMAIN folds)
    BY <1>1, FS_Interval
  <2> DEFINE f == [i \in DOMAIN folds |-> folds[i].drawdown]
  <2>2. D = {f[i] : i \in DOMAIN folds}
    OBVIOUS
  <2> HIDE DEF f, D
  <2>3. IsFiniteSet(D)
    BY <2>1, <2>2, FiniteImage
  <2> QED
    BY <1>1, <1>2, <2>3 DEF D
<1>4. \E d \in D : \A e \in D : e <= d
  <2>1. Max(D) \in D /\ \A e \in D : Max(D) >= e
    BY <1>3, MaxIsElement
  <2> QED
    BY <1>3, <2>1
<1>5. WorstDrawdown = CHOOSE d \in D : \A i \in DOMAIN folds : folds[i].drawdown <= d
  BY DEF WorstDrawdown
<1>6. \E d \in D : \A i \in DOMAIN folds : folds[i].drawdown <= d
  BY <1>4
<1>7. WorstDrawdown \in D /\ \A i \in DOMAIN folds : folds[i].drawdown <= WorstDrawdown
  <2> HIDE DEF D
  <2> QED
    BY <1>5, <1>6
<1>8. WorstDrawdown \in Nat
  BY <1>2, <1>7
<1>9. crashed > 0 => \E i \in DOMAIN folds : folds[i].drawdown = 100
  BY DEF SurvivalInv
<1> QED
  BY <1>7, <1>8, <1>9

LEMMA RunFoldStep == ASSUME SurvivalInv, RunFold PROVE SurvivalInv'
<1>1. /\ todo # <<>> /\ Head(todo) = "walk_forward"
      /\ FoldEnd > start /\ start' = FoldEnd + 1
      /\ replayed' = [b \in 1..bars |-> replayed[b] + IF b \in start..FoldEnd THEN 1 ELSE 0]
      /\ \/ \E t \in Tearsheets : folds' = Append(folds, t) /\ UNCHANGED crashed
         \/ folds' = Append(folds, TotalLoss) /\ crashed' = crashed + 1
      /\ UNCHANGED <<files, todo, bars, results, trades>>
  BY DEF RunFold, Running
<1>2. /\ bars \in Nat /\ start \in Nat /\ crashed \in Nat /\ trades \in Nat
      /\ replayed = [b \in 1..bars |-> IF b < start THEN 1 ELSE 0]
      /\ folds \in Seq(Tearsheets \cup {TotalLoss}) /\ todo \in Seq(CampaignTypes)
      /\ (crashed > 0 => \E i \in DOMAIN folds : folds[i].drawdown = 100)
  BY DEF SurvivalInv
<1>3. FoldEnd \in Nat
  <2>1. FoldCount \in Nat \ {0}
    <3>1. bars \div 2 \in Nat /\ (bars >= 4 => bars \div 2 >= 1)
      BY <1>2
    <3> QED
      BY <1>2, <3>1 DEF FoldCount
  <2>2. FoldSize \in Int
    BY <1>2, <2>1 DEF FoldSize
  <2>3. FoldEnd \in Int
    BY <1>2, <2>2 DEF FoldEnd
  <2> QED
    BY <1>1, <1>2, <2>3
<1>4. start' \in Nat /\ replayed' = [b \in 1..bars |-> IF b < start' THEN 1 ELSE 0]
  <2> DEFINE last == FoldEnd
  <2>1. last \in Nat /\ last > start /\ start' = last + 1
    BY <1>1, <1>3
  <2> HIDE DEF last
  <2>2. ASSUME NEW b \in 1..bars
        PROVE  (replayed[b] + IF b \in start..last THEN 1 ELSE 0) = IF b < start' THEN 1 ELSE 0
    <3>1. b \in Nat /\ replayed[b] = IF b < start THEN 1 ELSE 0
      BY <1>2
    <3> QED
      BY <1>2, <2>1, <3>1
  <2>3. replayed' = [b \in 1..bars |-> replayed[b] + IF b \in start..last THEN 1 ELSE 0]
    BY <1>1 DEF last
  <2> QED
    BY <2>1, <2>2, <2>3
<1>5. crashed' \in Nat /\ folds' \in Seq(Tearsheets \cup {TotalLoss})
  <2>1. crashed' \in Nat
    BY <1>1, <1>2
  <2>2. PICK t \in Tearsheets \cup {TotalLoss} : folds' = Append(folds, t)
    BY <1>1
  <2>3. Append(folds, t) \in Seq(Tearsheets \cup {TotalLoss})
    BY <1>2
  <2> QED
    BY <2>1, <2>2, <2>3
<1>6. crashed' > 0 => \E i \in DOMAIN folds' : folds'[i].drawdown = 100
  <2>1. CASE \E t \in Tearsheets : folds' = Append(folds, t) /\ UNCHANGED crashed
    <3>1. PICK t : folds' = Append(folds, t)
      BY <2>1
    <3>2. \A i \in DOMAIN folds : i \in DOMAIN folds' /\ folds'[i] = folds[i]
      BY <1>2, <3>1
    <3> QED
      BY <1>2, <2>1, <3>2
  <2>2. CASE folds' = Append(folds, TotalLoss)
    <3>1. Len(folds) + 1 \in DOMAIN folds' /\ folds'[Len(folds) + 1] = TotalLoss
      BY <1>2, <2>2
    <3> QED
      BY <3>1 DEF TotalLoss
  <2> QED
    BY <1>1, <2>1, <2>2
<1>7. \A v \in results : v.campaign # "walk_forward"
  <2>1. 1 \in DOMAIN todo /\ Head(todo) = todo[1]
    BY <1>1, <1>2
  <2> QED
    BY <1>1, <2>1 DEF SurvivalInv
<1>8. \A v \in results' : SoundVerdict(v)'
  BY <1>1, <1>7 DEF SoundVerdict, SurvivalInv
<1>9. Recorded = {} /\ Recorded' = {}
  BY <1>1 DEF SurvivalInv, Recorded
<1>10. ApprovedSurvived'
  BY <1>9 DEF ApprovedSurvived
<1> QED
  BY <1>1, <1>2, <1>4, <1>5, <1>6, <1>8, <1>9, <1>10 DEF SurvivalInv

\* The verdicts of the other campaigns; what they do not report is out of the score.
LEMMA VerdictFact ==
    ASSUME SurvivalInv, NEW c, NEW passed, NEW net, NEW drawdown, NEW ruin,
           drawdown \in Nat \cup {NoDrawdown},
           c = "walk_forward" /\ passed => start > bars /\ (crashed > 0 => drawdown >= 100),
           c = "monte_carlo" => ruin \in 0..100 /\ (ruin < 100 => trades' >= MinTrades),
           UNCHANGED <<bars, start, crashed>>, c = Head(todo),
           NEW set, set = {Verdict(c, passed, net, drawdown, ruin)}
    PROVE  /\ IsFiniteSet(set) /\ \A v, w \in set : v = w
           /\ \A v \in set : v.campaign = Head(todo) /\ SoundVerdict(v)'
<1> DEFINE v == Verdict(c, passed, net, drawdown, ruin)
<1>1. /\ v.campaign = c /\ v.passed = passed /\ v.drawdown = drawdown /\ v.ruin = ruin
  BY DEF Verdict
<1>2. IsFiniteSet({v})
  BY FS_Singleton
<1> HIDE DEF v
<1>3. SoundVerdict(v)'
  BY <1>1 DEF SoundVerdict, NoDrawdown, MinTrades
<1> QED
  BY <1>1, <1>2, <1>3 DEF v

\* A campaign that is not measured again keeps what was resampled.
LEMMA CampaignStep ==
    ASSUME SurvivalInv, WalkForward \/ HoldOut \/ MonteCarlo \/ Benchmark \/ MultiCampaign
    PROVE  SurvivalInv'
<1>1. /\ todo # <<>> /\ start \in Nat /\ trades \in Nat /\ crashed \in Nat
      /\ UNCHANGED <<files, bars, start, folds, crashed, replayed>>
  BY DEF SurvivalInv, WalkForward, HoldOut, MonteCarlo, Benchmark, MultiCampaign, Running
<1>2. ASSUME NEW passed, NEW net, NEW drawdown, NEW ruin, drawdown \in Nat \cup {NoDrawdown},
             Head(todo) = "walk_forward" /\ passed => start > bars /\ (crashed > 0 => drawdown >= 100),
             Head(todo) = "monte_carlo" => ruin \in 0..100 /\ (ruin < 100 => trades' >= MinTrades),
             Head(todo) # "monte_carlo" => trades' = trades, trades' \in Nat,
             Conclude({Verdict(Head(todo), passed, net, drawdown, ruin)})
      PROVE  SurvivalInv'
  <2>0. PICK c, set : c = Head(todo) /\ set = {Verdict(c, passed, net, drawdown, ruin)}
    OBVIOUS
  <2>1. /\ IsFiniteSet(set) /\ \A v, w \in set : v = w
        /\ \A v \in set : v.campaign = Head(todo) /\ SoundVerdict(v)'
    <3>1. UNCHANGED <<bars, start, crashed>>
      BY <1>1
    <3>2. /\ c = "walk_forward" /\ passed => start > bars /\ (crashed > 0 => drawdown >= 100)
          /\ c = "monte_carlo" => ruin \in 0..100 /\ (ruin < 100 => trades' >= MinTrades)
          /\ drawdown \in Nat \cup {NoDrawdown}
      BY <1>2, <2>0
    <3> QED
      BY <2>0, <3>1, <3>2, VerdictFact
  <2>2. Conclude(set)
    BY <1>2, <2>0
  <2> QED
    BY <1>1, <1>2, <2>1, <2>2, ConcludeFact
<1>3. ASSUME Conclude({}), trades' = trades PROVE SurvivalInv'
  <2>1. IsFiniteSet({})
    BY FS_EmptySet
  <2> QED
    BY <1>1, <1>3, <2>1, ConcludeFact
<1>4. NoDrawdown \in Nat \cup {NoDrawdown}
  OBVIOUS
<1>5. CASE WalkForward
  <2>1. Head(todo) = "walk_forward" /\ trades' = trades
    BY <1>5 DEF WalkForward, Running
  <2>2. CASE start > bars /\ folds # <<>>
             /\ Conclude({Verdict("walk_forward", FoldsPass, Compounded, WorstDrawdown, NoRuin)})
    <3>1. WorstDrawdown \in Nat /\ (crashed > 0 => WorstDrawdown >= 100)
      BY <2>2, WorstFact
    <3> QED
      BY <1>1, <1>2, <2>1, <2>2, <3>1
  <2>3. CASE Conclude({Verdict("walk_forward", FALSE, -100, 100, NoRuin)})
    <3>1. 100 \in Nat \cup {NoDrawdown}
      OBVIOUS
    <3> QED
      BY <1>1, <1>2, <2>1, <2>3, <3>1
  <2> QED
    BY <1>5, <2>2, <2>3 DEF WalkForward
<1>6. CASE HoldOut
  <2>1. Head(todo) = "hold_out" /\ trades' = trades
    BY <1>6 DEF HoldOut, Running
  <2>2. ASSUME NEW t \in Tearsheets,
               Conclude({Verdict("hold_out", t.sharpe >= 50 /\ t.drawdown <= 30,
                                 t.net, t.drawdown, NoRuin)})
        PROVE  SurvivalInv'
    <3>1. t.drawdown \in Nat \cup {NoDrawdown}
      BY CampaignsAssumption
    <3> DEFINE passed == t.sharpe >= 50 /\ t.drawdown <= 30
    <3>2. Conclude({Verdict(Head(todo), passed, t.net, t.drawdown, NoRuin)})
      BY <2>1, <2>2
    <3> HIDE DEF passed
    <3> QED
      BY <1>1, <1>2, <2>1, <3>1, <3>2
  <2>3. CASE Conclude({Verdict("hold_out", FALSE, -100, 100, NoRuin)})
    <3>1. 100 \in Nat \cup {NoDrawdown}
      OBVIOUS
    <3> QED
      BY <1>1, <1>2, <2>1, <2>3, <3>1
  <2>4. CASE Conclude({})
    BY <1>3, <2>1, <2>4
  <2> QED
    BY <1>6, <2>2, <2>3, <2>4 DEF HoldOut
<1>7. CASE MonteCarlo
  <2>1. Head(todo) = "monte_carlo"
    BY <1>7 DEF MonteCarlo, Running
  <2>2. ASSUME NEW n \in TradeCounts, trades' = n, NEW passed, NEW ruin \in 0..100,
               ruin < 100 => n >= MinTrades,
               Conclude({Verdict("monte_carlo", passed, NoNet, NoDrawdown, ruin)})
        PROVE  SurvivalInv'
    <3>1. n \in Nat
      BY CampaignsAssumption
    <3> QED
      BY <1>1, <1>2, <1>4, <2>1, <2>2, <3>1
  <2>3. ASSUME NEW n \in TradeCounts, trades' = n,
               IF n < MinTrades
               THEN Conclude({Verdict("monte_carlo", FALSE, NoNet, NoDrawdown, 100)})
               ELSE \E ruin \in RuinPcts, gains \in BOOLEAN :
                       Conclude({Verdict("monte_carlo", ruin < 5 /\ gains, NoNet, NoDrawdown, ruin)})
        PROVE  SurvivalInv'
    <3>1. n \in Nat /\ MinTrades \in Nat
      BY CampaignsAssumption DEF MinTrades
    <3>2. CASE n < MinTrades
      <4>1. 100 \in 0..100 /\ ~(100 < 100)
        OBVIOUS
      <4> QED
        BY <2>2, <2>3, <3>2, <4>1
    <3>3. CASE ~(n < MinTrades)
      <4>1. PICK ruin \in RuinPcts, gains \in BOOLEAN :
               Conclude({Verdict("monte_carlo", ruin < 5 /\ gains, NoNet, NoDrawdown, ruin)})
        BY <2>3, <3>3
      <4>2. ruin \in 0..100 /\ n >= MinTrades
        BY <3>1, <3>3, CampaignsAssumption
      <4> DEFINE passed == ruin < 5 /\ gains
      <4>3. Conclude({Verdict("monte_carlo", passed, NoNet, NoDrawdown, ruin)})
        BY <4>1
      <4> HIDE DEF passed
      <4> QED
        BY <2>2, <2>3, <4>2, <4>3
    <3> QED
      BY <3>2, <3>3
  <2>4. CASE Conclude({Verdict("monte_carlo", FALSE, NoNet, NoDrawdown, 100)}) /\ UNCHANGED trades
    <3>1. 100 \in 0..100 /\ ~(100 < 100)
      OBVIOUS
    <3> QED
      BY <1>1, <1>2, <1>4, <2>1, <2>4, <3>1
  <2>5. CASE Conclude({}) /\ UNCHANGED trades
    BY <1>3, <2>5
  <2> QED
    BY <1>7, <2>3, <2>4, <2>5 DEF MonteCarlo
<1>8. CASE Benchmark
  <2>1. Head(todo) = "benchmark" /\ trades' = trades
    BY <1>8 DEF Benchmark, Running
  <2>2. PICK passed, net : Conclude({Verdict("benchmark", passed, net, NoDrawdown, NoRuin)})
    BY <1>8 DEF Benchmark
  <2> QED
    BY <1>1, <1>2, <1>4, <2>1, <2>2
<1>9. CASE MultiCampaign
  <2>1. Head(todo) \notin {"walk_forward", "monte_carlo"} /\ trades' = trades
    BY <1>9 DEF MultiCampaign
  <2>2. PICK passed : Conclude({Verdict(Head(todo), passed, NoNet, NoDrawdown, NoRuin)})
    BY <1>9 DEF MultiCampaign
  <2> QED
    BY <1>1, <1>2, <1>4, <2>1, <2>2
<1> QED
  BY <1>5, <1>6, <1>7, <1>8, <1>9

\* The score of what was measured: an approved report has a whole walk-forward in which
\* no fold raised, and a ruin that was resampled.
LEMMA ReportApproved ==
    ASSUME SurvivalInv, IsApproved(Report)
    PROVE  /\ crashed = 0 /\ \A b \in 1..bars : replayed[b] = 1
           /\ "monte_carlo" \in Report.ran => trades >= MinTrades
<1>1. Report.economic # NotMeasured /\ Report.economic = Economic
      /\ Report.drawdown = DrawdownFactor /\ Report.ruin = RuinFactor
      /\ Report.passed = {v.campaign : v \in {w \in results : w.passed}} \cap Campaigns
      /\ Report.ran = {v.campaign : v \in results} \cap Campaigns
  BY DEF IsApproved, Report
<1>2. Economic \in 0..100
  <2>1. PICK net : Economic = NotMeasured \/ Economic = EconomicTerm(net)
    BY Zenon DEF Economic
  <2> DEFINE P == {0} \cup {points \in DOMAIN TermFrom : TermFrom[points] <= net}
  <2>2. P \in SUBSET (0..100) /\ P # {}
    BY CampaignsAssumption
  <2>3. IsFiniteSet(0..100) /\ 0..100 \in SUBSET Int
    <3>1. 0 \in Int /\ 100 \in Int /\ 0..100 \in SUBSET Int
      OBVIOUS
    <3>2. IsFiniteSet(0..100)
      BY <3>1, FS_Interval
    <3> QED
      BY <3>1, <3>2
  <2>4. EconomicTerm(net) = Max(P)
    BY DEF EconomicTerm
  <2> HIDE DEF P
  <2>5. Max(P) \in P
    BY <2>2, <2>3, MaxIsElement
  <2> QED
    BY <1>1, <2>1, <2>2, <2>4, <2>5
<1>3. DrawdownFactor \in 0..100 /\ \A v \in results : v.drawdown >= 100 => DrawdownFactor = 0
  <2> DEFINE D == {v.drawdown : v \in results} \ {NoDrawdown}
  <2>1. \A v \in results : v.drawdown \in Nat \cup {NoDrawdown}
    BY DEF SurvivalInv, SoundVerdict
  <2>2. D \in SUBSET Nat /\ IsFiniteSet(D)
    <3> DEFINE f == [v \in results |-> v.drawdown]
               E == {f[v] : v \in results}
    <3>1. D = E \ {NoDrawdown}
      OBVIOUS
    <3>2. IsFiniteSet(E)
      <4> HIDE DEF f
      <4> QED
        BY FiniteImage DEF SurvivalInv
    <3>3. IsFiniteSet(D)
      <4> HIDE DEF E, D
      <4> QED
        BY <3>1, <3>2, FS_Subset
    <3> QED
      BY <2>1, <3>3
  <2>3. \A v \in results : v.drawdown >= 100 => v.drawdown \in D
    BY <2>1 DEF NoDrawdown
  <2> DEFINE worst == CHOOSE d \in D : \A e \in D : e <= d
  <2>4. DrawdownFactor = IF D = {} THEN 100
                         ELSE IF worst >= 30 THEN 0 ELSE 100 - (100 * worst) \div 30
    BY DEF DrawdownFactor, MaxToleratedDrawdown
  <2>5. CASE D = {}
    BY <2>3, <2>4, <2>5
  <2>6. CASE D # {}
    <3>1. \E d \in D : \A e \in D : e <= d
      <4>1. D \in SUBSET Int
        BY <2>2
      <4> HIDE DEF D
      <4>2. Max(D) \in D /\ \A e \in D : Max(D) >= e
        BY <2>2, <2>6, <4>1, MaxIsElement
      <4> QED
        BY <4>1, <4>2
    <3>2. worst \in D /\ \A e \in D : e <= worst
      <4> HIDE DEF D
      <4> QED
        BY <3>1
    <3>3. worst \in Nat
      BY <2>2, <3>2
    <3>4. \A v \in results : v.drawdown >= 100 => worst >= 100
      <4> SUFFICES ASSUME NEW v \in results, v.drawdown >= 100 PROVE worst >= 100
        OBVIOUS
      <4> HIDE DEF worst, D
      <4>1. v.drawdown \in D /\ v.drawdown <= worst
        BY <2>3, <3>2
      <4>2. v.drawdown \in Nat
        BY <2>2, <4>1
      <4> QED
        BY <3>3, <4>1, <4>2
    <3> HIDE DEF worst, D
    <3>5. worst < 30 => 100 - (100 * worst) \div 30 \in 0..100
      BY <3>3
    <3> QED
      BY <2>4, <2>6, <3>3, <3>4, <3>5
  <2> QED
    BY <2>5, <2>6
<1>4. /\ RuinFactor \in 0..100
      /\ (RuinFactor # 0 => \A v \in results : v.campaign = "monte_carlo" => v.ruin < 100)
  <2> DEFINE v0 == CHOOSE v \in Of("monte_carlo") : TRUE
  <2>1. \A v \in Of("monte_carlo") : v \in results /\ v.ruin \in 0..100 /\ v.ruin # NoRuin
    <3>1. \A v \in Of("monte_carlo") : v \in results /\ v.campaign = "monte_carlo"
      BY DEF Of
    <3>2. \A v \in Of("monte_carlo") : v.ruin \in 0..100
      BY <3>1 DEF SurvivalInv, SoundVerdict
    <3>3. \A n \in 0..100 : n # NoRuin
      BY DEF NoRuin
    <3> QED
      BY <3>1, <3>2, <3>3
  <2>2. \A v \in results : v.campaign = "monte_carlo" => v \in Of("monte_carlo") /\ v = v0
    <3>1. \A v, w \in Of("monte_carlo") : v = w
      BY DEF Of, SurvivalInv
    <3>2. \A v \in results : v.campaign = "monte_carlo" => v \in Of("monte_carlo")
      BY DEF Of
    <3> QED
      BY <3>1, <3>2
  <2>3. CASE Of("monte_carlo") = {}
    <3>1. RuinFactor = 100
      BY <2>3 DEF RuinFactor
    <3> QED
      BY <2>2, <2>3, <3>1
  <2>4. CASE Of("monte_carlo") # {}
    <3>1. v0 \in Of("monte_carlo")
      BY <2>4
    <3>2. RuinFactor = 100 - v0.ruin
      BY <2>1, <2>4 DEF RuinFactor
    <3> HIDE DEF v0
    <3>3. v0.ruin \in 0..100
      BY <2>1, <3>1
    <3> QED
      BY <2>2, <3>2, <3>3
  <2> QED
    BY <2>3, <2>4
<1>5. Earned(Report) > 4 /\ DrawdownFactor # 0 /\ RuinFactor # 0
  <2>1. Earned(Report) \in Nat /\ Earned(Report) <= 6
    BY SMT DEF Earned
  <2>2. ThreeQuarters(Economic, DrawdownFactor, RuinFactor, Earned(Report))
    BY <1>1, SMT DEF ThreeQuarters, IsApproved, ThresholdPct
  <2> QED
    <3>1. /\ Economic \in Percentages /\ DrawdownFactor \in Percentages
          /\ RuinFactor \in Percentages /\ Earned(Report) \in Sixths
      BY <1>2, <1>3, <1>4, <2>1, SMT DEF Percentages, Sixths
    <3> QED
      BY ONLY <2>2, <3>1, PercentagesProduct, Zenon
<1>6. "walk_forward" \in Report.passed
  BY <1>5, SMT DEF Earned
<1>7. PICK w \in results : w.campaign = "walk_forward" /\ w.passed
  BY <1>1, <1>6
<1>8. start > bars /\ (crashed > 0 => w.drawdown >= 100)
  BY <1>7 DEF SurvivalInv, SoundVerdict
<1>9. crashed = 0
  BY <1>3, <1>5, <1>8 DEF SurvivalInv
<1>10. \A b \in 1..bars : replayed[b] = 1
  BY <1>8 DEF SurvivalInv
<1>11. ASSUME "monte_carlo" \in Report.ran PROVE trades >= MinTrades
  <2>1. PICK v \in results : v.campaign = "monte_carlo"
    BY <1>1, <1>11
  <2> QED
    BY <1>4, <1>5, <2>1 DEF SurvivalInv, SoundVerdict
<1> QED
  BY <1>9, <1>10, <1>11

LEMMA ScoreStep == ASSUME SurvivalInv, ScoreAndSave PROVE SurvivalInv'
<1>1. /\ todo = <<>> /\ UNCHANGED <<todo, bars, start, folds, results, crashed, replayed, trades>>
      /\ Save(Fresh("COMPLETED", Report)) \/ Save(Fresh("FAILED", NoResult))
  BY DEF ScoreAndSave
<1>2. PICK record : Save(record) /\ record \in {Fresh("COMPLETED", Report), Fresh("FAILED", NoResult)}
  BY <1>1
<1>3. \A i \in Recorded' : files'[i] = record \/ (i \in Recorded /\ files'[i] = files[i])
  <2> DEFINE n == Cardinality(Recorded) + 1
  <2>1. files' = [i \in Recorded \cup {n} |-> IF i = n THEN record ELSE files[i]]
    BY <1>2 DEF Save
  <2> HIDE DEF n
  <2> QED
    BY <2>1 DEF Recorded
<1>4. Approved(record) => /\ crashed = 0 /\ \A b \in 1..bars : replayed[b] = 1
                          /\ "monte_carlo" \in record.result.ran => trades >= MinTrades
  <2>1. CASE record = Fresh("COMPLETED", Report)
    <3>1. record.result = Report
      BY <2>1 DEF Fresh
    <3> QED
      BY <3>1, ReportApproved DEF Approved
  <2>2. CASE record = Fresh("FAILED", NoResult)
    <3>1. record.status = "FAILED"
      BY <2>2 DEF Fresh
    <3> QED
      BY <3>1 DEF Approved
  <2> QED
    BY <1>2, <2>1, <2>2
<1>5. ApprovedSurvived'
  <2> SUFFICES ASSUME NEW i \in Recorded', Approved(files'[i])
               PROVE  /\ crashed' = 0 /\ \A b \in 1..bars' : replayed'[b] = 1
                      /\ "monte_carlo" \in files'[i].result.ran => trades' >= MinTrades
    BY DEF ApprovedSurvived, Approved, IsApproved, Earned, MinTrades
  <2>1. CASE files'[i] = record
    BY <1>1, <1>4, <2>1
  <2>2. CASE i \in Recorded /\ files'[i] = files[i]
    BY <1>1, <2>2 DEF SurvivalInv, ApprovedSurvived
  <2> QED
    BY <1>3, <2>1, <2>2
<1>6. \A v \in results' : SoundVerdict(v)'
  BY <1>1 DEF SurvivalInv, SoundVerdict
<1> QED
  BY <1>1, <1>5, <1>6 DEF SurvivalInv

\* For any history, tearsheets, trades and order of the campaigns: an approved strategy
\* was replayed on every bar, raised on none of its folds, and had the trades its ruin
\* was resampled from (ValidationRunner.run_validation, ScoringEngine.calculate_score).
THEOREM ApprovedAlwaysSurvived == CampaignsSpec => []ApprovedSurvived
<1>1. SurvivalInv /\ [CampaignsNext]_campaignVars => SurvivalInv'
  <2> SUFFICES ASSUME SurvivalInv, [CampaignsNext]_campaignVars PROVE SurvivalInv'
    OBVIOUS
  <2>1. CASE UNCHANGED campaignVars
    BY <2>1 DEF campaignVars, SurvivalInv, SoundVerdict, ApprovedSurvived, Recorded
  <2>2. CASE CampaignsNext
    BY <2>2, RunFoldStep, CampaignStep, ScoreStep DEF CampaignsNext
  <2> QED
    BY <2>1, <2>2
<1>2. SurvivalInv => ApprovedSurvived
  BY DEF SurvivalInv
<1> QED
  BY <1>1, <1>2, SurvivalInvInit, PTL DEF CampaignsSpec

\* What holds of each research program holds of all of them interleaved
\* (MCWorkbench checks this specification).
THEOREM WorkbenchSafe ==
  Spec => [](/\ UnclosedIsLastAndSaid
             /\ InferredIsTheTruth
             /\ GateAgreesWithBroker
             /\ ViableCostIsTheLimit
             /\ PeriodsAreTheRuns
             /\ OnlyTheHeadLooksAhead
             /\ ReportedIsControlled
             /\ LoadedWasJudgedApart
             /\ SignalsFollowTrend
             /\ ApprovedSurvived
             /\ VerdictsSpendRowsOnce
             /\ DecompositionIsTheAccount)
  BY EachProgramIsKept, UnclosedAlwaysLastAndSaid, InferredIsAlwaysTheTruth,
     GateAlwaysAgreesWithBroker, ViableCostAlwaysTheLimit, PeriodsAlwaysTheRuns,
     OnlyTheHeadLooksAheadAlways, ReportedAlwaysControlled, LoadedAlwaysJudgedApart,
     SignalsAlwaysFollowTrend, ApprovedAlwaysSurvived, VerdictsAlwaysSpendRowsOnce,
     DecompositionAlwaysTheAccount, PTL
=============================================================================
