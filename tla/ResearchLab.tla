----------------------------- MODULE ResearchLab -----------------------------
(***************************************************************************)
(* From a validation run to a promoted experiment: the campaigns of        *)
(* ValidationRunner, the multiplicative score of ScoringEngine, the        *)
(* experiment ExperimentRunner records, the files of ExperimentRegistryV2  *)
(* and the promotions of ExperimentManager, with a process that may die    *)
(* while it rewrites a file.                                               *)
(*                                                                         *)
(* Factors of the score are whole percentages; what a campaign measures is *)
(* the economic term it would give.                                        *)
(***************************************************************************)
EXTENDS Integers, FiniteSets

CONSTANTS EconomicTerms,    \* the values of _economic_term, 0..100
          Factors,          \* the values of the drawdown and ruin factors, percent
          MaxExperiments,   \* bound
          NotMeasured       \* no net return

ASSUME ScoreAssumption ==
    /\ EconomicTerms \subseteq 0..100 /\ Factors \subseteq 0..100
    /\ 100 \in Factors   \* without a drawdown, without a measured ruin
    /\ NotMeasured \notin Int

VARIABLES files   \* the registry: the record of each experiment

Campaigns == {"hold_out", "walk_forward", "monte_carlo", "benchmark"}
OutOfSample == {"hold_out", "walk_forward"}
ThresholdPct == 75

Stages == {"RESEARCH", "VALIDATED", "CANDIDATE", "APPROVED", "PAPER_TRADING"}
Guarded == {"CANDIDATE", "APPROVED", "PAPER_TRADING"}

\* What calculate_score reads of the campaigns that ran: which of them passed,
\* the economic term of those that measured a net return, the worst drawdown and
\* the ruin probability, as factors.
Results == [ran : SUBSET Campaigns, passed : SUBSET Campaigns,
            economic : EconomicTerms \cup {NotMeasured}, drawdown : Factors, ruin : Factors]

\* A campaign that raises is missing from the results.  Monte-Carlo measures no
\* net return and is alone to measure ruin; without it ruin costs nothing.
Possible(r) ==
    /\ r.passed \subseteq r.ran
    /\ r.economic # NotMeasured => r.ran \ {"monte_carlo"} # {}
    /\ "monte_carlo" \notin r.ran => r.ruin = 100
    /\ r.ran = {} => r.drawdown = 100
-----------------------------------------------------------------------------
\* Slip: a campaign that did not run is not held against the strategy.
EarnedUnlessAbsent(r) ==
    (IF "hold_out" \in r.passed \/ "hold_out" \notin r.ran THEN 2 ELSE 0)
      + (IF "walk_forward" \in r.passed \/ "walk_forward" \notin r.ran THEN 2 ELSE 0)
      + (IF "monte_carlo" \in r.passed THEN 1 ELSE 0) + (IF "benchmark" \in r.passed THEN 1 ELSE 0)

\* _robustness_factor, in sixths: a campaign that did not run earns nothing.
Earned(r) ==
    (IF "hold_out" \in r.passed THEN 2 ELSE 0) + (IF "walk_forward" \in r.passed THEN 2 ELSE 0)
      + (IF "monte_carlo" \in r.passed THEN 1 ELSE 0) + (IF "benchmark" \in r.passed THEN 1 ELSE 0)

\* calculate_score >= 75, cleared of fractions; without a net return the score is 0.
IsApproved(r) ==
    /\ r.economic # NotMeasured
    /\ r.economic * r.drawdown * r.ruin * Earned(r) >= ThresholdPct * 6 * 100 * 100

Approved(x) == x.status = "COMPLETED" /\ IsApproved(x.result)

NoResult == [ran |-> {}, passed |-> {}, economic |-> NotMeasured, drawdown |-> 100, ruin |-> 100]

Fresh(status, r) == [status |-> status, result |-> r, stage |-> "RESEARCH"]

\* A file the process died in: it no longer parses, load_experiment passes over it.
Torn == Fresh("TORN", NoResult)

LabInit == files = [i \in {} |-> Torn]
-----------------------------------------------------------------------------
Recorded == DOMAIN files

Save(record) ==
    LET n == Cardinality(Recorded) + 1 IN
    /\ n <= MaxExperiments
    /\ files' = [i \in Recorded \cup {n} |-> IF i = n THEN record ELSE files[i]]

\* create_experiment; its record is never completed, a run makes one of its own.
CreateExperiment == Save(Fresh("CREATED", NoResult))

\* run_experiment: the validation runs to its end, or something raises; either
\* is saved, and the process may die meanwhile.
RunExperiment ==
    \/ \E r \in Results : Possible(r) /\ Save(Fresh("COMPLETED", r))
    \/ Save(Fresh("FAILED", NoResult))
    \/ Save(Torn)

\* Slip: only the step to CANDIDATE is guarded.
PromoteExperimentLater(i, stage) ==
    /\ i \in Recorded /\ files[i].status # "TORN"
    /\ stage = "CANDIDATE" => Approved(files[i])
    /\ \/ files' = [files EXCEPT ![i].stage = stage]
       \/ files' = [files EXCEPT ![i] = Torn]

\* promote_experiment: the record is loaded from a file that parses; a stage of
\* value needs an approved report.  The record is rewritten in place, by a second
\* loop over the files in any order; when it meets one that does not parse first,
\* it raises and nothing is promoted.
PromoteExperiment(i, stage) ==
    /\ i \in Recorded /\ files[i].status # "TORN"
    /\ stage \in Guarded => Approved(files[i])
    /\ \/ files' = [files EXCEPT ![i].stage = stage]
       \/ files' = [files EXCEPT ![i] = Torn]

LabNext ==
    \/ CreateExperiment \/ RunExperiment
    \/ \E i \in Recorded, stage \in Stages : PromoteExperiment(i, stage)

LabSpec == LabInit /\ [][LabNext]_files
-----------------------------------------------------------------------------
Record == [status : {"CREATED", "COMPLETED", "FAILED", "TORN"}, result : Results, stage : Stages]

\* The registry maps the experiments made so far to records.
LabTypeOK == \E n \in 0..MaxExperiments : files \in [1..n -> Record]

\* The score is a product, so that no factor makes up for another, and a campaign
\* that did not run counts as failed: an experiment that went beyond validation
\* measured a net return and passed both out-of-sample campaigns.
PromotedPassedOutOfSample ==
    \A i \in Recorded :
      files[i].stage \in Guarded =>
        OutOfSample \subseteq files[i].result.passed /\ files[i].result.economic # NotMeasured
=============================================================================
