------------------------------ MODULE Services ------------------------------
(***************************************************************************)
(* The services around the trading loop, side by side: the data lake, the  *)
(* archives of datasets and policies, the research registry, the memory of *)
(* experiences, deep history and the vectorised backtester.  They share no *)
(* state, so that what all of them do is a shuffle of what each does.  One *)
(* is followed per behaviour, instead of the product of all.               *)
(***************************************************************************)
EXTENDS DataLake, Archives, ResearchLab, ExperienceMemory, HistoryPages, Backtester

VARIABLE focus   \* the service this behaviour follows

ServiceNames == {"lake", "archive", "lab", "memory", "pages", "backtest"}

vars == <<focus, lakeVars, archiveVars, files, memoryVars, pagesVars, backtestVars>>

\* A history to page through matters to its own behaviours only.
Init ==
    /\ focus \in ServiceNames
    /\ LakeInit /\ ArchiveInit /\ LabInit /\ MemoryInit /\ BacktestInit
    /\ PagesInit /\ (focus # "pages" => traded = {})

LakeStep ==
    /\ focus = "lake" /\ LakeNext
    /\ UNCHANGED <<focus, archiveVars, files, memoryVars, pagesVars, backtestVars>>

ArchiveStep ==
    /\ focus = "archive" /\ ArchiveNext
    /\ UNCHANGED <<focus, lakeVars, files, memoryVars, pagesVars, backtestVars>>

LabStep ==
    /\ focus = "lab" /\ LabNext
    /\ UNCHANGED <<focus, lakeVars, archiveVars, memoryVars, pagesVars, backtestVars>>

MemoryStep ==
    /\ focus = "memory" /\ MemoryNext
    /\ UNCHANGED <<focus, lakeVars, archiveVars, files, pagesVars, backtestVars>>

PagesStep ==
    /\ focus = "pages" /\ PagesNext
    /\ UNCHANGED <<focus, lakeVars, archiveVars, files, memoryVars, backtestVars>>

BacktestStep ==
    /\ focus = "backtest" /\ BacktestNext
    /\ UNCHANGED <<focus, lakeVars, archiveVars, files, memoryVars, pagesVars>>

Next == LakeStep \/ ArchiveStep \/ LabStep \/ MemoryStep \/ PagesStep \/ BacktestStep

Spec == Init /\ [][Next]_vars

\* Every service keeps its own type invariant.
ServicesTypeOK ==
    /\ focus \in ServiceNames
    /\ LakeTypeOK /\ ArchiveTypeOK /\ LabTypeOK /\ MemoryTypeOK /\ PagesTypeOK /\ BacktestTypeOK
=============================================================================
