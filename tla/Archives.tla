------------------------------ MODULE Archives ------------------------------
(***************************************************************************)
(* Two stores of several files each, written in order with no transaction, *)
(* by a process that may die between two writes or within one:             *)
(*   - StorageDatasetRepository: a manifest and a data file per dataset    *)
(*     hash, over LocalFileSystemStorage, which writes in place;           *)
(*   - PolicyCheckpointStore: a model file per policy, copied in place,    *)
(*     and the pointer active_policy.json, replaced atomically.            *)
(***************************************************************************)
CONSTANTS Datasets,  \* dataset hashes
          Models,    \* model ids: uuids, each trained once
          NoOne      \* nothing in progress, no active policy

ASSUME NoOneAssumption == NoOne \notin Datasets \cup Models

VARIABLES manifest, data,   \* the files of each dataset
          saving,           \* the dataset whose manifest save() has written
          zip,              \* the model file of each policy
          known,            \* model ids train_policy has returned
          active            \* the model id in active_policy.json

archiveVars == <<manifest, data, saving, zip, known, active>>

Files == {"absent", "torn", "whole"}

ArchiveInit ==
    /\ manifest = [h \in Datasets |-> "absent"] /\ data = [h \in Datasets |-> "absent"]
    /\ saving = NoOne
    /\ zip = [m \in Models |-> "absent"] /\ known = {} /\ active = NoOne
-----------------------------------------------------------------------------
\* Slip: a dataset that has a manifest is written again whatever its data.
SaveManifestAgain(h, end) ==
    /\ saving = NoOne
    /\ manifest' = [manifest EXCEPT ![h] = end]
    /\ saving' = IF end = "whole" THEN h ELSE NoOne
    /\ UNCHANGED <<data, zip, known, active>>

\* save() up to its first write: nothing to do when the data file exists, else
\* the manifest is written.  "torn": the process dies within the write.
SaveManifest(h, end) ==
    /\ saving = NoOne /\ data[h] = "absent"
    /\ manifest' = [manifest EXCEPT ![h] = end]
    /\ saving' = IF end = "whole" THEN h ELSE NoOne
    /\ UNCHANGED <<data, zip, known, active>>

SaveData(end) ==
    /\ saving # NoOne
    /\ data' = [data EXCEPT ![saving] = end]
    /\ saving' = NoOne
    /\ UNCHANGED <<manifest, zip, known, active>>

\* find_datasets: the directories that hold both files; each manifest is parsed.
Listed == {h \in Datasets : data[h] # "absent" /\ manifest[h] # "absent"}
-----------------------------------------------------------------------------
\* Slip: the id is handed out before the copy is complete.
TrainEarly(m, end) ==
    /\ m \notin known /\ zip[m] = "absent"
    /\ zip' = [zip EXCEPT ![m] = end]
    /\ known' = known \cup {m}
    /\ UNCHANGED <<manifest, data, saving, active>>

\* train_policy: the model is saved under a fresh id, copied into the store, and
\* the id returned.
Train(m, end) ==
    /\ m \notin known /\ zip[m] = "absent"
    /\ zip' = [zip EXCEPT ![m] = end]
    /\ known' = IF end = "whole" THEN known \cup {m} ELSE {}
    /\ UNCHANGED <<manifest, data, saving, active>>

\* evaluate, whose figures are constants that always pass, and promote_to_active:
\* the pointer is renamed into place, dying before leaves the old one.
Promote(m) ==
    /\ m \in known
    /\ active' = m
    /\ UNCHANGED <<manifest, data, saving, zip, known>>

\* The process that writes datasets, or the one that trains, dies between two
\* writes.  Nobody remembers the model ids it had but the pointer.
ArchiveCrash ==
    /\ \/ saving # NoOne /\ saving' = NoOne /\ UNCHANGED known
       \/ known # {} /\ known' = {} /\ UNCHANGED saving
    /\ UNCHANGED <<manifest, data, zip, active>>

ArchiveNext ==
    \/ \E h \in Datasets, end \in {"torn", "whole"} : SaveManifest(h, end)
    \/ \E end \in {"torn", "whole"} : SaveData(end)
    \/ \E m \in Models, end \in {"torn", "whole"} : Train(m, end)
    \/ \E m \in Models : Promote(m)
    \/ ArchiveCrash

ArchiveSpec == ArchiveInit /\ [][ArchiveNext]_archiveVars
-----------------------------------------------------------------------------
\* Files are absent, torn or whole; what is in progress or active has a name.
ArchiveTypeOK ==
    /\ manifest \in [Datasets -> Files] /\ data \in [Datasets -> Files]
    /\ saving \in Datasets \cup {NoOne}
    /\ zip \in [Models -> Files]
    /\ known \subseteq Models
    /\ active \in Models \cup {NoOne}

\* The manifest is written before the data and never after it: wherever the
\* process dies, a dataset that has a data file has a manifest that parses, so
\* that find_datasets neither hides a dataset save() refuses to write again nor
\* stops on one.
DataHasItsManifest == \A h \in Datasets : data[h] # "absent" => manifest[h] = "whole"

\* A model is complete before its id is known, and the pointer changes in one
\* step: the active policy loads, wherever the process dies.
ActivePolicyLoads == active # NoOne => zip[active] = "whole"
=============================================================================
