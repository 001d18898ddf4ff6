-------------------------- MODULE ExperienceMemory --------------------------
(***************************************************************************)
(* A closed trade becomes an experience: ReflectionPipeline on the event   *)
(* bus, MemoryManager, and FaissVectorStore, which keeps a vector index    *)
(* and a table of experiences in memory and writes each to a file of its   *)
(* own after every change.  The process may die between the two writes or  *)
(* within one, and a write may raise.                                      *)
(*                                                                         *)
(* An experience stands for its own vector: what a search at its vector    *)
(* finds is what the table holds under the number of that vector.          *)
(***************************************************************************)
EXTENDS Integers, FiniteSets

CONSTANTS Instruments, Experiences,
          MaxCrashes   \* bound

VARIABLES seen,        \* instruments with a market snapshot
          observed,    \* TradeObserver: instruments with an entry snapshot
          index,       \* the vectors: pairs <<number, experience>>
          table,       \* experiences: number -> experience
          nextId,
          persisting,  \* "no", or the file _persist writes next: "index", "table"
          then,        \* what follows it: an experience to announce, or Nothing
          diskIndex, diskTable,  \* the two files
          crashes,
          \* history
          saved,       \* experiences ever built
          announced,   \* ExperienceSavedEvent
          dropped,     \* experiences deleted or archived
          unsaved,     \* experiences built since the last _persist that ended
          orphaned,    \* those of them that a death of the process left unsaved
          lost         \* experiences announced before a restart that could not read a file

memoryVars == <<seen, observed, index, table, nextId, persisting, then, diskIndex, diskTable,
                crashes, saved, announced, dropped, unsaved, orphaned, lost>>

Nothing == "nothing"
ASSUME NothingAssumption == Nothing \notin Experiences

NoTable == [n \in {} |-> Nothing]

\* What faiss.write_index and pickle.dump write; a file absent or cut has no content.
IndexFile == [whole |-> TRUE, vectors |-> index]

\* Slip: the next number is taken for the number of entries.
TableFileCounted == [whole |-> TRUE, table |-> table, nextId |-> Cardinality(DOMAIN table)]

TableFile == [whole |-> TRUE, table |-> table, nextId |-> nextId]
NoIndexFile == [whole |-> FALSE, vectors |-> {}]
NoTableFile == [whole |-> FALSE, table |-> NoTable, nextId |-> 0]

MemoryInit ==
    /\ seen = {} /\ observed = {}
    /\ index = {} /\ table = NoTable /\ nextId = 0
    /\ persisting = "no" /\ then = Nothing
    /\ diskIndex = NoIndexFile /\ diskTable = NoTableFile
    /\ crashes = 0
    /\ saved = {} /\ announced = {} /\ dropped = {}
    /\ unsaved = {} /\ orphaned = {} /\ lost = {}

Idle == persisting = "no"
storeVars == <<index, table, nextId, persisting, then, diskIndex, diskTable>>
historyVars == <<saved, announced, dropped, unsaved, orphaned, lost>>
-----------------------------------------------------------------------------
\* The bus delivers one event at a time; each handler runs to its end.
OnMarketEvent(s) ==
    /\ Idle /\ seen' = seen \cup {s}
    /\ UNCHANGED <<observed, storeVars, crashes, historyVars>>

\* _on_position_event, "opened": the entry snapshot is kept, when there is one.
OnPositionOpened(s) ==
    /\ Idle /\ s \in seen
    /\ observed' = observed \cup {s}
    /\ UNCHANGED <<seen, storeVars, crashes, historyVars>>

\* save(): the next number goes to the vector and the experience.
Add(x) ==
    /\ index' = index \cup {<<nextId, x>>}
    /\ table' = [n \in DOMAIN table \cup {nextId} |-> IF n = nextId THEN x ELSE table[n]]
    /\ nextId' = nextId + 1

\* _on_trade_event, "closed", with an observation: up to _persist.  Without one
\* the event is rejected and nothing changes.
OnTradeClosed(s, x) ==
    /\ Idle /\ s \in observed /\ x \notin saved
    /\ observed' = observed \ {s}
    /\ Add(x)
    /\ persisting' = "index" /\ then' = x
    /\ saved' = saved \cup {x} /\ unsaved' = unsaved \cup {x}
    /\ UNCHANGED <<seen, diskIndex, diskTable, crashes, announced, dropped, orphaned, lost>>

\* delete(), and archive(), which notes the id elsewhere first: up to _persist.
Delete(x) ==
    /\ Idle
    /\ \E n \in DOMAIN table :
         /\ table[n] = x
         /\ index' = {v \in index : v[1] # n}
         /\ table' = [m \in DOMAIN table \ {n} |-> table[m]]
    /\ persisting' = "index" /\ then' = Nothing
    /\ dropped' = dropped \cup {x}
    /\ UNCHANGED <<seen, observed, nextId, diskIndex, diskTable, crashes, saved, announced,
                   unsaved, orphaned, lost>>

\* _persist: the index, then the table; the caller then goes on, and announces.
PersistIndex ==
    /\ persisting = "index"
    /\ diskIndex' = IndexFile /\ persisting' = "table"
    /\ UNCHANGED <<seen, observed, index, table, nextId, then, diskTable, crashes, historyVars>>

PersistTable ==
    /\ persisting = "table"
    /\ diskTable' = TableFile
    /\ persisting' = "no" /\ then' = Nothing /\ unsaved' = {}
    /\ announced' = IF then = Nothing THEN announced ELSE announced \cup {then}
    /\ UNCHANGED <<seen, observed, index, table, nextId, diskIndex, crashes, saved, dropped,
                   orphaned, lost>>

\* A write raises, its file cut: the experience is rejected, but stays in memory.
PersistFails ==
    /\ ~Idle
    /\ IF persisting = "index"
       THEN diskIndex' = NoIndexFile /\ UNCHANGED diskTable
       ELSE diskTable' = NoTableFile /\ UNCHANGED diskIndex
    /\ persisting' = "no" /\ then' = Nothing
    /\ UNCHANGED <<seen, observed, index, table, nextId, crashes, historyVars>>

\* _load_or_create_index: both files or none.
Readable == diskIndex'.whole /\ diskTable'.whole

\* The process dies, between two writes or within one, and starts again.
MemoryCrash ==
    /\ crashes < MaxCrashes /\ crashes' = crashes + 1
    /\ seen' = {} /\ observed' = {} /\ persisting' = "no" /\ then' = Nothing
    /\ \/ UNCHANGED <<diskIndex, diskTable>>
       \/ persisting = "index" /\ diskIndex' = NoIndexFile /\ UNCHANGED diskTable
       \/ persisting = "table" /\ diskTable' = NoTableFile /\ UNCHANGED diskIndex
    /\ IF Readable
       THEN /\ index' = diskIndex'.vectors
            /\ table' = diskTable'.table /\ nextId' = diskTable'.nextId
            /\ UNCHANGED lost
       ELSE /\ index' = {} /\ table' = NoTable /\ nextId' = 0
            /\ lost' = lost \cup announced
    /\ orphaned' = orphaned \cup unsaved /\ unsaved' = {}
    /\ UNCHANGED <<saved, announced, dropped>>

MemoryNext ==
    \/ \E s \in Instruments : OnMarketEvent(s) \/ OnPositionOpened(s)
    \/ \E s \in Instruments, x \in Experiences : OnTradeClosed(s, x)
    \/ \E x \in Experiences : Delete(x)
    \/ PersistIndex \/ PersistTable \/ PersistFails \/ MemoryCrash

MemorySpec == MemoryInit /\ [][MemoryNext]_memoryVars
-----------------------------------------------------------------------------
\* What search() returns for the vector of x: the entries of its numbers.
Found(x) == {table[n] : n \in {m \in DOMAIN table : <<m, x>> \in index}}

\* Entries are numbered below the next number.
MemoryTypeOK ==
    /\ seen \subseteq Instruments /\ observed \subseteq Instruments
    /\ nextId \in Nat
    /\ index \subseteq Nat \X Experiences
    /\ DOMAIN table \subseteq 0..(nextId - 1)
    /\ \A n \in DOMAIN table : table[n] \in Experiences
    /\ persisting \in {"no", "index", "table"} /\ then \in Experiences \cup {Nothing}
    /\ announced \subseteq saved /\ dropped \subseteq saved /\ saved \subseteq Experiences
    /\ unsaved \subseteq saved /\ orphaned \subseteq saved /\ lost \subseteq announced

\* A search at the vector of an experience finds that experience and no other, unless
\* the process died before a _persist that holds the experience ended: between the
\* two writes its vector is left without an entry, and its number is given again.
SearchIsFaithful == \A x \in Experiences \ orphaned : Found(x) \subseteq {x}

\* An experience is announced once both files hold it: no restart loses one that was
\* not deleted, in the middle of the _persist of another or after one that raised,
\* unless a file was cut, which empties the memory.
AnnouncedIsRemembered == \A x \in announced \ (dropped \cup lost) : x \in Found(x)

\* What was announced is found, and nothing else in its place.
MemoryIsFaithful == SearchIsFaithful /\ AnnouncedIsRemembered
=============================================================================
