------------------------------- MODULE MCStorage -------------------------------
(***************************************************************************)
(* What a program keeps: the short-term memories (extended here), the      *)
(* long-term memory, the vector store in SQLite, and the searches of the   *)
(* other stores.  choice is one of Chosen; the variables of the others     *)
(* keep their initial values, or are None.                                 *)
(***************************************************************************)
EXTENDS ShortTermMemory, Integers, TLC

CONSTANTS
  None, Chosen,
  Objects, Sessions, Msgs, BadMsgs, Backends, TornWrites, MaxMsgs, MaxClears, MaxMishaps, \* "long"
  Ids, Vals, BadVals, MaxBatch, MaxDocs, MaxFaults,            \* "sqlite"
  Caller, Again,                                                               \* "caller": its thread and id
  Adders, Embeddings, Tags, Nobody, MaxAdds, MaxDeletes                                   \* "retrieval"

\* None is no thread and no document, there are two backends, what cannot be
\* written is among what callers give, and the bounds are numbers.
ASSUME StorageAssumption ==
  /\ None \notin Threads \cup {Caller} \cup Vals \cup Msgs \cup Objects \cup Sessions
  /\ Nobody \notin Adders /\ Backends \subseteq {"json", "sqlite"}
  /\ BadVals \subseteq Vals /\ BadMsgs \subseteq Msgs
  /\ MaxBatch \in Nat /\ MaxClears \in Nat /\ MaxMishaps \in Nat /\ MaxFaults \in Nat

\* Embeddings are points on a line, and Nobody is no document.
ASSUME SearchAssumption == Embeddings \subseteq Int /\ Nobody \notin [id : Nat, emb : Embeddings, tag : Tags]

VARIABLES
  choice,     \* one of Chosen, or "short"
  backend, users, store, torn, exists, listed, session, cache, dirty,
  writer, adding, log, damaged, blind, clears, mishaps,
  docs, mu, db, disk, txn, pc, todo, owns, batch,
  added, touched, gone, failed, batches, riding, lost, unowned, skipped, stuck, faults,
  index, found, count, indexing, adds, deletes, drifted

Long == INSTANCE LongTermMemory
Sqlite == INSTANCE SqliteVectorStore WITH CallerIds <- FALSE
Own == INSTANCE SqliteVectorStore WITH CallerIds <- TRUE,
         Threads <- {Caller}, Ids <- {Again}
Searches == INSTANCE Retrieval WITH adding <- indexing

liveVars == <<backend, users, store, torn, exists, listed, session, dirty,
              writer, adding, log, damaged, blind, clears, mishaps>>
longVars == <<cache, liveVars>>
sqliteVars == <<docs, mu, db, disk, txn, pc, todo, owns, batch,
                added, touched, gone, failed, batches, riding, lost, unowned, skipped, stuck, faults>>
searchVars == <<index, found, count, indexing, adds, deletes, drifted>>

NoLong ==
  /\ backend = None /\ users = None /\ store = None /\ torn = None /\ exists = None /\ listed = None
  /\ session = None /\ cache = None /\ dirty = None /\ writer = None /\ adding = None /\ log = None
  /\ damaged = None /\ blind = None /\ clears = None /\ mishaps = None
NoSqlite ==
  /\ docs = None /\ mu = None /\ db = None /\ disk = None /\ txn = None /\ pc = None /\ todo = None
  /\ owns = None /\ batch = None /\ added = None /\ touched = None /\ gone = None /\ failed = None
  /\ batches = None /\ riding = None /\ lost = None /\ unowned = None
  /\ skipped = None /\ stuck = None /\ faults = None
NoSearches ==
  /\ index = None /\ found = None /\ count = None /\ indexing = None
  /\ adds = None /\ deletes = None /\ drifted = None

MCInit ==
  /\ choice \in Chosen
  /\ Init
  /\ IF choice = "long" THEN Long!Init ELSE NoLong
  /\ CASE choice = "sqlite" -> Sqlite!Init [] choice = "caller" -> Own!Init [] OTHER -> NoSqlite
  /\ IF choice = "retrieval" THEN Searches!Init ELSE NoSearches

ShortNext  == choice = "short" /\ Next /\ UNCHANGED <<choice, longVars, sqliteVars, searchVars>>
LongNext   == choice = "long" /\ Long!Next /\ UNCHANGED <<choice, vars, sqliteVars, searchVars>>
SqliteNext == choice = "sqlite" /\ Sqlite!Next /\ UNCHANGED <<choice, vars, longVars, searchVars>>
CallerNext == choice = "caller" /\ Own!Next /\ UNCHANGED <<choice, vars, longVars, searchVars>>
SearchNext == choice = "retrieval" /\ Searches!Next /\ UNCHANGED <<choice, vars, longVars, sqliteVars>>

MCNext == ShortNext \/ LongNext \/ SqliteNext \/ CallerNext \/ SearchNext

MCSpec == MCInit /\ [][MCNext]_<<choice, vars, longVars, sqliteVars, searchVars>>

Symm == Permutations(Threads) \cup Permutations(Texts)
        \cup Permutations(Objects) \cup Permutations(Sessions)
        \cup Permutations(Ids) \cup Permutations(Vals \ BadVals)

\* Only a bound reads a dirty cache: load_json_ empties it first.
View == <<choice, vars, liveVars, sqliteVars, searchVars,
          IF choice = "long" THEN [o \in Objects |-> IF dirty[o] THEN <<>> ELSE cache[o]] ELSE None>>

(* The properties of the modules, see there.                               *)
TypesOK ==
  /\ TypeOK
  /\ choice = "long" => Long!TypeOK
  /\ choice = "sqlite" => Sqlite!TypeOK
  /\ choice = "caller" => Own!TypeOK
  /\ choice = "retrieval" => Searches!TypeOK
ReadsLog == choice = "long" => Long!ReadsLog
Durable ==
  /\ choice = "long" => Long!Durable
  /\ choice = "sqlite" => Sqlite!Durable /\ Sqlite!BatchAtomic
StoreAgrees ==
  /\ choice = "sqlite" => Sqlite!TransactionOwned /\ Sqlite!Agreement
  /\ choice = "caller" => Own!TransactionOwned /\ Own!LastOneKept
SearchesRank == choice = "retrieval" => Searches!SearchesRank
SqliteOneLog == Long!SqliteOneLog
OneLogPerSession == Long!OneLogPerSession
=============================================================================
