-------------------------- MODULE SqliteVectorStore --------------------------
(***************************************************************************)
(* vectorstore::SqliteVectorStore and the InMemoryVectorStore it extends   *)
(* (src/src/vectorstore/vectorstore.cpp): every operation changes docs_    *)
(* under mu_ first and the SQLite table afterwards, in a second step that  *)
(* takes mu_ again (add, update) or not at all (delete).                   *)
(*                                                                         *)
(* All threads share one connection, so they share its transaction:        *)
(* "BEGIN" fails while another thread's transaction is open, and what is   *)
(* written meanwhile belongs to that transaction.  The table is "db" as    *)
(* the connection sees it and "disk" as a restart would find it.           *)
(*                                                                         *)
(* A statement may fail: another connection holds a lock, the disk is full, *)
(* an empty embedding is no BLOB.  An INSERT that does is logged, all other *)
(* results are passed over; a COMMIT that fails leaves the transaction     *)
(* open, and nobody ends it.                                               *)
(***************************************************************************)
EXTENDS Naturals, Sequences, FiniteSets

CONSTANTS
  Threads, Ids, Vals,
  None,        \* no document, no thread
  BadVals,     \* documents whose metadata json::dump() throws on (invalid UTF-8)
  CallerIds,   \* TRUE: callers choose ids freely; FALSE: gen_id() assigns them
  MaxBatch,    \* bound: documents per add_documents call
  MaxDocs,     \* bound: documents in memory
  MaxFaults    \* bound: statements that fail, and crashes with a restart

Doc == [id : Ids, val : Vals]

VARIABLES
  docs,     \* docs_
  mu,       \* the thread that holds mu_ over several steps, or None
  db,       \* the table, as the connection sees it
  disk,     \* the table, as committed
  txn,      \* the connection is inside a transaction
  pc,       \* what each thread does
  todo,     \* the ids its operation has still to write
  owns,     \* SqliteTransaction::active_ of its operation
  batch,    \* history: the ids of its operation
  added,    \* history: documents whose add_documents returned
  touched,  \* history: ids that a delete or an update was ever called for
  gone,     \* history: ids whose delete_documents returned
  failed,   \* history: ids whose operation threw, or failed, after it changed docs_
  batches,  \* history: the id sets passed to add_documents
  riding,   \* history: ids written inside another thread's open transaction
  lost,     \* history: ids that were riding when that transaction was undone
  unowned,  \* history: ids that add_documents wrote without a transaction of its own
  skipped,  \* history: ids whose statement failed
  stuck,    \* history: the transaction is one whose COMMIT failed
  faults

tableVars == <<db, disk, txn>>
rideVars  == <<riding, lost, unowned>>
errorVars == <<skipped, stuck, faults>>
histVars  == <<added, touched, gone, failed, batches, rideVars>>
vars == <<docs, mu, tableVars, pc, todo, owns, batch, histVars, errorVars>>

Elems(s) == {s[i] : i \in DOMAIN s}

Init ==
  /\ docs = <<>>
  /\ mu = None
  /\ db = [i \in Ids |-> None] /\ disk = db
  /\ txn = FALSE
  /\ pc = [t \in Threads |-> "idle"]
  /\ todo = [t \in Threads |-> <<>>]
  /\ owns = [t \in Threads |-> FALSE]
  /\ batch = [t \in Threads |-> {}]
  /\ added = {} /\ touched = {} /\ gone = {} /\ failed = {} /\ batches = {}
  /\ riding = {} /\ lost = {} /\ unowned = {}
  /\ skipped = {} /\ stuck = FALSE
  /\ faults = 0

-----------------------------------------------------------------------------
(* Helpers.                                                                *)

\* An INSERT OR REPLACE or DELETE statement outside a transaction commits.
Write(id, v) ==
  /\ db' = [db EXCEPT ![id] = v]
  /\ disk' = IF txn THEN disk ELSE db'
  /\ UNCHANGED txn

Fault == faults < MaxFaults /\ faults' = faults + 1

\* A statement about id fails, and changes nothing.
Fails(id) ==
  /\ Fault
  /\ skipped' = skipped \cup {id} /\ failed' = failed \cup {id}
  /\ UNCHANGED <<tableVars, riding, stuck>>

\* What is written while another thread's transaction is open goes with it.
Ride(t, id) == riding' = IF txn /\ ~owns[t] THEN riding \cup {id} ELSE riding
Undone == lost' = lost \cup riding /\ riding' = {}

Positions(id) == {i \in DOMAIN docs : docs[i].id = id}
FirstOf(S) == CHOOSE i \in S : \A j \in S : i <= j
LastOf(S)  == CHOOSE i \in S : \A j \in S : j <= i

\* The elements of s that are in S, in their order: erase and remove_if of the others.
Only(s, S) ==
  LET only[n \in 0..Len(s)] ==
        IF n = 0 THEN <<>> ELSE IF s[n] \in S THEN Append(only[n - 1], s[n]) ELSE only[n - 1]
  IN  only[Len(s)]

Goto(t, l) == pc' = [pc EXCEPT ![t] = l]
Start(t, l, ids) ==
  /\ pc[t] = "idle" /\ mu = None
  /\ Goto(t, l)
  /\ todo' = [todo EXCEPT ![t] = ids]
  /\ batch' = [batch EXCEPT ![t] = Elems(ids)]
Finish(t) ==
  /\ Goto(t, "idle")
  /\ todo' = [todo EXCEPT ![t] = <<>>]
  /\ batch' = [batch EXCEPT ![t] = {}]

\* The ids a caller can name: any, or those some add_documents returned.
Known == IF CallerIds THEN Ids ELSE {d.id : d \in added}
Fresh == IF CallerIds THEN Ids ELSE Ids \ UNION batches

-----------------------------------------------------------------------------
(* add_documents.                                                          *)

\* InMemoryVectorStore::add_documents: assign ids, embed, append under mu_.
AddMemory(t, new) ==
  /\ Start(t, "begin", [i \in DOMAIN new |-> new[i].id])
  /\ \A i \in DOMAIN new : new[i].id \in Fresh
  /\ CallerIds \/ \A i, j \in DOMAIN new : new[i].id = new[j].id => i = j
  /\ Len(docs) + Len(new) <= MaxDocs
  /\ docs' = docs \o new
  /\ batches' = batches \cup {batch'[t]}
  /\ UNCHANGED <<mu, tableVars, owns, added, touched, gone, failed, rideVars, errorVars>>

\* Mutation: the result of BEGIN is not looked at.
BeginUnchecked(t) ==
  /\ pc[t] = "begin"
  /\ owns' = [owns EXCEPT ![t] = TRUE]
  /\ txn' = TRUE
  /\ Goto(t, "lock")
  /\ UNCHANGED <<docs, mu, db, disk, todo, batch, histVars, errorVars>>

\* SqliteTransaction's constructor runs before mu_ is taken again.
Begin(t) ==
  /\ pc[t] = "begin"
  /\ owns' = [owns EXCEPT ![t] = ~txn]
  /\ txn' = TRUE
  /\ Goto(t, "lock")
  /\ UNCHANGED <<docs, mu, db, disk, todo, batch, histVars, errorVars>>

Lock(t) ==
  /\ pc[t] = "lock" /\ mu = None
  /\ mu' = t
  /\ Goto(t, "insert")
  /\ UNCHANGED <<docs, tableVars, todo, owns, batch, histVars, errorVars>>

\* The prepare fails and throws, before the transaction.
PrepareFails(t) ==
  /\ pc[t] = "begin"
  /\ Fault
  /\ failed' = failed \cup batch[t]
  /\ Finish(t)
  /\ UNCHANGED <<docs, mu, tableVars, owns, added, touched, gone, batches, rideVars, skipped, stuck>>

\* One round of the loop: the newest document of that id, if it is still there.
InsertNext(t) ==
  /\ pc[t] = "insert" /\ todo[t] # <<>>
  /\ LET id == Head(todo[t])
         S  == Positions(id)
     IN /\ \/ /\ IF S = {} THEN UNCHANGED tableVars
                 ELSE LET v == docs[LastOf(S)].val IN v \notin BadVals /\ Write(id, v)
              /\ Ride(t, id) /\ UNCHANGED <<failed, errorVars>>
           \/ S # {} /\ docs[LastOf(S)].val \notin BadVals /\ Fails(id)   \* logged
        /\ unowned' = IF owns[t] THEN unowned ELSE unowned \cup {id}
  /\ todo' = [todo EXCEPT ![t] = Tail(@)]
  /\ UNCHANGED <<docs, mu, pc, owns, batch, added, touched, gone, batches, lost>>

\* Mutation: the destructor commits what was written so far.
RollbackCommits(t) ==
  /\ pc[t] = "rollback"
  /\ disk' = IF owns[t] THEN db ELSE disk
  /\ txn' = (txn /\ ~owns[t])
  /\ owns' = [owns EXCEPT ![t] = FALSE]
  /\ Finish(t)
  /\ UNCHANGED <<docs, mu, db, added, touched, gone, failed, batches, rideVars, errorVars>>

\* dump() throws: mu_ is released,
InsertThrows(t) ==
  /\ pc[t] = "insert" /\ todo[t] # <<>>
  /\ LET S == Positions(Head(todo[t])) IN S # {} /\ docs[LastOf(S)].val \in BadVals
  /\ mu' = None
  /\ failed' = failed \cup batch[t]
  /\ Goto(t, "rollback")
  /\ UNCHANGED <<docs, tableVars, todo, owns, batch, added, touched, gone, batches, rideVars, errorVars>>

\* and then the transaction is rolled back if it is ours.
Rollback(t) ==
  /\ pc[t] = "rollback"
  /\ db' = IF owns[t] THEN disk ELSE db
  /\ txn' = (txn /\ ~owns[t])
  /\ owns' = [owns EXCEPT ![t] = FALSE]
  /\ IF owns[t] THEN Undone ELSE UNCHANGED <<lost, riding>>
  /\ Finish(t)
  /\ UNCHANGED <<docs, mu, disk, added, touched, gone, failed, batches, unowned, errorVars>>

\* Mutation: commit() is forgotten, so the destructor rolls back.
CommitForgotten(t) ==
  /\ pc[t] = "insert" /\ todo[t] = <<>>
  /\ db' = IF owns[t] THEN disk ELSE db
  /\ txn' = (txn /\ ~owns[t])
  /\ owns' = [owns EXCEPT ![t] = FALSE]
  /\ mu' = None
  /\ added' = added \cup {d \in Elems(docs) : d.id \in batch[t]}
  /\ Finish(t)
  /\ UNCHANGED <<docs, disk, touched, gone, failed, batches, rideVars, errorVars>>

\* commit(), return, release mu_.  What a COMMIT that fails leaves behind rides
\* on a transaction without owner.
Commit(t) ==
  /\ pc[t] = "insert" /\ todo[t] = <<>>
  /\ \/ /\ disk' = IF owns[t] THEN db ELSE disk
        /\ txn' = (txn /\ ~owns[t])
        /\ riding' = IF owns[t] THEN {} ELSE riding
        /\ UNCHANGED errorVars
     \/ /\ owns[t] /\ Fault
        /\ riding' = riding \cup batch[t] /\ stuck' = TRUE
        /\ UNCHANGED <<disk, txn, skipped>>
  /\ owns' = [owns EXCEPT ![t] = FALSE]
  /\ mu' = None
  /\ added' = added \cup {d \in Elems(docs) : d.id \in batch[t]}
  /\ Finish(t)
  /\ UNCHANGED <<docs, db, touched, gone, failed, batches, lost, unowned>>

-----------------------------------------------------------------------------
(* delete_documents.                                                       *)

DeleteMemory(t, ids) ==
  /\ Start(t, "delete", ids)
  /\ Elems(ids) \subseteq Known
  /\ docs' = Only(docs, {d \in Doc : d.id \notin Elems(ids)})
  /\ touched' = touched \cup Elems(ids)
  /\ UNCHANGED <<mu, tableVars, owns, added, gone, failed, batches, rideVars, errorVars>>

\* persist_delete_, without mu_.
PersistDelete(t) ==
  /\ pc[t] = "delete" /\ todo[t] # <<>>
  /\ \/ Write(Head(todo[t]), None) /\ Ride(t, Head(todo[t])) /\ UNCHANGED <<failed, errorVars>>
     \/ Fails(Head(todo[t]))
  /\ todo' = [todo EXCEPT ![t] = Tail(@)]
  /\ UNCHANGED <<docs, mu, pc, owns, batch, added, touched, gone, batches, lost, unowned>>

\* Mutation: the loop over the ids ends early.
DeleteReturnsEarly(t) ==
  /\ pc[t] = "delete"
  /\ gone' = gone \cup batch[t]
  /\ Finish(t)
  /\ UNCHANGED <<docs, mu, tableVars, owns, added, touched, failed, batches, rideVars, errorVars>>

DeleteReturns(t) ==
  /\ pc[t] = "delete" /\ todo[t] = <<>>
  /\ gone' = gone \cup batch[t]
  /\ Finish(t)
  /\ UNCHANGED <<docs, mu, tableVars, owns, added, touched, failed, batches, rideVars, errorVars>>

-----------------------------------------------------------------------------
(* update_document.                                                        *)

UpdateMemory(t, id, v) ==
  /\ Start(t, "update", <<id>>)
  /\ id \in Known /\ Positions(id) # {}
  /\ docs' = [docs EXCEPT ![FirstOf(Positions(id))].val = v]
  /\ touched' = touched \cup {id}
  /\ UNCHANGED <<mu, tableVars, owns, added, gone, failed, batches, rideVars, errorVars>>

\* Mutation: the updated document is only kept in memory.
UpdateInMemoryOnly(t) ==
  /\ pc[t] = "update" /\ mu = None
  /\ Finish(t)
  /\ UNCHANGED <<docs, mu, tableVars, owns, histVars, errorVars>>

\* Mutation: the caller's document is written, still in docs_ or not.
UpdateWithoutLookup(t) ==
  /\ pc[t] = "update" /\ mu = None
  /\ \E v \in Vals : Write(Head(todo[t]), v)
  /\ Finish(t)
  /\ UNCHANGED <<docs, mu, owns, histVars, errorVars>>

\* mu_ is taken again and the document looked up again.
PersistUpdate(t) ==
  /\ pc[t] = "update" /\ mu = None
  /\ LET id == Head(todo[t])
         S  == Positions(id)
         v  == docs[FirstOf(S)].val
     IN \/ /\ IF S = {} \/ v \in BadVals THEN UNCHANGED tableVars ELSE Write(id, v)
           /\ failed' = IF S # {} /\ v \in BadVals THEN failed \cup {id} ELSE failed
           /\ Ride(t, id) /\ UNCHANGED errorVars
        \/ S # {} /\ Fails(id)
  /\ Finish(t)
  /\ UNCHANGED <<docs, mu, owns, added, touched, gone, batches, lost, unowned>>

-----------------------------------------------------------------------------
(* The process dies; the next one opens the database and loads it.         *)
\* Mutation: the rows' presence is not checked.
StoredOrNot == {[id |-> i, val |-> disk[i]] : i \in Ids}

Stored == {d \in Doc : disk[d.id] = d.val}
LoadAll == CHOOSE s \in [1..Cardinality(Stored) -> Stored] : Elems(s) = Stored

Crash ==
  /\ Fault
  /\ db' = disk /\ txn' = FALSE /\ UNCHANGED disk
  /\ docs' = LoadAll
  /\ mu' = None
  /\ pc' = [t \in Threads |-> "idle"]
  /\ todo' = [t \in Threads |-> <<>>]
  /\ owns' = [t \in Threads |-> FALSE]
  /\ batch' = [t \in Threads |-> {}]
  /\ failed' = {} /\ stuck' = FALSE
  /\ Undone
  /\ UNCHANGED <<added, touched, gone, batches, unowned, skipped>>

-----------------------------------------------------------------------------
Batches  == UNION {[1..n -> Doc] : n \in 1..MaxBatch}
IdLists  == UNION {[1..n -> Ids] : n \in 1..MaxBatch}

Next ==
  \/ \E t \in Threads :
       \/ \E new \in Batches : AddMemory(t, new)
       \/ PrepareFails(t) \/ Begin(t) \/ Lock(t) \/ InsertNext(t)
       \/ InsertThrows(t) \/ Rollback(t) \/ Commit(t)
       \/ \E ids \in IdLists : DeleteMemory(t, ids)
       \/ PersistDelete(t) \/ DeleteReturns(t)
       \/ \E id \in Ids, v \in Vals : UpdateMemory(t, id, v)
       \/ PersistUpdate(t)
  \/ Crash

Spec == Init /\ [][Next]_vars

-----------------------------------------------------------------------------
(* Types of the state.                                                     *)
TypeOK ==
  /\ docs \in Seq(Doc)
  /\ mu \in Threads \cup {None}
  /\ {db, disk} \subseteq [Ids -> Vals \cup {None}]
  /\ txn \in BOOLEAN
  /\ pc \in [Threads -> {"idle", "begin", "lock", "insert", "rollback", "delete", "update"}]
  /\ todo \in [Threads -> Seq(Ids)]
  /\ owns \in [Threads -> BOOLEAN]
  /\ batch \in [Threads -> SUBSET Ids]
  /\ added \subseteq Doc
  /\ touched \cup gone \cup failed \subseteq Ids
  /\ batches \subseteq SUBSET Ids
  /\ riding \cup lost \cup unowned \cup skipped \subseteq Ids
  /\ stuck \in BOOLEAN
  /\ faults \in 0..MaxFaults

(* The connection is in a transaction exactly while one add_documents that *)
(* opened it is under way, or since a COMMIT failed; outside one, what the *)
(* connection sees is what is committed; and only the thread that inserts  *)
(* holds mu_ over steps.                                                   *)
TransactionOwned ==
  /\ txn <=> stuck \/ \E t \in Threads : owns[t]
  /\ \A t, u \in Threads : owns[t] => ~stuck /\ (owns[u] => t = u)
  /\ \A t \in Threads : owns[t] => pc[t] \in {"lock", "insert", "rollback"}
  /\ ~txn => db = disk
  /\ \A t \in Threads : mu = t <=> pc[t] = "insert"

(* A document whose add returned, and that nobody deletes or updates, is   *)
(* in the table, also in the one a restart opens, and one whose delete     *)
(* returned does not come back.  Two things can take either away: its own  *)
(* statement failed, which nobody is told; or it rode on a transaction     *)
(* that was undone, another thread's or one whose COMMIT had failed.       *)
Durable ==
  /\ \A d \in added : d.id \notin touched \cup lost \cup skipped => db[d.id] = d.val
  /\ \A id \in gone \ (lost \cup skipped) : db[id] = None


(* The documents of one add_documents that got its transaction are         *)
(* committed together or not at all, but for one whose INSERT failed: the  *)
(* others are committed without it.                                        *)
BatchAtomic ==
  ~txn => \A b \in batches : b \cap (touched \cup unowned \cup skipped) = {} =>
            \/ \A id \in b : db[id] # None
            \/ \A id \in b : db[id] = None

(* When no operation is under way, memory and table hold the same          *)
(* documents, but for an operation that threw, failed or was undone; so a  *)
(* search finds before a restart what it finds after it, each document     *)
(* once.                                                                   *)
Quiescent == \A t \in Threads : pc[t] = "idle"
Agreement ==
  Quiescent =>
    \A id \in Ids \ (failed \cup lost) :
      {docs[i].val : i \in Positions(id)} = {db[id]} \ {None} /\ Cardinality(Positions(id)) <= 1

(* A caller who adds an id again has two documents in memory and one in    *)
(* the table.  What a single thread does then still agrees as far as it    *)
(* can: the id is in both or in neither, and a restart finds the document  *)
(* that was added last, or the one that was updated.                       *)
LastOneKept ==
  Quiescent =>
    \A id \in Ids \ failed :
      LET here == Positions(id)
      IN  IF here = {} THEN db[id] = None
          ELSE /\ \E i \in here : docs[i].val = db[id]
               /\ id \notin touched => docs[LastOf(here)].val = db[id]
=============================================================================
