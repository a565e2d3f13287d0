---------------------------- MODULE LongTermMemory ----------------------------
(***************************************************************************)
(* memory::LongTermMemory (src/src/memory/memory.cpp): objects of the      *)
(* class over one file, of one of two backends.                            *)
(*                                                                         *)
(* json    one line per message, shared by all sessions; an object reads   *)
(*         the lines of its session into a cache and again whenever        *)
(*         json_dirty is set.  A crash inside an append may leave a last   *)
(*         line without newline, which the next append writes on.          *)
(* sqlite  one row per message; each object has a connection of its own.   *)
(*                                                                         *)
(* Either may fail: a file does not open or does not take all of a line, a *)
(* statement meets the write lock of another connection (SQLITE_BUSY), a   *)
(* reader or a full disk.  The code looks at no such result.               *)
(*                                                                         *)
(* Each public method holds the object's mutex, so that threads that share *)
(* an object are one caller here.  "log" is what callers were told: the    *)
(* messages whose add() returned, since the last clear() of their session. *)
(***************************************************************************)
EXTENDS Naturals, Sequences, FiniteSets, SequencesExt

CONSTANTS
  Objects, Sessions, Msgs,
  None,         \* no session, no object
  BadMsgs,      \* messages that json::dump() throws on (invalid UTF-8)
  Backends,     \* of {"json", "sqlite"}: those a program may choose
  TornWrites,   \* TRUE: a crash may cut an append of the json backend short
  MaxMsgs,      \* bound: lines of the file, messages of a log and of a dirty cache
  MaxClears,    \* bound: calls of clear()
  MaxMishaps    \* bound: crashes, and failures that no lock of another object explains

Garbage == [session |-> None]      \* a line json::parse() rejects
Line == [session : Sessions, msg : Msgs]

VARIABLES
  backend,   \* the backend of the file and its objects
  users,     \* the objects the program makes
  store,     \* the file: its lines, or the rows of the table messages
  torn,      \* the last line has no newline
  exists,    \* the file exists
  listed,    \* the rows of the table sessions
  session,   \* json_session_id / sqlite_session_id, None before the object is made
  cache,     \* json_cache
  dirty,     \* json_dirty
  writer,    \* the object whose statement holds the write lock, or None
  adding,    \* the message that statement inserts
  log,       \* history: what callers were told is recorded
  damaged,   \* history: sessions that lost messages in a way the code allows
  blind,     \* history: json objects made when the file could not be read
  clears, mishaps

fileVars  == <<store, torn, exists, listed>>
cacheVars == <<cache, dirty>>
lockVars  == <<writer, adding>>
logVars   == <<log, damaged>>
bounds    == <<clears, mishaps>>
vars == <<backend, users, fileVars, session, cacheVars, lockVars, logVars, blind, bounds>>

Init ==
  /\ backend \in Backends
  /\ users \in SUBSET Objects \ {{}}
  /\ store = <<>> /\ torn = FALSE /\ exists = FALSE /\ listed = {}
  /\ session = [o \in Objects |-> None]
  /\ cache = [o \in Objects |-> <<>>]
  /\ dirty = [o \in Objects |-> FALSE]
  /\ writer = None /\ adding = None
  /\ log = [s \in Sessions |-> <<>>]
  /\ damaged = {} /\ blind = {}
  /\ clears = 0 /\ mishaps = 0

-----------------------------------------------------------------------------
\* Mutations: unreadable lines are kept, all sessions are read.
LoadEveryLine(s) == SelectSeq(store, LAMBDA l : l.session \in {s, None})
LoadWithoutWhere(s) == store

\* The elements of s that are in S, in their order, one round per element.
Only(s, S) ==
  LET only[n \in 0..Len(s)] ==
        IF n = 0 THEN <<>> ELSE IF s[n] \in S THEN Append(only[n - 1], s[n]) ELSE only[n - 1]
  IN  only[Len(s)]

\* load_json_, and the SELECT of messages(): the lines of session s, in order.
Of(s) == {l \in Line : l.session = s}
Load(s) == Only(store, Of(s))

\* What messages() of object o returns: the cache; or what load_json_ finds,
\* nothing if the file does not open; or the rows the SELECT gets to, none if
\* its prepare fails.
Returns(o) ==
  CASE backend = "json" /\ ~dirty[o] -> {cache[o]}
    [] backend = "json" /\ dirty[o]  -> {Load(session[o]), <<>>}
    [] OTHER -> {SubSeq(Load(session[o]), 1, n) : n \in 0..Len(Load(session[o]))}

\* The file after an append of line l: a torn last line takes it in.
Appended(l) == IF torn THEN Append(Front(store), Garbage) ELSE Append(store, l)

Opened(o) == session[o] # None /\ writer # o
Damage(S) == damaged' = damaged \cup S

\* The session whose last message an append onto a torn line spoils.
TornSession == IF torn THEN {Last(store).session} \ {None} ELSE {}

\* A failure, or a crash.
Fails == mishaps < MaxMishaps /\ mishaps' = mishaps + 1

\* A statement that writes must fail while another's does, and may otherwise.
StatementFails == IF writer = None THEN Fails ELSE UNCHANGED mishaps

Recorded(s, m) == log' = [log EXCEPT ![s] = Append(@, [session |-> s, msg |-> m])]

\* The constructor: open_sqlite_ or load_json_.
Open(o, s) ==
  /\ o \in users /\ session[o] = None
  /\ session' = [session EXCEPT ![o] = s]
  /\ cache' = [cache EXCEPT ![o] = IF backend = "json" THEN Load(s) ELSE @]
  /\ listed' = IF backend = "sqlite" /\ writer = None THEN listed \cup {s} ELSE listed
  /\ UNCHANGED <<store, torn, exists, dirty, lockVars, logVars, blind, bounds>>

\* load_json_ finds a file it cannot open: the cache is empty, and not dirty.
OpenBlind(o, s) ==
  /\ backend = "json" /\ o \in users /\ session[o] = None /\ exists /\ Fails
  /\ session' = [session EXCEPT ![o] = s]
  /\ blind' = blind \cup {o}
  /\ UNCHANGED <<fileVars, cacheVars, lockVars, logVars, clears>>

-----------------------------------------------------------------------------
(* add().                                                                  *)

\* Mutation: kept in the cache only.
AddJsonCached(o, m) ==
  /\ backend = "json" /\ Opened(o) /\ m \notin BadMsgs
  /\ Len(cache[o]) < MaxMsgs
  /\ cache' = [cache EXCEPT ![o] = Append(@, [session |-> session[o], msg |-> m])]
  /\ dirty' = [dirty EXCEPT ![o] = TRUE]
  /\ Recorded(session[o], m)
  /\ UNCHANGED <<fileVars, session, lockVars, damaged, blind, bounds>>

\* Mutation: the file is opened without std::ios::app.
AddJsonTruncates(o, m) ==
  /\ backend = "json" /\ Opened(o) /\ m \notin BadMsgs
  /\ LET l == [session |-> session[o], msg |-> m]
     IN /\ cache' = [cache EXCEPT ![o] = Append(@, l)]
        /\ store' = <<l>>
  /\ dirty' = [dirty EXCEPT ![o] = TRUE]
  /\ torn' = FALSE /\ exists' = TRUE
  /\ Recorded(session[o], m)
  /\ UNCHANGED <<listed, session, lockVars, damaged, blind, bounds>>

AddJson(o, m) ==
  /\ backend = "json" /\ Opened(o) /\ m \notin BadMsgs
  /\ Len(store) < MaxMsgs
  /\ LET l == [session |-> session[o], msg |-> m]
     IN /\ cache' = [cache EXCEPT ![o] = Append(@, l)]
        /\ store' = Appended(l)
  /\ dirty' = [dirty EXCEPT ![o] = TRUE]
  /\ torn' = FALSE /\ exists' = TRUE
  /\ Recorded(session[o], m)
  /\ Damage(IF torn THEN TornSession \cup {session[o]} ELSE {})
  /\ UNCHANGED <<listed, session, lockVars, blind, bounds>>

\* ofs does not open, or takes nothing, a part of the line, or all but its newline.
AddJsonLost(o, m) ==
  /\ backend = "json" /\ Opened(o) /\ Fails
  /\ Len(cache[o]) < MaxMsgs /\ Len(log[session[o]]) < MaxMsgs
  /\ cache' = [cache EXCEPT ![o] = Append(@, [session |-> session[o], msg |-> m])]
  /\ dirty' = [dirty EXCEPT ![o] = TRUE]
  /\ Recorded(session[o], m)
  /\ \/ UNCHANGED fileVars /\ Damage({session[o]})
     \/ /\ m \notin BadMsgs /\ Len(store) < MaxMsgs
        /\ \/ UNCHANGED <<store, torn>> /\ Damage({session[o]})
           \/ /\ TornWrites /\ torn' = TRUE
              /\ \/ store' = Appended(Garbage) /\ Damage(TornSession \cup {session[o]})
                 \/ ~torn /\ store' = Appended([session |-> session[o], msg |-> m]) /\ Damage({})
        /\ exists' = TRUE /\ UNCHANGED listed
  /\ UNCHANGED <<session, lockVars, blind, clears>>

\* dump() throws: in the cache, not in the file, which has been opened.
AddJsonThrows(o, m) ==
  /\ backend = "json" /\ Opened(o) /\ m \in BadMsgs
  /\ Len(cache[o]) < MaxMsgs
  /\ cache' = [cache EXCEPT ![o] = Append(@, [session |-> session[o], msg |-> m])]
  /\ dirty' = [dirty EXCEPT ![o] = TRUE]
  /\ exists' = TRUE
  /\ UNCHANGED <<store, torn, listed, session, lockVars, logVars, blind, bounds>>

\* sqlite3_step begins: the statement takes the write lock.
AddSqlite(o, m) ==
  /\ backend = "sqlite" /\ Opened(o) /\ m \notin BadMsgs /\ writer = None
  /\ Len(store) < MaxMsgs
  /\ writer' = o /\ adding' = m
  /\ UNCHANGED <<fileVars, session, cacheVars, logVars, blind, bounds>>

\* ... and commits.
AddSqliteEnds ==
  /\ writer # None
  /\ store' = Append(store, [session |-> session[writer], msg |-> adding])
  /\ Recorded(session[writer], adding)
  /\ writer' = None /\ adding' = None
  /\ UNCHANGED <<torn, exists, listed, session, cacheVars, damaged, blind, bounds>>

\* ... or cannot, and is undone: add() returns all the same,
AddSqliteUndone ==
  /\ writer # None /\ Fails
  /\ Recorded(session[writer], adding) /\ Damage({session[writer]})
  /\ writer' = None /\ adding' = None
  /\ UNCHANGED <<fileVars, session, cacheVars, blind, clears>>

\* ... as it does when the statement fails at once.
AddSqliteBusy(o, m) ==
  /\ backend = "sqlite" /\ Opened(o) /\ m \notin BadMsgs /\ StatementFails
  /\ Len(log[session[o]]) < MaxMsgs
  /\ Recorded(session[o], m) /\ Damage({session[o]})
  /\ UNCHANGED <<fileVars, session, cacheVars, lockVars, blind, clears>>

-----------------------------------------------------------------------------
(* The other operations.                                                   *)

\* messages(): load_json_ forgets json_dirty only when it found a file.
Messages(o) ==
  /\ backend = "json" /\ Opened(o) /\ dirty[o]
  /\ cache' = [cache EXCEPT ![o] = Load(session[o])]
  /\ dirty' = [dirty EXCEPT ![o] = ~exists]
  /\ blind' = blind \ {o}
  /\ UNCHANGED <<fileVars, session, lockVars, logVars, bounds>>

\* The file does not open: nothing is returned, and the cache stays dirty.
MessagesUnread(o) ==
  /\ backend = "json" /\ Opened(o) /\ dirty[o] /\ exists /\ Fails
  /\ cache' = [cache EXCEPT ![o] = <<>>]
  /\ UNCHANGED <<fileVars, session, dirty, lockVars, logVars, blind, clears>>

\* Mutation: DELETE without WHERE.
ClearTable(o) ==
  /\ Opened(o) /\ clears < MaxClears
  /\ store' = <<>> /\ torn' = FALSE
  /\ log' = [log EXCEPT ![session[o]] = <<>>]
  /\ clears' = clears + 1
  /\ UNCHANGED <<exists, listed, session, cacheVars, lockVars, damaged, blind, mishaps>>

\* clear() of the json backend: rewrite_json_ of an empty cache, if the file opens.
ClearFile(o) ==
  /\ cache' = [cache EXCEPT ![o] = <<>>]
  /\ dirty' = [dirty EXCEPT ![o] = FALSE]
  /\ \/ /\ store' = <<>> /\ torn' = FALSE /\ exists' = TRUE
        /\ Damage({s \in Sessions \ {session[o]} : Load(s) # <<>>})
        /\ UNCHANGED mishaps
     \/ UNCHANGED <<store, torn, exists>> /\ Fails /\ Damage({session[o]})

\* DELETE ... WHERE session_id, a statement that may fail.
ClearRows(o) ==
  /\ \/ writer = None /\ store' = Only(store, Line \ Of(session[o])) /\ UNCHANGED <<damaged, mishaps>>
     \/ StatementFails /\ UNCHANGED store /\ Damage({session[o]})
  /\ UNCHANGED <<torn, exists, cacheVars>>

Clear(o) ==
  /\ Opened(o) /\ clears < MaxClears
  /\ IF backend = "json" THEN ClearFile(o) ELSE ClearRows(o)
  /\ log' = [log EXCEPT ![session[o]] = <<>>]
  /\ clears' = clears + 1
  /\ UNCHANGED <<listed, session, lockVars, blind>>

\* Mutation: json_dirty is not set.
SetSessionIdClean(o, s) ==
  /\ Opened(o) /\ s # session[o]
  /\ session' = [session EXCEPT ![o] = s]
  /\ UNCHANGED <<fileVars, cacheVars, lockVars, logVars, blind, bounds>>

SetSessionId(o, s) ==
  /\ Opened(o) /\ s # session[o]
  /\ session' = [session EXCEPT ![o] = s]
  /\ dirty' = IF backend = "json" THEN [dirty EXCEPT ![o] = TRUE] ELSE dirty
  /\ UNCHANGED <<fileVars, cache, lockVars, logVars, blind, bounds>>

SwitchSession(o, s) ==
  /\ backend = "sqlite" /\ Opened(o) /\ s # session[o]
  /\ session' = [session EXCEPT ![o] = s]
  /\ listed' = IF writer = None THEN listed \cup {s} ELSE listed
  /\ UNCHANGED <<store, torn, exists, cacheVars, lockVars, logVars, blind, bounds>>

-----------------------------------------------------------------------------
(* The process dies; the statement under way is rolled back.               *)
Restarted ==
  /\ Fails
  /\ session' = [o \in Objects |-> None]
  /\ cache' = [o \in Objects |-> <<>>]
  /\ dirty' = [o \in Objects |-> FALSE]
  /\ writer' = None /\ adding' = None
  /\ blind' = {}
  /\ UNCHANGED <<listed, clears>>

Crash == Restarted /\ UNCHANGED <<store, torn, exists, logVars>>

\* Inside append_json_: all of the line but its newline, or a part of it.
CrashInAppend(o, m) ==
  /\ backend = "json" /\ TornWrites /\ Opened(o) /\ m \notin BadMsgs
  /\ Len(store) < MaxMsgs
  /\ LET l == [session |-> session[o], msg |-> m]
     IN \/ store' = Appended(Garbage) /\ UNCHANGED log
        \/ ~torn /\ store' = Appended(l) /\ Recorded(session[o], m)
  /\ Damage(TornSession)
  /\ torn' = TRUE /\ exists' = TRUE
  /\ Restarted

-----------------------------------------------------------------------------
Operation(o) ==
  \/ \E s \in Sessions : Open(o, s) \/ OpenBlind(o, s) \/ SetSessionId(o, s) \/ SwitchSession(o, s)
  \/ \E m \in Msgs : \/ AddJson(o, m) \/ AddJsonLost(o, m) \/ AddJsonThrows(o, m)
                     \/ AddSqlite(o, m) \/ AddSqliteBusy(o, m)
                     \/ CrashInAppend(o, m)
  \/ Messages(o) \/ MessagesUnread(o) \/ Clear(o)

Next ==
  /\ (\E o \in Objects : Operation(o)) \/ AddSqliteEnds \/ AddSqliteUndone \/ Crash
  /\ UNCHANGED <<backend, users>>

Spec == Init /\ [][Next]_vars

-----------------------------------------------------------------------------
(* Types of the state.                                                     *)
TypeOK ==
  /\ backend \in Backends /\ users \subseteq Objects
  /\ store \in Seq(Line \cup {Garbage})
  /\ torn \in BOOLEAN /\ exists \in BOOLEAN
  /\ listed \subseteq Sessions
  /\ session \in [Objects -> Sessions \cup {None}]
  /\ cache \in [Objects -> Seq(Line)]
  /\ dirty \in [Objects -> BOOLEAN]
  /\ writer \in Objects \cup {None} /\ adding \in Msgs \cup {None}
  /\ log \in [Sessions -> Seq(Line)] /\ damaged \subseteq Sessions /\ blind \subseteq Objects
  /\ clears \in 0..MaxClears /\ mishaps \in 0..MaxMishaps

(* memory.h:44 "Retrieve all messages in chronological order.": whatever   *)
(* sessions an object is moved through, a call of messages() returns a     *)
(* beginning of what was added to its present session, and all of it if    *)
(* nothing fails in the call and nothing failed when the object was made.  *)
(* The cache of one json object does not follow the appends of another;    *)
(* but no object returns a message of another session, not even one with a *)
(* stale cache or after a crash (tests/test_memory.cpp, Isolation).        *)
ReadsLog ==
  /\ \A o \in users :
       Opened(o) /\ session[o] \notin damaged /\ (backend = "sqlite" \/ users = {o}) =>
         /\ \A list \in Returns(o) : IsPrefix(list, log[session[o]])
         /\ o \notin blind => log[session[o]] \in Returns(o)
  /\ \A o \in Objects : Opened(o) =>
       \A list \in Returns(o) : \A i \in DOMAIN list : list[i].session = session[o]

(* The file holds, for every session and at every moment, so also after a  *)
(* restart, the messages whose add() returned and that no clear() of that  *)
(* session removed.  The code loses some in these ways, and in no other: a *)
(* json clear() of another session, an append to a torn line, a file that  *)
(* does not open or take the whole line, and a statement that fails, with  *)
(* SQLITE_BUSY or otherwise; a clear() that fails in one of the last two   *)
(* leaves what it should have removed.                                     *)
Durable == \A s \in Sessions \ damaged : Load(s) = log[s]

(* memory.h:102, the backend is "completely hidden behind this interface":*)
(* one log per session, and each operation appends to one or empties one.  *)
SessionLog == INSTANCE ConversationLog WITH stored <- [s \in Sessions |-> Load(s)]
OneLogPerSession == SessionLog!Spec

(* It holds of the sqlite backend, whatever statements fail or are undone. *)
SqliteOneLog == [][backend = "sqlite" => SessionLog!Next \/ UNCHANGED store]_vars
=============================================================================
