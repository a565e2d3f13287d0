------------------------------- MODULE MCLibrary -------------------------------
(***************************************************************************)
(* The utilities and the chat window that comes with the library: the      *)
(* timer (extended here), the observer lists, the configuration file, the  *)
(* text splitters; and the window.  choice says which one runs; meanwhile  *)
(* the variables of the utilities keep their initial values, and those of  *)
(* the window are NoCallback.                                              *)
(***************************************************************************)
EXTENDS Timer

CONSTANTS Threads, Keys, AnyKey, Scoped, MaxIds, MaxDepth,
          MaxVersion, MaxTime, MaxText, MaxSize,
          MaxJobs, MaxPieces, MaxConversations, MaxOpened

VARIABLES
  choice,     \* "observers", "timer", "config", "splitter" or "window"
  class, slots, nextId, calls, conn, scoped,
  sections, watched, lastWrite, file, mtime, op, origin, edited, raced,
  splitter, text, size, chunkOverlap, chunks, whole, split,
  conversations, current, transcript, bubble, pending, flushDue, busy, asking, cancel,
  job, wstep, queue, local, joining, jobs, opened, heard, overlapped

(* The bounds are numbers.                                                 *)
ASSUME LibraryAssumption ==
  MaxIds \in Nat /\ MaxDepth \in Nat /\ MaxVersion \in Nat /\ MaxText \in Nat /\ MaxSize \in Nat

Observers == INSTANCE Broadcast
Config == INSTANCE ConfigFile
Splitter == INSTANCE TextSplitter WITH overlap <- chunkOverlap
Window == INSTANCE ChatWindow WITH running <- asking

observerVars == <<class, slots, nextId, calls, conn, scoped>>
configVars == <<sections, watched, lastWrite, file, mtime, op, origin, edited, raced>>
splitterVars == <<splitter, text, size, chunkOverlap, chunks, whole, split>>
utilities == <<vars, observerVars, configVars, splitterVars>>
windowVars == <<conversations, current, transcript, bubble, pending, flushDue, busy, asking, cancel,
                job, wstep, queue, local, joining, jobs, opened, heard, overlapped>>
all == <<choice, utilities, windowVars>>

NoWindow ==
  LET no == NoCallback
  IN  /\ conversations = no /\ current = no /\ transcript = no /\ bubble = no /\ pending = no /\ flushDue = no
      /\ busy = no /\ asking = no /\ cancel = no /\ job = no /\ wstep = no /\ queue = no /\ local = no
      /\ joining = no /\ jobs = no /\ opened = no /\ heard = no /\ overlapped = no

MCInit ==
  /\ choice \in {"observers", "timer", "config", "splitter", "window"}
  /\ Observers!Init /\ Init /\ Config!Init
  /\ choice # "observers" => class = "signal"
  /\ choice # "config" => file = Config!Missing
  /\ IF choice = "splitter"
       THEN Splitter!Init
       ELSE /\ splitter = "character" /\ text = <<>> /\ size = 1 /\ chunkOverlap = 0
            /\ chunks = <<>> /\ whole = <<>> /\ split = FALSE
  /\ IF choice = "window" THEN Window!Init ELSE NoWindow

ObserverNext == choice = "observers" /\ Observers!Next /\ UNCHANGED <<choice, vars, configVars, splitterVars, windowVars>>
TimerNext    == choice = "timer" /\ Next /\ UNCHANGED <<choice, observerVars, configVars, splitterVars, windowVars>>
ConfigNext   == choice = "config" /\ Config!Next /\ UNCHANGED <<choice, observerVars, vars, splitterVars, windowVars>>
SplitterNext == choice = "splitter" /\ Splitter!Next /\ UNCHANGED <<choice, observerVars, vars, configVars, windowVars>>
WindowNext   == choice = "window" /\ Window!Next /\ UNCHANGED <<choice, utilities>>

MCNext ==
  ObserverNext \/ TimerNext \/ ConfigNext \/ SplitterNext \/ WindowNext

(* The fairness of the timer and of the window, see there.                 *)
TimerFair(A) == choice = "timer" /\ A /\ UNCHANGED <<choice, observerVars, configVars, splitterVars, windowVars>>
WindowFair(A) == choice = "window" /\ A /\ UNCHANGED <<choice, utilities>>

MCSpec ==
  /\ MCInit /\ [][MCNext]_all
  /\ WF_all(TimerFair(Next /\ WorkerStep))
  /\ \A t \in Callers : WF_all(TimerFair(Next /\ CallStep(t)))
  /\ WF_all(WindowFair(Window!Worker /\ Window!Next))
  /\ WF_all(WindowFair(Window!UiSteps /\ Window!Next))

(* The properties of the instances, see there; the timer's come with it.   *)
EmissionExact   == Observers!EmissionExact
ChangesSeen     == Config!ChangesSeen
ChunksFit       == Splitter!ChunksFit
RepliesInPlace  == choice = "window" => Window!RepliesInPlace
WindowReturns ==
  LET Inside(p) == choice = "window" /\ p
  IN  (Inside(joining) ~> Inside(~joining)) /\ (Inside(asking) ~> Inside(~asking))
=============================================================================
