------------------------------- MODULE ConfigFile -------------------------------
(***************************************************************************)
(* util::Config and its file.  Every call holds mutex_, so that one runs   *)
(* at a time; others edit the file, and the process may crash, between its *)
(* steps: a load parses and then asks for the time of the last write, a    *)
(* save truncates, writes and then asks.  check_reload compares that time  *)
(* only.                                                                   *)
(*                                                                         *)
(* Contents are versions, 0 the one without sections; Broken is a file     *)
(* that does not parse, also an empty one.  Setting a key makes another    *)
(* version; nobody sets one while a load runs.  One path is used.          *)
(***************************************************************************)
EXTENDS Naturals

CONSTANTS MaxVersion, MaxTime

VARIABLES
  sections,   \* the version in memory
  watched,    \* file_path_ is set
  lastWrite,  \* last_write_time_, 0 for none
  file,       \* the file
  mtime,      \* the time of its last write
  op,         \* the running call: "none", "parse", "stampLoad", "truncate", "write" or "stampSave"
  origin,     \* what the last load or save knows to be in the file (history)
  edited,     \* someone changed the file since then (history)
  raced       \* that change came before the call had asked for the time, or within the same tick (history)

vars == <<sections, watched, lastWrite, file, mtime, op, origin, edited, raced>>

Versions == 0..MaxVersion
Broken == MaxVersion + 1
Missing == MaxVersion + 2

Init ==
  /\ sections = 0 /\ watched = FALSE /\ lastWrite = 0 /\ origin = 0
  /\ file \in {1, Missing, Broken} /\ mtime = 1
  /\ op = "none" /\ edited = FALSE /\ raced = FALSE

(* A write to the file: the clock of the file system may not have moved.   *)
Write(content) ==
  /\ file' = content
  /\ mtime' \in {mtime, mtime + 1} /\ mtime' <= MaxTime

-----------------------------------------------------------------------------
(* load, reload and check_reload.                                          *)

Load ==
  /\ op = "none" /\ op' = "parse"
  /\ UNCHANGED <<sections, watched, lastWrite, file, mtime, origin, edited, raced>>

(* What check_reload finds: a file whose time differs from the last one.   *)
HasChanged == watched /\ file # Missing /\ mtime # lastWrite

CheckReload ==
  /\ op = "none" /\ HasChanged /\ op' = "parse"
  /\ UNCHANGED <<sections, watched, lastWrite, file, mtime, origin, edited, raced>>

(* A file that does not parse leaves everything as it was.                 *)
ParseFails ==
  /\ op = "parse" /\ file \notin Versions
  /\ op' = "none"
  /\ UNCHANGED <<sections, watched, lastWrite, file, mtime, origin, edited, raced>>

\* Mutation: whether the file parsed is not looked at.
ParseUnchecked ==
  /\ op = "parse"
  /\ sections' = file /\ origin' = file
  /\ edited' = FALSE /\ raced' = FALSE
  /\ op' = "stampLoad"
  /\ UNCHANGED <<watched, lastWrite, file, mtime>>

Parse ==
  /\ op = "parse" /\ file \in Versions
  /\ sections' = file /\ origin' = file
  /\ edited' = FALSE /\ raced' = FALSE
  /\ op' = "stampLoad"
  /\ UNCHANGED <<watched, lastWrite, file, mtime>>

(* The time is asked for after the contents were read.                     *)
StampLoad ==
  /\ op = "stampLoad"
  /\ lastWrite' = IF file = Missing THEN 0 ELSE mtime
  /\ watched' = TRUE
  /\ op' = "none"
  /\ UNCHANGED <<sections, file, mtime, origin, edited, raced>>

-----------------------------------------------------------------------------
(* save and save_as.                                                       *)

Save ==
  /\ op = "none" /\ op' = "truncate"
  /\ UNCHANGED <<sections, watched, lastWrite, file, mtime, origin, edited, raced>>

(* The file cannot be opened, or is: it is empty from then on.             *)
OpenFails ==
  /\ op = "truncate" /\ op' = "none"
  /\ UNCHANGED <<sections, watched, lastWrite, file, mtime, origin, edited, raced>>

Truncate ==
  /\ op = "truncate" /\ op' = "write"
  /\ Write(Broken)
  /\ origin' = Broken /\ edited' = FALSE /\ raced' = FALSE
  /\ UNCHANGED <<sections, watched, lastWrite>>

(* What the stream says of the write is not looked at: on a full disk the  *)
(* file stays without contents and the save goes on.                       *)
SaveWrites ==
  /\ op = "write" /\ op' = "stampSave"
  /\ \E content \in {sections, Broken} : Write(content) /\ origin' = content
  /\ edited' = FALSE /\ raced' = FALSE
  /\ UNCHANGED <<sections, watched, lastWrite>>

\* Mutation: a save does not remember the time of its own write.
StampSaveNot ==
  /\ op = "stampSave"
  /\ watched' = TRUE
  /\ op' = "none"
  /\ UNCHANGED <<sections, lastWrite, file, mtime, origin, edited, raced>>

StampSave ==
  /\ op = "stampSave"
  /\ lastWrite' = IF file = Missing THEN 0 ELSE mtime
  /\ watched' = TRUE
  /\ op' = "none"
  /\ UNCHANGED <<sections, file, mtime, origin, edited, raced>>

-----------------------------------------------------------------------------
(* A key is set, through a section that section() returned.                *)
Set ==
  /\ op \in {"none", "truncate", "write", "stampSave"}
  /\ sections' \in Versions \ {sections}
  /\ UNCHANGED <<watched, lastWrite, file, mtime, op, origin, edited, raced>>

(* Someone else writes or removes the file.                                *)
Edit ==
  /\ \E content \in Versions \cup {Missing, Broken} : content # file /\ Write(content)
  /\ edited' = TRUE
  /\ raced' = (raced \/ op \in {"stampLoad", "stampSave"} \/ mtime' = mtime)
  /\ UNCHANGED <<sections, watched, lastWrite, op, origin>>

(* The process ends and a new one starts.                                  *)
Crash ==
  /\ op' = "none" /\ sections' = 0 /\ watched' = FALSE /\ lastWrite' = 0
  /\ UNCHANGED <<file, mtime, origin, edited, raced>>

Next ==
  \/ Load \/ CheckReload \/ ParseFails \/ Parse \/ StampLoad
  \/ Save \/ OpenFails \/ Truncate \/ SaveWrites \/ StampSave
  \/ Set \/ Edit \/ Crash

Spec == Init /\ [][Next]_vars

-----------------------------------------------------------------------------
(* Unless an edit came between the reading of the contents and of the      *)
(* time, or within one tick of the clock, check_reload reloads exactly     *)
(* when someone else changed the file since the last load or save: a save  *)
(* is not taken for a change, and a change is never missed; and as long as *)
(* it sees none the file holds what it held then.  Whatever the file is,   *)
(* also what a save on a full disk left, memory holds a whole              *)
(* configuration: a file that does not parse replaces nothing.             *)
ChangesSeen ==
  /\ sections \in Versions
  /\ op = "none" /\ watched /\ ~raced =>
       /\ HasChanged <=> edited /\ file # Missing
       /\ ~edited => file = origin
=============================================================================
