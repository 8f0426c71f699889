---------------------------- MODULE RotateWriter ----------------------------
(***************************************************************************)
(* util.RotateWriter: a log file per day, a symlink to the current one and *)
(* pruning of old files.  Write and Close hold the mutex throughout, so    *)
(* calls never overlap, but the clock runs on inside Write, which reads it *)
(* twice, and the process may die and start again on the same directory.   *)
(***************************************************************************)
EXTENDS Integers

CONSTANTS
  Hours,        \* clock units in a day
  MaxAgeDays,   \* maxAgeDays
  MaxTime       \* bound: the clock stops here

ASSUME RotateConstants ==
  /\ Hours \in Nat \ {0}
  /\ MaxAgeDays \in Int
  /\ MaxTime \in Nat /\ MaxTime >= Hours

VARIABLES
  now,      \* w.now()
  pc,       \* where Write is: "idle", "clean", "append"
  began,    \* when the Write in progress read the clock
  file,     \* w.file: the day of the open file, or NoDay
  date,     \* w.date: a day, or NoDay for ""
  disk,     \* day -> modification time, for the files in the directory
  link,     \* the target of the symlink, or NoDay
  result,   \* what the last Write returned: "ok", "openError", "notOpen"
  linkOK,   \* history: the symlink was made at the last rotation
  lines     \* history: <<day of the file, time>> of every line written

vars == <<now, pc, began, file, date, disk, link, result, linkOK, lines>>

NoDay == 0
Day(t) == t \div Hours
Today == Day(now)

Touched(d, t) == [e \in DOMAIN disk \cup {d} |-> IF e = d THEN t ELSE disk[e]]

(***************************************************************************)
(* A process starts on whatever the directory holds.                       *)
(***************************************************************************)
NewRotateWriter ==
  /\ pc' = "idle" /\ file' = NoDay /\ date' = NoDay
  /\ UNCHANGED <<now, began, disk, link, result, linkOK, lines>>

(***************************************************************************)
(* Write on the day of the open file goes straight to it.                  *)
(***************************************************************************)
WriteSameDay ==
  /\ pc = "idle" /\ Today = date
  /\ pc' = "append" /\ began' = now
  /\ UNCHANGED <<now, file, date, disk, link, result, linkOK, lines>>

\* Variant: the file of the day before stays the current one.
RotateKeepsFile(target) ==
  /\ pc = "idle" /\ Today # date
  /\ file' = IF file = NoDay THEN Today ELSE file
  /\ date' = Today
  /\ disk' = IF Today \in DOMAIN disk THEN disk ELSE Touched(Today, now)
  /\ link' = target /\ linkOK' = (target = Today)
  /\ pc' = "clean" /\ began' = now
  /\ UNCHANGED <<now, result, lines>>

(***************************************************************************)
(* The date changed: the old file is closed, the new one opened (an        *)
(* existing one keeps its modification time), the link is replaced.  Its   *)
(* errors are ignored: the link may be left as it was, or missing.         *)
(***************************************************************************)
Rotate(target) ==
  /\ pc = "idle" /\ Today # date
  /\ file' = Today /\ date' = Today
  /\ disk' = IF Today \in DOMAIN disk THEN disk ELSE Touched(Today, now)
  /\ link' = target /\ linkOK' = (target = Today)
  /\ pc' = "clean" /\ began' = now
  /\ UNCHANGED <<now, result, lines>>

OpenFails ==
  /\ pc = "idle" /\ Today # date
  /\ file' = NoDay /\ date' = NoDay
  /\ result' = "openError"
  /\ UNCHANGED <<now, pc, began, disk, link, linkOK, lines>>

\* Variant: the cutoff is a day too late.
ExpiredEarly(d) == MaxAgeDays > 0 /\ disk[d] <= now - (MaxAgeDays - 1) * Hours

(***************************************************************************)
(* clean: a file goes unless it was modified after the cutoff.             *)
(***************************************************************************)
Expired(d) == MaxAgeDays > 0 /\ disk[d] <= now - MaxAgeDays * Hours

Clean ==
  /\ pc = "clean"
  /\ disk' = [d \in {e \in DOMAIN disk : ~Expired(e)} |-> disk[d]]
  /\ pc' = "append"
  /\ UNCHANGED <<now, began, file, date, link, result, linkOK, lines>>

(***************************************************************************)
(* w.file.Write: on an unlinked file the line goes nowhere.                *)
(***************************************************************************)
AppendLine ==
  /\ pc = "append"
  /\ IF file = NoDay
     THEN result' = "notOpen" /\ UNCHANGED <<disk, lines>>
     ELSE /\ result' = "ok"
          /\ disk' = IF file \in DOMAIN disk THEN Touched(file, now) ELSE disk
          /\ lines' = lines \cup {<<file, now>>}
  /\ pc' = "idle"
  /\ UNCHANGED <<now, began, file, date, link, linkOK>>

Close ==
  /\ pc = "idle"
  /\ file' = NoDay
  /\ UNCHANGED <<now, pc, began, date, disk, link, result, linkOK, lines>>

(***************************************************************************)
(* A call of Write takes less than a day.                                  *)
(***************************************************************************)
Tick ==
  /\ now < MaxTime
  /\ pc = "idle" \/ now + 1 < began + Hours
  /\ now' = now + 1
  /\ UNCHANGED <<pc, began, file, date, disk, link, result, linkOK, lines>>

Init ==
  /\ now = Hours
  /\ pc = "idle" /\ began = 0 /\ file = NoDay /\ date = NoDay
  /\ disk = [d \in {} |-> 0] /\ link = NoDay
  /\ result = "ok" /\ linkOK = FALSE /\ lines = {}

Next ==
  \/ WriteSameDay \/ OpenFails \/ Clean \/ AppendLine
  \/ \E target \in {Today, NoDay, link} : Rotate(target)
  \/ Close \/ NewRotateWriter
  \/ Tick

Spec == Init /\ [][Next]_vars

-----------------------------------------------------------------------------
(***************************************************************************)
(* A line is on disk for MaxAgeDays after it was written: pruning takes    *)
(* neither the file being written nor one a restarted process wrote to     *)
(* recently, whenever midnight falls.                                      *)
(***************************************************************************)
RecentLinesKept ==
  \A l \in lines :
    MaxAgeDays > 0 /\ now - l[2] < MaxAgeDays * Hours => l[1] \in DOMAIN disk

(***************************************************************************)
(* The writer "maintains a stable symlink pointing at the current file"    *)
(* (rotate_writer.go:12), unless the link itself could not be made: after  *)
(* any sequence of writes, closes and restarts it names the open file, and *)
(* that file exists.                                                       *)
(***************************************************************************)
LinkNamesOpenFile ==
  file # NoDay /\ linkOK => link = file /\ file \in DOMAIN disk

(***************************************************************************)
(* A line goes to the file of its own day, or of the day before when       *)
(* midnight passes inside Write.                                           *)
(***************************************************************************)
LinesInTheirDay == \A l \in lines : Day(l[2]) - l[1] \in {0, 1}
=============================================================================
