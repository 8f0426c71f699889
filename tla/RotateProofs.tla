---------------------------- MODULE RotateProofs ----------------------------
(***************************************************************************)
(* Theorems about RotateWriter, for every length of a day, every age at    *)
(* which files are pruned but one day, and every run of the clock.         *)
(***************************************************************************)
EXTENDS RotateWriter, TLAPS

(***************************************************************************)
(* Files are kept for two days or more, or for ever.  With one day the     *)
(* theorems below fail: see PrunesNotToday.                                *)
(***************************************************************************)
KeepsTwoDays == MaxAgeDays # 1

-----------------------------------------------------------------------------
(* the inductive invariant                                                 *)

StateType ==
  /\ now \in Nat /\ began \in Nat /\ Hours <= now /\ began <= now
  /\ pc \in {"idle", "clean", "append"}
  /\ file \in Nat /\ date \in Nat
  /\ DOMAIN disk \subseteq Nat
  /\ \A d \in DOMAIN disk : disk[d] \in Nat
  /\ lines \subseteq Nat \X Nat

(***************************************************************************)
(* The open file is the one of w.date, and while a Write is under way that *)
(* is the day on which it read the clock, less than a day ago.             *)
(***************************************************************************)
OpenFileIsDated ==
  /\ file # NoDay => file = date
  /\ pc # "idle" => date = Day(began) /\ now < began + Hours

(***************************************************************************)
(* The file of a day was last modified on that day or later.               *)
(***************************************************************************)
TouchedSinceItsDay == \A d \in DOMAIN disk : d * Hours <= disk[d]

(***************************************************************************)
(* The open file is in the directory, and the link names it.               *)
(***************************************************************************)
OpenFileOnDisk ==
  file # NoDay => file \in DOMAIN disk /\ (linkOK => link = file)

(***************************************************************************)
(* A line young enough to be kept is in a file modified no earlier.        *)
(***************************************************************************)
LinesCovered ==
  \A l \in lines :
    /\ l[2] <= now
    /\ MaxAgeDays > 0 /\ now - l[2] < MaxAgeDays * Hours
         => l[1] \in DOMAIN disk /\ l[2] <= disk[l[1]]

RotateInv ==
  /\ StateType /\ OpenFileIsDated /\ TouchedSinceItsDay /\ OpenFileOnDisk
  /\ LinesCovered /\ LinesInTheirDay

-----------------------------------------------------------------------------
(* arithmetic of days                                                      *)

(***************************************************************************)
(* A time lies in its day.                                                 *)
(***************************************************************************)
LEMMA DayBounds ==
  ASSUME NEW t \in Nat
  PROVE  Day(t) \in Nat /\ Day(t) * Hours <= t /\ t < Day(t) * Hours + Hours
BY RotateConstants DEF Day

(***************************************************************************)
(* Less than a day later it is the same day or the next one.               *)
(***************************************************************************)
LEMMA DayNext ==
  ASSUME NEW t \in Nat, NEW u \in Nat, t <= u, u < t + Hours
  PROVE  Day(u) - Day(t) \in {0, 1}
<1>1. PICK a \in Nat : a = Day(t) /\ a * Hours <= t /\ t < a * Hours + Hours
  BY DayBounds
<1>2. PICK b \in Nat : b = Day(u) /\ b * Hours <= u /\ u < b * Hours + Hours
  BY DayBounds
<1>3. Hours \in Nat /\ Hours > 0
  BY RotateConstants
<1>4. b >= a
  BY <1>1, <1>2, <1>3
<1>5. b * Hours < (a + 2) * Hours
  BY <1>1, <1>2, <1>3
<1>6. b < a + 2
  BY <1>3, <1>5
<1> QED BY <1>1, <1>2, <1>4, <1>6

(***************************************************************************)
(* The clock starts at day one, so no day is NoDay.                        *)
(***************************************************************************)
LEMMA TodayIsADay == StateType => Today \in Nat /\ Today # NoDay
<1> SUFFICES ASSUME StateType PROVE Today \in Nat /\ Today # NoDay
  OBVIOUS
<1>1. now \in Nat /\ Hours <= now /\ Hours \in Nat \ {0}
  BY RotateConstants DEF StateType
<1>2. Day(now) \in Nat /\ now < Day(now) * Hours + Hours
  BY <1>1, DayBounds
<1>3. Day(now) # 0
  BY <1>1, <1>2
<1> QED BY <1>2, <1>3 DEF Today, NoDay

(***************************************************************************)
(* clean never removes the file that the Write around it has opened, which *)
(* may be an old file of the same day: the cutoff is more than a day ago.  *)
(* With MaxAgeDays = 1 it is not, when midnight passes between the two     *)
(* reads of the clock: a file last written in the first moments of its day *)
(* and opened again in the last ones is removed.                           *)
(***************************************************************************)
LEMMA PrunesNotToday ==
  ASSUME KeepsTwoDays, RotateInv, pc = "clean", file # NoDay
  PROVE  file \in DOMAIN disk /\ ~ Expired(file)
<1>1. file = Day(began) /\ now < began + Hours /\ file \in DOMAIN disk
  BY DEF RotateInv, OpenFileIsDated, OpenFileOnDisk
<1>2. file * Hours <= disk[file] /\ disk[file] \in Nat
  BY <1>1 DEF RotateInv, TouchedSinceItsDay, StateType
<1>3. began \in Nat /\ now \in Nat
  BY DEF RotateInv, StateType
<1>4. file \in Nat /\ began < file * Hours + Hours
  BY <1>1, <1>3, DayBounds
<1>5. Hours \in Nat /\ MaxAgeDays \in Int
  BY RotateConstants
<1>6. ASSUME MaxAgeDays > 0
      PROVE  MaxAgeDays * Hours >= 2 * Hours
  BY <1>5, <1>6 DEF KeepsTwoDays
<1>7. PICK h \in Int : h = file * Hours
  BY <1>4, <1>5
<1>8. PICK m \in Int : m = MaxAgeDays * Hours
  BY <1>5
<1> QED
  BY <1>1, <1>2, <1>3, <1>4, <1>5, <1>6, <1>7, <1>8 DEF Expired

-----------------------------------------------------------------------------
(* the steps                                                               *)

(***************************************************************************)
(* A writer starts in the invariant.                                       *)
(***************************************************************************)
LEMMA RotateInit == Init => RotateInv
BY RotateConstants
   DEF Init, RotateInv, StateType, OpenFileIsDated, TouchedSinceItsDay,
       OpenFileOnDisk, LinesCovered, LinesInTheirDay, NoDay

(***************************************************************************)
(* A write to a file of the directory, or its creation, at the present     *)
(* time: the directory keeps what RotateInv says of it.                    *)
(***************************************************************************)
LEMMA TouchKeeps ==
  ASSUME RotateInv, NEW d \in Nat, d <= Day(now), disk' = Touched(d, now),
         now' = now
  PROVE  /\ DOMAIN disk' = DOMAIN disk \cup {d}
         /\ \A e \in DOMAIN disk' : disk'[e] \in Nat
         /\ TouchedSinceItsDay'
         /\ \A e \in DOMAIN disk : disk[e] <= disk'[e] \/ e = d
         /\ disk'[d] = now
<1>1. DOMAIN disk' = DOMAIN disk \cup {d}
  BY DEF Touched
<1>2. \A e \in DOMAIN disk' : disk'[e] = IF e = d THEN now ELSE disk[e]
  BY DEF Touched
<1>3. now \in Nat /\ \A e \in DOMAIN disk : disk[e] \in Nat
  BY DEF RotateInv, StateType
<1>4. d * Hours <= now
  <2>1. Day(now) \in Nat /\ Day(now) * Hours <= now
    BY <1>3, DayBounds
  <2>2. d * Hours <= Day(now) * Hours
    BY <2>1, RotateConstants
  <2>3. d * Hours \in Int /\ Day(now) * Hours \in Int
    BY <2>1, RotateConstants
  <2> QED BY <1>3, <2>1, <2>2, <2>3
<1>5. TouchedSinceItsDay'
  BY <1>1, <1>2, <1>4 DEF RotateInv, TouchedSinceItsDay
<1>6. \A e \in DOMAIN disk : e # d => disk'[e] = disk[e]
  BY <1>1, <1>2
<1> QED BY <1>1, <1>2, <1>3, <1>5, <1>6

(***************************************************************************)
(* Every step of the writer, of the clock and of the machine keeps the     *)
(* invariant.                                                              *)
(***************************************************************************)
LEMMA RotateStep ==
  ASSUME KeepsTwoDays, RotateInv, [Next]_vars
  PROVE  RotateInv'
<1> USE DEF RotateInv
<1>h. Hours \in Nat \ {0} /\ MaxAgeDays \in Int /\ MaxAgeDays * Hours \in Int
  BY RotateConstants
<1>t. Today \in Nat /\ Today # NoDay /\ Today = Day(now)
  BY TodayIsADay DEF Today
<1>1. CASE WriteSameDay
  BY <1>1, <1>t, <1>h
     DEF WriteSameDay, StateType, OpenFileIsDated, TouchedSinceItsDay,
         OpenFileOnDisk, LinesCovered, LinesInTheirDay
<1>2. CASE OpenFails
  BY <1>2 DEF OpenFails, StateType, OpenFileIsDated, TouchedSinceItsDay,
         OpenFileOnDisk, LinesCovered, LinesInTheirDay, NoDay
<1>3. CASE Clean
  <2>1. /\ DOMAIN disk' = {e \in DOMAIN disk : ~ Expired(e)}
        /\ \A d \in DOMAIN disk' : disk'[d] = disk[d]
    BY <1>3 DEF Clean
  <2>2. UNCHANGED <<now, began, file, date, link, linkOK, lines>>
    BY <1>3 DEF Clean
  <2>3. StateType' /\ OpenFileIsDated' /\ TouchedSinceItsDay'
    BY <1>3, <2>1, <2>2
       DEF Clean, StateType, OpenFileIsDated, TouchedSinceItsDay, Day
  <2>4. OpenFileOnDisk'
    <3>1. file # NoDay => file \in DOMAIN disk /\ ~ Expired(file)
      BY <1>3, PrunesNotToday DEF Clean
    <3> QED BY <2>1, <2>2, <3>1 DEF OpenFileOnDisk
  <2>5. LinesCovered'
    <3> SUFFICES ASSUME NEW l \in lines, MaxAgeDays > 0,
                        now - l[2] < MaxAgeDays * Hours
                 PROVE  l[1] \in DOMAIN disk' /\ l[2] <= disk'[l[1]]
      BY <2>2 DEF LinesCovered
    <3>1. l[1] \in DOMAIN disk /\ l[2] <= disk[l[1]]
      BY DEF LinesCovered
    <3>2. l[2] \in Nat /\ now \in Nat /\ disk[l[1]] \in Nat
      BY <3>1 DEF StateType
    <3>3. ~ (disk[l[1]] <= now - MaxAgeDays * Hours)
      BY <1>h, <3>1, <3>2
    <3> QED BY <2>1, <3>1, <3>3 DEF Expired
  <2> QED BY <2>2, <2>3, <2>4, <2>5 DEF LinesInTheirDay, Day
<1>4. CASE AppendLine
  <2>0. now' = now /\ pc' = "idle" /\ UNCHANGED <<began, file, date, link, linkOK>>
    BY <1>4 DEF AppendLine
  <2>1. CASE file = NoDay
    BY <1>4, <2>1 DEF AppendLine, StateType, OpenFileIsDated,
       TouchedSinceItsDay, OpenFileOnDisk, LinesCovered, LinesInTheirDay
  <2>2. CASE file # NoDay
    <3>1. /\ file \in DOMAIN disk /\ file \in Nat
          /\ disk' = Touched(file, now) /\ lines' = lines \cup {<<file, now>>}
      BY <1>4, <2>2 DEF AppendLine, OpenFileOnDisk, StateType
    <3>2. file = Day(began) /\ began <= now /\ now < began + Hours
          /\ began \in Nat /\ now \in Nat
      BY <1>4, <2>2 DEF AppendLine, OpenFileIsDated, StateType
    <3>3. Day(now) - file \in {0, 1} /\ Day(now) \in Nat
      BY <3>2, DayNext, DayBounds
    <3>4. file <= Day(now)
      BY <3>1, <3>3
    <3>5. /\ DOMAIN disk' = DOMAIN disk
          /\ \A e \in DOMAIN disk' : disk'[e] \in Nat
          /\ TouchedSinceItsDay'
          /\ \A e \in DOMAIN disk : disk[e] <= disk'[e] \/ e = file
          /\ disk'[file] = now
      BY <2>0, <3>1, <3>4, TouchKeeps
    <3>6. StateType' /\ OpenFileIsDated' /\ OpenFileOnDisk'
      BY <2>0, <3>1, <3>2, <3>5 DEF StateType, OpenFileIsDated, OpenFileOnDisk
    <3>7. LinesCovered'
      <4> SUFFICES ASSUME NEW l \in lines'
                   PROVE  /\ l[2] <= now
                          /\ MaxAgeDays > 0 /\ now - l[2] < MaxAgeDays * Hours
                               => l[1] \in DOMAIN disk' /\ l[2] <= disk'[l[1]]
        BY <2>0 DEF LinesCovered
      <4>1. CASE l = <<file, now>>
        BY <3>1, <3>2, <3>5, <4>1
      <4>2. CASE l \in lines
        <5>1. /\ l[2] <= now /\ l[2] \in Nat
              /\ MaxAgeDays > 0 /\ now - l[2] < MaxAgeDays * Hours
                   => l[1] \in DOMAIN disk /\ l[2] <= disk[l[1]]
          BY <4>2 DEF LinesCovered, StateType
        <5>2. \A e \in DOMAIN disk : disk[e] \in Nat
          BY DEF StateType
        <5> QED BY <3>2, <3>5, <5>1, <5>2
      <4> QED BY <3>1, <4>1, <4>2
    <3>8. LinesInTheirDay'
      <4> SUFFICES ASSUME NEW l \in lines' PROVE Day(l[2]) - l[1] \in {0, 1}
        BY DEF LinesInTheirDay, Day
      <4>1. CASE l \in lines
        BY <4>1 DEF LinesInTheirDay
      <4>2. CASE l = <<file, now>>
        BY <3>3, <4>2
      <4> QED BY <3>1, <4>1, <4>2
    <3> QED BY <3>5, <3>6, <3>7, <3>8
  <2> QED BY <2>1, <2>2
<1>5. ASSUME NEW target \in {Today, NoDay, link}, Rotate(target)
      PROVE  RotateInv'
  <2>1. UNCHANGED <<now, lines>> /\ file' = Today /\ date' = Today
    BY <1>5 DEF Rotate
  <2>2. /\ DOMAIN disk' = DOMAIN disk \cup {Today}
        /\ \A e \in DOMAIN disk' : disk'[e] \in Nat
        /\ TouchedSinceItsDay'
        /\ \A e \in DOMAIN disk : disk'[e] = disk[e]
    <3>1. CASE Today \in DOMAIN disk
      BY <1>5, <3>1 DEF Rotate, StateType, TouchedSinceItsDay
    <3>2. CASE Today \notin DOMAIN disk
      <4>1. disk' = Touched(Today, now)
        BY <1>5, <3>2 DEF Rotate
      <4>2. Today <= Day(now)
        BY <1>t
      <4>3. \A e \in DOMAIN disk : disk'[e] = disk[e]
        BY <3>2, <4>1 DEF Touched
      <4> QED BY <1>t, <2>1, <4>1, <4>2, <4>3, TouchKeeps
    <3> QED BY <3>1, <3>2
  <2>3. StateType' /\ OpenFileIsDated'
    BY <1>5, <1>t, <1>h, <2>1, <2>2 DEF Rotate, StateType, OpenFileIsDated, Day
  <2>4. OpenFileOnDisk'
    BY <1>5, <2>2 DEF Rotate, OpenFileOnDisk
  <2>5. LinesCovered' /\ LinesInTheirDay'
    BY <2>1, <2>2 DEF LinesCovered, LinesInTheirDay, Day
  <2> QED BY <2>2, <2>3, <2>4, <2>5
<1>6. CASE Close
  BY <1>6 DEF Close, StateType, OpenFileIsDated, TouchedSinceItsDay,
         OpenFileOnDisk, LinesCovered, LinesInTheirDay, NoDay
<1>7. CASE NewRotateWriter
  BY <1>7 DEF NewRotateWriter, StateType, OpenFileIsDated, TouchedSinceItsDay,
         OpenFileOnDisk, LinesCovered, LinesInTheirDay, NoDay
<1>8. CASE Tick
  BY <1>8, <1>h
     DEF Tick, StateType, OpenFileIsDated, TouchedSinceItsDay, OpenFileOnDisk,
         LinesCovered, LinesInTheirDay
<1>9. CASE UNCHANGED vars
  BY <1>9 DEF vars, StateType, OpenFileIsDated, TouchedSinceItsDay,
         OpenFileOnDisk, LinesCovered, LinesInTheirDay, Day
<1> QED BY <1>1, <1>2, <1>3, <1>4, <1>5, <1>6, <1>7, <1>8, <1>9 DEF Next

(***************************************************************************)
(* The invariant holds of every behaviour of the writer.                   *)
(***************************************************************************)
LEMMA RotateInvariant ==
  ASSUME KeepsTwoDays
  PROVE  Spec => []RotateInv
<1>1. RotateInv /\ [Next]_vars => RotateInv'
  BY RotateStep
<1> QED BY <1>1, RotateInit, PTL DEF Spec

-----------------------------------------------------------------------------
(***************************************************************************)
(* clean takes no file that holds a line younger than MaxAgeDays, whenever *)
(* midnight falls and however often the process is restarted.              *)
(***************************************************************************)
THEOREM RetentionHolds ==
  ASSUME KeepsTwoDays
  PROVE  Spec => []RecentLinesKept
<1>1. RotateInv => RecentLinesKept
  BY DEF RotateInv, LinesCovered, RecentLinesKept
<1> QED BY <1>1, RotateInvariant, PTL

(***************************************************************************)
(* The link names the open file, which is in the directory.                *)
(***************************************************************************)
THEOREM LinkIsCurrent ==
  ASSUME KeepsTwoDays
  PROVE  Spec => []LinkNamesOpenFile
<1>1. RotateInv => LinkNamesOpenFile
  BY DEF RotateInv, OpenFileOnDisk, LinkNamesOpenFile
<1> QED BY <1>1, RotateInvariant, PTL

(***************************************************************************)
(* The part of the invariant that says which file a line goes to does not  *)
(* depend on what is pruned.                                               *)
(***************************************************************************)
LEMMA DatedStep ==
  ASSUME StateType, OpenFileIsDated, LinesInTheirDay, [Next]_vars
  PROVE  (StateType /\ OpenFileIsDated /\ LinesInTheirDay)'
<1>h. Hours \in Nat \ {0}
  BY RotateConstants
<1>t. Today \in Nat /\ Today # NoDay /\ Today = Day(now)
  BY TodayIsADay DEF Today
<1>1. CASE WriteSameDay
  BY <1>1, <1>t, <1>h
     DEF WriteSameDay, StateType, OpenFileIsDated, LinesInTheirDay
<1>2. CASE OpenFails
  BY <1>2 DEF OpenFails, StateType, OpenFileIsDated, LinesInTheirDay, NoDay
<1>3. CASE Clean
  BY <1>3 DEF Clean, StateType, OpenFileIsDated, LinesInTheirDay
<1>4. CASE AppendLine
  <2>1. StateType' /\ OpenFileIsDated'
    <3>1. DOMAIN disk' \subseteq Nat /\ \A d \in DOMAIN disk' : disk'[d] \in Nat
      <4>1. CASE disk' = disk
        BY <4>1 DEF StateType
      <4>2. CASE disk' = Touched(file, now)
        BY <4>2 DEF StateType, Touched
      <4> QED BY <1>4, <4>1, <4>2 DEF AppendLine
    <3>2. lines' \subseteq Nat \X Nat
      BY <1>4 DEF AppendLine, StateType
    <3>3. pc' = "idle" /\ UNCHANGED <<now, began, file, date>>
      BY <1>4 DEF AppendLine
    <3>4. StateType'
      BY <3>1, <3>2, <3>3 DEF StateType
    <3>5. OpenFileIsDated'
      BY <3>3 DEF OpenFileIsDated
    <3> QED BY <3>4, <3>5
  <2>2. file # NoDay => Day(now) - file \in {0, 1}
    <3>1. file # NoDay => file = Day(began) /\ began <= now /\ now < began + Hours
      BY <1>4 DEF AppendLine, OpenFileIsDated, StateType
    <3> QED BY <3>1, DayNext DEF StateType
  <2>3. (lines' = lines) \/ (file # NoDay /\ lines' = lines \cup {<<file, now>>})
    BY <1>4 DEF AppendLine
  <2>4. \A l \in lines' : Day(l[2]) - l[1] \in {0, 1}
    BY <2>2, <2>3 DEF LinesInTheirDay
  <2> QED BY <2>1, <2>4 DEF LinesInTheirDay, Day
<1>5. ASSUME NEW target \in {Today, NoDay, link}, Rotate(target)
      PROVE  (StateType /\ OpenFileIsDated /\ LinesInTheirDay)'
  BY <1>5, <1>t, <1>h
     DEF Rotate, Touched, StateType, OpenFileIsDated, LinesInTheirDay
<1>6. CASE Close
  BY <1>6 DEF Close, StateType, OpenFileIsDated, LinesInTheirDay, NoDay
<1>7. CASE NewRotateWriter
  BY <1>7 DEF NewRotateWriter, StateType, OpenFileIsDated, LinesInTheirDay, NoDay
<1>8. CASE Tick
  BY <1>8, <1>h DEF Tick, StateType, OpenFileIsDated, LinesInTheirDay
<1>9. CASE UNCHANGED vars
  BY <1>9 DEF vars, StateType, OpenFileIsDated, LinesInTheirDay, Day
<1> QED BY <1>1, <1>2, <1>3, <1>4, <1>5, <1>6, <1>7, <1>8, <1>9 DEF Next

(***************************************************************************)
(* A line is in the file of the day it was written, or of the day before,  *)
(* however many days files are kept.                                       *)
(***************************************************************************)
THEOREM LinesAreDated == Spec => []LinesInTheirDay
<1>1. Init => StateType /\ OpenFileIsDated /\ LinesInTheirDay
  BY RotateInit DEF RotateInv
<1>2. /\ StateType /\ OpenFileIsDated /\ LinesInTheirDay /\ [Next]_vars
      => (StateType /\ OpenFileIsDated /\ LinesInTheirDay)'
  BY DatedStep
<1> QED BY <1>1, <1>2, PTL DEF Spec
=============================================================================
