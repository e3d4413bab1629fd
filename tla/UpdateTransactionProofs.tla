----------------------- MODULE UpdateTransactionProofs -----------------------
(***************************************************************************)
(* Whatever fails, dies or loses power, the installation can be recovered  *)
(* to one whole release, and the transaction implements the atomic one, for *)
(* every plan, platform and number of attempts, failures and crashes.      *)
(*                                                                         *)
(* AlwaysRecoverable is not inductive: it says nothing of what the updater *)
(* has done so far.  The strengthening says what the files must be at each *)
(* place of the program, that a power loss cannot change what is decided,  *)
(* and that the bytes of a new journal reach no other journal file.        *)
(***************************************************************************)
EXTENDS UpdateTransaction, TLAPS

\* Where the entry counter points at an entry of the plan.
WalkPlaces ==
  {"restore", "discard", "sweepTemporary", "sweepBackup", "prepare", "fill", "replace", "place"}
\* A journal file has been made whose directory entry is not synced.
FreshPlaces == {"write", "syncHeader", "syncEntry"}
ReplacePlaces == {"prepare", "fill", "replace", "place", "commit", "syncCommit"}
ApplyPlaces == {"create", "abandon"} \cup FreshPlaces \cup ReplacePlaces
CleanupPlaces == {"audit", "sweepTemporary", "sweepBackup", "sweepJournal"}

\* What the types do not say: each walk stays in the plan, and every journal file without
\* a synced entry but the newest has cost a failure or a crash.
Bounded ==
  /\ pc.at \in WalkPlaces => pc.entry \in 1..Len(Plan)
  /\ disk.serial <= faults + crashes + (IF pc.at \in FreshPlaces THEN 1 ELSE 0)
  /\ \A s \in survivors : s.serial <= disk.serial
  /\ pc.at \in {"inspect", "plan"} => ~pc.applying

Clean(d) == \A i \in Entries : d.temporary[i] = "absent" /\ d.backup[i] = "absent"

\* An entry that the second pass has still to replace, and one that it has replaced.
Waiting(d, i) ==
  d.target[i] = Original(i) /\ d.backup[i] = "absent" /\ d.temporary[i] = Expected(i)
Replaced(d, i) ==
  d.target[i] = Expected(i) /\ d.backup[i] = Original(i) /\ d.temporary[i] = "absent"

\* Recoverable, and also after a power loss has decided what unsynced bytes read as.
Sound(d) ==
  /\ d.journal = "absent" => Whole(d) /\ Clean(d)
  /\ d.journal \in {"torn", "written"} => RolledBack(d)
  /\ d.journal = "header" => \A i \in Entries : Restorable(d, i)
  /\ d.journal = "committing" => \A i \in Entries : Replaced(d, i)
  /\ d.journal = "committed" => Installed(d)

\* The release that the journal and the files have settled on.
DecidedNew(d) == d.journal = "committed" \/ (d.journal = "absent" /\ ~WhollyOld(d))

\* Every survivor can be recovered, to the release that is decided now.
SurvivorsSound ==
  \A s \in survivors :
    /\ Sound(s)
    /\ DecidedNew(s) <=> DecidedNew(disk)
    /\ s.journal = "committing" => pc.at = "syncCommit"

\* Bytes written to the journal now reach no other survivor.
OnlyJournal == \A s \in survivors : s.journal # "absent" /\ s.serial = disk.serial => s = disk

\* The places of the header: everything is as it was.
HeaderPlaces ==
  /\ pc.at = "plan" => disk.journal = "absent"
  /\ pc.at = "create" => disk.journal = "absent" /\ RolledBack(disk)
  /\ pc.at = "write" => disk.journal = "torn" /\ OnlyJournal
  /\ pc.at = "syncHeader" => disk.journal = "written" /\ OnlyJournal
  /\ pc.at = "syncEntry" => disk.journal = "header" /\ RolledBack(disk)
  /\ pc.at = "abandon" => disk.journal \in {"torn", "written", "header"} /\ RolledBack(disk)

\* The two passes over the plan and the commit.
PassPlaces ==
  /\ pc.at \in {"prepare", "fill", "replace", "place", "commit"} => disk.journal = "header"
  /\ pc.at = "syncCommit" => disk.journal = "committing"
  /\ pc.at \in ReplacePlaces \ {"fill"} => survivors = {disk}
  /\ pc.at \in {"prepare", "fill"} =>
       \A i \in Entries :
         /\ disk.target[i] = Original(i) /\ disk.backup[i] = "absent"
         /\ i < pc.entry => disk.temporary[i] = Expected(i)
         /\ i > pc.entry \/ (pc.at = "prepare" /\ i = pc.entry) => disk.temporary[i] = "absent"
  /\ pc.at \in {"replace", "place"} =>
       \A i \in Entries :
         /\ i < pc.entry => Replaced(disk, i)
         /\ i > pc.entry \/ (pc.at = "replace" /\ i = pc.entry) => Waiting(disk, i)
  /\ pc.at = "place" =>
       /\ disk.target[pc.entry] = "absent" /\ disk.backup[pc.entry] = Original(pc.entry)
       /\ disk.temporary[pc.entry] = Expected(pc.entry)
       /\ TargetExisted(pc.entry) /\ HasSource(pc.entry)
  /\ pc.at \in {"commit", "syncCommit"} => \A i \in Entries : Replaced(disk, i)

\* Rollback runs under an uncommitted journal, clean-up under a committed one.
EndPlaces ==
  /\ pc.at \in {"restore", "discard", "recheck", "unlink"} => disk.journal \in {"written", "header"}
  /\ pc.at = "unlink" => RolledBack(disk)
  /\ pc.at \in CleanupPlaces => disk.journal = "committed"
  /\ pc.at \in {"sweepTemporary", "sweepBackup"} =>
       \A i \in Entries : i < pc.entry => disk.temporary[i] = "absent" /\ disk.backup[i] = "absent"
  /\ pc.at = "sweepBackup" => disk.temporary[pc.entry] = "absent"
  /\ pc.at = "sweepJournal" => Clean(disk)

\* A release that changes nothing is never applied.
Changing == \E i \in Entries : Original(i) # Expected(i)
OnlyChanges ==
  Changing \/ (pc.at = "off" /\ \A s \in survivors : s.journal = "absent" /\ WhollyOld(s))

Inv ==
  /\ TypeOK
  /\ Bounded
  /\ OnlyChanges
  /\ unsynced \/ (SurvivorsSound /\ HeaderPlaces /\ PassPlaces /\ EndPlaces)

-----------------------------------------------------------------------------
(* The types and the bounds. *)

Counters ==
  [at: Places, entry: 0..Len(Plan), failed: BOOLEAN, applying: BOOLEAN, update: BOOLEAN,
   attempt: 0..Attempts]

\* A program counter the updater can have: a walk is at an entry of the plan, and a launch
\* is not yet applying.
Fits(p) ==
  /\ p \in Counters
  /\ p.at \in WalkPlaces => p.entry \in 1..Len(Plan)
  /\ p.at \in {"inspect", "plan"} => ~p.applying

\* The plan has entries, and their number is a number.
LEMMA PlanFacts == Len(Plan) \in Nat /\ Len(Plan) >= 1 /\ Entries = 1..Len(Plan)
  BY PlanAssumption DEF Entries

\* Every place but the walks can be entered with the entry counter as it is.
LEMMA FitsAt ==
  ASSUME Fits(pc), NEW place \in Places, place \in WalkPlaces => pc.at \in WalkPlaces,
         place \in {"inspect", "plan"} => ~pc.applying
  PROVE  Fits(At(place)) /\ At(place).at = place /\ At(place).entry = pc.entry
  <1>1. At(place) \in Counters
    BY DEF Fits, At, Counters
  <1>2. At(place).at = place /\ At(place).entry = pc.entry /\ At(place).applying = pc.applying
    BY DEF Fits, At, Counters
  <1> QED
    BY <1>1, <1>2 DEF Fits

\* A walk can be entered at any entry of the plan.
LEMMA FitsAtEntry ==
  ASSUME Fits(pc), NEW place \in WalkPlaces, NEW i \in Entries
  PROVE  Fits(AtEntry(place, i)) /\ AtEntry(place, i).at = place /\ AtEntry(place, i).entry = i
  <1>0. place \in Places /\ i \in 0..Len(Plan)
    BY PlanFacts DEF Places, WalkPlaces
  <1>1. AtEntry(place, i) \in Counters
    BY <1>0 DEF Fits, AtEntry, Counters
  <1>2. AtEntry(place, i).at = place /\ AtEntry(place, i).entry = i
    BY DEF Fits, AtEntry, Counters
  <1>3. place \notin {"inspect", "plan"}
    BY DEF WalkPlaces
  <1> QED
    BY <1>1, <1>2, <1>3, PlanFacts DEF Fits

\* The ends of an attempt: nothing runs, or recovery is tried again.
LEMMA FitsEnds ==
  ASSUME Fits(pc)
  PROVE  /\ Fits(Off) /\ Off.at = "off"
         /\ Fits(GiveUp) /\ GiveUp.at \in {"off", "inspect"}
         /\ Fits(Return) /\ Return.at \in {"off", "plan"}
         /\ pc.applying => Return = Off /\ GiveUp = Off
  <1>1. Fits(Off) /\ Off.at = "off"
    <2>1. Off \in Counters
      BY PlanFacts, BoundAssumption DEF Off, Counters, Places
    <2>2. Off.at = "off"
      BY DEF Off
    <2> QED
      BY <2>1, <2>2 DEF Fits, WalkPlaces
  <1>2. Fits(GiveUp) /\ GiveUp.at \in {"off", "inspect"}
    <2>1. CASE ~pc.applying /\ pc.attempt < Attempts
      <3> DEFINE again ==
            [Off EXCEPT !.at = "inspect", !.update = pc.update, !.attempt = pc.attempt + 1]
      <3>0. GiveUp = again
        BY <2>1 DEF GiveUp
      <3>1. pc.attempt + 1 \in 0..Attempts /\ pc.update \in BOOLEAN
        BY <2>1, BoundAssumption DEF Fits, Counters
      <3>2. again \in Counters
        BY <3>1, <1>1 DEF Fits, Counters, Places
      <3>3. again.at = "inspect" /\ again.applying = FALSE
        BY DEF Off
      <3> HIDE DEF again
      <3> QED
        BY <3>0, <3>2, <3>3 DEF Fits, WalkPlaces
    <2>2. CASE ~(~pc.applying /\ pc.attempt < Attempts)
      BY <2>2, <1>1 DEF GiveUp
    <2> QED
      BY <2>1, <2>2
  <1>3. Fits(Return) /\ Return.at \in {"off", "plan"}
    BY <1>1, FitsAt DEF Return, Places, WalkPlaces
  <1> QED
    BY <1>1, <1>2, <1>3 DEF Return, GiveUp

\* The walks of rollback.
LEMMA FitsRollBack ==
  ASSUME Fits(pc)
  PROVE  /\ Fits(RollBack) /\ RollBack.at = "restore"
         /\ \A failure \in BOOLEAN : pc.at \in WalkPlaces =>
              /\ Fits(PreviousEntry(failure))
              /\ PreviousEntry(failure).at \in {"restore", "recheck", "off", "inspect"}
  <1>1. Fits(RollBack) /\ RollBack.at = "restore"
    <2>0. "restore" \in Places /\ Len(Plan) \in 0..Len(Plan)
      BY PlanFacts DEF Places
    <2>1. RollBack \in Counters
      BY <2>0 DEF RollBack, Fits, Counters
    <2>2. RollBack.at = "restore" /\ RollBack.entry = Len(Plan)
      BY DEF RollBack, Fits, Counters
    <2> QED
      BY <2>1, <2>2, PlanFacts DEF Fits
  <1>2. ASSUME NEW failure \in BOOLEAN, pc.at \in WalkPlaces
        PROVE  /\ Fits(PreviousEntry(failure))
               /\ PreviousEntry(failure).at \in {"restore", "recheck", "off", "inspect"}
    <2>1. CASE pc.entry > 1
      <3> DEFINE bad == pc.failed \/ failure
                 previous == [pc EXCEPT !.at = "restore", !.entry = pc.entry - 1, !.failed = bad]
      <3>0. PreviousEntry(failure) = previous
        BY <2>1 DEF PreviousEntry
      <3>1. bad \in BOOLEAN
        BY <1>2
      <3>2. pc.entry - 1 \in 1..Len(Plan) /\ pc.entry - 1 \in 0..Len(Plan)
        BY <2>1, PlanFacts DEF Fits, Counters
      <3> HIDE DEF bad
      <3>3. previous \in Counters
        BY <3>1, <3>2 DEF Fits, Counters, Places
      <3>4. previous.at = "restore" /\ previous.entry = pc.entry - 1
        BY DEF Fits, Counters
      <3> HIDE DEF previous
      <3> QED
        BY <3>0, <3>2, <3>3, <3>4 DEF Fits
    <2>2. CASE ~(pc.entry > 1) /\ (pc.failed \/ failure)
      BY <2>2, FitsEnds DEF PreviousEntry
    <2>3. CASE ~(pc.entry > 1) /\ ~(pc.failed \/ failure)
      BY <2>3, <1>2, FitsAt DEF PreviousEntry, Places, WalkPlaces
    <2> QED
      BY <2>1, <2>2, <2>3
  <1> QED
    BY <1>1, <1>2

\* The passes of an apply and of a clean-up.
LEMMA FitsNextEntry ==
  ASSUME Fits(pc), pc.at \in WalkPlaces, NEW place \in WalkPlaces, NEW after, Fits(after)
  PROVE  /\ Fits(NextEntry(place, after))
         /\ pc.entry < Len(Plan) => /\ NextEntry(place, after).at = place
                                    /\ NextEntry(place, after).entry = pc.entry + 1
         /\ ~(pc.entry < Len(Plan)) => NextEntry(place, after) = after
  <1>1. CASE pc.entry < Len(Plan)
    <2>1. pc.entry + 1 \in Entries
      BY <1>1, PlanFacts DEF Fits, Counters
    <2> QED
      BY <2>1, <1>1, FitsAtEntry DEF NextEntry
  <1>2. CASE ~(pc.entry < Len(Plan))
    BY <1>2 DEF NextEntry
  <1> QED
    BY <1>1, <1>2

\* A sync of the directory forgets which journal file it is, and nothing else.
LEMMA SyncedFields ==
  ASSUME NEW d \in Disks
  PROVE  /\ Synced(d) \in Disks
         /\ Synced(d).serial = 0 /\ Synced(d).target = d.target /\ Synced(d).journal = d.journal
         /\ Synced(d).temporary = d.temporary /\ Synced(d).backup = d.backup
  <1>1. 0 \in 0..(MaxFaults + MaxCrashes + 1)
    BY BoundAssumption
  <1>2. Synced(d) \in Disks
    BY <1>1 DEF Synced, Disks
  <1> QED
    BY <1>2 DEF Synced, Disks

\* A disk state with these files, and the journal of another one.
Files(e, target, temporary, backup, d) ==
  /\ e \in Disks
  /\ e.target = target /\ e.temporary = temporary /\ e.backup = backup
  /\ e.journal = d.journal /\ e.serial = d.serial

\* The renames of the updater.
LEMMA MoveFields ==
  ASSUME NEW d \in Disks, NEW i \in Entries
  PROVE  /\ Files(MoveToBackup(d, i), [d.target EXCEPT ![i] = "absent"], d.temporary,
                  [d.backup EXCEPT ![i] = d.target[i]], d)
         /\ Files(MoveIntoPlace(d, i), [d.target EXCEPT ![i] = d.temporary[i]],
                  [d.temporary EXCEPT ![i] = "absent"], d.backup, d)
         /\ Files(MoveBack(d, i), [d.target EXCEPT ![i] = d.backup[i]], d.temporary,
                  [d.backup EXCEPT ![i] = "absent"], d)
  <1>1. MoveToBackup(d, i) \in Disks /\ MoveIntoPlace(d, i) \in Disks /\ MoveBack(d, i) \in Disks
    <2>1. MoveToBackup(d, i) \in Disks
      BY DEF MoveToBackup, Disks, Contents
    <2>2. MoveIntoPlace(d, i) \in Disks
      BY DEF MoveIntoPlace, Disks, Contents
    <2>3. MoveBack(d, i) \in Disks
      BY DEF MoveBack, Disks, Contents
    <2> QED
      BY <2>1, <2>2, <2>3
  <1>2. Files(MoveToBackup(d, i), [d.target EXCEPT ![i] = "absent"], d.temporary,
              [d.backup EXCEPT ![i] = d.target[i]], d)
    BY <1>1 DEF Files, MoveToBackup, Disks
  <1>3. Files(MoveIntoPlace(d, i), [d.target EXCEPT ![i] = d.temporary[i]],
              [d.temporary EXCEPT ![i] = "absent"], d.backup, d)
    BY <1>1 DEF Files, MoveIntoPlace, Disks
  <1>4. Files(MoveBack(d, i), [d.target EXCEPT ![i] = d.backup[i]], d.temporary,
              [d.backup EXCEPT ![i] = "absent"], d)
    BY <1>1 DEF Files, MoveBack, Disks
  <1> QED
    BY <1>2, <1>3, <1>4

\* The files that are written and removed.
LEMMA WriteFields ==
  ASSUME NEW d \in Disks, NEW i \in Entries, NEW c \in Contents
  PROVE  /\ Files([d EXCEPT !.target[i] = c], [d.target EXCEPT ![i] = c], d.temporary, d.backup, d)
         /\ Files([d EXCEPT !.temporary[i] = c], d.target, [d.temporary EXCEPT ![i] = c],
                  d.backup, d)
         /\ Files([d EXCEPT !.backup[i] = c], d.target, d.temporary, [d.backup EXCEPT ![i] = c], d)
  BY DEF Files, Disks

\* A journal that is removed or settled.
LEMMA JournalFields ==
  ASSUME NEW d \in Disks, NEW j \in Journals
  PROVE  LET e == [d EXCEPT !.journal = j]
         IN  /\ e \in Disks /\ e.journal = j /\ e.serial = d.serial /\ e.target = d.target
             /\ e.temporary = d.temporary /\ e.backup = d.backup
  BY DEF Disks

TypeInv == TypeOK /\ Bounded

\* A counter that fits is what the types and the bounds ask of it.
LEMMA TypesOfCounter == TypeInv => Fits(pc)
  BY DEF TypeInv, TypeOK, Bounded, Fits, Counters

\* A step that writes the directory: whatever its outcome, the types and bounds hold.
LEMMA StoreTypes ==
  ASSUME TypeInv, NEW new \in Disks, new.serial = disk.serial, NEW ok, NEW err,
         Fits(ok), Fits(err), Store(new, ok, err)
  PROVE  TypeInv'
  <1>0. Fits(Off)
    BY TypesOfCounter, FitsEnds
  <1>1. /\ disk \in Disks /\ disk.serial \in Nat /\ disk.serial <= faults + crashes + 1
        /\ faults \in Nat /\ crashes \in Nat
    BY BoundAssumption DEF Disks, TypeInv, TypeOK, Bounded
  <1>2. Fits(pc') /\ disk' \in Disks /\ disk' \in survivors' /\ survivors' \subseteq Disks
    BY <1>0, <1>1, SyncedFields DEF Store, TypeInv, TypeOK
  <1>3. faults' \in 0..MaxFaults /\ crashes' \in 0..MaxCrashes
    BY BoundAssumption DEF Store, TypeInv, TypeOK
  <1>4. disk'.serial <= faults' + crashes'
    BY <1>1, SyncedFields DEF Store
  <1>5. \A s \in survivors' : s.serial <= disk'.serial
    BY <1>1, SyncedFields DEF Store, TypeInv, Bounded
  <1>6. unsynced' \in BOOLEAN /\ platform' \in Platforms
    BY DEF Store, TypeInv, TypeOK
  <1>7. TypeOK'
    BY <1>2, <1>3, <1>6 DEF TypeOK, Fits, Counters
  <1>8. disk'.serial \in Nat /\ faults' \in Nat /\ crashes' \in Nat
    BY <1>2, <1>3, BoundAssumption DEF Disks
  <1>9. Bounded'
    BY <1>2, <1>4, <1>5, <1>8 DEF Bounded, Fits
  <1> QED
    BY <1>7, <1>9 DEF TypeInv

\* A step that only reads, outside of the three steps that make a journal file.
LEMMA ReadTypes ==
  ASSUME TypeInv, NEW to, Fits(to), pc.at \notin FreshPlaces, Read(to)
  PROVE  TypeInv'
  <1>1. TypeOK'
    BY DEF Read, TypeInv, TypeOK, Fits, Counters
  <1>2. disk.serial <= faults + crashes /\ disk.serial \in Nat /\ faults \in Nat /\ crashes \in Nat
    BY BoundAssumption DEF TypeInv, Bounded, TypeOK, Disks
  <1>3. Bounded'
    BY <1>2 DEF Read, TypeInv, Bounded, Fits
  <1> QED
    BY <1>1, <1>3 DEF TypeInv

\* A step that makes a directory entry without a sync; a new journal file takes the next
\* serial, and only from outside of the places that have one already.
LEMMA StoreUnsyncedTypes ==
  ASSUME TypeInv, pc.at \notin FreshPlaces, NEW new \in Disks, NEW ok, NEW err,
         Fits(ok), Fits(err), StoreUnsynced(new, ok, err),
         \/ new.serial = disk.serial
         \/ new.serial = disk.serial + 1 /\ ok.at \in FreshPlaces
  PROVE  TypeInv'
  <1>1. /\ disk \in Disks /\ disk.serial \in Nat /\ disk.serial <= faults + crashes
        /\ new.serial \in Nat /\ faults \in Nat /\ crashes \in Nat
    BY BoundAssumption DEF Disks, TypeInv, TypeOK, Bounded
  <1>2. Fits(pc') /\ disk' \in Disks /\ disk' \in survivors' /\ survivors' \subseteq Disks
    BY <1>1 DEF StoreUnsynced, TypeInv, TypeOK
  <1>3. faults' \in 0..MaxFaults /\ crashes' \in 0..MaxCrashes
    BY BoundAssumption DEF StoreUnsynced, TypeInv, TypeOK
  <1>4. disk'.serial <= faults' + crashes' + (IF pc'.at \in FreshPlaces THEN 1 ELSE 0)
    BY <1>1 DEF StoreUnsynced
  <1>5. \A s \in survivors' : s.serial <= disk'.serial
    <2>1. \A s \in survivors : s.serial <= disk.serial /\ s.serial \in Nat
      BY DEF TypeInv, TypeOK, Bounded, Disks
    <2> QED
      BY <1>1, <2>1 DEF StoreUnsynced
  <1>6. unsynced' \in BOOLEAN /\ platform' \in Platforms
    BY DEF StoreUnsynced, TypeInv, TypeOK
  <1>7. TypeOK'
    BY <1>2, <1>3, <1>6 DEF TypeOK, Fits, Counters
  <1>9. Bounded'
    BY <1>2, <1>4, <1>5 DEF Bounded, Fits
  <1> QED
    BY <1>7, <1>9 DEF TypeInv

\* Bytes of the journal change nothing else of a disk state.
LEMMA WithBytesFields ==
  ASSUME NEW d \in Disks, NEW j \in Journals
  PROVE  /\ WithBytes(d, j) \in Disks
         /\ WithBytes(d, j).serial = d.serial /\ WithBytes(d, j).target = d.target
         /\ WithBytes(d, j).temporary = d.temporary /\ WithBytes(d, j).backup = d.backup
         /\ WithBytes(d, j).journal = IF d.journal # "absent" /\ d.serial = disk.serial
                                      THEN j ELSE d.journal
  <1>1. CASE d.journal # "absent" /\ d.serial = disk.serial
    BY <1>1 DEF WithBytes, Disks
  <1>2. CASE ~(d.journal # "absent" /\ d.serial = disk.serial)
    BY <1>2 DEF WithBytes
  <1> QED
    BY <1>1, <1>2

\* A step that writes or syncs the bytes of the journal; success keeps the places that
\* have an unsynced journal file, or leaves none.
LEMMA StoreJournalTypes ==
  ASSUME TypeInv, NEW j \in Journals, NEW ok, NEW err, Fits(ok), Fits(err),
         pc.at \in FreshPlaces => ok.at \in FreshPlaces, StoreJournal(j, ok, err)
  PROVE  TypeInv'
  <1>1. /\ disk \in Disks /\ disk.serial \in Nat /\ faults \in Nat /\ crashes \in Nat
        /\ disk.serial <= faults + crashes + 1
        /\ pc.at \notin FreshPlaces => disk.serial <= faults + crashes
    BY BoundAssumption DEF Disks, TypeInv, TypeOK, Bounded
  <1>2. /\ UNCHANGED <<disk, survivors>>
        \/ /\ disk' = WithBytes(disk, j)
           /\ survivors' = {WithBytes(s, j) : s \in survivors}
    BY DEF StoreJournal
  <1>3. Fits(pc') /\ disk' \in Disks /\ disk' \in survivors' /\ survivors' \subseteq Disks
    BY <1>1, <1>2, WithBytesFields DEF StoreJournal, TypeInv, TypeOK
  <1>4. faults' \in 0..MaxFaults /\ crashes' \in 0..MaxCrashes
    BY BoundAssumption DEF StoreJournal, TypeInv, TypeOK
  <1>5. disk'.serial = disk.serial
    BY <1>1, <1>2, WithBytesFields
  <1>6. disk'.serial <= faults' + crashes' + (IF pc'.at \in FreshPlaces THEN 1 ELSE 0)
    BY <1>1, <1>5 DEF StoreJournal
  <1>7. \A s \in survivors' : s.serial <= disk'.serial
    BY <1>1, <1>2, <1>5, WithBytesFields DEF TypeInv, TypeOK, Bounded
  <1>8. unsynced' \in BOOLEAN /\ platform' \in Platforms
    BY DEF StoreJournal, TypeInv, TypeOK
  <1>9. TypeOK'
    BY <1>3, <1>4, <1>8 DEF TypeOK, Fits, Counters
  <1>10. Bounded'
    BY <1>3, <1>6, <1>7 DEF Bounded, Fits
  <1> QED
    BY <1>9, <1>10 DEF TypeInv

\* The contents of the files a plan speaks of.
LEMMA PlanContents ==
  ASSUME NEW i \in Entries
  PROVE  /\ Original(i) \in {"absent", "old", "same"} /\ Expected(i) \in {"absent", "new", "same"}
         /\ Original(i) # "absent" <=> TargetExisted(i)
         /\ Expected(i) # "absent" <=> HasSource(i)
         /\ TargetExisted(i) \/ HasSource(i)
  <1>1. Plan[i] \in Kinds
    BY PlanAssumption, PlanFacts
  <1> QED
    BY <1>1 DEF Original, Expected, TargetExisted, HasSource, Kinds

\* A new journal file takes the next serial; the bounds leave room for it.
LEMMA CreateFields ==
  ASSUME TypeInv, pc.at \notin FreshPlaces
  PROVE  LET e == [disk EXCEPT !.journal = "torn", !.serial = @ + 1]
         IN  /\ e \in Disks /\ e.journal = "torn" /\ e.serial = disk.serial + 1
             /\ e.target = disk.target /\ e.temporary = disk.temporary /\ e.backup = disk.backup
  <1>1. disk \in Disks /\ disk.serial + 1 \in 0..(MaxFaults + MaxCrashes + 1)
    BY BoundAssumption DEF TypeInv, TypeOK, Bounded, Disks
  <1> QED
    BY <1>1 DEF Disks, Journals

\* Launches and steps that only read or that store.
LEMMA LaunchTypes ==
  ASSUME TypeInv, LaunchRecovery \/ LaunchUpdate \/ Inspect \/ PlanReplacement
  PROVE  TypeInv'
  <1>0. Fits(pc) /\ Fits(Off)
    BY TypesOfCounter, FitsEnds
  <1>1. pc.at \notin FreshPlaces
    BY DEF LaunchRecovery, LaunchUpdate, Inspect, PlanReplacement, FreshPlaces
  <1>a. 1 \in 0..Attempts /\ "inspect" \in Places
    BY BoundAssumption DEF Places
  <1>2. Fits([Off EXCEPT !.at = "inspect", !.attempt = 1])
    <2>1. [Off EXCEPT !.at = "inspect", !.attempt = 1] \in Counters
      BY <1>0, <1>a DEF Fits, Counters
    <2> QED
      BY <2>1 DEF Fits, WalkPlaces, Off
  <1>3. Fits([Off EXCEPT !.at = "inspect", !.update = TRUE, !.attempt = 1])
    <2>1. [Off EXCEPT !.at = "inspect", !.update = TRUE, !.attempt = 1] \in Counters
      BY <1>0, <1>a DEF Fits, Counters
    <2> QED
      BY <2>1 DEF Fits, WalkPlaces, Off
  <1>4. Fits([Off EXCEPT !.at = "create", !.applying = TRUE])
    <2>1. [Off EXCEPT !.at = "create", !.applying = TRUE] \in Counters
      BY <1>0, BoundAssumption DEF Fits, Counters, Places
    <2> QED
      BY <2>1 DEF Fits, WalkPlaces, Off
  <1>5. Fits(At("audit"))
    BY <1>0, FitsAt DEF Places, WalkPlaces
  <1>6. \E to : Fits(to) /\ Read(to)
    <2>1. CASE LaunchRecovery
      BY <2>1, <1>2 DEF LaunchRecovery
    <2>2. CASE LaunchUpdate
      BY <2>2, <1>3 DEF LaunchUpdate
    <2>3. CASE Inspect
      BY <2>3, <1>0, <1>5, FitsEnds, FitsRollBack DEF Inspect
    <2>4. CASE PlanReplacement
      BY <2>4, <1>0, <1>4 DEF PlanReplacement
    <2> QED
      BY <2>1, <2>2, <2>3, <2>4
  <1> QED
    BY <1>1, <1>6, ReadTypes

\* Rollback.
LEMMA RollbackTypes ==
  ASSUME TypeInv, Rollback
  PROVE  TypeInv'
  <1> DEFINE i == pc.entry
  <1>0. /\ Fits(pc) /\ disk \in Disks /\ "absent" \in Contents /\ "absent" \in Journals
        /\ pc.at \notin FreshPlaces
    BY TypesOfCounter DEF TypeInv, TypeOK, Contents, Journals, FreshPlaces, Rollback,
       RestoreEntry, DiscardTemporary, Recheck, UnlinkJournal
  <1>1. CASE RestoreEntry
    <2>1. pc.at \in WalkPlaces /\ i \in Entries
      BY <1>0, <1>1, PlanFacts DEF RestoreEntry, WalkPlaces, Fits
    <2>2. Fits(PreviousEntry(TRUE)) /\ Fits(At("discard"))
      BY <1>0, <2>1, FitsRollBack, FitsAt DEF Places
    <2>3. MoveBack(disk, i) \in Disks /\ MoveBack(disk, i).serial = disk.serial
      BY <1>0, <2>1, MoveFields DEF Files
    <2>4. /\ [disk EXCEPT !.target[i] = "absent"] \in Disks
          /\ [disk EXCEPT !.target[i] = "absent"].serial = disk.serial
      BY <1>0, <2>1, WriteFields DEF Files
    <2>5. \/ Read(PreviousEntry(TRUE)) \/ Read(At("discard"))
          \/ Store(MoveBack(disk, i), At("discard"), PreviousEntry(TRUE))
          \/ Store([disk EXCEPT !.target[i] = "absent"], At("discard"), PreviousEntry(TRUE))
      BY <1>1 DEF RestoreEntry
    <2> QED
      BY <1>0, <2>2, <2>3, <2>4, <2>5, ReadTypes, StoreTypes
  <1>2. CASE DiscardTemporary
    <2>1. pc.at \in WalkPlaces /\ i \in Entries
      BY <1>0, <1>2, PlanFacts DEF DiscardTemporary, WalkPlaces, Fits
    <2>2. Fits(PreviousEntry(TRUE)) /\ Fits(PreviousEntry(FALSE))
      BY <1>0, <2>1, FitsRollBack
    <2>3. /\ [disk EXCEPT !.temporary[i] = "absent"] \in Disks
          /\ [disk EXCEPT !.temporary[i] = "absent"].serial = disk.serial
      BY <1>0, <2>1, WriteFields DEF Files
    <2>4. \/ Read(PreviousEntry(FALSE))
          \/ Store([disk EXCEPT !.temporary[i] = "absent"], PreviousEntry(FALSE), PreviousEntry(TRUE))
      BY <1>2 DEF DiscardTemporary
    <2> QED
      BY <1>0, <2>2, <2>3, <2>4, ReadTypes, StoreTypes
  <1>3. CASE Recheck
    <2>1. Fits(At("unlink")) /\ Fits(GiveUp)
      BY <1>0, FitsAt, FitsEnds DEF Places, WalkPlaces
    <2>2. Read(At("unlink")) \/ Read(GiveUp)
      BY <1>3 DEF Recheck
    <2> QED
      BY <1>0, <2>1, <2>2, ReadTypes
  <1>4. CASE UnlinkJournal
    BY <1>0, <1>4, JournalFields, FitsEnds, StoreTypes DEF UnlinkJournal
  <1> QED
    BY <1>1, <1>2, <1>3, <1>4 DEF Rollback

\* Clean-up.
LEMMA CleanupTypes ==
  ASSUME TypeInv, Cleanup
  PROVE  TypeInv'
  <1> DEFINE i == pc.entry
  <1>0. /\ Fits(pc) /\ disk \in Disks /\ "absent" \in Contents /\ "absent" \in Journals
        /\ pc.at \notin FreshPlaces /\ Fits(GiveUp) /\ Fits(Return)
    BY TypesOfCounter, FitsEnds DEF TypeInv, TypeOK, Contents, Journals, FreshPlaces, Cleanup,
       Audit, SweepTemporary, SweepBackup, SweepJournal
  <1>1. CASE Audit
    <2>1. Fits(AtEntry("sweepTemporary", 1))
      BY <1>0, FitsAtEntry, PlanFacts DEF WalkPlaces
    <2>2. Read(AtEntry("sweepTemporary", 1)) \/ Read(GiveUp)
      BY <1>1 DEF Audit
    <2> QED
      BY <1>0, <2>1, <2>2, ReadTypes
  <1>2. CASE SweepTemporary
    <2>1. pc.at \in WalkPlaces /\ i \in Entries
      BY <1>0, <1>2, PlanFacts DEF SweepTemporary, WalkPlaces, Fits
    <2>2. Fits(At("sweepBackup"))
      BY <1>0, <2>1, FitsAt DEF Places
    <2>3. /\ [disk EXCEPT !.temporary[i] = "absent"] \in Disks
          /\ [disk EXCEPT !.temporary[i] = "absent"].serial = disk.serial
      BY <1>0, <2>1, WriteFields DEF Files
    <2>4. Store([disk EXCEPT !.temporary[i] = "absent"], At("sweepBackup"), GiveUp)
      BY <1>2 DEF SweepTemporary
    <2> QED
      BY <1>0, <2>2, <2>3, <2>4, StoreTypes
  <1>3. CASE SweepBackup
    <2> DEFINE to == IF i < Len(Plan) THEN AtEntry("sweepTemporary", i + 1) ELSE At("sweepJournal")
    <2>1. pc.at \in WalkPlaces /\ i \in Entries
      BY <1>0, <1>3, PlanFacts DEF SweepBackup, WalkPlaces, Fits
    <2>2. Fits(At("sweepJournal"))
      BY <1>0, FitsAt DEF Places, WalkPlaces
    <2>3. i < Len(Plan) => Fits(AtEntry("sweepTemporary", i + 1))
      BY <1>0, <2>1, FitsAtEntry, PlanFacts DEF WalkPlaces
    <2>4. Fits(to)
      BY <2>2, <2>3
    <2>5. Store([disk EXCEPT !.backup[i] = "absent"], to, GiveUp)
      BY <1>3 DEF SweepBackup
    <2>6. /\ [disk EXCEPT !.backup[i] = "absent"] \in Disks
          /\ [disk EXCEPT !.backup[i] = "absent"].serial = disk.serial
      BY <1>0, <2>1, WriteFields DEF Files
    <2> HIDE DEF to
    <2> QED
      BY <1>0, <2>4, <2>5, <2>6, StoreTypes
  <1>4. CASE SweepJournal
    BY <1>0, <1>4, JournalFields, StoreTypes DEF SweepJournal
  <1> QED
    BY <1>1, <1>2, <1>3, <1>4 DEF Cleanup

\* The header of the journal.
LEMMA HeaderTypes ==
  ASSUME TypeInv, Header
  PROVE  TypeInv'
  <1>0. /\ Fits(pc) /\ Fits(Off) /\ disk \in Disks
        /\ {"absent", "torn", "written", "header"} \subseteq Journals
    BY TypesOfCounter, FitsEnds DEF TypeInv, TypeOK, Journals
  <1>1. \A place \in {"write", "syncHeader", "syncEntry", "abandon"} :
           Fits(At(place)) /\ At(place).at = place
    BY <1>0, FitsAt DEF Places, WalkPlaces
  <1>2. CASE CreateJournal
    <2>1. pc.at \notin FreshPlaces /\ At("write").at \in FreshPlaces
      BY <1>1, <1>2 DEF CreateJournal, FreshPlaces
    <2> QED
      BY <1>0, <1>1, <1>2, <2>1, CreateFields, StoreUnsyncedTypes DEF CreateJournal
  <1>3. CASE WriteHeader
    BY <1>0, <1>1, <1>3, StoreJournalTypes DEF WriteHeader, FreshPlaces
  <1>4. CASE SyncHeader
    BY <1>0, <1>1, <1>4, StoreJournalTypes DEF SyncHeader, FreshPlaces
  <1>5. CASE AbandonHeader
    BY <1>0, <1>5, JournalFields, StoreTypes DEF AbandonHeader
  <1>6. CASE SyncJournalEntry
    <2>1. Fits(AtEntry("prepare", 1))
      BY <1>0, FitsAtEntry, PlanFacts DEF WalkPlaces
    <2> QED
      BY <1>0, <1>6, <2>1, StoreTypes DEF SyncJournalEntry
  <1> QED
    BY <1>2, <1>3, <1>4, <1>5, <1>6 DEF Header

\* Where a pass goes after an entry.
LEMMA PassFits ==
  ASSUME TypeInv, pc.at \in WalkPlaces
  PROVE  /\ pc.entry \in Entries
         /\ Fits(RollBack)
         /\ Fits(NextEntry("prepare", AtEntry("replace", 1)))
         /\ Fits(NextEntry("replace", At("commit")))
         /\ Fits(At("fill")) /\ Fits(At("place"))
  <1>0. Fits(pc) /\ pc.entry \in Entries
    BY TypesOfCounter, PlanFacts DEF Fits
  <1>1. Fits(AtEntry("replace", 1)) /\ Fits(At("commit"))
    BY <1>0, PlanFacts, FitsAtEntry, FitsAt DEF Places, WalkPlaces
  <1>2. Fits(NextEntry("prepare", AtEntry("replace", 1)))
    BY <1>0, <1>1, FitsNextEntry DEF WalkPlaces
  <1>3. Fits(NextEntry("replace", At("commit")))
    BY <1>0, <1>1, FitsNextEntry DEF WalkPlaces
  <1>4. Fits(At("fill")) /\ Fits(At("place"))
    BY <1>0, FitsAt DEF Places
  <1> QED
    BY <1>0, <1>2, <1>3, <1>4, FitsRollBack

\* What a replacement may do to the names of an entry, and where it goes.
LEMMA ReplaceSteps ==
  ASSUME ReplaceTarget
  PROVE  LET i == pc.entry
             next == NextEntry("replace", At("commit"))
         IN \/ ~ReadyToReplace(i) /\ Read(RollBack)
            \/ /\ ReadyToReplace(i) /\ ~TargetExisted(i)
               /\ Store(MoveIntoPlace(disk, i), next, RollBack)
            \/ /\ ReadyToReplace(i) /\ TargetExisted(i) /\ ~HasSource(i)
               /\ Store(MoveToBackup(disk, i), next, RollBack)
            \/ /\ ReadyToReplace(i) /\ TargetExisted(i) /\ HasSource(i)
               /\ Store(MoveToBackup(disk, i), At("place"), RollBack)
            \/ /\ ReadyToReplace(i) /\ TargetExisted(i) /\ HasSource(i)
               /\ Store(MoveIntoPlace(MoveToBackup(disk, i), i), next, RollBack)
            \/ /\ ReadyToReplace(i) /\ TargetExisted(i) /\ HasSource(i)
               /\ Store(MoveToBackup(disk, i), RollBack, RollBack)
  BY DEF ReplaceTarget, Store

\* The two passes and the commit.
LEMMA ReplacementTypes ==
  ASSUME TypeInv, Replacement \/ Commit
  PROVE  TypeInv'
  <1> DEFINE i == pc.entry
             next == NextEntry("replace", At("commit"))
  <1>0. Fits(pc) /\ disk \in Disks /\ {"torn", "absent"} \subseteq Contents
    BY TypesOfCounter DEF TypeInv, TypeOK, Contents
  <1>1. CASE CreateTemporary
    <2> DEFINE new == [disk EXCEPT !.temporary[i] = "torn"]
               onward == NextEntry("prepare", AtEntry("replace", 1))
    <2>1. pc.at \in WalkPlaces /\ pc.at \notin FreshPlaces
      BY <1>1 DEF CreateTemporary, WalkPlaces, FreshPlaces
    <2>2. new \in Disks /\ new.serial = disk.serial
      BY <1>0, <2>1, PassFits, WriteFields DEF Files
    <2>3. StoreUnsynced(new, At("fill"), RollBack) \/ Read(onward)
      BY <1>1 DEF CreateTemporary
    <2> HIDE DEF new
    <2>4. CASE StoreUnsynced(new, At("fill"), RollBack)
      BY <2>1, <2>2, <2>4, PassFits, StoreUnsyncedTypes
    <2>5. CASE Read(onward)
      BY <2>1, <2>5, PassFits, ReadTypes
    <2> QED
      BY <2>3, <2>4, <2>5
  <1>2. CASE FillTemporary
    <2> DEFINE new == [disk EXCEPT !.temporary[i] = Expected(i)]
    <2>1. pc.at \in WalkPlaces
      BY <1>2 DEF FillTemporary, WalkPlaces
    <2>2. Expected(i) \in Contents
      BY <2>1, PassFits, PlanContents DEF Contents
    <2>3. new \in Disks /\ new.serial = disk.serial
      BY <1>0, <2>1, <2>2, PassFits, WriteFields DEF Files
    <2>4. Store(new, NextEntry("prepare", AtEntry("replace", 1)), RollBack)
      BY <1>2 DEF FillTemporary
    <2> HIDE DEF new
    <2> QED
      BY <2>1, <2>3, <2>4, PassFits, StoreTypes
  <1>3. CASE ReplaceTarget
    <2>1. pc.at \in WalkPlaces /\ pc.at \notin FreshPlaces
      BY <1>3 DEF ReplaceTarget, WalkPlaces, FreshPlaces
    <2>2. /\ MoveIntoPlace(disk, i) \in Disks /\ MoveIntoPlace(disk, i).serial = disk.serial
          /\ MoveToBackup(disk, i) \in Disks /\ MoveToBackup(disk, i).serial = disk.serial
      BY <1>0, <2>1, PassFits, MoveFields DEF Files
    <2>3. /\ MoveIntoPlace(MoveToBackup(disk, i), i) \in Disks
          /\ MoveIntoPlace(MoveToBackup(disk, i), i).serial = disk.serial
      BY <2>1, <2>2, PassFits, MoveFields DEF Files
    <2>4. CASE Read(RollBack)
      BY <2>1, <2>4, PassFits, ReadTypes
    <2>5. CASE Store(MoveIntoPlace(disk, i), next, RollBack)
      BY <2>1, <2>2, <2>5, PassFits, StoreTypes
    <2>6. CASE \E ok \in {next, At("place"), RollBack} : Store(MoveToBackup(disk, i), ok, RollBack)
      BY <2>1, <2>2, <2>6, PassFits, StoreTypes
    <2>7. CASE Store(MoveIntoPlace(MoveToBackup(disk, i), i), next, RollBack)
      BY <2>1, <2>3, <2>7, PassFits, StoreTypes
    <2> QED
      BY <1>3, <2>4, <2>5, <2>6, <2>7, ReplaceSteps
  <1>4. CASE PlaceTarget
    <2>1. pc.at \in WalkPlaces
      BY <1>4 DEF PlaceTarget, WalkPlaces
    <2>2. MoveIntoPlace(disk, i) \in Disks /\ MoveIntoPlace(disk, i).serial = disk.serial
      BY <1>0, <2>1, PassFits, MoveFields DEF Files
    <2> QED
      BY <1>4, <2>1, <2>2, PassFits, StoreTypes DEF PlaceTarget
  <1>5. CASE Commit
    <2>1. /\ Fits(At("syncCommit")) /\ Fits(At("audit")) /\ Fits(RollBack)
          /\ pc.at \notin FreshPlaces /\ {"committing", "committed"} \subseteq Journals
      BY <1>0, <1>5, FitsAt, FitsRollBack
         DEF Places, WalkPlaces, FreshPlaces, Journals, Commit, WriteCommit, SyncCommit
    <2> QED
      BY <1>5, <2>1, StoreJournalTypes DEF Commit, WriteCommit, SyncCommit
  <1> QED
    BY <1>1, <1>2, <1>3, <1>4, <1>5 DEF Replacement

\* What a power loss leaves is one of the survivors, its unsynced bytes settled.
LEMMA PowerLossDisk ==
  ASSUME TypeInv, PowerLoss
  PROVE  \E s \in survivors, j \in Journals :
           /\ j \in Settled(s.journal) /\ s \in Disks
           /\ disk' \in Disks /\ disk'.serial = 0 /\ disk'.journal = j
           /\ disk'.target = s.target /\ disk'.temporary = s.temporary /\ disk'.backup = s.backup
  <1>1. PICK s \in survivors : \E j \in Settled(s.journal) : disk' = Synced([s EXCEPT !.journal = j])
    BY DEF PowerLoss
  <1>2. PICK j \in Settled(s.journal) : disk' = Synced([s EXCEPT !.journal = j])
    BY <1>1
  <1>3. s \in Disks /\ s.journal \in Journals
    BY DEF TypeInv, TypeOK, Disks
  <1>4. j \in Journals
    BY <1>2, <1>3 DEF Settled, Journals
  <1>5. [s EXCEPT !.journal = j] \in Disks
    BY <1>3, <1>4, JournalFields
  <1>6. /\ disk' \in Disks /\ disk'.serial = 0 /\ disk'.journal = j
        /\ disk'.target = s.target /\ disk'.temporary = s.temporary /\ disk'.backup = s.backup
    BY <1>2, <1>3, <1>4, <1>5, JournalFields, SyncedFields
  <1> QED
    BY <1>2, <1>3, <1>4, <1>6

\* Crashes.
LEMMA CrashTypes ==
  ASSUME TypeInv, Die \/ PowerLoss
  PROVE  TypeInv'
  <1>0. Fits(Off) /\ faults \in Nat /\ crashes \in Nat
    BY TypesOfCounter, FitsEnds, BoundAssumption DEF TypeInv, TypeOK
  <1>1. crashes' = crashes + 1 /\ crashes' \in 0..MaxCrashes /\ pc' = Off /\ faults' = faults
    BY BoundAssumption DEF Die, PowerLoss, TypeInv, TypeOK
  <1>2. unsynced' \in BOOLEAN /\ platform' \in Platforms
    BY DEF Die, PowerLoss, TypeInv, TypeOK
  <1>3. CASE Die
    <2>1. UNCHANGED <<disk, survivors>>
      BY <1>3 DEF Die
    <2>2. TypeOK'
      BY <1>0, <1>1, <1>2, <2>1 DEF TypeInv, TypeOK, Fits, Counters
    <2>3. disk.serial \in Nat /\ disk.serial <= faults + crashes + 1
      BY <1>0 DEF TypeInv, TypeOK, Bounded, Disks
    <2>4. Bounded'
      BY <1>0, <1>1, <2>1, <2>3 DEF TypeInv, Bounded, Fits
    <2> QED
      BY <2>2, <2>4 DEF TypeInv
  <1>4. CASE PowerLoss
    <2>1. disk' \in Disks /\ disk'.serial = 0 /\ survivors' = {disk'}
      BY <1>4, PowerLossDisk DEF PowerLoss
    <2>2. TypeOK'
      BY <1>0, <1>1, <1>2, <2>1 DEF TypeInv, TypeOK, Fits, Counters
    <2>3. Bounded'
      BY <1>0, <1>1, <2>1 DEF Bounded, Fits
    <2> QED
      BY <2>2, <2>3 DEF TypeInv
  <1> QED
    BY <1>3, <1>4

\* The types and the bounds hold at first and are kept by every step.
LEMMA TypesInit == Init => TypeInv
  <1> SUFFICES ASSUME Init PROVE TypeInv
    OBVIOUS
  <1>1. OldInstall \in Disks /\ OldInstall.serial = 0
    <2>1. \A i \in Entries : Original(i) \in Contents
      BY PlanContents DEF Contents
    <2>2. 0 \in 0..(MaxFaults + MaxCrashes + 1) /\ "absent" \in Contents /\ "absent" \in Journals
      BY BoundAssumption DEF Contents, Journals
    <2> QED
      BY <2>1, <2>2 DEF OldInstall, Disks
  <1>2. Off \in Counters /\ Off.at = "off"
    BY PlanFacts, BoundAssumption DEF Off, Counters, Places
  <1>a. faults \in 0..MaxFaults /\ crashes \in 0..MaxCrashes
    BY BoundAssumption DEF Init
  <1>b. unsynced \in BOOLEAN /\ platform \in Platforms /\ pc \in Counters
    BY <1>2 DEF Init
  <1>c. disk \in Disks /\ survivors \subseteq Disks /\ disk \in survivors
    BY <1>1 DEF Init
  <1>3. TypeOK
    BY <1>a, <1>b, <1>c DEF TypeOK, Counters
  <1>4. Bounded
    BY <1>1, <1>2 DEF Init, Bounded, WalkPlaces, FreshPlaces
  <1> QED
    BY <1>3, <1>4 DEF TypeInv

\* Every step keeps the types and the bounds.
LEMMA TypesNext == TypeInv /\ [Next]_vars => TypeInv'
  <1> SUFFICES ASSUME TypeInv, [Next]_vars PROVE TypeInv'
    OBVIOUS
  <1>1. CASE UNCHANGED vars
    BY <1>1 DEF vars, TypeInv, TypeOK, Bounded
  <1> QED
    BY <1>1, LaunchTypes, RollbackTypes, CleanupTypes, HeaderTypes, ReplacementTypes, CrashTypes
    DEF Next, Step

\* What a read finds is always one of the states that a power loss may leave, no walk of
\* apply, rollback or clean-up leaves the plan, and no launch makes more than Attempts
\* recovery attempts, for every plan and every bound.
THEOREM TypeCorrectness == Spec => []TypeOK
  <1>1. TypeInv => TypeOK
    BY DEF TypeInv
  <1> QED
    BY <1>1, TypesInit, TypesNext, PTL DEF Spec

-----------------------------------------------------------------------------
(* A release that changes nothing is never applied. *)

\* With nothing to change no launch finds work, and every survivor stays as installed.
LEMMA OnlyChangesNext == TypeInv /\ OnlyChanges /\ [Next]_vars => OnlyChanges'
  <1> SUFFICES ASSUME TypeInv, OnlyChanges, [Next]_vars, ~Changing PROVE OnlyChanges'
    BY DEF OnlyChanges, Changing
  <1>1. /\ pc.at = "off" /\ \A s \in survivors : s.journal = "absent" /\ WhollyOld(s)
        /\ disk \in survivors
    BY DEF OnlyChanges, TypeInv, TypeOK
  <1>2. CASE UNCHANGED vars
    BY <1>1, <1>2 DEF vars, OnlyChanges, WhollyOld
  <1>3. ~LaunchRecovery /\ ~LaunchUpdate /\ ~Die
    BY <1>1 DEF LaunchRecovery, LaunchUpdate, Die, WhollyOld, Changing
  <1>4. ~Step
    BY <1>1 DEF Step, Inspect, PlanReplacement, Rollback, RestoreEntry, DiscardTemporary, Recheck,
       UnlinkJournal, Cleanup, Audit, SweepTemporary, SweepBackup, SweepJournal, Header,
       CreateJournal, WriteHeader, SyncHeader, AbandonHeader, SyncJournalEntry, Replacement,
       CreateTemporary, FillTemporary, ReplaceTarget, PlaceTarget, Commit, WriteCommit, SyncCommit
  <1>5. CASE PowerLoss
    <2>1. pc'.at = "off" /\ survivors' = {disk'}
      BY <1>5 DEF PowerLoss, Off
    <2>2. disk'.journal = "absent" /\ WhollyOld(disk')
      BY <1>1, <1>5, PowerLossDisk DEF Settled, WhollyOld
    <2> QED
      BY <2>1, <2>2 DEF OnlyChanges, WhollyOld
  <1> QED
    BY <1>2, <1>3, <1>4, <1>5 DEF Next

-----------------------------------------------------------------------------
(* Soundness of what may survive. *)

Placed == HeaderPlaces /\ PassPlaces /\ EndPlaces

\* Disk states with the same files and journal.
Alike(d, e) ==
  /\ d.target = e.target /\ d.temporary = e.temporary /\ d.backup = e.backup
  /\ d.journal = e.journal

\* Nothing that is said of a disk state depends on the serial of its journal file.
LEMMA AlikeFacts ==
  ASSUME NEW d, NEW e, Alike(e, d)
  PROVE  /\ Sound(e) <=> Sound(d)
         /\ DecidedNew(e) <=> DecidedNew(d)
         /\ RolledBack(e) <=> RolledBack(d)
         /\ Clean(e) <=> Clean(d)
         /\ \A i \in Entries : (Waiting(e, i) <=> Waiting(d, i)) /\ (Replaced(e, i) <=> Replaced(d, i))
  BY DEF Alike, Sound, DecidedNew, RolledBack, Clean, Waiting, Replaced, Whole, WhollyOld,
         WhollyNew, Restorable, Installed

\* Rolled back and wholly replaced entries can be restored, whatever the plan says of them.
LEMMA RestorableEntries ==
  ASSUME NEW d, NEW i \in Entries
  PROVE  /\ d.target[i] = Original(i) /\ d.backup[i] = "absent" => Restorable(d, i)
         /\ /\ TargetExisted(i) /\ d.backup[i] = Original(i)
            /\ d.target[i] \in {"absent", Original(i), Expected(i)}
            => Restorable(d, i)
         /\ Replaced(d, i) => Restorable(d, i)
  BY PlanContents DEF Restorable, Replaced

\* A store of a sound disk that leaves the decision alone keeps every survivor sound.
LEMMA StoreSound ==
  ASSUME TypeInv, SurvivorsSound, pc.at # "syncCommit", NEW new \in Disks, Sound(new),
         DecidedNew(new) <=> DecidedNew(disk), new.journal # "committing",
         NEW ok, NEW err, Store(new, ok, err)
  PROVE  /\ SurvivorsSound' /\ unsynced' = unsynced
         /\ \/ pc' = ok /\ Alike(disk', new) /\ survivors' = {disk'} 
            \/ pc' = err /\ disk' \in {disk, new}
            \/ pc' = Off
  <1>1. Alike(Synced(new), new)
    BY SyncedFields DEF Alike
  <1>2. /\ Sound(Synced(new)) /\ Synced(new).journal # "committing"
        /\ DecidedNew(Synced(new)) <=> DecidedNew(disk)
    BY <1>1, AlikeFacts DEF Alike
  <1>3. \A s \in survivors : /\ Sound(s) /\ s.journal # "committing"
                             /\ DecidedNew(s) <=> DecidedNew(disk)
    BY DEF SurvivorsSound
  <1>4. \A s \in survivors' : s \in survivors \/ s = new \/ s = Synced(new)
    BY DEF Store
  <1>5. disk' = disk \/ disk' = new \/ disk' = Synced(new)
    BY DEF Store
  <1>6. \A s \in survivors' : /\ Sound(s) /\ s.journal # "committing"
                              /\ DecidedNew(s) <=> DecidedNew(disk')
    BY <1>2, <1>3, <1>4, <1>5
  <1>7. SurvivorsSound'
    BY <1>6 DEF SurvivorsSound, Sound, DecidedNew, Whole, Clean, RolledBack, Restorable, Replaced,
                Installed, WhollyOld, WhollyNew
  <1>8. unsynced' = unsynced
    BY DEF Store
  <1>9. \/ pc' = ok /\ Alike(disk', new) /\ survivors' = {disk'}
        \/ pc' = err /\ disk' \in {disk, new}
        \/ pc' = Off
    BY <1>1 DEF Store
  <1> QED
    BY <1>7, <1>8, <1>9

\* A step that only reads keeps every survivor as it is.
LEMMA ReadSound ==
  ASSUME SurvivorsSound, pc.at # "syncCommit", NEW to, Read(to)
  PROVE  SurvivorsSound' /\ pc' = to /\ disk' = disk /\ survivors' = survivors
  BY DEF SurvivorsSound, Read, Sound, DecidedNew, Whole, Clean, RolledBack, Restorable, Replaced,
         Installed, WhollyOld, WhollyNew

\* The places that ask only for the state of the journal.
LEMMA EasyPlaces ==
  ASSUME \/ pc'.at \in {"off", "inspect"}
         \/ pc'.at \in {"restore", "discard", "recheck"} /\ disk'.journal \in {"written", "header"}
         \/ pc'.at = "plan" /\ disk'.journal = "absent"
         \/ pc'.at = "audit" /\ disk'.journal = "committed"
  PROVE  Placed'
  BY DEF Placed, HeaderPlaces, PassPlaces, EndPlaces, ReplacePlaces, CleanupPlaces

Good == SurvivorsSound /\ Placed

\* What is on disk is one of the survivors.
LEMMA DiskIsSound ==
  ASSUME TypeInv, Good
  PROVE  /\ Sound(disk) /\ disk \in Disks /\ disk \in survivors
         /\ disk.journal = "committing" => pc.at = "syncCommit"
         /\ disk.journal \in Journals
  BY DEF TypeInv, TypeOK, Good, SurvivorsSound, Disks

\* A launch reads the journal and takes the way it asks for.
LEMMA LaunchSound ==
  ASSUME TypeInv, Good, LaunchRecovery \/ LaunchUpdate \/ Inspect \/ PlanReplacement
  PROVE  Good'
  <1>0. Fits(pc) /\ Sound(disk) /\ disk.journal \in Journals /\ disk \in Disks
    BY TypesOfCounter, DiskIsSound
  <1>1. pc.at # "syncCommit"
    BY DEF LaunchRecovery, LaunchUpdate, Inspect, PlanReplacement
  <1>2. CASE LaunchRecovery \/ LaunchUpdate
    <2>a. /\ [Off EXCEPT !.at = "inspect", !.attempt = 1].at = "inspect"
          /\ [Off EXCEPT !.at = "inspect", !.update = TRUE, !.attempt = 1].at = "inspect"
      BY DEF Off
    <2>1. PICK to : Read(to) /\ to.at = "inspect"
      BY <1>2, <2>a DEF LaunchRecovery, LaunchUpdate
    <2> QED
      BY <1>1, <2>1, ReadSound, EasyPlaces DEF Good
  <1>3. CASE Inspect
    <2>1. disk.journal # "committing"
      BY <1>1, DiskIsSound
    <2>2. ~pc.applying
      BY <1>0, <1>3 DEF Inspect, Fits
    <2>3. CASE disk.journal = "absent"
      <3>1. Read(At("plan"))
        BY <1>3, <2>2, <2>3 DEF Inspect, Return
      <3>2. At("plan").at = "plan"
        BY <1>0 DEF At, Fits, Counters
      <3> QED
        BY <1>1, <2>3, <3>1, <3>2, ReadSound, EasyPlaces DEF Good
    <2>4. CASE disk.journal = "torn"
      <3>1. Read(GiveUp)
        BY <1>3, <2>4 DEF Inspect
      <3> QED
        BY <1>0, <1>1, <3>1, FitsEnds, ReadSound, EasyPlaces DEF Good
    <2>5. CASE disk.journal = "committed"
      <3>1. Read(At("audit"))
        BY <1>3, <2>5 DEF Inspect
      <3>2. At("audit").at = "audit"
        BY <1>0 DEF At, Fits, Counters
      <3> QED
        BY <1>1, <2>5, <3>1, <3>2, ReadSound, EasyPlaces DEF Good
    <2>6. CASE disk.journal \in {"written", "header"}
      <3>1. Read(RollBack)
        BY <1>3, <2>6 DEF Inspect
      <3> QED
        BY <1>0, <1>1, <2>6, <3>1, FitsRollBack, ReadSound, EasyPlaces DEF Good
    <2> QED
      BY <1>0, <2>1, <2>3, <2>4, <2>5, <2>6 DEF Journals
  <1>4. CASE PlanReplacement
    <2>1. CASE pc.update /\ disk.target = OldInstall.target
      <3>a. [Off EXCEPT !.at = "create", !.applying = TRUE].at = "create"
        BY DEF Off
      <3>1. PICK to : Read(to) /\ to.at = "create"
        BY <1>4, <2>1, <3>a DEF PlanReplacement
      <3>2. disk.journal = "absent"
        BY <1>4 DEF PlanReplacement, Good, Placed, HeaderPlaces
      <3>3. RolledBack(disk)
        BY <1>0, <2>1, <3>2 DEF Sound, Clean, RolledBack, OldInstall
      <3>4. pc' = to /\ disk' = disk /\ SurvivorsSound'
        BY <1>1, <3>1, ReadSound DEF Good
      <3>5. RolledBack(disk)'
        BY <3>3, <3>4 DEF RolledBack
      <3>6. Placed'
        BY <3>1, <3>2, <3>4, <3>5
           DEF Placed, HeaderPlaces, PassPlaces, EndPlaces, ReplacePlaces, CleanupPlaces
      <3> QED
        BY <3>4, <3>6 DEF Good
    <2>2. CASE ~(pc.update /\ disk.target = OldInstall.target)
      <3>1. Read(Off)
        BY <1>4, <2>2 DEF PlanReplacement
      <3> QED
        BY <1>0, <1>1, <3>1, FitsEnds, ReadSound, EasyPlaces DEF Good
    <2> QED
      BY <2>1, <2>2
  <1> QED
    BY <1>2, <1>3, <1>4

\* Rollback: every original can be put back, in any order of failures; the journal goes
\* once nothing is left of the transaction.
LEMMA RollbackSound ==
  ASSUME TypeInv, Good, Rollback
  PROVE  Good'
  <1> DEFINE i == pc.entry
  <1>0. /\ Fits(pc) /\ Sound(disk) /\ disk \in Disks
        /\ pc.at \in {"restore", "discard", "recheck", "unlink"}
    BY TypesOfCounter, DiskIsSound
       DEF Rollback, RestoreEntry, DiscardTemporary, Recheck, UnlinkJournal
  <1>1. disk.journal \in {"written", "header"} /\ ~DecidedNew(disk) /\ SurvivorsSound
    BY <1>0 DEF Good, Placed, EndPlaces, DecidedNew
  <1>2. \A k \in Entries : Restorable(disk, k)
    BY <1>0, <1>1, RestorableEntries DEF Sound, RolledBack
  <1>3. ASSUME NEW new \in Disks, new.journal = disk.journal, NEW ok, NEW err,
               \A k \in Entries : Restorable(new, k),
               disk.journal = "written" => new.target = disk.target /\ new.temporary = disk.temporary
                                           /\ new.backup = disk.backup,
               ok.at \in {"off", "inspect", "restore", "discard", "recheck"},
               err.at \in {"off", "inspect", "restore", "recheck"}, Store(new, ok, err)
        PROVE  Good'
    <2>1. Sound(new)
      BY <1>0, <1>1, <1>3 DEF Sound, RolledBack
    <2>2. ~DecidedNew(new) /\ new.journal # "committing" /\ pc.at # "syncCommit"
      BY <1>0, <1>1, <1>3 DEF DecidedNew
    <2>3. /\ SurvivorsSound'
          /\ \/ pc' = ok /\ Alike(disk', new)
             \/ pc' = err /\ disk' \in {disk, new}
             \/ pc' = Off
      BY <1>1, <1>3, <2>1, <2>2, StoreSound
    <2>4. Placed'
      BY <1>0, <1>1, <1>3, <2>3, EasyPlaces, FitsEnds DEF Alike
    <2> QED
      BY <2>3, <2>4 DEF Good
  <1>4. CASE RestoreEntry
    <2>1. pc.at \in WalkPlaces /\ i \in Entries
      BY <1>0, <1>4, PlanFacts DEF RestoreEntry, WalkPlaces, Fits
    <2>2. At("discard").at = "discard" /\ PreviousEntry(TRUE).at \in {"off", "inspect", "restore", "recheck"}
      BY <1>0, <2>1, FitsRollBack, FitsAt DEF Places
    <2>3. Restorable(disk, i)
      BY <1>2, <2>1
    <2>4. CASE disk.backup[i] # "absent"
      <3> DEFINE new == MoveBack(disk, i)
      <3>1. Store(new, At("discard"), PreviousEntry(TRUE))
        BY <1>4, <2>3, <2>4 DEF RestoreEntry
      <3>2. Files(new, [disk.target EXCEPT ![i] = disk.backup[i]], disk.temporary,
                  [disk.backup EXCEPT ![i] = "absent"], disk)
        BY <1>0, <2>1, MoveFields
      <3>3. new.target[i] = Original(i) /\ new.backup[i] = "absent"
        BY <1>0, <2>1, <2>3, <2>4, <3>2 DEF Files, Disks, Restorable
      <3>4. \A k \in Entries : k # i => new.target[k] = disk.target[k] /\ new.backup[k] = disk.backup[k]
        BY <1>0, <3>2 DEF Files, Disks
      <3>5. \A k \in Entries : Restorable(new, k)
        <4> SUFFICES ASSUME NEW k \in Entries PROVE Restorable(new, k)
          OBVIOUS
        <4>1. CASE k = i
          BY <3>3, <4>1, RestorableEntries
        <4>2. CASE k # i
          BY <1>2, <3>4, <4>2 DEF Restorable
        <4> QED
          BY <4>1, <4>2
      <3>6. disk.journal # "written"
        BY <1>0, <2>1, <2>4 DEF Sound, RolledBack
      <3>7. new \in Disks /\ new.journal = disk.journal
        BY <3>2 DEF Files
      <3> HIDE DEF new
      <3> QED
        BY <1>3, <2>2, <3>1, <3>5, <3>6, <3>7
    <2>5. CASE disk.backup[i] = "absent" /\ ~TargetExisted(i) /\ disk.target[i] # "absent"
      <3> DEFINE new == [disk EXCEPT !.target[i] = "absent"]
      <3>1. Store(new, At("discard"), PreviousEntry(TRUE))
        BY <1>4, <2>3, <2>5 DEF RestoreEntry
      <3>2. Files(new, [disk.target EXCEPT ![i] = "absent"], disk.temporary, disk.backup, disk)
        BY <1>0, <2>1, WriteFields DEF Contents
      <3>3. new.target[i] = Original(i) /\ new.backup[i] = "absent"
        BY <1>0, <2>1, <2>5, <3>2, PlanContents DEF Files, Disks
      <3>4. \A k \in Entries : k # i => new.target[k] = disk.target[k] /\ new.backup[k] = disk.backup[k]
        BY <1>0, <3>2 DEF Files, Disks
      <3>5. \A k \in Entries : Restorable(new, k)
        <4> SUFFICES ASSUME NEW k \in Entries PROVE Restorable(new, k)
          OBVIOUS
        <4>1. CASE k = i
          BY <3>3, <4>1, RestorableEntries
        <4>2. CASE k # i
          BY <1>2, <3>4, <4>2 DEF Restorable
        <4> QED
          BY <4>1, <4>2
      <3>6. disk.journal # "written"
        BY <1>0, <2>1, <2>5, PlanContents DEF Sound, RolledBack
      <3>7. new \in Disks /\ new.journal = disk.journal
        BY <3>2 DEF Files
      <3> HIDE DEF new
      <3> QED
        BY <1>3, <2>2, <3>1, <3>5, <3>6, <3>7
    <2>6. CASE disk.backup[i] = "absent" /\ ~(~TargetExisted(i) /\ disk.target[i] # "absent")
      <3>1. Read(At("discard"))
        BY <1>4, <2>3, <2>6 DEF RestoreEntry
      <3> QED
        BY <1>0, <1>1, <2>2, <3>1, ReadSound, EasyPlaces DEF Good
    <2> QED
      BY <2>4, <2>5, <2>6
  <1>5. CASE DiscardTemporary
    <2>1. pc.at \in WalkPlaces /\ i \in Entries
      BY <1>0, <1>5, PlanFacts DEF DiscardTemporary, WalkPlaces, Fits
    <2>2. /\ PreviousEntry(FALSE).at \in {"off", "inspect", "restore", "recheck"}
          /\ PreviousEntry(TRUE).at \in {"off", "inspect", "restore", "recheck"}
      BY <1>0, <2>1, FitsRollBack
    <2>3. CASE disk.temporary[i] = "absent"
      <3>1. Read(PreviousEntry(FALSE))
        BY <1>5, <2>3 DEF DiscardTemporary
      <3> QED
        BY <1>0, <1>1, <2>2, <3>1, ReadSound, EasyPlaces DEF Good
    <2>4. CASE disk.temporary[i] # "absent"
      <3> DEFINE new == [disk EXCEPT !.temporary[i] = "absent"]
      <3>1. Store(new, PreviousEntry(FALSE), PreviousEntry(TRUE))
        BY <1>5, <2>4 DEF DiscardTemporary
      <3>2. Files(new, disk.target, [disk.temporary EXCEPT ![i] = "absent"], disk.backup, disk)
        BY <1>0, <2>1, WriteFields DEF Contents
      <3>3. \A k \in Entries : Restorable(new, k)
        BY <1>2, <3>2 DEF Files, Restorable
      <3>4. disk.journal # "written"
        BY <1>0, <2>1, <2>4 DEF Sound, RolledBack
      <3>5. new \in Disks /\ new.journal = disk.journal
        BY <3>2 DEF Files
      <3> HIDE DEF new
      <3> QED
        BY <1>3, <2>2, <3>1, <3>3, <3>4, <3>5
    <2> QED
      BY <2>3, <2>4
  <1>6. CASE Recheck
    <2>1. CASE RolledBack(disk)
      <3>1. Read(At("unlink")) /\ At("unlink").at = "unlink"
        BY <1>0, <1>6, <2>1 DEF Recheck, At, Fits, Counters
      <3>2. pc'.at = "unlink" /\ disk' = disk /\ SurvivorsSound'
        BY <1>0, <1>1, <3>1, ReadSound
      <3>3. RolledBack(disk)'
        BY <2>1, <3>2 DEF RolledBack
      <3>4. Placed'
        BY <1>1, <3>2, <3>3
           DEF Placed, HeaderPlaces, PassPlaces, EndPlaces, ReplacePlaces, CleanupPlaces
      <3> QED
        BY <3>2, <3>4 DEF Good
    <2>2. CASE ~RolledBack(disk)
      <3>1. Read(GiveUp)
        BY <1>6, <2>2 DEF Recheck
      <3> QED
        BY <1>0, <1>1, <3>1, FitsEnds, ReadSound, EasyPlaces DEF Good
    <2> QED
      BY <2>1, <2>2
  <1>7. CASE UnlinkJournal
    <2> DEFINE new == [disk EXCEPT !.journal = "absent"]
    <2>1. RolledBack(disk) /\ Store(new, Return, GiveUp)
      BY <1>7 DEF UnlinkJournal, Good, Placed, EndPlaces
    <2>2. /\ new \in Disks /\ new.journal = "absent" /\ new.target = disk.target
          /\ new.temporary = disk.temporary /\ new.backup = disk.backup
      BY <1>0, JournalFields DEF Journals
    <2> HIDE DEF new
    <2>3. Sound(new) /\ ~DecidedNew(new)
      BY <2>1, <2>2 DEF Sound, DecidedNew, RolledBack, Clean, Whole, WhollyOld
    <2>4. /\ SurvivorsSound'
          /\ (pc' = Return /\ Alike(disk', new)) \/ pc' = GiveUp \/ pc' = Off
      BY <1>0, <1>1, <2>1, <2>2, <2>3, StoreSound
    <2>5. Placed'
      BY <1>0, <2>2, <2>4, FitsEnds, EasyPlaces DEF Alike
    <2> QED
      BY <2>4, <2>5 DEF Good
  <1> QED
    BY <1>4, <1>5, <1>6, <1>7 DEF Rollback

\* A release that is being applied differs from the installed one.
LEMMA NewIsNotOld ==
  ASSUME OnlyChanges, pc.at # "off", NEW d, WhollyNew(d)
  PROVE  ~WhollyOld(d)
  BY DEF OnlyChanges, Changing, WhollyNew, WhollyOld

\* Clean-up: the release stays in place, and the journal goes last.
LEMMA CleanupSound ==
  ASSUME TypeInv, Good, OnlyChanges, Cleanup
  PROVE  Good'
  <1> DEFINE i == pc.entry
  <1>0. /\ Fits(pc) /\ Sound(disk) /\ disk \in Disks /\ "absent" \in Contents
        /\ pc.at \in CleanupPlaces /\ pc.at # "syncCommit" /\ pc.at # "off"
    BY TypesOfCounter, DiskIsSound
       DEF Cleanup, Audit, SweepTemporary, SweepBackup, SweepJournal, CleanupPlaces, Contents
  <1>1. /\ disk.journal = "committed" /\ DecidedNew(disk) /\ Installed(disk) /\ SurvivorsSound
    BY <1>0 DEF Good, Placed, EndPlaces, DecidedNew, Sound
  <1>2. GiveUp.at \in {"off", "inspect"} /\ Off.at = "off" /\ Return.at \in {"off", "plan"}
    BY <1>0, FitsEnds
  <1>3. ASSUME NEW new \in Disks, new.journal = "committed", Installed(new), NEW ok,
               Store(new, ok, GiveUp)
        PROVE  /\ SurvivorsSound'
               /\ Placed' \/ (pc' = ok /\ Alike(disk', new))
    <2>1. Sound(new) /\ DecidedNew(new)
      BY <1>3 DEF Sound, DecidedNew
    <2>2. SurvivorsSound' /\ ((pc' = ok /\ Alike(disk', new)) \/ pc' = GiveUp \/ pc' = Off)
      BY <1>0, <1>1, <1>3, <2>1, StoreSound
    <2> QED
      BY <1>2, <2>2, EasyPlaces
  <1>4. CASE Audit
    <2>1. Read(AtEntry("sweepTemporary", 1))
      BY <1>1, <1>4 DEF Audit
    <2>2. AtEntry("sweepTemporary", 1).at = "sweepTemporary" /\ AtEntry("sweepTemporary", 1).entry = 1
      BY <1>0, PlanFacts, FitsAtEntry DEF WalkPlaces
    <2>3. pc'.at = "sweepTemporary" /\ pc'.entry = 1 /\ disk' = disk /\ SurvivorsSound'
      BY <1>0, <1>1, <2>1, <2>2, ReadSound
    <2>4. Placed'
      BY <1>1, <2>3, PlanFacts
         DEF Placed, HeaderPlaces, PassPlaces, EndPlaces, ReplacePlaces, CleanupPlaces
    <2> QED
      BY <2>3, <2>4 DEF Good
  <1>5. CASE SweepTemporary
    <2> DEFINE new == [disk EXCEPT !.temporary[i] = "absent"]
    <2>1. /\ pc.at \in WalkPlaces /\ i \in Entries
          /\ \A k \in Entries : k < i => disk.temporary[k] = "absent" /\ disk.backup[k] = "absent"
      BY <1>0, <1>5, PlanFacts
         DEF SweepTemporary, WalkPlaces, Fits, Good, Placed, EndPlaces
    <2>2. At("sweepBackup").at = "sweepBackup" /\ At("sweepBackup").entry = i
      BY <1>0, <2>1, FitsAt DEF Places
    <2>3. Files(new, disk.target, [disk.temporary EXCEPT ![i] = "absent"], disk.backup, disk)
      BY <1>0, <2>1, WriteFields
    <2>4. Store(new, At("sweepBackup"), GiveUp)
      BY <1>5 DEF SweepTemporary
    <2> HIDE DEF new
    <2>5. /\ new \in Disks /\ new.journal = "committed" /\ new.backup = disk.backup
          /\ new.temporary[i] = "absent" 
          /\ \A k \in Entries : k # i => new.temporary[k] = disk.temporary[k]
      BY <1>0, <1>1, <2>1, <2>3 DEF Files, Disks
    <2>6. Installed(new)
      BY <1>1, <2>3, <2>5 DEF Installed, Files
    <2>7. SurvivorsSound' /\ (Placed' \/ (pc' = At("sweepBackup") /\ Alike(disk', new)))
      BY <1>3, <2>4, <2>5, <2>6
    <2>8. ASSUME pc' = At("sweepBackup"), Alike(disk', new) PROVE Placed'
      <3>1. pc'.at = "sweepBackup" /\ pc'.entry = i
        BY <2>2, <2>8
      <3>2. /\ disk'.journal = "committed" /\ disk'.temporary[i] = "absent"
            /\ \A k \in Entries : k < i => disk'.temporary[k] = "absent" /\ disk'.backup[k] = "absent"
        BY <2>1, <2>5, <2>8, PlanFacts DEF Alike
      <3> QED
        BY <3>1, <3>2
           DEF Placed, HeaderPlaces, PassPlaces, EndPlaces, ReplacePlaces, CleanupPlaces
    <2> QED
      BY <2>7, <2>8 DEF Good
  <1>6. CASE SweepBackup
    <2> DEFINE new == [disk EXCEPT !.backup[i] = "absent"]
               ok == IF i < Len(Plan) THEN AtEntry("sweepTemporary", i + 1) ELSE At("sweepJournal")
    <2>1. /\ pc.at \in WalkPlaces /\ i \in Entries /\ disk.temporary[i] = "absent"
          /\ \A k \in Entries : k < i => disk.temporary[k] = "absent" /\ disk.backup[k] = "absent"
      BY <1>0, <1>6, PlanFacts
         DEF SweepBackup, WalkPlaces, Fits, Good, Placed, EndPlaces
    <2>2. /\ i < Len(Plan) => ok.at = "sweepTemporary" /\ ok.entry = i + 1
          /\ ~(i < Len(Plan)) => ok.at = "sweepJournal"
      <3>1. i < Len(Plan) => i + 1 \in Entries
        BY <2>1, PlanFacts
      <3> QED
        BY <1>0, <3>1, FitsAt, FitsAtEntry DEF Places, WalkPlaces
    <2>3. Files(new, disk.target, disk.temporary, [disk.backup EXCEPT ![i] = "absent"], disk)
      BY <1>0, <2>1, WriteFields
    <2>4. Store(new, ok, GiveUp)
      BY <1>6 DEF SweepBackup
    <2> HIDE DEF new, ok
    <2>5. /\ new \in Disks /\ new.journal = "committed" /\ new.temporary = disk.temporary
          /\ new.backup[i] = "absent"
          /\ \A k \in Entries : k # i => new.backup[k] = disk.backup[k]
      BY <1>0, <1>1, <2>1, <2>3 DEF Files, Disks
    <2>6. Installed(new)
      BY <1>1, <2>3, <2>5 DEF Installed, Files
    <2>7. SurvivorsSound' /\ (Placed' \/ (pc' = ok /\ Alike(disk', new)))
      BY <1>3, <2>4, <2>5, <2>6
    <2>8. ASSUME pc' = ok, Alike(disk', new) PROVE Placed'
      <3>1. \A k \in Entries : k <= i => disk'.temporary[k] = "absent" /\ disk'.backup[k] = "absent"
        BY <2>1, <2>5, <2>8, PlanFacts DEF Alike
      <3>2. disk'.journal = "committed"
        BY <2>5, <2>8 DEF Alike
      <3>3. CASE i < Len(Plan)
        <4>1. pc'.at = "sweepTemporary" /\ pc'.entry = i + 1
          BY <2>2, <2>8, <3>3
        <4>2. \A k \in Entries : k < pc'.entry => disk'.temporary[k] = "absent" /\ disk'.backup[k] = "absent"
          BY <2>1, <3>1, <4>1, PlanFacts
        <4> QED
          BY <3>2, <4>1, <4>2
             DEF Placed, HeaderPlaces, PassPlaces, EndPlaces, ReplacePlaces, CleanupPlaces
      <3>4. CASE ~(i < Len(Plan))
        <4>1. pc'.at = "sweepJournal"
          BY <2>2, <2>8, <3>4
        <4>2. \A k \in Entries : disk'.temporary[k] = "absent" /\ disk'.backup[k] = "absent"
          BY <2>1, <3>1, <3>4, PlanFacts
        <4> QED
          BY <3>2, <4>1, <4>2
             DEF Placed, HeaderPlaces, PassPlaces, EndPlaces, ReplacePlaces, CleanupPlaces, Clean
      <3> QED
        BY <3>3, <3>4
    <2> QED
      BY <2>7, <2>8 DEF Good
  <1>7. CASE SweepJournal
    <2> DEFINE new == [disk EXCEPT !.journal = "absent"]
    <2>1. Clean(disk) /\ Store(new, Return, GiveUp)
      BY <1>7 DEF SweepJournal, Good, Placed, EndPlaces
    <2>2. /\ new \in Disks /\ new.journal = "absent" /\ new.target = disk.target
          /\ new.temporary = disk.temporary /\ new.backup = disk.backup
      BY <1>0, JournalFields DEF Journals
    <2> HIDE DEF new
    <2>3. WhollyNew(new) /\ ~WhollyOld(new)
      BY <1>0, <1>1, <2>2, NewIsNotOld DEF Installed, WhollyNew
    <2>4. Sound(new) /\ DecidedNew(new)
      BY <2>1, <2>2, <2>3 DEF Sound, DecidedNew, Clean, Whole
    <2>5. SurvivorsSound' /\ ((pc' = Return /\ Alike(disk', new)) \/ pc' = GiveUp \/ pc' = Off)
      BY <1>0, <1>1, <2>1, <2>2, <2>4, StoreSound
    <2>6. Placed'
      BY <1>2, <2>2, <2>5, EasyPlaces DEF Alike
    <2> QED
      BY <2>5, <2>6 DEF Good
  <1> QED
    BY <1>4, <1>5, <1>6, <1>7 DEF Cleanup

\* A directory entry made without a sync adds one survivor.
LEMMA UnsyncedSound ==
  ASSUME SurvivorsSound, pc.at # "syncCommit", NEW new, Sound(new),
         DecidedNew(new) <=> DecidedNew(disk), new.journal # "committing",
         NEW ok, NEW err, StoreUnsynced(new, ok, err)
  PROVE  /\ SurvivorsSound'
         /\ \/ pc' = ok /\ disk' = new /\ survivors' = survivors \cup {new}
            \/ pc' = err /\ UNCHANGED <<disk, survivors>>
  <1>1. \/ pc' = ok /\ disk' = new /\ survivors' = survivors \cup {new}
        \/ pc' = err /\ UNCHANGED <<disk, survivors>>
    BY DEF StoreUnsynced
  <1>2. \A s \in survivors : /\ Sound(s) /\ s.journal # "committing"
                             /\ DecidedNew(s) <=> DecidedNew(disk)
    BY DEF SurvivorsSound
  <1>3. \A s \in survivors' : /\ Sound(s) /\ s.journal # "committing"
                              /\ DecidedNew(s) <=> DecidedNew(disk')
    BY <1>1, <1>2
  <1>4. SurvivorsSound'
    BY <1>3 DEF SurvivorsSound, Sound, DecidedNew, Whole, Clean, RolledBack, Restorable, Replaced,
                Installed, WhollyOld, WhollyNew
  <1> QED
    BY <1>1, <1>4

\* Bytes of a header reach the new journal file and no other survivor.
LEMMA HeaderBytes ==
  ASSUME TypeInv, SurvivorsSound, OnlyJournal, RolledBack(disk), pc.at # "syncCommit",
         disk.journal \in {"torn", "written"}, NEW j \in {"written", "header"},
         disk' = WithBytes(disk, j), survivors' = {WithBytes(s, j) : s \in survivors}
  PROVE  SurvivorsSound' /\ OnlyJournal' /\ disk'.journal = j /\ RolledBack(disk')
  <1>0. disk \in Disks /\ disk \in survivors /\ j \in Journals /\ survivors \subseteq Disks
    BY DEF TypeInv, TypeOK, Journals
  <1>1. /\ disk'.journal = j /\ disk'.target = disk.target /\ disk'.serial = disk.serial
        /\ disk'.temporary = disk.temporary /\ disk'.backup = disk.backup
    BY <1>0, WithBytesFields
  <1>2. RolledBack(disk')
    BY <1>1 DEF RolledBack
  <1>3. Sound(disk') /\ ~DecidedNew(disk') /\ ~DecidedNew(disk)
    BY <1>1, <1>2, RestorableEntries DEF Sound, DecidedNew, RolledBack
  <1>4. \A s \in survivors' : s = disk' \/ (s \in survivors /\ (s.journal = "absent" \/ s.serial # disk.serial))
    BY <1>0, WithBytesFields DEF OnlyJournal, WithBytes
  <1>5. \A s \in survivors : /\ Sound(s) /\ s.journal # "committing"
                             /\ DecidedNew(s) <=> DecidedNew(disk)
    BY DEF SurvivorsSound
  <1>6. \A s \in survivors' : /\ Sound(s) /\ s.journal # "committing"
                              /\ DecidedNew(s) <=> DecidedNew(disk')
    BY <1>1, <1>3, <1>4, <1>5
  <1>7. SurvivorsSound'
    BY <1>6 DEF SurvivorsSound, Sound, DecidedNew, Whole, Clean, RolledBack, Restorable, Replaced,
                Installed, WhollyOld, WhollyNew
  <1>8. OnlyJournal'
    BY <1>1, <1>4 DEF OnlyJournal
  <1> QED
    BY <1>1, <1>2, <1>7, <1>8

\* The header: until its entry is durable nothing has been touched.
LEMMA HeaderSound ==
  ASSUME TypeInv, Good, Header, ~unsynced
  PROVE  ~unsynced' /\ Good'
  <1>0. /\ Fits(pc) /\ Sound(disk) /\ disk \in Disks /\ SurvivorsSound /\ "absent" \in Journals
        /\ pc.at # "syncCommit" /\ Off.at = "off"
    BY TypesOfCounter, DiskIsSound, FitsEnds
       DEF Good, Header, CreateJournal, WriteHeader, SyncHeader, AbandonHeader, SyncJournalEntry, Journals
  <1>1. \A place \in {"write", "syncHeader", "syncEntry", "abandon"} : At(place).at = place
    BY <1>0, FitsAt DEF Places, WalkPlaces
  <1>2. CASE CreateJournal
    <2> DEFINE new == [disk EXCEPT !.journal = "torn", !.serial = @ + 1]
    <2>1. StoreUnsynced(new, At("write"), Off) /\ disk.journal = "absent" /\ RolledBack(disk)
      BY <1>2 DEF CreateJournal, Good, Placed, HeaderPlaces
    <2>2. /\ new \in Disks /\ new.journal = "torn" /\ new.serial = disk.serial + 1
          /\ new.target = disk.target /\ new.temporary = disk.temporary /\ new.backup = disk.backup
      BY <1>2, CreateFields DEF CreateJournal, FreshPlaces
    <2> HIDE DEF new
    <2>3. RolledBack(new) /\ Sound(new) /\ ~DecidedNew(new) /\ ~DecidedNew(disk)
      BY <2>1, <2>2 DEF RolledBack, Sound, DecidedNew, WhollyOld
    <2>4. /\ SurvivorsSound'
          /\ \/ pc' = At("write") /\ disk' = new /\ survivors' = survivors \cup {new}
             \/ pc' = Off
      BY <1>0, <2>1, <2>2, <2>3, UnsyncedSound
    <2>5. ASSUME pc' = At("write"), disk' = new, survivors' = survivors \cup {new} PROVE Placed'
      <3>1. \A s \in survivors : s.serial # new.serial
        BY <2>2 DEF TypeInv, TypeOK, Bounded, Disks
      <3>2. OnlyJournal'
        BY <2>5, <3>1 DEF OnlyJournal
      <3> QED
        BY <1>1, <2>2, <2>5, <3>2
           DEF Placed, HeaderPlaces, PassPlaces, EndPlaces, ReplacePlaces, CleanupPlaces
    <2>6. ~unsynced'
      BY <2>1 DEF StoreUnsynced
    <2> QED
      BY <1>0, <2>4, <2>5, <2>6, EasyPlaces DEF Good
  <1>3. CASE WriteHeader \/ SyncHeader
    <2>1. /\ disk.journal \in {"torn", "written"} /\ OnlyJournal /\ RolledBack(disk)
      BY <1>0, <1>3 DEF WriteHeader, SyncHeader, Good, Placed, HeaderPlaces, Sound
    <2>2. PICK j \in {"written", "header"}, next \in {"syncHeader", "syncEntry"} :
             /\ StoreJournal(j, At(next), At("abandon"))
             /\ next = "syncHeader" => j = "written"
             /\ next = "syncEntry" => j = "header"
      BY <1>3 DEF WriteHeader, SyncHeader
    <2>3. \/ /\ disk' = WithBytes(disk, j) /\ survivors' = {WithBytes(s, j) : s \in survivors}
             /\ pc'.at \in {next, "abandon"}
          \/ UNCHANGED <<disk, survivors>> /\ pc'.at = "abandon"
      BY <1>1, <2>2 DEF StoreJournal
    <2>4. CASE /\ disk' = WithBytes(disk, j) /\ survivors' = {WithBytes(s, j) : s \in survivors}
               /\ pc'.at \in {next, "abandon"}
      <3>1. SurvivorsSound' /\ OnlyJournal' /\ disk'.journal = j /\ RolledBack(disk')
        BY <1>0, <2>1, <2>4, HeaderBytes
      <3>2. RolledBack(disk)'
        BY <3>1 DEF RolledBack
      <3>3. Placed'
        BY <2>2, <2>4, <3>1, <3>2
           DEF Placed, HeaderPlaces, PassPlaces, EndPlaces, ReplacePlaces, CleanupPlaces
      <3>4. ~unsynced'
        BY <2>2, <3>1 DEF StoreJournal
      <3> QED
        BY <3>1, <3>3, <3>4 DEF Good
    <2>5. CASE UNCHANGED <<disk, survivors>> /\ pc'.at = "abandon"
      <3>1. SurvivorsSound'
        BY <1>0, <2>5 DEF SurvivorsSound, Sound, DecidedNew, Whole, Clean, RolledBack, Restorable,
                          Replaced, Installed, WhollyOld, WhollyNew
      <3>2. RolledBack(disk)'
        BY <2>1, <2>5 DEF RolledBack
      <3>3. Placed'
        BY <2>1, <2>5, <3>2
           DEF Placed, HeaderPlaces, PassPlaces, EndPlaces, ReplacePlaces, CleanupPlaces
      <3>4. ~unsynced'
        BY <2>1, <2>2, <2>5 DEF StoreJournal
      <3> QED
        BY <3>1, <3>3, <3>4 DEF Good
    <2> QED
      BY <2>3, <2>4, <2>5
  <1>4. CASE AbandonHeader
    <2> DEFINE new == [disk EXCEPT !.journal = "absent"]
    <2>1. Store(new, Off, Off) /\ disk.journal \in {"torn", "written", "header"} /\ RolledBack(disk)
      BY <1>4 DEF AbandonHeader, Good, Placed, HeaderPlaces
    <2>2. /\ new \in Disks /\ new.journal = "absent" /\ new.target = disk.target
          /\ new.temporary = disk.temporary /\ new.backup = disk.backup
      BY <1>0, JournalFields
    <2> HIDE DEF new
    <2>3. Sound(new) /\ ~DecidedNew(new) /\ ~DecidedNew(disk)
      BY <2>1, <2>2 DEF Sound, DecidedNew, RolledBack, Clean, Whole, WhollyOld
    <2>4. SurvivorsSound' /\ pc' = Off /\ ~unsynced'
      BY <1>0, <2>1, <2>2, <2>3, StoreSound
    <2> QED
      BY <1>0, <2>4, EasyPlaces DEF Good
  <1>5. CASE SyncJournalEntry
    <2>1. Store(disk, AtEntry("prepare", 1), Off) /\ disk.journal = "header" /\ RolledBack(disk)
      BY <1>5 DEF SyncJournalEntry, Good, Placed, HeaderPlaces
    <2>2. AtEntry("prepare", 1).at = "prepare" /\ AtEntry("prepare", 1).entry = 1
      BY <1>0, FitsAtEntry, PlanFacts DEF WalkPlaces
    <2>3. /\ SurvivorsSound' /\ ~unsynced'
          /\ \/ pc' = AtEntry("prepare", 1) /\ Alike(disk', disk) /\ survivors' = {disk'}
             \/ pc' = Off
      BY <1>0, <2>1, StoreSound
    <2>4. ASSUME pc' = AtEntry("prepare", 1), Alike(disk', disk), survivors' = {disk'}
          PROVE  Placed'
      <3>1. \A i \in Entries : /\ disk'.target[i] = Original(i) /\ disk'.backup[i] = "absent"
                               /\ disk'.temporary[i] = "absent" /\ ~(i < 1)
        BY <2>1, <2>4, PlanFacts DEF Alike, RolledBack
      <3>2. pc'.at = "prepare" /\ pc'.entry = 1 /\ disk'.journal = "header"
        BY <2>1, <2>2, <2>4 DEF Alike
      <3> QED
        BY <2>4, <3>1, <3>2
           DEF Placed, HeaderPlaces, PassPlaces, EndPlaces, ReplacePlaces, CleanupPlaces
    <2> QED
      BY <1>0, <2>3, <2>4, EasyPlaces DEF Good
  <1> QED
    BY <1>2, <1>3, <1>4, <1>5 DEF Header

\* The first pass goes on with the next entry, or with the second pass.
LEMMA PreparedNext ==
  ASSUME Fits(pc), pc.at \in WalkPlaces, disk'.journal = "header", survivors' = {disk'},
         \A i \in Entries : /\ disk'.target[i] = Original(i) /\ disk'.backup[i] = "absent"
                            /\ i <= pc.entry => disk'.temporary[i] = Expected(i)
                            /\ i > pc.entry => disk'.temporary[i] = "absent",
         pc' = NextEntry("prepare", AtEntry("replace", 1))
  PROVE  Placed'
  <1>0. pc.entry \in Entries /\ Entries \subseteq Nat
    BY PlanFacts DEF Fits
  <1>1. /\ Fits(AtEntry("replace", 1)) /\ AtEntry("replace", 1).at = "replace"
        /\ AtEntry("replace", 1).entry = 1
    BY FitsAtEntry, PlanFacts DEF WalkPlaces
  <1>2. CASE pc.entry < Len(Plan)
    <2>1. pc'.at = "prepare" /\ pc'.entry = pc.entry + 1
      BY <1>1, <1>2, FitsNextEntry DEF WalkPlaces
    <2>2. \A i \in Entries : /\ i < pc'.entry <=> i <= pc.entry
                             /\ i > pc'.entry \/ i = pc'.entry => i > pc.entry
      BY <1>0, <2>1, PlanFacts
    <2> QED
      BY <2>1, <2>2 DEF Placed, HeaderPlaces, PassPlaces, EndPlaces, ReplacePlaces, CleanupPlaces
  <1>3. CASE ~(pc.entry < Len(Plan))
    <2>1. pc'.at = "replace" /\ pc'.entry = 1
      BY <1>1, <1>3, FitsNextEntry DEF WalkPlaces
    <2>2. \A i \in Entries : i <= pc.entry /\ ~(i < pc'.entry)
      BY <1>0, <1>3, <2>1, PlanFacts
    <2>3. \A i \in Entries : Waiting(disk', i)
      BY <2>2 DEF Waiting
    <2>4. PassPlaces'
      BY <2>1, <2>2, <2>3 DEF PassPlaces, Waiting, ReplacePlaces
    <2> QED
      BY <2>1, <2>4 DEF Placed, HeaderPlaces, EndPlaces, CleanupPlaces
  <1> QED
    BY <1>2, <1>3

\* The second pass goes on with the next entry, or with the commit.
LEMMA ReplacedNext ==
  ASSUME Fits(pc), pc.at \in WalkPlaces, disk'.journal = "header", survivors' = {disk'},
         \A i \in Entries : /\ i <= pc.entry => Replaced(disk', i)
                            /\ i > pc.entry => Waiting(disk', i),
         pc' = NextEntry("replace", At("commit"))
  PROVE  Placed'
  <1>0. pc.entry \in Entries /\ Entries \subseteq Nat
    BY PlanFacts DEF Fits
  <1>1. Fits(At("commit")) /\ At("commit").at = "commit"
    BY FitsAt DEF WalkPlaces, Places
  <1>2. CASE pc.entry < Len(Plan)
    <2>1. pc'.at = "replace" /\ pc'.entry = pc.entry + 1
      BY <1>1, <1>2, FitsNextEntry DEF WalkPlaces
    <2>2. \A i \in Entries : /\ i < pc'.entry => Replaced(disk', i)
                             /\ i > pc'.entry \/ i = pc'.entry => Waiting(disk', i)
      <3>1. \A i \in Entries : /\ i < pc'.entry => i <= pc.entry
                               /\ i > pc'.entry \/ i = pc'.entry => i > pc.entry
        BY <1>0, <2>1, PlanFacts
      <3> QED
        BY <3>1
    <2>3. PassPlaces'
      BY <2>1, <2>2 DEF PassPlaces, Waiting, Replaced, ReplacePlaces
    <2> QED
      BY <2>1, <2>3 DEF Placed, HeaderPlaces, EndPlaces, CleanupPlaces
  <1>3. CASE ~(pc.entry < Len(Plan))
    <2>1. pc'.at = "commit"
      BY <1>1, <1>3, FitsNextEntry DEF WalkPlaces
    <2>2. \A i \in Entries : Replaced(disk', i)
      BY <1>0, <1>3, PlanFacts
    <2>3. PassPlaces'
      BY <2>1, <2>2 DEF PassPlaces, Replaced, ReplacePlaces
    <2> QED
      BY <2>1, <2>3 DEF Placed, HeaderPlaces, EndPlaces, CleanupPlaces
  <1> QED
    BY <1>2, <1>3

\* Under the header a store whose result can be rolled back is sound, whatever its outcome.
LEMMA PassStore ==
  ASSUME TypeInv, Good, ~unsynced, pc.at # "syncCommit", disk.journal = "header",
         NEW new \in Disks, new.journal = "header", \A i \in Entries : Restorable(new, i),
         NEW ok, Store(new, ok, RollBack)
  PROVE  /\ ~unsynced' /\ SurvivorsSound'
         /\ Placed' \/ (pc' = ok /\ Alike(disk', new) /\ survivors' = {disk'})
  <1>1. Sound(new) /\ ~DecidedNew(new) /\ ~DecidedNew(disk)
    BY DEF Sound, DecidedNew
  <1>2. /\ SurvivorsSound' /\ unsynced' = unsynced
        /\ \/ pc' = ok /\ Alike(disk', new) /\ survivors' = {disk'}
           \/ pc' = RollBack /\ disk' \in {disk, new}
           \/ pc' = Off
    BY <1>1, StoreSound DEF Good
  <1>3. RollBack.at = "restore" /\ Off.at = "off"
    BY TypesOfCounter, FitsRollBack, FitsEnds
  <1> QED
    BY <1>2, <1>3, EasyPlaces

\* The first pass: every original stays in place.
LEMMA PrepareSound ==
  ASSUME TypeInv, Good, ~unsynced, CreateTemporary \/ FillTemporary
  PROVE  ~unsynced' /\ Good'
  <1> DEFINE i == pc.entry
  <1>0. /\ Fits(pc) /\ disk \in Disks /\ pc.at \in WalkPlaces /\ pc.at # "syncCommit"
        /\ pc.at \in {"prepare", "fill"}
    BY TypesOfCounter, DiskIsSound DEF CreateTemporary, FillTemporary, WalkPlaces
  <1>1. i \in Entries /\ Entries \subseteq Nat /\ Expected(i) \in Contents /\ "torn" \in Contents
    BY <1>0, PlanFacts, PlanContents DEF Fits, Contents
  <1>2. /\ disk.journal = "header"
        /\ \A k \in Entries : /\ disk.target[k] = Original(k) /\ disk.backup[k] = "absent"
                              /\ k < i => disk.temporary[k] = Expected(k)
                              /\ k > i => disk.temporary[k] = "absent"
    BY <1>0 DEF Good, Placed, PassPlaces
  <1>3. \A c \in Contents : LET new == [disk EXCEPT !.temporary[i] = c]
                            IN /\ new \in Disks /\ new.journal = "header"
                               /\ new.target = disk.target /\ new.backup = disk.backup
                               /\ new.temporary = [disk.temporary EXCEPT ![i] = c]
                               /\ \A k \in Entries : Restorable(new, k)
    <2> SUFFICES ASSUME NEW c \in Contents
                 PROVE  LET new == [disk EXCEPT !.temporary[i] = c]
                        IN /\ new \in Disks /\ new.journal = "header"
                           /\ new.target = disk.target /\ new.backup = disk.backup
                           /\ new.temporary = [disk.temporary EXCEPT ![i] = c]
                           /\ \A k \in Entries : Restorable(new, k)
      OBVIOUS
    <2> DEFINE new == [disk EXCEPT !.temporary[i] = c]
    <2>a. Files(new, disk.target, [disk.temporary EXCEPT ![i] = c], disk.backup, disk)
      BY <1>0, <1>1, WriteFields
    <2> HIDE DEF new
    <2>1. /\ new \in Disks /\ new.journal = "header"
          /\ new.target = disk.target /\ new.backup = disk.backup
          /\ new.temporary = [disk.temporary EXCEPT ![i] = c]
      BY <1>2, <2>a DEF Files
    <2>2. \A k \in Entries : Restorable(new, k)
      BY <1>2, <2>1, RestorableEntries
    <2> QED
      BY <2>1, <2>2 DEF new
  <1>4. CASE CreateTemporary /\ HasSource(i)
    <2> DEFINE new == [disk EXCEPT !.temporary[i] = "torn"]
    <2>1. StoreUnsynced(new, At("fill"), RollBack)
      BY <1>4 DEF CreateTemporary
    <2>2. /\ new \in Disks /\ new.journal = "header" /\ new.target = disk.target
          /\ new.backup = disk.backup /\ new.temporary = [disk.temporary EXCEPT ![i] = "torn"]
          /\ \A k \in Entries : Restorable(new, k)
      BY <1>1, <1>3
    <2> HIDE DEF new
    <2>3. Sound(new) /\ ~DecidedNew(new) /\ ~DecidedNew(disk)
      BY <1>2, <2>2 DEF Sound, DecidedNew
    <2>4. /\ SurvivorsSound'
          /\ \/ pc' = At("fill") /\ disk' = new
             \/ pc' = RollBack /\ disk' = disk
      BY <1>0, <2>1, <2>2, <2>3, UnsyncedSound DEF Good
    <2>5. ~unsynced'
      BY <2>1 DEF StoreUnsynced
    <2>6. ASSUME pc' = At("fill"), disk' = new PROVE Placed'
      <3>1. pc'.at = "fill" /\ pc'.entry = i
        BY <1>0, <2>6, FitsAt DEF Places, WalkPlaces
      <3>2. \A k \in Entries : k # i => disk'.temporary[k] = disk.temporary[k]
        BY <1>0, <1>1, <2>2, <2>6 DEF Disks
      <3>3. PassPlaces'
        BY <1>1, <1>2, <2>2, <2>6, <3>1, <3>2 DEF PassPlaces, ReplacePlaces
      <3> QED
        BY <3>1, <3>3 DEF Placed, HeaderPlaces, EndPlaces, CleanupPlaces
    <2>7. ASSUME pc' = RollBack, disk' = disk PROVE Placed'
      BY <1>0, <1>2, <2>7, FitsRollBack, EasyPlaces
    <2> QED
      BY <2>4, <2>5, <2>6, <2>7 DEF Good
  <1>5. CASE CreateTemporary /\ ~HasSource(i)
    <2>1. Read(NextEntry("prepare", AtEntry("replace", 1)))
      BY <1>5 DEF CreateTemporary
    <2>2. /\ pc' = NextEntry("prepare", AtEntry("replace", 1)) /\ disk' = disk
          /\ survivors' = survivors /\ SurvivorsSound' /\ ~unsynced'
      BY <1>0, <2>1, ReadSound DEF Good, Read
    <2>3. disk.temporary[i] = "absent" /\ survivors = {disk}
      BY <1>1, <1>5 DEF CreateTemporary, Good, Placed, PassPlaces, ReplacePlaces
    <2>4. Expected(i) = "absent"
      BY <1>1, <1>5, PlanContents
    <2>5. \A k \in Entries : k <= i => disk.temporary[k] = Expected(k)
      <3>1. \A k \in Entries : k <= i => k < i \/ k = i
        BY <1>1, PlanFacts
      <3> QED
        BY <1>2, <2>3, <2>4, <3>1
    <2>6. Placed'
      BY <1>0, <1>2, <2>2, <2>3, <2>5, PreparedNext
    <2> QED
      BY <2>2, <2>6 DEF Good
  <1>6. CASE FillTemporary
    <2> DEFINE new == [disk EXCEPT !.temporary[i] = Expected(i)]
               ok == NextEntry("prepare", AtEntry("replace", 1))
    <2>1. Store(new, ok, RollBack)
      BY <1>6 DEF FillTemporary
    <2>2. /\ new \in Disks /\ new.journal = "header" /\ new.target = disk.target
          /\ new.backup = disk.backup /\ new.temporary = [disk.temporary EXCEPT ![i] = Expected(i)]
          /\ \A k \in Entries : Restorable(new, k)
      BY <1>1, <1>3
    <2> HIDE DEF new
    <2>3. /\ ~unsynced' /\ SurvivorsSound'
          /\ Placed' \/ (pc' = ok /\ Alike(disk', new) /\ survivors' = {disk'})
      BY <1>0, <1>2, <2>1, <2>2, PassStore
    <2>4. \A k \in Entries : /\ k <= i => new.temporary[k] = Expected(k)
                             /\ k > i => new.temporary[k] = "absent"
      <3>1. \A k \in Entries : (k <= i => k < i \/ k = i) /\ (k > i => k # i)
        BY <1>1, PlanFacts
      <3>2. \A k \in Entries : new.temporary[k] = IF k = i THEN Expected(i) ELSE disk.temporary[k]
        BY <1>0, <1>1, <2>2 DEF Disks
      <3> QED
        BY <1>2, <3>1, <3>2
    <2>5. ASSUME pc' = ok, Alike(disk', new), survivors' = {disk'} PROVE Placed'
      BY <1>0, <1>2, <2>2, <2>4, <2>5, PreparedNext DEF Alike
    <2> QED
      BY <2>3, <2>5 DEF Good
  <1> QED
    BY <1>4, <1>5, <1>6

\* The second pass: an entry is waiting, replaced, or between the two with its backup.
LEMMA ReplaceSound ==
  ASSUME TypeInv, Good, ~unsynced, ReplaceTarget \/ PlaceTarget
  PROVE  ~unsynced' /\ Good'
  <1> DEFINE i == pc.entry
             next == NextEntry("replace", At("commit"))
  <1>0. /\ Fits(pc) /\ disk \in Disks /\ pc.at \in WalkPlaces /\ pc.at # "syncCommit"
        /\ pc.at \in {"replace", "place"}
    BY TypesOfCounter, DiskIsSound DEF ReplaceTarget, PlaceTarget, WalkPlaces
  <1>1. i \in Entries /\ (\A k \in Entries : k = i \/ k < i \/ k > i)
    BY <1>0, PlanFacts DEF Fits
  <1>2. /\ disk.journal = "header"
        /\ \A k \in Entries : /\ k < i => Replaced(disk, k)
                              /\ k > i => Waiting(disk, k)
    BY <1>0 DEF Good, Placed, PassPlaces
  \* A change of entry i alone that can be rolled back, and what follows if it is replaced.
  <1>3. ASSUME NEW new \in Disks, new.journal = disk.journal, Restorable(new, i),
               \A k \in Entries \ {i} : /\ new.target[k] = disk.target[k]
                                        /\ new.temporary[k] = disk.temporary[k]
                                        /\ new.backup[k] = disk.backup[k],
               NEW ok, Store(new, ok, RollBack)
        PROVE  /\ ~unsynced' /\ SurvivorsSound'
               /\ Placed' \/ (pc' = ok /\ Alike(disk', new) /\ survivors' = {disk'})
               /\ Replaced(new, i) /\ ok = next => Placed'
    <2>1. \A k \in Entries \ {i} : /\ k < i => Replaced(new, k)
                                   /\ k > i => Waiting(new, k)
      BY <1>2, <1>3 DEF Replaced, Waiting
    <2>2. \A k \in Entries : Restorable(new, k)
      <3> SUFFICES ASSUME NEW k \in Entries PROVE Restorable(new, k)
        OBVIOUS
      <3>1. CASE k = i
        BY <1>3, <3>1
      <3>2. CASE k # i
        BY <1>1, <2>1, <3>2, RestorableEntries DEF Waiting
      <3> QED
        BY <3>1, <3>2
    <2>3. /\ ~unsynced' /\ SurvivorsSound'
          /\ Placed' \/ (pc' = ok /\ Alike(disk', new) /\ survivors' = {disk'})
      BY <1>0, <1>2, <1>3, <2>2, PassStore
    <2>4. ASSUME Replaced(new, i), ok = next, pc' = ok, Alike(disk', new), survivors' = {disk'}
          PROVE  Placed'
      <3>1. \A k \in Entries : /\ k <= i => Replaced(new, k)
                               /\ k > i => Waiting(new, k)
        <4>1. \A k \in Entries : (k <= i => k < i \/ k = i) /\ (k > i => k # i) /\ (k < i => k # i)
          BY <1>1, PlanFacts
        <4> QED
          BY <2>1, <2>4, <4>1
      <3>2. \A k \in Entries : /\ k <= i => Replaced(disk', k)
                               /\ k > i => Waiting(disk', k)
        BY <2>4, <3>1, AlikeFacts
      <3>3. disk'.journal = "header"
        BY <1>2, <1>3, <2>4 DEF Alike
      <3> QED
        BY <1>0, <2>4, <3>2, <3>3, ReplacedNext
    <2> QED
      BY <2>3, <2>4
  <1>4. /\ Files(MoveToBackup(disk, i), [disk.target EXCEPT ![i] = "absent"], disk.temporary,
                 [disk.backup EXCEPT ![i] = disk.target[i]], disk)
        /\ Files(MoveIntoPlace(disk, i), [disk.target EXCEPT ![i] = disk.temporary[i]],
                 [disk.temporary EXCEPT ![i] = "absent"], disk.backup, disk)
        /\ Files(MoveIntoPlace(MoveToBackup(disk, i), i),
                 [disk.target EXCEPT ![i] = disk.temporary[i]],
                 [disk.temporary EXCEPT ![i] = "absent"],
                 [disk.backup EXCEPT ![i] = disk.target[i]], disk)
    <2>1. /\ Files(MoveToBackup(disk, i), [disk.target EXCEPT ![i] = "absent"], disk.temporary,
                   [disk.backup EXCEPT ![i] = disk.target[i]], disk)
          /\ Files(MoveIntoPlace(disk, i), [disk.target EXCEPT ![i] = disk.temporary[i]],
                   [disk.temporary EXCEPT ![i] = "absent"], disk.backup, disk)
      BY <1>0, <1>1, MoveFields
    <2> DEFINE d == MoveToBackup(disk, i)
    <2>2. d \in Disks
      BY <2>1 DEF Files
    <2> HIDE DEF d
    <2>3. Files(MoveIntoPlace(d, i), [d.target EXCEPT ![i] = d.temporary[i]],
                [d.temporary EXCEPT ![i] = "absent"], d.backup, d)
      BY <1>1, <2>2, MoveFields
    <2>4. [d.target EXCEPT ![i] = d.temporary[i]] = [disk.target EXCEPT ![i] = disk.temporary[i]]
      BY <1>0, <1>1, <2>1 DEF d, Files, Disks
    <2>5. /\ d.temporary = disk.temporary /\ d.backup = [disk.backup EXCEPT ![i] = disk.target[i]]
          /\ d.journal = disk.journal /\ d.serial = disk.serial
      BY <2>1 DEF d, Files
    <2>6. Files(MoveIntoPlace(d, i), [disk.target EXCEPT ![i] = disk.temporary[i]],
                [disk.temporary EXCEPT ![i] = "absent"],
                [disk.backup EXCEPT ![i] = disk.target[i]], disk)
      BY <2>3, <2>4, <2>5 DEF Files
    <2> QED
      BY <2>1, <2>6 DEF d
  <1>5. CASE ReplaceTarget
    <2>1. Waiting(disk, i)
      BY <1>1, <1>5 DEF ReplaceTarget, Good, Placed, PassPlaces
    <2>2. ReadyToReplace(i)
      BY <2>1 DEF ReadyToReplace, Waiting
    <2>3. CASE ~TargetExisted(i) /\ Store(MoveIntoPlace(disk, i), next, RollBack)
      <3> DEFINE new == MoveIntoPlace(disk, i)
      <3>1. Replaced(new, i) /\ new \in Disks /\ new.journal = disk.journal
        BY <1>0, <1>1, <1>4, <2>1, <2>3, PlanContents DEF Files, Disks, Waiting, Replaced
      <3>2. \A k \in Entries \ {i} : /\ new.target[k] = disk.target[k]
                                     /\ new.temporary[k] = disk.temporary[k]
                                     /\ new.backup[k] = disk.backup[k]
        BY <1>0, <1>1, <1>4 DEF Files, Disks
      <3> HIDE DEF new
      <3>3. Restorable(new, i)
        BY <1>1, <3>1, RestorableEntries
      <3> QED
        BY <1>3, <2>3, <3>1, <3>2, <3>3 DEF new, Good
    <2>4. CASE /\ TargetExisted(i)
               /\ \E ok \in {next, At("place"), RollBack} :
                    /\ Store(MoveToBackup(disk, i), ok, RollBack)
                    /\ ok = next => ~HasSource(i)
                    /\ ok = At("place") => HasSource(i)
      <3> DEFINE new == MoveToBackup(disk, i)
      <3>0. PICK ok \in {next, At("place"), RollBack} :
                    /\ Store(new, ok, RollBack)
                    /\ ok = next => ~HasSource(i)
                    /\ ok = At("place") => HasSource(i)
        BY <2>4
      <3>1. /\ new \in Disks /\ new.journal = disk.journal /\ new.target[i] = "absent"
            /\ new.backup[i] = Original(i) /\ new.temporary[i] = Expected(i)
        BY <1>0, <1>1, <1>4, <2>1 DEF Files, Disks, Waiting
      <3>2. \A k \in Entries \ {i} : /\ new.target[k] = disk.target[k]
                                     /\ new.temporary[k] = disk.temporary[k]
                                     /\ new.backup[k] = disk.backup[k]
        BY <1>0, <1>1, <1>4 DEF Files, Disks
      <3> HIDE DEF new
      <3>3. Restorable(new, i)
        BY <1>1, <2>4, <3>1, RestorableEntries
      <3>4. ok = next => Replaced(new, i)
        BY <1>1, <3>0, <3>1, PlanContents DEF Replaced
      <3>5. /\ ~unsynced' /\ SurvivorsSound'
            /\ Placed' \/ (pc' = ok /\ Alike(disk', new) /\ survivors' = {disk'})
            /\ Replaced(new, i) /\ ok = next => Placed'
        BY <1>3, <3>0, <3>1, <3>2, <3>3
      <3>6. ASSUME ok = At("place"), pc' = ok, Alike(disk', new), survivors' = {disk'} PROVE Placed'
        <4>1. pc'.at = "place" /\ pc'.entry = i
          BY <1>0, <3>6, FitsAt DEF Places, WalkPlaces
        <4>2. disk'.journal = "header" /\ \A k \in Entries : /\ k < i => Replaced(disk', k)
                                                             /\ k > i => Waiting(disk', k)
          <5>1. \A k \in Entries : (k > i => k # i) /\ (k < i => k # i)
            BY <1>1, PlanFacts
          <5> QED
            BY <1>2, <3>1, <3>2, <3>6, <5>1 DEF Alike, Replaced, Waiting
        <4>3. /\ disk'.target[i] = "absent" /\ disk'.backup[i] = Original(i)
              /\ disk'.temporary[i] = Expected(i) /\ TargetExisted(i) /\ HasSource(i)
          BY <2>4, <3>0, <3>1, <3>6 DEF Alike
        <4>4. PassPlaces'
          BY <3>6, <4>1, <4>2, <4>3
             DEF PassPlaces, ReplacePlaces, Replaced, Waiting, TargetExisted, HasSource
        <4> QED
          BY <4>1, <4>4 DEF Placed, HeaderPlaces, EndPlaces, CleanupPlaces
      <3>7. ASSUME ok = RollBack, pc' = ok, Alike(disk', new) PROVE Placed'
        BY <1>0, <1>2, <3>1, <3>7, FitsRollBack, EasyPlaces DEF Alike
      <3> QED
        BY <3>0, <3>4, <3>5, <3>6, <3>7 DEF Good
    <2>5. CASE TargetExisted(i) /\ Store(MoveIntoPlace(MoveToBackup(disk, i), i), next, RollBack)
      <3> DEFINE new == MoveIntoPlace(MoveToBackup(disk, i), i)
      <3>1. Replaced(new, i) /\ new \in Disks /\ new.journal = disk.journal
        BY <1>0, <1>1, <1>4, <2>1 DEF Files, Disks, Waiting, Replaced
      <3>2. \A k \in Entries \ {i} : /\ new.target[k] = disk.target[k]
                                     /\ new.temporary[k] = disk.temporary[k]
                                     /\ new.backup[k] = disk.backup[k]
        BY <1>0, <1>1, <1>4 DEF Files, Disks
      <3> HIDE DEF new
      <3>3. Restorable(new, i)
        BY <1>1, <3>1, RestorableEntries
      <3> QED
        BY <1>3, <2>5, <3>1, <3>2, <3>3 DEF new, Good
    <2> QED
      <3>1. next # At("place") /\ next # RollBack /\ At("place") # RollBack
        <4>1. next.at \in {"replace", "commit"} /\ At("place").at = "place" /\ RollBack.at = "restore"
          BY <1>0, FitsNextEntry, FitsAt, FitsRollBack DEF WalkPlaces, Places
        <4> QED
          BY <4>1
      <3> QED
        BY <1>5, <2>2, <2>3, <2>4, <2>5, <3>1, ReplaceSteps
  <1>6. CASE PlaceTarget
    <2> DEFINE new == MoveIntoPlace(disk, i)
    <2>1. /\ disk.target[i] = "absent" /\ disk.backup[i] = Original(i)
          /\ disk.temporary[i] = Expected(i)
      BY <1>6 DEF PlaceTarget, Good, Placed, PassPlaces
    <2>2. Replaced(new, i) /\ new \in Disks /\ new.journal = disk.journal
      BY <1>0, <1>1, <1>4, <2>1 DEF Files, Disks, Replaced
    <2>3. \A k \in Entries \ {i} : /\ new.target[k] = disk.target[k]
                                   /\ new.temporary[k] = disk.temporary[k]
                                   /\ new.backup[k] = disk.backup[k]
      BY <1>0, <1>1, <1>4 DEF Files, Disks
    <2>4. Store(new, next, RollBack)
      BY <1>6 DEF PlaceTarget
    <2> HIDE DEF new
    <2>5. Restorable(new, i)
      BY <1>1, <2>2, RestorableEntries
    <2> QED
      BY <1>3, <2>2, <2>3, <2>4, <2>5 DEF Good
  <1> QED
    BY <1>5, <1>6

\* The commit finds every entry replaced and no other survivor; a record whose sync is
\* not known to have worked lifts the promise.
LEMMA CommitSound ==
  ASSUME TypeInv, Good, ~unsynced, Commit
  PROVE  unsynced' \/ Good'
  <1>0. /\ Fits(pc) /\ disk \in Disks /\ survivors = {disk} /\ SurvivorsSound
        /\ \A i \in Entries : Replaced(disk, i)
        /\ {"committing", "committed"} \subseteq Journals
    BY TypesOfCounter, DiskIsSound
       DEF Commit, WriteCommit, SyncCommit, Good, Placed, PassPlaces, ReplacePlaces, Journals
  <1>1. At("syncCommit").at = "syncCommit" /\ At("audit").at = "audit" /\ RollBack.at = "restore"
    BY <1>0, FitsAt, FitsRollBack DEF Places, WalkPlaces
  <1>2. ASSUME NEW j \in {"committing", "committed"}, disk.journal # "absent",
               disk' = WithBytes(disk, j), survivors' = {WithBytes(s, j) : s \in survivors},
               j = "committing" => pc'.at = "syncCommit"
        PROVE  /\ SurvivorsSound' /\ disk'.journal = j /\ survivors' = {disk'}
               /\ \A i \in Entries : Replaced(disk', i)
    <2>1. /\ disk'.journal = j /\ disk'.target = disk.target /\ survivors' = {disk'}
          /\ disk'.temporary = disk.temporary /\ disk'.backup = disk.backup
      BY <1>0, <1>2, WithBytesFields
    <2>2. \A i \in Entries : Replaced(disk', i)
      BY <1>0, <2>1 DEF Replaced
    <2>3. Sound(disk')
      BY <2>1, <2>2 DEF Sound, Installed, Replaced
    <2>4. SurvivorsSound'
      BY <1>2, <2>1, <2>3 DEF SurvivorsSound, Sound, DecidedNew, Whole, Clean, RolledBack, Restorable,
                              Replaced, Installed, WhollyOld, WhollyNew
    <2> QED
      BY <2>1, <2>2, <2>4
  <1>3. CASE WriteCommit
    <2>1. disk.journal = "header" /\ StoreJournal("committing", At("syncCommit"), RollBack)
      BY <1>3 DEF WriteCommit, Good, Placed, PassPlaces
    <2>2. CASE /\ disk' = WithBytes(disk, "committing") /\ pc' = At("syncCommit")
               /\ survivors' = {WithBytes(s, "committing") : s \in survivors}
      <3>1. /\ SurvivorsSound' /\ disk'.journal = "committing" /\ survivors' = {disk'}
            /\ \A i \in Entries : Replaced(disk', i)
        BY <1>1, <1>2, <2>1, <2>2
      <3>2. PassPlaces'
        BY <1>1, <2>2, <3>1 DEF PassPlaces, ReplacePlaces, Replaced
      <3>3. Placed'
        BY <1>1, <2>2, <3>2 DEF Placed, HeaderPlaces, EndPlaces, CleanupPlaces
      <3> QED
        BY <3>1, <3>3 DEF Good
    <2>3. CASE UNCHANGED <<disk, survivors>> /\ pc' = RollBack
      <3>1. SurvivorsSound'
        BY <1>0, <2>1, <2>3 DEF SurvivorsSound, Sound, DecidedNew, Whole, Clean, RolledBack, Restorable,
                                Replaced, Installed, WhollyOld, WhollyNew
      <3>2. Placed'
        BY <1>1, <2>1, <2>3, EasyPlaces
      <3> QED
        BY <3>1, <3>2 DEF Good
    <2>4. CASE disk' = WithBytes(disk, "committing") /\ pc' = RollBack
      <3>1. disk'.journal = "committing"
        BY <1>0, <2>1, <2>4, WithBytesFields
      <3>2. pc' # At("syncCommit")
        BY <1>1, <2>4
      <3> QED
        BY <2>1, <3>1, <3>2 DEF StoreJournal
    <2> QED
      BY <2>1, <2>2, <2>3, <2>4 DEF StoreJournal
  <1>4. CASE SyncCommit
    <2>1. disk.journal = "committing" /\ StoreJournal("committed", At("audit"), RollBack)
      BY <1>4 DEF SyncCommit, Good, Placed, PassPlaces
    <2>2. CASE /\ disk' = WithBytes(disk, "committed") /\ pc' = At("audit")
               /\ survivors' = {WithBytes(s, "committed") : s \in survivors}
      <3>1. SurvivorsSound' /\ disk'.journal = "committed"
        BY <1>1, <1>2, <2>1, <2>2
      <3>2. Placed'
        BY <1>1, <2>2, <3>1, EasyPlaces
      <3> QED
        BY <3>1, <3>2 DEF Good
    <2>3. CASE ~(pc' = At("audit"))
      <3>1. disk'.journal \in {"committing", "committed"}
        BY <1>0, <2>1, WithBytesFields DEF StoreJournal
      <3> QED
        BY <2>1, <2>3, <3>1 DEF StoreJournal
    <2> QED
      <3>1. At("audit") # RollBack
        BY <1>1
      <3> QED
        BY <2>1, <2>2, <2>3, <3>1 DEF StoreJournal
  <1> QED
    BY <1>3, <1>4 DEF Commit

\* A death leaves the files; a power loss leaves one survivor, its unsynced bytes settled
\* one way or the other.
LEMMA CrashSound ==
  ASSUME TypeInv, Good, ~unsynced, Die \/ PowerLoss
  PROVE  unsynced' \/ Good'
  <1>1. pc'.at = "off"
    BY DEF Die, PowerLoss, Off
  <1>2. Placed'
    BY <1>1, EasyPlaces
  <1>3. CASE Die
    <2> SUFFICES ASSUME ~unsynced' PROVE SurvivorsSound'
      BY <1>2 DEF Good
    <2>1. disk.journal # "committing" /\ UNCHANGED <<disk, survivors>>
      BY <1>3 DEF Die
    <2>2. pc.at # "syncCommit"
      BY <2>1 DEF Good, Placed, PassPlaces
    <2> QED
      BY <2>1, <2>2 DEF Good, SurvivorsSound, Sound, DecidedNew, Whole, Clean, RolledBack,
         Restorable, Replaced, Installed, WhollyOld, WhollyNew
  <1>4. CASE PowerLoss
    <2>1. PICK s \in survivors, j \in Journals :
             /\ j \in Settled(s.journal) /\ s \in Disks /\ disk'.journal = j
             /\ disk'.target = s.target /\ disk'.temporary = s.temporary /\ disk'.backup = s.backup
      BY <1>4, PowerLossDisk
    <2>2. Sound(s)
      BY DEF Good, SurvivorsSound
    <2>3. Sound(disk') /\ disk'.journal # "committing"
      <3>1. CASE s.journal = "written"
        BY <2>1, <2>2, <3>1, RestorableEntries DEF Settled, Sound, RolledBack
      <3>2. CASE s.journal = "committing"
        <4>1. \A i \in Entries : Replaced(disk', i)
          BY <2>1, <2>2, <3>2 DEF Sound, Replaced
        <4> QED
          BY <2>1, <3>2, <4>1, RestorableEntries DEF Settled, Sound, Installed, Replaced
      <3>3. CASE s.journal \notin {"written", "committing"}
        <4>1. j = s.journal
          BY <2>1, <3>3 DEF Settled
        <4> QED
          BY <2>1, <2>2, <3>3, <4>1, AlikeFacts DEF Alike
      <3> QED
        BY <3>1, <3>2, <3>3
    <2>4. survivors' = {disk'}
      BY <1>4 DEF PowerLoss
    <2>5. SurvivorsSound'
      BY <2>3, <2>4 DEF SurvivorsSound, Sound, DecidedNew, Whole, Clean, RolledBack, Restorable,
                        Replaced, Installed, WhollyOld, WhollyNew
    <2> QED
      BY <1>2, <2>5 DEF Good
  <1> QED
    BY <1>3, <1>4

-----------------------------------------------------------------------------
(* The inductive invariant and the theorems. *)

\* Nothing has happened yet: one survivor, the old release.
LEMMA InvInit == Init => Inv
  <1> SUFFICES ASSUME Init PROVE Inv
    OBVIOUS
  <1>1. TypeInv
    BY TypesInit
  <1>2. /\ pc.at = "off" /\ survivors = {disk} /\ disk.journal = "absent" /\ RolledBack(disk)
    BY DEF Init, Off, OldInstall, RolledBack
  <1>3. Sound(disk)
    BY <1>2 DEF Sound, Whole, WhollyOld, Clean, RolledBack
  <1>4. SurvivorsSound
    BY <1>2, <1>3 DEF SurvivorsSound
  <1>5. HeaderPlaces /\ PassPlaces /\ EndPlaces
    BY <1>2 DEF HeaderPlaces, PassPlaces, EndPlaces, ReplacePlaces, CleanupPlaces
  <1>6. OnlyChanges
    BY <1>2 DEF OnlyChanges, WhollyOld, RolledBack
  <1> QED
    BY <1>1, <1>4, <1>5, <1>6 DEF Inv, TypeInv

\* A lapsed promise stays lapsed.
LEMMA UnsyncedStays == unsynced /\ TypeInv /\ [Next]_vars => unsynced'
  <1> SUFFICES ASSUME unsynced, [Next]_vars PROVE unsynced'
    OBVIOUS
  <1>1. CASE Die \/ PowerLoss \/ LaunchRecovery \/ LaunchUpdate \/ UNCHANGED vars
    BY <1>1 DEF Die, PowerLoss, LaunchRecovery, LaunchUpdate, Read, vars
  <1>2. CASE Inspect \/ PlanReplacement
    BY <1>2 DEF Inspect, PlanReplacement, Read
  <1>3. CASE Rollback
    BY <1>3 DEF Rollback, RestoreEntry, DiscardTemporary, Recheck, UnlinkJournal, Store, Read
  <1>4. CASE Cleanup
    BY <1>4 DEF Cleanup, Audit, SweepTemporary, SweepBackup, SweepJournal, Store, Read
  <1>5. CASE Header \/ Commit
    BY <1>5 DEF Header, CreateJournal, WriteHeader, SyncHeader, AbandonHeader, SyncJournalEntry,
                Commit, WriteCommit, SyncCommit, Store, StoreUnsynced, StoreJournal
  <1>6. CASE Replacement
    BY <1>6 DEF Replacement, CreateTemporary, FillTemporary, ReplaceTarget, PlaceTarget, Store,
                StoreUnsynced, Read
  <1> QED
    BY <1>1, <1>2, <1>3, <1>4, <1>5, <1>6 DEF Next, Step

\* Reads and rollbacks leave the promise as it is.
LEMMA GoodNext == Inv /\ [Next]_vars => unsynced' \/ Good'
  <1> SUFFICES ASSUME Inv, [Next]_vars PROVE unsynced' \/ Good'
    OBVIOUS
  <1>1. TypeInv /\ OnlyChanges
    BY DEF Inv, TypeInv
  <1>2. CASE unsynced
    BY <1>1, <1>2, UnsyncedStays
  <1>3. CASE ~unsynced
    <2>1. Good
      BY <1>3 DEF Inv, Good, Placed
    <2>2. CASE UNCHANGED vars
      <3>1. UNCHANGED <<disk, survivors, pc>>
        BY <2>2 DEF vars
      <3>2. SurvivorsSound'
        BY <2>1, <3>1 DEF Good, SurvivorsSound, Sound, DecidedNew, Whole, Clean, RolledBack,
           Restorable, Replaced, Installed, WhollyOld, WhollyNew
      <3>3. HeaderPlaces'
        BY <2>1, <3>1 DEF Good, Placed, HeaderPlaces, OnlyJournal, RolledBack
      <3>4. PassPlaces'
        BY <2>1, <3>1 DEF Good, Placed, PassPlaces, Waiting, Replaced
      <3>5. EndPlaces'
        BY <2>1, <3>1 DEF Good, Placed, EndPlaces, RolledBack, Clean
      <3> QED
        BY <3>2, <3>3, <3>4, <3>5 DEF Good, Placed
    <2> QED
      BY <1>1, <1>3, <2>1, <2>2, LaunchSound, RollbackSound, CleanupSound, HeaderSound,
         PrepareSound, ReplaceSound, CommitSound, CrashSound
         DEF Next, Step, Replacement
  <1> QED
    BY <1>2, <1>3

\* Every step keeps the invariant.
LEMMA InvNext == Inv /\ [Next]_vars => Inv'
  <1> SUFFICES ASSUME Inv, [Next]_vars PROVE Inv'
    OBVIOUS
  <1>1. TypeInv /\ OnlyChanges
    BY DEF Inv, TypeInv
  <1>2. TypeInv' /\ OnlyChanges'
    BY <1>1, TypesNext, OnlyChangesNext
  <1>3. unsynced' \/ Good'
    BY GoodNext
  <1> QED
    BY <1>2, <1>3 DEF Inv, TypeInv, Good, Placed

\* Whatever call fails, wherever the updater dies and whatever a power loss takes back,
\* every disk state that may be left can be recovered to one whole release by rollback or
\* clean-up, unless a commit record was left whose sync failed or never ran: for every plan
\* and any number of files, attempts, failures and crashes.
THEOREM Recoverability == Spec => []AlwaysRecoverable
  <1>1. Inv => AlwaysRecoverable
    <2> SUFFICES ASSUME Inv, ~unsynced, NEW s \in survivors PROVE Recoverable(s)
      BY DEF AlwaysRecoverable
    <2>1. Sound(s) /\ s.journal \in Journals
      BY DEF Inv, SurvivorsSound, TypeOK, Disks
    <2>2. CASE s.journal \in {"absent", "torn"}
      BY <2>1, <2>2 DEF Sound, Recoverable, Clean, RolledBack, Whole, WhollyOld
    <2>3. CASE s.journal \in {"written", "header"}
      BY <2>1, <2>3, RestorableEntries DEF Sound, Recoverable, RolledBack
    <2>4. CASE s.journal \in {"committing", "committed"}
      BY <2>1, <2>4 DEF Sound, Recoverable, Replaced, Installed
    <2> QED
      BY <2>1, <2>2, <2>3, <2>4 DEF Journals
  <1> QED
    BY <1>1, InvInit, InvNext, PTL DEF Spec

-----------------------------------------------------------------------------
(* The transaction implements the atomic installation. *)

\* A step that leaves the journal leaves the decision, if there is a journal or no file
\* is renamed.
LEMMA KeptDecision ==
  ASSUME disk'.journal = disk.journal, disk.journal # "absent" \/ disk'.target = disk.target
  PROVE  DecidedNew(disk') <=> DecidedNew(disk)
  BY DEF DecidedNew, WhollyOld

\* What is decided stays decided, and the one step that decides finds every file in place
\* and moves none.
LEMMA DecisionNext ==
  ASSUME TypeInv, Good, OnlyChanges, ~unsynced, ~unsynced', [Next]_vars
  PROVE  \/ DecidedNew(disk') <=> DecidedNew(disk)
         \/ /\ ~DecidedNew(disk) /\ DecidedNew(disk')
            /\ WhollyNew(disk) /\ pc.at # "off" /\ disk'.target = disk.target
  <1>0. disk \in Disks /\ Sound(disk) /\ Fits(pc)
    BY DiskIsSound, TypesOfCounter
  <1>1. CASE UNCHANGED disk
    BY <1>1, KeptDecision
  <1>2. CASE LaunchRecovery \/ LaunchUpdate \/ Inspect \/ PlanReplacement \/ Recheck \/ Audit \/ Die
    BY <1>1, <1>2 DEF LaunchRecovery, LaunchUpdate, Inspect, PlanReplacement, Recheck, Audit, Die, Read
  <1>3. CASE RestoreEntry \/ DiscardTemporary
    <2>1. disk.journal \in {"written", "header"}
      BY <1>3 DEF RestoreEntry, DiscardTemporary, Good, Placed, EndPlaces
    <2>2. disk'.journal = disk.journal
      BY <1>0, <1>3 DEF RestoreEntry, DiscardTemporary, Store, Read, Synced, MoveBack, Disks
    <2> QED
      BY <2>1, <2>2, KeptDecision
  <1>4. CASE SweepTemporary \/ SweepBackup
    <2>1. disk.journal = "committed"
      BY <1>4 DEF SweepTemporary, SweepBackup, Good, Placed, EndPlaces, CleanupPlaces
    <2>2. disk'.journal = disk.journal
      BY <1>0, <1>4 DEF SweepTemporary, SweepBackup, Store, Synced, Disks
    <2> QED
      BY <2>1, <2>2, KeptDecision
  <1>5. CASE SyncJournalEntry \/ CreateTemporary \/ FillTemporary \/ PlaceTarget
    <2>1. disk.journal = "header"
      BY <1>5 DEF SyncJournalEntry, CreateTemporary, FillTemporary, PlaceTarget, Good, Placed,
                  HeaderPlaces, PassPlaces
    <2>2. disk'.journal = disk.journal
      BY <1>0, <1>5 DEF SyncJournalEntry, CreateTemporary, FillTemporary, PlaceTarget, Store,
                        StoreUnsynced, Read, Synced, MoveIntoPlace, Disks
    <2> QED
      BY <2>1, <2>2, KeptDecision
  <1>6. CASE ReplaceTarget
    <2>1. disk.journal = "header"
      BY <1>6 DEF ReplaceTarget, Good, Placed, PassPlaces
    <2>2. disk'.journal = disk.journal
      BY <1>0, <1>6 DEF ReplaceTarget, Store, Read, Synced, MoveIntoPlace, MoveToBackup, Disks
    <2> QED
      BY <2>1, <2>2, KeptDecision
  <1>7. CASE UnlinkJournal \/ AbandonHeader \/ CreateJournal
    <2>1. RolledBack(disk) /\ disk.journal # "committed"
      BY <1>7 DEF UnlinkJournal, AbandonHeader, CreateJournal, Good, Placed, EndPlaces, HeaderPlaces
    <2>2. disk'.target = disk.target /\ disk'.journal # "committed"
      BY <1>0, <1>7, <2>1 DEF UnlinkJournal, AbandonHeader, CreateJournal, Store, StoreUnsynced,
                              Synced, Disks
    <2> QED
      BY <2>1, <2>2 DEF RolledBack, DecidedNew, WhollyOld
  <1>8. CASE WriteHeader \/ SyncHeader
    <2>1. disk.journal \in {"torn", "written"} /\ {"written", "header"} \subseteq Journals
      BY <1>8 DEF WriteHeader, SyncHeader, Good, Placed, HeaderPlaces, Journals
    <2>2. disk'.journal \in {"torn", "written", "header"}
      BY <1>0, <1>8, <2>1, WithBytesFields DEF WriteHeader, SyncHeader, StoreJournal
    <2> QED
      BY <2>1, <2>2 DEF DecidedNew
  <1>9. CASE SweepJournal
    <2>1. disk.journal = "committed" /\ pc.at # "off"
      BY <1>9 DEF SweepJournal, Good, Placed, EndPlaces, CleanupPlaces
    <2>2. disk'.target = disk.target /\ disk'.journal \in {"absent", "committed"}
      BY <1>0, <1>9, <2>1 DEF SweepJournal, Store, Synced, Disks
    <2>3. ~WhollyOld(disk)
      BY <1>0, <2>1, NewIsNotOld DEF Sound, Installed, WhollyNew
    <2> QED
      BY <2>1, <2>2, <2>3 DEF DecidedNew, WhollyOld
  <1>10. CASE WriteCommit
    <2>1. disk.journal = "header" /\ "committing" \in Journals
      BY <1>10 DEF WriteCommit, Good, Placed, PassPlaces, Journals
    <2>2. disk'.journal \in {"header", "committing"}
      BY <1>0, <1>10, <2>1, WithBytesFields DEF WriteCommit, StoreJournal
    <2> QED
      BY <2>1, <2>2 DEF DecidedNew
  <1>11. CASE SyncCommit
    <2>1. /\ disk.journal = "committing" /\ "committed" \in Journals /\ pc.at # "off"
          /\ \A i \in Entries : Replaced(disk, i)
      BY <1>11 DEF SyncCommit, Good, Placed, PassPlaces, Journals
    <2>2. disk'.journal \in {"committing", "committed"} /\ disk'.target = disk.target
      BY <1>0, <1>11, <2>1, WithBytesFields DEF SyncCommit, StoreJournal
    <2> QED
      BY <2>1, <2>2 DEF DecidedNew, WhollyNew, Replaced
  <1>12. CASE PowerLoss
    <2>1. PICK s \in survivors, j \in Journals :
             /\ j \in Settled(s.journal) /\ s \in Disks /\ disk'.journal = j
             /\ disk'.target = s.target /\ disk'.temporary = s.temporary /\ disk'.backup = s.backup
      BY <1>12, PowerLossDisk
    <2>2. /\ DecidedNew(s) <=> DecidedNew(disk)
          /\ s.journal = "committing" => pc.at = "syncCommit"
      BY DEF Good, SurvivorsSound
    <2>3. CASE s.journal = "written"
      BY <2>1, <2>2, <2>3 DEF Settled, DecidedNew
    <2>4. CASE s.journal = "committing"
      <3>1. /\ pc.at = "syncCommit" /\ s = disk /\ \A i \in Entries : Replaced(disk, i)
        BY <2>2, <2>4 DEF Good, Placed, PassPlaces, ReplacePlaces
      <3>2. disk'.journal \in {"header", "committed"} /\ disk'.target = disk.target
        BY <2>1, <2>4, <3>1 DEF Settled
      <3> QED
        BY <2>4, <3>1, <3>2 DEF DecidedNew, WhollyNew, Replaced
    <2>5. CASE s.journal \notin {"written", "committing"}
      <3>1. disk'.journal = s.journal
        BY <2>1, <2>5 DEF Settled
      <3> QED
        BY <2>1, <2>2, <3>1 DEF DecidedNew, WhollyOld
    <2> QED
      BY <2>3, <2>4, <2>5
  <1> QED
    BY <1>1, <1>2, <1>3, <1>4, <1>5, <1>6, <1>7, <1>8, <1>9, <1>10, <1>11, <1>12
    DEF Next, Step, Rollback, Cleanup, Header, Replacement, Commit, vars

\* The promise lapses only before the decision, and no file moves in that step.
LEMMA DoubtNext ==
  ASSUME TypeInv, Good, ~unsynced, unsynced', [Next]_vars
  PROVE  ~DecidedNew(disk) /\ disk'.target = disk.target
  <1>0. disk \in Disks
    BY DiskIsSound
  <1>1. CASE Die
    BY <1>1 DEF Die, DecidedNew
  <1>2. CASE Commit
    <2>1. disk.journal \in {"header", "committing"} /\ {"committing", "committed"} \subseteq Journals
      BY <1>2 DEF Commit, WriteCommit, SyncCommit, Good, Placed, PassPlaces, Journals
    <2>a. /\ WithBytes(disk, "committing").target = disk.target
          /\ WithBytes(disk, "committed").target = disk.target
      BY <1>0, <2>1, WithBytesFields
    <2>2. disk'.target = disk.target
      BY <1>2, <2>a DEF Commit, WriteCommit, SyncCommit, StoreJournal
    <2> QED
      BY <2>1, <2>2 DEF DecidedNew
  <1>3. CASE Header
    BY <1>3, HeaderSound
  <1>4. CASE PowerLoss \/ LaunchRecovery \/ LaunchUpdate \/ UNCHANGED vars \/ Inspect \/ PlanReplacement
    BY <1>4 DEF PowerLoss, LaunchRecovery, LaunchUpdate, Read, vars, Inspect, PlanReplacement
  <1>5. CASE Rollback
    BY <1>5 DEF Rollback, RestoreEntry, DiscardTemporary, Recheck, UnlinkJournal, Store, Read
  <1>6. CASE Cleanup
    BY <1>6 DEF Cleanup, Audit, SweepTemporary, SweepBackup, SweepJournal, Store, Read
  <1>7. CASE Replacement
    BY <1>7, PrepareSound, ReplaceSound DEF Replacement
  <1> QED
    BY <1>1, <1>2, <1>3, <1>4, <1>5, <1>6, <1>7 DEF Next, Step

\* Once the new release is decided, all of it is in place.
LEMMA DecidedIsInstalled ==
  ASSUME NEW d, Sound(d), DecidedNew(d), Changing
  PROVE  WhollyNew(d) /\ ~WhollyOld(d)
  <1>1. WhollyNew(d)
    BY DEF Sound, DecidedNew, Whole, Installed, WhollyNew
  <1> QED
    BY <1>1 DEF Changing, WhollyNew, WhollyOld

\* Every step of the transaction is a step of the atomic installation or none.
LEMMA PromiseNext == Inv /\ Inv' /\ [Next]_vars => [Promise!Next]_(Promise!vars)
  <1> SUFFICES ASSUME Inv, Inv', [Next]_vars PROVE [Promise!Next]_(Promise!vars)
    OBVIOUS
  <1> DEFINE Files0 == IF WhollyOld(disk) THEN "old" ELSE IF WhollyNew(disk) THEN "new" ELSE "between"
             Mark0 == IF unsynced THEN "doubt"
                      ELSE IF disk.journal = "committed" THEN "new"
                      ELSE IF disk.journal = "absent" /\ ~WhollyOld(disk) THEN "new"
                      ELSE "old"
  <1> USE DEF Promise!Next, Promise!vars, Promise!Replace, Promise!Decide, Promise!Doubt,
              Promise!Lapsed
  <1>1. TypeInv /\ OnlyChanges
    BY DEF Inv, TypeInv
  <1>2. /\ Mark0 = IF unsynced THEN "doubt" ELSE IF DecidedNew(disk) THEN "new" ELSE "old"
        /\ Mark0' = IF unsynced' THEN "doubt" ELSE IF DecidedNew(disk') THEN "new" ELSE "old"
        /\ Files0 \in {"old", "new", "between"} /\ Files0' \in {"old", "new", "between"}
    BY DEF DecidedNew, WhollyOld
  <1>3. disk'.target = disk.target => Files0' = Files0
    BY DEF WhollyOld, WhollyNew
  <1>4. /\ ~unsynced /\ DecidedNew(disk) => Files0 = "new"
        /\ ~unsynced' /\ DecidedNew(disk') => Files0' = "new"
    <2>1. ASSUME ~unsynced, DecidedNew(disk) PROVE Files0 = "new"
      <3>1. Sound(disk) /\ Changing
        BY <2>1 DEF Inv, SurvivorsSound, TypeOK, OnlyChanges, DecidedNew
      <3> QED
        BY <2>1, <3>1, DecidedIsInstalled
    <2>2. ASSUME ~unsynced', DecidedNew(disk') PROVE Files0' = "new"
      <3>1. /\ \A s \in survivors' : Sound(s)'
            /\ disk' \in survivors'
            /\ Changing \/ \A s \in survivors' : s.journal = "absent" /\ WhollyOld(s)'
        BY <2>2 DEF Inv, SurvivorsSound, TypeOK, OnlyChanges, Changing, Original, Expected
      <3>2. Sound(disk') /\ Changing
        BY <2>2, <3>1 DEF DecidedNew, WhollyOld, Sound, Whole, Clean, RolledBack, Restorable,
                          Replaced, Installed, WhollyNew
      <3>3. WhollyNew(disk') /\ ~WhollyOld(disk')
        BY <2>2, <3>2, DecidedIsInstalled
      <3> QED
        BY <3>3 DEF WhollyNew, WhollyOld
    <2> QED
      BY <2>1, <2>2
  <1>5. CASE unsynced
    <2>1. unsynced'
      BY <1>1, <1>5, UnsyncedStays
    <2> QED
      BY <1>5, <2>1
  <1>6. CASE ~unsynced /\ unsynced'
    <2>1. ~DecidedNew(disk) /\ disk'.target = disk.target
      BY <1>1, <1>6, DoubtNext DEF Inv, Good, Placed
    <2>2. Mark0 = "old" /\ Mark0' = "doubt" /\ Files0' = Files0
      BY <1>2, <1>3, <1>6, <2>1
    <2> QED
      BY <2>2
  <1>7. CASE ~unsynced /\ ~unsynced'
    <2>1. \/ DecidedNew(disk') <=> DecidedNew(disk)
          \/ /\ ~DecidedNew(disk) /\ DecidedNew(disk')
             /\ WhollyNew(disk) /\ pc.at # "off" /\ disk'.target = disk.target
      BY <1>1, <1>7, DecisionNext DEF Inv, Good, Placed
    <2>2. CASE DecidedNew(disk) /\ DecidedNew(disk')
      BY <1>2, <1>4, <1>7, <2>2
    <2>3. CASE ~DecidedNew(disk) /\ ~DecidedNew(disk')
      BY <1>2, <1>7, <2>3
    <2>4. CASE ~DecidedNew(disk) /\ DecidedNew(disk') /\ disk'.target = disk.target
      BY <1>2, <1>3, <1>4, <1>7, <2>4
    <2> QED
      BY <2>1, <2>2, <2>3, <2>4
  <1> QED
    BY <1>5, <1>6, <1>7

\* The journaled replacement behaves as one atomic change of release: the installation is
\* decided at the sync of the commit record, when every file is in place, it is never undone
\* afterwards, and it is only ever put back before; the promise lapses where the sync of the
\* record failed or never ran.  For every plan and every number of failures and crashes.
THEOREM TransactionIsAtomic == Spec => ImplementsAtomicInstall
  <1>1. Init => Promise!Init
    <2> SUFFICES ASSUME Init PROVE Promise!Init
      OBVIOUS
    <2>1. WhollyOld(disk) /\ disk.journal = "absent" /\ ~unsynced
      BY DEF Init, OldInstall, WhollyOld
    <2> QED
      BY <2>1 DEF Promise!Init
  <1> QED
    BY <1>1, InvInit, InvNext, PromiseNext, PTL DEF Spec, ImplementsAtomicInstall, Promise!Spec
=============================================================================
