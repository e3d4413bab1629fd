-------------------------- MODULE UpdateTransaction --------------------------
(***************************************************************************)
(* The journaled file replacement of sorotte-gui-updater: the apply of a   *)
(* release over an installed one, its rollback, its clean-up, and the      *)
(* recovery that a later launch runs from the journal, with storage calls  *)
(* that fail, an updater that dies between any two of them, and power      *)
(* losses.                                                                 *)
(*                                                                         *)
(* A disk state holds, for each entry of the plan, the content of the      *)
(* target, of the prepared replacement beside it and of its backup, what   *)
(* the journal file holds and which of the journal files made since the    *)
(* last directory sync it is.  survivors is the set of disk states that    *)
(* a power loss may leave: directory entries reach the disk in order, so   *)
(* it is every state since the last successful directory sync.             *)
(* TargetUpdateLock admits one updater at a time, so there is one pc.      *)
(***************************************************************************)
EXTENDS Naturals, Sequences, FiniteSets

CONSTANTS
    Plan,        \* what the release does to each file, in path order
    Platforms,   \* the platforms considered: "windows", "unix"
    Attempts,    \* recovery attempts of one launch
    MaxFaults,   \* bound: storage calls that fail
    MaxCrashes   \* bound: deaths of the updater and power losses

Kinds == {"replaced", "unchanged", "added", "obsolete"}

ASSUME PlanAssumption == Plan \in Seq(Kinds) /\ Plan # << >>
ASSUME PlatformAssumption == Platforms \subseteq {"windows", "unix"}
ASSUME BoundAssumption ==
    /\ Attempts \in Nat \ {0}
    /\ MaxFaults \in Nat
    /\ MaxCrashes \in Nat

VARIABLES
    platform,    \* which atomic_replace_with_backup the build has
    disk,        \* what a read sees now
    survivors,   \* what a power loss may leave
    pc,          \* where the updater is
    faults,      \* failures so far
    crashes,     \* deaths and power losses so far
    unsynced     \* history: a commit record was left written but not synced

vars == <<platform, disk, survivors, pc, faults, crashes, unsynced>>

-----------------------------------------------------------------------------
(* The plan and the disk. *)

Entries == 1..Len(Plan)

\* replacement_file: target_existed and source.is_some().
TargetExisted(i) == Plan[i] # "added"
HasSource(i) == Plan[i] # "obsolete"

\* original_sha256 and expected_sha256; "absent" is None.
Original(i) ==
    CASE Plan[i] = "added" -> "absent"
      [] Plan[i] = "unchanged" -> "same"
      [] OTHER -> "old"

Expected(i) ==
    CASE Plan[i] = "obsolete" -> "absent"
      [] Plan[i] = "unchanged" -> "same"
      [] OTHER -> "new"

Contents == {"absent", "torn", "old", "new", "same"}

\* What the journal file holds: nothing that parses ("torn"), the whole header
\* before its sync ("written") and after it ("header"), the commit record
\* before its sync ("committing") and after it ("committed").
Journals == {"absent", "torn", "written", "header", "committing", "committed"}

Disks == [target: [Entries -> Contents], temporary: [Entries -> Contents],
          backup: [Entries -> Contents], journal: Journals,
          serial: 0..(MaxFaults + MaxCrashes + 1)]

OldInstall ==
    [target |-> [i \in Entries |-> Original(i)],
     temporary |-> [i \in Entries |-> "absent"],
     backup |-> [i \in Entries |-> "absent"],
     journal |-> "absent",
     serial |-> 0]

\* The directory operations of the updater, as functions on disk states.
MoveToBackup(d, i) ==
    [d EXCEPT !.target[i] = "absent", !.backup[i] = d.target[i]]
MoveIntoPlace(d, i) ==
    [d EXCEPT !.temporary[i] = "absent", !.target[i] = d.temporary[i]]
MoveBack(d, i) ==
    [d EXCEPT !.backup[i] = "absent", !.target[i] = d.backup[i]]

\* Bytes written to the journal belong to the file, so they are in every
\* survivor that has this file.
WithBytes(d, j) ==
    IF d.journal # "absent" /\ d.serial = disk.serial THEN [d EXCEPT !.journal = j] ELSE d

Synced(d) == [d EXCEPT !.serial = 0]

\* What bytes that were never synced may read as after a power loss.
Settled(j) ==
    CASE j = "written" -> {"torn", "header"}
      [] j = "committing" -> {"header", "committed"}
      [] OTHER -> {j}

-----------------------------------------------------------------------------
(* The updater's program counter. *)

\* at: the next call; entry: the entry it works on; failed: rollback has
\* collected a failure; applying: inside apply_replacement_plan, not inside
\* recovery; update: the launch was given a package; attempt: recovery attempt.
Off == [at |-> "off", entry |-> 0, failed |-> FALSE, applying |-> FALSE,
        update |-> FALSE, attempt |-> 0]

Places ==
    {"off", "inspect", "restore", "discard", "recheck", "unlink", "audit",
     "sweepTemporary", "sweepBackup", "sweepJournal", "plan", "create", "write",
     "syncHeader", "syncEntry", "abandon", "prepare", "fill", "replace", "place",
     "commit", "syncCommit"}

At(place) == [pc EXCEPT !.at = place]
AtEntry(place, i) == [pc EXCEPT !.at = place, !.entry = i]

\* Mutant of GiveUp: recovery is retried without end.
GiveUpNever ==
    [Off EXCEPT !.at = "inspect", !.update = pc.update, !.attempt = pc.attempt + 1]

\* The error return of a recovery attempt, of an apply, and of a clean-up,
\* whose failure the apply ignores.
GiveUp ==
    IF ~pc.applying /\ pc.attempt < Attempts
    THEN [Off EXCEPT !.at = "inspect", !.update = pc.update, !.attempt = pc.attempt + 1]
    ELSE Off

\* The successful return of recovery and of an apply.
Return == IF pc.applying THEN Off ELSE At("plan")

\* rollback_uncommitted_update walks the entries backwards; the failure of one
\* does not stop the walk.
RollBack == [pc EXCEPT !.at = "restore", !.entry = Len(Plan), !.failed = FALSE]
PreviousEntry(failure) ==
    LET bad == pc.failed \/ failure IN
    IF pc.entry > 1
    THEN [pc EXCEPT !.at = "restore", !.entry = pc.entry - 1, !.failed = bad]
    ELSE IF bad THEN GiveUp
    ELSE At("recheck")

-----------------------------------------------------------------------------
(* Storage. *)

\* Mutant of Store: the directory is not synced after the change.
StoreWithoutSync(new, ok, err) ==
    /\ disk' = new /\ survivors' = survivors \cup {new} /\ pc' = ok
    /\ UNCHANGED <<platform, unsynced, faults, crashes>>

\* A call that changes a directory entry and then syncs the directory: it
\* succeeds, fails before or after its effect, or the updater dies in between.
Store(new, ok, err) ==
    /\ UNCHANGED <<platform, unsynced>>
    /\ \/ /\ disk' = Synced(new) /\ survivors' = {Synced(new)} /\ pc' = ok
          /\ UNCHANGED <<faults, crashes>>
       \/ /\ faults < MaxFaults /\ faults' = faults + 1
          /\ pc' = err
          /\ \/ UNCHANGED <<disk, survivors>>
             \/ disk' = new /\ survivors' = survivors \cup {new}
          /\ UNCHANGED crashes
       \/ /\ crashes < MaxCrashes /\ crashes' = crashes + 1
          /\ disk' = new /\ survivors' = survivors \cup {new} /\ pc' = Off
          /\ UNCHANGED faults

\* A call that creates an entry which a later call syncs.
StoreUnsynced(new, ok, err) ==
    /\ UNCHANGED <<platform, unsynced, crashes>>
    /\ \/ /\ disk' = new /\ survivors' = survivors \cup {new} /\ pc' = ok
          /\ UNCHANGED faults
       \/ /\ faults < MaxFaults /\ faults' = faults + 1
          /\ pc' = err
          /\ UNCHANGED <<disk, survivors>>

\* A call that writes or syncs the bytes of the journal; an error says nothing about
\* whether the bytes are there.
StoreJournal(j, ok, err) ==
    /\ UNCHANGED <<platform, crashes>>
    /\ \/ /\ disk' = WithBytes(disk, j)
          /\ survivors' = {WithBytes(s, j) : s \in survivors}
          /\ pc' = ok
          /\ UNCHANGED <<faults, unsynced>>
       \/ /\ faults < MaxFaults /\ faults' = faults + 1
          /\ pc' = err
          /\ \/ UNCHANGED <<disk, survivors>>
             \/ /\ disk' = WithBytes(disk, j)
                /\ survivors' = {WithBytes(s, j) : s \in survivors}
          /\ unsynced' = (unsynced \/ disk'.journal \in {"committing", "committed"})

\* A step that only reads.
Read(to) ==
    /\ pc' = to
    /\ UNCHANGED <<platform, disk, survivors, faults, crashes, unsynced>>

-----------------------------------------------------------------------------
(* Launches. *)

\* launch_pending_update_recovery: the starting interface finds a journal,
\* hands over to `--recover --restart` and exits.  Only the Windows build looks
\* for one; elsewhere a journal waits for the next LaunchUpdate.
LaunchRecovery ==
    /\ platform = "windows"
    /\ pc.at = "off"
    /\ disk.journal # "absent"
    /\ Read([Off EXCEPT !.at = "inspect", !.attempt = 1])

\* run_update_with_checks with a package, over an install that is not yet the
\* release.
LaunchUpdate ==
    /\ pc.at = "off"
    /\ \E i \in Entries : disk.target[i] # Expected(i)
    /\ Read([Off EXCEPT !.at = "inspect", !.update = TRUE, !.attempt = 1])

\* Mutant of Inspect: the commit record is not looked for.
InspectHeaderOnly ==
    /\ pc.at = "inspect"
    /\ Read(CASE disk.journal = "absent" -> Return
              [] disk.journal = "torn" -> GiveUp
              [] OTHER -> RollBack)

\* recover_pending_update reads the journal; without a whole header it returns
\* an error and touches nothing.
Inspect ==
    /\ pc.at = "inspect"
    /\ Read(CASE disk.journal = "absent" -> Return
              [] disk.journal = "torn" -> GiveUp
              [] disk.journal \in {"committing", "committed"} -> At("audit")
              [] OTHER -> RollBack)

\* After recovery: restart the interface, or plan the replacement from the
\* files as they are now.
PlanReplacement ==
    /\ pc.at = "plan"
    /\ Read(IF pc.update /\ disk.target = OldInstall.target
            THEN [Off EXCEPT !.at = "create", !.applying = TRUE]
            ELSE Off)

-----------------------------------------------------------------------------
(* rollback_uncommitted_update. *)

\* What rollback_journal_entry refuses to touch.
Restorable(d, i) ==
    IF TargetExisted(i)
    THEN \/ /\ d.backup[i] = Original(i)
            /\ d.target[i] \in {"absent", Original(i), Expected(i)}
         \/ d.backup[i] = "absent" /\ d.target[i] = Original(i)
    ELSE d.backup[i] = "absent" /\ d.target[i] \in {"absent", Expected(i)}

\* The first half of rollback_journal_entry: the target.
RestoreEntry ==
    /\ pc.at = "restore"
    /\ LET i == pc.entry
           discard == At("discard")
       IN IF ~Restorable(disk, i) THEN Read(PreviousEntry(TRUE))
          ELSE IF disk.backup[i] # "absent"
          THEN Store(MoveBack(disk, i), discard, PreviousEntry(TRUE))
          ELSE IF ~TargetExisted(i) /\ disk.target[i] # "absent"
          THEN Store([disk EXCEPT !.target[i] = "absent"], discard, PreviousEntry(TRUE))
          ELSE Read(discard)

\* Mutant of DiscardTemporary: a half-written replacement is an error.
DiscardWholeTemporary ==
    /\ pc.at = "discard"
    /\ IF disk.temporary[pc.entry] = "absent" THEN Read(PreviousEntry(FALSE))
       ELSE IF disk.temporary[pc.entry] = "torn" THEN Read(PreviousEntry(TRUE))
       ELSE Store([disk EXCEPT !.temporary[pc.entry] = "absent"],
                  PreviousEntry(FALSE), PreviousEntry(TRUE))

\* Its second half: the prepared replacement, whatever it holds.
DiscardTemporary ==
    /\ pc.at = "discard"
    /\ IF disk.temporary[pc.entry] = "absent" THEN Read(PreviousEntry(FALSE))
       ELSE Store([disk EXCEPT !.temporary[pc.entry] = "absent"],
                  PreviousEntry(FALSE), PreviousEntry(TRUE))

\* validate_rolled_back_entry of every entry.
RolledBack(d) ==
    \A i \in Entries :
        /\ d.target[i] = Original(i)
        /\ d.temporary[i] = "absent"
        /\ d.backup[i] = "absent"

Recheck ==
    /\ pc.at = "recheck"
    /\ Read(IF RolledBack(disk) THEN At("unlink") ELSE GiveUp)

UnlinkJournal ==
    /\ pc.at = "unlink"
    /\ Store([disk EXCEPT !.journal = "absent"], Return, GiveUp)

-----------------------------------------------------------------------------
(* cleanup_committed_update. *)

\* validate_committed_entry of every entry.
Installed(d) ==
    \A i \in Entries :
        /\ d.target[i] = Expected(i)
        /\ d.temporary[i] \in {"absent", Expected(i)}
        /\ d.backup[i] \in {"absent", Original(i)}

Audit ==
    /\ pc.at = "audit"
    /\ Read(IF Installed(disk) THEN AtEntry("sweepTemporary", 1) ELSE GiveUp)

\* remove_file_if_exists syncs the directory even when the file is gone.
SweepTemporary ==
    /\ pc.at = "sweepTemporary"
    /\ Store([disk EXCEPT !.temporary[pc.entry] = "absent"], At("sweepBackup"), GiveUp)

SweepBackup ==
    /\ pc.at = "sweepBackup"
    /\ Store([disk EXCEPT !.backup[pc.entry] = "absent"],
             IF pc.entry < Len(Plan)
             THEN AtEntry("sweepTemporary", pc.entry + 1)
             ELSE At("sweepJournal"),
             GiveUp)

SweepJournal ==
    /\ pc.at = "sweepJournal"
    /\ Store([disk EXCEPT !.journal = "absent"], Return, GiveUp)

-----------------------------------------------------------------------------
(* apply_replacement_plan_with_hook. *)

\* write_journal_header: create_new, the bytes, their sync, the directory.
CreateJournal ==
    /\ pc.at = "create"
    /\ StoreUnsynced([disk EXCEPT !.journal = "torn", !.serial = @ + 1], At("write"), Off)

WriteHeader ==
    /\ pc.at = "write"
    /\ StoreJournal("written", At("syncHeader"), At("abandon"))

SyncHeader ==
    /\ pc.at = "syncHeader"
    /\ StoreJournal("header", At("syncEntry"), At("abandon"))

\* A header that could not be written or synced is removed again.
AbandonHeader ==
    /\ pc.at = "abandon"
    /\ Store([disk EXCEPT !.journal = "absent"], Off, Off)

\* An error of this sync keeps the journal and rolls nothing back: nothing has
\* been replaced yet.
SyncJournalEntry ==
    /\ pc.at = "syncEntry"
    /\ Store(disk, AtEntry("prepare", 1), Off)

\* The next entry of a pass over the plan, or what follows the pass.
NextEntry(place, after) ==
    IF pc.entry < Len(Plan) THEN AtEntry(place, pc.entry + 1) ELSE after

\* The first pass: every file of the release is written beside its target.
CreateTemporary ==
    /\ pc.at = "prepare"
    /\ IF HasSource(pc.entry)
       THEN StoreUnsynced([disk EXCEPT !.temporary[pc.entry] = "torn"],
                          At("fill"), RollBack)
       ELSE Read(NextEntry("prepare", AtEntry("replace", 1)))

FillTemporary ==
    /\ pc.at = "fill"
    /\ Store([disk EXCEPT !.temporary[pc.entry] = Expected(pc.entry)],
             NextEntry("prepare", AtEntry("replace", 1)), RollBack)

\* validate_replacement_target_unchanged and the digest of the prepared file.
ReadyToReplace(i) ==
    /\ disk.target[i] = Original(i)
    /\ disk.backup[i] = "absent"
    /\ disk.temporary[i] = Expected(i)

\* The second pass, install_prepared_replacement.  On Windows the three names
\* change in one call, which may also fail after it moved the target away; the
\* other build renames twice.
ReplaceTarget ==
    /\ pc.at = "replace"
    /\ LET i == pc.entry
           next == NextEntry("replace", At("commit"))
       IN IF ~ReadyToReplace(i) THEN Read(RollBack)
          ELSE IF ~TargetExisted(i) THEN Store(MoveIntoPlace(disk, i), next, RollBack)
          ELSE IF ~HasSource(i) THEN Store(MoveToBackup(disk, i), next, RollBack)
          ELSE IF platform = "unix"
          THEN Store(MoveToBackup(disk, i), At("place"), RollBack)
          ELSE \/ Store(MoveIntoPlace(MoveToBackup(disk, i), i), next, RollBack)
               \/ /\ faults < MaxFaults /\ faults' = faults + 1
                  /\ disk' = MoveToBackup(disk, i)
                  /\ survivors' = survivors \cup {disk'}
                  /\ pc' = RollBack
                  /\ UNCHANGED <<platform, crashes, unsynced>>

PlaceTarget ==
    /\ pc.at = "place"
    /\ Store(MoveIntoPlace(disk, pc.entry), NextEntry("replace", At("commit")), RollBack)

\* append_journal_commit: the record, then its sync.
WriteCommit ==
    /\ pc.at = "commit"
    /\ StoreJournal("committing", At("syncCommit"), RollBack)

SyncCommit ==
    /\ pc.at = "syncCommit"
    /\ StoreJournal("committed", At("audit"), RollBack)

-----------------------------------------------------------------------------
(* Crashes. *)

\* The updater dies between two calls; the files stay as they are.
Die ==
    /\ pc.at # "off"
    /\ crashes < MaxCrashes /\ crashes' = crashes + 1
    /\ pc' = Off
    /\ unsynced' = (unsynced \/ disk.journal = "committing")
    /\ UNCHANGED <<platform, disk, survivors, faults>>

\* The machine loses power.
PowerLoss ==
    /\ crashes < MaxCrashes /\ crashes' = crashes + 1
    /\ \E s \in survivors : \E j \in Settled(s.journal) : disk' = Synced([s EXCEPT !.journal = j])
    /\ survivors' = {disk'}
    /\ pc' = Off
    /\ UNCHANGED <<platform, faults, unsynced>>

-----------------------------------------------------------------------------

Init ==
    /\ platform \in Platforms
    /\ disk = OldInstall
    /\ survivors = {OldInstall}
    /\ pc = Off
    /\ faults = 0
    /\ crashes = 0
    /\ unsynced = FALSE

Rollback == RestoreEntry \/ DiscardTemporary \/ Recheck \/ UnlinkJournal
Cleanup == Audit \/ SweepTemporary \/ SweepBackup \/ SweepJournal
Header == CreateJournal \/ WriteHeader \/ SyncHeader \/ AbandonHeader \/ SyncJournalEntry
Replacement == CreateTemporary \/ FillTemporary \/ ReplaceTarget \/ PlaceTarget
Commit == WriteCommit \/ SyncCommit

Step == Inspect \/ PlanReplacement \/ Rollback \/ Cleanup \/ Header \/ Replacement \/ Commit

Next == LaunchRecovery \/ LaunchUpdate \/ Step \/ Die \/ PowerLoss

\* The updater keeps running while it is alive, and somebody starts the
\* interface again while a journal is left.  Nobody has to install anything, so
\* LaunchUpdate is not fair.
Fairness == WF_vars(Step) /\ WF_vars(LaunchRecovery)

Spec == Init /\ [][Next]_vars /\ Fairness

-----------------------------------------------------------------------------
(* Properties. *)

\* The types: what is on disk may survive a power loss, a launch makes at most
\* Attempts recovery attempts, and no walk over the plan leaves it.
TypeOK ==
    /\ platform \in Platforms
    /\ disk \in Disks
    /\ survivors \subseteq Disks
    /\ disk \in survivors
    /\ pc \in [at: Places, entry: 0..Len(Plan), failed: BOOLEAN, applying: BOOLEAN,
               update: BOOLEAN, attempt: 0..Attempts]
    /\ faults \in 0..MaxFaults
    /\ crashes \in 0..MaxCrashes
    /\ unsynced \in BOOLEAN

WhollyOld(d) == \A i \in Entries : d.target[i] = Original(i)
WhollyNew(d) == \A i \in Entries : d.target[i] = Expected(i)
Whole(d) == WhollyOld(d) \/ WhollyNew(d)

\* What a read of this disk would find is enough for recovery to finish one
\* way: without a usable journal there is one release and nothing beside it,
\* under an uncommitted one every original can still be put back, and under a
\* committed one the whole release is in place.
Recoverable(d) ==
    CASE d.journal \in {"absent", "torn"} ->
            /\ Whole(d)
            /\ \A i \in Entries : d.temporary[i] = "absent" /\ d.backup[i] = "absent"
      [] d.journal \in {"written", "header"} -> \A i \in Entries : Restorable(d, i)
      [] OTHER -> Installed(d)

\* Whatever call failed, wherever the updater died and whatever a power loss
\* took back, what is on disk can be recovered to one whole release: the order
\* of apply_replacement_plan_with_hook, of rollback_uncommitted_update and of
\* cleanup_committed_update never leaves a file that the journal cannot
\* explain.  The exception is a commit record whose sync failed or never ran.
AlwaysRecoverable == unsynced \/ \A s \in survivors : Recoverable(s)

\* A recovery that has read the journal and is never disturbed again ends with
\* the journal gone, on Windows, where the interface starts one; a journal whose
\* header never became whole and a doubtful commit record are excepted.
JournalIsConsumed ==
    (platform = "windows" /\ disk.journal \notin {"absent", "torn"})
        ~> (disk.journal \in {"absent", "torn"} \/ unsynced)

\* docs/TEST_COVERAGE_FINDINGS.md: "Incomplete initial journal writes remain
\* disposable": any journal is gone in the end.
IncompleteJournalIsDisposable == (disk.journal = "torn") ~> (disk.journal # "torn")

\* What the transaction promises its caller.
Promise ==
    INSTANCE AtomicInstall WITH
        installed <- IF WhollyOld(disk) THEN "old"
                     ELSE IF WhollyNew(disk) THEN "new" ELSE "between",
        decided <- IF unsynced THEN "doubt"
                   ELSE IF disk.journal = "committed" THEN "new"
                   ELSE IF disk.journal = "absent" /\ ~WhollyOld(disk) THEN "new"
                   ELSE "old"

\* The detailed transaction implements the atomic one.
ImplementsAtomicInstall == Promise!Spec
=============================================================================
