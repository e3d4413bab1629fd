---------------------------- MODULE AtomicInstall ----------------------------
(***************************************************************************)
(* What the updater promises whoever starts the interface: the installed   *)
(* files are one release, except between the begin and the end of a        *)
(* transaction; the transaction is decided at one point, after which the   *)
(* new release is in place for good; until then it can only go back.       *)
(***************************************************************************)
VARIABLES
    installed,   \* the release the files are: "old", "new" or "between"
    decided      \* what the journal has settled: "old", "new", or "doubt"

vars == <<installed, decided>>

Init == installed = "old" /\ decided = "old"

\* While nothing is decided files are replaced and put back.
Replace ==
    /\ decided = "old"
    /\ installed' \in {"old", "between", "new"} \ {installed}
    /\ UNCHANGED decided

\* The one point of decision finds every file in place.
Decide ==
    /\ decided = "old"
    /\ installed = "new"
    /\ decided' = "new"
    /\ UNCHANGED installed

\* The commit record may or may not be on disk: the promise lapses.
Doubt ==
    /\ decided = "old"
    /\ decided' = "doubt"
    /\ UNCHANGED installed

Lapsed == decided = "doubt" /\ installed' # installed /\ UNCHANGED decided

Next == Replace \/ Decide \/ Doubt \/ Lapsed

Spec == Init /\ [][Next]_vars
=============================================================================
