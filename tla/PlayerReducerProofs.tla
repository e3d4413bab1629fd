------------------------- MODULE PlayerReducerProofs -------------------------
(***************************************************************************)
(* What each input of the load reducer does to a PlayerLifecycleState that *)
(* is as it should be, for any number of attempts and entries.             *)
(*                                                                         *)
(* LifeOK says of a state alone what PlayerLoads!LoadsAgree asks for, and  *)
(* what makes it inductive: the shape of every record (AttemptOK), links   *)
(* that only point to older attempts (LinksOK), owners and entries that    *)
(* name each other (OwnersOK), and a transport that one attempt has        *)
(* (ActiveOK).  DeferredOK says that no deferred start could have been     *)
(* tried already.  The lemmas go from the update of one record, through    *)
(* the operators that change one or two attempts, to the inputs; the fold  *)
(* over the deferred starts is unfolded with an induction that is derived  *)
(* from the well-ordering of Nat.  PlayerLoadsProofs puts them together.   *)
(***************************************************************************)
EXTENDS PlayerLoads, FiniteSetTheorems, WellFoundedInduction, TLAPS


\* What every record of load_attempts is like.
AttemptOK(x) ==
  /\ x.state = "none" => x = NoAttempt
  /\ x.state = "submitting" =>
       /\ x.entry = None /\ x.successor = None /\ ~x.revoked /\ ~x.loaded
       /\ x.result = "none" /\ x.deadline = Never
  /\ x.state = "accepted" => x.entry = None /\ x.reconcile # Never
  /\ x.reconcile # Never => x.state = "accepted" /\ x.reconcile = x.deadline
  /\ x.deadline # Never =>
       /\ x.result = "none" /\ ~x.revoked /\ ~x.loaded /\ x.deadline > 0
       /\ x.state \notin {"none", "submitting", "terminal", "quiescent"}
  /\ x.result = "none" => x.state \in {"none", "submitting"} \/ x.deadline # Never
  /\ x.retire # Never => x.state = "quiescent" /\ x.retire > 0
  /\ x.state \in {"bound", "starting", "active"} => x.entry # None
  /\ x.state = "active" => x.loaded
  /\ x.successor # None => x.revoked
  /\ x.state = "superseded" => x.successor # None

\* What no update of a record changes.
Same(x, y) ==
  /\ y.replaced = x.replaced /\ y.successor = x.successor /\ y.revoked = x.revoked
  /\ y.loaded = x.loaded /\ y.entry = x.entry
  /\ (y.command = "completed" <=> x.command = "completed")

LEMMA Values ==
  /\ Never \in Never .. LoadTicks /\ Never \in Never .. RetentionTicks
  /\ LoadTicks \in Never .. LoadTicks /\ RetentionTicks \in Never .. RetentionTicks
  /\ LoadTicks > 0 /\ RetentionTicks > 0 /\ LoadTicks \in Nat /\ RetentionTicks \in Nat
  /\ None \in Attempts \cup {None} /\ None \in Entries \cup {None}
  /\ None \notin Attempts /\ None \notin Entries
  /\ \A s \in {"none", "submitting", "accepted", "mayEmit", "bound", "starting", "active",
               "quiescent", "superseded", "terminal"} : s \in AttemptStates
  /\ \A c \in {"none", "submitted", "accepted", "completed", "notObserved"} : c \in Commands
  /\ \A r \in {"none", "loaded", "indeterminate"} : r \in Results
BY LoadAssumption DEF Never, AttemptStates, None, Attempts, Entries, Commands, Results

LEMMA AnsweredRecord ==
  ASSUME NEW x \in LoadAttempt, NEW c \in Commands \ {"completed"}, NEW r \in Results \ {"none"}
  PROVE  LET y == Answered(x, c, r) IN
         /\ y \in LoadAttempt /\ Same(x, y) /\ y.result # "none"
         /\ y.state = x.state /\ y.started = x.started /\ y.deadline = x.deadline
         /\ y.retire = x.retire /\ y.reconcile = x.reconcile
<1> DEFINE y == Answered(x, c, r)
           cc == IF CommandOpen(x) THEN c ELSE x.command
           rr == IF x.result = "none" THEN r ELSE x.result
<1>1. y = [x EXCEPT !.command = cc, !.result = rr]
  BY DEF Answered
<1>2. cc \in Commands /\ rr \in Results /\ rr # "none" /\ (cc = "completed" <=> x.command = "completed")
  BY DEF LoadAttempt, CommandOpen, Commands
<1> HIDE DEF cc, rr
<1>3. y \in LoadAttempt
  BY <1>1, <1>2 DEF LoadAttempt
<1>4. y.command = cc /\ y.result = rr
  BY <1>1, <1>2 DEF LoadAttempt
<1>5. y.state = x.state /\ y.started = x.started /\ y.deadline = x.deadline
         /\ y.retire = x.retire /\ y.reconcile = x.reconcile
  BY <1>1, <1>2 DEF LoadAttempt
<1>6. Same(x, y)
  BY <1>1, <1>2, <1>4 DEF LoadAttempt, Same
<1> QED BY <1>2, <1>3, <1>4, <1>5, <1>6

Outcomes == {"ended", "stopped", "failed", "neverStarted", "disconnected"}

\* A finished record.
LEMMA FinishedRecord ==
  ASSUME NEW x \in LoadAttempt, NEW o \in Outcomes
  PROVE  LET y == Finished(x, o) IN
         /\ y \in LoadAttempt /\ Same(x, y)
         /\ y.state = "terminal" /\ y.reconcile = Never /\ y.deadline = Never
         /\ y.retire = Never /\ y.result # "none" /\ y.started = x.started
<1> DEFINE r == IF o \in {"ended", "stopped"} THEN "indeterminate" ELSE o
           z == Answered(x, "failed", r)
           y == Finished(x, o)
<1>1. r \in Results \ {"none"} /\ "failed" \in Commands \ {"completed"}
  BY DEF Outcomes, Results, Commands
<1>2. y = [z EXCEPT !.state = "terminal", !.reconcile = Never, !.deadline = Never,
                    !.retire = Never]
  BY DEF Finished
<1> HIDE DEF r
<1>3. z \in LoadAttempt /\ Same(x, z) /\ z.result # "none" /\ z.started = x.started
  BY <1>1, AnsweredRecord
<1> HIDE DEF z, y
<1>4. y \in LoadAttempt
  BY <1>2, <1>3, Values DEF LoadAttempt
<1>5. /\ y.state = "terminal" /\ y.reconcile = Never /\ y.deadline = Never
      /\ y.retire = Never /\ y.result = z.result /\ y.started = z.started
  BY <1>2, <1>3 DEF LoadAttempt
<1>6. Same(z, y)
  BY <1>2, <1>3 DEF LoadAttempt, Same
<1>7. Same(x, y)
  BY <1>3, <1>6 DEF Same
<1> QED BY <1>3, <1>4, <1>5, <1>7 DEF y

LEMMA FinishedOK ==
  ASSUME NEW x \in LoadAttempt, AttemptOK(x), NEW o \in Outcomes
  PROVE  AttemptOK(Finished(x, o))
<1> DEFINE y == Finished(x, o)
<1>1. /\ Same(x, y)
      /\ y.state = "terminal" /\ y.reconcile = Never /\ y.deadline = Never
      /\ y.retire = Never /\ y.result # "none"
  BY FinishedRecord
<1> HIDE DEF y
<1>2. AttemptOK(y)
  BY <1>1 DEF AttemptOK, Same
<1> QED BY <1>2 DEF y

\* A record superseded by a.
LEMMA SupersededRecord ==
  ASSUME NEW x \in LoadAttempt, AttemptOK(x), NEW a \in Attempts
  PROVE  LET y == Superseded(x, a) IN
         /\ y \in LoadAttempt /\ AttemptOK(y)
         /\ y.state = "superseded" /\ y.successor = a /\ y.revoked
         /\ y.replaced = x.replaced /\ y.entry = x.entry /\ y.loaded = x.loaded
         /\ y.reconcile = Never /\ (y.command = "completed" <=> x.command = "completed")
<1> DEFINE z == Answered(x, "superseded", "superseded")
           y == Superseded(x, a)
<1>1. "superseded" \in Results \ {"none"} /\ "superseded" \in Commands \ {"completed"}
  BY DEF Results, Commands
<1>2. y = [z EXCEPT !.successor = a, !.revoked = TRUE, !.state = "superseded",
                    !.reconcile = Never, !.deadline = Never, !.retire = Never]
  BY DEF Superseded
<1>3. z \in LoadAttempt /\ Same(x, z) /\ z.result # "none"
  BY <1>1, AnsweredRecord
<1> HIDE DEF z, y
<1>4. y \in LoadAttempt
  BY <1>2, <1>3, Values DEF LoadAttempt
<1>5. /\ y.state = "superseded" /\ y.successor = a /\ y.revoked = TRUE /\ y.reconcile = Never
      /\ y.deadline = Never /\ y.retire = Never /\ y.result = z.result
  BY <1>2, <1>3 DEF LoadAttempt
<1>6. /\ y.replaced = z.replaced /\ y.entry = z.entry /\ y.loaded = z.loaded
      /\ y.command = z.command
  BY <1>2, <1>3 DEF LoadAttempt
<1>7. AttemptOK(y)
  BY <1>3, <1>5, <1>6 DEF AttemptOK, Same, Attempts, None
<1> QED BY <1>3, <1>4, <1>5, <1>6, <1>7 DEF y, Same

\* A record without its claim to a predecessor.
LEMMA DisclaimedRecord ==
  ASSUME NEW x \in LoadAttempt
  PROVE  LET y == Disclaimed(x) IN
         /\ y \in LoadAttempt
         /\ y.replaced = None
         /\ y.state = x.state /\ y.entry = x.entry /\ y.successor = x.successor
         /\ y.revoked = x.revoked /\ y.loaded = x.loaded /\ y.started = x.started
         /\ y.result = x.result /\ y.reconcile = x.reconcile /\ y.deadline = x.deadline
         /\ y.retire = x.retire /\ y.command = x.command
<1> DEFINE y == Disclaimed(x)
<1>1. y = [x EXCEPT !.replaced = None]
  BY DEF Disclaimed
<1> HIDE DEF y
<1>2. y \in LoadAttempt
  BY <1>1, Values DEF LoadAttempt
<1>3. /\ y.replaced = None
  BY <1>1 DEF LoadAttempt
<1>4. /\ y.state = x.state /\ y.entry = x.entry /\ y.successor = x.successor
      /\ y.revoked = x.revoked /\ y.loaded = x.loaded /\ y.started = x.started
      /\ y.result = x.result /\ y.reconcile = x.reconcile /\ y.deadline = x.deadline
      /\ y.retire = x.retire /\ y.command = x.command
  BY <1>1 DEF LoadAttempt
<1> QED BY <1>2, <1>3, <1>4 DEF y

LEMMA DisclaimedOK ==
  ASSUME NEW x \in LoadAttempt, AttemptOK(x), x.state # "none"
  PROVE  AttemptOK(Disclaimed(x))
<1> DEFINE y == Disclaimed(x)
<1>1. /\ y \in LoadAttempt
      /\ y.replaced = None
      /\ y.state = x.state /\ y.entry = x.entry /\ y.successor = x.successor
      /\ y.revoked = x.revoked /\ y.loaded = x.loaded /\ y.started = x.started
      /\ y.result = x.result /\ y.reconcile = x.reconcile /\ y.deadline = x.deadline
      /\ y.retire = x.retire /\ y.command = x.command
  BY DisclaimedRecord
<1> HIDE DEF y
<1>2. AttemptOK(y)
  BY <1>1 DEF AttemptOK
<1> QED BY <1>2 DEF y

\* A record bound to entry e.
LEMMA BoundToRecord ==
  ASSUME NEW x \in LoadAttempt, NEW e \in Entries
  PROVE  LET y == BoundTo(x, e) IN
         /\ y \in LoadAttempt
         /\ y.entry = e
         /\ y.reconcile = Never
         /\ y.state = (IF x.state \in {"accepted", "mayEmit"} THEN "bound" ELSE x.state)
         /\ y.replaced = x.replaced /\ y.successor = x.successor /\ y.revoked = x.revoked
         /\ y.loaded = x.loaded /\ y.started = x.started /\ y.result = x.result
         /\ y.deadline = x.deadline /\ y.retire = x.retire /\ y.command = x.command
<1> DEFINE y == BoundTo(x, e)
<1>1. y = [x EXCEPT !.entry = e, !.reconcile = Never,
                     !.state = IF @ \in {"accepted", "mayEmit"} THEN "bound" ELSE @]
  BY DEF BoundTo
<1> HIDE DEF y
<1>2. y \in LoadAttempt
  BY <1>1, Values DEF LoadAttempt
<1>3. /\ y.entry = e
      /\ y.reconcile = Never
      /\ y.state = (IF x.state \in {"accepted", "mayEmit"} THEN "bound" ELSE x.state)
  BY <1>1 DEF LoadAttempt
<1>4. /\ y.replaced = x.replaced /\ y.successor = x.successor /\ y.revoked = x.revoked
      /\ y.loaded = x.loaded /\ y.started = x.started /\ y.result = x.result
      /\ y.deadline = x.deadline /\ y.retire = x.retire /\ y.command = x.command
  BY <1>1 DEF LoadAttempt
<1> QED BY <1>2, <1>3, <1>4 DEF y

LEMMA BoundToOK ==
  ASSUME NEW x \in LoadAttempt, AttemptOK(x), NEW e \in Entries, x.state \notin {"none", "submitting"}
  PROVE  AttemptOK(BoundTo(x, e))
<1> DEFINE y == BoundTo(x, e)
<1>1. /\ y \in LoadAttempt
      /\ y.entry = e
      /\ y.reconcile = Never
      /\ y.state = (IF x.state \in {"accepted", "mayEmit"} THEN "bound" ELSE x.state)
      /\ y.replaced = x.replaced /\ y.successor = x.successor /\ y.revoked = x.revoked
      /\ y.loaded = x.loaded /\ y.started = x.started /\ y.result = x.result
      /\ y.deadline = x.deadline /\ y.retire = x.retire /\ y.command = x.command
  BY BoundToRecord
<1> HIDE DEF y
<1>2. AttemptOK(y)
  BY <1>1, Values DEF AttemptOK
<1> QED BY <1>2 DEF y

\* A record that lost the transport.
LEMMA DemotedRecord ==
  ASSUME NEW x \in LoadAttempt
  PROVE  LET y == Demoted(x) IN
         /\ y \in LoadAttempt
         /\ y.state = (IF x.successor = None THEN "mayEmit" ELSE "superseded")
         /\ y.entry = x.entry /\ y.replaced = x.replaced /\ y.successor = x.successor
         /\ y.revoked = x.revoked /\ y.loaded = x.loaded /\ y.started = x.started
         /\ y.result = x.result /\ y.reconcile = x.reconcile /\ y.deadline = x.deadline
         /\ y.retire = x.retire /\ y.command = x.command
<1> DEFINE y == Demoted(x)
<1>1. y = [x EXCEPT !.state = IF x.successor = None THEN "mayEmit" ELSE "superseded"]
  BY DEF Demoted
<1> HIDE DEF y
<1>2. y \in LoadAttempt
  BY <1>1, Values DEF LoadAttempt
<1>3. /\ y.state = (IF x.successor = None THEN "mayEmit" ELSE "superseded")
  BY <1>1 DEF LoadAttempt
<1>4. /\ y.entry = x.entry /\ y.replaced = x.replaced /\ y.successor = x.successor
      /\ y.revoked = x.revoked /\ y.loaded = x.loaded /\ y.started = x.started
      /\ y.result = x.result /\ y.reconcile = x.reconcile /\ y.deadline = x.deadline
      /\ y.retire = x.retire /\ y.command = x.command
  BY <1>1 DEF LoadAttempt
<1> QED BY <1>2, <1>3, <1>4 DEF y

LEMMA DemotedOK ==
  ASSUME NEW x \in LoadAttempt, AttemptOK(x), x.state \in {"starting", "active"}
  PROVE  AttemptOK(Demoted(x))
<1> DEFINE y == Demoted(x)
<1>1. /\ y \in LoadAttempt
      /\ y.state = (IF x.successor = None THEN "mayEmit" ELSE "superseded")
      /\ y.entry = x.entry /\ y.replaced = x.replaced /\ y.successor = x.successor
      /\ y.revoked = x.revoked /\ y.loaded = x.loaded /\ y.started = x.started
      /\ y.result = x.result /\ y.reconcile = x.reconcile /\ y.deadline = x.deadline
      /\ y.retire = x.retire /\ y.command = x.command
  BY DemotedRecord
<1> HIDE DEF y
<1>2. AttemptOK(y)
  BY <1>1 DEF AttemptOK
<1> QED BY <1>2 DEF y

\* A record whose start was seen.
LEMMA SeenRecord ==
  ASSUME NEW x \in LoadAttempt, NEW observed \in BOOLEAN
  PROVE  LET y == Seen(x, observed) IN
         /\ y \in LoadAttempt
         /\ y.started = (x.started \/ observed)
         /\ y.state = x.state /\ y.entry = x.entry /\ y.replaced = x.replaced
         /\ y.successor = x.successor /\ y.revoked = x.revoked /\ y.loaded = x.loaded
         /\ y.result = x.result /\ y.reconcile = x.reconcile /\ y.deadline = x.deadline
         /\ y.retire = x.retire /\ y.command = x.command
<1> DEFINE y == Seen(x, observed)
<1>1. y = [x EXCEPT !.started = @ \/ observed]
  BY DEF Seen
<1> HIDE DEF y
<1>2. y \in LoadAttempt
  BY <1>1, Values DEF LoadAttempt
<1>3. /\ y.started = (x.started \/ observed)
  BY <1>1 DEF LoadAttempt
<1>4. /\ y.state = x.state /\ y.entry = x.entry /\ y.replaced = x.replaced
      /\ y.successor = x.successor /\ y.revoked = x.revoked /\ y.loaded = x.loaded
      /\ y.result = x.result /\ y.reconcile = x.reconcile /\ y.deadline = x.deadline
      /\ y.retire = x.retire /\ y.command = x.command
  BY <1>1 DEF LoadAttempt
<1> QED BY <1>2, <1>3, <1>4 DEF y

LEMMA SeenOK ==
  ASSUME NEW x \in LoadAttempt, AttemptOK(x), NEW observed \in BOOLEAN, x.state # "none"
  PROVE  AttemptOK(Seen(x, observed))
<1> DEFINE y == Seen(x, observed)
<1>1. /\ y \in LoadAttempt
      /\ y.started = (x.started \/ observed)
      /\ y.state = x.state /\ y.entry = x.entry /\ y.replaced = x.replaced
      /\ y.successor = x.successor /\ y.revoked = x.revoked /\ y.loaded = x.loaded
      /\ y.result = x.result /\ y.reconcile = x.reconcile /\ y.deadline = x.deadline
      /\ y.retire = x.retire /\ y.command = x.command
  BY SeenRecord
<1> HIDE DEF y
<1>2. AttemptOK(y)
  BY <1>1 DEF AttemptOK
<1> QED BY <1>2 DEF y

\* A record that starts.
LEMMA StartingRecord ==
  ASSUME NEW x \in LoadAttempt
  PROVE  LET y == Starting(x) IN
         /\ y \in LoadAttempt
         /\ y.state = "starting"
         /\ y.entry = x.entry /\ y.replaced = x.replaced /\ y.successor = x.successor
         /\ y.revoked = x.revoked /\ y.loaded = x.loaded /\ y.started = x.started
         /\ y.result = x.result /\ y.reconcile = x.reconcile /\ y.deadline = x.deadline
         /\ y.retire = x.retire /\ y.command = x.command
<1> DEFINE y == Starting(x)
<1>1. y = [x EXCEPT !.state = "starting"]
  BY DEF Starting
<1> HIDE DEF y
<1>2. y \in LoadAttempt
  BY <1>1, Values DEF LoadAttempt
<1>3. /\ y.state = "starting"
  BY <1>1 DEF LoadAttempt
<1>4. /\ y.entry = x.entry /\ y.replaced = x.replaced /\ y.successor = x.successor
      /\ y.revoked = x.revoked /\ y.loaded = x.loaded /\ y.started = x.started
      /\ y.result = x.result /\ y.reconcile = x.reconcile /\ y.deadline = x.deadline
      /\ y.retire = x.retire /\ y.command = x.command
  BY <1>1 DEF LoadAttempt
<1> QED BY <1>2, <1>3, <1>4 DEF y

LEMMA StartingOK ==
  ASSUME NEW x \in LoadAttempt, AttemptOK(x), x.entry # None, x.state \notin {"none", "terminal", "quiescent"}
  PROVE  AttemptOK(Starting(x))
<1> DEFINE y == Starting(x)
<1>1. /\ y \in LoadAttempt
      /\ y.state = "starting"
      /\ y.entry = x.entry /\ y.replaced = x.replaced /\ y.successor = x.successor
      /\ y.revoked = x.revoked /\ y.loaded = x.loaded /\ y.started = x.started
      /\ y.result = x.result /\ y.reconcile = x.reconcile /\ y.deadline = x.deadline
      /\ y.retire = x.retire /\ y.command = x.command
  BY StartingRecord
<1> HIDE DEF y
<1>2. AttemptOK(y)
  BY <1>1 DEF AttemptOK
<1> QED BY <1>2 DEF y

\* A record that mpv accepted.
LEMMA TakenRecord ==
  ASSUME NEW x \in LoadAttempt
  PROVE  LET y == Taken(x) IN
         /\ y \in LoadAttempt
         /\ y.state = "accepted"
         /\ y.command = "accepted"
         /\ y.reconcile = LoadTicks
         /\ y.deadline = LoadTicks
         /\ y.entry = x.entry /\ y.replaced = x.replaced /\ y.successor = x.successor
         /\ y.revoked = x.revoked /\ y.loaded = x.loaded /\ y.started = x.started
         /\ y.result = x.result /\ y.retire = x.retire
<1> DEFINE y == Taken(x)
<1>1. y = [x EXCEPT !.state = "accepted", !.command = "accepted",
                     !.reconcile = LoadTicks, !.deadline = LoadTicks]
  BY DEF Taken
<1> HIDE DEF y
<1>2. y \in LoadAttempt
  BY <1>1, Values DEF LoadAttempt
<1>3. /\ y.state = "accepted"
      /\ y.command = "accepted"
      /\ y.reconcile = LoadTicks
      /\ y.deadline = LoadTicks
  BY <1>1 DEF LoadAttempt
<1>4. /\ y.entry = x.entry /\ y.replaced = x.replaced /\ y.successor = x.successor
      /\ y.revoked = x.revoked /\ y.loaded = x.loaded /\ y.started = x.started
      /\ y.result = x.result /\ y.retire = x.retire
  BY <1>1 DEF LoadAttempt
<1> QED BY <1>2, <1>3, <1>4 DEF y

LEMMA TakenOK ==
  ASSUME NEW x \in LoadAttempt, AttemptOK(x), x.state = "submitting"
  PROVE  AttemptOK(Taken(x))
<1> DEFINE y == Taken(x)
<1>1. /\ y \in LoadAttempt
      /\ y.state = "accepted"
      /\ y.command = "accepted"
      /\ y.reconcile = LoadTicks
      /\ y.deadline = LoadTicks
      /\ y.entry = x.entry /\ y.replaced = x.replaced /\ y.successor = x.successor
      /\ y.revoked = x.revoked /\ y.loaded = x.loaded /\ y.started = x.started
      /\ y.result = x.result /\ y.retire = x.retire
  BY TakenRecord
<1> HIDE DEF y
<1>2. AttemptOK(y)
  BY <1>1, Values DEF AttemptOK, Never
<1> QED BY <1>2 DEF y

\* A record whose file was loaded.
LEMMA LoadedRecord ==
  ASSUME NEW x \in LoadAttempt
  PROVE  LET y == Loaded(x) IN
         /\ y \in LoadAttempt
         /\ y.loaded = TRUE
         /\ y.deadline = Never
         /\ y.state = x.state /\ y.entry = x.entry /\ y.replaced = x.replaced
         /\ y.successor = x.successor /\ y.revoked = x.revoked /\ y.started = x.started
         /\ y.result = x.result /\ y.reconcile = x.reconcile /\ y.retire = x.retire
         /\ y.command = x.command
<1> DEFINE y == Loaded(x)
<1>1. y = [x EXCEPT !.loaded = TRUE, !.deadline = Never]
  BY DEF Loaded
<1> HIDE DEF y
<1>2. y \in LoadAttempt
  BY <1>1, Values DEF LoadAttempt
<1>3. /\ y.loaded = TRUE
      /\ y.deadline = Never
  BY <1>1 DEF LoadAttempt
<1>4. /\ y.state = x.state /\ y.entry = x.entry /\ y.replaced = x.replaced
      /\ y.successor = x.successor /\ y.revoked = x.revoked /\ y.started = x.started
      /\ y.result = x.result /\ y.reconcile = x.reconcile /\ y.retire = x.retire
      /\ y.command = x.command
  BY <1>1 DEF LoadAttempt
<1> QED BY <1>2, <1>3, <1>4 DEF y

LEMMA LoadedOK ==
  ASSUME NEW x \in LoadAttempt, AttemptOK(x), x.revoked, x.state # "none"
  PROVE  AttemptOK(Loaded(x))
<1> DEFINE y == Loaded(x)
<1>1. /\ y \in LoadAttempt
      /\ y.loaded = TRUE
      /\ y.deadline = Never
      /\ y.state = x.state /\ y.entry = x.entry /\ y.replaced = x.replaced
      /\ y.successor = x.successor /\ y.revoked = x.revoked /\ y.started = x.started
      /\ y.result = x.result /\ y.reconcile = x.reconcile /\ y.retire = x.retire
      /\ y.command = x.command
  BY LoadedRecord
<1> HIDE DEF y
<1>2. AttemptOK(y)
  BY <1>1 DEF AttemptOK
<1> QED BY <1>2 DEF y

\* A record whose file was loaded while it owns the transport.
LEMMA PlayingRecord ==
  ASSUME NEW x \in LoadAttempt, AttemptOK(x), ~x.revoked, x.entry # None,
         x.state \notin {"none", "terminal"}
  PROVE  LET y == Playing(Loaded(x)) IN
         /\ y \in LoadAttempt /\ AttemptOK(y)
         /\ y.state = "active" /\ y.loaded /\ y.entry = x.entry /\ y.replaced = x.replaced
         /\ y.successor = x.successor /\ y.revoked = x.revoked /\ y.reconcile = Never
<1> DEFINE w == Loaded(x)
           c == IF CommandOpen(w) THEN "completed" ELSE w.command
           r == IF w.result = "none" THEN "loaded" ELSE w.result
           z == Answered(w, "completed", "loaded")
           y == Playing(w)
<1>1. /\ w \in LoadAttempt /\ w.loaded = TRUE /\ w.deadline = Never /\ w.state = x.state
      /\ w.entry = x.entry /\ w.replaced = x.replaced /\ w.successor = x.successor
      /\ w.revoked = x.revoked /\ w.reconcile = x.reconcile /\ w.result = x.result
  BY LoadedRecord
<1> HIDE DEF w
<1>2. c \in Commands /\ r \in Results \ {"none"}
  BY <1>1, Values DEF LoadAttempt
<1>3. z = [w EXCEPT !.command = c, !.result = r]
  BY DEF Answered
<1>4. y = [z EXCEPT !.state = "active", !.retire = Never]
  BY DEF Playing
<1> HIDE DEF c, r, z, y
<1>5. z \in LoadAttempt
  BY <1>1, <1>2, <1>3 DEF LoadAttempt
<1>6. /\ z.loaded = w.loaded /\ z.deadline = w.deadline /\ z.entry = w.entry
      /\ z.replaced = w.replaced /\ z.successor = w.successor /\ z.revoked = w.revoked
      /\ z.reconcile = w.reconcile /\ z.result = r
  BY <1>1, <1>2, <1>3 DEF LoadAttempt
<1>7. y \in LoadAttempt
  BY <1>4, <1>5, Values DEF LoadAttempt
<1>8. /\ y.loaded = z.loaded /\ y.deadline = z.deadline /\ y.entry = z.entry
      /\ y.replaced = z.replaced /\ y.successor = z.successor /\ y.revoked = z.revoked
      /\ y.reconcile = z.reconcile /\ y.result = z.result /\ y.state = "active"
      /\ y.retire = Never
  BY <1>4, <1>5 DEF LoadAttempt
<1>9. x.reconcile = Never
  BY DEF AttemptOK
<1>10. AttemptOK(y)
  BY <1>1, <1>2, <1>6, <1>8, <1>9 DEF AttemptOK
<1> QED BY <1>1, <1>6, <1>7, <1>8, <1>9, <1>10 DEF y, w

\* A record without the links to what was compacted.
LEMMA UnlinkedRecord ==
  ASSUME NEW x \in LoadAttempt, AttemptOK(x), NEW back \in BOOLEAN, NEW forward \in BOOLEAN,
         back => x.replaced # None, forward => x.successor # None
  PROVE  LET y == Unlinked(x, back, forward) IN
         /\ y \in LoadAttempt /\ AttemptOK(y)
         /\ y.replaced = (IF back THEN None ELSE x.replaced)
         /\ y.successor = (IF forward THEN None ELSE x.successor)
         /\ y.state = (IF forward /\ x.state = "superseded" THEN "mayEmit" ELSE x.state)
         /\ y.entry = x.entry /\ y.revoked = x.revoked /\ y.loaded = x.loaded
         /\ y.reconcile = x.reconcile /\ y.command = x.command
<1> DEFINE p == IF back THEN None ELSE x.replaced
           q == IF forward THEN None ELSE x.successor
           t == IF forward /\ x.state = "superseded" THEN "mayEmit" ELSE x.state
           y == Unlinked(x, back, forward)
<1>1. y = [x EXCEPT !.replaced = p, !.successor = q, !.state = t]
  BY DEF Unlinked
<1>2. p \in Attempts \cup {None} /\ q \in Attempts \cup {None} /\ t \in AttemptStates
  BY Values DEF LoadAttempt
<1>3. NoAttempt.replaced = None /\ NoAttempt.successor = None
  BY DEF NoAttempt
<1>4. x.state = "none" => ~back /\ ~forward
  BY <1>3 DEF AttemptOK
<1> HIDE DEF p, q, t, y
<1>5. y \in LoadAttempt
  BY <1>1, <1>2 DEF LoadAttempt
<1>6. y.replaced = p /\ y.successor = q /\ y.state = t
  BY <1>1, <1>2 DEF LoadAttempt
<1>7. /\ y.entry = x.entry /\ y.revoked = x.revoked /\ y.loaded = x.loaded
      /\ y.reconcile = x.reconcile /\ y.deadline = x.deadline /\ y.retire = x.retire
      /\ y.result = x.result /\ y.command = x.command
  BY <1>1, <1>2 DEF LoadAttempt
<1>8. ~back /\ ~forward => y = x
  BY <1>1 DEF p, q, t, LoadAttempt
<1>9. CASE x.state = "none"
  BY <1>4, <1>5, <1>6, <1>7, <1>8, <1>9 DEF y, p, q, t
<1>10. CASE x.state # "none"
  <2>1. AttemptOK(y)
    BY <1>6, <1>7, <1>10 DEF AttemptOK, p, q, t
  <2> QED BY <1>5, <1>6, <1>7, <2>1 DEF y, p, q, t
<1> QED BY <1>9, <1>10

-----------------------------------------------------------------------------
(* What a step of the clock does to a record. *)

Late(y) == y.state \notin {"none", "terminal"} /\ ~y.revoked /\ y.result = "none" /\ y.deadline = 0
Expired(y, holds) == IF Late(y) THEN IF holds THEN Unanswered(y) ELSE Quiet(y) ELSE y
Gone(z) == z.state = "quiescent" /\ z.retire = 0
Retired(z) == IF Gone(z) THEN Finished(z, "neverStarted") ELSE z

\* The record after Elapsed, which may be overdue.
ElapsedOK(y) ==
  /\ y.state = "none" => y = NoAttempt
  /\ y.state = "submitting" =>
       /\ y.entry = None /\ y.successor = None /\ ~y.revoked /\ ~y.loaded
       /\ y.result = "none" /\ y.deadline = Never
  /\ y.state = "accepted" => y.entry = None /\ y.reconcile # Never
  /\ y.reconcile # Never => y.state = "accepted" /\ y.reconcile = y.deadline
  /\ y.deadline # Never =>
       /\ y.result = "none" /\ ~y.revoked /\ ~y.loaded /\ y.deadline >= 0
       /\ y.state \notin {"none", "submitting", "terminal", "quiescent"}
  /\ y.result = "none" => y.state \in {"none", "submitting"} \/ y.deadline # Never
  /\ y.retire # Never => y.state = "quiescent" /\ y.retire >= 0
  /\ y.state \in {"bound", "starting", "active"} => y.entry # None
  /\ y.state = "active" => y.loaded
  /\ y.successor # None => y.revoked
  /\ y.state = "superseded" => y.successor # None

LEMMA ElapsedRecord ==
  ASSUME NEW x \in LoadAttempt, AttemptOK(x)
  PROVE  LET y == Elapsed(x) IN
         /\ y \in LoadAttempt /\ ElapsedOK(y) /\ Same(x, y) /\ y.state = x.state
         /\ y.started = x.started /\ y.result = x.result
         /\ y.deadline = Sooner(x.deadline) /\ y.reconcile = Sooner(x.reconcile)
         /\ x.state = "none" => y = x
<1> DEFINE p == Sooner(x.reconcile)
           q == Sooner(x.deadline)
           r == Sooner(x.retire)
           y == Elapsed(x)
<1>1. y = [x EXCEPT !.reconcile = p, !.deadline = q, !.retire = r]
  BY DEF Elapsed
<1>2. /\ x.reconcile \in Never .. LoadTicks /\ x.deadline \in Never .. LoadTicks
      /\ x.retire \in Never .. RetentionTicks
  BY DEF LoadAttempt
<1>3. /\ p \in Never .. LoadTicks /\ q \in Never .. LoadTicks /\ r \in Never .. RetentionTicks
      /\ (p = Never <=> x.reconcile = Never) /\ (q = Never <=> x.deadline = Never)
      /\ (r = Never <=> x.retire = Never)
      /\ x.reconcile = x.deadline => p = q
      /\ p \in Int /\ q \in Int /\ r \in Int /\ (q # Never => q >= 0) /\ (r # Never => r >= 0)
  BY <1>2, Values DEF Sooner, Never
<1> HIDE DEF p, q, r, y
<1>4. y \in LoadAttempt
  BY <1>1, <1>3 DEF LoadAttempt
<1>5. y.reconcile = p /\ y.deadline = q /\ y.retire = r
  BY <1>1 DEF LoadAttempt
<1>6. Same(x, y) /\ y.state = x.state /\ y.started = x.started /\ y.result = x.result
  BY <1>1 DEF LoadAttempt, Same
<1>7. x.state = "none" => y = x
  <2> SUFFICES ASSUME x.state = "none" PROVE y = x
    OBVIOUS
  <2>1. x.reconcile = Never /\ x.deadline = Never /\ x.retire = Never
    BY DEF AttemptOK
  <2>2. p = x.reconcile /\ q = x.deadline /\ r = x.retire
    BY <1>3, <2>1
  <2> QED BY <1>1, <2>2 DEF LoadAttempt
<1>8. ElapsedOK(y)
  BY <1>3, <1>5, <1>6, <1>7 DEF AttemptOK, ElapsedOK, Same
<1> QED BY <1>4, <1>5, <1>6, <1>7, <1>8 DEF y, p, q

LEMMA ExpiredRecord ==
  ASSUME NEW y \in LoadAttempt, ElapsedOK(y), NEW holds \in BOOLEAN, holds => y.entry # None
  PROVE  LET z == Expired(y, holds) IN
         /\ z \in LoadAttempt /\ Same(y, z) /\ z.started = y.started
         /\ z.state = (IF Late(y) /\ ~holds THEN "quiescent" ELSE y.state)
         /\ Gone(z) => y.state = "quiescent"
         /\ ~Late(y) => z = y
         /\ Late(y) => z.reconcile = Never
         /\ ~Gone(z) => AttemptOK(z)
         /\ z.state = "quiescent" => z.reconcile = Never /\ z.deadline = Never
<1> DEFINE u == Answered(y, "notObserved", "indeterminate")
           v == Unanswered(y)
           w == Quiet(y)
<1>1. "notObserved" \in Commands \ {"completed"} /\ "indeterminate" \in Results \ {"none"}
  BY DEF Commands, Results
<1>2. u \in LoadAttempt /\ Same(y, u) /\ u.result # "none" /\ u.state = y.state
        /\ u.started = y.started /\ u.reconcile = y.reconcile /\ u.retire = y.retire
  BY <1>1, AnsweredRecord
<1>3. v = [u EXCEPT !.deadline = Never]
  BY DEF Unanswered
<1>4. w = [v EXCEPT !.state = "quiescent", !.retire = RetentionTicks, !.reconcile = Never]
  BY DEF Quiet
<1> HIDE DEF u, v, w
<1>5. v \in LoadAttempt /\ v.deadline = Never
  BY <1>2, <1>3, Values DEF LoadAttempt
<1>6. Same(u, v) /\ v.result = u.result /\ v.state = u.state /\ v.started = u.started
        /\ v.reconcile = u.reconcile /\ v.retire = u.retire
  BY <1>2, <1>3 DEF LoadAttempt, Same
<1>7. w \in LoadAttempt
  <2>1. /\ "quiescent" \in AttemptStates /\ RetentionTicks \in Never .. RetentionTicks
        /\ Never \in Never .. LoadTicks
    BY Values
  <2> DEFINE v1 == [v EXCEPT !.state = "quiescent"]
             v2 == [v1 EXCEPT !.retire = RetentionTicks]
  <2>2. v1 \in LoadAttempt
    BY <1>5, <2>1 DEF LoadAttempt
  <2> HIDE DEF v1
  <2>3. v2 \in LoadAttempt
    BY <2>1, <2>2 DEF LoadAttempt
  <2> HIDE DEF v2
  <2>4. [v2 EXCEPT !.reconcile = Never] \in LoadAttempt
    BY <2>1, <2>3 DEF LoadAttempt
  <2>5. w = [v2 EXCEPT !.reconcile = Never]
    BY <1>4 DEF v1, v2
  <2> QED BY <2>4, <2>5
<1>8. w.state = "quiescent" /\ w.retire = RetentionTicks /\ w.reconcile = Never
  BY <1>4, <1>5 DEF LoadAttempt
<1>9. Same(v, w) /\ w.result = v.result /\ w.started = v.started /\ w.deadline = v.deadline
  BY <1>4, <1>5 DEF LoadAttempt, Same
<1>10. CASE ~Late(y)
  <2>1. Expired(y, holds) = y
    BY <1>10 DEF Expired
  <2>2. Same(y, y)
    BY DEF Same
  <2>3. y.deadline \in Int /\ y.retire \in Int
    BY DEF LoadAttempt, Never
  <2>4. ~Gone(y) => AttemptOK(y)
    BY <1>10, <2>3 DEF Gone, ElapsedOK, AttemptOK, Late
  <2>5. y.state = "quiescent" => y.reconcile = Never /\ y.deadline = Never
    BY DEF ElapsedOK
  <2> QED BY <1>10, <2>1, <2>2, <2>4, <2>5 DEF Gone
<1>11. CASE Late(y) /\ holds
  <2>1. Expired(y, holds) = v
    BY <1>11 DEF Expired, v
  <2>2. Same(y, v)
    BY <1>2, <1>6 DEF Same
  <2>3. y.state \notin {"accepted", "quiescent"} /\ y.reconcile = Never /\ y.retire = Never
    BY <1>11 DEF Late, ElapsedOK, Never
  <2>4. AttemptOK(v)
    BY <1>2, <1>5, <1>6, <1>11, <2>2, <2>3 DEF AttemptOK, ElapsedOK, Same, Late, Never
  <2> QED BY <1>2, <1>5, <1>6, <1>11, <2>1, <2>2, <2>3, <2>4 DEF Gone
<1>12. CASE Late(y) /\ ~holds
  <2>1. Expired(y, holds) = w
    BY <1>12 DEF Expired, w
  <2>2. Same(y, w)
    BY <1>2, <1>6, <1>9 DEF Same
  <2>3. AttemptOK(w)
    BY <1>2, <1>5, <1>6, <1>8, <1>9, <1>12, <2>2, Values DEF AttemptOK, ElapsedOK, Same, Late, Never
  <2>4. ~Gone(w)
    BY <1>8, Values DEF Gone
  <2> QED BY <1>2, <1>5, <1>6, <1>7, <1>8, <1>9, <1>12, <2>1, <2>2, <2>3, <2>4
<1> QED BY <1>10, <1>11, <1>12

-----------------------------------------------------------------------------
(* The reducer's state. *)

AttemptsOK(l) == \A a \in Attempts : AttemptOK(l.attempts[a])

\* Attempts are numbered in order, and predecessors and successors name each other.
LinksOK(l) ==
  LET x == l.attempts IN
  /\ \A a \in Attempts : a >= l.next => x[a].state = "none"
  /\ \A a \in Attempts : x[a].replaced < a /\ x[a].replaced < l.next
  /\ \A a \in Attempts : x[a].successor # None =>
        x[x[a].successor].state # "none" /\ x[x[a].successor].replaced = a
  /\ \A a \in Attempts : x[a].replaced # None /\ x[x[a].replaced].state # "none" =>
        x[x[a].replaced].successor \in {None, a}

OwnersOK(l) ==
  LET x == l.attempts IN
  /\ \A e \in Entries : l.owner[e] # None =>
        x[l.owner[e]].state \notin {"none", "terminal"} /\ x[l.owner[e]].entry = e
  /\ \A a \in Attempts : x[a].state \notin {"none", "terminal"} /\ x[a].entry # None =>
        l.owner[x[a].entry] = a

ActiveOK(l) ==
  LET x == l.attempts IN
  /\ l.active # None =>
        /\ x[l.active].state \notin {"none", "terminal", "quiescent"}
        /\ x[l.active].entry # None
  /\ l.ended => l.active = None \/ x[l.active].loaded
  /\ \A a \in Attempts : x[a].state \in {"starting", "active"} => l.active = a

LifeOK(l) == l \in Lives /\ AttemptsOK(l) /\ LinksOK(l) /\ OwnersOK(l) /\ ActiveOK(l)

\* The fields of a life, with their types.
LEMMA LifeFields ==
  ASSUME NEW l \in Lives
  PROVE  /\ l.attempts \in [Attempts -> LoadAttempt]
         /\ l.owner \in [Entries -> Attempts \cup {None}]
         /\ l.active \in Attempts \cup {None} /\ l.ended \in BOOLEAN
         /\ l.deferred \in Seq(Entries) /\ l.required \in BOOLEAN /\ l.troubled \in BOOLEAN
         /\ l.tombs \in SUBSET Entries /\ l.next \in Nat \ {0} /\ l.due \in BOOLEAN
BY DEF Lives

LEMMA CommitFields ==
  ASSUME NEW l \in Lives, NEW S, NEW o \in Outcomes
  PROVE  LET m == CommitAll(l, S, o)
             x == l.attempts
             over == S \cap Live(l) IN
         /\ m \in Lives
         /\ m.attempts = [a \in Attempts |-> IF a \in over THEN Finished(x[a], o) ELSE x[a]]
         /\ m.owner = [e \in Entries |-> IF \E a \in over : x[a].entry = e THEN None ELSE l.owner[e]]
         /\ m.active = (IF l.active \in over THEN None ELSE l.active)
         /\ m.ended = (l.ended \/ (l.active \in over /\ x[l.active].successor = None
                                                    /\ ~x[l.active].revoked))
         /\ m.deferred = l.deferred /\ m.required = l.required /\ m.troubled = l.troubled
         /\ m.tombs = l.tombs /\ m.next = l.next /\ m.due = l.due
<1> DEFINE x == l.attempts
           over == S \cap Live(l)
           A == [a \in Attempts |-> IF a \in over THEN Finished(x[a], o) ELSE x[a]]
           O == [e \in Entries |-> IF \E a \in over : x[a].entry = e THEN None ELSE l.owner[e]]
           c == IF l.active \in over THEN None ELSE l.active
           d == l.ended \/ (l.active \in over /\ x[l.active].successor = None
                                              /\ ~x[l.active].revoked)
           m == CommitAll(l, S, o)
<1>1. m = [l EXCEPT !.attempts = A, !.owner = O, !.active = c, !.ended = d]
  BY DEF CommitAll
<1>2. A \in [Attempts -> LoadAttempt]
  <2>1. \A a \in Attempts : x[a] \in LoadAttempt
    BY LifeFields
  <2> QED BY <2>1, FinishedRecord
<1>3. O \in [Entries -> Attempts \cup {None}] /\ c \in Attempts \cup {None} /\ d \in BOOLEAN
  BY LifeFields, Values
<1> HIDE DEF A, O, c, d, m
<1>4. m \in Lives
  BY <1>1, <1>2, <1>3 DEF Lives
<1>5. /\ m.attempts = A /\ m.owner = O /\ m.active = c /\ m.ended = d
      /\ m.deferred = l.deferred /\ m.required = l.required /\ m.troubled = l.troubled
      /\ m.tombs = l.tombs /\ m.next = l.next /\ m.due = l.due
  BY <1>1 DEF Lives
<1> QED BY <1>4, <1>5 DEF A, O, c, d, m

LEMMA NoAttemptOK ==
  /\ NoAttempt \in LoadAttempt /\ AttemptOK(NoAttempt)
  /\ NoAttempt.state = "none" /\ NoAttempt.entry = None /\ NoAttempt.replaced = None
  /\ NoAttempt.successor = None /\ NoAttempt.revoked = FALSE /\ NoAttempt.loaded = FALSE
  /\ NoAttempt.command = "none" /\ NoAttempt.reconcile = Never /\ NoAttempt.deadline = Never
  /\ NoAttempt.retire = Never /\ NoAttempt.result = "none" /\ NoAttempt.started = FALSE
<1>1. NoAttempt \in LoadAttempt
  BY Values DEF NoAttempt, LoadAttempt
<1>2. AttemptOK(NoAttempt)
  BY DEF NoAttempt, AttemptOK
<1> QED BY <1>1, <1>2 DEF NoAttempt

\* An update that changes no link.
LEMMA LinksStay ==
  ASSUME NEW l \in Lives, LinksOK(l), NEW m \in Lives, m.next = l.next,
         \A a \in Attempts : /\ m.attempts[a].replaced = l.attempts[a].replaced
                             /\ m.attempts[a].successor = l.attempts[a].successor
                             /\ (m.attempts[a].state = "none" <=> l.attempts[a].state = "none")
  PROVE  LinksOK(m)
<1> DEFINE x == l.attempts
           y == m.attempts
<1>1. \A a \in Attempts : /\ x[a].successor \in Attempts \cup {None}
                          /\ x[a].replaced \in Attempts \cup {None}
  BY LifeFields DEF LoadAttempt
<1>2. \A a \in Attempts : a >= m.next => y[a].state = "none"
  BY DEF LinksOK
<1>3. \A a \in Attempts : y[a].replaced < a /\ y[a].replaced < m.next
  BY DEF LinksOK
<1>4. ASSUME NEW a \in Attempts, y[a].successor # None
      PROVE  y[y[a].successor].state # "none" /\ y[y[a].successor].replaced = a
  <2>1. x[a].successor \in Attempts /\ y[a].successor = x[a].successor
    BY <1>1, <1>4
  <2>2. x[x[a].successor].state # "none" /\ x[x[a].successor].replaced = a
    BY <1>4, <2>1 DEF LinksOK
  <2> QED BY <2>1, <2>2
<1>5. ASSUME NEW a \in Attempts, y[a].replaced # None, y[y[a].replaced].state # "none"
      PROVE  y[y[a].replaced].successor \in {None, a}
  <2>1. x[a].replaced \in Attempts /\ y[a].replaced = x[a].replaced
    BY <1>1, <1>5
  <2>2. x[x[a].replaced].successor \in {None, a}
    BY <1>5, <2>1 DEF LinksOK
  <2> QED BY <2>1, <2>2
<1> QED BY <1>2, <1>3, <1>4, <1>5 DEF LinksOK

\* Finishing attempts: what they own is released, and nothing else changes.
LEMMA CommitKeeps ==
  ASSUME NEW l, LifeOK(l), NEW S, NEW o \in Outcomes
  PROVE  LET m == CommitAll(l, S, o) IN
         /\ LifeOK(m)
         /\ \A a \in Attempts : Same(l.attempts[a], m.attempts[a])
         /\ \A a \in Attempts : a \notin S => m.attempts[a] = l.attempts[a]
         /\ \A a \in Attempts : a \in S /\ l.attempts[a].state # "none" =>
                m.attempts[a].state = "terminal"
         /\ \A a \in Attempts : l.attempts[a].state = "none" => m.attempts[a] = l.attempts[a]
         /\ \A e \in Entries : m.owner[e] = (IF l.owner[e] \in S THEN None ELSE l.owner[e])
         /\ m.active = (IF l.active \in S THEN None ELSE l.active)
         /\ m.deferred = l.deferred /\ m.required = l.required /\ m.troubled = l.troubled
         /\ m.tombs = l.tombs /\ m.next = l.next /\ m.due = l.due
<1> DEFINE x == l.attempts
           over == S \cap Live(l)
           m == CommitAll(l, S, o)
           y == m.attempts
<1>1. /\ l \in Lives /\ AttemptsOK(l) /\ LinksOK(l) /\ OwnersOK(l) /\ ActiveOK(l)
  BY DEF LifeOK
<1>2. /\ m \in Lives
      /\ y = [a \in Attempts |-> IF a \in over THEN Finished(x[a], o) ELSE x[a]]
      /\ m.owner = [e \in Entries |-> IF \E a \in over : x[a].entry = e THEN None ELSE l.owner[e]]
      /\ m.active = (IF l.active \in over THEN None ELSE l.active)
      /\ m.ended = (l.ended \/ (l.active \in over /\ x[l.active].successor = None
                                                 /\ ~x[l.active].revoked))
      /\ m.deferred = l.deferred /\ m.required = l.required /\ m.troubled = l.troubled
      /\ m.tombs = l.tombs /\ m.next = l.next /\ m.due = l.due
  BY <1>1, CommitFields
<1>3. /\ x \in [Attempts -> LoadAttempt] /\ l.owner \in [Entries -> Attempts \cup {None}]
      /\ l.active \in Attempts \cup {None}
  BY <1>1, LifeFields
<1>4. \A a \in Attempts : a \in over <=> a \in S /\ x[a].state \notin {"none", "terminal"}
  BY DEF Live, Present
<1> HIDE DEF over, m
<1>5. ASSUME NEW a \in Attempts
      PROVE  /\ Same(x[a], y[a]) /\ AttemptOK(y[a])
             /\ y[a].state = (IF a \in over THEN "terminal" ELSE x[a].state)
             /\ a \notin over => y[a] = x[a]
  <2>1. x[a] \in LoadAttempt /\ AttemptOK(x[a])
    BY <1>1, <1>3 DEF AttemptsOK
  <2>2. CASE a \in over
    BY <1>2, <2>1, <2>2, FinishedRecord, FinishedOK
  <2>3. CASE a \notin over
    BY <1>2, <2>1, <2>3 DEF Same
  <2> QED BY <2>2, <2>3
<1>6. \A e \in Entries : (\E a \in over : x[a].entry = e) <=> (l.owner[e] # None /\ l.owner[e] \in S)
  <2> SUFFICES ASSUME NEW e \in Entries
               PROVE  (\E a \in over : x[a].entry = e) <=> (l.owner[e] # None /\ l.owner[e] \in S)
    OBVIOUS
  <2>1. over \subseteq Attempts
    BY DEF over, Live, Present
  <2>2. ASSUME NEW a \in over, x[a].entry = e PROVE l.owner[e] # None /\ l.owner[e] \in S
    BY <1>1, <1>4, <2>1, <2>2, Values DEF OwnersOK
  <2>3. ASSUME l.owner[e] # None, l.owner[e] \in S PROVE \E a \in over : x[a].entry = e
    BY <1>1, <1>3, <1>4, <2>3 DEF OwnersOK
  <2> QED BY <2>2, <2>3
<1>7. \A e \in Entries : m.owner[e] = (IF l.owner[e] \in S THEN None ELSE l.owner[e])
  BY <1>2, <1>6
<1>8. m.active = (IF l.active \in S THEN None ELSE l.active)
  <2>1. l.active # None => l.active \in Attempts /\ x[l.active].state \notin {"none", "terminal"}
    BY <1>1, <1>3 DEF ActiveOK
  <2>2. None \notin over
    BY Values DEF over, Live, Present
  <2> QED BY <1>2, <1>4, <2>1, <2>2
<1>9. LinksOK(m)
  <2>1. \A a \in Attempts : /\ y[a].replaced = x[a].replaced /\ y[a].successor = x[a].successor
                            /\ (y[a].state = "none" <=> x[a].state = "none")
    BY <1>4, <1>5 DEF Same
  <2> QED BY <1>1, <1>2, <2>1, LinksStay
<1>10. OwnersOK(m)
  <2>1. ASSUME NEW e \in Entries, m.owner[e] # None
        PROVE  y[m.owner[e]].state \notin {"none", "terminal"} /\ y[m.owner[e]].entry = e
    <3>1. m.owner[e] = l.owner[e] /\ l.owner[e] \in Attempts /\ l.owner[e] \notin S
      BY <1>3, <1>7, <2>1
    <3> QED BY <1>1, <1>4, <1>5, <2>1, <3>1 DEF OwnersOK
  <2>2. ASSUME NEW a \in Attempts, y[a].state \notin {"none", "terminal"}, y[a].entry # None
        PROVE  m.owner[y[a].entry] = a
    <3>1. a \notin over /\ y[a] = x[a] /\ a \notin S
      BY <1>4, <1>5, <2>2
    <3>2. x[a].entry \in Entries /\ l.owner[x[a].entry] = a
      BY <1>1, <1>3, <2>2, <3>1 DEF OwnersOK, LoadAttempt
    <3> QED BY <1>7, <3>1, <3>2
  <2> QED BY <2>1, <2>2 DEF OwnersOK
<1>11. ActiveOK(m)
  <2>1. m.active # None => m.active = l.active /\ l.active \notin S /\ l.active \in Attempts
           /\ y[m.active] = x[m.active]
    BY <1>3, <1>4, <1>5, <1>8
  <2>2. m.ended => m.active = None \/ y[m.active].loaded
    BY <1>1, <1>2, <2>1 DEF ActiveOK
  <2>3. ASSUME NEW a \in Attempts, y[a].state \in {"starting", "active"} PROVE m.active = a
    BY <1>1, <1>4, <1>5, <1>8, <2>3 DEF ActiveOK
  <2> QED BY <1>1, <2>1, <2>2, <2>3 DEF ActiveOK
<1>12. LifeOK(m)
  BY <1>2, <1>5, <1>9, <1>10, <1>11 DEF LifeOK, AttemptsOK
<1>13. \A a \in Attempts : /\ (a \notin S => y[a] = x[a])
                           /\ (a \in S /\ x[a].state # "none" => y[a].state = "terminal")
                           /\ (x[a].state = "none" => y[a] = x[a])
  BY <1>4, <1>5
<1> QED BY <1>2, <1>5, <1>7, <1>8, <1>12, <1>13 DEF m

\* Replacing the attempts of a life.
LEMMA AttemptsReplaced ==
  ASSUME NEW l \in Lives, NEW A \in [Attempts -> LoadAttempt]
  PROVE  LET m == [l EXCEPT !.attempts = A] IN
         /\ m \in Lives /\ m.attempts = A /\ m.owner = l.owner /\ m.active = l.active
         /\ m.ended = l.ended /\ m.deferred = l.deferred /\ m.required = l.required
         /\ m.troubled = l.troubled /\ m.tombs = l.tombs /\ m.next = l.next /\ m.due = l.due
<1> DEFINE m == [l EXCEPT !.attempts = A]
<1>1. m \in Lives
  BY DEF Lives
<1>2. /\ m.attempts = A /\ m.owner = l.owner /\ m.active = l.active
      /\ m.ended = l.ended /\ m.deferred = l.deferred /\ m.required = l.required
      /\ m.troubled = l.troubled /\ m.tombs = l.tombs /\ m.next = l.next /\ m.due = l.due
  BY DEF Lives
<1> QED BY <1>1, <1>2

\* The links of all attempts, but that a may claim a predecessor of another one.
LinksBut(l, a) ==
  LET x == l.attempts IN
  /\ \A b \in Attempts : b >= l.next => x[b].state = "none"
  /\ \A b \in Attempts : x[b].replaced < b /\ x[b].replaced < l.next
  /\ \A b \in Attempts : x[b].successor # None =>
        x[x[b].successor].state # "none" /\ x[x[b].successor].replaced = b
  /\ \A b \in Attempts \ {a} : x[b].replaced # None /\ x[x[b].replaced].state # "none" =>
        x[x[b].replaced].successor \in {None, b}

\* Superseding a live predecessor p by a, which claims it.
LEMMA SupersedeFields ==
  ASSUME NEW l \in Lives, AttemptsOK(l), NEW a \in Attempts, LinksBut(l, a),
         l.attempts[a].state # "none", NEW p \in Attempts, l.attempts[a].replaced = p,
         l.attempts[p].state \notin {"none", "terminal"}
  PROVE  LET m == Supersede(l, p, a)
             x == l.attempts
             y == m.attempts IN
         /\ m \in Lives /\ AttemptsOK(m) /\ LinksOK(m) /\ p # a
         /\ y[p].state = "superseded" /\ y[p].revoked /\ y[p].reconcile = Never
         /\ \A b \in Attempts \ {p} : y[b].state = x[b].state /\ y[b].revoked = x[b].revoked
                                       /\ y[b].reconcile = x[b].reconcile
         /\ \A b \in Attempts : /\ y[b].entry = x[b].entry /\ y[b].loaded = x[b].loaded
                                /\ (y[b].command = "completed" <=> x[b].command = "completed")
         /\ m.owner = l.owner /\ m.active = l.active /\ m.ended = l.ended
         /\ m.deferred = l.deferred /\ m.required = l.required /\ m.troubled = l.troubled
         /\ m.tombs = l.tombs /\ m.next = l.next /\ m.due = l.due
<1> DEFINE x == l.attempts
           A == [b \in Attempts |->
                   IF b = p THEN Superseded(x[b], a)
                   ELSE IF b # a /\ x[b].replaced = p THEN Disclaimed(x[b]) ELSE x[b]]
           m == Supersede(l, p, a)
           y == m.attempts
<1>1. x \in [Attempts -> LoadAttempt] /\ \A b \in Attempts : x[b] \in LoadAttempt /\ AttemptOK(x[b])
  BY LifeFields DEF AttemptsOK
<1>2. p # a /\ p \in Nat \ {0}
  <2>1. p \in Nat \ {0} /\ a \in Nat \ {0}
    BY DEF Attempts
  <2>2. p < a
    BY DEF LinksBut
  <2> QED BY <2>1, <2>2
<1>3. m = [l EXCEPT !.attempts = A]
  BY DEF Supersede, Live, Present
<1>4. ASSUME NEW b \in Attempts
      PROVE  /\ A[b] \in LoadAttempt /\ AttemptOK(A[b])
             /\ A[b].entry = x[b].entry /\ A[b].loaded = x[b].loaded
             /\ (A[b].command = "completed" <=> x[b].command = "completed")
             /\ b = p => A[b].state = "superseded" /\ A[b].revoked /\ A[b].successor = a
                           /\ A[b].replaced = x[b].replaced /\ A[b].reconcile = Never
             /\ b # p => /\ A[b].state = x[b].state /\ A[b].revoked = x[b].revoked
                         /\ A[b].successor = x[b].successor /\ A[b].reconcile = x[b].reconcile
                         /\ A[b].replaced = (IF b # a /\ x[b].replaced = p THEN None
                                             ELSE x[b].replaced)
  <2>1. CASE b = p
    BY <1>1, <2>1, SupersededRecord
  <2>2. CASE b # p /\ b # a /\ x[b].replaced = p
    <3>1. x[b].state # "none"
      BY <1>1, <1>2, <2>2, NoAttemptOK DEF AttemptOK, None
    <3> QED BY <1>1, <2>2, <3>1, DisclaimedRecord, DisclaimedOK
  <2>3. CASE b # p /\ ~(b # a /\ x[b].replaced = p)
    BY <1>1, <2>3
  <2> QED BY <2>1, <2>2, <2>3
<1>5. A \in [Attempts -> LoadAttempt]
  BY <1>4
<1> HIDE DEF A, m
<1>6. /\ m \in Lives /\ y = A /\ m.owner = l.owner /\ m.active = l.active
      /\ m.ended = l.ended /\ m.deferred = l.deferred /\ m.required = l.required
      /\ m.troubled = l.troubled /\ m.tombs = l.tombs /\ m.next = l.next /\ m.due = l.due
  BY <1>3, <1>5, AttemptsReplaced
<1>7. AttemptsOK(m)
  BY <1>4, <1>6 DEF AttemptsOK
<1>8. LinksOK(m)
  <2>1. \A b \in Attempts : /\ x[b].successor \in Attempts \cup {None}
                            /\ x[b].replaced \in Attempts \cup {None}
    BY <1>1 DEF LoadAttempt
  <2>2. \A b \in Attempts : (A[b].state = "none") <=> (x[b].state = "none")
    BY <1>4
  <2>3. \A b \in Attempts : b >= m.next => y[b].state = "none"
    BY <1>6, <2>2 DEF LinksBut
  <2>4. \A b \in Attempts : y[b].replaced < b /\ y[b].replaced < m.next
    <3> SUFFICES ASSUME NEW b \in Attempts PROVE y[b].replaced < b /\ y[b].replaced < m.next
      OBVIOUS
    <3>1. x[b].replaced < b /\ x[b].replaced < l.next
      BY DEF LinksBut
    <3>2. y[b].replaced \in {None, x[b].replaced}
      BY <1>4, <1>6
    <3>3. None < b /\ None < l.next
      BY LifeFields DEF None, Attempts
    <3> QED BY <1>6, <3>1, <3>2, <3>3
  <2>5. ASSUME NEW b \in Attempts, y[b].successor # None
        PROVE  y[y[b].successor].state # "none" /\ y[y[b].successor].replaced = b
    <3>1. CASE b = p
      BY <1>2, <1>4, <1>6, <2>2, <3>1
    <3>2. CASE b # p
      <4>1. y[b].successor = x[b].successor /\ x[b].successor \in Attempts
        BY <1>4, <1>6, <2>1, <2>5, <3>2
      <4>2. x[x[b].successor].state # "none" /\ x[x[b].successor].replaced = b
        BY <2>5, <4>1 DEF LinksBut
      <4> QED BY <1>4, <1>6, <2>2, <3>2, <4>1, <4>2
    <3> QED BY <3>1, <3>2
  <2>6. ASSUME NEW b \in Attempts, y[b].replaced # None, y[y[b].replaced].state # "none"
        PROVE  y[y[b].replaced].successor \in {None, b}
    <3>1. y[b].replaced = x[b].replaced /\ x[b].replaced \in Attempts
      BY <1>4, <1>6, <2>1, <2>6
    <3>2. CASE x[b].replaced = p
      <4>1. b = a
        <5>1. p < p => FALSE
          BY <1>2
        <5>2. b # p
          BY <3>2, <5>1 DEF LinksBut
        <5> QED BY <1>2, <1>4, <1>6, <2>6, <3>1, <3>2, <5>2, Values
      <4> QED BY <1>4, <1>6, <3>1, <3>2, <4>1
    <3>3. CASE x[b].replaced # p
      <4>1. b \in Attempts \ {a}
        BY <3>3
      <4>2. x[x[b].replaced].successor \in {None, b}
        BY <1>6, <2>2, <2>6, <3>1, <4>1 DEF LinksBut
      <4> QED BY <1>4, <1>6, <3>1, <3>3, <4>2
    <3> QED BY <3>2, <3>3
  <2> QED BY <2>3, <2>4, <2>5, <2>6 DEF LinksOK
<1> QED BY <1>2, <1>4, <1>6, <1>7, <1>8 DEF m

-----------------------------------------------------------------------------
(* Starts. *)

\* A record that a start may have touched: only its state has changed, within those of a
\* bound attempt that goes on.
Calm(x, y) ==
  /\ Same(x, y) /\ y.reconcile = x.reconcile
  /\ (y.state = "none" <=> x.state = "none")
  /\ (y.state = "submitting" <=> x.state = "submitting")
  /\ (y.state = "accepted" <=> x.state = "accepted")
  /\ (y.state = "quiescent" <=> x.state = "quiescent")
  /\ (y.state = "terminal" <=> x.state = "terminal")
  /\ (x.entry = None => y.state = x.state)

LEMMA CalmIsTransitive ==
  ASSUME NEW x, NEW y, NEW z, Calm(x, y), Calm(y, z)
  PROVE  Calm(x, z)
BY DEF Calm, Same

LEMMA CalmIsReflexive ==
  ASSUME NEW x
  PROVE  Calm(x, x)
BY DEF Calm, Same

\* A life whose attempts are calm keeps its invariants, but for those of the active one.
LEMMA CalmKeeps ==
  ASSUME NEW l, LifeOK(l), NEW m \in Lives, m.owner = l.owner, m.next = l.next,
         \A a \in Attempts : Calm(l.attempts[a], m.attempts[a]) /\ AttemptOK(m.attempts[a]),
         ActiveOK(m)
  PROVE  LifeOK(m)
<1> DEFINE x == l.attempts
           y == m.attempts
<1>1. /\ l \in Lives /\ AttemptsOK(l) /\ LinksOK(l) /\ OwnersOK(l)
  BY DEF LifeOK
<1>2. l.owner \in [Entries -> Attempts \cup {None}]
  BY <1>1, LifeFields
<1>3. LinksOK(m)
  <2>1. \A a \in Attempts : /\ y[a].replaced = x[a].replaced
                            /\ y[a].successor = x[a].successor
                            /\ (y[a].state = "none" <=> x[a].state = "none")
    BY DEF Calm, Same
  <2> QED BY <1>1, <2>1, LinksStay
<1>4. \A a \in Attempts : /\ y[a].entry = x[a].entry
                          /\ y[a].state \in {"none", "terminal"} <=> x[a].state \in {"none", "terminal"}
  BY DEF Calm, Same
<1>5. OwnersOK(m)
  BY <1>1, <1>2, <1>4 DEF OwnersOK
<1>6. AttemptsOK(m)
  BY DEF AttemptsOK
<1> QED BY <1>3, <1>5, <1>6 DEF LifeOK

\* What bind_attempt does to the owner of the entry.
LEMMA BoundToOwner ==
  ASSUME NEW x \in LoadAttempt, AttemptOK(x), NEW e \in Entries, x.entry = e,
         x.state \notin {"none", "terminal"}
  PROVE  /\ BoundTo(x, e) \in LoadAttempt /\ AttemptOK(BoundTo(x, e)) /\ Calm(x, BoundTo(x, e))
         /\ BoundTo(x, e).state \in {"starting", "active"} <=> x.state \in {"starting", "active"}
<1> DEFINE y == BoundTo(x, e)
<1>1. /\ y \in LoadAttempt
      /\ y.entry = e
      /\ y.reconcile = Never
      /\ y.state = (IF x.state \in {"accepted", "mayEmit"} THEN "bound" ELSE x.state)
      /\ y.replaced = x.replaced /\ y.successor = x.successor /\ y.revoked = x.revoked
      /\ y.loaded = x.loaded /\ y.started = x.started /\ y.result = x.result
      /\ y.deadline = x.deadline /\ y.retire = x.retire /\ y.command = x.command
  BY BoundToRecord
<1>2. x.state # "submitting" /\ x.state # "accepted" /\ x.reconcile = Never /\ e # None
  BY Values DEF AttemptOK
<1>3. AttemptOK(y)
  BY <1>2, BoundToOK
<1> HIDE DEF y
<1>4. Calm(x, y)
  BY <1>1, <1>2 DEF Calm, Same
<1> QED BY <1>1, <1>3, <1>4 DEF y

LEMMA SeenIsCalm ==
  ASSUME NEW x \in LoadAttempt, AttemptOK(x), NEW observed \in BOOLEAN, x.state # "none"
  PROVE  LET y == Seen(x, observed) IN
         y \in LoadAttempt /\ AttemptOK(y) /\ Calm(x, y) /\ y.state = x.state
<1> DEFINE y == Seen(x, observed)
<1>1. /\ y \in LoadAttempt
      /\ y.state = x.state /\ y.entry = x.entry /\ y.replaced = x.replaced
      /\ y.successor = x.successor /\ y.revoked = x.revoked /\ y.loaded = x.loaded
      /\ y.reconcile = x.reconcile /\ y.command = x.command
  BY SeenRecord
<1>2. AttemptOK(y)
  BY SeenOK
<1> HIDE DEF y
<1>3. Calm(x, y)
  BY <1>1 DEF Calm, Same
<1> QED BY <1>1, <1>2, <1>3 DEF y

LEMMA DemotedIsCalm ==
  ASSUME NEW x \in LoadAttempt, AttemptOK(x), x.state \in {"starting", "active"}
  PROVE  LET y == Demoted(x) IN
         /\ y \in LoadAttempt /\ AttemptOK(y) /\ Calm(x, y) /\ y.state \in {"mayEmit", "superseded"}
<1> DEFINE y == Demoted(x)
<1>1. /\ y \in LoadAttempt
      /\ y.state = (IF x.successor = None THEN "mayEmit" ELSE "superseded")
      /\ y.entry = x.entry /\ y.replaced = x.replaced /\ y.successor = x.successor
      /\ y.revoked = x.revoked /\ y.loaded = x.loaded
      /\ y.reconcile = x.reconcile /\ y.command = x.command
  BY DemotedRecord
<1>2. AttemptOK(y)
  BY DemotedOK
<1>3. x.entry # None
  BY DEF AttemptOK
<1> HIDE DEF y
<1>4. Calm(x, y)
  BY <1>1, <1>3 DEF Calm, Same
<1> QED BY <1>1, <1>2, <1>4 DEF y

LEMMA StartingIsCalm ==
  ASSUME NEW x \in LoadAttempt, AttemptOK(x), x.entry # None,
         x.state \notin {"none", "terminal", "quiescent"}
  PROVE  LET y == Starting(x) IN
         /\ y \in LoadAttempt /\ AttemptOK(y) /\ Calm(x, y) /\ y.state = "starting"
<1> DEFINE y == Starting(x)
<1>1. /\ y \in LoadAttempt
      /\ y.state = "starting"
      /\ y.entry = x.entry /\ y.replaced = x.replaced /\ y.successor = x.successor
      /\ y.revoked = x.revoked /\ y.loaded = x.loaded
      /\ y.reconcile = x.reconcile /\ y.command = x.command
  BY StartingRecord
<1>2. AttemptOK(y)
  BY StartingOK
<1>3. x.state \notin {"submitting", "accepted"}
  BY DEF AttemptOK
<1> HIDE DEF y
<1>4. Calm(x, y)
  BY <1>1, <1>3 DEF Calm, Same
<1> QED BY <1>1, <1>2, <1>4 DEF y

\* Replacing one attempt of a life.
LEMMA AttemptReplaced ==
  ASSUME NEW l \in Lives, NEW a \in Attempts, NEW v \in LoadAttempt
  PROVE  LET m == [l EXCEPT !.attempts[a] = v] IN
         /\ m \in Lives
         /\ m.attempts[a] = v /\ \A b \in Attempts \ {a} : m.attempts[b] = l.attempts[b]
         /\ m.owner = l.owner /\ m.active = l.active
         /\ m.ended = l.ended /\ m.deferred = l.deferred /\ m.required = l.required
         /\ m.troubled = l.troubled /\ m.tombs = l.tombs /\ m.next = l.next /\ m.due = l.due
<1> DEFINE A == [l.attempts EXCEPT ![a] = v]
           m == [l EXCEPT !.attempts[a] = v]
<1>1. l.attempts \in [Attempts -> LoadAttempt]
  BY LifeFields
<1>2. A \in [Attempts -> LoadAttempt] /\ A[a] = v /\ \A b \in Attempts \ {a} : A[b] = l.attempts[b]
  BY <1>1
<1>3. m = [l EXCEPT !.attempts = A]
  OBVIOUS
<1> HIDE DEF A, m
<1>4. /\ m \in Lives /\ m.attempts = A /\ m.owner = l.owner /\ m.active = l.active
      /\ m.ended = l.ended /\ m.deferred = l.deferred /\ m.required = l.required
      /\ m.troubled = l.troubled /\ m.tombs = l.tombs /\ m.next = l.next /\ m.due = l.due
  BY <1>2, <1>3, AttemptsReplaced
<1> QED BY <1>2, <1>4 DEF m

\* What a start leaves alone.
Started(l, m) ==
  /\ m \in Lives /\ m.owner = l.owner /\ m.deferred = l.deferred /\ m.required = l.required
  /\ m.troubled = l.troubled /\ m.tombs = l.tombs /\ m.next = l.next /\ m.due = l.due
  /\ \A b \in Attempts : Calm(l.attempts[b], m.attempts[b]) /\ AttemptOK(m.attempts[b])

LEMMA StartedIsTransitive ==
  ASSUME NEW l, NEW m, NEW n, Started(l, m), Started(m, n)
  PROVE  Started(l, n)
<1>1. \A b \in Attempts : Calm(l.attempts[b], n.attempts[b])
  BY CalmIsTransitive DEF Started
<1> QED BY <1>1 DEF Started

\* Replacing one attempt by a calm one.
LEMMA CalmReplaced ==
  ASSUME NEW l \in Lives, AttemptsOK(l), NEW a \in Attempts, NEW v \in LoadAttempt,
         Calm(l.attempts[a], v), AttemptOK(v)
  PROVE  LET m == [l EXCEPT !.attempts[a] = v] IN
         /\ Started(l, m) /\ m.active = l.active /\ m.ended = l.ended
         /\ m.attempts[a] = v /\ \A b \in Attempts \ {a} : m.attempts[b] = l.attempts[b]
<1> DEFINE m == [l EXCEPT !.attempts[a] = v]
<1>1. /\ m \in Lives
      /\ m.attempts[a] = v /\ \A b \in Attempts \ {a} : m.attempts[b] = l.attempts[b]
      /\ m.owner = l.owner /\ m.active = l.active
      /\ m.ended = l.ended /\ m.deferred = l.deferred /\ m.required = l.required
      /\ m.troubled = l.troubled /\ m.tombs = l.tombs /\ m.next = l.next /\ m.due = l.due
  BY AttemptReplaced
<1> HIDE DEF m
<1>2. \A b \in Attempts : Calm(l.attempts[b], m.attempts[b]) /\ AttemptOK(m.attempts[b])
  BY <1>1, CalmIsReflexive DEF AttemptsOK
<1> QED BY <1>1, <1>2 DEF m, Started

LEMMA BindOwner ==
  ASSUME NEW l, LifeOK(l), NEW e \in Entries, l.owner[e] # None
  PROVE  LET m == Bind(l, l.owner[e], e) IN
         Started(l, m) /\ LifeOK(m) /\ m.active = l.active
<1> DEFINE a == l.owner[e]
           x == l.attempts[a]
           m == Bind(l, a, e)
           n == [l EXCEPT !.attempts[a] = BoundTo(x, e)]
<1>1. /\ l \in Lives /\ AttemptsOK(l) /\ LinksOK(l) /\ OwnersOK(l) /\ ActiveOK(l)
  BY DEF LifeOK
<1>2. /\ l.attempts \in [Attempts -> LoadAttempt] /\ l.owner \in [Entries -> Attempts \cup {None}]
      /\ l.active \in Attempts \cup {None}
  BY <1>1, LifeFields
<1>3. a \in Attempts /\ x \in LoadAttempt /\ AttemptOK(x) /\ x.entry = e
        /\ x.state \notin {"none", "terminal"}
  BY <1>1, <1>2 DEF AttemptsOK, OwnersOK
<1>4. a \in Live(l)
  BY <1>3 DEF Live, Present
<1>5. m = [l EXCEPT !.owner[e] = a, !.attempts[a] = BoundTo(x, e)]
  BY <1>3, <1>4 DEF Bind
<1>6. [l.owner EXCEPT ![e] = a] = l.owner
  BY <1>2
<1>7. m = n
  BY <1>1, <1>5, <1>6 DEF Lives
<1>8. /\ BoundTo(x, e) \in LoadAttempt /\ AttemptOK(BoundTo(x, e)) /\ Calm(x, BoundTo(x, e))
      /\ BoundTo(x, e).state \in {"starting", "active"} <=> x.state \in {"starting", "active"}
  BY <1>3, BoundToOwner
<1> HIDE DEF m
<1>9. /\ Started(l, n) /\ n.active = l.active /\ n.ended = l.ended
      /\ n.attempts[a] = BoundTo(x, e)
      /\ \A b \in Attempts \ {a} : n.attempts[b] = l.attempts[b]
  BY <1>1, <1>3, <1>8, CalmReplaced
<1> HIDE DEF n
<1>10. ActiveOK(n)
  <2>1. \A b \in Attempts : n.attempts[b].state \in {"starting", "active"}
                             => l.attempts[b].state \in {"starting", "active"}
    BY <1>8, <1>9
  <2>2. \A b \in Attempts : Calm(l.attempts[b], n.attempts[b])
    BY <1>9 DEF Started
  <2> QED BY <1>1, <1>2, <1>9, <2>1, <2>2 DEF ActiveOK, Calm, Same
<1>11. LifeOK(n)
  BY <1>9, <1>10, CalmKeeps DEF Started
<1> QED BY <1>7, <1>9, <1>11 DEF m

\* start_attempt of the owner of an entry: it becomes the active one unless it is revoked
\* or quiescent, and the one that was active is demoted.
LEMMA StartBoundKeeps ==
  ASSUME NEW l, LifeOK(l), NEW e \in Entries, l.owner[e] # None, NEW observed \in BOOLEAN
  PROVE  LET a == l.owner[e]
             m == StartBound(l, a, e, observed) IN
         /\ Started(l, m) /\ LifeOK(m)
         /\ m.active = (IF l.attempts[a].revoked \/ l.attempts[a].state = "quiescent"
                        THEN l.active ELSE a)
<1> DEFINE a == l.owner[e]
           m == StartBound(l, a, e, observed)
           z == Seen(l.attempts[a], observed)
           s == [l EXCEPT !.attempts[a] = z]
           x == s.attempts[a]
           p == s.active
           d == IF p \notin {None, a} /\ s.attempts[p].state \in {"starting", "active"}
                THEN [s EXCEPT !.attempts[p] = Demoted(s.attempts[p])] ELSE s
           f == [d EXCEPT !.attempts[a] = Starting(d.attempts[a])]
<1>1. /\ l \in Lives /\ AttemptsOK(l) /\ OwnersOK(l) /\ ActiveOK(l)
      /\ l.attempts \in [Attempts -> LoadAttempt] /\ l.owner \in [Entries -> Attempts \cup {None}]
      /\ l.active \in Attempts \cup {None}
  BY LifeFields DEF LifeOK
<1>2. /\ a \in Attempts /\ l.attempts[a] \in LoadAttempt /\ AttemptOK(l.attempts[a])
      /\ l.attempts[a].entry = e /\ l.attempts[a].state \notin {"none", "terminal"}
  BY <1>1 DEF AttemptsOK, OwnersOK
<1>3. m = IF x.revoked THEN s
          ELSE IF x.state \in {"starting", "active"}
          THEN [s EXCEPT !.active = a, !.ended = FALSE]
          ELSE IF x.state = "quiescent" THEN d
          ELSE [f EXCEPT !.active = a, !.ended = FALSE]
  BY DEF StartBound
<1> HIDE DEF m
<1>4. z \in LoadAttempt /\ AttemptOK(z) /\ Calm(l.attempts[a], z) /\ z.state = l.attempts[a].state
  BY <1>2, SeenIsCalm
<1> HIDE DEF z
<1>5. /\ Started(l, s) /\ s.active = l.active /\ s.ended = l.ended
      /\ s.attempts[a] = z /\ \A b \in Attempts \ {a} : s.attempts[b] = l.attempts[b]
  BY <1>1, <1>2, <1>4, CalmReplaced
<1> HIDE DEF s
<1>6. s \in Lives /\ AttemptsOK(s) /\ s.attempts \in [Attempts -> LoadAttempt]
  BY <1>5, LifeFields DEF Started, AttemptsOK
<1>7. ActiveOK(s)
  <2>1. \A b \in Attempts : Calm(l.attempts[b], s.attempts[b])
                             /\ s.attempts[b].state = l.attempts[b].state
    BY <1>4, <1>5 DEF Started
  <2> QED BY <1>1, <1>5, <2>1 DEF ActiveOK, Calm, Same
<1>8. /\ Started(l, d) /\ d.active = l.active /\ d.ended = l.ended
      /\ \A b \in Attempts \ {a} : d.attempts[b].state \notin {"starting", "active"}
      /\ d.attempts[a] = z
  <2>1. CASE p \notin {None, a} /\ s.attempts[p].state \in {"starting", "active"}
    <3>1. p \in Attempts /\ p # a
      BY <1>1, <1>5, <2>1
    <3>2. /\ Demoted(s.attempts[p]) \in LoadAttempt /\ AttemptOK(Demoted(s.attempts[p]))
          /\ Calm(s.attempts[p], Demoted(s.attempts[p]))
          /\ Demoted(s.attempts[p]).state \in {"mayEmit", "superseded"}
      BY <1>6, <2>1, <3>1, DemotedIsCalm DEF AttemptsOK
    <3>3. d = [s EXCEPT !.attempts[p] = Demoted(s.attempts[p])]
      BY <2>1
    <3> DEFINE v == Demoted(s.attempts[p])
    <3> HIDE DEF d, v, p
    <3>4. /\ Started(s, d) /\ d.active = s.active /\ d.ended = s.ended
          /\ d.attempts[p] = v
          /\ \A b \in Attempts \ {p} : d.attempts[b] = s.attempts[b]
      <4>1. v \in LoadAttempt /\ AttemptOK(v) /\ Calm(s.attempts[p], v)
        BY <3>2 DEF v
      <4>2. d = [s EXCEPT !.attempts[p] = v]
        BY <3>3 DEF v
      <4> QED BY <1>6, <3>1, <4>1, <4>2, CalmReplaced
    <3>5. Started(l, d)
      BY <1>5, <3>4, StartedIsTransitive
    <3>6. \A b \in Attempts \ {a} : d.attempts[b].state \notin {"starting", "active"}
      BY <1>7, <3>2, <3>4 DEF ActiveOK, v, p
    <3> QED BY <1>2, <1>5, <3>1, <3>4, <3>5, <3>6
  <2>2. CASE ~(p \notin {None, a} /\ s.attempts[p].state \in {"starting", "active"})
    <3>1. d = s
      BY <2>2
    <3>2. \A b \in Attempts \ {a} : s.attempts[b].state \notin {"starting", "active"}
      BY <1>7, <2>2, Values DEF ActiveOK
    <3> QED BY <1>5, <3>1, <3>2
  <2> QED BY <2>1, <2>2
<1> HIDE DEF d
<1>9. d \in Lives /\ AttemptsOK(d)
  BY <1>8 DEF Started, AttemptsOK
<1>10. x.revoked = l.attempts[a].revoked /\ x.state = l.attempts[a].state /\ x.entry = e
         /\ x = z /\ (x.state \in {"starting", "active"} => l.active = a)
  BY <1>1, <1>2, <1>4, <1>5 DEF Calm, Same, ActiveOK
<1>11. CASE x.revoked
  <2>1. m = s
    BY <1>3, <1>11
  <2>2. LifeOK(s)
    BY <1>5, <1>7, CalmKeeps DEF Started
  <2> QED BY <1>5, <1>10, <1>11, <2>1, <2>2 DEF m
<1>12. CASE ~x.revoked /\ x.state \in {"starting", "active"}
  <2>1. m = [s EXCEPT !.active = a, !.ended = FALSE]
    BY <1>3, <1>12
  <2>2. /\ m \in Lives /\ m.active = a /\ m.ended = FALSE /\ m.attempts = s.attempts
        /\ m.owner = s.owner /\ m.deferred = s.deferred /\ m.required = s.required
        /\ m.troubled = s.troubled /\ m.tombs = s.tombs /\ m.next = s.next /\ m.due = s.due
    BY <1>2, <1>6, <2>1 DEF Lives
  <2>3. Started(l, m)
    BY <1>5, <2>2 DEF Started
  <2>4. ActiveOK(m)
    BY <1>5, <1>7, <1>10, <1>12, <2>2 DEF ActiveOK
  <2>5. LifeOK(m)
    BY <2>3, <2>4, CalmKeeps DEF Started
  <2> QED BY <1>10, <1>12, <2>2, <2>3, <2>5 DEF m
<1>13. CASE ~x.revoked /\ x.state = "quiescent"
  <2>1. m = d
    BY <1>3, <1>13
  <2>2. ActiveOK(d)
    <3>1. \A b \in Attempts : Calm(l.attempts[b], d.attempts[b])
      BY <1>8 DEF Started
    <3>2. \A b \in Attempts : d.attempts[b].state \notin {"starting", "active"}
      BY <1>8, <1>10, <1>13
    <3> QED BY <1>1, <1>8, <3>1, <3>2 DEF ActiveOK, Calm, Same
  <2>3. LifeOK(d)
    BY <1>8, <2>2, CalmKeeps DEF Started
  <2> QED BY <1>8, <1>10, <1>13, <2>1, <2>3 DEF m
<1>14. CASE ~x.revoked /\ x.state \notin {"starting", "active", "quiescent"}
  <2>1. m = [f EXCEPT !.active = a, !.ended = FALSE]
    BY <1>3, <1>14
  <2>2. /\ Starting(z) \in LoadAttempt /\ AttemptOK(Starting(z)) /\ Calm(z, Starting(z))
        /\ Starting(z).state = "starting" /\ Starting(z).entry = e
    <3>1. e # None
      BY Values
    <3>2. x.state \notin {"none", "terminal", "quiescent"}
      BY <1>2, <1>10, <1>14
    <3>3. /\ Starting(z) \in LoadAttempt /\ AttemptOK(Starting(z)) /\ Calm(z, Starting(z))
          /\ Starting(z).state = "starting"
      BY <1>4, <1>10, <3>1, <3>2, StartingIsCalm
    <3> QED BY <1>10, <3>3 DEF Calm, Same
  <2>3. /\ Started(d, f) /\ f.attempts[a] = Starting(z)
        /\ \A b \in Attempts \ {a} : f.attempts[b] = d.attempts[b]
    BY <1>2, <1>8, <1>9, <2>2, CalmReplaced
  <2> HIDE DEF f
  <2>4. /\ m \in Lives /\ m.active = a /\ m.ended = FALSE /\ m.attempts = f.attempts
        /\ m.owner = f.owner /\ m.deferred = f.deferred /\ m.required = f.required
        /\ m.troubled = f.troubled /\ m.tombs = f.tombs /\ m.next = f.next /\ m.due = f.due
    <3>1. f \in Lives
      BY <2>3 DEF Started
    <3> QED BY <1>2, <2>1, <3>1 DEF Lives
  <2>5. Started(l, f)
    BY <1>8, <2>3, StartedIsTransitive
  <2>6. Started(l, m)
    BY <2>4, <2>5 DEF Started
  <2>7. ActiveOK(m)
    BY <1>8, <2>2, <2>3, <2>4, Values DEF ActiveOK
  <2>8. LifeOK(m)
    BY <2>6, <2>7, CalmKeeps DEF Started
  <2> QED BY <1>10, <1>14, <2>4, <2>6, <2>8 DEF m
<1> QED BY <1>11, <1>12, <1>13, <1>14

LEMMA StartOwnerKeeps ==
  ASSUME NEW l, LifeOK(l), NEW e \in Entries, l.owner[e] # None, NEW observed \in BOOLEAN
  PROVE  LET a == l.owner[e]
             m == StartOwner(l, e, observed) IN
         /\ Started(l, m) /\ LifeOK(m)
         /\ m.active = (IF l.attempts[a].revoked \/ l.attempts[a].state = "quiescent"
                        THEN l.active ELSE a)
<1> DEFINE a == l.owner[e]
           b == Bind(l, a, e)
           m == StartBound(b, a, e, observed)
<1>1. StartOwner(l, e, observed) = m
  BY DEF StartOwner, StartAttempt
<1>2. Started(l, b) /\ LifeOK(b) /\ b.active = l.active
  BY BindOwner
<1>3. b.owner[e] = a /\ a \in Attempts
  BY <1>2, LifeFields DEF Started, LifeOK
<1>4. Calm(l.attempts[a], b.attempts[a])
  BY <1>2, <1>3 DEF Started
<1> HIDE DEF b
<1>5. /\ Started(b, m) /\ LifeOK(m)
      /\ m.active = (IF b.attempts[a].revoked \/ b.attempts[a].state = "quiescent"
                     THEN b.active ELSE a)
  BY <1>2, <1>3, StartBoundKeeps
<1> HIDE DEF m
<1>6. Started(l, m)
  BY <1>2, <1>5, StartedIsTransitive
<1> QED BY <1>1, <1>2, <1>4, <1>5, <1>6 DEF Calm, Same

-----------------------------------------------------------------------------
(* Induction, and the fold of try_deferred_starts. *)

\* A set of natural numbers that is not empty has a least element.
LEMMA LeastNat ==
  ASSUME NEW T \in SUBSET Nat, T # {}
  PROVE  \E m \in T : \A k \in T : m <= k
<1> DEFINE R == OpToRel(<, Nat)
<1>1. IsWellFoundedOn(R, Nat)
  BY NatLessThanWellFounded
<1>2. \A i, j \in Nat : i < j => <<i, j>> \in R
  BY DEF OpToRel
<1> HIDE DEF R
<1>3. PICK m \in T : \A k \in T : ~(<<k, m>> \in R)
  BY <1>1, WFMin
<1>4. ASSUME NEW k \in T PROVE m <= k
  <2>1. ~(k < m)
    BY <1>2, <1>3
  <2> QED BY <2>1
<1> QED
  BY <1>4

\* Induction up to n: a set that contains 0 and the successor of each of its elements.
LEMMA UpTo ==
  ASSUME NEW n \in Nat, NEW G, 0 \in G, \A k \in 0 .. n - 1 : k \in G => k + 1 \in G
  PROVE  0 .. n \subseteq G
<1> DEFINE T == {k \in 0..n : k \notin G}
<1>1. SUFFICES ASSUME T # {} PROVE FALSE
  OBVIOUS
<1>2. T \in SUBSET Nat
  OBVIOUS
<1>3. PICK m \in T : \A k \in T : m <= k
  <2> HIDE DEF T
  <2> QED BY <1>1, <1>2, LeastNat
<1>4. m - 1 \in 0 .. n - 1 /\ m - 1 \notin T
  BY <1>3
<1>5. m - 1 \in G
  BY <1>4
<1> QED
  BY <1>3, <1>4, <1>5

LEMMA MaxOfRange ==
  ASSUME NEW k \in Nat \ {0}
  PROVE  Max(1 .. k) = k /\ (1 .. k) \ {k} = 1 .. k - 1 /\ 1 .. k # {}
<1>1. k \in 1 .. k /\ \A y \in 1 .. k : k >= y
  OBVIOUS
<1>2. Max(1 .. k) \in 1 .. k /\ \A y \in 1 .. k : Max(1 .. k) >= y
  BY <1>1 DEF Max
<1>3. Max(1 .. k) >= k
  BY <1>1, <1>2
<1> QED BY <1>1, <1>2, <1>3

\* The largest element of a set of numbers up to k.
LEMMA MaxOfSome ==
  ASSUME NEW n \in Nat, NEW s \in SUBSET (1 .. n), s # {}
  PROVE  Max(s) \in s /\ \A y \in s : y <= Max(s)
<1> DEFINE T == {k \in Nat : \E y \in s : k = n - y}
<1>0. \A y \in s : y \in 1 .. n /\ y \in Int /\ n - y \in Nat
  OBVIOUS
<1>1. T \in SUBSET Nat /\ T # {}
  BY <1>0
<1>2. PICK m \in T : \A k \in T : m <= k
  <2> HIDE DEF T
  <2> QED BY <1>1, LeastNat
<1>3. PICK x \in s : m = n - x
  BY <1>2
<1>4. ASSUME NEW y \in s PROVE x >= y
  <2>1. n - x <= n - y
    BY <1>0, <1>2, <1>3
  <2> QED BY <1>0, <2>1
<1>5. Max(s) \in s /\ \A y \in s : Max(s) >= y
  BY <1>4 DEF Max
<1> QED BY <1>0, <1>5

NoStarts == << >>
WithDeferred(l, q) == [l EXCEPT !.deferred = q]

\* The recursive function of the fold is what its definition says.
Folds(g, l, S) ==
  g = [s \in S |-> IF s = {} THEN WithDeferred(l, NoStarts)
                   ELSE StartOrKeep(g[s \ {Max(s)}], l.deferred[Max(s)])]

LEMMA FoldExists ==
  ASSUME NEW l, NEW n \in Nat
  PROVE  \E g : Folds(g, l, SUBSET (1 .. n))
<1> DEFINE Small(k) == SUBSET (1 .. k)
           G == {k \in Nat : \E g : Folds(g, l, Small(k))}
<1>1. 0 \in G
  <2>1. Small(0) = {{}}
    OBVIOUS
  <2>2. Folds([s \in Small(0) |-> WithDeferred(l, NoStarts)], l, Small(0))
    BY <2>1 DEF Folds
  <2> QED BY <2>2
<1>2. ASSUME NEW k \in 0 .. n - 1, k \in G PROVE k + 1 \in G
  <2>0. k \in Nat /\ k + 1 \in Nat
    OBVIOUS
  <2>1. PICK g : Folds(g, l, Small(k))
    BY <1>2
  <2> DEFINE h == [s \in Small(k + 1) |->
                     IF s = {} THEN WithDeferred(l, NoStarts)
                     ELSE StartOrKeep(g[s \ {Max(s)}], l.deferred[Max(s)])]
  <2>2. \A s \in Small(k + 1) : s # {} => s \ {Max(s)} \in Small(k)
    <3> SUFFICES ASSUME NEW s \in Small(k + 1), s # {} PROVE s \ {Max(s)} \in Small(k)
      OBVIOUS
    <3>1. Max(s) \in s /\ \A y \in s : y <= Max(s)
      BY <2>0, MaxOfSome
    <3>2. ASSUME NEW y \in s, y # Max(s) PROVE y \in 1 .. k
      <4>1. y \in 1 .. k + 1 /\ Max(s) \in 1 .. k + 1 /\ y <= Max(s)
        BY <3>1
      <4> QED BY <2>0, <3>2, <4>1
    <3> QED BY <3>2
  <2>3. Small(k) \subseteq Small(k + 1)
    BY <2>0
  <2>4. \A s \in Small(k) : h[s] = g[s]
    <3> HIDE DEF Small
    <3> QED BY <2>1, <2>3 DEF Folds
  <2>5. Folds(h, l, Small(k + 1))
    <3> HIDE DEF Small
    <3> QED BY <2>2, <2>4 DEF Folds
  <2> HIDE DEF h
  <2> QED BY <2>0, <2>5
<1>3. 0 .. n \subseteq G
  <2> HIDE DEF G
  <2> QED BY <1>1, <1>2, UpTo
<1> QED BY <1>3

\* The deferred starts are tried one after the other.
TriedBy(h, l) ==
  /\ h[0] = WithDeferred(l, NoStarts)
  /\ \A k \in 1 .. Len(l.deferred) : h[k] = StartOrKeep(h[k - 1], l.deferred[k])
  /\ Tried(l) = h[Len(l.deferred)]

LEMMA TriedInOrder ==
  ASSUME NEW l \in Lives
  PROVE  \E h : TriedBy(h, l)
<1> DEFINE n == Len(l.deferred)
           P(g) == g = [s \in SUBSET (DOMAIN l.deferred) |->
                          IF s = {} THEN WithDeferred(l, NoStarts)
                          ELSE StartOrKeep(g[s \ {Max(s)}], l.deferred[Max(s)])]
<1>1. n \in Nat /\ DOMAIN l.deferred = 1 .. n
  BY LifeFields
<1>2. \E g : P(g)
  <2>1. \A g : P(g) <=> Folds(g, l, SUBSET (1 .. n))
    BY <1>1 DEF Folds
  <2> HIDE DEF P
  <2> QED BY <1>1, <2>1, FoldExists
<1>3. Tried(l) = (CHOOSE g : P(g))[DOMAIN l.deferred]
  BY DEF Tried, FoldLeft, MapThenFoldSet, WithDeferred, NoStarts
<1>4. P(CHOOSE g : P(g))
  <2> HIDE DEF P
  <2> QED BY <1>2
<1> DEFINE g == CHOOSE g : P(g)
           h == [k \in 0 .. n |-> g[1 .. k]]
<1>5. Folds(g, l, SUBSET (1 .. n))
  BY <1>1, <1>4 DEF Folds
<1> HIDE DEF g, P
<1>6. h[0] = WithDeferred(l, NoStarts)
  <2>1. 1 .. 0 = {} /\ {} \in SUBSET (1 .. n) /\ 0 \in 0 .. n
    BY <1>1
  <2> QED BY <1>5, <2>1 DEF Folds
<1>7. ASSUME NEW k \in 1 .. n PROVE h[k] = StartOrKeep(h[k - 1], l.deferred[k])
  <2>1. /\ k \in Nat \ {0} /\ 1 .. k \in SUBSET (1 .. n) /\ k \in 0 .. n /\ k - 1 \in 0 .. n
    BY <1>1
  <2>2. Max(1 .. k) = k /\ (1 .. k) \ {k} = 1 .. k - 1 /\ 1 .. k # {}
    BY <2>1, MaxOfRange
  <2> QED BY <1>5, <2>1, <2>2 DEF Folds
<1>8. Tried(l) = h[n]
  BY <1>1, <1>3 DEF g
<1> HIDE DEF h
<1>9. TriedBy(h, l)
  BY <1>6, <1>7, <1>8 DEF TriedBy
<1> QED BY <1>9

\* The invariants read none of the other fields.
LEMMA SameLife ==
  ASSUME NEW l, LifeOK(l), NEW m \in Lives, m.attempts = l.attempts, m.owner = l.owner,
         m.active = l.active, m.ended = l.ended \/ ~m.ended, m.next = l.next
  PROVE  LifeOK(m)
<1>1. AttemptsOK(m) /\ LinksOK(m) /\ OwnersOK(m)
  BY DEF LifeOK, AttemptsOK, LinksOK, OwnersOK
<1>2. ActiveOK(m)
  BY DEF LifeOK, ActiveOK
<1> QED BY <1>1, <1>2 DEF LifeOK

\* Started, whatever becomes of the deferred starts.
Ran(l, m) ==
  /\ m \in Lives /\ m.owner = l.owner /\ m.required = l.required
  /\ m.troubled = l.troubled /\ m.tombs = l.tombs /\ m.next = l.next /\ m.due = l.due
  /\ \A b \in Attempts : Calm(l.attempts[b], m.attempts[b]) /\ AttemptOK(m.attempts[b])

\* Starting the owner of e again would not move the transport.
Explained(l, e) ==
  l.owner[e] # None => \/ l.owner[e] = l.active \/ l.attempts[l.owner[e]].revoked
                       \/ l.attempts[l.owner[e]].state = "quiescent"
DeferredOK(l) == \A i \in 1 .. Len(l.deferred) : Explained(l, l.deferred[i])

Distinct(q) == \A i, j \in 1 .. Len(q) : q[i] = q[j] => i = j

\* What is left of the deferred starts q.
LeftOf(d, q, owner) ==
  /\ \A i \in 1 .. Len(d) : (\E j \in 1 .. Len(q) : d[i] = q[j]) /\ owner[d[i]] = None
  /\ Distinct(q) => Distinct(d)

LEMMA DeferredReplaced ==
  ASSUME NEW l, LifeOK(l), NEW q \in Seq(Entries)
  PROVE  LET m == WithDeferred(l, q) IN
         Ran(l, m) /\ LifeOK(m) /\ m.active = l.active /\ m.deferred = q
         /\ m.attempts = l.attempts
<1> DEFINE m == WithDeferred(l, q)
<1>1. l \in Lives /\ AttemptsOK(l)
  BY DEF LifeOK
<1>2. /\ m \in Lives /\ m.deferred = q /\ m.attempts = l.attempts /\ m.owner = l.owner
      /\ m.active = l.active /\ m.ended = l.ended /\ m.required = l.required
      /\ m.troubled = l.troubled /\ m.tombs = l.tombs /\ m.next = l.next /\ m.due = l.due
  BY <1>1 DEF Lives, WithDeferred
<1> HIDE DEF m
<1>3. LifeOK(m)
  BY <1>2, SameLife
<1>4. Ran(l, m)
  BY <1>1, <1>2, CalmIsReflexive DEF Ran, AttemptsOK
<1> QED BY <1>2, <1>3, <1>4 DEF m

LEMMA RanIsTransitive ==
  ASSUME NEW l, NEW m, NEW n, Ran(l, m), Ran(m, n)
  PROVE  Ran(l, n)
<1>1. \A b \in Attempts : Calm(l.attempts[b], n.attempts[b])
  BY CalmIsTransitive DEF Ran
<1> QED BY <1>1 DEF Ran

LEMMA ExplainedStays ==
  ASSUME NEW l \in Lives, NEW m, Ran(l, m), m.active = l.active, NEW e \in Entries, Explained(l, e)
  PROVE  Explained(m, e)
<1>1. l.owner[e] # None => l.owner[e] \in Attempts
  BY LifeFields
<1>2. l.owner[e] # None => Calm(l.attempts[l.owner[e]], m.attempts[l.owner[e]])
  BY <1>1 DEF Ran
<1> QED BY <1>2 DEF Ran, Explained, Calm, Same

\* Trying the deferred starts moves nothing when each of them is explained.
LEMMA TriedKeeps ==
  ASSUME NEW l, LifeOK(l), DeferredOK(l)
  PROVE  LET m == Tried(l) IN
         /\ Ran(l, m) /\ LifeOK(m) /\ m.active = l.active
         /\ LeftOf(m.deferred, l.deferred, l.owner)
<1> DEFINE q == l.deferred
           n == Len(q)
<1>1. l \in Lives /\ q \in Seq(Entries) /\ n \in Nat
  BY LifeFields DEF LifeOK
<1>2. PICK h : TriedBy(h, l)
  BY <1>1, TriedInOrder
<1>6. /\ h[0] = WithDeferred(l, NoStarts) /\ Tried(l) = h[n]
      /\ \A k \in 1 .. n : h[k] = StartOrKeep(h[k - 1], q[k])
  BY <1>2 DEF TriedBy
<1> DEFINE P(m, k) == /\ Ran(l, m) /\ LifeOK(m) /\ m.active = l.active
                      /\ \A i \in 1 .. Len(m.deferred) : /\ l.owner[m.deferred[i]] = None
                                                         /\ \E j \in 1 .. k : m.deferred[i] = q[j]
                      /\ Distinct(q) => Distinct(m.deferred)
           G == {k \in 0 .. n : P(h[k], k)}
<1>3. 0 \in G
  <2>1. NoStarts \in Seq(Entries) /\ Len(NoStarts) = 0 /\ 0 \in 0 .. n
    BY <1>1 DEF NoStarts
  <2>2. LET m == h[0] IN Ran(l, m) /\ LifeOK(m) /\ m.active = l.active /\ m.deferred = NoStarts
    <3> DEFINE m == WithDeferred(l, NoStarts)
    <3>1. Ran(l, m) /\ LifeOK(m) /\ m.active = l.active /\ m.deferred = NoStarts
      BY <2>1, DeferredReplaced
    <3>2. h[0] = m
      BY <1>6
    <3> HIDE DEF m
    <3> QED BY <3>1, <3>2
  <2>3. P(h[0], 0)
    BY <2>1, <2>2 DEF Distinct
  <2> HIDE DEF P
  <2> QED BY <2>1, <2>3
<1>4. ASSUME NEW k \in 0 .. n - 1, k \in G PROVE k + 1 \in G
  <2> DEFINE m == h[k]
             e == q[k + 1]
             d == m.deferred
             w == h[k + 1]
  <2>1. /\ k \in Nat /\ k + 1 \in 1 .. n /\ k + 1 \in 0 .. n /\ (k + 1) - 1 = k
        /\ e \in Entries /\ P(m, k)
    BY <1>1, <1>4
  <2>2. w = StartOrKeep(m, e)
    BY <1>6, <2>1
  <2>3. /\ Ran(l, m) /\ LifeOK(m) /\ m.active = l.active /\ m.owner = l.owner /\ m \in Lives
        /\ d \in Seq(Entries) /\ Len(d) \in Nat
    BY <2>1, LifeFields DEF Ran
  <2>4. CASE l.owner[e] = None
    <3> DEFINE c == Append(d, e)
    <3>1. w = WithDeferred(m, c)
      BY <2>2, <2>3, <2>4 DEF StartOrKeep, WithDeferred
    <3>2. c \in Seq(Entries) /\ Len(c) = Len(d) + 1 /\ c[Len(d) + 1] = e
            /\ \A i \in 1 .. Len(d) : c[i] = d[i]
      BY <2>1, <2>3
    <3>3. Ran(m, w) /\ LifeOK(w) /\ w.active = m.active /\ w.deferred = c
      <4> HIDE DEF c, w, d, e, m
      <4> QED BY <2>3, <3>1, <3>2, DeferredReplaced
    <3> HIDE DEF c, w, d, e, m
    <3>4. Ran(l, w) /\ w.active = l.active
      BY <2>3, <3>3, RanIsTransitive
    <3>5. ASSUME NEW i \in 1 .. Len(c)
          PROVE  l.owner[c[i]] = None /\ \E j \in 1 .. k + 1 : c[i] = q[j]
      <4>1. CASE i = Len(d) + 1
        BY <2>1, <2>4, <3>2, <4>1 DEF e
      <4>2. CASE i # Len(d) + 1
        <5>1. i \in 1 .. Len(d) /\ c[i] = d[i]
          BY <2>3, <3>2, <4>2
        <5>2. PICK j \in 1 .. k : d[i] = q[j]
          BY <2>1, <5>1 DEF d, m
        <5>3. l.owner[d[i]] = None
          BY <2>1, <5>1 DEF d, m
        <5> QED BY <2>1, <5>1, <5>2, <5>3
      <4> QED BY <4>1, <4>2
    <3>6. ASSUME Distinct(q) PROVE Distinct(c)
      <4>1. Distinct(d)
        BY <2>1, <3>6 DEF d, m
      <4>2. ASSUME NEW i \in 1 .. Len(d) PROVE d[i] # e
        <5>1. PICK j \in 1 .. k : d[i] = q[j]
          BY <2>1 DEF d, m
        <5>2. j \in 1 .. n /\ j # k + 1
          BY <1>1, <2>1
        <5> QED BY <2>1, <3>6, <5>1, <5>2 DEF Distinct, e
      <4>3. ASSUME NEW i \in 1 .. Len(c), NEW j \in 1 .. Len(c), c[i] = c[j] PROVE i = j
        <5>1. i \in 1 .. Len(d) \/ i = Len(d) + 1
          BY <2>3, <3>2
        <5>2. j \in 1 .. Len(d) \/ j = Len(d) + 1
          BY <2>3, <3>2
        <5> QED BY <3>2, <4>1, <4>2, <4>3, <5>1, <5>2 DEF Distinct
      <4> QED BY <4>3 DEF Distinct
    <3>7. P(w, k + 1)
      BY <3>3, <3>4, <3>5, <3>6
    <3> HIDE DEF P
    <3> QED BY <2>1, <3>7 DEF w
  <2>5. CASE l.owner[e] # None
    <3>1. w = StartOwner(m, e, TRUE)
      BY <2>2, <2>3, <2>5 DEF StartOrKeep
    <3>2. Explained(m, e)
      BY <1>1, <2>1, <2>3, ExplainedStays DEF DeferredOK
    <3>3. /\ Started(m, w) /\ LifeOK(w)
          /\ w.active = (IF m.attempts[m.owner[e]].revoked
                            \/ m.attempts[m.owner[e]].state = "quiescent"
                         THEN m.active ELSE m.owner[e])
      <4> HIDE DEF w, e, m
      <4>1. m.owner[e] # None
        BY <2>3, <2>5
      <4> QED BY <2>1, <2>3, <3>1, <4>1, StartOwnerKeeps
    <3> HIDE DEF w, e, m
    <3>4. w.active = m.active /\ Ran(m, w) /\ w.deferred = d
      BY <2>3, <2>5, <3>2, <3>3 DEF Explained, Started, Ran
    <3>5. Ran(l, w)
      BY <2>3, <3>4, RanIsTransitive
    <3>6. ASSUME NEW i \in 1 .. Len(d)
          PROVE  l.owner[d[i]] = None /\ \E j \in 1 .. k + 1 : d[i] = q[j]
      <4>1. PICK j \in 1 .. k : d[i] = q[j]
        BY <2>1 DEF m
      <4>2. j \in 1 .. k + 1
        BY <2>1
      <4>3. l.owner[d[i]] = None
        BY <2>1 DEF m
      <4> QED BY <4>1, <4>2, <4>3
    <3>7. P(w, k + 1)
      BY <2>1, <2>3, <3>3, <3>4, <3>5, <3>6 DEF m
    <3> HIDE DEF P
    <3> QED BY <2>1, <3>7 DEF w
  <2> QED BY <2>4, <2>5
<1>5. n \in G
  <2>1. 0 .. n \subseteq G
    <3> HIDE DEF G
    <3> QED BY <1>1, <1>3, <1>4, UpTo
  <2>2. n \in 0 .. n
    BY <1>1
  <2> HIDE DEF G
  <2> QED BY <2>1, <2>2
<1> QED BY <1>6, <1>5 DEF LeftOf

\* What trying the deferred starts leaves alone.
Tidy(l, m) ==
  /\ LifeOK(m) /\ m.owner = l.owner /\ m.active = l.active /\ m.troubled = l.troubled
  /\ m.tombs = l.tombs /\ m.next = l.next
  /\ \A b \in Attempts : Calm(l.attempts[b], m.attempts[b])

LEMMA ScheduleFields ==
  ASSUME NEW l \in Lives
  PROVE  LET m == Schedule(l) IN
         /\ m \in Lives /\ m.required = TRUE /\ m.due = TRUE
         /\ m.attempts = l.attempts /\ m.owner = l.owner /\ m.active = l.active
         /\ m.ended = l.ended /\ m.deferred = l.deferred /\ m.troubled = l.troubled
         /\ m.tombs = l.tombs /\ m.next = l.next
<1> DEFINE m == Schedule(l)
<1>1. m = [l EXCEPT !.required = TRUE, !.due = TRUE]
  BY DEF Schedule
<1> HIDE DEF m
<1>2. m \in Lives
  BY <1>1 DEF Lives
<1>3. /\ m.required = TRUE /\ m.due = TRUE
      /\ m.attempts = l.attempts /\ m.owner = l.owner /\ m.active = l.active
      /\ m.ended = l.ended /\ m.deferred = l.deferred /\ m.troubled = l.troubled
      /\ m.tombs = l.tombs /\ m.next = l.next
  BY <1>1 DEF Lives
<1> QED BY <1>2, <1>3 DEF m

LEMMA ScheduleKeeps ==
  ASSUME NEW l, LifeOK(l)
  PROVE  LifeOK(Schedule(l))
<1>1. l \in Lives
  BY DEF LifeOK
<1> DEFINE m == Schedule(l)
<1>2. /\ m \in Lives /\ m.attempts = l.attempts /\ m.owner = l.owner /\ m.active = l.active
      /\ m.ended = l.ended /\ m.next = l.next
  BY <1>1, ScheduleFields
<1> HIDE DEF m
<1>3. LifeOK(m)
  BY <1>2, SameLife
<1> QED BY <1>3 DEF m

LEMMA TryDeferredKeeps ==
  ASSUME NEW l, LifeOK(l), DeferredOK(l)
  PROVE  LET m == TryDeferred(l) IN
         /\ Tidy(l, m) /\ LeftOf(m.deferred, l.deferred, l.owner) /\ DeferredOK(m)
         /\ (m.required = l.required /\ m.due = l.due) \/ (m.required /\ m.due)
<1> DEFINE t == Tried(l)
           m == TryDeferred(l)
<1>1. Ran(l, t) /\ LifeOK(t) /\ t.active = l.active /\ LeftOf(t.deferred, l.deferred, l.owner)
  BY TriedKeeps
<1>2. m = t \/ m = Schedule(t)
  BY DEF TryDeferred
<1> HIDE DEF t, m
<1>3. t \in Lives /\ LifeOK(Schedule(t))
  BY <1>1, ScheduleKeeps DEF Ran
<1>4. Tidy(l, t)
  BY <1>1 DEF Ran, Tidy
<1>5. LET s == Schedule(t) IN
      Tidy(l, s) /\ s.required /\ s.due /\ s.deferred = t.deferred
  BY <1>3, <1>4, ScheduleFields DEF Tidy
<1>6. Tidy(l, m) /\ m.deferred = t.deferred
      /\ ((m.required = l.required /\ m.due = l.due) \/ (m.required /\ m.due))
  BY <1>1, <1>2, <1>4, <1>5 DEF Ran
<1>7. DeferredOK(m)
  BY <1>1, <1>6 DEF DeferredOK, LeftOf, Tidy, Explained
<1> QED BY <1>1, <1>6, <1>7 DEF m

\* LoadAttemptAccepted, before the deferred starts are tried: the predecessor is
\* superseded.
Base(l, a) ==
  LET x == [l EXCEPT !.attempts[a] = Taken(@)]
      p == l.attempts[a].replaced
      y == IF p = None THEN x ELSE Supersede(x, p, a)
  IN [y EXCEPT !.ended = FALSE]

\* What becomes of the attempts other than a when a is accepted or observed.
Yields(x, y) ==
  /\ y.entry = x.entry /\ y.loaded = x.loaded /\ (x.revoked => y.revoked)
  /\ (y.command = "completed" <=> x.command = "completed")
  /\ (y.state = "none" <=> x.state = "none") /\ (y.state = "terminal" <=> x.state = "terminal")
  /\ (y.state = "submitting" => x.state = "submitting")
  /\ (y.state = "accepted" => x.state = "accepted")
  /\ (y.state = "starting" => x.state = "starting") /\ (y.state = "active" => x.state = "active")
  /\ (x.state = "quiescent" => y.state = "quiescent" \/ y.revoked)
  /\ (y.state = "quiescent" => x.state = "quiescent")
  /\ (y.revoked /\ ~x.revoked => y.state = "superseded")

LEMMA YieldsIsReflexive ==
  ASSUME NEW x
  PROVE  Yields(x, x)
BY Zenon DEF Yields

LEMMA SupersedeYields ==
  ASSUME NEW l \in Lives, AttemptsOK(l), NEW a \in Attempts, LinksBut(l, a),
         l.attempts[a].state # "none", l.attempts[a].replaced \in Attempts \cup {None},
         \/ LinksOK(l)
         \/ /\ l.attempts[a].replaced # None
            /\ l.attempts[l.attempts[a].replaced].state \notin {"none", "terminal"}
  PROVE  LET p == l.attempts[a].replaced
             m == IF p = None THEN l ELSE Supersede(l, p, a) IN
         /\ m \in Lives /\ AttemptsOK(m) /\ LinksOK(m)
         /\ m.attempts[a].state = l.attempts[a].state
         /\ m.attempts[a].revoked = l.attempts[a].revoked
         /\ \A b \in Attempts : Yields(l.attempts[b], m.attempts[b])
         /\ \A b \in Attempts \ {p} : m.attempts[b].state = l.attempts[b].state
         /\ p # None /\ l.attempts[p].state \notin {"none", "terminal"} =>
               m.attempts[p].revoked /\ m.attempts[p].state = "superseded"
         /\ m.owner = l.owner /\ m.active = l.active /\ m.ended = l.ended
         /\ m.deferred = l.deferred /\ m.required = l.required /\ m.troubled = l.troubled
         /\ m.tombs = l.tombs /\ m.next = l.next /\ m.due = l.due
<1> DEFINE x == l.attempts
           p == x[a].replaced
           m == IF p = None THEN l ELSE Supersede(l, p, a)
           y == m.attempts
<1>1. CASE p # None /\ x[p].state \notin {"none", "terminal"}
  <2>1. p \in Attempts /\ m = Supersede(l, p, a)
    BY <1>1
  <2> HIDE DEF m
  <2>2. /\ m \in Lives /\ AttemptsOK(m) /\ LinksOK(m) /\ p # a
        /\ y[p].state = "superseded" /\ y[p].revoked
        /\ \A b \in Attempts \ {p} : y[b].state = x[b].state /\ y[b].revoked = x[b].revoked
        /\ \A b \in Attempts : /\ y[b].entry = x[b].entry /\ y[b].loaded = x[b].loaded
                               /\ (y[b].command = "completed" <=> x[b].command = "completed")
        /\ m.owner = l.owner /\ m.active = l.active /\ m.ended = l.ended
        /\ m.deferred = l.deferred /\ m.required = l.required /\ m.troubled = l.troubled
        /\ m.tombs = l.tombs /\ m.next = l.next /\ m.due = l.due
    <3> DEFINE k == Supersede(l, p, a)
               z == k.attempts
    <3>1. /\ k \in Lives /\ AttemptsOK(k) /\ LinksOK(k) /\ p # a
          /\ z[p].state = "superseded" /\ z[p].revoked
          /\ \A b \in Attempts \ {p} : z[b].state = x[b].state /\ z[b].revoked = x[b].revoked
          /\ \A b \in Attempts : /\ z[b].entry = x[b].entry /\ z[b].loaded = x[b].loaded
                                 /\ (z[b].command = "completed" <=> x[b].command = "completed")
          /\ k.owner = l.owner /\ k.active = l.active /\ k.ended = l.ended
          /\ k.deferred = l.deferred /\ k.required = l.required /\ k.troubled = l.troubled
          /\ k.tombs = l.tombs /\ k.next = l.next /\ k.due = l.due
      <4> HIDE DEF p
      <4>1. x[a].replaced = p
        BY DEF p
      <4>2. p \in Attempts /\ x[p].state \notin {"none", "terminal"}
        BY <1>1, <2>1
      <4> QED BY <4>1, <4>2, SupersedeFields, SMTT(60)
    <3>2. m = k /\ y = z
      BY <2>1
    <3> HIDE DEF k, z, y, x, p
    <3> QED BY <3>1, <3>2, ZenonT(40)
  <2> HIDE DEF x, y
  <2>3. ASSUME NEW b \in Attempts \ {p} PROVE Yields(x[b], y[b])
    <3>1. /\ y[b].state = x[b].state /\ y[b].revoked = x[b].revoked
          /\ y[b].entry = x[b].entry /\ y[b].loaded = x[b].loaded
          /\ (y[b].command = "completed" <=> x[b].command = "completed")
      BY <2>2
    <3> QED BY <3>1 DEF Yields
  <2>4. Yields(x[p], y[p])
    <3>1. /\ y[p].entry = x[p].entry /\ y[p].loaded = x[p].loaded
          /\ (y[p].command = "completed" <=> x[p].command = "completed")
      BY <2>1, <2>2
    <3> QED BY <1>1, <2>2, <3>1 DEF Yields
  <2>5. \A b \in Attempts : Yields(x[b], y[b])
    BY <2>3, <2>4
  <2> USE DEF x, y
  <2> QED BY <2>2, <2>5 DEF m
<1>2. CASE p = None \/ x[p].state \in {"none", "terminal"}
  <2>1. m = l
    BY <1>2 DEF Supersede, Live, Present
  <2>2. LinksOK(l)
    BY <1>2
  <2> QED BY <1>2, <2>1, <2>2, YieldsIsReflexive
<1> QED BY <1>1, <1>2, ZenonT(40)

\* What is left of that when starts are tried as well.
Follows(x, y) ==
  /\ y.entry = x.entry /\ y.loaded = x.loaded /\ (x.revoked => y.revoked)
  /\ (y.command = "completed" <=> x.command = "completed")
  /\ (y.state = "none" <=> x.state = "none") /\ (y.state = "terminal" <=> x.state = "terminal")
  /\ (y.state = "submitting" => x.state = "submitting")
  /\ (y.state = "accepted" => x.state = "accepted")
  /\ (y.state = "quiescent" => x.state = "quiescent")

\* What a step that accepts or observes a leaves alone.
Yielded(l, m, a) ==
  /\ \A b \in Attempts \ {a} : Follows(l.attempts[b], m.attempts[b])
  /\ m.troubled = l.troubled /\ m.tombs = l.tombs

LEMMA BaseKeeps ==
  ASSUME NEW l, LifeOK(l), DeferredOK(l), NEW a \in Attempts, l.attempts[a].state = "submitting"
  PROVE  LET m == Base(l, a) IN
         /\ LifeOK(m) /\ DeferredOK(m) /\ Yielded(l, m, a)
         /\ m.attempts[a].state = "accepted" /\ m.attempts[a].entry = None
         /\ m.attempts[a].command # "completed" /\ ~m.attempts[a].revoked
         /\ m.owner = l.owner /\ m.active = l.active /\ m.deferred = l.deferred
         /\ m.required = l.required /\ m.next = l.next /\ m.due = l.due
<1> DEFINE v == Taken(l.attempts[a])
           x == [l EXCEPT !.attempts[a] = v]
           p == l.attempts[a].replaced
           y == IF p = None THEN x ELSE Supersede(x, p, a)
           m == Base(l, a)
<1>1. /\ l \in Lives /\ AttemptsOK(l) /\ LinksOK(l) /\ OwnersOK(l) /\ ActiveOK(l)
      /\ l.attempts \in [Attempts -> LoadAttempt] /\ l.owner \in [Entries -> Attempts \cup {None}]
      /\ l.active \in Attempts \cup {None} /\ l.deferred \in Seq(Entries)
  BY LifeFields DEF LifeOK
<1>2. l.attempts[a] \in LoadAttempt /\ AttemptOK(l.attempts[a])
  BY <1>1 DEF AttemptsOK
<1>3. m = [y EXCEPT !.ended = FALSE]
  BY DEF Base
<1>4. /\ v \in LoadAttempt /\ AttemptOK(v) /\ v.state = "accepted" /\ v.command = "accepted"
      /\ v.entry = None /\ v.replaced = p /\ v.successor = l.attempts[a].successor /\ ~v.revoked
      /\ v.loaded = l.attempts[a].loaded
  BY <1>2, TakenRecord, TakenOK DEF AttemptOK
<1> HIDE DEF v, m
<1>5. /\ x \in Lives
      /\ x.attempts[a] = v /\ \A b \in Attempts \ {a} : x.attempts[b] = l.attempts[b]
      /\ x.owner = l.owner /\ x.active = l.active
      /\ x.ended = l.ended /\ x.deferred = l.deferred /\ x.required = l.required
      /\ x.troubled = l.troubled /\ x.tombs = l.tombs /\ x.next = l.next /\ x.due = l.due
  BY <1>1, <1>4, AttemptReplaced
<1> HIDE DEF x
<1>6. AttemptsOK(x)
  BY <1>1, <1>4, <1>5 DEF AttemptsOK
<1>7. LinksOK(x)
  <2>1. \A b \in Attempts : /\ x.attempts[b].replaced = l.attempts[b].replaced
                            /\ x.attempts[b].successor = l.attempts[b].successor
                            /\ (x.attempts[b].state = "none" <=> l.attempts[b].state = "none")
    BY <1>4, <1>5
  <2> QED BY <1>1, <1>5, <2>1, LinksStay
<1>8. LinksBut(x, a)
  BY <1>7 DEF LinksOK, LinksBut
<1>9. x.attempts[a].replaced = p /\ p \in Attempts \cup {None} /\ x.attempts[a].state # "none"
  BY <1>2, <1>4, <1>5 DEF LoadAttempt
<1> HIDE DEF p
<1>10. /\ y \in Lives /\ AttemptsOK(y) /\ LinksOK(y)
       /\ y.attempts[a].state = v.state /\ y.attempts[a].revoked = v.revoked
       /\ \A b \in Attempts : Yields(x.attempts[b], y.attempts[b])
       /\ y.owner = l.owner /\ y.active = l.active /\ y.ended = l.ended
       /\ y.deferred = l.deferred /\ y.required = l.required /\ y.troubled = l.troubled
       /\ y.tombs = l.tombs /\ y.next = l.next /\ y.due = l.due
  BY <1>5, <1>6, <1>7, <1>8, <1>9, SupersedeYields
<1> HIDE DEF y
<1>11. /\ m \in Lives /\ m.attempts = y.attempts /\ m.owner = y.owner /\ m.active = y.active
       /\ m.ended = FALSE /\ m.deferred = y.deferred /\ m.required = y.required
       /\ m.troubled = y.troubled /\ m.tombs = y.tombs /\ m.next = y.next /\ m.due = y.due
  BY <1>3, <1>10 DEF Lives
<1>12. \A b \in Attempts \ {a} : Yields(l.attempts[b], m.attempts[b])
  BY <1>5, <1>10, <1>11
<1>13. /\ m.attempts[a].state = "accepted" /\ m.attempts[a].entry = None
       /\ m.attempts[a].command # "completed" /\ ~m.attempts[a].revoked
  BY <1>4, <1>5, <1>10, <1>11 DEF Yields
<1>14. AttemptsOK(m) /\ LinksOK(m)
  BY <1>10, <1>11 DEF AttemptsOK, LinksOK
<1>15. l.attempts[a].entry = None
  BY <1>2 DEF AttemptOK
<1>16. \A e \in Entries : l.owner[e] # None => l.owner[e] \in Attempts \ {a}
  BY <1>1, <1>15, Values DEF OwnersOK
<1>17. OwnersOK(m)
  <2>1. ASSUME NEW e \in Entries, m.owner[e] # None
        PROVE  m.attempts[m.owner[e]].state \notin {"none", "terminal"}
               /\ m.attempts[m.owner[e]].entry = e
    BY <1>1, <1>10, <1>11, <1>12, <1>16, <2>1 DEF OwnersOK, Yields
  <2>2. ASSUME NEW b \in Attempts, m.attempts[b].state \notin {"none", "terminal"},
               m.attempts[b].entry # None
        PROVE  m.owner[m.attempts[b].entry] = b
    BY <1>1, <1>10, <1>11, <1>12, <1>13, <2>2 DEF OwnersOK, Yields
  <2> QED BY <2>1, <2>2 DEF OwnersOK
<1>18. ActiveOK(m)
  <2>1. l.active # None => l.active \in Attempts \ {a}
    BY <1>1, <1>15 DEF ActiveOK
  <2>2. m.active # None => /\ m.attempts[m.active].state \notin {"none", "terminal", "quiescent"}
                           /\ m.attempts[m.active].entry # None
    BY <1>1, <1>10, <1>11, <1>12, <2>1 DEF ActiveOK, Yields
  <2>3. ASSUME NEW b \in Attempts, m.attempts[b].state \in {"starting", "active"}
        PROVE  m.active = b
    BY <1>1, <1>10, <1>11, <1>12, <1>13, <2>3 DEF ActiveOK, Yields
  <2> QED BY <1>11, <2>2, <2>3 DEF ActiveOK
<1>19. LifeOK(m)
  BY <1>11, <1>14, <1>17, <1>18 DEF LifeOK
<1>20. DeferredOK(m)
  <2> SUFFICES ASSUME NEW i \in 1 .. Len(m.deferred) PROVE Explained(m, m.deferred[i])
    BY DEF DeferredOK
  <2> DEFINE e == l.deferred[i]
  <2>1. e \in Entries /\ m.deferred[i] = e /\ Explained(l, e)
    BY <1>1, <1>10, <1>11 DEF DeferredOK
  <2>2. l.owner[e] # None => Yields(l.attempts[l.owner[e]], m.attempts[l.owner[e]])
    BY <1>12, <1>16, <2>1
  <2> HIDE DEF e
  <2> QED BY <1>10, <1>11, <2>1, <2>2 DEF Explained, Yields
<1>21. Yielded(l, m, a)
  BY <1>10, <1>11, <1>12 DEF Yielded, Yields, Follows
<1> QED BY <1>10, <1>11, <1>13, <1>19, <1>20, <1>21 DEF m

LEMMA AcceptedKeeps ==
  ASSUME NEW l, LifeOK(l), DeferredOK(l), NEW a \in Attempts, l.attempts[a].state = "submitting"
  PROVE  LET m == Accepted(l, a) IN
         /\ LifeOK(m) /\ DeferredOK(m) /\ Yielded(l, m, a)
         /\ m.attempts[a].state = "accepted" /\ m.attempts[a].entry = None
         /\ m.attempts[a].command # "completed" /\ ~m.attempts[a].revoked
         /\ m.owner = l.owner /\ m.active = l.active /\ m.next = l.next
         /\ LeftOf(m.deferred, l.deferred, l.owner) /\ m.required /\ m.due
<1> DEFINE b == Base(l, a)
           t == TryDeferred(b)
           m == Schedule(t)
<1>1. Accepted(l, a) = m
  BY DEF Accepted, Base
<1>2. /\ LifeOK(b) /\ DeferredOK(b) /\ Yielded(l, b, a)
      /\ b.attempts[a].state = "accepted" /\ b.attempts[a].entry = None
      /\ b.attempts[a].command # "completed" /\ ~b.attempts[a].revoked
      /\ b.owner = l.owner /\ b.active = l.active /\ b.deferred = l.deferred
      /\ b.next = l.next
  BY BaseKeeps
<1> HIDE DEF b
<1>3. Tidy(b, t) /\ LeftOf(t.deferred, b.deferred, b.owner) /\ DeferredOK(t)
  BY <1>2, TryDeferredKeeps
<1> HIDE DEF t
<1>4. t \in Lives /\ LifeOK(m)
  BY <1>3, ScheduleKeeps DEF Tidy, LifeOK
<1>5. /\ m.required = TRUE /\ m.due = TRUE
      /\ m.attempts = t.attempts /\ m.owner = t.owner /\ m.active = t.active
      /\ m.deferred = t.deferred /\ m.troubled = t.troubled
      /\ m.tombs = t.tombs /\ m.next = t.next
  BY <1>4, ScheduleFields
<1> HIDE DEF m
<1>6. \A c \in Attempts : Calm(b.attempts[c], m.attempts[c])
  BY <1>3, <1>5 DEF Tidy
<1>7. DeferredOK(m)
  BY <1>3, <1>5 DEF DeferredOK, Explained
<1>8. ASSUME NEW c \in Attempts \ {a} PROVE Follows(l.attempts[c], m.attempts[c])
  <2>1. Follows(l.attempts[c], b.attempts[c]) /\ Calm(b.attempts[c], m.attempts[c])
    BY <1>2, <1>6 DEF Yielded
  <2> QED BY <2>1 DEF Follows, Calm, Same
<1>9. Yielded(l, m, a)
  BY <1>2, <1>3, <1>5, <1>8 DEF Yielded, Tidy
<1>10. /\ m.attempts[a].state = "accepted" /\ m.attempts[a].entry = None
      /\ m.attempts[a].command # "completed" /\ ~m.attempts[a].revoked
  BY <1>2, <1>6 DEF Calm, Same
<1> QED BY <1>1, <1>2, <1>3, <1>4, <1>5, <1>7, <1>9, <1>10 DEF Tidy

-----------------------------------------------------------------------------
(* The other inputs of the reducer. *)

LEMMA LargestOne ==
  ASSUME NEW S \in SUBSET Attempts
  PROVE  /\ S # {} => Largest(S) \in S
         /\ S = {} => Largest(S) = None
<1>1. CASE S # {}
  <2>1. MaxAttempts \in Nat /\ S \in SUBSET (1 .. MaxAttempts)
    BY LoadAssumption DEF Attempts
  <2>2. Max(S) \in S /\ \A y \in S : y <= Max(S)
    BY <1>1, <2>1, MaxOfSome
  <2> QED BY <1>1, <2>2 DEF Largest
<1>2. CASE S = {}
  BY <1>2 DEF Largest
<1> QED BY <1>1, <1>2

\* A new attempt v, which claims p.
Added(l, v) == [l EXCEPT !.next = @ + 1, !.attempts[l.next] = v]

LEMMA AddedAttempt ==
  ASSUME NEW l, LifeOK(l), l.next \in Attempts, NEW v \in LoadAttempt, AttemptOK(v),
         v.state # "none", v.successor = None, v.replaced \in Attempts \cup {None},
         v.replaced # None => l.attempts[v.replaced].state # "none"
  PROVE  LET m == Added(l, v)
             a == l.next
             p == v.replaced IN
         /\ m \in Lives /\ AttemptsOK(m) /\ LinksBut(m, a) /\ l.attempts[a] = NoAttempt
         /\ p = None \/ l.attempts[p].successor = None => LinksOK(m)
         /\ m.attempts[a] = v /\ \A b \in Attempts \ {a} : m.attempts[b] = l.attempts[b]
         /\ m.owner = l.owner /\ m.active = l.active
         /\ m.ended = l.ended /\ m.deferred = l.deferred /\ m.required = l.required
         /\ m.troubled = l.troubled /\ m.tombs = l.tombs /\ m.next = l.next + 1 /\ m.due = l.due
<1> DEFINE a == l.next
           x == l.attempts
           p == v.replaced
           A == [x EXCEPT ![a] = v]
           m == Added(l, v)
           y == m.attempts
<1>1. /\ l \in Lives /\ AttemptsOK(l) /\ LinksOK(l)
      /\ x \in [Attempts -> LoadAttempt] /\ a \in Nat \ {0}
  BY LifeFields DEF LifeOK
<1>2. x[a].state = "none" /\ x[a] = NoAttempt
  BY <1>1 DEF LinksOK, AttemptsOK, AttemptOK
<1>3. p < a /\ p # a
  <2>1. p # None => p \in Nat /\ p < a
    BY <1>1 DEF LinksOK, Attempts
  <2> QED BY <1>1, <2>1 DEF None
<1>4. m = [l EXCEPT !.next = a + 1, !.attempts = A]
  BY DEF Added
<1> HIDE DEF m
<1>5. A \in [Attempts -> LoadAttempt] /\ A[a] = v /\ \A b \in Attempts \ {a} : A[b] = x[b]
  BY <1>1
<1> HIDE DEF A
<1>6. a + 1 \in Nat \ {0}
  BY <1>1
<1>7. /\ m \in Lives /\ y = A /\ m.owner = l.owner /\ m.active = l.active
      /\ m.ended = l.ended /\ m.deferred = l.deferred /\ m.required = l.required
      /\ m.troubled = l.troubled /\ m.tombs = l.tombs /\ m.next = a + 1 /\ m.due = l.due
  <2>1. m \in Lives
    BY <1>1, <1>4, <1>5, <1>6 DEF Lives
  <2> QED BY <1>1, <1>4, <2>1 DEF Lives
<1>8. AttemptsOK(m)
  BY <1>1, <1>5, <1>7 DEF AttemptsOK
<1>9. \A b \in Attempts : /\ x[b].successor \in Attempts \cup {None}
                          /\ x[b].replaced \in Attempts \cup {None} /\ b \in Nat
                          /\ x[b].replaced \in Nat
  <2>1. \A b \in Attempts : /\ x[b].successor \in Attempts \cup {None}
                            /\ x[b].replaced \in Attempts \cup {None}
    BY <1>1 DEF LoadAttempt
  <2> QED BY <2>1 DEF Attempts, None
<1>10. LinksBut(m, a)
  <2>1. \A b \in Attempts : b >= m.next => y[b].state = "none"
    <3> SUFFICES ASSUME NEW b \in Attempts, b >= m.next PROVE y[b].state = "none"
      OBVIOUS
    <3>1. b # a /\ b >= l.next
      BY <1>1, <1>7, <1>9
    <3> QED BY <1>1, <1>5, <1>7, <3>1 DEF LinksOK
  <2>2. ASSUME NEW b \in Attempts PROVE y[b].replaced < b /\ y[b].replaced < m.next
    <3>1. CASE b = a
      BY <1>1, <1>3, <1>5, <1>7, <3>1 DEF Attempts, None
    <3>2. CASE b # a
      <4>1. x[b].replaced < b /\ x[b].replaced < l.next
        BY <1>1 DEF LinksOK
      <4> QED BY <1>1, <1>5, <1>7, <1>9, <3>2, <4>1
    <3> QED BY <3>1, <3>2
  <2>3. ASSUME NEW b \in Attempts, y[b].successor # None
        PROVE  y[y[b].successor].state # "none" /\ y[y[b].successor].replaced = b
    <3>1. b # a /\ y[b] = x[b]
      BY <1>5, <1>7, <2>3
    <3>2. x[b].successor \in Attempts /\ x[x[b].successor].state # "none"
            /\ x[x[b].successor].replaced = b
      BY <1>1, <1>9, <2>3, <3>1 DEF LinksOK
    <3> QED BY <1>2, <1>5, <1>7, <3>1, <3>2
  <2>4. ASSUME NEW b \in Attempts \ {a}, y[b].replaced # None, y[y[b].replaced].state # "none"
        PROVE  y[y[b].replaced].successor \in {None, b}
    <3>1. x[b].replaced \in Attempts /\ x[b].replaced < a /\ y[b] = x[b]
      BY <1>1, <1>5, <1>7, <1>9, <2>4 DEF LinksOK
    <3>2. x[b].replaced # a
      BY <1>1, <1>9, <3>1
    <3>3. y[x[b].replaced] = x[x[b].replaced]
      BY <1>5, <1>7, <3>1, <3>2
    <3> QED BY <1>1, <2>4, <3>1, <3>3 DEF LinksOK
  <2> QED BY <2>1, <2>2, <2>3, <2>4 DEF LinksBut
<1>11. ASSUME p = None \/ x[p].successor = None PROVE LinksOK(m)
  <2>1. y[a].replaced # None => y[y[a].replaced].successor \in {None, a}
    BY <1>3, <1>5, <1>7, <1>11
  <2> QED BY <1>10, <2>1 DEF LinksBut, LinksOK
<1> QED BY <1>2, <1>5, <1>7, <1>8, <1>10, <1>11 DEF m

\* LoadAttemptSubmitted: a new attempt that nothing names yet.
LEMMA SubmittedKeeps ==
  ASSUME NEW l, LifeOK(l), l.next <= MaxAttempts, NEW t \in Targets, NEW B \in SUBSET Entries
  PROVE  LET m == Submitted(l, t, B)
             a == l.next IN
         /\ LifeOK(m) /\ a \in Attempts /\ l.attempts[a] = NoAttempt
         /\ \A b \in Attempts \ {a} : m.attempts[b] = l.attempts[b]
         /\ m.attempts[a].state = "submitting" /\ m.attempts[a].command # "completed"
         /\ m.attempts[a].entry = None /\ ~m.attempts[a].revoked /\ m.attempts[a].target = t
         /\ m.owner = l.owner /\ m.active = l.active /\ m.deferred = l.deferred
         /\ m.required = l.required /\ m.troubled = l.troubled
         /\ m.tombs = l.tombs /\ m.next = l.next + 1 /\ m.due = l.due
<1> DEFINE a == l.next
           x == l.attempts
           p == Largest({b \in Live(l) : x[b].successor = None})
           v == [NoAttempt EXCEPT !.state = "submitting", !.target = t, !.baseline = B,
                    !.replaced = p, !.command = "submitted"]
           m == Submitted(l, t, B)
           y == m.attempts
<1>1. /\ l \in Lives /\ AttemptsOK(l) /\ OwnersOK(l) /\ ActiveOK(l)
      /\ x \in [Attempts -> LoadAttempt] /\ l.owner \in [Entries -> Attempts \cup {None}]
      /\ l.active \in Attempts \cup {None} /\ a \in Nat \ {0}
  BY LifeFields DEF LifeOK
<1>2. a \in Attempts
  BY <1>1, LoadAssumption DEF Attempts
<1>3. /\ p \in Attempts \cup {None}
      /\ p # None => p \in Attempts /\ x[p].state # "none" /\ x[p].successor = None
  <2> DEFINE open == {b \in Live(l) : x[b].successor = None}
  <2>1. open \in SUBSET Attempts
    BY DEF Live, Present
  <2>2. (open # {} => p \in open) /\ (open = {} => p = None)
    BY <2>1, LargestOne
  <2> QED BY <2>1, <2>2, Values DEF Live, Present
<1> HIDE DEF p
<1>4. /\ v \in LoadAttempt /\ AttemptOK(v) /\ v.state = "submitting" /\ v.command = "submitted"
      /\ v.entry = None /\ v.revoked = FALSE /\ v.replaced = p /\ v.successor = None /\ v.target = t
  <2>1. /\ "submitting" \in AttemptStates /\ "submitted" \in Commands
        /\ t \in Targets \cup {"none"} /\ NoAttempt \in LoadAttempt
    BY Values, NoAttemptOK
  <2>2. v = [NoAttempt EXCEPT !.state = "submitting", !.target = t, !.baseline = B,
                    !.replaced = p, !.command = "submitted"]
    OBVIOUS
  <2> HIDE DEF v
  <2>3. v \in LoadAttempt
    BY <1>3, <2>1, <2>2 DEF LoadAttempt
  <2>4. v.state = "submitting" /\ v.command = "submitted" /\ v.replaced = p /\ v.target = t
    BY <2>1, <2>2 DEF LoadAttempt
  <2>5. /\ v.entry = NoAttempt.entry /\ v.revoked = NoAttempt.revoked
        /\ v.successor = NoAttempt.successor /\ v.loaded = NoAttempt.loaded
        /\ v.reconcile = NoAttempt.reconcile /\ v.deadline = NoAttempt.deadline
        /\ v.retire = NoAttempt.retire /\ v.result = NoAttempt.result
    BY <2>1, <2>2 DEF LoadAttempt
  <2>6. AttemptOK(v)
    BY <2>4, <2>5, NoAttemptOK DEF AttemptOK
  <2> QED BY <2>3, <2>4, <2>5, <2>6, NoAttemptOK
<1>5. m = Added(l, v)
  BY DEF Submitted, Added, p
<1> HIDE DEF v, m
<1>6. /\ m \in Lives /\ AttemptsOK(m) /\ LinksOK(m) /\ x[a] = NoAttempt
      /\ y[a] = v /\ \A b \in Attempts \ {a} : y[b] = x[b]
      /\ m.owner = l.owner /\ m.active = l.active
      /\ m.ended = l.ended /\ m.deferred = l.deferred /\ m.required = l.required
      /\ m.troubled = l.troubled /\ m.tombs = l.tombs /\ m.next = l.next + 1 /\ m.due = l.due
  BY <1>2, <1>3, <1>4, <1>5, AddedAttempt
<1>7. OwnersOK(m)
  <2>1. \A e \in Entries : l.owner[e] # None => l.owner[e] \in Attempts \ {a}
    BY <1>1, <1>6, NoAttemptOK DEF OwnersOK
  <2> QED BY <1>1, <1>4, <1>6, <2>1 DEF OwnersOK
<1>8. ActiveOK(m)
  <2>1. l.active # None => l.active \in Attempts \ {a}
    BY <1>1, <1>6, NoAttemptOK DEF ActiveOK
  <2> QED BY <1>1, <1>4, <1>6, <2>1 DEF ActiveOK
<1>9. LifeOK(m)
  BY <1>6, <1>7, <1>8 DEF LifeOK
<1> QED BY <1>2, <1>4, <1>6, <1>9 DEF m

\* ExternalLoadObserved of an entry that nobody owns and that is not over: the load that
\* mpv was seen to play becomes the active attempt and supersedes the one before.
LEMMA ExternalKeeps ==
  ASSUME NEW l, LifeOK(l), DeferredOK(l), l.next \in Attempts, NEW e \in Entries,
         l.owner[e] = None, e \notin l.tombs, NEW t \in Targets \cup {"none"},
         NEW loaded \in BOOLEAN
  PROVE  LET m == External(l, e, t, loaded)
             a == l.next IN
         /\ LifeOK(m) /\ DeferredOK(m) /\ Yielded(l, m, a) /\ l.attempts[a] = NoAttempt
         /\ m.attempts[a].state \in {"starting", "active"} /\ m.attempts[a].entry = e
         /\ m.attempts[a].command # "completed" /\ ~m.attempts[a].revoked
         /\ \A b \in Attempts : l.attempts[b].state = "accepted" => m.attempts[b].state = "accepted"
         /\ m.owner = [l.owner EXCEPT ![e] = a] /\ m.active = a /\ m.next = l.next + 1
         /\ m.deferred = l.deferred /\ m.required = l.required /\ m.due = l.due
<1> DEFINE a == l.next
           p == l.active
           v == [NoAttempt EXCEPT
                   !.state = IF loaded THEN "active" ELSE "starting",
                   !.entry = e, !.target = t,
                   !.baseline = {f \in Entries : l.owner[f] # None},
                   !.replaced = p, !.started = TRUE, !.loaded = loaded,
                   !.deadline = IF loaded THEN Never ELSE LoadTicks,
                   !.result = IF loaded THEN "loaded" ELSE "none"]
           x == Added(l, v)
           y == IF p = None THEN x ELSE Supersede(x, p, a)
           O == [l.owner EXCEPT ![e] = a]
           m == External(l, e, t, loaded)
<1>1. /\ l \in Lives /\ AttemptsOK(l) /\ LinksOK(l) /\ OwnersOK(l) /\ ActiveOK(l)
      /\ l.attempts \in [Attempts -> LoadAttempt] /\ l.owner \in [Entries -> Attempts \cup {None}]
      /\ p \in Attempts \cup {None} /\ a \in Nat \ {0} /\ l.deferred \in Seq(Entries)
  BY LifeFields DEF LifeOK
<1>2. ~(a > MaxAttempts)
  BY LoadAssumption DEF Attempts
<1>3. /\ v \in LoadAttempt /\ AttemptOK(v) /\ v.state \in {"starting", "active"}
      /\ v.command = "none" /\ v.entry = e /\ v.revoked = FALSE /\ v.replaced = p
      /\ v.successor = None
  <2> DEFINE s == IF loaded THEN "active" ELSE "starting"
             B == {f \in Entries : l.owner[f] # None}
             d == IF loaded THEN Never ELSE LoadTicks
             r == IF loaded THEN "loaded" ELSE "none"
  <2>1. /\ s \in AttemptStates /\ B \in SUBSET Entries /\ d \in Never .. LoadTicks
        /\ r \in Results /\ NoAttempt \in LoadAttempt /\ s \in {"starting", "active"}
    BY Values, NoAttemptOK
  <2>2. v = [NoAttempt EXCEPT !.state = s, !.entry = e, !.target = t, !.baseline = B,
                !.replaced = p, !.started = TRUE, !.loaded = loaded, !.deadline = d,
                !.result = r]
    OBVIOUS
  <2>3. /\ s = "active" => loaded
        /\ d # Never => r = "none" /\ ~loaded /\ d > 0
        /\ r = "none" => d # Never
    BY Values DEF Never
  <2> HIDE DEF v, s, B, d, r, p
  <2>4. v \in LoadAttempt
    BY <1>1, <2>1, <2>2, ZenonT(60) DEF LoadAttempt
  <2>5. /\ v.state = s /\ v.entry = e /\ v.replaced = p /\ v.loaded = loaded
        /\ v.deadline = d /\ v.result = r
    BY <2>1, <2>2 DEF LoadAttempt
  <2>6. /\ v.command = NoAttempt.command /\ v.revoked = NoAttempt.revoked
        /\ v.successor = NoAttempt.successor
        /\ v.reconcile = NoAttempt.reconcile /\ v.retire = NoAttempt.retire
    BY <2>1, <2>2 DEF LoadAttempt
  <2>7. e # None
    BY Values
  <2>8. AttemptOK(v)
    BY <2>1, <2>3, <2>5, <2>6, <2>7, NoAttemptOK DEF AttemptOK
  <2> QED BY <2>1, <2>4, <2>5, <2>6, <2>8, NoAttemptOK
<1>4. m = [y EXCEPT !.owner[e] = a, !.active = a, !.ended = FALSE]
  BY <1>2 DEF External, Added
<1> HIDE DEF v, m
<1>5. p # None => /\ l.attempts[p].state \notin {"none", "terminal", "quiescent"}
                  /\ l.attempts[p].entry # None
  BY <1>1 DEF ActiveOK
<1>6. /\ x \in Lives /\ AttemptsOK(x) /\ LinksBut(x, a) /\ l.attempts[a] = NoAttempt
      /\ p = None => LinksOK(x)
      /\ x.attempts[a] = v /\ \A b \in Attempts \ {a} : x.attempts[b] = l.attempts[b]
      /\ x.owner = l.owner /\ x.active = l.active
      /\ x.ended = l.ended /\ x.deferred = l.deferred /\ x.required = l.required
      /\ x.troubled = l.troubled /\ x.tombs = l.tombs /\ x.next = l.next + 1 /\ x.due = l.due
  <2> HIDE DEF p
  <2>1. v.replaced \in Attempts \cup {None} /\ (p # None => l.attempts[v.replaced].state # "none")
    BY <1>1, <1>3, <1>5
  <2> QED BY <1>3, <2>1, AddedAttempt
<1> HIDE DEF x
<1>7. p # None => p # a
  BY <1>5, <1>6, NoAttemptOK
<1>8. /\ y \in Lives /\ AttemptsOK(y) /\ LinksOK(y)
      /\ y.attempts[a].state = v.state /\ y.attempts[a].revoked = v.revoked
      /\ \A b \in Attempts : Yields(x.attempts[b], y.attempts[b])
      /\ \A b \in Attempts \ {p} : y.attempts[b].state = x.attempts[b].state
      /\ p # None => y.attempts[p].revoked /\ y.attempts[p].state = "superseded"
      /\ y.owner = l.owner
      /\ y.deferred = l.deferred /\ y.required = l.required /\ y.troubled = l.troubled
      /\ y.tombs = l.tombs /\ y.next = l.next + 1 /\ y.due = l.due
  <2>1. x.attempts[a].replaced = p /\ x.attempts[a].state # "none"
    BY <1>3, <1>6
  <2>2. p # None => x.attempts[p].state \notin {"none", "terminal"}
    BY <1>1, <1>5, <1>6, <1>7
  <2> DEFINE c == x.attempts[a].replaced
  <2>3. /\ y = IF c = None THEN x ELSE Supersede(x, c, a)
        /\ LinksOK(x) \/ (c # None /\ x.attempts[c].state \notin {"none", "terminal"})
        /\ c \in Attempts \cup {None} /\ c = p
    BY <1>1, <1>6, <2>1, <2>2
  <2>4. /\ y \in Lives /\ AttemptsOK(y) /\ LinksOK(y)
        /\ y.attempts[a].state = x.attempts[a].state
        /\ y.attempts[a].revoked = x.attempts[a].revoked
        /\ \A b \in Attempts : Yields(x.attempts[b], y.attempts[b])
        /\ \A b \in Attempts \ {c} : y.attempts[b].state = x.attempts[b].state
        /\ c # None /\ x.attempts[c].state \notin {"none", "terminal"} =>
              y.attempts[c].revoked /\ y.attempts[c].state = "superseded"
        /\ y.owner = x.owner
        /\ y.deferred = x.deferred /\ y.required = x.required /\ y.troubled = x.troubled
        /\ y.tombs = x.tombs /\ y.next = x.next /\ y.due = x.due
    <3> HIDE DEF y, p
    <3> QED BY <1>6, <2>1, <2>3, SupersedeYields, SMTT(60)
  <2> HIDE DEF y, p, c
  <2>5. c = p
    BY <2>3
  <2>6. \A b \in Attempts \ {p} : y.attempts[b].state = x.attempts[b].state
    BY <2>4, <2>5
  <2>7. p # None => y.attempts[p].revoked /\ y.attempts[p].state = "superseded"
    BY <2>2, <2>4, <2>5
  <2> QED BY <1>6, <2>4, <2>6, <2>7
<1> HIDE DEF y
<1>9. O \in [Entries -> Attempts \cup {None}] /\ O[e] = a /\ \A f \in Entries \ {e} : O[f] = l.owner[f]
  BY <1>1
<1>10. m = [y EXCEPT !.owner = O, !.active = a, !.ended = FALSE]
  BY <1>4, <1>8
<1> HIDE DEF O
<1>11. /\ m \in Lives /\ m.owner = O /\ m.active = a /\ m.ended = FALSE
       /\ m.attempts = y.attempts /\ m.deferred = y.deferred /\ m.required = y.required
       /\ m.troubled = y.troubled /\ m.tombs = y.tombs /\ m.next = y.next /\ m.due = y.due
  <2>1. m \in Lives
    BY <1>8, <1>9, <1>10 DEF Lives
  <2> QED BY <1>8, <1>10, <2>1 DEF Lives
<1>12. \A b \in Attempts \ {a} : Yields(l.attempts[b], m.attempts[b])
  BY <1>6, <1>8, <1>11
<1>13. /\ m.attempts[a].state \in {"starting", "active"} /\ m.attempts[a].entry = e
       /\ m.attempts[a].command # "completed" /\ ~m.attempts[a].revoked
  BY <1>3, <1>6, <1>8, <1>11 DEF Yields
<1>14. AttemptsOK(m) /\ LinksOK(m)
  BY <1>8, <1>11 DEF AttemptsOK, LinksOK
<1>15. \A f \in Entries : l.owner[f] # None => l.owner[f] \in Attempts \ {a} /\ f # e
  BY <1>1, <1>6, NoAttemptOK DEF OwnersOK
<1>16. OwnersOK(m)
  <2>1. ASSUME NEW f \in Entries, m.owner[f] # None
        PROVE  m.attempts[m.owner[f]].state \notin {"none", "terminal"}
               /\ m.attempts[m.owner[f]].entry = f
    <3>1. CASE f = e
      BY <1>9, <1>11, <1>13, <3>1
    <3>2. CASE f # e
      BY <1>1, <1>9, <1>11, <1>12, <1>15, <2>1, <3>2 DEF OwnersOK, Yields
    <3> QED BY <3>1, <3>2
  <2>2. ASSUME NEW b \in Attempts, m.attempts[b].state \notin {"none", "terminal"},
               m.attempts[b].entry # None
        PROVE  m.owner[m.attempts[b].entry] = b
    <3>1. CASE b = a
      BY <1>9, <1>11, <1>13, <3>1
    <3>2. CASE b # a
      <4>1. l.owner[l.attempts[b].entry] = b /\ m.attempts[b].entry = l.attempts[b].entry
            /\ l.attempts[b].entry \in Entries
        BY <1>1, <1>12, <2>2, <3>2 DEF OwnersOK, Yields, LoadAttempt
      <4> QED BY <1>9, <1>11, <1>15, <3>2, <4>1, Values
    <3> QED BY <3>1, <3>2
  <2> QED BY <2>1, <2>2 DEF OwnersOK
<1>17. ActiveOK(m)
  <2>1. ASSUME NEW b \in Attempts, m.attempts[b].state \in {"starting", "active"}
        PROVE  b = a
    <3> SUFFICES ASSUME b # a PROVE FALSE
      OBVIOUS
    <3>1. l.attempts[b].state \in {"starting", "active"}
      BY <1>12, <2>1 DEF Yields
    <3>2. p = b /\ p # None
      BY <1>1, <3>1, Values DEF ActiveOK
    <3> QED BY <1>8, <1>11, <2>1, <3>2
  <2> QED BY <1>11, <1>13, <2>1, Values DEF ActiveOK
<1>18. LifeOK(m)
  BY <1>11, <1>14, <1>16, <1>17 DEF LifeOK
<1>19. DeferredOK(m)
  <2> SUFFICES ASSUME NEW i \in 1 .. Len(m.deferred) PROVE Explained(m, m.deferred[i])
    BY DEF DeferredOK
  <2> DEFINE g == l.deferred[i]
  <2>1. g \in Entries /\ m.deferred[i] = g /\ Explained(l, g)
    BY <1>1, <1>8, <1>11 DEF DeferredOK
  <2> HIDE DEF g
  <2>2. CASE g = e
    BY <1>9, <1>11, <2>1, <2>2 DEF Explained
  <2>3. CASE g # e /\ l.owner[g] # None
    <3>1. m.owner[g] = l.owner[g] /\ Yields(l.attempts[l.owner[g]], m.attempts[l.owner[g]])
      BY <1>9, <1>11, <1>12, <1>15, <2>1, <2>3
    <3>2. l.owner[g] = p => m.attempts[p].revoked
      BY <1>8, <1>11, <2>3
    <3> QED BY <2>1, <2>3, <3>1, <3>2 DEF Explained, Yields
  <2>4. CASE g # e /\ l.owner[g] = None
    BY <1>9, <1>11, <2>1, <2>4 DEF Explained
  <2> QED BY <2>2, <2>3, <2>4
<1>20. Yielded(l, m, a)
  BY <1>8, <1>11, <1>12 DEF Yielded, Yields, Follows
<1>21. \A b \in Attempts : l.attempts[b].state = "accepted" => m.attempts[b].state = "accepted"
  <2> SUFFICES ASSUME NEW b \in Attempts, l.attempts[b].state = "accepted"
               PROVE  m.attempts[b].state = "accepted"
    OBVIOUS
  <2>1. b # a /\ l.attempts[b].entry = None
    BY <1>1, <1>6, NoAttemptOK DEF AttemptsOK, AttemptOK
  <2>2. b # p
    BY <1>5, <2>1, Values
  <2> QED BY <1>6, <1>8, <1>11, <2>1, <2>2
<1> QED BY <1>6, <1>8, <1>11, <1>13, <1>18, <1>19, <1>20, <1>21 DEF m, O

\* FileLoaded of the entry of a load that may become the active one.
LEMMA FileLoadedKeeps ==
  ASSUME NEW l, LifeOK(l), NEW e \in Entries, l.owner[e] # None,
         Owns(l, l.owner[e]) => l.active \in {None, l.owner[e]}
  PROVE  LET m == FileLoaded(l, e)
             a == l.owner[e] IN
         /\ LifeOK(m) /\ (DeferredOK(l) => DeferredOK(m))
         /\ \A b \in Attempts \ {a} : m.attempts[b] = l.attempts[b]
         /\ m.attempts[a].entry = e /\ m.attempts[a].revoked = l.attempts[a].revoked
         /\ l.attempts[a].loaded => m.attempts[a].loaded
         /\ ~Owns(l, a) => /\ m.attempts[a].state = l.attempts[a].state
                           /\ m.attempts[a].command = l.attempts[a].command
         /\ Owns(l, a) => m.attempts[a].state = "active"
         /\ m.active = (IF Owns(l, a) THEN a ELSE l.active)
         /\ m.owner = l.owner /\ m.deferred = l.deferred /\ m.required = l.required
         /\ m.troubled = l.troubled /\ m.tombs = l.tombs /\ m.next = l.next /\ m.due = l.due
<1> DEFINE a == l.owner[e]
           x == l.attempts[a]
           v == Loaded(x)
           w == Playing(v)
           s == [l EXCEPT !.attempts[a] = v]
           f == [s EXCEPT !.attempts[a] = w]
           m == FileLoaded(l, e)
<1>1. /\ l \in Lives /\ AttemptsOK(l) /\ LinksOK(l) /\ OwnersOK(l) /\ ActiveOK(l)
      /\ l.attempts \in [Attempts -> LoadAttempt] /\ l.owner \in [Entries -> Attempts \cup {None}]
      /\ l.active \in Attempts \cup {None} /\ l.deferred \in Seq(Entries)
  BY LifeFields DEF LifeOK
<1>2. /\ a \in Attempts /\ x \in LoadAttempt /\ AttemptOK(x) /\ x.entry = e
      /\ x.state \notin {"none", "terminal"} /\ e # None
  BY <1>1, Values DEF OwnersOK, AttemptsOK
<1>3. a \in Live(l)
  BY <1>2 DEF Live, Present
<1>4. CASE x.loaded
  <2>1. m = l /\ ~Owns(l, a)
    BY <1>4 DEF FileLoaded, First, Owns
  <2> QED BY <1>2, <2>1
<1>5. CASE ~x.loaded /\ x.revoked
  <2>1. m = s /\ ~Owns(l, a)
    BY <1>3, <1>5 DEF FileLoaded, First, Owns
  <2> HIDE DEF m
  <2>2. /\ v \in LoadAttempt /\ AttemptOK(v) /\ v.loaded /\ v.state = x.state /\ v.entry = x.entry
        /\ v.replaced = x.replaced /\ v.successor = x.successor /\ v.revoked = x.revoked
        /\ v.command = x.command
    BY <1>2, <1>5, LoadedRecord, LoadedOK
  <2> HIDE DEF v
  <2>3. /\ s \in Lives
        /\ s.attempts[a] = v /\ \A b \in Attempts \ {a} : s.attempts[b] = l.attempts[b]
        /\ s.owner = l.owner /\ s.active = l.active
        /\ s.ended = l.ended /\ s.deferred = l.deferred /\ s.required = l.required
        /\ s.troubled = l.troubled /\ s.tombs = l.tombs /\ s.next = l.next /\ s.due = l.due
    BY <1>1, <1>2, <2>2, AttemptReplaced
  <2> HIDE DEF s
  <2>4. \A b \in Attempts : /\ s.attempts[b].state = l.attempts[b].state
                            /\ s.attempts[b].entry = l.attempts[b].entry
                            /\ s.attempts[b].revoked = l.attempts[b].revoked
                            /\ s.attempts[b].replaced = l.attempts[b].replaced
                            /\ s.attempts[b].successor = l.attempts[b].successor
                            /\ (l.attempts[b].loaded => s.attempts[b].loaded)
                            /\ AttemptOK(s.attempts[b])
    BY <1>1, <2>2, <2>3 DEF AttemptsOK
  <2>5. LinksOK(s)
    BY <1>1, <2>3, <2>4, LinksStay
  <2>6. OwnersOK(s)
    BY <1>1, <2>3, <2>4 DEF OwnersOK
  <2>7. ActiveOK(s)
    BY <1>1, <2>3, <2>4 DEF ActiveOK
  <2>8. LifeOK(s)
    BY <2>3, <2>4, <2>5, <2>6, <2>7 DEF LifeOK, AttemptsOK
  <2>9. DeferredOK(l) => DeferredOK(s)
    <3> SUFFICES ASSUME DeferredOK(l), NEW i \in 1 .. Len(s.deferred) PROVE Explained(s, s.deferred[i])
      BY DEF DeferredOK
    <3>1. Explained(l, s.deferred[i]) /\ s.deferred[i] \in Entries
      BY <1>1, <2>3 DEF DeferredOK
    <3> QED BY <1>1, <2>3, <2>4, <3>1 DEF Explained
  <2> QED BY <1>2, <1>4, <1>5, <2>1, <2>2, <2>3, <2>4, <2>8, <2>9 DEF m
<1>6. CASE ~x.loaded /\ ~x.revoked
  <2>1. Owns(l, a) /\ l.active \in {None, a} /\ First(l, a)
    BY <1>3, <1>6 DEF First, Owns
  <2>2. /\ w \in LoadAttempt /\ AttemptOK(w)
        /\ w.state = "active" /\ w.loaded /\ w.entry = x.entry /\ w.replaced = x.replaced
        /\ w.successor = x.successor /\ w.revoked = x.revoked
    BY <1>2, <1>6, PlayingRecord
  <2>3. v \in LoadAttempt
    BY <1>2, LoadedRecord
  <2>4. s.attempts[a] = v /\ s \in Lives
    BY <1>1, <1>2, <2>3, AttemptReplaced
  <2>5. m = [s EXCEPT !.active = a, !.attempts[a] = Playing(s.attempts[a])]
    BY <2>1 DEF FileLoaded
  <2>6. m = [f EXCEPT !.active = a]
    BY <2>4, <2>5
  <2> HIDE DEF m, w, v
  <2>7. /\ s \in Lives
        /\ s.attempts[a] = v /\ \A b \in Attempts \ {a} : s.attempts[b] = l.attempts[b]
        /\ s.owner = l.owner /\ s.active = l.active
        /\ s.ended = l.ended /\ s.deferred = l.deferred /\ s.required = l.required
        /\ s.troubled = l.troubled /\ s.tombs = l.tombs /\ s.next = l.next /\ s.due = l.due
    BY <1>1, <1>2, <2>3, AttemptReplaced
  <2> HIDE DEF s
  <2>8. /\ f \in Lives
        /\ f.attempts[a] = w /\ \A b \in Attempts \ {a} : f.attempts[b] = s.attempts[b]
        /\ f.owner = s.owner /\ f.active = s.active
        /\ f.ended = s.ended /\ f.deferred = s.deferred /\ f.required = s.required
        /\ f.troubled = s.troubled /\ f.tombs = s.tombs /\ f.next = s.next /\ f.due = s.due
    BY <1>2, <2>2, <2>7, AttemptReplaced
  <2> HIDE DEF f
  <2>9. /\ m \in Lives /\ m.active = a /\ m.attempts = f.attempts /\ m.owner = l.owner
        /\ m.ended = l.ended /\ m.deferred = l.deferred /\ m.required = l.required
        /\ m.troubled = l.troubled /\ m.tombs = l.tombs /\ m.next = l.next /\ m.due = l.due
    <3>1. m \in Lives
      BY <1>2, <2>6, <2>8 DEF Lives
    <3> QED BY <2>6, <2>7, <2>8, <3>1 DEF Lives
  <2>10. m.attempts[a] = w /\ \A b \in Attempts \ {a} : m.attempts[b] = l.attempts[b]
    BY <2>7, <2>8, <2>9
  <2>11. LinksOK(m)
    <3>1. \A b \in Attempts : /\ m.attempts[b].replaced = l.attempts[b].replaced
                              /\ m.attempts[b].successor = l.attempts[b].successor
                              /\ (m.attempts[b].state = "none" <=> l.attempts[b].state = "none")
      BY <1>2, <2>2, <2>10
    <3> QED BY <1>1, <2>9, <3>1, LinksStay
  <2>12. OwnersOK(m)
    <3>1. \A b \in Attempts : /\ m.attempts[b].entry = l.attempts[b].entry
                              /\ (m.attempts[b].state \in {"none", "terminal"}
                                    <=> l.attempts[b].state \in {"none", "terminal"})
      BY <1>2, <2>2, <2>10
    <3> QED BY <1>1, <2>9, <3>1 DEF OwnersOK
  <2>13. ActiveOK(m)
    BY <1>1, <1>2, <2>1, <2>2, <2>9, <2>10, Values DEF ActiveOK
  <2>14. LifeOK(m)
    BY <1>1, <2>2, <2>9, <2>10, <2>11, <2>12, <2>13 DEF LifeOK, AttemptsOK
  <2>15. DeferredOK(l) => DeferredOK(m)
    <3> SUFFICES ASSUME DeferredOK(l), NEW i \in 1 .. Len(m.deferred) PROVE Explained(m, m.deferred[i])
      BY DEF DeferredOK
    <3>1. Explained(l, m.deferred[i]) /\ m.deferred[i] \in Entries
      BY <1>1, <2>9 DEF DeferredOK
    <3> QED BY <1>1, <2>1, <2>9, <2>10, <3>1 DEF Explained
  <2> QED BY <1>2, <1>6, <2>1, <2>2, <2>9, <2>10, <2>14, <2>15 DEF m
<1> QED BY <1>4, <1>5, <1>6

-----------------------------------------------------------------------------
(* Compaction. *)

\* compact_acknowledged_lifecycle: finished attempts go, the others lose their links to
\* them.
LEMMA CompactKeeps ==
  ASSUME NEW l, LifeOK(l), NEW S \in SUBSET Attempts,
         \A a \in S : l.attempts[a].state = "terminal"
  PROVE  LET m == CompactAll(l, S) IN
         /\ LifeOK(m) /\ (DeferredOK(l) => DeferredOK(m))
         /\ \A b \in S : m.attempts[b] = NoAttempt
         /\ \A b \in Attempts \ S :
              /\ m.attempts[b].entry = l.attempts[b].entry
              /\ m.attempts[b].revoked = l.attempts[b].revoked
              /\ m.attempts[b].loaded = l.attempts[b].loaded
              /\ m.attempts[b].command = l.attempts[b].command
              /\ \/ m.attempts[b].state = l.attempts[b].state
                 \/ l.attempts[b].state = "superseded" /\ m.attempts[b].state = "mayEmit"
         /\ m.owner = l.owner /\ m.active = l.active /\ m.deferred = l.deferred
         /\ m.required = l.required /\ m.troubled = l.troubled
         /\ m.next = l.next /\ m.due = l.due
<1> DEFINE x == l.attempts
           back(b) == x[b].replaced \in S /\ x[x[b].replaced].successor = b
           forward(b) == x[b].successor \in S /\ x[x[b].successor].replaced = b
           A == [b \in Attempts |-> IF b \in S THEN NoAttempt ELSE Unlinked(x[b], back(b), forward(b))]
           T == l.tombs \cup ({x[a].entry : a \in S} \ {None})
           m == CompactAll(l, S)
           y == m.attempts
<1>1. /\ l \in Lives /\ AttemptsOK(l) /\ LinksOK(l) /\ OwnersOK(l) /\ ActiveOK(l)
      /\ x \in [Attempts -> LoadAttempt] /\ l.owner \in [Entries -> Attempts \cup {None}]
      /\ l.active \in Attempts \cup {None} /\ l.deferred \in Seq(Entries)
      /\ l.tombs \in SUBSET Entries /\ l.next \in Nat \ {0}
  BY LifeFields DEF LifeOK
<1>2. m = [l EXCEPT !.attempts = A, !.tombs = T]
  BY DEF CompactAll
<1>3. \A b \in Attempts : /\ x[b] \in LoadAttempt /\ AttemptOK(x[b])
                          /\ x[b].successor \in Attempts \cup {None}
                          /\ x[b].replaced \in Attempts \cup {None}
                          /\ x[b].entry \in Entries \cup {None}
  BY <1>1 DEF AttemptsOK, LoadAttempt
<1>4. None \notin S
  BY Values
<1>5. \A b \in Attempts : forward(b) <=> x[b].successor \in S
  BY <1>1, <1>3, <1>4 DEF LinksOK
<1>6. ASSUME NEW b \in Attempts \ S
      PROVE  /\ A[b] \in LoadAttempt /\ AttemptOK(A[b])
             /\ A[b].replaced = (IF back(b) THEN None ELSE x[b].replaced)
             /\ A[b].successor = (IF x[b].successor \in S THEN None ELSE x[b].successor)
             /\ A[b].state = (IF x[b].successor \in S /\ x[b].state = "superseded"
                              THEN "mayEmit" ELSE x[b].state)
             /\ A[b].entry = x[b].entry /\ A[b].revoked = x[b].revoked
             /\ A[b].loaded = x[b].loaded /\ A[b].command = x[b].command
  <2> DEFINE p == back(b)
             q == forward(b)
  <2>1. p \in BOOLEAN /\ q \in BOOLEAN /\ (p => x[b].replaced # None) /\ (q => x[b].successor # None)
    BY <1>4
  <2>2. A[b] = Unlinked(x[b], p, q)
    OBVIOUS
  <2>3. q <=> x[b].successor \in S
    BY <1>5
  <2>4. p <=> back(b)
    OBVIOUS
  <2> HIDE DEF p, q, A
  <2> QED BY <1>3, <2>1, <2>2, <2>3, <2>4, UnlinkedRecord
<1>7. \A b \in S : A[b] = NoAttempt
  OBVIOUS
<1>8. A \in [Attempts -> LoadAttempt] /\ \A b \in Attempts : A[b] \in LoadAttempt /\ AttemptOK(A[b])
  <2>1. \A b \in Attempts : A[b] \in LoadAttempt /\ AttemptOK(A[b])
    BY <1>6, <1>7, NoAttemptOK
  <2>2. A = [b \in Attempts |-> A[b]]
    OBVIOUS
  <2> HIDE DEF A
  <2> QED BY <2>1, <2>2, SMTT(40)
<1>9. T \in SUBSET Entries
  BY <1>1, <1>3
<1> HIDE DEF A, T, m
<1>10. m \in Lives
  BY <1>1, <1>2, <1>8, <1>9 DEF Lives
<1>11. /\ y = A /\ m.owner = l.owner /\ m.active = l.active /\ m.ended = l.ended
       /\ m.deferred = l.deferred /\ m.required = l.required /\ m.troubled = l.troubled
       /\ m.next = l.next /\ m.due = l.due
  BY <1>1, <1>2 DEF Lives
<1>12. \A b \in Attempts : /\ (y[b].state = "none" <=> x[b].state = "none" \/ b \in S)
                           /\ (y[b].state \in {"none", "terminal"} <=> x[b].state \in {"none", "terminal"})
                           /\ (y[b].state \in {"starting", "active"} => y[b].state = x[b].state /\ b \notin S)
  <2> SUFFICES ASSUME NEW b \in Attempts
               PROVE  /\ (y[b].state = "none" <=> x[b].state = "none" \/ b \in S)
                      /\ (y[b].state \in {"none", "terminal"} <=> x[b].state \in {"none", "terminal"})
                      /\ (y[b].state \in {"starting", "active"} => y[b].state = x[b].state /\ b \notin S)
    OBVIOUS
  <2>1. CASE b \in S
    BY <1>7, <1>11, <2>1, NoAttemptOK
  <2>2. CASE b \notin S
    BY <1>6, <1>11, <2>2
  <2> QED BY <2>1, <2>2
<1>13. LinksOK(m)
  <2>1. \A b \in Attempts : b >= m.next => y[b].state = "none"
    BY <1>1, <1>11, <1>12 DEF LinksOK
  <2>2. ASSUME NEW b \in Attempts PROVE y[b].replaced < b /\ y[b].replaced < m.next
    <3>1. x[b].replaced < b /\ x[b].replaced < l.next
      BY <1>1 DEF LinksOK
    <3>2. y[b].replaced \in {None, x[b].replaced}
      BY <1>6, <1>7, <1>11, NoAttemptOK
    <3>3. None < b /\ None < l.next
      BY <1>1 DEF None, Attempts
    <3> QED BY <1>11, <3>1, <3>2, <3>3
  <2>3. ASSUME NEW b \in Attempts, y[b].successor # None
        PROVE  y[y[b].successor].state # "none" /\ y[y[b].successor].replaced = b
    <3>1. b \notin S
      BY <1>7, <1>11, <2>3, NoAttemptOK
    <3> DEFINE c == x[b].successor
    <3>2. y[b].successor = c /\ c \in Attempts /\ c \notin S
      BY <1>3, <1>6, <1>11, <2>3, <3>1
    <3>3. x[c].state # "none" /\ x[c].replaced = b
      BY <1>1, <3>2, Values DEF LinksOK
    <3>4. ~back(c)
      BY <3>1, <3>3
    <3> QED BY <1>6, <1>11, <1>12, <3>2, <3>3, <3>4
  <2>4. ASSUME NEW b \in Attempts, y[b].replaced # None, y[y[b].replaced].state # "none"
        PROVE  y[y[b].replaced].successor \in {None, b}
    <3>1. b \notin S
      BY <1>7, <1>11, <2>4, NoAttemptOK
    <3> DEFINE p == x[b].replaced
    <3>2. y[b].replaced = p /\ p \in Attempts
      BY <1>3, <1>6, <1>11, <2>4, <3>1
    <3>3. p \notin S /\ x[p].state # "none"
      BY <1>12, <2>4, <3>2
    <3>4. x[p].successor \in {None, b}
      BY <1>1, <3>2, <3>3, Values DEF LinksOK
    <3> QED BY <1>6, <1>11, <3>2, <3>3, <3>4
  <2> QED BY <2>1, <2>2, <2>3, <2>4 DEF LinksOK
<1>14. OwnersOK(m)
  <2>1. \A b \in Attempts : x[b].state \notin {"none", "terminal"} => y[b].entry = x[b].entry
    BY <1>6, <1>11
  <2> QED BY <1>1, <1>11, <1>12, <2>1 DEF OwnersOK
<1>15. l.active # None => l.active \in Attempts \ S
  BY <1>1 DEF ActiveOK
<1>16. ActiveOK(m)
  <2>1. m.active # None => /\ y[m.active].state \notin {"none", "terminal", "quiescent"}
                           /\ y[m.active].entry # None
    BY <1>1, <1>6, <1>11, <1>15 DEF ActiveOK
  <2>2. m.ended => m.active = None \/ y[m.active].loaded
    BY <1>1, <1>6, <1>11, <1>15 DEF ActiveOK
  <2>3. \A b \in Attempts : y[b].state \in {"starting", "active"} => m.active = b
    BY <1>1, <1>11, <1>12 DEF ActiveOK
  <2> QED BY <2>1, <2>2, <2>3 DEF ActiveOK
<1>17. LifeOK(m)
  BY <1>8, <1>10, <1>11, <1>13, <1>14, <1>16 DEF LifeOK, AttemptsOK
<1>18. ASSUME DeferredOK(l) PROVE DeferredOK(m)
  <2> SUFFICES ASSUME NEW i \in 1 .. Len(m.deferred) PROVE Explained(m, m.deferred[i])
    BY DEF DeferredOK
  <2>1. Explained(l, m.deferred[i]) /\ m.deferred[i] \in Entries
    BY <1>1, <1>11, <1>18 DEF DeferredOK
  <2>2. l.owner[m.deferred[i]] # None => l.owner[m.deferred[i]] \in Attempts \ S
    BY <1>1, <2>1 DEF OwnersOK
  <2> QED BY <1>6, <1>11, <2>1, <2>2 DEF Explained
<1> QED BY <1>6, <1>7, <1>11, <1>17, <1>18 DEF m

-----------------------------------------------------------------------------
(* The clock. *)

LEMMA ElapseFields ==
  ASSUME NEW l, LifeOK(l)
  PROVE  LET k == Elapse(l) IN
         /\ k \in Lives
         /\ \A a \in Attempts : k.attempts[a] = Elapsed(l.attempts[a]) /\ k.attempts[a] \in LoadAttempt
         /\ k.owner = l.owner /\ k.active = l.active
         /\ k.ended = l.ended /\ k.deferred = l.deferred /\ k.required = l.required
         /\ k.troubled = l.troubled /\ k.tombs = l.tombs /\ k.next = l.next /\ k.due = l.due
<1> DEFINE A == [a \in Attempts |-> Elapsed(l.attempts[a])]
           k == Elapse(l)
<1>1. l \in Lives /\ l.attempts \in [Attempts -> LoadAttempt] /\ AttemptsOK(l)
  BY LifeFields DEF LifeOK
<1>2. k = [l EXCEPT !.attempts = A]
  BY DEF Elapse
<1>3. A \in [Attempts -> LoadAttempt] /\ \A a \in Attempts : A[a] = Elapsed(l.attempts[a])
  <2>1. \A a \in Attempts : Elapsed(l.attempts[a]) \in LoadAttempt
    BY <1>1, ElapsedRecord DEF AttemptsOK
  <2> QED BY <2>1
<1> HIDE DEF A, k
<1>4. /\ k \in Lives /\ k.attempts = A /\ k.owner = l.owner /\ k.active = l.active
      /\ k.ended = l.ended /\ k.deferred = l.deferred /\ k.required = l.required
      /\ k.troubled = l.troubled /\ k.tombs = l.tombs /\ k.next = l.next /\ k.due = l.due
  BY <1>1, <1>2, <1>3, AttemptsReplaced
<1> QED BY <1>3, <1>4 DEF k

\* The attempts that become quiescent.
Idle(k) == {a \in Attempts : Late(k.attempts[a]) /\ ~Holds(k, a)}

LEMMA ExpireFields ==
  ASSUME NEW k \in Lives,
         \A a \in Attempts : Expired(k.attempts[a], Holds(k, a)) \in LoadAttempt
  PROVE  LET j == ExpireAll(k) IN
         /\ j \in Lives
         /\ \A a \in Attempts : j.attempts[a] = Expired(k.attempts[a], Holds(k, a))
         /\ j.active = (IF k.active \in Idle(k) THEN None ELSE k.active)
         /\ j.due = (k.due \/ Idle(k) # {})
         /\ j.owner = k.owner
         /\ j.ended = k.ended /\ j.deferred = k.deferred /\ j.required = k.required
         /\ j.troubled = k.troubled /\ j.tombs = k.tombs /\ j.next = k.next
<1> DEFINE x == k.attempts
           late == Overdue(k)
           idle == {a \in late : ~Holds(k, a)}
           A == [a \in Attempts |-> IF a \in idle THEN Quiet(x[a])
                                    ELSE IF a \in late THEN Unanswered(x[a]) ELSE x[a]]
           c == IF k.active \in idle THEN None ELSE k.active
           d == k.due \/ idle # {}
           j == ExpireAll(k)
<1>1. j = [k EXCEPT !.attempts = A, !.active = c, !.due = d]
  BY DEF ExpireAll
<1>2. \A a \in Attempts : a \in late <=> Late(x[a])
  BY DEF Overdue, Live, Present, Late
<1>3. late \subseteq Attempts
  BY DEF Overdue, Live, Present
<1>4. idle = Idle(k)
  BY <1>2, <1>3 DEF Idle
<1>5. \A a \in Attempts : A[a] = Expired(x[a], Holds(k, a))
  BY <1>2, <1>3 DEF Expired
<1>6. A = [a \in Attempts |-> A[a]]
  OBVIOUS
<1> HIDE DEF A
<1>7. A \in [Attempts -> LoadAttempt]
  BY <1>5, <1>6
<1>8. c \in Attempts \cup {None} /\ d \in BOOLEAN
  BY LifeFields, Values
<1> HIDE DEF c, d, j
<1>9. j \in Lives
  BY <1>1, <1>7, <1>8 DEF Lives
<1>10. /\ j.attempts = A /\ j.active = c /\ j.due = d /\ j.owner = k.owner
       /\ j.ended = k.ended /\ j.deferred = k.deferred /\ j.required = k.required
       /\ j.troubled = k.troubled /\ j.tombs = k.tombs /\ j.next = k.next
  BY <1>1 DEF Lives
<1> QED BY <1>4, <1>5, <1>9, <1>10 DEF j, c, d

\* What a step of the clock does to an attempt.
Ticks(x, y) ==
  /\ Same(x, y)
  /\ \/ y.state = x.state
     \/ y.state = "quiescent" /\ x.state \notin {"none", "submitting", "terminal", "quiescent"}
     \/ y.state = "terminal" /\ x.state = "quiescent"

LEMMA TickRecord ==
  ASSUME NEW x \in LoadAttempt, AttemptOK(x), NEW holds \in BOOLEAN, holds => x.entry # None
  PROVE  LET w == Elapsed(x)
             z == Expired(w, holds)
             y == Retired(z) IN
         /\ z \in LoadAttempt /\ y \in LoadAttempt /\ AttemptOK(y) /\ Ticks(x, y)
         /\ z.entry = x.entry /\ (z.state \in {"none", "terminal"} <=> x.state \in {"none", "terminal"})
         /\ Gone(z) <=> y.state = "terminal" /\ x.state = "quiescent"
         /\ Gone(z) => x.state = "quiescent"
         /\ Late(w) /\ ~holds <=> y.state = "quiescent" /\ x.state # "quiescent"
<1> DEFINE w == Elapsed(x)
           z == Expired(w, holds)
           y == Retired(z)
<1>1. w \in LoadAttempt /\ ElapsedOK(w) /\ Same(x, w) /\ w.state = x.state
  BY ElapsedRecord
<1> HIDE DEF w
<1>2. holds => w.entry # None
  BY <1>1 DEF Same
<1>3. /\ z \in LoadAttempt /\ Same(w, z)
      /\ z.state = (IF Late(w) /\ ~holds THEN "quiescent" ELSE w.state)
      /\ Gone(z) => w.state = "quiescent"
      /\ ~Gone(z) => AttemptOK(z)
  BY <1>1, <1>2, ExpiredRecord
<1>4. z.state = "quiescent" => z.reconcile = Never /\ z.deadline = Never
  BY <1>1, <1>2, ExpiredRecord
<1> HIDE DEF z
<1>5. Late(w) => w.state \notin {"none", "submitting", "terminal", "quiescent"}
  BY <1>1 DEF Late, ElapsedOK, Never
<1>6. Same(x, z)
  BY <1>1, <1>3 DEF Same
<1>7. CASE ~Gone(z)
  <2>1. y = z
    BY <1>7 DEF Retired
  <2>2. Ticks(x, z)
    BY <1>1, <1>3, <1>5, <1>6 DEF Ticks
  <2>3. ~(z.state = "terminal" /\ x.state = "quiescent")
    BY <1>1, <1>3
  <2>4. Late(w) /\ ~holds <=> z.state = "quiescent" /\ x.state # "quiescent"
    BY <1>1, <1>3, <1>5
  <2>5. z.entry = x.entry /\ (z.state \in {"none", "terminal"} <=> x.state \in {"none", "terminal"})
    BY <1>1, <1>3, <1>5, <1>6 DEF Same
  <2> QED BY <1>3, <1>7, <2>1, <2>2, <2>3, <2>4, <2>5 DEF w, z
<1>8. CASE Gone(z)
  <2>1. y = Finished(z, "neverStarted")
    BY <1>8 DEF Retired
  <2>2. "neverStarted" \in Outcomes
    BY DEF Outcomes
  <2>3. y \in LoadAttempt /\ Same(z, y) /\ y.state = "terminal"
    BY <1>3, <2>1, <2>2, FinishedRecord
  <2>4. z.state = "quiescent" /\ x.state = "quiescent"
    BY <1>1, <1>3, <1>8 DEF Gone
  <2>5. ~Late(w)
    BY <1>1, <1>5, <2>4
  <2>6. Same(x, y)
    BY <1>6, <2>3 DEF Same
  <2>7. AttemptOK(y)
    <3>1. z.successor # None => z.revoked
      BY <1>1, <1>3 DEF Same, ElapsedOK
    <3> QED BY <1>3, <2>1, <2>2, <2>3, <2>4, <3>1, FinishedRecord DEF AttemptOK, Same
  <2>8. Ticks(x, y)
    BY <2>3, <2>4, <2>6 DEF Ticks
  <2>9. z.entry = x.entry
    BY <1>6, SMTT(40) DEF Same
  <2> HIDE DEF y
  <2> QED BY <1>3, <1>8, <2>3, <2>4, <2>5, <2>7, <2>8, <2>9 DEF w, z, y
<1> QED BY <1>7, <1>8

\* TimerAdvanced before the reconciliation is looked at.
LEMMA RetireKeeps ==
  ASSUME NEW l, LifeOK(l)
  PROVE  LET m == RetireAll(ExpireAll(Elapse(l))) IN
         /\ LifeOK(m)
         /\ \A a \in Attempts : Ticks(l.attempts[a], m.attempts[a])
         /\ \A e \in Entries : \/ m.owner[e] = l.owner[e]
                               \/ m.owner[e] = None /\ m.attempts[l.owner[e]].state = "terminal"
         /\ \/ m.active = l.active
            \/ m.active = None /\ m.due /\ m.attempts[l.active].state = "quiescent"
         /\ (\E a \in Attempts : m.attempts[a].state = "quiescent"
                                 /\ l.attempts[a].state # "quiescent") => m.due
         /\ l.due => m.due
         /\ m.deferred = l.deferred /\ m.required = l.required
         /\ m.troubled = l.troubled /\ m.tombs = l.tombs /\ m.next = l.next
<1> DEFINE k == Elapse(l)
           j == ExpireAll(k)
           S == {a \in Live(j) : j.attempts[a].state = "quiescent" /\ j.attempts[a].retire = 0}
           over == S \cap Live(j)
           m == RetireAll(j)
           x == l.attempts
           y == m.attempts
           h == [a \in Attempts |-> Holds(k, a)]
<1>1. /\ l \in Lives /\ AttemptsOK(l) /\ LinksOK(l) /\ OwnersOK(l) /\ ActiveOK(l)
      /\ x \in [Attempts -> LoadAttempt] /\ l.owner \in [Entries -> Attempts \cup {None}]
      /\ l.active \in Attempts \cup {None}
  BY LifeFields DEF LifeOK
<1>2. /\ k \in Lives
      /\ \A a \in Attempts : k.attempts[a] = Elapsed(x[a]) /\ k.attempts[a] \in LoadAttempt
      /\ k.owner = l.owner /\ k.active = l.active
      /\ k.ended = l.ended /\ k.deferred = l.deferred /\ k.required = l.required
      /\ k.troubled = l.troubled /\ k.tombs = l.tombs /\ k.next = l.next /\ k.due = l.due
  BY ElapseFields
<1> HIDE DEF k
<1>3. \A a \in Attempts : h[a] \in BOOLEAN /\ (h[a] => x[a].entry # None)
  BY <1>1, <1>2, Values, ZenonT(60) DEF Holds, ActiveOK
<1>4. \A a \in Attempts : x[a] \in LoadAttempt /\ AttemptOK(x[a])
  BY <1>1 DEF AttemptsOK
<1> DEFINE z(a) == Expired(Elapsed(x[a]), h[a])
<1>5. ASSUME NEW a \in Attempts
      PROVE  /\ z(a) \in LoadAttempt /\ Retired(z(a)) \in LoadAttempt /\ AttemptOK(Retired(z(a)))
             /\ Ticks(x[a], Retired(z(a))) /\ z(a).entry = x[a].entry
             /\ (z(a).state \in {"none", "terminal"} <=> x[a].state \in {"none", "terminal"})
             /\ Gone(z(a)) <=> Retired(z(a)).state = "terminal" /\ x[a].state = "quiescent"
             /\ Gone(z(a)) => x[a].state = "quiescent"
             /\ Late(Elapsed(x[a])) /\ ~h[a] <=>
                  Retired(z(a)).state = "quiescent" /\ x[a].state # "quiescent"
  <2> DEFINE b == h[a]
  <2>1. b \in BOOLEAN /\ (b => x[a].entry # None)
    BY <1>3
  <2> HIDE DEF b, h
  <2>2. h[a] = b
    BY DEF b
  <2> QED BY <1>4, <2>1, <2>2, TickRecord
<1>6. \A a \in Attempts : Expired(k.attempts[a], Holds(k, a)) = z(a)
  BY <1>2
<1> HIDE DEF z, h
<1>7. /\ j \in Lives
      /\ \A a \in Attempts : j.attempts[a] = z(a)
      /\ j.active = (IF k.active \in Idle(k) THEN None ELSE k.active)
      /\ j.due = (k.due \/ Idle(k) # {})
      /\ j.owner = k.owner
      /\ j.ended = k.ended /\ j.deferred = k.deferred /\ j.required = k.required
      /\ j.troubled = k.troubled /\ j.tombs = k.tombs /\ j.next = k.next
  <2>1. \A a \in Attempts : Expired(k.attempts[a], Holds(k, a)) \in LoadAttempt
    BY <1>5, <1>6
  <2> HIDE DEF j
  <2>2. \A a \in Attempts : j.attempts[a] = Expired(k.attempts[a], Holds(k, a))
    BY <1>2, <2>1, ExpireFields DEF j
  <2>3. j.active = (IF k.active \in Idle(k) THEN None ELSE k.active)
    BY <1>2, <2>1, ExpireFields DEF j
  <2> QED BY <1>2, <1>6, <2>1, <2>2, <2>3, ExpireFields DEF j
<1> HIDE DEF j
<1>8. over = {a \in Attempts : Gone(z(a))}
  BY <1>7 DEF Live, Present, Gone
<1>9. m = CommitAll(j, S, "neverStarted") /\ "neverStarted" \in Outcomes
  BY DEF RetireAll, Outcomes
<1> HIDE DEF m
<1>10. /\ m \in Lives
       /\ y = [a \in Attempts |-> IF a \in over THEN Finished(j.attempts[a], "neverStarted")
                                  ELSE j.attempts[a]]
       /\ m.owner = [e \in Entries |-> IF \E a \in over : j.attempts[a].entry = e THEN None
                                       ELSE j.owner[e]]
       /\ m.active = (IF j.active \in over THEN None ELSE j.active)
       /\ m.ended = (j.ended \/ (j.active \in over /\ j.attempts[j.active].successor = None
                                                  /\ ~j.attempts[j.active].revoked))
       /\ m.deferred = j.deferred /\ m.required = j.required /\ m.troubled = j.troubled
       /\ m.tombs = j.tombs /\ m.next = j.next /\ m.due = j.due
  <2> HIDE DEF S
  <2> QED BY <1>7, <1>9, CommitFields
<1> HIDE DEF over, S
<1>11. \A a \in Attempts : y[a] = Retired(z(a))
  BY <1>7, <1>8, <1>10 DEF Retired
<1>12. ASSUME NEW a \in Attempts
       PROVE  /\ AttemptOK(y[a]) /\ Ticks(x[a], y[a])
              /\ a \in over <=> y[a].state = "terminal" /\ x[a].state = "quiescent"
              /\ a \in Idle(k) <=> y[a].state = "quiescent" /\ x[a].state # "quiescent"
  <2>1. AttemptOK(y[a]) /\ Ticks(x[a], y[a])
    BY <1>5, <1>11
  <2>2. a \in over <=> y[a].state = "terminal" /\ x[a].state = "quiescent"
    BY <1>5, <1>8, <1>11
  <2>3. a \in Idle(k) <=> Late(Elapsed(x[a])) /\ ~h[a]
    BY <1>2 DEF Idle, h
  <2> QED BY <1>5, <1>11, <2>1, <2>2, <2>3
<1>13. \A e \in Entries : m.owner[e] = (IF l.owner[e] # None /\ l.owner[e] \in over THEN None ELSE l.owner[e])
  <2> SUFFICES ASSUME NEW e \in Entries
               PROVE  (\E a \in over : j.attempts[a].entry = e) <=> (l.owner[e] # None /\ l.owner[e] \in over)
    BY <1>2, <1>7, <1>10
  <2>1. over \subseteq Attempts
    BY <1>8
  <2>2. \A a \in Attempts : j.attempts[a].entry = x[a].entry
    BY <1>5, <1>7
  <2>3. ASSUME NEW a \in over, j.attempts[a].entry = e
        PROVE  l.owner[e] # None /\ l.owner[e] \in over
    <3>1. x[a].state = "quiescent" /\ x[a].entry = e /\ a \in Attempts
      BY <1>12, <2>1, <2>2, <2>3
    <3> QED BY <1>1, <2>3, <3>1, Values DEF OwnersOK
  <2>4. ASSUME l.owner[e] # None, l.owner[e] \in over
        PROVE  \E a \in over : j.attempts[a].entry = e
    BY <1>1, <2>1, <2>2, <2>4 DEF OwnersOK
  <2> QED BY <2>3, <2>4
<1>14. /\ j.active \notin over
       /\ m.active = (IF l.active \in Idle(k) THEN None ELSE l.active)
       /\ m.ended = l.ended /\ m.due = (l.due \/ Idle(k) # {})
  <2>1. j.active \in {None, l.active}
    BY <1>2, <1>7
  <2>2. None \notin over
    BY <1>8, Values
  <2>3. l.active # None => l.active \notin over
    BY <1>1, <1>12 DEF ActiveOK
  <2>4. j.active \notin over /\ j.ended \in BOOLEAN
    BY <1>7, <2>1, <2>2, <2>3, LifeFields
  <2>5. m.ended = l.ended
    BY <1>2, <1>7, <1>10, <2>4
  <2>6. m.active = (IF l.active \in Idle(k) THEN None ELSE l.active)
    BY <1>2, <1>7, <1>10, <2>4
  <2>7. m.due = (l.due \/ Idle(k) # {})
    BY <1>2, <1>7, <1>10
  <2> QED BY <2>4, <2>5, <2>6, <2>7
<1>15. Idle(k) \subseteq Attempts
  BY DEF Idle
<1>16. LinksOK(m)
  <2>1. \A a \in Attempts : /\ y[a].replaced = x[a].replaced /\ y[a].successor = x[a].successor
                            /\ (y[a].state = "none" <=> x[a].state = "none")
    BY <1>12 DEF Ticks, Same
  <2> QED BY <1>1, <1>2, <1>7, <1>10, <2>1, LinksStay
<1>17. OwnersOK(m)
  <2>1. ASSUME NEW e \in Entries, m.owner[e] # None
        PROVE  y[m.owner[e]].state \notin {"none", "terminal"} /\ y[m.owner[e]].entry = e
    <3>1. m.owner[e] = l.owner[e] /\ l.owner[e] \in Attempts /\ l.owner[e] \notin over
      BY <1>1, <1>13, <2>1
    <3>2. x[l.owner[e]].state \notin {"none", "terminal"} /\ x[l.owner[e]].entry = e
      BY <1>1, <2>1, <3>1 DEF OwnersOK
    <3> QED BY <1>12, <3>1, <3>2 DEF Ticks, Same
  <2>2. ASSUME NEW a \in Attempts, y[a].state \notin {"none", "terminal"}, y[a].entry # None
        PROVE  m.owner[y[a].entry] = a
    <3>1. x[a].state \notin {"none", "terminal"} /\ y[a].entry = x[a].entry /\ a \notin over
      BY <1>12, <2>2 DEF Ticks, Same
    <3>2. x[a].entry \in Entries /\ l.owner[x[a].entry] = a
      BY <1>1, <2>2, <3>1 DEF OwnersOK, LoadAttempt
    <3> QED BY <1>13, <3>1, <3>2
  <2> QED BY <2>1, <2>2 DEF OwnersOK
<1>18. ActiveOK(m)
  <2>1. m.active # None => /\ m.active = l.active /\ m.active \in Attempts /\ m.active \notin Idle(k)
                           /\ m.active \notin over
    BY <1>1, <1>2, <1>7, <1>14
  <2>2. m.active # None => /\ y[m.active].state = x[m.active].state
                           /\ y[m.active].entry = x[m.active].entry
                           /\ y[m.active].loaded = x[m.active].loaded
    BY <1>12, <2>1 DEF Ticks, Same
  <2>3. ASSUME NEW a \in Attempts, y[a].state \in {"starting", "active"} PROVE m.active = a
    <3>1. x[a].state = y[a].state /\ a \notin Idle(k)
      BY <1>12, <2>3 DEF Ticks
    <3>2. l.active = a
      BY <1>1, <2>3, <3>1 DEF ActiveOK
    <3> QED BY <1>14, <3>1, <3>2
  <2> QED BY <1>1, <1>14, <2>1, <2>2, <2>3 DEF ActiveOK
<1>19. LifeOK(m)
  BY <1>10, <1>12, <1>16, <1>17, <1>18 DEF LifeOK, AttemptsOK
<1>20. \A e \in Entries : \/ m.owner[e] = l.owner[e]
                          \/ m.owner[e] = None /\ y[l.owner[e]].state = "terminal"
  BY <1>1, <1>12, <1>13
<1>21. \/ m.active = l.active
       \/ m.active = None /\ m.due /\ y[l.active].state = "quiescent"
  BY <1>12, <1>14, <1>15
<1>22. (\E a \in Attempts : y[a].state = "quiescent" /\ x[a].state # "quiescent") => m.due
  BY <1>12, <1>14
<1> QED BY <1>2, <1>7, <1>10, <1>12, <1>14, <1>19, <1>20, <1>21, <1>22 DEF m, j, k

\* TimerAdvanced: it only takes away, and asks for a reconciliation when it has.
LEMMA TimerKeeps ==
  ASSUME NEW l, LifeOK(l)
  PROVE  LET m == TimerAdvanced(l) IN
         /\ LifeOK(m) /\ (DeferredOK(l) => DeferredOK(m))
         /\ \A a \in Attempts : Ticks(l.attempts[a], m.attempts[a])
         /\ \A e \in Entries : m.owner[e] \in {None, l.owner[e]}
         /\ \/ m.active = l.active
            \/ m.active = None /\ m.due
         /\ (\E a \in Attempts : m.attempts[a].state = "quiescent"
                                 /\ l.attempts[a].state # "quiescent") => m.due
         /\ l.due => m.due
         /\ m.required = (l.required /\ (Proactive(m) \/ m.deferred # << >> \/ m.troubled))
         /\ m.required => m.due
         /\ m.deferred = l.deferred
         /\ m.troubled = l.troubled /\ m.tombs = l.tombs /\ m.next = l.next
<1> DEFINE j == RetireAll(ExpireAll(Elapse(l)))
           s == StopReconciliation(j)
           m == TimerAdvanced(l)
<1>1. m = Polled(s)
  BY DEF TimerAdvanced
<1>2. /\ LifeOK(j)
      /\ \A a \in Attempts : Ticks(l.attempts[a], j.attempts[a])
      /\ \A e \in Entries : \/ j.owner[e] = l.owner[e]
                            \/ j.owner[e] = None /\ j.attempts[l.owner[e]].state = "terminal"
      /\ \/ j.active = l.active
         \/ j.active = None /\ j.due /\ j.attempts[l.active].state = "quiescent"
      /\ (\E a \in Attempts : j.attempts[a].state = "quiescent"
                              /\ l.attempts[a].state # "quiescent") => j.due
      /\ l.due => j.due
      /\ j.deferred = l.deferred /\ j.required = l.required
      /\ j.troubled = l.troubled /\ j.tombs = l.tombs /\ j.next = l.next
  BY RetireKeeps
<1> HIDE DEF j, m
<1>3. j \in Lives
  BY <1>2 DEF LifeOK
<1> DEFINE q == j.required /\ (Proactive(j) \/ j.deferred # << >> \/ j.troubled)
<1>4. /\ s \in Lives /\ s.attempts = j.attempts /\ s.owner = j.owner /\ s.active = j.active
      /\ s.ended = j.ended /\ s.deferred = j.deferred /\ s.required = q
      /\ s.troubled = j.troubled /\ s.tombs = j.tombs /\ s.next = j.next /\ s.due = j.due
  <2>1. j.required \in BOOLEAN
    BY <1>3, LifeFields
  <2>2. CASE Proactive(j) \/ j.deferred # << >> \/ j.troubled
    <3>1. s = j /\ q = j.required
      BY <2>1, <2>2 DEF StopReconciliation
    <3> QED BY <1>3, <3>1
  <2>3. CASE ~(Proactive(j) \/ j.deferred # << >> \/ j.troubled)
    <3>1. s = [j EXCEPT !.required = FALSE] /\ q = FALSE
      BY <2>3 DEF StopReconciliation
    <3> HIDE DEF s, q
    <3>2. s \in Lives
      BY <1>3, <3>1 DEF Lives
    <3> QED BY <1>3, <3>1, <3>2 DEF Lives
  <2> QED BY <2>2, <2>3
<1> HIDE DEF s
<1>5. /\ m \in Lives /\ m.attempts = s.attempts /\ m.owner = s.owner /\ m.active = s.active
      /\ m.ended = s.ended /\ m.deferred = s.deferred /\ m.required = s.required
      /\ m.troubled = s.troubled /\ m.tombs = s.tombs /\ m.next = s.next
      /\ m.due = (s.due \/ s.required)
  <2>1. s.due \in BOOLEAN /\ s.required \in BOOLEAN
    BY <1>4, LifeFields
  <2>2. CASE s.required
    <3>1. m = [s EXCEPT !.due = TRUE]
      BY <1>1, <2>2 DEF Polled
    <3>2. m \in Lives
      BY <1>4, <3>1 DEF Lives
    <3> HIDE DEF q
    <3> QED BY <1>4, <2>2, <3>1, <3>2 DEF Lives
  <2>3. CASE ~s.required
    <3>1. m = s
      BY <1>1, <2>3 DEF Polled
    <3> QED BY <1>4, <2>1, <2>3, <3>1
  <2> QED BY <2>2, <2>3
<1>6. Proactive(m) <=> Proactive(j)
  BY <1>4, <1>5 DEF Proactive, Unbound, Live, Present
<1>7. LifeOK(m)
  BY <1>2, <1>4, <1>5, SameLife
<1>8. ASSUME DeferredOK(l) PROVE DeferredOK(m)
  <2> SUFFICES ASSUME NEW i \in 1 .. Len(m.deferred) PROVE Explained(m, m.deferred[i])
    BY DEF DeferredOK
  <2> DEFINE e == m.deferred[i]
  <2>1. Explained(l, e) /\ e \in Entries
    BY <1>2, <1>3, <1>4, <1>5, <1>8, LifeFields DEF DeferredOK
  <2> HIDE DEF e
  <2>2. SUFFICES ASSUME m.owner[e] # None
                 PROVE  \/ m.owner[e] = m.active \/ m.attempts[m.owner[e]].revoked
                        \/ m.attempts[m.owner[e]].state = "quiescent"
    BY DEF Explained, e
  <2>3. m.owner[e] = l.owner[e] /\ m.owner[e] \in Attempts
    BY <1>2, <1>4, <1>5, <2>1, <2>2, LifeFields
  <2> DEFINE b == m.owner[e]
  <2>4. Ticks(l.attempts[b], m.attempts[b]) /\ m.attempts[b].state \notin {"none", "terminal"}
    BY <1>2, <1>4, <1>5, <1>7, <2>1, <2>2, <2>3 DEF LifeOK, OwnersOK
  <2>5. CASE b = l.active
    <3>1. CASE m.active = l.active
      BY <2>5, <3>1
    <3>2. CASE m.active # l.active
      BY <1>2, <1>4, <1>5, <2>5, <3>2
    <3> QED BY <3>1, <3>2
  <2>6. CASE l.attempts[b].revoked \/ l.attempts[b].state = "quiescent"
    BY <2>4, <2>6 DEF Ticks, Same
  <2> QED BY <2>1, <2>2, <2>3, <2>5, <2>6 DEF Explained
<1>9. \A e \in Entries : m.owner[e] \in {None, l.owner[e]}
  BY <1>2, <1>4, <1>5
<1>10. m.required = (l.required /\ (Proactive(m) \/ m.deferred # << >> \/ m.troubled))
  BY <1>2, <1>4, <1>5, <1>6
<1>11. m.required => m.due
  BY <1>5
<1>12. l.due => m.due
  BY <1>2, <1>4, <1>5
<1> HIDE DEF q
<1>13. (\E a \in Attempts : m.attempts[a].state = "quiescent" /\ l.attempts[a].state # "quiescent")
          => m.due
  <2>1. j.due => m.due
    BY <1>4, <1>5
  <2>2. m.attempts = j.attempts
    BY <1>4, <1>5
  <2> QED BY <1>2, <2>1, <2>2
<1>14. m.active = l.active \/ (m.active = None /\ m.due)
  BY <1>2, <1>4, <1>5
<1> QED BY <1>2, <1>4, <1>5, <1>7, <1>8, <1>9, <1>10, <1>11, <1>12, <1>13, <1>14 DEF m

-----------------------------------------------------------------------------
(* What every input of the reducer but the clock, an answer and a compaction does. *)

\* An attempt goes on: what is bound, loaded, revoked or over stays so.
Grows(x, y) ==
  /\ (x.state # "none" => y.state # "none")
  /\ (x.revoked => y.revoked) /\ (x.loaded => y.loaded)
  /\ (x.entry # None => y.entry = x.entry)
  /\ (x.state = "terminal" => y.state = "terminal")
  /\ (y.state = "submitting" => x.state = "submitting")
  /\ (y.state = "accepted" => x.state = "accepted")
  /\ (y.state = "quiescent" => x.state = "quiescent")
Evolves(l, m) ==
  /\ l.next <= m.next
  /\ \A b \in Attempts : Grows(l.attempts[b], m.attempts[b])
  /\ \A b \in Attempts : b < l.next /\ l.attempts[b].state = "none" => m.attempts[b].state = "none"

\* No load is completed.
Uncompleted(l, m) ==
  \A b \in Attempts : m.attempts[b].command = "completed" => l.attempts[b].command = "completed"

\* No revoked attempt becomes the active one.
Permanent(l, m) ==
  \A b \in Attempts : l.attempts[b].revoked /\ m.active = b => l.active = b

Within(d, q) ==
  /\ \A i \in 1 .. Len(d) : \E j \in 1 .. Len(q) : d[i] = q[j]
  /\ Distinct(q) => Distinct(d)

Moves(l, m) ==
  /\ LifeOK(m) /\ Evolves(l, m) /\ Uncompleted(l, m) /\ Permanent(l, m)
  /\ Within(m.deferred, l.deferred)

LEMMA GrowsIsTransitive ==
  ASSUME NEW x, NEW y, NEW z, Grows(x, y), Grows(y, z)
  PROVE  Grows(x, z)
BY DEF Grows

LEMMA GrowsIsReflexive ==
  ASSUME NEW x
  PROVE  Grows(x, x)
BY DEF Grows

LEMMA CalmGrows ==
  ASSUME NEW x, NEW y, Calm(x, y)
  PROVE  Grows(x, y) /\ (y.command = "completed" => x.command = "completed")
BY DEF Calm, Same, Grows

LEMMA MovesIsTransitive ==
  ASSUME NEW l, NEW m, NEW n, LifeOK(l), Moves(l, m), Moves(m, n)
  PROVE  Moves(l, n)
<1>1. \A b \in Attempts : Grows(l.attempts[b], n.attempts[b])
  BY GrowsIsTransitive DEF Moves, Evolves
<1>2. l.next \in Nat /\ m.next \in Nat /\ n.next \in Nat
  BY LifeFields DEF Moves, LifeOK
<1>3. Evolves(l, n)
  <2>1. Evolves(l, m) /\ Evolves(m, n)
    BY DEF Moves
  <2>2. \A b \in Attempts : b < l.next => b < m.next
    BY <1>2, <2>1 DEF Evolves, Attempts
  <2> QED BY <1>1, <1>2, <2>1, <2>2 DEF Evolves
<1>4. Uncompleted(l, n)
  BY DEF Moves, Uncompleted
<1>5. Permanent(l, n)
  <2> SUFFICES ASSUME NEW b \in Attempts, l.attempts[b].revoked, n.active = b PROVE l.active = b
    BY DEF Permanent
  <2>1. m.attempts[b].revoked
    BY DEF Moves, Evolves, Grows
  <2>2. m.active = b
    BY <2>1 DEF Moves, Permanent
  <2> QED BY <2>2 DEF Moves, Permanent
<1>6. Within(n.deferred, l.deferred)
  <2>1. Within(m.deferred, l.deferred) /\ Within(n.deferred, m.deferred)
    BY DEF Moves
  <2> QED BY <2>1 DEF Within
<1> QED BY <1>3, <1>4, <1>5, <1>6 DEF Moves

LEMMA MovesIsReflexive ==
  ASSUME NEW l, LifeOK(l)
  PROVE  Moves(l, l)
<1>1. l.next \in Nat
  BY LifeFields DEF LifeOK
<1>2. Within(l.deferred, l.deferred)
  BY DEF Within
<1> QED BY <1>1, <1>2, GrowsIsReflexive DEF Moves, Evolves, Uncompleted, Permanent

LEMMA TidyMoves ==
  ASSUME NEW l, LifeOK(l), NEW m, Tidy(l, m), Within(m.deferred, l.deferred)
  PROVE  Moves(l, m)
<1>1. l.next \in Nat
  BY LifeFields DEF LifeOK
<1>2. \A b \in Attempts : l.attempts[b].state = "none" => m.attempts[b].state = "none"
  BY DEF Tidy, Calm
<1> QED BY <1>1, <1>2, CalmGrows DEF Moves, Tidy, Evolves, Uncompleted, Permanent

\* An update of the flags.
LEMMA FlagsMove ==
  ASSUME NEW l, LifeOK(l), NEW m \in Lives, m.attempts = l.attempts, m.owner = l.owner,
         m.active = l.active, m.ended = l.ended, m.next = l.next,
         Within(m.deferred, l.deferred)
  PROVE  Moves(l, m)
<1>1. LifeOK(m)
  BY SameLife
<1>2. l.next \in Nat
  BY LifeFields DEF LifeOK
<1> QED BY <1>1, <1>2, GrowsIsReflexive DEF Moves, Evolves, Uncompleted, Permanent

LEMMA CommitMoves ==
  ASSUME NEW l, LifeOK(l), NEW S, NEW o \in Outcomes
  PROVE  LET m == CommitAll(l, S, o) IN
         /\ Moves(l, m) /\ (DeferredOK(l) => DeferredOK(m))
         /\ \A a \in Attempts : Same(l.attempts[a], m.attempts[a])
         /\ \A a \in Attempts : a \notin S => m.attempts[a] = l.attempts[a]
         /\ \A a \in Attempts : a \in S /\ l.attempts[a].state # "none" =>
                m.attempts[a].state = "terminal"
         /\ \A e \in Entries : m.owner[e] = (IF l.owner[e] \in S THEN None ELSE l.owner[e])
         /\ m.active = (IF l.active \in S THEN None ELSE l.active)
         /\ m.deferred = l.deferred /\ m.required = l.required /\ m.troubled = l.troubled
         /\ m.tombs = l.tombs /\ m.next = l.next /\ m.due = l.due
<1> DEFINE m == CommitAll(l, S, o)
<1>1. /\ LifeOK(m)
      /\ \A a \in Attempts : Same(l.attempts[a], m.attempts[a])
      /\ \A a \in Attempts : a \notin S => m.attempts[a] = l.attempts[a]
      /\ \A a \in Attempts : a \in S /\ l.attempts[a].state # "none" =>
             m.attempts[a].state = "terminal"
      /\ \A a \in Attempts : l.attempts[a].state = "none" => m.attempts[a] = l.attempts[a]
      /\ \A e \in Entries : m.owner[e] = (IF l.owner[e] \in S THEN None ELSE l.owner[e])
      /\ m.active = (IF l.active \in S THEN None ELSE l.active)
      /\ m.deferred = l.deferred /\ m.required = l.required /\ m.troubled = l.troubled
      /\ m.tombs = l.tombs /\ m.next = l.next /\ m.due = l.due
  BY CommitKeeps
<1> HIDE DEF m
<1>2. l \in Lives /\ l.next \in Nat /\ l.deferred \in Seq(Entries)
      /\ l.owner \in [Entries -> Attempts \cup {None}] /\ l.active \in Attempts \cup {None}
  BY LifeFields DEF LifeOK
<1>3. ASSUME NEW a \in Attempts
      PROVE  Grows(l.attempts[a], m.attempts[a])
             /\ (m.attempts[a].command = "completed" => l.attempts[a].command = "completed")
  <2>1. Same(l.attempts[a], m.attempts[a])
    BY <1>1
  <2>2. m.attempts[a].state = l.attempts[a].state \/
        (m.attempts[a].state = "terminal" /\ l.attempts[a].state # "none")
    BY <1>1
  <2> QED BY <2>1, <2>2 DEF Grows, Same
<1>4. Permanent(l, m)
  BY <1>1, Values DEF Permanent
<1>5. Within(m.deferred, l.deferred)
  BY <1>1 DEF Within
<1>6. Moves(l, m)
  BY <1>1, <1>2, <1>3, <1>4, <1>5 DEF Moves, Evolves, Uncompleted
<1>7. ASSUME DeferredOK(l) PROVE DeferredOK(m)
  <2> SUFFICES ASSUME NEW i \in 1 .. Len(m.deferred) PROVE Explained(m, m.deferred[i])
    BY DEF DeferredOK
  <2>1. Explained(l, m.deferred[i]) /\ m.deferred[i] \in Entries
    BY <1>1, <1>2, <1>7 DEF DeferredOK
  <2> QED BY <1>1, <1>2, <2>1 DEF Explained
<1> QED BY <1>1, <1>6, <1>7 DEF m

-----------------------------------------------------------------------------
(* PlaylistSnapshot. *)

\* The flags that a snapshot decides about in the end.
SameFlags(l, m) ==
  /\ m.deferred = l.deferred /\ m.required = l.required /\ m.troubled = l.troubled
  /\ m.tombs = l.tombs /\ m.next = l.next /\ m.due = l.due

\* The active attempt is in the playlist.
Current(l, e) == l.active # None => l.attempts[l.active].entry = e

LEMMA CurrentOwner ==
  ASSUME NEW l, LifeOK(l), NEW e \in Entries
  PROVE  Current(l, e) <=> l.active \in {None, l.owner[e]}
<1>1. l \in Lives /\ OwnersOK(l) /\ ActiveOK(l) /\ l.active \in Attempts \cup {None}
      /\ l.owner \in [Entries -> Attempts \cup {None}]
  BY LifeFields DEF LifeOK
<1>2. l.active # None => l.active \in Attempts /\ l.attempts[l.active].state \notin {"none", "terminal"}
                         /\ l.attempts[l.active].entry # None
  BY <1>1 DEF ActiveOK
<1>3. ASSUME Current(l, e) PROVE l.active \in {None, l.owner[e]}
  BY <1>1, <1>2, <1>3 DEF Current, OwnersOK
<1>4. ASSUME l.active \in {None, l.owner[e]} PROVE Current(l, e)
  BY <1>1, <1>2, <1>4 DEF Current, OwnersOK
<1> QED BY <1>3, <1>4

LEMMA DropOtherKeeps ==
  ASSUME NEW l, LifeOK(l), DeferredOK(l), NEW e \in Entries
  PROVE  LET m == DropOther(l, e) IN
         /\ Moves(l, m) /\ DeferredOK(m) /\ SameFlags(l, m) /\ Current(m, e)
         /\ \A f \in Entries : m.owner[f] \in {None, l.owner[f]}
         /\ \A f \in Entries : f # e /\ l.active # None /\ l.owner[f] = l.active => m.owner[f] = None
<1> DEFINE m == DropOther(l, e)
           a == l.active
<1>1. l \in Lives /\ OwnersOK(l) /\ ActiveOK(l) /\ a \in Attempts \cup {None}
      /\ l.owner \in [Entries -> Attempts \cup {None}]
  BY LifeFields DEF LifeOK
<1>2. a # None => l.attempts[a].entry # None
  BY <1>1 DEF ActiveOK
<1>3. \A f \in Entries : a # None /\ l.owner[f] = a => l.attempts[a].entry = f
  BY <1>1 DEF OwnersOK
<1>4. CASE a # None /\ l.attempts[a].entry # e
  <2>1. m = CommitAll(l, {a}, "stopped") /\ "stopped" \in Outcomes
    BY <1>2, <1>4 DEF DropOther, Commit, Outcomes
  <2> DEFINE S == {a}
  <2> HIDE DEF m
  <2>2. /\ Moves(l, m) /\ DeferredOK(m)
        /\ \A f \in Entries : m.owner[f] = (IF l.owner[f] \in S THEN None ELSE l.owner[f])
        /\ m.active = (IF l.active \in S THEN None ELSE l.active)
        /\ m.deferred = l.deferred /\ m.required = l.required /\ m.troubled = l.troubled
        /\ m.tombs = l.tombs /\ m.next = l.next /\ m.due = l.due
    BY <2>1, CommitMoves
  <2> QED BY <1>4, <2>2 DEF m, SameFlags, Current
<1>5. CASE ~(a # None /\ l.attempts[a].entry # e)
  <2>1. m = l
    BY <1>5 DEF DropOther
  <2> QED BY <1>3, <1>5, <2>1, MovesIsReflexive DEF SameFlags, Current
<1> QED BY <1>4, <1>5

\* bind_attempt of an unbound attempt to an entry that nobody owns.
LEMMA BindFree ==
  ASSUME NEW l, LifeOK(l), NEW e \in Entries, l.owner[e] = None, NEW a \in Attempts,
         l.attempts[a].state \notin {"none", "terminal", "submitting"}, l.attempts[a].entry = None
  PROVE  LET m == Bind(l, a, e) IN
         /\ Moves(l, m) /\ SameFlags(l, m)
         /\ m.owner[e] = a /\ \A f \in Entries \ {e} : m.owner[f] = l.owner[f]
         /\ m.active = l.active
         /\ \A b \in Attempts \ {a} : m.attempts[b] = l.attempts[b]
<1> DEFINE x == l.attempts[a]
           v == BoundTo(x, e)
           O == [l.owner EXCEPT ![e] = a]
           n == [l EXCEPT !.attempts[a] = v]
           m == Bind(l, a, e)
<1>1. /\ l \in Lives /\ AttemptsOK(l) /\ LinksOK(l) /\ OwnersOK(l) /\ ActiveOK(l)
      /\ l.attempts \in [Attempts -> LoadAttempt] /\ l.owner \in [Entries -> Attempts \cup {None}]
      /\ l.active \in Attempts \cup {None} /\ l.next \in Nat
  BY LifeFields DEF LifeOK
<1>2. x \in LoadAttempt /\ AttemptOK(x) /\ e # None
  BY <1>1, Values DEF AttemptsOK
<1>3. m = [n EXCEPT !.owner = O]
  <2>1. a \in Live(l)
    BY DEF Live, Present
  <2> QED BY <2>1 DEF Bind
<1>4. /\ v \in LoadAttempt
      /\ v.entry = e
      /\ v.reconcile = Never
      /\ v.state = (IF x.state \in {"accepted", "mayEmit"} THEN "bound" ELSE x.state)
      /\ v.replaced = x.replaced /\ v.successor = x.successor /\ v.revoked = x.revoked
      /\ v.loaded = x.loaded /\ v.command = x.command
  BY <1>2, BoundToRecord
<1>5. AttemptOK(v)
  BY <1>2, BoundToOK
<1> HIDE DEF v, m
<1>6. /\ n \in Lives
      /\ n.attempts[a] = v /\ \A b \in Attempts \ {a} : n.attempts[b] = l.attempts[b]
      /\ n.owner = l.owner /\ n.active = l.active
      /\ n.ended = l.ended /\ n.deferred = l.deferred /\ n.required = l.required
      /\ n.troubled = l.troubled /\ n.tombs = l.tombs /\ n.next = l.next /\ n.due = l.due
  BY <1>1, <1>4, AttemptReplaced
<1> HIDE DEF n
<1>7. O \in [Entries -> Attempts \cup {None}] /\ O[e] = a /\ \A f \in Entries \ {e} : O[f] = l.owner[f]
  BY <1>1
<1> HIDE DEF O
<1>8. /\ m \in Lives /\ m.attempts = n.attempts /\ m.owner = O /\ m.active = n.active
      /\ m.ended = n.ended /\ m.deferred = n.deferred /\ m.required = n.required
      /\ m.troubled = n.troubled /\ m.tombs = n.tombs /\ m.next = n.next /\ m.due = n.due
  <2>1. m \in Lives
    BY <1>3, <1>6, <1>7 DEF Lives
  <2> QED BY <1>3, <1>6, <2>1 DEF Lives
<1>9. m.attempts[a] = v /\ \A b \in Attempts \ {a} : m.attempts[b] = l.attempts[b]
  BY <1>6, <1>8
<1>10. LinksOK(m)
  <2>1. \A b \in Attempts : /\ m.attempts[b].replaced = l.attempts[b].replaced
                            /\ m.attempts[b].successor = l.attempts[b].successor
                            /\ (m.attempts[b].state = "none" <=> l.attempts[b].state = "none")
    BY <1>4, <1>9
  <2> QED BY <1>1, <1>6, <1>8, <2>1, LinksStay
<1>11. \A f \in Entries : l.owner[f] # None => l.owner[f] # a
  BY <1>1, Values DEF OwnersOK
<1>12. OwnersOK(m)
  <2>1. ASSUME NEW f \in Entries, m.owner[f] # None
        PROVE  m.attempts[m.owner[f]].state \notin {"none", "terminal"}
               /\ m.attempts[m.owner[f]].entry = f
    <3>1. CASE f = e
      BY <1>4, <1>7, <1>8, <1>9, <3>1
    <3>2. CASE f # e
      BY <1>1, <1>7, <1>8, <1>9, <1>11, <2>1, <3>2 DEF OwnersOK
    <3> QED BY <3>1, <3>2
  <2>2. ASSUME NEW b \in Attempts, m.attempts[b].state \notin {"none", "terminal"},
               m.attempts[b].entry # None
        PROVE  m.owner[m.attempts[b].entry] = b
    <3>1. CASE b = a
      BY <1>4, <1>7, <1>8, <1>9, <3>1
    <3>2. CASE b # a
      <4>1. l.attempts[b].entry \in Entries /\ l.owner[l.attempts[b].entry] = b
        BY <1>1, <1>9, <2>2, <3>2 DEF OwnersOK, LoadAttempt
      <4>2. l.attempts[b].entry # e
        BY <4>1, Values
      <4> QED BY <1>7, <1>8, <1>9, <3>2, <4>1, <4>2
    <3> QED BY <3>1, <3>2
  <2> QED BY <2>1, <2>2 DEF OwnersOK
<1>13. l.active # a
  BY <1>1, Values DEF ActiveOK
<1>14. ActiveOK(m)
  <2>1. v.state \notin {"starting", "active"}
    BY <1>2, <1>4 DEF AttemptOK
  <2> QED BY <1>1, <1>6, <1>8, <1>9, <1>13, <2>1 DEF ActiveOK
<1>15. LifeOK(m)
  BY <1>1, <1>5, <1>8, <1>9, <1>10, <1>12, <1>14 DEF LifeOK, AttemptsOK
<1>16. Grows(x, v)
  BY <1>4 DEF Grows
<1>17. Evolves(l, m) /\ Uncompleted(l, m) /\ Permanent(l, m)
  <2>1. \A b \in Attempts : Grows(l.attempts[b], m.attempts[b])
    BY <1>9, <1>16, GrowsIsReflexive
  <2>2. \A b \in Attempts : l.attempts[b].state = "none" => m.attempts[b].state = "none"
    BY <1>9
  <2> QED BY <1>1, <1>4, <1>6, <1>8, <1>9, <2>1, <2>2 DEF Evolves, Uncompleted, Permanent
<1>18. Within(m.deferred, l.deferred)
  BY <1>6, <1>8 DEF Within
<1> QED BY <1>6, <1>7, <1>8, <1>9, <1>15, <1>17, <1>18 DEF m, Moves, SameFlags

\* Starting the owner of the entry e moves the transport to nobody else.
LEMMA StartCurrent ==
  ASSUME NEW l, LifeOK(l), NEW e \in Entries, l.active \in {None, l.owner[e]},
         NEW observed \in BOOLEAN,
         \A i \in 1 .. Len(l.deferred) : l.deferred[i] = e \/ Explained(l, l.deferred[i])
  PROVE  LET m == StartOwner(l, e, observed) IN
         /\ Moves(l, m) /\ DeferredOK(m) /\ SameFlags(l, m) /\ m.owner = l.owner
         /\ m.active \in {None, m.owner[e]}
         /\ \A b \in Attempts : Calm(l.attempts[b], m.attempts[b])
         /\ l.owner[e] # None => \/ m.active = l.owner[e]
                                 \/ /\ m.active = l.active
                                    /\ \/ l.attempts[l.owner[e]].revoked
                                       \/ l.attempts[l.owner[e]].state = "quiescent"
<1> DEFINE a == l.owner[e]
           m == StartOwner(l, e, observed)
<1>1. /\ l \in Lives /\ l.owner \in [Entries -> Attempts \cup {None}] /\ l.next \in Nat
      /\ l.deferred \in Seq(Entries)
  BY LifeFields DEF LifeOK
<1>2. CASE a = None
  <2>1. m = l
    BY <1>2 DEF StartOwner
  <2>2. DeferredOK(l)
    BY <1>2 DEF DeferredOK, Explained
  <2> QED BY <1>2, <2>1, <2>2, MovesIsReflexive, CalmIsReflexive DEF SameFlags
<1>3. CASE a # None
  <2> HIDE DEF m
  <2>1. /\ Started(l, m) /\ LifeOK(m)
        /\ m.active = (IF l.attempts[a].revoked \/ l.attempts[a].state = "quiescent"
                       THEN l.active ELSE a)
    BY <1>3, StartOwnerKeeps DEF m
  <2>2. SameFlags(l, m) /\ m.owner = l.owner
    BY <2>1 DEF Started, SameFlags
  <2>3. \A b \in Attempts : Calm(l.attempts[b], m.attempts[b])
    BY <2>1 DEF Started
  <2>4. Evolves(l, m) /\ Uncompleted(l, m)
    <3>1. \A b \in Attempts : l.attempts[b].state = "none" => m.attempts[b].state = "none"
      BY <2>2, <2>3 DEF Calm
    <3> QED BY <1>1, <2>2, <2>3, <3>1, CalmGrows DEF Evolves, Uncompleted, SameFlags
  <2>5. Permanent(l, m)
    BY <2>1 DEF Permanent
  <2>6. Moves(l, m)
    BY <2>1, <2>2, <2>4, <2>5 DEF Moves, SameFlags, Within
  <2>7. DeferredOK(m)
    <3> SUFFICES ASSUME NEW i \in 1 .. Len(m.deferred) PROVE Explained(m, m.deferred[i])
      BY DEF DeferredOK
    <3> DEFINE g == m.deferred[i]
    <3>1. g \in Entries /\ (g = e \/ Explained(l, g))
      BY <1>1, <2>2 DEF SameFlags
    <3> HIDE DEF g
    <3>2. a \in Attempts /\ Calm(l.attempts[a], m.attempts[a])
      BY <1>1, <1>3, <2>3, ZenonT(40)
    <3>3. CASE g = e
      BY <2>1, <2>2, <3>2, <3>3, ZenonT(40) DEF Explained, Calm, Same, g
    <3>4. CASE g # e /\ l.owner[g] # None
      <4>1. Calm(l.attempts[l.owner[g]], m.attempts[l.owner[g]])
        BY <1>1, <2>3, <3>1, <3>4
      <4>2. l.owner[g] # a
        BY <1>1, <1>3, <3>1, <3>4 DEF LifeOK, OwnersOK
      <4>3. l.owner[g] # l.active
        BY <3>4, <4>2
      <4> QED BY <2>2, <3>1, <3>4, <4>1, <4>3 DEF Explained, Calm, Same, g
    <3>5. CASE g # e /\ l.owner[g] = None
      BY <2>2, <3>5 DEF Explained, g
    <3> QED BY <3>3, <3>4, <3>5
  <2>8. m.active \in {None, m.owner[e]}
    BY <2>1, <2>2
  <2>9. \/ m.active = a
        \/ /\ m.active = l.active
           /\ l.attempts[a].revoked \/ l.attempts[a].state = "quiescent"
    BY <2>1
  <2> QED BY <2>2, <2>3, <2>6, <2>7, <2>8, <2>9 DEF m
<1> QED BY <1>2, <1>3

LEMMA BindClaimKeeps ==
  ASSUME NEW l, LifeOK(l), DeferredOK(l), NEW e \in Entries, Current(l, e), NEW t
  PROVE  LET m == BindClaim(l, e, t) IN
         /\ Moves(l, m) /\ SameFlags(l, m) /\ m.active = l.active
         /\ \A f \in Entries \ {e} : m.owner[f] = l.owner[f]
         /\ m.active \in {None, m.owner[e]}
         /\ \A i \in 1 .. Len(m.deferred) : m.deferred[i] = e \/ Explained(m, m.deferred[i])
<1> DEFINE C == Claims(l, e, t)
           a == Largest(C)
           m == BindClaim(l, e, t)
<1>1. /\ l \in Lives /\ l.owner \in [Entries -> Attempts \cup {None}]
      /\ l.deferred \in Seq(Entries) /\ OwnersOK(l)
  BY LifeFields DEF LifeOK
<1>2. l.active \in {None, l.owner[e]}
  BY CurrentOwner
<1>3. C \in SUBSET Attempts
  BY DEF Claims, Unbound, Live, Present
<1>4. CASE Cardinality(C) = 1
  <2>1. C # {}
    BY <1>4, FS_EmptySet
  <2>2. a \in C
    BY <1>3, <2>1, LargestOne, ZenonT(40)
  <2>3. /\ a \in Attempts /\ l.owner[e] = None /\ l.attempts[a].entry = None
        /\ l.attempts[a].state \notin {"none", "terminal", "submitting"}
    BY <2>2 DEF Claims, Unbound, Live, Present
  <2>4. m = Bind(l, a, e)
    BY <1>4 DEF BindClaim
  <2> HIDE DEF m, a
  <2>5. /\ Moves(l, m) /\ SameFlags(l, m)
        /\ m.owner[e] = a /\ \A f \in Entries \ {e} : m.owner[f] = l.owner[f]
        /\ m.active = l.active
        /\ \A b \in Attempts \ {a} : m.attempts[b] = l.attempts[b]
    BY <2>3, <2>4, BindFree
  <2>6. m.active = None
    BY <1>2, <2>3, <2>5
  <2>7. ASSUME NEW i \in 1 .. Len(m.deferred), m.deferred[i] # e PROVE Explained(m, m.deferred[i])
    <3> DEFINE g == m.deferred[i]
    <3>1. g \in Entries \ {e} /\ Explained(l, g)
      BY <1>1, <2>5, <2>7 DEF DeferredOK, SameFlags
    <3>2. l.owner[g] # None => l.owner[g] \in Attempts \ {a}
      BY <1>1, <2>3, <3>1, Values DEF OwnersOK
    <3> QED BY <2>5, <3>1, <3>2 DEF Explained
  <2> QED BY <2>5, <2>6, <2>7 DEF m
<1>5. CASE Cardinality(C) # 1
  <2>1. m = l
    BY <1>5 DEF BindClaim
  <2> QED BY <1>2, <2>1, MovesIsReflexive DEF SameFlags, DeferredOK
<1> QED BY <1>4, <1>5

\* Some load was accepted and is not bound yet; some load may still emit and is not bound.
Waiting(l) == \E a \in Attempts : l.attempts[a].state = "accepted"
Stray(l) == \E a \in Attempts : l.attempts[a].state = "mayEmit" /\ l.attempts[a].entry = None

LEMMA WaitingIsUnresolved ==
  ASSUME NEW l, LifeOK(l)
  PROVE  Waiting(l) <=> \E a \in Unbound(l) : /\ l.attempts[a].state \in {"accepted", "mayEmit"}
                                              /\ l.attempts[a].reconcile > 0
<1>1. \A a \in Attempts : AttemptOK(l.attempts[a]) /\ l.attempts[a] \in LoadAttempt
  BY LifeFields DEF LifeOK, AttemptsOK
<1>2. ASSUME NEW a \in Attempts
      PROVE  l.attempts[a].state = "accepted" <=>
               a \in Unbound(l) /\ l.attempts[a].state \in {"accepted", "mayEmit"}
               /\ l.attempts[a].reconcile > 0
  <2> DEFINE x == l.attempts[a]
  <2>1. x.state = "accepted" => x.entry = None /\ x.reconcile # Never
    BY <1>1 DEF AttemptOK
  <2>2. x.reconcile # Never => x.state = "accepted" /\ x.reconcile = x.deadline /\ x.deadline > 0
    <3>1. x.reconcile # Never => x.state = "accepted" /\ x.reconcile = x.deadline
      BY <1>1 DEF AttemptOK
    <3>2. x.deadline # Never => x.deadline > 0
      BY <1>1 DEF AttemptOK
    <3> QED BY <3>1, <3>2
  <2>3. x.reconcile > 0 => x.reconcile # Never
    BY DEF Never
  <2> QED BY <2>1, <2>2, <2>3 DEF Unbound, Live, Present
<1>3. Unbound(l) \subseteq Attempts
  BY DEF Unbound, Live, Present
<1> QED BY <1>2, <1>3 DEF Waiting

LEMMA ReconciledKeeps ==
  ASSUME NEW l, LifeOK(l), DeferredOK(l)
  PROVE  LET m == Reconciled(l) IN
         /\ Moves(l, m) /\ DeferredOK(m)
         /\ m.attempts = l.attempts /\ m.owner = l.owner /\ m.active = l.active
         /\ m.tombs = l.tombs /\ m.next = l.next /\ ~m.troubled
         /\ m.required <=> Waiting(m)
<1> DEFINE m == Reconciled(l)
<1>1. l \in Lives
  BY DEF LifeOK
<1>2. CASE Waiting(l)
  <2>1. m = [Schedule(l) EXCEPT !.troubled = FALSE]
    BY <1>2, WaitingIsUnresolved DEF Reconciled
  <2> DEFINE s == Schedule(l)
  <2>2. /\ s \in Lives /\ s.required = TRUE /\ s.due = TRUE
        /\ s.attempts = l.attempts /\ s.owner = l.owner /\ s.active = l.active
        /\ s.ended = l.ended /\ s.deferred = l.deferred /\ s.troubled = l.troubled
        /\ s.tombs = l.tombs /\ s.next = l.next
    BY <1>1, ScheduleFields
  <2> HIDE DEF m, s
  <2>3. m = [s EXCEPT !.troubled = FALSE]
    BY <2>1 DEF s
  <2>4. m \in Lives
    BY <2>2, <2>3 DEF Lives
  <2>5. /\ m.required = TRUE /\ m.troubled = FALSE
        /\ m.attempts = s.attempts /\ m.owner = s.owner /\ m.active = s.active
        /\ m.ended = s.ended /\ m.deferred = s.deferred
        /\ m.tombs = s.tombs /\ m.next = s.next
    BY <2>2, <2>3 DEF Lives
  <2>6. Within(m.deferred, l.deferred)
    BY <2>2, <2>5 DEF Within
  <2>7. Moves(l, m)
    BY <2>2, <2>4, <2>5, <2>6, FlagsMove
  <2>8. DeferredOK(m)
    BY <2>2, <2>5 DEF DeferredOK, Explained
  <2>9. Waiting(m)
    BY <1>2, <2>2, <2>5 DEF Waiting
  <2> QED BY <2>2, <2>5, <2>7, <2>8, <2>9 DEF m
<1>3. CASE ~Waiting(l)
  <2>1. m = [l EXCEPT !.deferred = << >>, !.required = FALSE, !.troubled = FALSE]
    BY <1>3, WaitingIsUnresolved DEF Reconciled
  <2>2. << >> \in Seq(Entries) /\ Len(<< >>) = 0
    OBVIOUS
  <2> HIDE DEF m
  <2>3. m \in Lives
    BY <1>1, <2>1, <2>2 DEF Lives
  <2>4. /\ m.deferred = << >> /\ m.required = FALSE /\ m.troubled = FALSE
        /\ m.attempts = l.attempts /\ m.owner = l.owner /\ m.active = l.active
        /\ m.ended = l.ended /\ m.tombs = l.tombs /\ m.next = l.next
    BY <1>1, <2>1 DEF Lives
  <2>5. Within(m.deferred, l.deferred) /\ DeferredOK(m)
    BY <2>2, <2>4 DEF Within, Distinct, DeferredOK
  <2>6. Moves(l, m)
    BY <2>3, <2>4, <2>5, FlagsMove
  <2>7. ~Waiting(m)
    BY <1>3, <2>4 DEF Waiting
  <2> QED BY <2>4, <2>5, <2>6, <2>7 DEF m
<1> QED BY <1>2, <1>3

\* What a snapshot of the entry e comes to.
Snapped(l, m, e) ==
  /\ Moves(l, m) /\ DeferredOK(m) /\ m.active \in {None, m.owner[e]}
  /\ ~m.troubled /\ (m.required <=> Waiting(m))
  /\ \A f \in Entries \ {e} : m.owner[f] \in {None, l.owner[f]}
  /\ \A f \in Entries \ {e} : l.active # None /\ l.owner[f] = l.active => m.owner[f] = None

LEMMA SnapshotEntryKeeps ==
  ASSUME NEW l, LifeOK(l), DeferredOK(l), NEW e \in Entries, NEW t
  PROVE  LET m == SnapshotEntry(l, e, t) IN
         Snapped(l, m, e) /\ m.next = l.next /\ m.tombs = l.tombs
<1> DEFINE p == DropOther(l, e)
           q == BindClaim(p, e, t)
           r == StartOwner(q, e, FALSE)
           s == TryDeferred(r)
           m == Reconciled(s)
<1>1. SnapshotEntry(l, e, t) = m
  BY DEF SnapshotEntry
<1>2. /\ Moves(l, p) /\ DeferredOK(p) /\ SameFlags(l, p) /\ Current(p, e)
      /\ \A f \in Entries : p.owner[f] \in {None, l.owner[f]}
      /\ \A f \in Entries : f # e /\ l.active # None /\ l.owner[f] = l.active => p.owner[f] = None
  BY DropOtherKeeps
<1>3. LifeOK(p)
  BY <1>2 DEF Moves
<1> HIDE DEF p
<1>4. /\ Moves(p, q) /\ SameFlags(p, q) /\ q.active = p.active
      /\ \A f \in Entries \ {e} : q.owner[f] = p.owner[f]
      /\ q.active \in {None, q.owner[e]}
      /\ \A i \in 1 .. Len(q.deferred) : q.deferred[i] = e \/ Explained(q, q.deferred[i])
  BY <1>2, <1>3, BindClaimKeeps
<1>5. LifeOK(q) /\ FALSE \in BOOLEAN
  BY <1>4 DEF Moves
<1> HIDE DEF q
<1>6. /\ Moves(q, r) /\ DeferredOK(r) /\ SameFlags(q, r) /\ r.owner = q.owner
      /\ r.active \in {None, r.owner[e]}
  BY <1>4, <1>5, StartCurrent
<1>7. LifeOK(r)
  BY <1>6 DEF Moves
<1> HIDE DEF r
<1>8. Tidy(r, s) /\ LeftOf(s.deferred, r.deferred, r.owner) /\ DeferredOK(s)
  BY <1>6, <1>7, TryDeferredKeeps
<1>9. Moves(r, s) /\ LifeOK(s)
  <2>1. Within(s.deferred, r.deferred)
    BY <1>8 DEF LeftOf, Within
  <2> HIDE DEF s
  <2> QED BY <1>7, <1>8, <2>1, TidyMoves DEF Tidy
<1> HIDE DEF s
<1>10. /\ Moves(s, m) /\ DeferredOK(m)
       /\ m.attempts = s.attempts /\ m.owner = s.owner /\ m.active = s.active
       /\ m.tombs = s.tombs /\ m.next = s.next /\ ~m.troubled
       /\ m.required <=> Waiting(m)
  BY <1>8, <1>9, ReconciledKeeps
<1> HIDE DEF m
<1>11. Moves(l, m)
  <2>1. Moves(l, q)
    BY <1>2, <1>4, MovesIsTransitive
  <2>2. Moves(l, r)
    BY <1>6, <2>1, MovesIsTransitive
  <2>3. Moves(l, s)
    BY <1>9, <2>2, MovesIsTransitive
  <2> QED BY <1>10, <2>3, MovesIsTransitive
<1>12. m.owner = q.owner /\ m.active = r.active /\ m.next = l.next /\ m.tombs = l.tombs
  BY <1>2, <1>4, <1>6, <1>8, <1>10 DEF Tidy, SameFlags
<1>13. m.active \in {None, m.owner[e]}
  BY <1>6, <1>12
<1>14. \A f \in Entries \ {e} : /\ m.owner[f] \in {None, l.owner[f]}
                                /\ (l.active # None /\ l.owner[f] = l.active => m.owner[f] = None)
  BY <1>2, <1>4, <1>12
<1>15. Snapped(l, m, e)
  BY <1>10, <1>11, <1>13, <1>14 DEF Snapped
<1> QED BY <1>1, <1>12, <1>15

\* ExternalLoadObserved, in the terms of the other inputs.
LEMMA ExternalMoves ==
  ASSUME NEW l, LifeOK(l), DeferredOK(l), l.next \in Attempts, NEW e \in Entries,
         l.owner[e] = None, e \notin l.tombs, NEW t \in Targets \cup {"none"},
         NEW loaded \in BOOLEAN
  PROVE  LET m == External(l, e, t, loaded)
             a == l.next IN
         /\ Moves(l, m) /\ DeferredOK(m) /\ a \in Attempts
         /\ m.attempts[a].state \in {"starting", "active"} /\ m.attempts[a].entry = e
         /\ ~m.attempts[a].revoked /\ m.active = a /\ m.next = l.next + 1
         /\ m.owner[e] = a /\ \A f \in Entries \ {e} : m.owner[f] = l.owner[f]
         /\ Waiting(m) <=> Waiting(l)
         /\ m.deferred = l.deferred /\ m.required = l.required /\ m.due = l.due
         /\ m.troubled = l.troubled /\ m.tombs = l.tombs
<1> DEFINE m == External(l, e, t, loaded)
           a == l.next
<1>1. /\ LifeOK(m) /\ DeferredOK(m) /\ Yielded(l, m, a) /\ l.attempts[a] = NoAttempt
      /\ m.attempts[a].state \in {"starting", "active"} /\ m.attempts[a].entry = e
      /\ m.attempts[a].command # "completed" /\ ~m.attempts[a].revoked
      /\ \A b \in Attempts : l.attempts[b].state = "accepted" => m.attempts[b].state = "accepted"
      /\ m.owner = [l.owner EXCEPT ![e] = a] /\ m.active = a /\ m.next = l.next + 1
      /\ m.deferred = l.deferred /\ m.required = l.required /\ m.due = l.due
  BY ExternalKeeps
<1> HIDE DEF m
<1>2. l.owner \in [Entries -> Attempts \cup {None}] /\ l.next \in Nat
  BY LifeFields DEF LifeOK
<1>3. ASSUME NEW b \in Attempts
      PROVE  /\ Grows(l.attempts[b], m.attempts[b])
             /\ (m.attempts[b].command = "completed" => l.attempts[b].command = "completed")
             /\ (m.attempts[b].state = "accepted" => l.attempts[b].state = "accepted")
  <2>1. CASE b = a
    BY <1>1, <2>1, NoAttemptOK DEF Grows
  <2>2. CASE b # a
    <3>1. Follows(l.attempts[b], m.attempts[b])
      BY <1>1, <2>2 DEF Yielded
    <3> QED BY <3>1 DEF Follows, Grows
  <2> QED BY <2>1, <2>2
<1>4. Permanent(l, m)
  BY <1>1, NoAttemptOK DEF Permanent
<1>5. Moves(l, m)
  <2>1. \A b \in Attempts : b < l.next => b # a
    BY <1>2 DEF Attempts
  <2>2. \A b \in Attempts : b < l.next /\ l.attempts[b].state = "none" => m.attempts[b].state = "none"
    BY <1>1, <2>1 DEF Yielded, Follows
  <2> QED BY <1>1, <1>2, <1>3, <1>4, <2>2 DEF Moves, Evolves, Uncompleted, Within
<1>6. Waiting(m) <=> Waiting(l)
  BY <1>1, <1>3 DEF Waiting
<1>7. m.owner[e] = a /\ \A f \in Entries \ {e} : m.owner[f] = l.owner[f]
  BY <1>1, <1>2
<1> QED BY <1>1, <1>5, <1>6, <1>7 DEF m, Yielded

\* observe_external_current_from_authority after it.
Observed(l, e, t, loaded) ==
  IF l.owner[e] # None \/ \E a \in Unbound(l) : l.attempts[a].target = t THEN l
  ELSE External(l, e, t, loaded)

LEMMA SnapshotKeeps ==
  ASSUME NEW l, LifeOK(l), DeferredOK(l), NEW e \in Entries, NEW t \in Targets,
         NEW loaded \in BOOLEAN, l.next <= MaxAttempts + 1,
         Observed(SnapshotEntry(l, e, t), e, t, loaded).next <= MaxAttempts + 1
  PROVE  Snapped(l, Observed(SnapshotEntry(l, e, t), e, t, loaded), e)
<1> DEFINE s == SnapshotEntry(l, e, t)
           m == Observed(s, e, t, loaded)
<1>1. Snapped(l, s, e) /\ s.next = l.next /\ s.tombs = l.tombs
  BY SnapshotEntryKeeps
<1>2. LifeOK(s) /\ DeferredOK(s) /\ Moves(l, s) /\ m.next <= MaxAttempts + 1
  BY <1>1 DEF Snapped, Moves
<1> SUFFICES Snapped(l, m, e)
  OBVIOUS
<1> HIDE DEF s
<1>3. CASE m = s
  BY <1>1, <1>3
<1>4. CASE m # s
  <2>1. s.owner[e] = None /\ m = External(s, e, t, loaded)
    BY <1>4 DEF Observed
  <2>2. e \notin s.tombs
    BY <1>4, <2>1 DEF External
  <2>3. s.next \in Nat \ {0} /\ s \in Lives
    BY <1>2, LifeFields DEF LifeOK
  <2>4. s.next \in Attempts
    <3> SUFFICES ASSUME s.next > MaxAttempts PROVE FALSE
      BY <2>3, LoadAssumption DEF Attempts
    <3>1. m = [s EXCEPT !.next = s.next + 1]
      BY <2>1, <2>2 DEF External
    <3>2. m.next = s.next + 1
      BY <2>3, <3>1 DEF Lives
    <3> QED BY <1>2, <2>3, <3>2, LoadAssumption
  <2> HIDE DEF m
  <2>5. t \in Targets \cup {"none"}
    OBVIOUS
  <2> DEFINE a == s.next
  <2>6. /\ Moves(s, m) /\ DeferredOK(m) /\ m.active = a
        /\ m.owner[e] = a /\ \A f \in Entries \ {e} : m.owner[f] = s.owner[f]
        /\ Waiting(m) <=> Waiting(s)
        /\ m.required = s.required /\ m.troubled = s.troubled
    BY <1>2, <2>1, <2>2, <2>4, <2>5, ExternalMoves
  <2>7. Moves(l, m)
    BY <1>2, <2>6, MovesIsTransitive
  <2> QED BY <1>1, <2>6, <2>7 DEF Snapped, m
<1> QED BY <1>3, <1>4

\* What a snapshot of an empty playlist comes to.
SnappedIdle(l, m) ==
  /\ Moves(l, m) /\ DeferredOK(m) /\ m.active \in {None, l.active}
  /\ (m.troubled \/ Waiting(m) <=> m.required)
  /\ (~m.troubled /\ ~Waiting(m) => m.active = None)
  /\ \A f \in Entries : m.owner[f] \in {None, l.owner[f]}
  /\ m.next = l.next

LEMMA SnapshotIdleKeeps ==
  ASSUME NEW l, LifeOK(l), DeferredOK(l), NEW path \in BOOLEAN,
         \A a \in Attempts : l.attempts[a].state # "submitting"
  PROVE  SnappedIdle(l, SnapshotIdle(l, path))
<1> DEFINE m == SnapshotIdle(l, path)
           S == {a \in Live(l) : l.attempts[a].state \notin {"submitting", "accepted"}}
           over == CommitAll(l, S, "stopped")
           s == Schedule(l)
<1>1. /\ l \in Lives /\ AttemptsOK(l) /\ ActiveOK(l) /\ l.active \in Attempts \cup {None}
      /\ l.owner \in [Entries -> Attempts \cup {None}]
  BY LifeFields DEF LifeOK
<1>2. (\E a \in Unbound(l) :
         \/ l.attempts[a].state = "submitting"
         \/ l.attempts[a].state \in {"accepted", "mayEmit"} /\ l.attempts[a].reconcile > 0)
      <=> Waiting(l)
  <2>1. Unbound(l) \subseteq Attempts
    BY DEF Unbound, Live, Present
  <2> QED BY <2>1, WaitingIsUnresolved
<1>3. m = IF path THEN [s EXCEPT !.troubled = TRUE]
          ELSE IF Waiting(l) THEN [s EXCEPT !.troubled = FALSE]
          ELSE [over EXCEPT !.deferred = << >>, !.required = FALSE, !.troubled = FALSE]
  BY <1>2 DEF SnapshotIdle
<1> SUFFICES SnappedIdle(l, m)
  OBVIOUS
<1> HIDE DEF m
<1>4. /\ s \in Lives /\ s.required = TRUE /\ s.due = TRUE
      /\ s.attempts = l.attempts /\ s.owner = l.owner /\ s.active = l.active
      /\ s.ended = l.ended /\ s.deferred = l.deferred /\ s.troubled = l.troubled
      /\ s.tombs = l.tombs /\ s.next = l.next
  BY <1>1, ScheduleFields
<1> HIDE DEF s
<1>5. CASE path \/ Waiting(l)
  <2> DEFINE v == path
  <2>1. m = [s EXCEPT !.troubled = v]
    BY <1>3, <1>5
  <2> HIDE DEF v
  <2>2. v \in BOOLEAN
    BY DEF v
  <2>3. m \in Lives
    BY <1>4, <2>1, <2>2 DEF Lives
  <2>4. /\ m.required = TRUE /\ m.troubled = v
        /\ m.attempts = s.attempts /\ m.owner = s.owner /\ m.active = s.active
        /\ m.ended = s.ended /\ m.deferred = s.deferred
        /\ m.tombs = s.tombs /\ m.next = s.next
    BY <1>4, <2>1 DEF Lives
  <2>5. Within(m.deferred, l.deferred)
    BY <1>4, <2>4 DEF Within
  <2>6. Moves(l, m)
    BY <1>4, <2>3, <2>4, <2>5, FlagsMove
  <2>7. DeferredOK(m)
    BY <1>4, <2>4 DEF DeferredOK, Explained
  <2>8. m.troubled \/ Waiting(m)
    BY <1>4, <1>5, <2>4 DEF Waiting, v
  <2> QED BY <1>4, <2>4, <2>6, <2>7, <2>8 DEF SnappedIdle
<1>6. CASE ~path /\ ~Waiting(l)
  <2>1. m = [over EXCEPT !.deferred = << >>, !.required = FALSE, !.troubled = FALSE]
    BY <1>3, <1>6
  <2>2. "stopped" \in Outcomes
    BY DEF Outcomes
  <2>3. /\ Moves(l, over)
        /\ \A a \in Attempts : a \notin S => over.attempts[a] = l.attempts[a]
        /\ \A a \in Attempts : a \in S /\ l.attempts[a].state # "none" =>
               over.attempts[a].state = "terminal"
        /\ \A e \in Entries : over.owner[e] = (IF l.owner[e] \in S THEN None ELSE l.owner[e])
        /\ over.active = (IF l.active \in S THEN None ELSE l.active)
        /\ over.deferred = l.deferred /\ over.required = l.required
        /\ over.troubled = l.troubled
        /\ over.tombs = l.tombs /\ over.next = l.next /\ over.due = l.due
    <3> HIDE DEF S
    <3> QED BY <2>2, CommitMoves
  <2>4. over.active = None
    <3>1. ASSUME l.active # None PROVE l.active \in S
      <4> DEFINE a == l.active
      <4>1. /\ a \in Attempts /\ l.attempts[a].state \notin {"none", "terminal", "quiescent"}
            /\ l.attempts[a].entry # None
        BY <1>1, <3>1 DEF ActiveOK
      <4>2. l.attempts[a].state # "accepted"
        BY <1>1, <4>1 DEF AttemptsOK, AttemptOK
      <4> QED BY <4>1, <4>2 DEF Live, Present
    <3> QED BY <2>3, <3>1
  <2>14. \A a \in S : l.attempts[a].state # "none"
    BY DEF Live, Present
  <2> HIDE DEF over, S
  <2>5. ~Waiting(over)
    BY <1>6, <2>3, <2>14 DEF Waiting
  <2>6. over \in Lives /\ LifeOK(over)
    BY <2>3 DEF Moves, LifeOK
  <2>7. << >> \in Seq(Entries) /\ Len(<< >>) = 0
    OBVIOUS
  <2>8. m \in Lives
    BY <2>1, <2>6, <2>7 DEF Lives
  <2>9. /\ m.deferred = << >> /\ m.required = FALSE /\ m.troubled = FALSE
        /\ m.attempts = over.attempts /\ m.owner = over.owner /\ m.active = over.active
        /\ m.ended = over.ended /\ m.tombs = over.tombs /\ m.next = over.next
    BY <2>1, <2>6 DEF Lives
  <2>10. Within(m.deferred, over.deferred) /\ DeferredOK(m)
    BY <2>7, <2>9 DEF Within, Distinct, DeferredOK
  <2>11. Moves(over, m)
    BY <2>6, <2>8, <2>9, <2>10, FlagsMove
  <2>12. Moves(l, m)
    BY <2>3, <2>11, MovesIsTransitive
  <2>13. ~Waiting(m)
    BY <2>5, <2>9 DEF Waiting
  <2> QED BY <2>3, <2>4, <2>9, <2>10, <2>12, <2>13 DEF SnappedIdle
<1> QED BY <1>5, <1>6

-----------------------------------------------------------------------------
(* Starts that mpv reports, and new attachments. *)

LEMMA FreshLifeOK ==
  ASSUME NEW n \in Nat \ {0}
  PROVE  LET l == FreshLife(n) IN
         /\ LifeOK(l) /\ DeferredOK(l) /\ l.next = n /\ l.active = None
         /\ \A a \in Attempts : l.attempts[a] = NoAttempt
         /\ \A e \in Entries : l.owner[e] = None
         /\ l.deferred = << >> /\ l.required = TRUE /\ l.troubled = FALSE /\ l.due = TRUE
         /\ l.tombs = {} /\ l.ended = FALSE
<1> DEFINE l == FreshLife(n)
<1>1. << >> \in Seq(Entries) /\ Len(<< >>) = 0
  OBVIOUS
<1>2. l \in Lives
  BY <1>1, NoAttemptOK, Values DEF FreshLife, Lives
<1>3. /\ l.next = n /\ l.active = None
      /\ \A a \in Attempts : l.attempts[a] = NoAttempt
      /\ \A e \in Entries : l.owner[e] = None
      /\ l.deferred = << >> /\ l.required = TRUE /\ l.troubled = FALSE /\ l.due = TRUE
      /\ l.tombs = {} /\ l.ended = FALSE
  BY DEF FreshLife
<1> HIDE DEF l
<1>4. AttemptsOK(l) /\ OwnersOK(l) /\ ActiveOK(l)
  BY <1>3, NoAttemptOK DEF AttemptsOK, OwnersOK, ActiveOK
<1>5. LinksOK(l)
  <2>1. \A a \in Attempts : None < a /\ None < n
    BY DEF None, Attempts
  <2> QED BY <1>3, <2>1, NoAttemptOK DEF LinksOK
<1>6. DeferredOK(l)
  BY <1>1, <1>3 DEF DeferredOK
<1> QED BY <1>2, <1>3, <1>4, <1>5, <1>6 DEF LifeOK, l

\* The deferred starts q with that of e.
WithStart(d, q, e) ==
  /\ d # << >>
  /\ \A i \in 1 .. Len(d) : d[i] = e \/ \E j \in 1 .. Len(q) : d[i] = q[j]
  /\ Distinct(q) => Distinct(d)

\* StartFile of an entry that nobody owns yet.
Deferring(l, e) == Schedule([l EXCEPT !.deferred = IF Contains(@, e) THEN @ ELSE Append(@, e)])

LEMMA DeferringKeeps ==
  ASSUME NEW l, LifeOK(l), DeferredOK(l), NEW e \in Entries, l.owner[e] = None
  PROVE  LET m == Deferring(l, e) IN
         /\ LifeOK(m) /\ DeferredOK(m) /\ WithStart(m.deferred, l.deferred, e)
         /\ m.required = TRUE /\ m.due = TRUE
         /\ m.attempts = l.attempts /\ m.owner = l.owner /\ m.active = l.active
         /\ m.troubled = l.troubled /\ m.tombs = l.tombs /\ m.next = l.next
<1> DEFINE q == l.deferred
           d == IF Contains(q, e) THEN q ELSE Append(q, e)
           n == WithDeferred(l, d)
           m == Deferring(l, e)
<1>1. l \in Lives /\ q \in Seq(Entries) /\ Len(q) \in Nat
  BY LifeFields DEF LifeOK
<1>2. m = Schedule(n)
  BY DEF Deferring, WithDeferred
<1>3. d \in Seq(Entries) /\ WithStart(d, q, e)
  <2>1. CASE Contains(q, e)
    <3>1. d = q /\ \E i \in 1 .. Len(q) : q[i] = e
      BY <2>1 DEF Contains
    <3> QED BY <1>1, <3>1 DEF WithStart
  <2>2. CASE ~Contains(q, e)
    <3>1. d = Append(q, e) /\ \A i \in 1 .. Len(q) : q[i] # e
      BY <2>2 DEF Contains
    <3>2. /\ d \in Seq(Entries) /\ Len(d) = Len(q) + 1 /\ d[Len(q) + 1] = e
          /\ \A i \in 1 .. Len(q) : d[i] = q[i]
      BY <1>1, <3>1
    <3> HIDE DEF d
    <3>3. \A i \in 1 .. Len(d) : i \in 1 .. Len(q) \/ i = Len(q) + 1
      BY <1>1, <3>2
    <3>4. \A i \in 1 .. Len(d) : d[i] = e \/ \E j \in 1 .. Len(q) : d[i] = q[j]
      BY <3>2, <3>3
    <3>5. d # << >>
      BY <1>1, <3>2
    <3>6. Distinct(q) => Distinct(d)
      BY <3>1, <3>2, <3>3 DEF Distinct
    <3> QED BY <3>2, <3>4, <3>5, <3>6 DEF WithStart
  <2> QED BY <2>1, <2>2
<1> HIDE DEF d
<1>4. Ran(l, n) /\ LifeOK(n) /\ n.active = l.active /\ n.deferred = d /\ n.attempts = l.attempts
  BY <1>3, DeferredReplaced
<1> HIDE DEF n
<1>5. n \in Lives /\ LifeOK(Schedule(n))
  BY <1>4, ScheduleKeeps DEF LifeOK
<1>6. /\ m.required = TRUE /\ m.due = TRUE
      /\ m.attempts = n.attempts /\ m.owner = n.owner /\ m.active = n.active
      /\ m.deferred = n.deferred /\ m.troubled = n.troubled
      /\ m.tombs = n.tombs /\ m.next = n.next
  BY <1>2, <1>5, ScheduleFields
<1> HIDE DEF m
<1>7. DeferredOK(m)
  <2> SUFFICES ASSUME NEW i \in 1 .. Len(m.deferred) PROVE Explained(m, m.deferred[i])
    BY DEF DeferredOK
  <2>1. m.deferred[i] = e \/ \E j \in 1 .. Len(q) : m.deferred[i] = q[j]
    BY <1>3, <1>4, <1>6 DEF WithStart
  <2>2. Explained(l, m.deferred[i])
    BY <2>1 DEF DeferredOK, Explained
  <2> QED BY <1>4, <1>6, <2>2 DEF Explained, Ran
<1> QED BY <1>2, <1>3, <1>4, <1>5, <1>6, <1>7 DEF m, Ran

\* StartFile and, when nothing can have made the entry, ExternalLoadObserved.
StartSeen(l, e) == StartOrExternal(StartFile(l, e), e)

LEMMA StartOfOwned ==
  ASSUME NEW l, LifeOK(l), DeferredOK(l), NEW e \in Entries, l.owner[e] # None,
         l.active \in {None, l.owner[e]}
  PROVE  LET m == StartSeen(l, e) IN
         /\ Moves(l, m) /\ DeferredOK(m) /\ SameFlags(l, m) /\ m.owner = l.owner
         /\ \A b \in Attempts : Calm(l.attempts[b], m.attempts[b])
         /\ \/ m.active = l.owner[e]
            \/ /\ m.active = l.active
               /\ \/ l.attempts[l.owner[e]].revoked \/ l.attempts[l.owner[e]].state = "quiescent"
                  \/ m = l
<1> DEFINE s == StartFile(l, e)
           m == StartSeen(l, e)
<1>1. CASE e \in l.tombs
  <2>1. m = l
    BY <1>1 DEF StartSeen, StartFile, StartOrExternal, Unexplained
  <2> QED BY <2>1, MovesIsReflexive, CalmIsReflexive DEF SameFlags
<1>2. CASE e \notin l.tombs
  <2>1. s = StartOwner(l, e, TRUE) /\ TRUE \in BOOLEAN
    BY <1>2 DEF StartFile
  <2>2. \A i \in 1 .. Len(l.deferred) : l.deferred[i] = e \/ Explained(l, l.deferred[i])
    BY DEF DeferredOK
  <2> HIDE DEF s
  <2>3. /\ Moves(l, s) /\ DeferredOK(s) /\ SameFlags(l, s) /\ s.owner = l.owner
        /\ \A b \in Attempts : Calm(l.attempts[b], s.attempts[b])
        /\ \/ s.active = l.owner[e]
           \/ /\ s.active = l.active
              /\ \/ l.attempts[l.owner[e]].revoked
                 \/ l.attempts[l.owner[e]].state = "quiescent"
    BY <2>1, <2>2, StartCurrent
  <2>4. m = s
    BY <2>3 DEF StartSeen, s, StartOrExternal, Unexplained
  <2> QED BY <2>3, <2>4
<1> QED BY <1>1, <1>2

LEMMA StartOfUnowned ==
  ASSUME NEW l, LifeOK(l), DeferredOK(l), NEW e \in Entries, l.owner[e] = None,
         StartSeen(l, e).next <= MaxAttempts + 1, l.next <= MaxAttempts + 1
  PROVE  LET m == StartSeen(l, e) IN
         \/ m = l /\ e \in l.tombs
         \/ /\ LifeOK(m) /\ DeferredOK(m) /\ Evolves(l, m) /\ Uncompleted(l, m) /\ Permanent(l, m)
            /\ WithStart(m.deferred, l.deferred, e) /\ m.required /\ m.due
            /\ m.troubled = l.troubled
            /\ \A f \in Entries \ {e} : m.owner[f] = l.owner[f]
            /\ \/ m.owner[e] = None /\ m.attempts = l.attempts /\ m.active = l.active
                  /\ m.next = l.next
               \/ /\ m.owner[e] # None /\ m.active = m.owner[e]
                  /\ ~Waiting(l)
                  /\ ~m.attempts[m.active].revoked
<1> DEFINE s == Deferring(l, e)
           m == StartSeen(l, e)
<1>1. /\ l \in Lives /\ l.next \in Nat /\ AttemptsOK(l)
  BY LifeFields DEF LifeOK
<1>2. CASE e \in l.tombs
  <2>1. m = l
    BY <1>2 DEF StartSeen, StartFile, StartOrExternal, External
  <2> QED BY <1>2, <2>1
<1>3. CASE e \notin l.tombs
  <2>1. StartFile(l, e) = s
    BY <1>3 DEF StartFile, Deferring
  <2>2. /\ LifeOK(s) /\ DeferredOK(s) /\ WithStart(s.deferred, l.deferred, e)
        /\ s.required = TRUE /\ s.due = TRUE
        /\ s.attempts = l.attempts /\ s.owner = l.owner /\ s.active = l.active
        /\ s.troubled = l.troubled /\ s.tombs = l.tombs /\ s.next = l.next
    BY DeferringKeeps
  <2> HIDE DEF s
  <2>3. m = StartOrExternal(s, e) /\ m.next <= MaxAttempts + 1
    BY <2>1 DEF StartSeen
  <2>4. CASE Unbound(s) # {}
    <3>1. m = s
      BY <2>3, <2>4 DEF StartOrExternal, Unexplained
    <3>2. Evolves(l, s) /\ Uncompleted(l, s) /\ Permanent(l, s)
      BY <1>1, <2>2, GrowsIsReflexive DEF Evolves, Uncompleted, Permanent
    <3> QED BY <2>2, <3>1, <3>2
  <2>5. CASE Unbound(s) = {}
    <3>1. m = External(s, e, "none", FALSE)
      BY <2>2, <2>3, <2>5 DEF StartOrExternal, Unexplained
    <3>2. s.next \in Attempts
      <4> SUFFICES ASSUME s.next > MaxAttempts PROVE FALSE
        BY <1>1, <2>2, LifeFields, LoadAssumption DEF Attempts, LifeOK
      <4>1. m = [s EXCEPT !.next = s.next + 1] /\ s \in Lives
        BY <1>3, <2>2, <3>1 DEF External, LifeOK
      <4>2. m.next = s.next + 1
        BY <4>1 DEF Lives
      <4> QED BY <1>1, <2>2, <2>3, <4>2, LoadAssumption
    <3> HIDE DEF m
    <3> DEFINE a == s.next
               t == "none"
               no == FALSE
    <3>3. t \in Targets \cup {"none"} /\ no \in BOOLEAN
      OBVIOUS
    <3>4. m = External(s, e, t, no) /\ s.owner[e] = None /\ e \notin s.tombs
      BY <1>3, <2>2, <3>1
    <3> HIDE DEF t, no
    <3>5. /\ Moves(s, m) /\ DeferredOK(m) /\ a \in Attempts
          /\ ~m.attempts[a].revoked /\ m.active = a
          /\ m.owner[e] = a /\ \A f \in Entries \ {e} : m.owner[f] = s.owner[f]
          /\ m.deferred = s.deferred /\ m.required = s.required /\ m.due = s.due
          /\ m.troubled = s.troubled
      BY <2>2, <3>2, <3>3, <3>4, ExternalMoves
    <3>6. Evolves(l, m) /\ Uncompleted(l, m) /\ Permanent(l, m) /\ LifeOK(m)
      BY <2>2, <3>5 DEF Moves, Evolves, Uncompleted, Permanent
    <3>7. ~Waiting(l)
      <4>1. \A b \in Attempts : l.attempts[b].state = "accepted" => b \in Unbound(s)
        BY <1>1, <2>2 DEF AttemptsOK, AttemptOK, Unbound, Live, Present
      <4> QED BY <2>5, <4>1 DEF Waiting
    <3>8. a # None
      BY <3>2, Values
    <3> QED BY <2>2, <3>5, <3>6, <3>7, <3>8 DEF m
  <2> QED BY <2>4, <2>5
<1> QED BY <1>2, <1>3
=============================================================================
