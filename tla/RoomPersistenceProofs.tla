------------------------ MODULE RoomPersistenceProofs ------------------------
(***************************************************************************)
(* A room with nothing left to write is durable, for any rooms, queue      *)
(* capacity and number of versions, barriers and crashes.                  *)
(*                                                                         *)
(* AppliedIsDurable is not inductive: it says nothing of a transaction in  *)
(* flight.  The strengthening adds that the map holds the newest effect,   *)
(* that versions in the database are behind a wanted effect unless it is   *)
(* already there, and that a transaction's room is wanted until its mark.  *)
(***************************************************************************)
EXTENDS RoomPersistence, TLAPS

InTransaction == worker \in {"Writing", "Checking", "Committing", "Marking", "Failing"}

Types ==
  /\ next \in Nat /\ intent \in [Rooms -> Effects]
  /\ seen \in [Rooms -> Nat] /\ desired \in [Rooms -> Effects]
  /\ todo \in [Rooms -> Effects] /\ room \in Rooms /\ db \in [Rooms -> Nat]

\* The map of desired effects follows the runtime.
MapFollowsIntent ==
  \A r \in Rooms :
    /\ seen[r] \in {0, intent[r].version}
    /\ intent[r].version <= next /\ db[r] <= next
    /\ desired[r] # NoEffect =>
         /\ desired[r] = intent[r] /\ seen[r] = intent[r].version /\ seen[r] # 0
         /\ db[r] < intent[r].version \/ db[r] = RowOf(intent[r])

\* What the worker scanned is at most as new as what the runtime wants.
ScanIsNotAhead ==
  \A r \in Rooms : todo[r] # NoEffect =>
    /\ todo[r].version # 0 /\ todo[r].version <= intent[r].version
    /\ todo[r].version = intent[r].version => todo[r] = intent[r]

\* A room in a transaction is wanted, and a committed effect is in the database while it
\* is the newest.
TransactionIsWanted ==
  /\ InTransaction => todo[room] # NoEffect /\ desired[room] # NoEffect
  /\ worker = "Marking" /\ todo[room] = intent[room] => db[room] = RowOf(intent[room])

Inv ==
  Types /\ AppliedIsDurable /\ MapFollowsIntent /\ ScanIsNotAhead /\ TransactionIsWanted

-----------------------------------------------------------------------------
\* The initial state satisfies the invariant: nothing is wanted and nothing is stored.
LEMMA InvInit == Init => Inv
  <1> SUFFICES ASSUME Init PROVE Inv
    OBVIOUS
  <1> USE DEF Init, Nothing, Zero, NoEffect
  <1>1. Types
    BY DEF Types, Effects
  <1>2. AppliedIsDurable /\ MapFollowsIntent
    BY DEF AppliedIsDurable, MapFollowsIntent, RowOf
  <1>3. ScanIsNotAhead /\ TransactionIsWanted
    BY DEF ScanIsNotAhead, TransactionIsWanted, InTransaction
  <1> QED
    BY <1>1, <1>2, <1>3 DEF Inv

\* Steps that leave the runtime, the map, the scan and the database alone, and that do
\* not enter a transaction's commit (every signal, barrier and deadline step).
LEMMA InvQuiet ==
  ASSUME Inv, UNCHANGED <<next, intent, seen, desired, todo, room, db>>,
         worker' = worker \/ worker' \notin {"Writing", "Checking", "Committing", "Marking",
                                             "Failing"}
  PROVE  Inv'
  <1>1. Types' /\ AppliedIsDurable' /\ MapFollowsIntent' /\ ScanIsNotAhead'
    BY DEF Inv, Types, AppliedIsDurable, MapFollowsIntent, ScanIsNotAhead
  <1>2. TransactionIsWanted'
    BY DEF Inv, TransactionIsWanted, InTransaction
  <1> QED
    BY <1>1, <1>2 DEF Inv

\* Recording an effect with a fresh version makes it the newest of its room (`enqueue`).
LEMMA InvEnqueue ==
  ASSUME Inv, NEW r \in Rooms, NEW kind \in {"Save", "Delete"}, Enqueue(r, kind)
  PROVE  Inv'
  <1> DEFINE effect == [kind |-> kind, version |-> next + 1]
  <1>0. /\ effect \in Effects /\ effect # NoEffect /\ effect.version = next + 1
        /\ effect.version > seen[r] /\ effect.version # 0
    BY DEF Inv, Types, MapFollowsIntent, Effects, NoEffect
  <1>1. /\ next' = next + 1 /\ intent' = [intent EXCEPT ![r] = effect]
        /\ UNCHANGED <<todo, room, worker, db>>
    BY DEF Enqueue, scan
  <1>2. /\ seen' = [seen EXCEPT ![r] = effect.version]
        /\ desired' = [desired EXCEPT ![r] = effect]
    <2>1. ~(effect.version <= seen[r])
      BY <1>0 DEF Inv, Types
    <2> QED
      BY <2>1 DEF Enqueue, Arbitrate
  <1> HIDE DEF effect
  <1>3. Types'
    BY <1>0, <1>1, <1>2 DEF Inv, Types
  <1>4. AppliedIsDurable'
    <2> SUFFICES ASSUME NEW q \in Rooms, desired'[q] = NoEffect
                 PROVE  db'[q] = RowOf(intent'[q])
      BY DEF AppliedIsDurable
    <2>1. q # r
      BY <1>0, <1>2 DEF Inv, Types
    <2> QED
      BY <2>1, <1>1, <1>2 DEF Inv, Types, AppliedIsDurable
  <1>5. MapFollowsIntent'
    <2> SUFFICES ASSUME NEW q \in Rooms
                 PROVE  /\ seen'[q] \in {0, intent'[q].version}
                        /\ intent'[q].version <= next' /\ db'[q] <= next'
                        /\ desired'[q] # NoEffect =>
                             /\ desired'[q] = intent'[q] /\ seen'[q] = intent'[q].version
                             /\ seen'[q] # 0
                             /\ db'[q] < intent'[q].version \/ db'[q] = RowOf(intent'[q])
      BY DEF MapFollowsIntent
    <2>1. CASE q = r
      <3>1. seen'[q] = effect.version /\ intent'[q] = effect /\ desired'[q] = effect
        BY <2>1, <1>1, <1>2 DEF Inv, Types
      <3>2. db'[q] <= next
        BY <1>1 DEF Inv, MapFollowsIntent
      <3> QED
        BY <3>1, <3>2, <1>0, <1>1 DEF Inv, Types
    <2>2. CASE q # r
      <3>1. /\ seen'[q] = seen[q] /\ intent'[q] = intent[q] /\ desired'[q] = desired[q]
            /\ db'[q] = db[q]
        BY <2>2, <1>1, <1>2 DEF Inv, Types
      <3>2. intent[q].version \in Nat /\ db[q] \in Nat /\ next \in Nat
        BY DEF Inv, Types, Effects
      <3> QED
        BY <3>1, <3>2, <1>1 DEF Inv, MapFollowsIntent
    <2> QED
      BY <2>1, <2>2
  <1>6. \A q \in Rooms : todo[q] # NoEffect =>
           todo[q].version <= intent[q].version /\ intent[q].version <= next
    BY DEF Inv, ScanIsNotAhead, MapFollowsIntent
  <1>7. ScanIsNotAhead'
    <2> SUFFICES ASSUME NEW q \in Rooms, todo[q] # NoEffect
                 PROVE  /\ todo[q].version # 0 /\ todo[q].version <= intent'[q].version
                        /\ todo[q].version = intent'[q].version => todo[q] = intent'[q]
      BY <1>1 DEF ScanIsNotAhead
    <2>1. CASE q = r
      <3>1. intent'[q].version = next + 1
        BY <2>1, <1>0, <1>1 DEF Inv, Types
      <3>2. todo[q].version \in Nat /\ intent[q].version \in Nat /\ next \in Nat
        BY DEF Inv, Types, Effects
      <3> QED
        BY <3>1, <3>2, <1>6 DEF Inv, ScanIsNotAhead
    <2>2. CASE q # r
      BY <2>2, <1>1 DEF Inv, Types, ScanIsNotAhead
    <2> QED
      BY <2>1, <2>2
  <1>8. TransactionIsWanted'
    <2>1. desired[room] # NoEffect => desired'[room] # NoEffect
      BY <1>0, <1>2 DEF Inv, Types
    <2>2. ASSUME InTransaction, todo[room] = intent'[room]
          PROVE  room # r
      <3>1. todo[room].version <= next
        <4>1. todo[room] # NoEffect
          BY <2>2 DEF Inv, TransactionIsWanted
        <4>2. /\ todo[room].version \in Nat /\ intent[room].version \in Nat /\ next \in Nat
              /\ room \in Rooms
          BY DEF Inv, Types, Effects
        <4> QED
          BY <4>1, <4>2, <1>6
      <3>2. ASSUME room = r PROVE FALSE
        <4>1. todo[room].version = next + 1
          BY <3>2, <2>2, <1>0, <1>1 DEF Inv, Types
        <4> QED
          BY <4>1, <3>1 DEF Inv, Types
      <3> QED
        BY <3>2
    <2>3. worker = "Marking" => InTransaction
      BY DEF InTransaction
    <2>4. worker = "Marking" /\ todo[room] = intent'[room] => db[room] = RowOf(intent'[room])
      <3> SUFFICES ASSUME worker = "Marking", todo[room] = intent'[room]
                   PROVE  db[room] = RowOf(intent'[room])
        OBVIOUS
      <3>1. intent'[room] = intent[room]
        BY <2>2, <2>3, <1>1 DEF Inv, Types
      <3> QED
        BY <3>1 DEF Inv, TransactionIsWanted
    <2> QED
      BY <2>1, <2>4, <1>1 DEF Inv, TransactionIsWanted, InTransaction
  <1> QED
    BY <1>3, <1>4, <1>5, <1>7, <1>8 DEF Inv

\* The worker takes over the map as it is (`desired_effects`), or nothing.
LEMMA InvScan ==
  ASSUME Inv, Scan
  PROVE  Inv'
  <1>1. /\ UNCHANGED <<next, intent, seen, desired, room, db>> /\ worker' = "Choosing"
        /\ todo' = Nothing \/ todo' = desired
    BY DEF Scan, runtime, map
  <1>2. Types' /\ AppliedIsDurable' /\ MapFollowsIntent'
    BY <1>1 DEF Inv, Types, AppliedIsDurable, MapFollowsIntent, Nothing, NoEffect, Effects
  <1>3. ScanIsNotAhead'
    <2> SUFFICES ASSUME NEW q \in Rooms, todo'[q] # NoEffect
                 PROVE  /\ todo'[q].version # 0 /\ todo'[q].version <= intent[q].version
                        /\ todo'[q].version = intent[q].version => todo'[q] = intent[q]
      BY <1>1 DEF ScanIsNotAhead
    <2>1. todo'[q] = intent[q] /\ intent[q].version # 0
      BY <1>1 DEF Inv, MapFollowsIntent, Nothing
    <2>2. intent[q].version \in Nat
      BY DEF Inv, Types, Effects
    <2> QED
      BY <2>1, <2>2
  <1>4. TransactionIsWanted'
    BY <1>1 DEF TransactionIsWanted, InTransaction
  <1> QED
    BY <1>2, <1>3, <1>4 DEF Inv

\* An entry of the scan that is dropped, or a scan that is cut short, disturbs nothing:
\* the effect stays in the map (a stale entry, a failed transaction, a deadline).
LEMMA InvDrop ==
  ASSUME Inv, UNCHANGED <<next, intent, seen, desired, db>>, room' \in Rooms,
         todo' = Nothing \/ (\E r \in Rooms : todo' = [todo EXCEPT ![r] = NoEffect]),
         worker' \in {"Choosing", "Acknowledging"}
  PROVE  Inv'
  <1>1. \A q \in Rooms : todo'[q] = NoEffect \/ todo'[q] = todo[q]
    BY DEF Inv, Types, Nothing
  <1>2. Types' /\ AppliedIsDurable' /\ MapFollowsIntent'
    <2>1. todo' \in [Rooms -> Effects]
      BY DEF Inv, Types, Nothing, NoEffect, Effects
    <2> QED
      BY <2>1 DEF Inv, Types, AppliedIsDurable, MapFollowsIntent
  <1>3. ScanIsNotAhead'
    BY <1>1 DEF Inv, ScanIsNotAhead
  <1>4. TransactionIsWanted'
    BY DEF TransactionIsWanted, InTransaction
  <1> QED
    BY <1>2, <1>3, <1>4 DEF Inv

\* A transaction is opened only for an effect that is still the wanted one.
LEMMA InvChoose ==
  ASSUME Inv, NEW r \in Rooms, Choose(r)
  PROVE  Inv'
  <1>1. CASE IsEffectCurrent(r)
    <2>1. /\ UNCHANGED <<next, intent, seen, desired, todo, db>>
          /\ worker' = "Writing" /\ room' = r /\ todo[r] # NoEffect
      BY <1>1 DEF Choose, runtime, map
    <2>2. desired[r] # NoEffect
      BY <1>1, <2>1 DEF IsEffectCurrent, Inv, ScanIsNotAhead, NoEffect
    <2>3. Types' /\ AppliedIsDurable' /\ MapFollowsIntent' /\ ScanIsNotAhead'
      BY <2>1 DEF Inv, Types, AppliedIsDurable, MapFollowsIntent, ScanIsNotAhead
    <2>4. TransactionIsWanted'
      BY <2>1, <2>2 DEF TransactionIsWanted, InTransaction
    <2> QED
      BY <2>3, <2>4 DEF Inv
  <1>2. CASE ~IsEffectCurrent(r)
    <2>1. /\ UNCHANGED <<next, intent, seen, desired, room, db>> /\ worker' = "Choosing"
          /\ todo' = [todo EXCEPT ![r] = NoEffect]
      BY <1>2 DEF Choose, runtime, map
    <2>2. room' \in Rooms
      BY <2>1 DEF Inv, Types
    <2> QED
      BY <2>1, <2>2, InvDrop
  <1> QED
    BY <1>1, <1>2

\* A step inside a transaction that has not committed keeps its room wanted.
LEMMA InvAdvance ==
  ASSUME Inv, InTransaction, UNCHANGED <<next, intent, seen, desired, todo, room, db>>,
         worker' \in {"Checking", "Committing", "Failing"}
  PROVE  Inv'
  <1>1. Types' /\ AppliedIsDurable' /\ MapFollowsIntent' /\ ScanIsNotAhead'
    BY DEF Inv, Types, AppliedIsDurable, MapFollowsIntent, ScanIsNotAhead
  <1>2. TransactionIsWanted'
    BY DEF Inv, TransactionIsWanted, InTransaction
  <1> QED
    BY <1>1, <1>2 DEF Inv

\* A commit writes the newest effect or stays behind it: the SQL guard never refuses an
\* effect that is wanted, and a superseded one never passes for the newest.
LEMMA InvCommitted ==
  ASSUME Inv, worker = "Committing", worker' = "Marking",
         UNCHANGED <<next, intent, seen, desired, todo, room>>,
         db' = [db EXCEPT ![room] = RowAfter(@, todo[room])]
  PROVE  Inv'
  <1> DEFINE e == todo[room]
             i == intent[room]
             row == RowAfter(db[room], e)
  <1>1. room \in Rooms /\ e # NoEffect /\ desired[room] # NoEffect
    BY DEF Inv, Types, TransactionIsWanted, InTransaction
  <1>2. /\ e \in Effects /\ i \in Effects /\ db[room] \in Nat /\ next \in Nat
        /\ e.version # 0 /\ e.version <= i.version /\ (e.version = i.version => e = i)
        /\ i.version <= next
        /\ db[room] < i.version \/ db[room] = RowOf(i)
    BY <1>1 DEF Inv, Types, ScanIsNotAhead, MapFollowsIntent
  <1>3. db'[room] = row /\ \A q \in Rooms : q # room => db'[q] = db[q]
    BY <1>1 DEF Inv, Types
  <1> HIDE DEF e, i
  <1>4. /\ row \in Nat /\ row <= next
        /\ row < i.version \/ row = RowOf(i)
        /\ e = i => row = RowOf(i)
    <2>1. CASE e = i
      BY <2>1, <1>2 DEF RowAfter, RowOf, Effects
    <2>2. CASE e # i
      BY <2>2, <1>2 DEF RowAfter, RowOf, Effects
    <2> QED
      BY <2>1, <2>2
  <1> HIDE DEF row
  <1>5. Types'
    BY <1>3, <1>4, <1>1 DEF Inv, Types, e, row
  <1>6. AppliedIsDurable'
    BY <1>1, <1>3 DEF Inv, AppliedIsDurable
  <1>7. MapFollowsIntent'
    <2> SUFFICES ASSUME NEW q \in Rooms
                 PROVE  /\ seen[q] \in {0, intent[q].version}
                        /\ intent[q].version <= next /\ db'[q] <= next
                        /\ desired[q] # NoEffect =>
                             /\ desired[q] = intent[q] /\ seen[q] = intent[q].version
                             /\ seen[q] # 0
                             /\ db'[q] < intent[q].version \/ db'[q] = RowOf(intent[q])
      BY DEF MapFollowsIntent
    <2>1. CASE q = room
      BY <2>1, <1>3, <1>4 DEF Inv, MapFollowsIntent, i
    <2>2. CASE q # room
      BY <2>2, <1>3 DEF Inv, MapFollowsIntent
    <2> QED
      BY <2>1, <2>2
  <1>8. ScanIsNotAhead'
    BY DEF Inv, ScanIsNotAhead
  <1>9. TransactionIsWanted'
    BY <1>1, <1>3, <1>4 DEF TransactionIsWanted, InTransaction, e, i
  <1> QED
    BY <1>5, <1>6, <1>7, <1>8, <1>9 DEF Inv

\* A mark clears the map only for the effect that is both the newest and stored.
LEMMA InvMarkApplied ==
  ASSUME Inv, MarkApplied
  PROVE  Inv'
  <1>1. /\ worker = "Marking" /\ worker' = "Choosing" /\ UNCHANGED <<next, intent, room, db>>
        /\ todo' = [todo EXCEPT ![room] = NoEffect] /\ room \in Rooms
    BY DEF MarkApplied, runtime, Inv, Types
  <1>2. CASE ~IsVersionCurrent
    <2>1. UNCHANGED <<seen, desired>> /\ room' \in Rooms /\ UNCHANGED <<next, intent, db>>
      BY <1>1, <1>2 DEF MarkApplied, map
    <2>2. todo' = Nothing \/ (\E r \in Rooms : todo' = [todo EXCEPT ![r] = NoEffect])
      BY <1>1
    <2> QED
      BY <1>1, <2>1, <2>2, InvDrop
  <1>3. CASE IsVersionCurrent
    <2>1. /\ desired' = [desired EXCEPT ![room] = NoEffect]
          /\ \/ seen' = [seen EXCEPT ![room] = 0]
             \/ seen' = [seen EXCEPT ![room] = seen[room]]
      BY <1>3 DEF MarkApplied
    <2>2. todo[room] # NoEffect /\ desired[room] # NoEffect
      BY <1>1 DEF Inv, TransactionIsWanted, InTransaction
    <2>3. todo[room] = intent[room]
      BY <1>1, <1>3, <2>2 DEF IsVersionCurrent, Inv, MapFollowsIntent, ScanIsNotAhead
    <2>4. db[room] = RowOf(intent[room])
      BY <1>1, <2>3 DEF Inv, TransactionIsWanted
    <2>5. /\ desired'[room] = NoEffect /\ todo'[room] = NoEffect
          /\ seen'[room] \in {0, seen[room]}
          /\ \A q \in Rooms : q # room =>
               desired'[q] = desired[q] /\ seen'[q] = seen[q] /\ todo'[q] = todo[q]
      BY <1>1, <2>1 DEF Inv, Types
    <2>6. Types'
      BY <1>1, <2>1 DEF Inv, Types, NoEffect, Effects
    <2>7. AppliedIsDurable'
      BY <1>1, <2>4, <2>5 DEF Inv, AppliedIsDurable
    <2>8. MapFollowsIntent'
      <3> SUFFICES ASSUME NEW q \in Rooms
                   PROVE  /\ seen'[q] \in {0, intent[q].version}
                          /\ intent[q].version <= next /\ db[q] <= next
                          /\ desired'[q] # NoEffect =>
                               /\ desired'[q] = intent[q] /\ seen'[q] = intent[q].version
                               /\ seen'[q] # 0
                               /\ db[q] < intent[q].version \/ db[q] = RowOf(intent[q])
        BY <1>1 DEF MapFollowsIntent
      <3>1. CASE q = room
        BY <3>1, <2>5 DEF Inv, MapFollowsIntent
      <3>2. CASE q # room
        BY <3>2, <2>5 DEF Inv, MapFollowsIntent
      <3> QED
        BY <3>1, <3>2
    <2>9. ScanIsNotAhead'
      BY <1>1, <2>5 DEF Inv, ScanIsNotAhead
    <2>10. TransactionIsWanted'
      BY <1>1 DEF TransactionIsWanted, InTransaction
    <2> QED
      BY <2>6, <2>7, <2>8, <2>9, <2>10 DEF Inv
  <1> QED
    BY <1>2, <1>3

\* A restarted runtime wants what it loaded, and its versions continue after it.
LEMMA InvCrash ==
  ASSUME Inv, Crash
  PROVE  Inv'
  <1>1. /\ next' \in {0} \cup {db[r] : r \in Rooms} /\ \A r \in Rooms : db[r] <= next'
        /\ intent' = [r \in Rooms |-> IF db[r] = 0 THEN NoEffect
                                      ELSE [kind |-> "Save", version |-> db[r]]]
        /\ seen' = Zero /\ desired' = Nothing /\ todo' = Nothing /\ worker' = "Start"
        /\ UNCHANGED <<room, db>>
    BY DEF Crash
  <1>2. \A r \in Rooms : RowOf(intent'[r]) = db[r] /\ intent'[r].version = db[r]
    BY <1>1 DEF Inv, Types, RowOf, NoEffect
  <1>3. Types'
    BY <1>1 DEF Inv, Types, Zero, Nothing, NoEffect, Effects
  <1>4. AppliedIsDurable'
    BY <1>1, <1>2 DEF AppliedIsDurable
  <1>5. MapFollowsIntent'
    BY <1>1, <1>2 DEF MapFollowsIntent, Zero, Nothing
  <1>6. ScanIsNotAhead' /\ TransactionIsWanted'
    BY <1>1 DEF ScanIsNotAhead, TransactionIsWanted, InTransaction, Nothing
  <1> QED
    BY <1>3, <1>4, <1>5, <1>6 DEF Inv

\* Every step of the actor, the worker and the clock preserves the invariant.
LEMMA InvNext == Inv /\ [Next]_vars => Inv'
  <1> SUFFICES ASSUME Inv, [Next]_vars PROVE Inv'
    OBVIOUS
  <1> USE DEF runtime, map, scan
  <1>1. ASSUME NEW r \in Rooms, SaveRoom(r) \/ DeleteRoom(r) PROVE Inv'
    BY <1>1, InvEnqueue DEF SaveRoom, DeleteRoom
  <1>2. ASSUME NEW last \in BOOLEAN, StartBarrier(last) PROVE Inv'
    BY <1>2, InvQuiet DEF StartBarrier
  <1>3. CASE ActorStep
    <2>1. UNCHANGED <<next, intent, seen, desired, todo, room, db, worker>>
      BY <1>3 DEF ActorStep, BarrierStep, SwapWake, SignalWake, SendFlush, AwaitFlush,
                  EndBarrier, StopWorker, SignalStop, JoinWorker
    <2> QED
      BY <2>1, InvQuiet
  <1>4. CASE BeginShutdown \/ DeadlinePasses \/ TerminalPasses
    <2>1. UNCHANGED <<next, intent, seen, desired, todo, room, db, worker>>
      BY <1>4 DEF BeginShutdown, DeadlinePasses, TerminalPasses
    <2> QED
      BY <2>1, InvQuiet
  <1>5. CASE StartWorker \/ Receive \/ ClearWake \/ Acknowledge
    <2>1. /\ UNCHANGED <<next, intent, seen, desired, todo, room, db>>
          /\ worker' \in {"Receiving", "Exited", "Received", "Scanning"}
      BY <1>5 DEF StartWorker, Receive, ClearWake, Acknowledge
    <2> QED
      BY <2>1, InvQuiet
  <1>6. CASE Scan
    BY <1>6, InvScan
  <1>7. ASSUME NEW r \in Rooms, Choose(r) PROVE Inv'
    BY <1>7, InvChoose
  <1>8. room \in Rooms
    BY DEF Inv, Types
  <1>9. CASE Write
    <2>1. /\ UNCHANGED <<next, intent, seen, desired, room, db>> /\ InTransaction
          /\ \/ worker' = "Choosing" /\ todo' = [todo EXCEPT ![room] = NoEffect]
             \/ worker' \in {"Checking", "Failing"} /\ UNCHANGED todo
      BY <1>9 DEF Write, InTransaction
    <2> QED
      BY <2>1, <1>8, InvDrop, InvAdvance
  <1>10. CASE Recheck
    <2>1. /\ UNCHANGED <<next, intent, seen, desired, room, db>> /\ InTransaction
          /\ \/ worker' = "Choosing" /\ todo' = [todo EXCEPT ![room] = NoEffect]
             \/ worker' = "Committing" /\ UNCHANGED todo
      BY <1>10 DEF Recheck, InTransaction
    <2> QED
      BY <2>1, <1>8, InvDrop, InvAdvance
  <1>11. CASE Commit
    <2>1. /\ UNCHANGED <<next, intent, seen, desired, todo, room>> /\ InTransaction
          /\ worker = "Committing"
          /\ \/ worker' = "Marking" /\ db' = [db EXCEPT ![room] = RowAfter(@, todo[room])]
             \/ worker' = "Failing" /\ UNCHANGED db
      BY <1>11 DEF Commit, InTransaction
    <2> QED
      BY <2>1, InvCommitted, InvAdvance
  <1>12. CASE MarkApplied
    BY <1>12, InvMarkApplied
  <1>13. CASE MarkFailed \/ FinishScan
    <2>1. /\ UNCHANGED <<next, intent, seen, desired, room, db>>
          /\ worker' \in {"Choosing", "Acknowledging"}
          /\ todo' = Nothing \/ todo' = [todo EXCEPT ![room] = NoEffect]
      BY <1>13 DEF MarkFailed, FinishScan
    <2> QED
      BY <2>1, <1>8, InvDrop
  <1>14. CASE Crash
    BY <1>14, InvCrash
  <1>15. CASE UNCHANGED vars
    BY <1>15, InvQuiet DEF vars
  <1> QED
    BY <1>1, <1>2, <1>3, <1>4, <1>5, <1>6, <1>7, <1>9, <1>10, <1>11, <1>12, <1>13, <1>14, <1>15
    DEF Next, WorkerStep

\* A room with no effect left to write has in the database exactly what the runtime last
\* asked for, for any rooms, queue capacity, versions, barriers and crashes.
THEOREM DurableOnceApplied == Spec => []AppliedIsDurable
  <1>1. Inv => AppliedIsDurable
    BY DEF Inv
  <1> QED
    BY <1>1, InvInit, InvNext, PTL DEF Spec

-----------------------------------------------------------------------------
(* What a barrier reports.  A shutdown's verdict also rests on the worker   *)
(* being gone, and an exited worker never returns within the process.      *)

Honest ==
  /\ actor \in {"Concluding", "Stopping", "Joining"} /\ settled =>
       \A r \in Rooms : desired[r] = NoEffect
  /\ actor = "Stopped" /\ result = "Durable" =>
       worker = "Exited" /\ \A r \in Rooms : desired[r] = NoEffect

\* The conclusion of a barrier stands because only the actor makes a room wanted again.
LEMMA HonestNext == Honest /\ Inv /\ [Next]_vars => Honest'
  <1> SUFFICES ASSUME Honest, Inv, [Next]_vars PROVE Honest'
    OBVIOUS
  <1> USE DEF runtime, map, scan, caller
  <1> DEFINE Clear == \A r \in Rooms : desired[r] = NoEffect
  <1>1. ASSUME NEW r \in Rooms, SaveRoom(r) \/ DeleteRoom(r) PROVE Honest'
    BY <1>1 DEF SaveRoom, DeleteRoom, Enqueue, Arbitrate, Honest
  <1>2. ASSUME NEW last \in BOOLEAN, StartBarrier(last) PROVE Honest'
    BY <1>2 DEF StartBarrier, Honest
  <1>3. CASE SwapWake \/ SignalWake
    BY <1>3 DEF SwapWake, SignalWake, Honest
  <1>4. CASE SendFlush
    BY <1>4 DEF SendFlush, Conclude, Honest
  <1>5. CASE AwaitFlush
    BY <1>5 DEF AwaitFlush, Conclude, IsSettled, Honest
  <1>6. CASE EndBarrier \/ StopWorker \/ SignalStop
    BY <1>6 DEF EndBarrier, StopWorker, SignalStop, Honest
  <1>7. CASE JoinWorker
    BY <1>7 DEF JoinWorker, Verdict, Honest
  <1>8. CASE BeginShutdown \/ DeadlinePasses \/ TerminalPasses
    BY <1>8 DEF BeginShutdown, DeadlinePasses, TerminalPasses, Honest
  <1>9. CASE WorkerStep
    <2>1. UNCHANGED <<actor, settled, result>> /\ worker # "Exited"
      BY <1>9 DEF WorkerStep, StartWorker, Receive, ClearWake, Scan, Choose, Write, Recheck,
                  Commit, MarkApplied, MarkFailed, FinishScan, Acknowledge
    <2>2. Clear => Clear'
      <3>1. CASE MarkApplied
        <4>1. UNCHANGED desired \/ desired' = [desired EXCEPT ![room] = NoEffect]
          BY <3>1 DEF MarkApplied
        <4> QED
          BY <4>1 DEF Inv, Types
      <3>2. CASE ~MarkApplied
        <4>1. UNCHANGED desired
          BY <3>2, <1>9 DEF WorkerStep, StartWorker, Receive, ClearWake, Scan, Choose, Write,
                Recheck, Commit, MarkFailed, FinishScan, Acknowledge
        <4> QED
          BY <4>1
      <3> QED
        BY <3>1, <3>2
    <2> QED
      BY <2>1, <2>2 DEF Honest
  <1>10. CASE Crash
    BY <1>10 DEF Crash, Honest
  <1>11. CASE UNCHANGED vars
    BY <1>11 DEF vars, Honest
  <1> QED
    BY <1>1, <1>2, <1>3, <1>4, <1>5, <1>6, <1>7, <1>8, <1>9, <1>10, <1>11
    DEF Next, ActorStep, BarrierStep

\* A barrier that reports durability has it, and a shutdown that does so leaves no worker
\* behind, for any rooms, queue capacity, versions, barriers and crashes.
THEOREM BarriersAreHonest == Spec => []BarrierIsHonest
  <1>1. Init => Honest
    BY DEF Init, Honest
  <1>2. Inv /\ Honest => BarrierIsHonest
    BY DEF Inv, Honest, AppliedIsDurable, BarrierIsHonest
  <1> QED
    BY <1>1, <1>2, InvInit, InvNext, HonestNext, PTL DEF Spec

-----------------------------------------------------------------------------
(* What degraded mode reports.  A failure that is recorded always degrades. *)
(* A degraded worker that has nothing left to write must have written       *)
(* something in the present scan, which is what lets the scan's end report  *)
(* the recovery.                                                            *)

Health ==
  /\ failure \in [Rooms -> Nat] /\ degraded \in BOOLEAN /\ applied \in BOOLEAN
  /\ (\E r \in Rooms : failure[r] # 0) => degraded
  /\ worker # "Exited" /\ degraded /\ IsSettled => applied
  /\ applied => worker = "Choosing" \/ InTransaction

\* Steps that leave the map, the health and the scan's record alone keep both parts.
LEMMA HealthQuiet ==
  ASSUME Health, UNCHANGED <<desired, failure, degraded, applied>>,
         worker' = worker \/ worker \in {"Choosing", "Checking", "Committing"},
         worker' = worker \/ worker' = "Choosing" \/ InTransaction'
  PROVE  Health'
  BY DEF Health, IsSettled, InTransaction

\* Recording an effect withdraws the failure of the effect it replaces and settles nothing.
LEMMA HealthEnqueue ==
  ASSUME Health, Inv, NEW r \in Rooms, NEW kind \in {"Save", "Delete"}, Enqueue(r, kind)
  PROVE  Health'
  <1>1. UNCHANGED <<degraded, applied, worker>>
    BY DEF Enqueue, scan
  <1>2. CASE UNCHANGED map
    BY <1>1, <1>2 DEF map, Health, IsSettled, InTransaction
  <1>3. CASE ~UNCHANGED map
    <2>1. /\ desired' = [desired EXCEPT ![r] = [kind |-> kind, version |-> next + 1]]
          /\ failure' = [failure EXCEPT ![r] = 0]
      BY <1>3 DEF Enqueue, Arbitrate
    <2>2. desired'[r] # NoEffect
      BY <2>1 DEF Inv, Types, NoEffect
    <2>3. ~IsSettled'
      BY <2>2 DEF IsSettled
    <2>4. failure' \in [Rooms -> Nat] /\ \A q \in Rooms : failure'[q] # 0 => failure[q] # 0
      BY <2>1 DEF Health
    <2> QED
      BY <1>1, <2>3, <2>4 DEF Health, InTransaction
  <1> QED
    BY <1>2, <1>3

\* A transaction that does not open, is refused or does not commit degrades while its room is
\* still wanted (`mark_failed`).
LEMMA HealthFailure ==
  ASSUME Health, Inv, InTransaction, UNCHANGED <<desired, applied>>, degraded' = TRUE,
         failure' \in [Rooms -> Nat], worker' = "Choosing"
  PROVE  Health'
  <1>1. desired[room] # NoEffect /\ room \in Rooms
    BY DEF Inv, Types, TransactionIsWanted
  <1>2. ~IsSettled'
    BY <1>1 DEF IsSettled
  <1> QED
    BY <1>2 DEF Health

\* A mark removes a failure at most, and records that something was written.
LEMMA HealthMarkApplied ==
  ASSUME Health, Inv, MarkApplied
  PROVE  Health'
  <1>1. applied' = TRUE /\ worker' = "Choosing" /\ UNCHANGED degraded
    BY DEF MarkApplied
  <1>2. UNCHANGED failure \/ failure' = [failure EXCEPT ![room] = 0]
    BY DEF MarkApplied, map
  <1>3. failure' \in [Rooms -> Nat] /\ \A r \in Rooms : failure'[r] # 0 => failure[r] # 0
    BY <1>2 DEF Health, Inv, Types
  <1> QED
    BY <1>1, <1>3 DEF Health

\* The end of a scan reports a recovery exactly when nothing is left to write.
LEMMA HealthFinishScan ==
  ASSUME Health, FinishScan
  PROVE  Health'
  <1>1. /\ degraded' = (degraded /\ ~(applied /\ IsSettled)) /\ applied' = FALSE
        /\ worker = "Choosing" /\ UNCHANGED <<desired, failure>>
    BY DEF FinishScan, map
  <1>2. IsSettled' <=> IsSettled
    BY <1>1 DEF IsSettled
  <1>3. IsSettled => \A r \in Rooms : failure[r] = 0
    BY DEF IsSettled
  <1>4. degraded' \in BOOLEAN /\ (degraded' => degraded /\ ~(applied /\ IsSettled))
    BY <1>1
  <1> QED
    BY <1>1, <1>2, <1>3, <1>4 DEF Health

\* Every step keeps the health honest.
LEMMA HealthNext == Health /\ Inv /\ [Next]_vars => Health'
  <1> SUFFICES ASSUME Health, Inv, [Next]_vars PROVE Health'
    OBVIOUS
  <1> USE DEF runtime, map, scan, caller
  <1>1. ASSUME NEW r \in Rooms, SaveRoom(r) \/ DeleteRoom(r) PROVE Health'
    BY <1>1, HealthEnqueue DEF SaveRoom, DeleteRoom
  <1>2. ASSUME NEW last \in BOOLEAN, StartBarrier(last) PROVE Health'
    BY <1>2, HealthQuiet DEF StartBarrier
  <1>3. CASE SwapWake \/ BarrierStep
    <2>1. UNCHANGED <<desired, failure, degraded, applied, worker>>
      BY <1>3 DEF SwapWake, BarrierStep, SendFlush, AwaitFlush, EndBarrier, StopWorker, SignalStop,
                  JoinWorker
    <2> QED
      BY <2>1, HealthQuiet
  <1>4. CASE SignalWake
    <2>1. UNCHANGED <<desired, failure, applied, worker>> /\ degraded' = (degraded \/ worker = "Exited")
      BY <1>4 DEF SignalWake
    <2>2. CASE worker = "Exited"
      BY <2>1, <2>2 DEF Health, InTransaction
    <2>3. CASE worker # "Exited"
      <3>1. degraded' = degraded
        BY <2>1, <2>3 DEF Health
      <3> QED
        BY <2>1, <3>1, HealthQuiet
    <2> QED
      BY <2>2, <2>3
  <1>5. CASE BeginShutdown \/ DeadlinePasses \/ TerminalPasses
    <2>1. UNCHANGED <<desired, failure, degraded, applied, worker>>
      BY <1>5 DEF BeginShutdown, DeadlinePasses, TerminalPasses
    <2> QED
      BY <2>1, HealthQuiet
  <1>6. CASE StartWorker \/ Receive \/ ClearWake \/ Scan \/ Acknowledge
    <2>1. /\ UNCHANGED <<desired, failure, degraded, applied>>
          /\ worker # "Choosing" /\ ~InTransaction /\ worker # "Exited"
      BY <1>6 DEF StartWorker, Receive, ClearWake, Scan, Acknowledge, InTransaction
    <2>2. ~applied
      BY <2>1 DEF Health
    <2> QED
      BY <2>1, <2>2 DEF Health, IsSettled
  <1>7. ASSUME NEW r \in Rooms, Choose(r) PROVE Health'
    BY <1>7, HealthQuiet DEF Choose, InTransaction
  <1>8. CASE Write
    <2>1. InTransaction /\ UNCHANGED <<desired, failure, applied>>
      BY <1>8 DEF Write, InTransaction
    <2>2. CASE worker' = "Choosing" /\ degraded' = TRUE
      BY <2>1, <2>2, HealthFailure DEF Health
    <2>3. CASE worker' \in {"Checking", "Failing"} /\ UNCHANGED degraded
      BY <1>8, <2>1, <2>3 DEF Write, Health, IsSettled, InTransaction
    <2> QED
      BY <1>8, <2>2, <2>3 DEF Write
  <1>9. CASE Recheck \/ Commit
    BY <1>9, HealthQuiet DEF Recheck, Commit, InTransaction
  <1>10. CASE MarkFailed
    <2>1. InTransaction /\ UNCHANGED <<desired, applied>> /\ degraded' = TRUE /\ worker' = "Choosing"
      BY <1>10 DEF MarkFailed, InTransaction
    <2>2. todo[room].version \in Nat
      BY DEF Inv, Types, Effects
    <2>3. failure' \in [Rooms -> Nat]
      BY <1>10, <2>2 DEF MarkFailed, Health, Inv, Types
    <2> QED
      BY <2>1, <2>3, HealthFailure
  <1>11. CASE Crash
    <2>1. failure' = Zero /\ degraded' = FALSE /\ applied' = FALSE
      BY <1>11 DEF Crash
    <2> QED
      BY <2>1 DEF Health, Zero
  <1>12. CASE UNCHANGED vars
    BY <1>12, HealthQuiet DEF vars
  <1> QED
    BY <1>1, <1>2, <1>3, <1>4, <1>5, <1>6, <1>7, <1>8, <1>9, <1>10, <1>11, <1>12, HealthMarkApplied,
       HealthFinishScan DEF Next, ActorStep, WorkerStep

\* Degraded mode tells the truth between two commands (`mark_failed`,
\* `should_report_recovery`), for any rooms, queue capacity, versions, barriers and crashes.
THEOREM DegradedModeIsHonest == Spec => []HealthIsHonest
  <1>1. ASSUME Init PROVE Health
    <2>1. failure = Zero /\ degraded = FALSE /\ applied = FALSE
      BY <1>1 DEF Init
    <2> QED
      BY <2>1 DEF Health, Zero
  <1>2. Health => HealthIsHonest
    BY DEF Health, HealthIsHonest, InTransaction
  <1> QED
    BY <1>1, <1>2, InvInit, InvNext, HealthNext, PTL DEF Spec
=============================================================================
