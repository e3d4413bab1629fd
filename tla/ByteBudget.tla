----------------------------- MODULE ByteBudget -----------------------------
(***************************************************************************)
(* The byte budgets of queued output (crates/sorotte-server/src/           *)
(* resources.rs): reservations charge a counter of their peer and one of   *)
(* the whole server.  Both are atomics without a lock, so a reservation is *)
(* a compare-and-swap on each, rolled back by hand, and tasks interleave   *)
(* between any two of them.                                                *)
(***************************************************************************)
EXTENDS Naturals, FiniteSets, FiniteSetsExt

CONSTANTS
  Reservations,   \* ByteReservation values, each owned by one task at a time
  Peers,          \* connections
  PeerOf,         \* whose budget a reservation charges
  Sizes,          \* the line sizes that occur
  PeerLimit,      \* queued_bytes_per_peer
  TotalLimit      \* queued_bytes_total

ASSUME BudgetAssumption ==
  /\ IsFiniteSet(Reservations) /\ PeerOf \in [Reservations -> Peers]
  /\ Sizes \subseteq Nat \ {0}
  /\ PeerLimit \in Nat /\ TotalLimit \in Nat /\ PeerLimit <= TotalLimit

VARIABLES
  peerBytes,   \* PeerByteBudget::bytes of every peer
  bytes,       \* NetworkResources::bytes
  peak,        \* NetworkResources::peak_bytes
  hold         \* each reservation: its bytes, the size it moves to, and the step it is at

budgetVars == <<peerBytes, bytes, peak, hold>>

Steps == {"Idle", "ChargePeer", "ChargeTotal", "Rollback", "RecordPeak",
          "RefundPeer", "RefundTotal"}

Holds == [bytes : Nat, target : Nat, seen : Nat, step : Steps]

BudgetInit ==
  /\ peerBytes = [p \in Peers |-> 0] /\ bytes = 0 /\ peak = 0
  /\ hold = [r \in Reservations |-> [bytes |-> 0, target |-> 0, seen |-> 0, step |-> "Idle"]]

Growth(r) == hold[r].target - hold[r].bytes
Shrinkage(r) == hold[r].bytes - hold[r].target

GoTo(r, step) == hold' = [hold EXCEPT ![r].step = step]

\* The operation is over: the reservation owns `owned` bytes.
Settle(r, owned) ==
  hold' = [hold EXCEPT ![r] = [bytes |-> owned, target |-> owned, seen |-> 0, step |-> "Idle"]]

-----------------------------------------------------------------------------
\* `reserve` of a new reservation, or `resize` to a larger line.
BeginGrowth(r, size) ==
  /\ hold[r].step = "Idle" /\ size > hold[r].bytes
  /\ hold' = [hold EXCEPT ![r] = [@ EXCEPT !.target = size, !.step = "ChargePeer"]]
  /\ UNCHANGED <<peerBytes, bytes, peak>>

\* The peer's counter, if it stays within its limit.
ChargePeer(r) ==
  LET p == PeerOf[r]
      charged == peerBytes[p] + Growth(r)
  IN /\ hold[r].step = "ChargePeer"
     /\ \/ /\ charged <= PeerLimit
           /\ peerBytes' = [peerBytes EXCEPT ![p] = charged]
           /\ GoTo(r, "ChargeTotal")
        \/ charged > PeerLimit /\ Settle(r, hold[r].bytes) /\ UNCHANGED peerBytes
     /\ UNCHANGED <<bytes, peak>>

\* The server's counter, if it stays within its limit.
ChargeTotal(r) ==
  LET charged == bytes + Growth(r)
  IN /\ hold[r].step = "ChargeTotal"
     /\ \/ /\ charged <= TotalLimit
           /\ bytes' = charged
           /\ hold' = [hold EXCEPT ![r] = [@ EXCEPT !.step = "RecordPeak", !.seen = charged]]
        \/ charged > TotalLimit /\ GoTo(r, "Rollback") /\ UNCHANGED bytes
     /\ UNCHANGED <<peerBytes, peak>>

\* Fault: a refused reservation leaves its peer charged.
ForgottenRollback(r) ==
  /\ hold[r].step = "Rollback"
  /\ Settle(r, hold[r].bytes)
  /\ UNCHANGED <<peerBytes, bytes, peak>>

Rollback(r) ==
  LET p == PeerOf[r]
  IN /\ hold[r].step = "Rollback"
     /\ peerBytes' = [peerBytes EXCEPT ![p] = @ - Growth(r)]
     /\ Settle(r, hold[r].bytes)
     /\ UNCHANGED <<bytes, peak>>

\* `fetch_max`, with the total this reservation produced.
RecordPeak(r) ==
  /\ hold[r].step = "RecordPeak"
  /\ peak' = IF hold[r].seen > peak THEN hold[r].seen ELSE peak
  /\ Settle(r, hold[r].target)
  /\ UNCHANGED <<peerBytes, bytes>>

\* `resize` to a smaller line, or the drop of the reservation (to zero).
BeginShrinkage(r, size) ==
  /\ hold[r].step = "Idle" /\ size < hold[r].bytes
  /\ hold' = [hold EXCEPT ![r] = [@ EXCEPT !.target = size, !.step = "RefundPeer"]]
  /\ UNCHANGED <<peerBytes, bytes, peak>>

RefundPeer(r) ==
  LET p == PeerOf[r]
  IN /\ hold[r].step = "RefundPeer"
     /\ peerBytes' = [peerBytes EXCEPT ![p] = @ - Shrinkage(r)]
     /\ GoTo(r, "RefundTotal")
     /\ UNCHANGED <<bytes, peak>>

RefundTotal(r) ==
  /\ hold[r].step = "RefundTotal"
  /\ bytes' = bytes - Shrinkage(r)
  /\ Settle(r, hold[r].target)
  /\ UNCHANGED <<peerBytes, peak>>

BudgetNext ==
  \E r \in Reservations :
    \/ \E size \in Sizes : BeginGrowth(r, size)
    \/ ChargePeer(r) \/ ChargeTotal(r) \/ Rollback(r) \/ RecordPeak(r)
    \/ \E size \in Sizes \cup {0} : BeginShrinkage(r, size)
    \/ RefundPeer(r) \/ RefundTotal(r)

BudgetSpec == BudgetInit /\ [][BudgetNext]_budgetVars

-----------------------------------------------------------------------------
\* The counters are natural numbers, so no refund wraps an unsigned counter, and they
\* never exceed their limits.
BudgetTypeOK ==
  /\ peerBytes \in [Peers -> 0 .. PeerLimit]
  /\ bytes \in 0 .. TotalLimit /\ peak \in 0 .. TotalLimit
  /\ hold \in [Reservations -> Holds]

\* What a reservation in state x has charged to its peer and to the server.
PeerCharge(x) ==
  IF x.step \in {"ChargeTotal", "Rollback", "RecordPeak", "RefundTotal"} THEN x.target
  ELSE x.bytes

TotalCharge(x) == IF x.step = "RecordPeak" THEN x.target ELSE x.bytes

\* What the reservations of S in the states h have charged to a peer and to the server.
PeerCharges(h, S) == MapThenSumSet(LAMBDA r : PeerCharge(h[r]), S)
TotalCharges(h, S) == MapThenSumSet(LAMBDA r : TotalCharge(h[r]), S)

ReservationsOf(p) == {r \in Reservations : PeerOf[r] = p}

\* Every byte on a counter belongs to a reservation, whatever the tasks are in the middle
\* of: a failed reservation, a resize or a drop never leaks and never refunds twice; and
\* the recorded peak covers the present total once every task has recorded its own.
BudgetIsExact ==
  /\ \A p \in Peers : peerBytes[p] = PeerCharges(hold, ReservationsOf(p))
  /\ bytes = TotalCharges(hold, Reservations)
  /\ (\A r \in Reservations : hold[r].step # "RecordPeak") => bytes <= peak
=============================================================================
