---------------------------- MODULE TrafficProofs ----------------------------
(***************************************************************************)
(* What passes between a server and its clients, for any number of         *)
(* connections, addresses, peers, reservations and events and any limits.  *)
(*                                                                         *)
(* The counters of resources.rs are exact: those of admission, which are   *)
(* cardinalities, and those of the byte budgets, which are sums.  The      *)
(* library's induction theorems take an operator, which the provers cannot *)
(* instantiate, so the induction over the subsets of a finite set that     *)
(* sums need is derived here from the well-ordering of Nat, with a set in  *)
(* the operator's place.                                                   *)
(*                                                                         *)
(* What a connection writes is in dispatch order and skips nothing that    *)
(* must be written.  WrittenInOrder speaks of the moment of a write.  The  *)
(* inductive invariant says where every event is on its way to it: the     *)
(* sender holds the newest, the channel holds older ones in order, each    *)
(* periodic marker carries a state older than whatever follows the marker, *)
(* and the session holds one older still.                                  *)
(*                                                                         *)
(* What a client sends is lost, reordered, sent twice after a withdrawal   *)
(* or carried by the wrong connection only if the outbox, the staged       *)
(* delivery, the slot and the workers disagree.  Their invariant follows   *)
(* every queued line through them.  Select is a recursive function; that   *)
(* it returns the elements it names, in order, is proved by the same       *)
(* induction over Nat.                                                     *)
(***************************************************************************)
EXTENDS ConnectionAdmission, ByteBudget, OutboundQueue, SessionDelivery, Integers,
        FiniteSetTheorems, WellFoundedInduction, TLAPS


-----------------------------------------------------------------------------
(* Admission. *)

\* Every set the counters count is finite.
LEMMA CountedSetsAreFinite ==
  /\ IsFiniteSet(Admitted) /\ IsFiniteSet(Waiting)
  /\ \A a : IsFiniteSet(AdmittedFrom(a))
<1>1. Admitted \subseteq Connections /\ Waiting \subseteq Connections
  BY DEF Admitted, Waiting
<1>2. \A a : AdmittedFrom(a) \subseteq Connections
  BY DEF AdmittedFrom, Admitted
<1> QED BY <1>1, <1>2, FS_Subset, AdmissionAssumption

\* A new permit adds its connection to the three sets.
LEMMA AdmitKeepsCounts ==
  ASSUME AdmissionIsExact, NEW c \in Connections, Admit(c)
  PROVE  AdmissionIsExact'
<1> DEFINE a == AddressOf[c]
<1>1. /\ Admitted' = Admitted \cup {c} /\ c \notin Admitted
      /\ Waiting' = Waiting \cup {c} /\ c \notin Waiting
  BY DEF Admit, AdmissionIsExact, Admitted, Waiting
<1>2. \A b \in Addresses :
        AdmittedFrom(b)' = IF b = a THEN AdmittedFrom(b) \cup {c} ELSE AdmittedFrom(b)
  BY <1>1 DEF AdmittedFrom
<1>3. c \notin AdmittedFrom(a)
  BY <1>1 DEF AdmittedFrom
<1>4. a \in Addresses
  BY AdmissionAssumption
<1>5. /\ Cardinality(Admitted') = Cardinality(Admitted) + 1
      /\ Cardinality(Waiting') = Cardinality(Waiting) + 1
      /\ Cardinality(AdmittedFrom(a) \cup {c}) = Cardinality(AdmittedFrom(a)) + 1
  BY <1>1, <1>3, CountedSetsAreFinite, FS_AddElement
<1>6. Cardinality(Admitted) \in Nat /\ Cardinality(Waiting) \in Nat
  BY CountedSetsAreFinite, FS_CardinalityType
<1>7. permit' \in [Connections -> Permits] /\ addresses' \in [Addresses -> Nat]
  BY <1>4 DEF Admit, AdmissionIsExact, Permits
<1>8. active' = Cardinality(Admitted') /\ active' <= MaxActive
  BY <1>5, <1>6, AdmissionAssumption DEF Admit, AdmissionIsExact
<1>9. unauthenticated' = Cardinality(Waiting') /\ unauthenticated' <= MaxUnauthenticated
  BY <1>5, <1>6, AdmissionAssumption DEF Admit, AdmissionIsExact
<1>10. ASSUME NEW b \in Addresses
       PROVE  addresses'[b] = Cardinality(AdmittedFrom(b)') /\ addresses'[b] <= MaxPerAddress
  <2>1. CASE b = a
    BY <2>1, <1>2, <1>4, <1>5, AdmissionAssumption DEF Admit, AdmissionIsExact
  <2>2. CASE b # a
    BY <2>2, <1>2, <1>4, AdmissionAssumption DEF Admit, AdmissionIsExact
  <2> QED BY <2>1, <2>2
<1> QED BY <1>7, <1>8, <1>9, <1>10 DEF AdmissionIsExact

\* Authentication takes its connection out of the unauthenticated ones only.
LEMMA AuthenticatedKeepsCounts ==
  ASSUME AdmissionIsExact, NEW c \in Connections, Authenticated(c)
  PROVE  AdmissionIsExact'
<1>1. /\ Admitted' = Admitted /\ \A b : AdmittedFrom(b)' = AdmittedFrom(b)
      /\ Waiting' = Waiting \ {c} /\ c \in Waiting
  BY DEF Authenticated, AdmissionIsExact, Admitted, Waiting, AdmittedFrom
<1>2. Cardinality(Waiting') = Cardinality(Waiting) - 1
  BY <1>1, CountedSetsAreFinite, FS_RemoveElement
<1>3. Cardinality(Waiting) \in Nat
  BY CountedSetsAreFinite, FS_CardinalityType
<1>4. permit' \in [Connections -> Permits]
  BY DEF Authenticated, AdmissionIsExact, Permits
<1>5. unauthenticated' = Cardinality(Waiting') /\ unauthenticated' <= MaxUnauthenticated
  BY <1>2, <1>3, AdmissionAssumption DEF Authenticated, AdmissionIsExact
<1> QED BY <1>1, <1>4, <1>5 DEF Authenticated, AdmissionIsExact

\* A dropped permit takes its connection out of every set that counts it.
LEMMA ReleaseKeepsCounts ==
  ASSUME AdmissionIsExact, NEW c \in Connections, Release(c)
  PROVE  AdmissionIsExact'
<1> DEFINE a == AddressOf[c]
<1>1. /\ Admitted' = Admitted \ {c} /\ c \in Admitted
      /\ Waiting' = Waiting \ {c} /\ (c \in Waiting <=> permit[c] = "Unauthenticated")
  BY DEF Release, AdmissionIsExact, Admitted, Waiting
<1>2. \A b \in Addresses :
        AdmittedFrom(b)' = IF b = a THEN AdmittedFrom(b) \ {c} ELSE AdmittedFrom(b)
  BY <1>1 DEF AdmittedFrom
<1>3. c \in AdmittedFrom(a)
  BY <1>1 DEF AdmittedFrom
<1>4. a \in Addresses
  BY AdmissionAssumption
<1>5. /\ Cardinality(Admitted') = Cardinality(Admitted) - 1
      /\ Cardinality(Waiting') =
           IF c \in Waiting THEN Cardinality(Waiting) - 1 ELSE Cardinality(Waiting)
      /\ Cardinality(AdmittedFrom(a) \ {c}) = Cardinality(AdmittedFrom(a)) - 1
  BY <1>1, <1>3, CountedSetsAreFinite, FS_RemoveElement
<1>6. /\ Cardinality(Admitted) \in Nat /\ Cardinality(Waiting) \in Nat
      /\ Cardinality(AdmittedFrom(a)) \in Nat
      /\ Cardinality(AdmittedFrom(a) \ {c}) \in Nat
  BY CountedSetsAreFinite, FS_CardinalityType, FS_RemoveElement
<1>7. permit' \in [Connections -> Permits] /\ addresses' \in [Addresses -> Nat]
  BY <1>4, <1>5, <1>6 DEF Release, AdmissionIsExact, Permits
<1>8. active' = Cardinality(Admitted') /\ active' <= MaxActive
  BY <1>5, <1>6, AdmissionAssumption DEF Release, AdmissionIsExact
<1>9. unauthenticated' = Cardinality(Waiting') /\ unauthenticated' <= MaxUnauthenticated
  BY <1>1, <1>5, <1>6, AdmissionAssumption DEF Release, AdmissionIsExact
<1>10. ASSUME NEW b \in Addresses
       PROVE  addresses'[b] = Cardinality(AdmittedFrom(b)') /\ addresses'[b] <= MaxPerAddress
  <2>1. CASE b = a
    <3>1. Cardinality(AdmittedFrom(b)') = Cardinality(AdmittedFrom(a)) - 1
      BY <2>1, <1>2, <1>4, <1>5
    <3>2. addresses'[a] = addresses[a] - 1
      BY <1>4 DEF Release, AdmissionIsExact
    <3>3. addresses[a] = Cardinality(AdmittedFrom(a)) /\ addresses[a] <= MaxPerAddress
      BY <1>4 DEF AdmissionIsExact
    <3> HIDE DEF a
    <3> QED BY <2>1, <3>1, <3>2, <3>3, <1>6, AdmissionAssumption
  <2>2. CASE b # a
    BY <2>2, <1>2, <1>4, AdmissionAssumption DEF Release, AdmissionIsExact
  <2> QED BY <2>1, <2>2
<1> QED BY <1>7, <1>8, <1>9, <1>10 DEF AdmissionIsExact

\* The counters that `admit` compares with the limits are, in every reachable state, the
\* numbers of permits alive: no way to end a connection leaks or returns a share twice.
THEOREM AdmissionCountsPermits == AdmissionSpec => []AdmissionIsExact
<1>1. AdmissionInit => AdmissionIsExact
  <2> SUFFICES ASSUME AdmissionInit PROVE AdmissionIsExact
    OBVIOUS
  <2>1. Admitted = {} /\ Waiting = {} /\ \A a : AdmittedFrom(a) = {}
    BY DEF AdmissionInit, Admitted, Waiting, AdmittedFrom
  <2>2. Cardinality({}) = 0
    BY FS_EmptySet
  <2> QED BY <2>1, <2>2, AdmissionAssumption DEF AdmissionInit, AdmissionIsExact, Permits
<1>2. AdmissionIsExact /\ [AdmissionNext]_admissionVars => AdmissionIsExact'
  <2> SUFFICES ASSUME AdmissionIsExact, [AdmissionNext]_admissionVars PROVE AdmissionIsExact'
    OBVIOUS
  <2>1. CASE UNCHANGED admissionVars
    BY <2>1 DEF admissionVars, AdmissionIsExact, Admitted, Waiting, AdmittedFrom
  <2>2. ASSUME NEW c \in Connections, Admit(c) PROVE AdmissionIsExact'
    BY <2>2, AdmitKeepsCounts
  <2>3. ASSUME NEW c \in Connections, Authenticated(c) PROVE AdmissionIsExact'
    BY <2>3, AuthenticatedKeepsCounts
  <2>4. ASSUME NEW c \in Connections, Release(c) PROVE AdmissionIsExact'
    BY <2>4, ReleaseKeepsCounts
  <2> QED BY <2>1, <2>2, <2>3, <2>4 DEF AdmissionNext
<1> QED BY <1>1, <1>2, PTL DEF AdmissionSpec

-----------------------------------------------------------------------------
(* Induction. *)

\* A set of natural numbers that is not empty has a least element.
LEMMA LeastNat ==
  ASSUME NEW T \in SUBSET Nat, T # {}
  PROVE  \E m \in T : \A k \in T : m <= k
<1> DEFINE R == OpToRel(<, Nat)
<1>1. IsWellFoundedOn(R, Nat)
  BY NatLessThanWellFounded
<1>2. \A i, j \in Nat : i < j => <<i, j>> \in R
  BY DEF OpToRel
<1> HIDE DEF R
<1>3. PICK m \in T : \A k \in T : ~(<<k, m>> \in R)
  BY <1>1, WFMin
<1>4. ASSUME NEW k \in T PROVE m <= k
  <2>1. ~(k < m)
    BY <1>2, <1>3
  <2> QED BY <2>1
<1> QED
  BY <1>4

\* Induction up to n: a set that contains 0 and the successor of each of its elements.
LEMMA UpTo ==
  ASSUME NEW n \in Nat, NEW G, 0 \in G, \A k \in 0 .. n - 1 : k \in G => k + 1 \in G
  PROVE  0 .. n \subseteq G
<1> DEFINE T == {k \in 0..n : k \notin G}
<1>1. SUFFICES ASSUME T # {} PROVE FALSE
  OBVIOUS
<1>2. T \in SUBSET Nat
  OBVIOUS
<1>3. PICK m \in T : \A k \in T : m <= k
  <2> HIDE DEF T
  <2> QED BY <1>1, <1>2, LeastNat
<1>4. m - 1 \in 0 .. n - 1 /\ m - 1 \notin T
  BY <1>3
<1>5. m - 1 \in G
  BY <1>4
<1> QED
  BY <1>3, <1>4, <1>5

-----------------------------------------------------------------------------
(* Sums over the subsets of a finite set, as MapThenSumSet computes them.  *)

\* The element it takes out first.
Chosen(s) == CHOOSE x \in s : TRUE

\* g gives every subset of S the sum of f over it.
Sums(g, f, S) ==
  g = [s \in SUBSET S |-> IF s = {} THEN 0 ELSE f[Chosen(s)] + g[s \ {Chosen(s)}]]

\* What is left without that element is smaller.
LEMMA ChosenOne ==
  ASSUME NEW S, IsFiniteSet(S)
  PROVE  /\ Cardinality(S) \in Nat
         /\ \A s \in SUBSET S : /\ IsFiniteSet(s) /\ Cardinality(s) \in Nat
                                /\ Cardinality(s) <= Cardinality(S)
         /\ \A s \in SUBSET S : s # {} =>
              /\ Chosen(s) \in s
              /\ Cardinality(s \ {Chosen(s)}) = Cardinality(s) - 1
<1>1. \A s \in SUBSET S : s # {} => Chosen(s) \in s
  BY DEF Chosen
<1>2. \A s \in SUBSET S : IsFiniteSet(s) /\ Cardinality(s) \in Nat
                            /\ Cardinality(s) <= Cardinality(S)
  BY FS_CardinalityType, FS_Subset
<1>3. \A s \in SUBSET S : s # {} => Cardinality(s \ {Chosen(s)}) = Cardinality(s) - 1
  BY <1>1, <1>2, FS_RemoveElement
<1> QED
  BY <1>1, <1>2, <1>3, FS_CardinalityType

\* Induction over subsets of a finite set: from a set without its chosen element.
LEMMA UpToSubsets ==
  ASSUME NEW S, IsFiniteSet(S), NEW G, {} \in G,
         \A s \in SUBSET S : s # {} /\ s \ {Chosen(s)} \in G => s \in G
  PROVE  SUBSET S \subseteq G
<1> DEFINE N == {k \in Nat : \A s \in SUBSET S : Cardinality(s) <= k => s \in G}
<1>1. 0 \in N
  <2>1. \A s \in SUBSET S : Cardinality(s) <= 0 => s = {}
    BY ChosenOne, FS_EmptySet
  <2> QED BY <2>1
<1>2. ASSUME NEW k \in 0 .. Cardinality(S) - 1, k \in N
      PROVE  k + 1 \in N
  <2>0. k \in Nat
    BY ChosenOne
  <2>1. ASSUME NEW s \in SUBSET S, Cardinality(s) <= k + 1, s # {}
        PROVE  s \in G
    <3>1. Cardinality(s \ {Chosen(s)}) <= k
      BY <2>0, <2>1, ChosenOne
    <3>2. s \ {Chosen(s)} \in G
      BY <1>2, <3>1
    <3> QED BY <2>1, <3>2
  <2> QED BY <2>0, <2>1
<1>3. Cardinality(S) \in N
  <2> HIDE DEF N
  <2> QED BY <1>1, <1>2, UpTo, ChosenOne
<1> QED
  BY <1>3, ChosenOne

\* Such a g exists, so the recursive function is what its definition says.
LEMMA SumsExist ==
  ASSUME NEW S, IsFiniteSet(S), NEW f
  PROVE  \E g : Sums(g, f, S)
<1> DEFINE Small(k) == {s \in SUBSET S : Cardinality(s) <= k}
           Part(g, k) == g = [s \in Small(k) |->
                  IF s = {} THEN 0 ELSE f[Chosen(s)] + g[s \ {Chosen(s)}]]
           G == {k \in Nat : \E g : Part(g, k)}
           n == Cardinality(S)
<1>3. 0 \in G
  <2>1. Small(0) = {{}}
    BY ChosenOne, FS_EmptySet
  <2>2. Part([s \in Small(0) |-> 0], 0)
    BY <2>1
  <2> HIDE DEF Part
  <2> QED BY <2>2
<1>4. ASSUME NEW k \in 0 .. n - 1, k \in G PROVE k + 1 \in G
  <2>0. k \in Nat /\ k + 1 \in Nat
    BY ChosenOne
  <2>1. PICK g : Part(g, k)
    BY <1>4
  <2> DEFINE h == [s \in Small(k + 1) |->
                     IF s = {} THEN 0 ELSE f[Chosen(s)] + g[s \ {Chosen(s)}]]
  <2>2. \A s \in Small(k + 1) : s # {} => s \ {Chosen(s)} \in Small(k)
    BY <2>0, ChosenOne
  <2>3. Small(k) \subseteq Small(k + 1)
    BY <2>0, ChosenOne
  <2>4. \A s \in Small(k) : h[s] = g[s]
    BY <2>1, <2>3
  <2>6. Part(h, k + 1)
    BY <2>2, <2>4
  <2> HIDE DEF Part, h
  <2> QED BY <2>0, <2>6
<1>5. n \in G
  <2> HIDE DEF G
  <2> QED BY <1>3, <1>4, UpTo, ChosenOne
<1>6. Small(n) = SUBSET S
  BY ChosenOne
<1> QED
  BY <1>5, <1>6 DEF Sums

\* When f changes at x alone, its sum changes by as much.
LEMMA SumsMove ==
  ASSUME NEW S, IsFiniteSet(S), NEW f \in [S -> Nat], NEW f2 \in [S -> Nat],
         NEW g, Sums(g, f, S), NEW g2, Sums(g2, f2, S),
         NEW x, \A y \in S \ {x} : f2[y] = f[y]
  PROVE  /\ g[S] \in Nat /\ g2[S] \in Nat
         /\ x \in S => g2[S] = g[S] + f2[x] - f[x] /\ f[x] <= g[S]
         /\ x \notin S => g2[S] = g[S]
<1> DEFINE Moved(s) == /\ g[s] \in Nat /\ g2[s] \in Nat
                       /\ x \in s => g2[s] = g[s] + f2[x] - f[x] /\ f[x] <= g[s]
                       /\ x \notin s => g2[s] = g[s]
           G == {s \in SUBSET S : Moved(s)}
<1>1. {} \in G
  BY DEF Sums
<1>2. ASSUME NEW s \in SUBSET S, s # {}, s \ {Chosen(s)} \in G
      PROVE  s \in G
  <2> DEFINE c == Chosen(s)
             r == s \ {c}
  <2>1. c \in s /\ c \in S
    BY <1>2, ChosenOne
  <2>2. g[s] = f[c] + g[r] /\ g2[s] = f2[c] + g2[r]
    BY <1>2 DEF Sums
  <2>3. Moved(r)
    BY <1>2
  <2>4. f[c] \in Nat /\ f2[c] \in Nat /\ (c # x => f2[c] = f[c])
    BY <2>1
  <2>5. c = x => x \notin r
    OBVIOUS
  <2>6. c # x => (x \in r <=> x \in s)
    OBVIOUS
  <2>7. x \in S => f[x] \in Nat /\ f2[x] \in Nat
    OBVIOUS
  <2> HIDE DEF c, r
  <2>8. CASE c = x
    BY <2>1, <2>2, <2>3, <2>4, <2>5, <2>8
  <2>9. CASE c # x
    BY <2>1, <2>2, <2>3, <2>4, <2>6, <2>7, <2>9
  <2> QED BY <2>8, <2>9
<1>3. SUBSET S \subseteq G
  <2> HIDE DEF G
  <2> QED BY <1>1, <1>2, UpToSubsets
<1> QED
  BY <1>3

\* Nothing adds up to nothing.
LEMMA SumsOfZero ==
  ASSUME NEW S, IsFiniteSet(S), NEW f, \A x \in S : f[x] = 0, NEW g, Sums(g, f, S)
  PROVE  g[S] = 0
<1> DEFINE G == {s \in SUBSET S : g[s] = 0}
<1>1. {} \in G
  BY DEF Sums
<1>2. ASSUME NEW s \in SUBSET S, s # {}, s \ {Chosen(s)} \in G
      PROVE  s \in G
  <2>1. Chosen(s) \in S
    BY <1>2, ChosenOne
  <2>2. g[s] = f[Chosen(s)] + g[s \ {Chosen(s)}]
    BY <1>2 DEF Sums
  <2> QED BY <1>2, <2>1, <2>2
<1>3. SUBSET S \subseteq G
  <2> HIDE DEF G
  <2> QED BY <1>1, <1>2, UpToSubsets
<1> QED
  BY <1>3

-----------------------------------------------------------------------------
(* The budgets. *)

\* What is charged to a peer is such a sum.
LEMMA PeerSums ==
  ASSUME NEW h, NEW S, IsFiniteSet(S), \A r \in S : h[r] \in Holds
  PROVE  LET f == [r \in S |-> PeerCharge(h[r])] IN
         /\ f \in [S -> Nat]
         /\ \E g : Sums(g, f, S) /\ PeerCharges(h, S) = g[S]
<1> DEFINE f == [r \in S |-> PeerCharge(h[r])]
           P(g) == g = [s \in SUBSET S |-> IF s = {} THEN 0
                         ELSE PeerCharge(h[CHOOSE x \in s : TRUE])
                                + g[s \ {CHOOSE x \in s : TRUE}]]
<1>1. f \in [S -> Nat]
  BY DEF PeerCharge, Holds
<1>2. \A g : Sums(g, f, S) <=> P(g)
  <2>1. \A s \in SUBSET S : s # {} => Chosen(s) \in s
    BY ChosenOne
  <2> QED BY <2>1 DEF Sums, Chosen
<1>3. \E g : P(g)
  <2> HIDE DEF f, P
  <2> QED BY <1>2, SumsExist
<1>4. PeerCharges(h, S) = (CHOOSE g : P(g))[S]
  BY DEF PeerCharges, MapThenSumSet, MapThenFoldSet
<1>5. P(CHOOSE g : P(g))
  <2> HIDE DEF P
  <2> QED BY <1>3
<1> HIDE DEF P
<1> QED
  BY <1>1, <1>2, <1>4, <1>5

\* What is charged to the server is another.
LEMMA TotalSums ==
  ASSUME NEW h, NEW S, IsFiniteSet(S), \A r \in S : h[r] \in Holds
  PROVE  LET f == [r \in S |-> TotalCharge(h[r])] IN
         /\ f \in [S -> Nat]
         /\ \E g : Sums(g, f, S) /\ TotalCharges(h, S) = g[S]
<1> DEFINE f == [r \in S |-> TotalCharge(h[r])]
           P(g) == g = [s \in SUBSET S |-> IF s = {} THEN 0
                         ELSE TotalCharge(h[CHOOSE x \in s : TRUE])
                                + g[s \ {CHOOSE x \in s : TRUE}]]
<1>1. f \in [S -> Nat]
  BY DEF TotalCharge, Holds
<1>2. \A g : Sums(g, f, S) <=> P(g)
  <2>1. \A s \in SUBSET S : s # {} => Chosen(s) \in s
    BY ChosenOne
  <2> QED BY <2>1 DEF Sums, Chosen
<1>3. \E g : P(g)
  <2> HIDE DEF f, P
  <2> QED BY <1>2, SumsExist
<1>4. TotalCharges(h, S) = (CHOOSE g : P(g))[S]
  BY DEF TotalCharges, MapThenSumSet, MapThenFoldSet
<1>5. P(CHOOSE g : P(g))
  <2> HIDE DEF P
  <2> QED BY <1>3
<1> HIDE DEF P
<1> QED
  BY <1>1, <1>2, <1>4, <1>5

\* What a reservation is in the middle of says which way it moves.
Moving ==
  \A r \in Reservations :
    LET x == hold[r] IN
    /\ x.step = "Idle" => x.target = x.bytes
    /\ x.step \in {"ChargePeer", "ChargeTotal", "Rollback", "RecordPeak"} => x.target > x.bytes
    /\ x.step \in {"RefundPeer", "RefundTotal"} => x.target < x.bytes
    /\ x.step = "RecordPeak" => x.seen <= TotalLimit

\* The peak covers the total, or somebody has still to record it.
PeakIsComing ==
  bytes <= peak \/ \E r \in Reservations : hold[r].step = "RecordPeak" /\ hold[r].seen >= bytes

\* The inductive invariant.
BudgetInv == BudgetTypeOK /\ BudgetIsExact /\ Moving /\ PeakIsComing

\* One reservation moves.
LEMMA OneMoves ==
  ASSUME NEW h \in [Reservations -> Holds], NEW h2 \in [Reservations -> Holds],
         NEW r \in Reservations, \A q \in Reservations \ {r} : h2[q] = h[q]
  PROVE  /\ LET before == TotalCharges(h, Reservations)
                after == TotalCharges(h2, Reservations)
            IN /\ before \in Nat
               /\ after = before + TotalCharge(h2[r]) - TotalCharge(h[r])
               /\ TotalCharge(h[r]) <= before
         /\ \A p \in Peers :
            LET before == PeerCharges(h, ReservationsOf(p))
                after == PeerCharges(h2, ReservationsOf(p))
            IN /\ before \in Nat
               /\ p # PeerOf[r] => after = before
               /\ p = PeerOf[r] => /\ after = before + PeerCharge(h2[r]) - PeerCharge(h[r])
                                   /\ PeerCharge(h[r]) <= before
<1>1. IsFiniteSet(Reservations) /\ \A p : IsFiniteSet(ReservationsOf(p))
  BY BudgetAssumption, FS_Subset DEF ReservationsOf
<1>2. LET before == TotalCharges(h, Reservations)
          after == TotalCharges(h2, Reservations)
      IN /\ before \in Nat
         /\ after = before + TotalCharge(h2[r]) - TotalCharge(h[r])
         /\ TotalCharge(h[r]) <= before
  <2> DEFINE f == [q \in Reservations |-> TotalCharge(h[q])]
             f2 == [q \in Reservations |-> TotalCharge(h2[q])]
             before == TotalCharges(h, Reservations)
             after == TotalCharges(h2, Reservations)
  <2>1. f \in [Reservations -> Nat] /\ \E g : Sums(g, f, Reservations) /\ before = g[Reservations]
    BY <1>1, TotalSums
  <2>2. f2 \in [Reservations -> Nat] /\ \E g : Sums(g, f2, Reservations) /\ after = g[Reservations]
    BY <1>1, TotalSums
  <2>3. \A y \in Reservations \ {r} : f2[y] = f[y]
    OBVIOUS
  <2>4. f[r] = TotalCharge(h[r]) /\ f2[r] = TotalCharge(h2[r])
    OBVIOUS
  <2> HIDE DEF f, f2, before, after
  <2>5. /\ before \in Nat /\ after \in Nat
        /\ after = before + f2[r] - f[r] /\ f[r] <= before
    BY <1>1, <2>1, <2>2, <2>3, SumsMove
  <2> QED BY <2>4, <2>5 DEF before, after
<1>3. ASSUME NEW p \in Peers
      PROVE  LET before == PeerCharges(h, ReservationsOf(p))
                 after == PeerCharges(h2, ReservationsOf(p))
             IN /\ before \in Nat
                /\ p # PeerOf[r] => after = before
                /\ p = PeerOf[r] => /\ after = before + PeerCharge(h2[r]) - PeerCharge(h[r])
                                    /\ PeerCharge(h[r]) <= before
  <2> DEFINE S == ReservationsOf(p)
             f == [q \in S |-> PeerCharge(h[q])]
             f2 == [q \in S |-> PeerCharge(h2[q])]
             before == PeerCharges(h, S)
             after == PeerCharges(h2, S)
  <2>0. /\ IsFiniteSet(S) /\ \A q \in S : h[q] \in Holds /\ h2[q] \in Holds
        /\ r \in S <=> p = PeerOf[r]
    BY <1>1 DEF ReservationsOf
  <2>1. f \in [S -> Nat] /\ \E g : Sums(g, f, S) /\ before = g[S]
    BY <2>0, PeerSums, ZenonT(60)
  <2>2. f2 \in [S -> Nat] /\ \E g : Sums(g, f2, S) /\ after = g[S]
    BY <2>0, PeerSums, ZenonT(60)
  <2>3. \A y \in S \ {r} : f2[y] = f[y]
    BY DEF ReservationsOf
  <2>4. r \in S => f[r] = PeerCharge(h[r]) /\ f2[r] = PeerCharge(h2[r])
    OBVIOUS
  <2> HIDE DEF f, f2, before, after
  <2>5. /\ before \in Nat /\ after \in Nat
        /\ r \in S => after = before + f2[r] - f[r] /\ f[r] <= before
        /\ r \notin S => after = before
    <3> HIDE DEF S
    <3> QED BY <2>0, <2>1, <2>2, <2>3, SumsMove
  <2> QED BY <2>0, <2>4, <2>5 DEF before, after
<1> QED BY <1>2, <1>3

\* A reservation that moves and moves the counters by as much.
LEMMA MovesTogether ==
  ASSUME BudgetInv, NEW r \in Reservations,
         hold' \in [Reservations -> Holds],
         \A q \in Reservations \ {r} : hold'[q] = hold[q],
         bytes' = bytes + TotalCharge(hold'[r]) - TotalCharge(hold[r]),
         peerBytes' = [peerBytes EXCEPT
           ![PeerOf[r]] = @ + PeerCharge(hold'[r]) - PeerCharge(hold[r])],
         bytes' <= TotalLimit, peerBytes'[PeerOf[r]] <= PeerLimit,
         peak' \in 0 .. TotalLimit, Moving', PeakIsComing'
  PROVE  BudgetInv'
<1> DEFINE p == PeerOf[r]
<1>1. /\ p \in Peers /\ TotalLimit \in Nat /\ PeerLimit \in Nat
      /\ hold \in [Reservations -> Holds] /\ peerBytes \in [Peers -> 0 .. PeerLimit]
      /\ bytes \in 0 .. TotalLimit
  BY BudgetAssumption DEF BudgetInv, BudgetTypeOK
<1>2. /\ TotalCharge(hold'[r]) \in Nat /\ TotalCharge(hold[r]) \in Nat
      /\ PeerCharge(hold'[r]) \in Nat /\ PeerCharge(hold[r]) \in Nat
  <2>1. hold[r] \in Holds /\ hold'[r] \in Holds
    BY <1>1
  <2> QED BY <2>1 DEF TotalCharge, PeerCharge, Holds
<1>3. bytes' = TotalCharges(hold', Reservations) /\ bytes' \in 0 .. TotalLimit
  <2>1. bytes = TotalCharges(hold, Reservations)
    BY DEF BudgetInv, BudgetIsExact
  <2>2. /\ TotalCharges(hold', Reservations)
             = TotalCharges(hold, Reservations) + TotalCharge(hold'[r]) - TotalCharge(hold[r])
        /\ TotalCharge(hold[r]) <= TotalCharges(hold, Reservations)
    BY <1>1, OneMoves
  <2> QED BY <1>1, <1>2, <2>1, <2>2
<1>4. ASSUME NEW q \in Peers
      PROVE  peerBytes'[q] = PeerCharges(hold', ReservationsOf(q)) /\ peerBytes'[q] \in 0 .. PeerLimit
  <2>1. peerBytes[q] = PeerCharges(hold, ReservationsOf(q))
    BY DEF BudgetInv, BudgetIsExact
  <2>2. /\ q # p => PeerCharges(hold', ReservationsOf(q)) = PeerCharges(hold, ReservationsOf(q))
        /\ q = p => /\ PeerCharges(hold', ReservationsOf(q)) =
                         PeerCharges(hold, ReservationsOf(q)) + PeerCharge(hold'[r])
                           - PeerCharge(hold[r])
                    /\ PeerCharge(hold[r]) <= PeerCharges(hold, ReservationsOf(q))
    BY <1>1, OneMoves
  <2>3. CASE q # p
    BY <1>1, <2>1, <2>2, <2>3
  <2>4. CASE q = p
    <3>1. peerBytes'[q] = peerBytes[q] + PeerCharge(hold'[r]) - PeerCharge(hold[r])
      BY <1>1, <2>4
    <3>2. peerBytes[q] \in Nat
      BY <1>1
    <3> HIDE DEF p
    <3> QED BY <1>1, <1>2, <2>1, <2>2, <2>4, <3>1, <3>2 DEF p
  <2> QED BY <2>3, <2>4
<1>5. peerBytes' \in [Peers -> 0 .. PeerLimit]
  BY <1>1, <1>4
<1>6. BudgetTypeOK'
  BY <1>3, <1>5 DEF BudgetTypeOK
<1>7. (\A q \in Reservations : hold'[q].step # "RecordPeak") => bytes' <= peak'
  BY DEF PeakIsComing
<1>8. BudgetIsExact'
  BY <1>3, <1>4, <1>7 DEF BudgetIsExact, ReservationsOf
<1> QED
  BY <1>6, <1>8 DEF BudgetInv

\* What is known of the reservation that takes a step.
LEMMA AtStep ==
  ASSUME BudgetInv, NEW r \in Reservations
  PROVE  /\ PeerOf[r] \in Peers /\ TotalLimit \in Nat /\ PeerLimit \in Nat
         /\ hold \in [Reservations -> Holds]
         /\ hold[r] \in Holds /\ hold[r].bytes \in Nat /\ hold[r].target \in Nat
         /\ hold[r].seen \in Nat
         /\ peerBytes \in [Peers -> 0 .. PeerLimit] /\ peerBytes[PeerOf[r]] \in 0 .. PeerLimit
         /\ bytes \in 0 .. TotalLimit /\ peak \in 0 .. TotalLimit
         /\ Moving /\ PeakIsComing
         /\ TotalCharge(hold[r]) <= bytes /\ PeerCharge(hold[r]) <= peerBytes[PeerOf[r]]
<1>1. /\ PeerOf[r] \in Peers /\ TotalLimit \in Nat /\ PeerLimit \in Nat
      /\ hold \in [Reservations -> Holds] /\ peerBytes \in [Peers -> 0 .. PeerLimit]
      /\ bytes \in 0 .. TotalLimit /\ peak \in 0 .. TotalLimit
      /\ Moving /\ PeakIsComing
      /\ bytes = TotalCharges(hold, Reservations)
      /\ peerBytes[PeerOf[r]] = PeerCharges(hold, ReservationsOf(PeerOf[r]))
  BY BudgetAssumption DEF BudgetInv, BudgetTypeOK, BudgetIsExact
<1>2. hold[r] \in Holds
  BY <1>1
<1>3. hold[r].bytes \in Nat /\ hold[r].target \in Nat /\ hold[r].seen \in Nat
  BY <1>2 DEF Holds
<1>4. /\ TotalCharge(hold[r]) <= TotalCharges(hold, Reservations)
      /\ PeerCharge(hold[r]) <= PeerCharges(hold, ReservationsOf(PeerOf[r]))
  BY <1>1, OneMoves
<1> QED
  BY <1>1, <1>2, <1>3, <1>4

\* The others are where they were, so is what they have to record.
LEMMA OthersStay ==
  ASSUME BudgetInv, NEW r \in Reservations, NEW x \in Holds,
         hold' = [hold EXCEPT ![r] = x],
         /\ x.step = "Idle" => x.target = x.bytes
         /\ x.step \in {"ChargePeer", "ChargeTotal", "Rollback", "RecordPeak"} => x.target > x.bytes
         /\ x.step \in {"RefundPeer", "RefundTotal"} => x.target < x.bytes
         /\ x.step = "RecordPeak" => x.seen <= TotalLimit
  PROVE  /\ hold' \in [Reservations -> Holds] /\ hold'[r] = x
         /\ \A q \in Reservations \ {r} : hold'[q] = hold[q]
         /\ Moving'
         /\ hold[r].step # "RecordPeak" /\ bytes' <= bytes /\ bytes' \in Nat /\ peak' = peak
              => PeakIsComing'
<1>1. /\ hold' \in [Reservations -> Holds] /\ hold'[r] = x
      /\ \A q \in Reservations \ {r} : hold'[q] = hold[q]
  BY AtStep
<1>2. Moving'
  <2>1. \A q \in Reservations \ {r} : hold'[q] = hold[q]
    BY <1>1
  <2> QED BY <1>1, <2>1, AtStep DEF Moving
<1>3. ASSUME hold[r].step # "RecordPeak", bytes' <= bytes, bytes' \in Nat, peak' = peak
      PROVE  PeakIsComing'
  <2>1. CASE bytes <= peak
    BY <1>3, <2>1, AtStep DEF PeakIsComing
  <2>2. ASSUME NEW q \in Reservations, hold[q].step = "RecordPeak", hold[q].seen >= bytes
        PROVE  PeakIsComing'
    <3>1. q # r /\ hold'[q] = hold[q] /\ hold[q].seen \in Nat
      BY <1>1, <1>3, <2>2, AtStep
    <3> QED BY <1>3, <2>2, <3>1, AtStep DEF PeakIsComing
  <2> QED BY <2>1, <2>2, AtStep DEF PeakIsComing
<1> QED BY <1>1, <1>2, <1>3

-----------------------------------------------------------------------------
(* The steps of a reservation. *)

\* It sets out to grow or to shrink.
LEMMA BeginKeeps ==
  ASSUME BudgetInv, NEW r \in Reservations, NEW size \in Sizes \cup {0},
         (size \in Sizes /\ BeginGrowth(r, size)) \/ BeginShrinkage(r, size)
  PROVE  BudgetInv'
<1> DEFINE x == [hold[r] EXCEPT !.target = size,
                   !.step = IF size > hold[r].bytes THEN "ChargePeer" ELSE "RefundPeer"]
<1>1. size \in Nat
  BY BudgetAssumption
<1>2. /\ hold' = [hold EXCEPT ![r] = x] /\ UNCHANGED <<peerBytes, bytes, peak>>
      /\ hold[r].step = "Idle" /\ size # hold[r].bytes
  <2>1. /\ hold \in [Reservations -> Holds] /\ hold[r] \in Holds /\ hold[r].bytes \in Nat
    BY AtStep
  <2>2. CASE BeginGrowth(r, size)
    <3>1. x = [hold[r] EXCEPT !.target = size, !.step = "ChargePeer"]
      BY <1>1, <2>1, <2>2 DEF BeginGrowth
    <3> HIDE DEF x
    <3> QED BY <1>1, <2>1, <2>2, <3>1 DEF BeginGrowth
  <2>3. CASE BeginShrinkage(r, size)
    <3>1. x = [hold[r] EXCEPT !.target = size, !.step = "RefundPeer"]
      <4>1. ~(size > hold[r].bytes)
        BY <1>1, <2>1, <2>3 DEF BeginShrinkage
      <4> QED BY <4>1
    <3> HIDE DEF x
    <3> QED BY <1>1, <2>1, <2>3, <3>1 DEF BeginShrinkage
  <2> QED BY <2>2, <2>3
<1>3. /\ x \in Holds /\ x.target = size /\ x.bytes = hold[r].bytes
      /\ x.step = IF size > hold[r].bytes THEN "ChargePeer" ELSE "RefundPeer"
  BY <1>1, AtStep DEF Holds, Steps
<1> HIDE DEF x
<1>4. /\ hold' \in [Reservations -> Holds] /\ hold'[r] = x
      /\ \A q \in Reservations \ {r} : hold'[q] = hold[q]
      /\ Moving' /\ PeakIsComing'
  <2>1. bytes' <= bytes /\ bytes' \in Nat /\ peak' = peak
    BY <1>2, AtStep
  <2>2. /\ x.step = "Idle" => x.target = x.bytes
        /\ x.step \in {"ChargePeer", "ChargeTotal", "Rollback", "RecordPeak"} =>
             x.target > x.bytes
        /\ x.step \in {"RefundPeer", "RefundTotal"} => x.target < x.bytes
        /\ x.step = "RecordPeak" => x.seen <= TotalLimit
    BY <1>1, <1>2, <1>3, AtStep
  <2> QED BY <1>2, <1>3, <2>1, <2>2, OthersStay
<1>5. TotalCharge(x) = TotalCharge(hold[r]) /\ PeerCharge(x) = PeerCharge(hold[r])
  BY <1>2, <1>3 DEF TotalCharge, PeerCharge
<1>6. TotalCharge(hold[r]) \in Nat /\ PeerCharge(hold[r]) \in Nat
  BY AtStep DEF TotalCharge, PeerCharge
<1>7. /\ bytes' = bytes + TotalCharge(hold'[r]) - TotalCharge(hold[r])
      /\ peerBytes' = [peerBytes EXCEPT
           ![PeerOf[r]] = @ + PeerCharge(hold'[r]) - PeerCharge(hold[r])]
      /\ bytes' <= TotalLimit /\ peerBytes'[PeerOf[r]] <= PeerLimit /\ peak' \in 0 .. TotalLimit
  BY <1>2, <1>4, <1>5, <1>6, AtStep
<1> QED
  BY <1>4, <1>7, MovesTogether

\* It charges its peer, or is refused.
LEMMA ChargePeerKeeps ==
  ASSUME BudgetInv, NEW r \in Reservations, ChargePeer(r)
  PROVE  BudgetInv'
<1> DEFINE fits == peerBytes[PeerOf[r]] + Growth(r) <= PeerLimit
           x == IF fits THEN [hold[r] EXCEPT !.step = "ChargeTotal"]
                ELSE [bytes |-> hold[r].bytes, target |-> hold[r].bytes, seen |-> 0, step |-> "Idle"]
<1>1. hold[r].step = "ChargePeer" /\ hold[r].target > hold[r].bytes
  BY AtStep DEF ChargePeer, Moving
<1>2. /\ hold' = [hold EXCEPT ![r] = x] /\ UNCHANGED <<bytes, peak>>
      /\ fits => peerBytes' = [peerBytes EXCEPT ![PeerOf[r]] = @ + Growth(r)]
      /\ ~fits => peerBytes' = peerBytes
  BY AtStep DEF ChargePeer, GoTo, Settle, Growth
<1>3. /\ x \in Holds /\ x.bytes = hold[r].bytes
      /\ fits => x.step = "ChargeTotal" /\ x.target = hold[r].target
      /\ ~fits => x.step = "Idle" /\ x.target = hold[r].bytes
  BY AtStep DEF Holds, Steps
<1>4. /\ TotalCharge(x) = hold[r].bytes /\ TotalCharge(hold[r]) = hold[r].bytes
      /\ PeerCharge(hold[r]) = hold[r].bytes
      /\ fits => PeerCharge(x) = hold[r].bytes + Growth(r)
      /\ ~fits => PeerCharge(x) = hold[r].bytes
  BY <1>1, <1>3, AtStep DEF TotalCharge, PeerCharge, Growth
<1>5. Growth(r) \in Int
  BY AtStep DEF Growth
<1> HIDE DEF x
<1>6. /\ hold' \in [Reservations -> Holds] /\ hold'[r] = x
      /\ \A q \in Reservations \ {r} : hold'[q] = hold[q]
      /\ Moving' /\ PeakIsComing'
  <2>1. bytes' <= bytes /\ bytes' \in Nat /\ peak' = peak
    BY <1>2, AtStep
  <2> QED BY <1>1, <1>2, <1>3, <2>1, OthersStay
<1>7. /\ peerBytes' = [peerBytes EXCEPT
           ![PeerOf[r]] = @ + PeerCharge(hold'[r]) - PeerCharge(hold[r])]
      /\ peerBytes'[PeerOf[r]] <= PeerLimit
  <2>1. CASE fits
    BY <2>1, <1>2, <1>4, <1>5, <1>6, AtStep
  <2>2. CASE ~fits
    BY <2>2, <1>2, <1>4, <1>6, AtStep
  <2> QED BY <2>1, <2>2
<1>8. /\ bytes' = bytes + TotalCharge(hold'[r]) - TotalCharge(hold[r])
      /\ bytes' <= TotalLimit /\ peak' \in 0 .. TotalLimit
  BY <1>2, <1>4, <1>6, AtStep
<1> QED
  BY <1>6, <1>7, <1>8, MovesTogether

\* It charges the server, or must roll back.
LEMMA ChargeTotalKeeps ==
  ASSUME BudgetInv, NEW r \in Reservations, ChargeTotal(r)
  PROVE  BudgetInv'
<1> DEFINE charged == bytes + Growth(r)
           fits == charged <= TotalLimit
           x == IF fits THEN [hold[r] EXCEPT !.step = "RecordPeak", !.seen = charged]
                ELSE [hold[r] EXCEPT !.step = "Rollback"]
<1>1. hold[r].step = "ChargeTotal" /\ hold[r].target > hold[r].bytes
  BY AtStep DEF ChargeTotal, Moving
<1>2. /\ hold' = [hold EXCEPT ![r] = x] /\ UNCHANGED <<peerBytes, peak>>
      /\ fits => bytes' = charged
      /\ ~fits => bytes' = bytes
  <2>1. hold \in [Reservations -> Holds] /\ Growth(r) \in Int /\ bytes \in Int /\ TotalLimit \in Int
    BY AtStep DEF Growth
  <2>2. CASE fits
    <3>1. hold' = [hold EXCEPT ![r] = [@ EXCEPT !.step = "RecordPeak", !.seen = charged]]
      BY <2>1, <2>2 DEF ChargeTotal
    <3> QED BY <2>1, <2>2, <3>1 DEF ChargeTotal
  <2>3. CASE ~fits
    BY <2>1, <2>3 DEF ChargeTotal, GoTo
  <2> QED BY <2>2, <2>3
<1>3. Growth(r) \in Nat /\ charged \in Nat
  BY <1>1, AtStep DEF Growth
<1>4. /\ x \in Holds /\ x.bytes = hold[r].bytes /\ x.target = hold[r].target
      /\ fits => x.step = "RecordPeak" /\ x.seen = charged
      /\ ~fits => x.step = "Rollback"
  BY <1>3, AtStep DEF Holds, Steps
<1>5. /\ PeerCharge(x) = hold[r].target /\ PeerCharge(hold[r]) = hold[r].target
      /\ TotalCharge(hold[r]) = hold[r].bytes
      /\ fits => TotalCharge(x) = hold[r].bytes + Growth(r)
      /\ ~fits => TotalCharge(x) = hold[r].bytes
  BY <1>1, <1>4, AtStep DEF TotalCharge, PeerCharge, Growth
<1> HIDE DEF x
<1>6. /\ hold' \in [Reservations -> Holds] /\ hold'[r] = x
      /\ \A q \in Reservations \ {r} : hold'[q] = hold[q]
      /\ Moving'
      /\ bytes' <= bytes /\ bytes' \in Nat /\ peak' = peak => PeakIsComing'
  BY <1>1, <1>2, <1>3, <1>4, OthersStay
<1>7. PeakIsComing'
  <2>1. CASE fits
    BY <2>1, <1>2, <1>3, <1>4, <1>6 DEF PeakIsComing
  <2>2. CASE ~fits
    BY <2>2, <1>2, <1>6, AtStep
  <2> QED BY <2>1, <2>2
<1>8. /\ bytes' = bytes + TotalCharge(hold'[r]) - TotalCharge(hold[r])
      /\ bytes' <= TotalLimit
  <2>1. CASE fits
    BY <2>1, <1>2, <1>3, <1>5, <1>6, AtStep
  <2>2. CASE ~fits
    BY <2>2, <1>2, <1>5, <1>6, AtStep
  <2> QED BY <2>1, <2>2
<1>9. /\ peerBytes' = [peerBytes EXCEPT
           ![PeerOf[r]] = @ + PeerCharge(hold'[r]) - PeerCharge(hold[r])]
      /\ peerBytes'[PeerOf[r]] <= PeerLimit /\ peak' \in 0 .. TotalLimit
  BY <1>2, <1>5, <1>6, AtStep
<1> QED
  BY <1>6, <1>7, <1>8, <1>9, MovesTogether

\* It gives its peer back what the server refused.
LEMMA RollbackKeeps ==
  ASSUME BudgetInv, NEW r \in Reservations, Rollback(r)
  PROVE  BudgetInv'
<1> DEFINE x == [bytes |-> hold[r].bytes, target |-> hold[r].bytes, seen |-> 0, step |-> "Idle"]
<1>1. hold[r].step = "Rollback" /\ hold[r].target > hold[r].bytes
  BY AtStep DEF Rollback, Moving
<1>2. /\ hold' = [hold EXCEPT ![r] = x] /\ UNCHANGED <<bytes, peak>>
      /\ peerBytes' = [peerBytes EXCEPT ![PeerOf[r]] = @ - Growth(r)]
  BY DEF Rollback, Settle
<1>3. x \in Holds /\ x.step = "Idle" /\ x.target = x.bytes
  BY AtStep DEF Holds, Steps
<1>4. /\ TotalCharge(x) = hold[r].bytes /\ TotalCharge(hold[r]) = hold[r].bytes
      /\ PeerCharge(x) = hold[r].bytes /\ PeerCharge(hold[r]) = hold[r].bytes + Growth(r)
      /\ Growth(r) \in Nat
  BY <1>1, AtStep DEF TotalCharge, PeerCharge, Growth
<1> HIDE DEF x
<1>5. /\ hold' \in [Reservations -> Holds] /\ hold'[r] = x
      /\ \A q \in Reservations \ {r} : hold'[q] = hold[q]
      /\ Moving' /\ PeakIsComing'
  <2>1. bytes' <= bytes /\ bytes' \in Nat /\ peak' = peak
    BY <1>2, AtStep
  <2> QED BY <1>1, <1>2, <1>3, <2>1, OthersStay
<1>6. /\ bytes' = bytes + TotalCharge(hold'[r]) - TotalCharge(hold[r])
      /\ bytes' <= TotalLimit /\ peak' \in 0 .. TotalLimit
  BY <1>2, <1>4, <1>5, AtStep
<1>7. /\ peerBytes' = [peerBytes EXCEPT
           ![PeerOf[r]] = @ + PeerCharge(hold'[r]) - PeerCharge(hold[r])]
      /\ peerBytes'[PeerOf[r]] <= PeerLimit
  <2>1. /\ peerBytes \in [Peers -> 0 .. PeerLimit] /\ PeerOf[r] \in Peers
        /\ peerBytes[PeerOf[r]] \in Nat /\ peerBytes[PeerOf[r]] <= PeerLimit /\ PeerLimit \in Nat
        /\ hold[r].bytes \in Nat
    BY AtStep
  <2>2. peerBytes[PeerOf[r]] + PeerCharge(hold'[r]) - PeerCharge(hold[r])
          = peerBytes[PeerOf[r]] - Growth(r)
    BY <1>4, <1>5, <2>1
  <2>3. peerBytes[PeerOf[r]] - Growth(r) <= PeerLimit
    BY <1>4, <2>1
  <2>4. \A u, v : u = v => [peerBytes EXCEPT ![PeerOf[r]] = u] = [peerBytes EXCEPT ![PeerOf[r]] = v]
    OBVIOUS
  <2>5. peerBytes' = [peerBytes EXCEPT ![PeerOf[r]] = @ + PeerCharge(hold'[r]) - PeerCharge(hold[r])]
    BY <1>2, <2>2, <2>4
  <2>6. peerBytes'[PeerOf[r]] = peerBytes[PeerOf[r]] - Growth(r)
    BY <1>2, <2>1
  <2> QED BY <2>3, <2>5, <2>6
<1> QED
  BY <1>5, <1>6, <1>7, MovesTogether

\* It records the total it has seen.
LEMMA RecordPeakKeeps ==
  ASSUME BudgetInv, NEW r \in Reservations, RecordPeak(r)
  PROVE  BudgetInv'
<1> DEFINE x == [bytes |-> hold[r].target, target |-> hold[r].target, seen |-> 0, step |-> "Idle"]
<1>1. hold[r].step = "RecordPeak" /\ hold[r].seen <= TotalLimit
  BY AtStep DEF RecordPeak, Moving
<1>2. /\ hold' = [hold EXCEPT ![r] = x] /\ UNCHANGED <<bytes, peerBytes>>
      /\ peak' = IF hold[r].seen > peak THEN hold[r].seen ELSE peak
  BY DEF RecordPeak, Settle
<1>3. x \in Holds /\ x.step = "Idle" /\ x.target = x.bytes
  BY AtStep DEF Holds, Steps
<1>4. /\ TotalCharge(x) = hold[r].target /\ TotalCharge(hold[r]) = hold[r].target
      /\ PeerCharge(x) = hold[r].target /\ PeerCharge(hold[r]) = hold[r].target
  BY <1>1 DEF TotalCharge, PeerCharge
<1> HIDE DEF x
<1>5. /\ hold' \in [Reservations -> Holds] /\ hold'[r] = x
      /\ \A q \in Reservations \ {r} : hold'[q] = hold[q]
      /\ Moving'
  BY <1>1, <1>2, <1>3, OthersStay
<1>6. PeakIsComing'
  <2>1. CASE bytes <= peak
    BY <2>1, <1>2, AtStep DEF PeakIsComing
  <2>2. ASSUME NEW q \in Reservations, hold[q].step = "RecordPeak", hold[q].seen >= bytes
        PROVE  PeakIsComing'
    <3>1. CASE q = r
      BY <2>2, <3>1, <1>2, AtStep DEF PeakIsComing
    <3>2. CASE q # r
      BY <2>2, <3>2, <1>2, <1>5, AtStep DEF PeakIsComing
    <3> QED BY <3>1, <3>2
  <2> QED BY <2>1, <2>2, AtStep DEF PeakIsComing
<1>7. /\ bytes' = bytes + TotalCharge(hold'[r]) - TotalCharge(hold[r])
      /\ peerBytes' = [peerBytes EXCEPT
           ![PeerOf[r]] = @ + PeerCharge(hold'[r]) - PeerCharge(hold[r])]
      /\ bytes' <= TotalLimit /\ peerBytes'[PeerOf[r]] <= PeerLimit /\ peak' \in 0 .. TotalLimit
  BY <1>1, <1>2, <1>4, <1>5, AtStep
<1> QED
  BY <1>5, <1>6, <1>7, MovesTogether

\* It refunds its peer, then the server.
LEMMA RefundKeeps ==
  ASSUME BudgetInv, NEW r \in Reservations, RefundPeer(r) \/ RefundTotal(r)
  PROVE  BudgetInv'
<1>1. CASE RefundPeer(r)
  <2> DEFINE x == [hold[r] EXCEPT !.step = "RefundTotal"]
  <2>1. hold[r].step = "RefundPeer" /\ hold[r].target < hold[r].bytes
    BY <1>1, AtStep DEF RefundPeer, Moving
  <2>2. /\ hold' = [hold EXCEPT ![r] = x] /\ UNCHANGED <<bytes, peak>>
        /\ peerBytes' = [peerBytes EXCEPT ![PeerOf[r]] = @ - Shrinkage(r)]
    BY <1>1, AtStep DEF RefundPeer, GoTo
  <2>3. /\ x \in Holds /\ x.step = "RefundTotal" /\ x.target = hold[r].target
        /\ x.bytes = hold[r].bytes
    BY AtStep DEF Holds, Steps
  <2>4. /\ TotalCharge(x) = hold[r].bytes /\ TotalCharge(hold[r]) = hold[r].bytes
        /\ PeerCharge(x) = hold[r].bytes - Shrinkage(r) /\ PeerCharge(hold[r]) = hold[r].bytes
        /\ Shrinkage(r) \in Nat
    BY <2>1, <2>3, AtStep DEF TotalCharge, PeerCharge, Shrinkage
  <2> HIDE DEF x
  <2>5. /\ hold' \in [Reservations -> Holds] /\ hold'[r] = x
        /\ \A q \in Reservations \ {r} : hold'[q] = hold[q]
        /\ Moving' /\ PeakIsComing'
    <3>1. bytes' <= bytes /\ bytes' \in Nat /\ peak' = peak
      BY <2>2, AtStep
    <3> QED BY <2>1, <2>2, <2>3, <3>1, OthersStay
  <2>6. /\ bytes' = bytes + TotalCharge(hold'[r]) - TotalCharge(hold[r])
        /\ bytes' <= TotalLimit /\ peak' \in 0 .. TotalLimit
    BY <2>2, <2>4, <2>5, AtStep
  <2>7. /\ peerBytes' = [peerBytes EXCEPT
             ![PeerOf[r]] = @ + PeerCharge(hold'[r]) - PeerCharge(hold[r])]
        /\ peerBytes'[PeerOf[r]] <= PeerLimit
    <3>1. /\ peerBytes \in [Peers -> 0 .. PeerLimit] /\ PeerOf[r] \in Peers
          /\ peerBytes[PeerOf[r]] \in Nat /\ peerBytes[PeerOf[r]] <= PeerLimit
          /\ PeerLimit \in Nat /\ hold[r].bytes \in Nat
      BY AtStep
    <3>2. peerBytes[PeerOf[r]] + PeerCharge(hold'[r]) - PeerCharge(hold[r])
            = peerBytes[PeerOf[r]] - Shrinkage(r)
      BY <2>4, <2>5, <3>1
    <3>3. peerBytes[PeerOf[r]] - Shrinkage(r) <= PeerLimit
      BY <2>4, <3>1
    <3>4. \A u, v : u = v =>
            [peerBytes EXCEPT ![PeerOf[r]] = u] = [peerBytes EXCEPT ![PeerOf[r]] = v]
      OBVIOUS
    <3>5. peerBytes' =
            [peerBytes EXCEPT ![PeerOf[r]] = @ + PeerCharge(hold'[r]) - PeerCharge(hold[r])]
      BY <2>2, <3>2, <3>4
    <3>6. peerBytes'[PeerOf[r]] = peerBytes[PeerOf[r]] - Shrinkage(r)
      BY <2>2, <3>1
    <3> QED BY <3>3, <3>5, <3>6
  <2> QED BY <2>5, <2>6, <2>7, MovesTogether
<1>2. CASE RefundTotal(r)
  <2> DEFINE x == [bytes |-> hold[r].target, target |-> hold[r].target, seen |-> 0, step |-> "Idle"]
  <2>1. hold[r].step = "RefundTotal" /\ hold[r].target < hold[r].bytes
    BY <1>2, AtStep DEF RefundTotal, Moving
  <2>2. /\ hold' = [hold EXCEPT ![r] = x] /\ UNCHANGED <<peerBytes, peak>>
        /\ bytes' = bytes - Shrinkage(r)
    BY <1>2 DEF RefundTotal, Settle
  <2>3. x \in Holds /\ x.step = "Idle" /\ x.target = x.bytes
    BY AtStep DEF Holds, Steps
  <2>4. /\ TotalCharge(x) = hold[r].bytes - Shrinkage(r) /\ TotalCharge(hold[r]) = hold[r].bytes
        /\ PeerCharge(x) = hold[r].target /\ PeerCharge(hold[r]) = hold[r].target
        /\ Shrinkage(r) \in Nat /\ Shrinkage(r) <= hold[r].bytes
    BY <2>1, AtStep DEF TotalCharge, PeerCharge, Shrinkage
  <2> HIDE DEF x
  <2>5. /\ hold' \in [Reservations -> Holds] /\ hold'[r] = x
        /\ \A q \in Reservations \ {r} : hold'[q] = hold[q]
        /\ Moving' /\ PeakIsComing'
    <3>1. bytes' <= bytes /\ bytes' \in Nat /\ peak' = peak
      BY <2>2, <2>4, AtStep
    <3> QED BY <2>1, <2>2, <2>3, <3>1, OthersStay
  <2>6. /\ bytes' = bytes + TotalCharge(hold'[r]) - TotalCharge(hold[r])
        /\ peerBytes' = [peerBytes EXCEPT
             ![PeerOf[r]] = @ + PeerCharge(hold'[r]) - PeerCharge(hold[r])]
        /\ bytes' <= TotalLimit /\ peerBytes'[PeerOf[r]] <= PeerLimit
        /\ peak' \in 0 .. TotalLimit
    BY <2>2, <2>4, <2>5, AtStep
  <2> QED BY <2>5, <2>6, MovesTogether
<1> QED BY <1>1, <1>2

\* At first nothing is charged.
LEMMA NothingCharged ==
  ASSUME BudgetInit
  PROVE  BudgetInv
<1> DEFINE idle == [bytes |-> 0, target |-> 0, seen |-> 0, step |-> "Idle"]
<1>1. /\ hold \in [Reservations -> Holds] /\ \A r \in Reservations : hold[r] = idle
  BY DEF BudgetInit, Holds, Steps
<1>2. TotalCharge(idle) = 0 /\ PeerCharge(idle) = 0
  BY DEF TotalCharge, PeerCharge
<1>3. TotalCharges(hold, Reservations) = 0
  <2> DEFINE f == [r \in Reservations |-> TotalCharge(hold[r])]
  <2>1. PICK g : Sums(g, f, Reservations) /\ TotalCharges(hold, Reservations) = g[Reservations]
    BY <1>1, BudgetAssumption, TotalSums
  <2>2. \A r \in Reservations : f[r] = 0
    BY <1>1, <1>2
  <2> HIDE DEF f
  <2> QED BY <2>1, <2>2, BudgetAssumption, SumsOfZero
<1>4. ASSUME NEW p \in Peers PROVE PeerCharges(hold, ReservationsOf(p)) = 0
  <2> DEFINE S == ReservationsOf(p)
             f == [r \in S |-> PeerCharge(hold[r])]
  <2>0. IsFiniteSet(S) /\ S \subseteq Reservations
    BY BudgetAssumption, FS_Subset DEF ReservationsOf
  <2>1. PICK g : Sums(g, f, S) /\ PeerCharges(hold, S) = g[S]
    BY <1>1, <2>0, PeerSums
  <2>2. \A r \in S : f[r] = 0
    BY <1>1, <1>2, <2>0
  <2> HIDE DEF f, S
  <2> QED BY <2>0, <2>1, <2>2, SumsOfZero DEF S
<1>5. BudgetTypeOK /\ Moving /\ PeakIsComing
  BY <1>1, BudgetAssumption DEF BudgetInit, BudgetTypeOK, Moving, PeakIsComing
<1>6. BudgetIsExact
  BY <1>3, <1>4 DEF BudgetInit, BudgetIsExact
<1> QED
  BY <1>5, <1>6 DEF BudgetInv

\* Every byte on a counter of the byte budget belongs to a reservation and the peak covers
\* the total, whatever the tasks are in the middle of: the compare-and-swaps and roll-backs of
\* `reserve`, `resize` and `drop` (resources.rs) lose and invent nothing.
THEOREM BudgetsAreExact == BudgetSpec => [](BudgetIsExact /\ BudgetTypeOK)
<1>1. BudgetInit => BudgetInv
  BY NothingCharged
<1>2. BudgetInv /\ [BudgetNext]_budgetVars => BudgetInv'
  <2> SUFFICES ASSUME BudgetInv, [BudgetNext]_budgetVars PROVE BudgetInv'
    OBVIOUS
  <2>1. CASE UNCHANGED budgetVars
    BY <2>1 DEF budgetVars, BudgetInv, BudgetTypeOK, BudgetIsExact, Moving, PeakIsComing
  <2>2. ASSUME NEW r \in Reservations,
               \/ \E size \in Sizes : BeginGrowth(r, size)
               \/ \E size \in Sizes \cup {0} : BeginShrinkage(r, size)
        PROVE  BudgetInv'
    BY <2>2, BeginKeeps
  <2> QED
    BY <2>1, <2>2, ChargePeerKeeps, ChargeTotalKeeps, RollbackKeeps, RecordPeakKeeps,
       RefundKeeps DEF BudgetNext
<1>3. BudgetInv => BudgetIsExact /\ BudgetTypeOK
  BY DEF BudgetInv
<1> QED
  BY <1>1, <1>2, <1>3, PTL DEF BudgetSpec

-----------------------------------------------------------------------------
(* The queue of a connection. *)


Holding == session.state \in {"Received", "Resolving", "Writing"}
Alive == Holding \/ session.state \in {"Serving", "Handling"}
Sending == sender.state \in {"Reserving", "Locking", "Waiting"}

\* The event that an item writes when the periodic markers carry the given states.
Bears(states, item) == IF item.kind = "Periodic" THEN states[item.event] ELSE item.event

\* The event that an item of the channel would write now.
Carried(item) == Bears(update, item)

\* The event that the session would write now.
Held == IF session.state = "Writing" THEN session.item.event ELSE Carried(session.item)

\* Each task holds an item exactly where its program does, and the mutex is held across the
\* sender's waits.
TasksHold ==
  /\ sender.state # "Idle" => sender.item \in Items /\ sender.item.event = sent
  /\ sender.state \in {"Reserving", "Waiting"} => sender.item.kind # "Periodic"
  /\ Holding => session.item \in Items
  /\ session.state = "Resolving" => session.item.kind = "Periodic"
  /\ mutex = "Sender" <=> sender.state \in {"Waiting", "Accounting"}

ChannelInOrder ==
  /\ \A i \in 1 .. Len(channel) :
       /\ last < channel[i].event
       /\ channel[i].event <= Carried(channel[i]) /\ Carried(channel[i]) <= sent
       /\ Sending => Carried(channel[i]) < sent
  /\ \A i, j \in 1 .. Len(channel) : i < j => Carried(channel[i]) < channel[j].event

HeldIsNext ==
  /\ last <= sent /\ (Sending => last < sent)
  /\ Holding =>
       /\ last < session.item.event /\ session.item.event <= Held /\ Held <= sent
       /\ Sending => Held < sent
       /\ \A i \in 1 .. Len(channel) : Held < channel[i].event

\* A marker whose state may still be replaced has nothing behind it, but for an item that
\* the sender has yet to account for.
TailIsLast ==
  sender.state # "Accounting" =>
    /\ \A i \in 1 .. Len(channel) :
         channel[i].kind = "Periodic" /\ channel[i].event = tail => i = Len(channel)
    /\ session.state \in {"Received", "Resolving"} /\ session.item.kind = "Periodic"
       /\ session.item.event = tail => channel = <<>>

\* While the session can still write, every event that is owed is on its way, or was the
\* last one this connection will be sent.
OwedIsOnItsWay ==
  Alive =>
    \A event \in owed :
      \/ \E i \in 1 .. Len(channel) : channel[i].kind # "Periodic" /\ channel[i].event = event
      \/ /\ session.state \in {"Received", "Writing"}
         /\ session.item.kind # "Periodic" /\ session.item.event = event
      \/ /\ event = sent
         /\ ~registered \/ (Sending /\ sender.item.kind # "Periodic")

Inv == QueueTypeOK /\ TasksHold /\ ChannelInOrder /\ HeldIsNext /\ TailIsLast /\ OwedIsOnItsWay

-----------------------------------------------------------------------------
(* The types. *)

SenderTypes == sender \in [state : SenderStates, item : Items \cup {Nothing}]
SessionTypes == session \in [state : SessionStates, item : Items \cup {Nothing}, discarded : Nat]
ChannelTypes == channel \in Seq(Items) /\ Len(channel) <= Capacity
CounterTypes ==
  /\ sent \in 0 .. MaxEvents /\ last \in 0 .. MaxEvents /\ tail \in 0 .. MaxEvents
  /\ update \in [Events -> 0 .. MaxEvents] /\ owed \subseteq Events
  /\ depth \in Nat /\ mutex \in {"Free", "Sender"}
FlagTypes == closed \in BOOLEAN /\ open \in BOOLEAN /\ registered \in BOOLEAN /\ overload \in BOOLEAN

\* The type invariant in five parts, each of which few steps disturb.
LEMMA TypeParts ==
  /\ QueueTypeOK <=> SenderTypes /\ SessionTypes /\ ChannelTypes /\ CounterTypes /\ FlagTypes
  /\ QueueTypeOK' <=> SenderTypes' /\ SessionTypes' /\ ChannelTypes' /\ CounterTypes' /\ FlagTypes'
  BY DEF QueueTypeOK, SenderTypes, SessionTypes, ChannelTypes, CounterTypes, FlagTypes

\* The items of the channel are events of the connection.
LEMMA ChannelItems ==
  ASSUME ChannelTypes, NEW i \in 1 .. Len(channel)
  PROVE  /\ channel[i] \in Items /\ channel[i].event \in Events /\ channel[i].kind \in Kinds
         /\ channel[i].event \in Nat /\ channel[i].event # 0
  <1>1. channel[i] \in Items
    BY DEF ChannelTypes
  <1>2. channel[i].event \in Events /\ channel[i].kind \in Kinds
    BY <1>1 DEF Items
  <1> QED
    BY <1>1, <1>2, CapacityAssumption DEF Events

\* A sender is idle or holds the item it was given.
LEMMA SenderKinds ==
  ASSUME SenderTypes
  PROVE  /\ Done => SenderTypes' /\ sender'.state = "Idle"
         /\ \A state \in SenderStates :
              SenderAt(state) => SenderTypes' /\ sender'.state = state /\ sender'.item = sender.item
  <1>1. Done => SenderTypes' /\ sender'.state = "Idle"
    BY DEF Done, SenderTypes, SenderStates
  <1>2. ASSUME NEW state \in SenderStates, SenderAt(state)
        PROVE  SenderTypes' /\ sender'.state = state /\ sender'.item = sender.item
    BY <1>2 DEF SenderAt, SenderTypes
  <1> QED
    BY <1>1, <1>2

\* A session between two items.
LEMMA SessionIdle ==
  ASSUME NEW state \in SessionStates, session' = SessionAt(state)
  PROVE  SessionTypes' /\ session'.state = state
  BY DEF SessionAt, SessionTypes, Items

\* Nothing is on its way in a new connection.
LEMMA InvInit == QueueInit => Inv
  <1> SUFFICES ASSUME QueueInit PROVE Inv
    OBVIOUS
  <1>1. sender.state = "Idle" /\ session.state = "Serving" /\ SenderTypes /\ SessionTypes
    BY DEF QueueInit, SenderTypes, SessionTypes, SenderStates, SessionStates, SessionAt
  <1>2. channel = <<>> /\ Len(channel) = 0 /\ channel \in Seq(Items) /\ owed = {} /\ mutex = "Free"
    BY DEF QueueInit
  <1>3. ChannelTypes /\ FlagTypes
    <2>1. ChannelTypes
      BY <1>2, CapacityAssumption DEF ChannelTypes
    <2>2. FlagTypes
      BY DEF FlagTypes, QueueInit
    <2> QED
      BY <2>1, <2>2
  <1>4. CounterTypes
    BY CapacityAssumption DEF CounterTypes, QueueInit
  <1>5. TasksHold /\ ChannelInOrder /\ TailIsLast /\ OwedIsOnItsWay
    BY <1>1, <1>2 DEF TasksHold, ChannelInOrder, TailIsLast, OwedIsOnItsWay, Holding
  <1>6. HeldIsNext
    BY <1>1 DEF QueueInit, HeldIsNext, Holding, Sending
  <1> QED
    BY <1>1, <1>3, <1>4, <1>5, <1>6, TypeParts DEF Inv

-----------------------------------------------------------------------------
(* Steps that move no item. *)

\* A sender that gives up or goes on to the mutex leaves everything else alone.
LEMMA SenderMoves ==
  ASSUME Inv, ReserveLine \/ SendToClosed \/ WaitFindsClosed \/ WaitTimesOut
  PROVE  Inv'
  <1>0. SenderTypes /\ SessionTypes /\ ChannelTypes /\ CounterTypes /\ FlagTypes
    BY TypeParts DEF Inv
  <1>1. UNCHANGED <<sent, channel, update, tail, session, depth, last, owed>>
    BY DEF ReserveLine, SendToClosed, WaitFindsClosed, WaitTimesOut
  <1>2. /\ \/ sender'.state = "Idle" /\ ~registered'
           \/ /\ sender.state = "Reserving" /\ sender'.state = "Locking"
              /\ sender'.item = sender.item /\ registered' = registered
        /\ SenderTypes' /\ Sending
    BY <1>0, SenderKinds DEF ReserveLine, SendToClosed, WaitFindsClosed, WaitTimesOut, Unregister,
                             Sending, SenderStates
  <1>3. /\ mutex' \in {"Free", "Sender"}
        /\ mutex' = "Sender" <=> sender'.state \in {"Waiting", "Accounting"}
    BY <1>0, <1>2 DEF Inv, TasksHold, CounterTypes, ReserveLine, SendToClosed, WaitFindsClosed,
                      WaitTimesOut
  <1>4. FlagTypes'
    BY <1>0 DEF FlagTypes, ReserveLine, SendToClosed, WaitFindsClosed, WaitTimesOut, Unregister
  <1>5. QueueTypeOK'
    BY <1>0, <1>1, <1>2, <1>3, <1>4, TypeParts DEF SessionTypes, ChannelTypes, CounterTypes
  <1>6. TasksHold'
    BY <1>1, <1>2, <1>3 DEF Inv, TasksHold, Holding
  <1>7. ChannelInOrder' /\ HeldIsNext'
    BY <1>1, <1>2 DEF Inv, ChannelInOrder, HeldIsNext, Carried, Held, Holding, Sending
  <1>8. TailIsLast'
    BY <1>1, <1>2 DEF Inv, TailIsLast, Sending
  <1>9. OwedIsOnItsWay'
    BY <1>1, <1>2 DEF Inv, OwedIsOnItsWay, Alive, Holding, Sending
  <1> QED
    BY <1>5, <1>6, <1>7, <1>8, <1>9 DEF Inv

\* A session that takes no item and holds none afterwards.
LEMMA SessionMoves ==
  ASSUME Inv, \/ SeeOverload \/ HandleLine \/ FinishLine \/ FailLine \/ DropReceiver \/ Leave
              \/ RemoveSender \/ CloseQueue \/ Discard
  PROVE  Inv'
  <1>0. SenderTypes /\ SessionTypes /\ ChannelTypes /\ CounterTypes /\ FlagTypes
    BY TypeParts DEF Inv
  <1>1. UNCHANGED <<sent, sender, mutex, channel, update, last, owed>> /\ tail' \in {tail, 0}
    BY DEF SeeOverload, HandleLine, FinishLine, FailLine, DropReceiver, Leave, RemoveSender,
           CloseQueue, Discard
  <1>2. /\ SessionTypes'
        /\ \/ /\ session.state \in {"Serving", "Handling"}
              /\ session'.state \in {"Serving", "Handling"} /\ registered' = registered
           \/ session'.state \in {"Leaving", "Failing", "Draining", "Closing", "Gone"}
    BY SessionIdle DEF SeeOverload, HandleLine, FinishLine, FailLine, DropReceiver, Leave,
       RemoveSender, CloseQueue, Discard, SessionStates
  <1>3. FlagTypes'
    BY <1>0 DEF FlagTypes, SeeOverload, HandleLine, FinishLine, FailLine, DropReceiver, Leave,
       RemoveSender, CloseQueue, Discard
  <1>4. depth' \in Nat
    BY <1>0 DEF SessionTypes, CounterTypes, SeeOverload, HandleLine, FinishLine, FailLine,
       DropReceiver, Leave, RemoveSender, CloseQueue, Discard
  <1>5. QueueTypeOK'
    BY <1>0, <1>1, <1>2, <1>3, <1>4, TypeParts, CapacityAssumption
       DEF SenderTypes, ChannelTypes, CounterTypes
  <1>6. ~Holding'
    BY <1>2 DEF Holding
  <1>7. TasksHold'
    BY <1>1, <1>6 DEF Inv, TasksHold, Holding
  <1>8. ChannelInOrder' /\ HeldIsNext'
    BY <1>1, <1>6 DEF Inv, ChannelInOrder, HeldIsNext, Carried, Sending
  <1>9. TailIsLast'
    <2>1. \A i \in 1 .. Len(channel) : channel[i].event # 0
      BY <1>0, ChannelItems
    <2> QED
      BY <1>1, <1>2, <2>1 DEF Inv, TailIsLast
  <1>10. OwedIsOnItsWay'
    BY <1>1, <1>2 DEF Inv, OwedIsOnItsWay, Alive, Holding, Sending
  <1> QED
    BY <1>5, <1>7, <1>8, <1>9, <1>10 DEF Inv

-----------------------------------------------------------------------------
(* The sender's steps with an item. *)

\* What an item in flight carries is a number.
LEMMA Numbers ==
  ASSUME QueueTypeOK, TasksHold
  PROVE  /\ sent \in Nat /\ last \in Nat /\ Len(channel) \in Nat
         /\ \A i \in 1 .. Len(channel) : channel[i].event \in Nat /\ Carried(channel[i]) \in Nat
         /\ Holding => session.item.event \in Nat /\ Held \in Nat /\ session.item.event \in Events
  <1>0. ChannelTypes /\ CounterTypes
    BY TypeParts
  <1>1. sent \in Nat /\ last \in Nat /\ Len(channel) \in Nat
    BY <1>0, CapacityAssumption DEF CounterTypes, ChannelTypes
  <1>2. \A e \in Events : update[e] \in Nat
    BY <1>0, CapacityAssumption DEF CounterTypes
  <1>3. \A i \in 1 .. Len(channel) : channel[i].event \in Nat /\ Carried(channel[i]) \in Nat
    BY <1>0, <1>2, ChannelItems DEF Carried, Bears
  <1>4. ASSUME Holding
        PROVE  session.item.event \in Nat /\ Held \in Nat /\ session.item.event \in Events
    <2>1. session.item.event \in Events
      BY <1>4 DEF TasksHold, Items
    <2>2. session.item.event \in Nat
      BY <2>1, CapacityAssumption DEF Events
    <2> QED
      BY <1>2, <2>1, <2>2 DEF Held, Carried, Bears
  <1> QED
    BY <1>1, <1>3, <1>4

\* A new event is newer than all that is on its way.
LEMMA DispatchKeeps ==
  ASSUME Inv, NEW kind \in Kinds, Dispatch(kind)
  PROVE  Inv'
  <1> DEFINE item == [kind |-> kind, event |-> sent + 1]
  <1>0. SenderTypes /\ SessionTypes /\ ChannelTypes /\ CounterTypes /\ FlagTypes
    BY TypeParts DEF Inv
  <1>1. /\ UNCHANGED <<mutex, channel, update, tail, closed, open, overload, session, depth, last>>
        /\ sent' = sent + 1 /\ sender.state = "Idle" /\ registered
        /\ owed' = IF kind = "Periodic" THEN owed ELSE owed \cup {sent + 1}
    BY DEF Dispatch
  <1>2. sent + 1 \in Events /\ item \in Items /\ sent \in Nat
    BY <1>0, CapacityAssumption DEF Dispatch, CounterTypes, Events, Items
  <1>3. \/ sender' = [state |-> "Idle", item |-> Nothing] /\ registered' = FALSE
        \/ /\ sender' = [state |-> IF kind = "Line" THEN "Reserving" ELSE "Locking", item |-> item]
           /\ registered' = registered
    BY DEF Dispatch, Unregister, Done
  <1>4. /\ SenderTypes' /\ sender'.state \in {"Idle", "Reserving", "Locking"}
        /\ sender'.state = "Reserving" => kind = "Line"
        /\ sender'.state # "Idle" => sender'.item = item
        /\ sender'.state = "Idle" => ~registered'
    BY <1>2, <1>3 DEF SenderTypes, SenderStates
  <1> HIDE DEF item
  <1>5. FlagTypes'
    <2>1. registered' \in BOOLEAN
      BY <1>0, <1>3 DEF FlagTypes
    <2> QED
      BY <1>0, <1>1, <2>1 DEF FlagTypes
  <1>6. CounterTypes'
    BY <1>0, <1>1, <1>2, CapacityAssumption DEF CounterTypes, Events
  <1>7. QueueTypeOK'
    BY <1>0, <1>1, <1>4, <1>5, <1>6, TypeParts DEF SessionTypes, ChannelTypes
  <1>8. TasksHold'
    BY <1>1, <1>2, <1>4 DEF Inv, TasksHold, Holding, item
  <1>9. ChannelInOrder' /\ HeldIsNext'
    BY <1>1, <1>2, Numbers DEF Inv, ChannelInOrder, HeldIsNext, Carried, Held, Holding
  <1>10. TailIsLast'
    BY <1>1 DEF Inv, TailIsLast
  <1>11. OwedIsOnItsWay'
    <2> SUFFICES ASSUME Alive', NEW event \in owed'
                 PROVE  \/ \E i \in 1 .. Len(channel) : channel[i].kind # "Periodic" /\ channel[i].event = event
                        \/ /\ session.state \in {"Received", "Writing"}
                           /\ session.item.kind # "Periodic" /\ session.item.event = event
                        \/ event = sent' /\ (~registered' \/ (Sending' /\ sender'.item.kind # "Periodic"))
      BY <1>1 DEF OwedIsOnItsWay
    <2>1. CASE event \in owed
      BY <1>1, <2>1 DEF Inv, OwedIsOnItsWay, Alive, Holding, Sending
    <2>2. CASE event = sent + 1 /\ kind # "Periodic"
      BY <1>1, <1>4, <2>2 DEF Sending, item
    <2> QED
      BY <1>1, <2>1, <2>2
  <1> QED
    BY <1>7, <1>8, <1>9, <1>10, <1>11 DEF Inv

\* An item that enters the channel is newer than all before it.
LEMMA EnqueueKeeps ==
  ASSUME Inv, Sending, sender.state # "Reserving", Enqueue, Len(channel) < Capacity,
         UNCHANGED <<sent, tail, closed, open, registered, overload, session, depth, last, owed>>,
         update' = update \/ update' = [update EXCEPT ![sender.item.event] = sender.item.event],
         sender.item.kind = "Periodic" =>
           update' = [update EXCEPT ![sender.item.event] = sender.item.event]
  PROVE  Inv'
  <1>0. SenderTypes /\ SessionTypes /\ ChannelTypes /\ CounterTypes /\ FlagTypes
    BY TypeParts DEF Inv
  <1>1. /\ sender.item \in Items /\ sender.item.event = sent /\ sent \in Events
        /\ sender.item.kind \in Kinds /\ sent \in Nat
    BY <1>0, CapacityAssumption DEF Inv, TasksHold, Sending, Items, CounterTypes
  <1>2. SenderTypes' /\ sender'.state = "Accounting" /\ sender'.item = sender.item /\ mutex' = "Sender"
    BY <1>0, SenderKinds DEF Enqueue, SenderStates
  <1>3. /\ channel' = Append(channel, sender.item) /\ Len(channel') = Len(channel) + 1
        /\ \A i \in 1 .. Len(channel) : channel'[i] = channel[i]
        /\ channel'[Len(channel) + 1] = sender.item
    BY <1>0, <1>1 DEF Enqueue, ChannelTypes
  <1>4. ChannelTypes'
    BY <1>0, <1>1, <1>3, CapacityAssumption DEF ChannelTypes
  <1>5. update' \in [Events -> 0 .. MaxEvents] /\ \A e \in Events : e # sent => update'[e] = update[e]
    BY <1>0, <1>1 DEF CounterTypes
  <1>6. QueueTypeOK'
    BY <1>0, <1>2, <1>4, <1>5, TypeParts DEF SessionTypes, CounterTypes, FlagTypes
  <1>7. TasksHold'
    BY <1>1, <1>2 DEF Inv, TasksHold, Holding
  <1>8. ~Sending'
    BY <1>2 DEF Sending
  <1>9. /\ \A i \in 1 .. Len(channel) :
              /\ Bears(update', channel'[i]) = Carried(channel[i]) /\ channel'[i] = channel[i]
              /\ Carried(channel[i]) < sent /\ channel[i].event \in Nat /\ Carried(channel[i]) \in Nat
        /\ Bears(update', channel'[Len(channel) + 1]) = sent /\ channel'[Len(channel) + 1].event = sent
        /\ Len(channel) \in Nat
    <2>1. \A i \in 1 .. Len(channel) :
              /\ Carried(channel[i]) < sent /\ channel[i].event <= Carried(channel[i])
              /\ channel[i].event \in Nat /\ Carried(channel[i]) \in Nat
              /\ channel[i].event \in Events
      BY <1>0, Numbers, ChannelItems DEF Inv, ChannelInOrder
    <2>2. \A i \in 1 .. Len(channel) : channel[i].event # sent
      BY <1>1, <2>1
    <2>3. \A i \in 1 .. Len(channel) : Bears(update', channel'[i]) = Carried(channel[i])
      BY <1>3, <1>5, <2>1, <2>2 DEF Carried, Bears
    <2>4. Bears(update', channel'[Len(channel) + 1]) = sent
      BY <1>0, <1>1, <1>3 DEF Bears, CounterTypes
    <2> QED
      BY <1>1, <1>3, <2>1, <2>3, <2>4, Numbers DEF Inv
  <1>10. ChannelInOrder'
    <2>1. last < sent /\ last' = last /\ sent' = sent /\ last \in Nat
      BY Numbers DEF Inv, HeldIsNext
    <2>2. ASSUME NEW i \in 1 .. Len(channel')
          PROVE  /\ last' < channel'[i].event /\ channel'[i].event <= Bears(update', channel'[i])
                 /\ Bears(update', channel'[i]) <= sent'
      <3>1. CASE i \in 1 .. Len(channel)
        <4>1. last < channel[i].event /\ channel[i].event <= Carried(channel[i])
          BY <3>1 DEF Inv, ChannelInOrder
        <4>2. Carried(channel[i]) < sent /\ Carried(channel[i]) \in Nat
          BY <1>9, <3>1
        <4> QED
          BY <1>1, <1>9, <2>1, <3>1, <4>1, <4>2
      <3>2. CASE i = Len(channel) + 1
        BY <1>1, <1>9, <2>1, <3>2
      <3> QED
        BY <1>3, <1>9, <3>1, <3>2
    <2>3. ASSUME NEW i \in 1 .. Len(channel'), NEW j \in 1 .. Len(channel'), i < j
          PROVE  Bears(update', channel'[i]) < channel'[j].event
      <3>1. i \in 1 .. Len(channel)
        BY <1>3, <1>9, <2>3
      <3>2. CASE j \in 1 .. Len(channel)
        BY <1>9, <2>3, <3>1, <3>2 DEF Inv, ChannelInOrder
      <3>3. CASE j = Len(channel) + 1
        BY <1>9, <3>1, <3>3
      <3> QED
        BY <1>3, <1>9, <3>2, <3>3
    <2> QED
      BY <1>8, <2>2, <2>3 DEF ChannelInOrder, Carried
  <1>11. Holding => Held' = Held /\ Held < sent /\ Held \in Nat
    <2> SUFFICES ASSUME Holding PROVE Held' = Held /\ Held < sent /\ Held \in Nat
      OBVIOUS
    <2>1. Held < sent /\ session.item.event <= Held /\ Held \in Nat /\ session.item.event \in Nat
          /\ session.item.event \in Events
      BY Numbers DEF Inv, HeldIsNext
    <2>2. session.item.event # sent
      BY <1>1, <2>1
    <2> QED
      BY <1>5, <2>1, <2>2 DEF Held, Carried, Bears
  <1>12. HeldIsNext'
    <2>1. Holding' <=> Holding
      BY DEF Holding
    <2>2. ASSUME Holding, NEW i \in 1 .. Len(channel') PROVE Held' < channel'[i].event
      <3>1. CASE i \in 1 .. Len(channel)
        BY <1>9, <1>11, <2>2, <3>1 DEF Inv, HeldIsNext
      <3>2. CASE i = Len(channel) + 1
        BY <1>9, <1>11, <2>2, <3>2
      <3> QED
        BY <1>3, <1>9, <3>1, <3>2
    <2> QED
      BY <1>8, <1>11, <2>1, <2>2 DEF Inv, HeldIsNext
  <1>13. TailIsLast'
    BY <1>2 DEF TailIsLast
  <1>14. OwedIsOnItsWay'
    <2> SUFFICES ASSUME Alive, NEW event \in owed
                 PROVE  \/ \E i \in 1 .. Len(channel') : channel'[i].kind # "Periodic" /\ channel'[i].event = event
                        \/ /\ session.state \in {"Received", "Writing"}
                           /\ session.item.kind # "Periodic" /\ session.item.event = event
                        \/ event = sent /\ ~registered
      BY DEF OwedIsOnItsWay, Alive, Holding
    <2>1. CASE \E i \in 1 .. Len(channel) : channel[i].kind # "Periodic" /\ channel[i].event = event
      <3>1. PICK i \in 1 .. Len(channel) : channel[i].kind # "Periodic" /\ channel[i].event = event
        BY <2>1
      <3>2. i \in 1 .. Len(channel')
        BY <1>3, <1>9
      <3> QED
        BY <1>3, <3>1, <3>2
    <2>2. CASE event = sent /\ sender.item.kind # "Periodic"
      <3>1. Len(channel) + 1 \in 1 .. Len(channel')
        BY <1>3, <1>9
      <3> QED
        BY <1>1, <1>3, <2>2, <3>1
    <2> QED
      BY <2>1, <2>2 DEF Inv, OwedIsOnItsWay
  <1> QED
    BY <1>6, <1>7, <1>10, <1>12, <1>13, <1>14 DEF Inv

\* A reliable event that finds the channel full waits in the sender with the mutex held.
LEMMA WaitKeeps ==
  ASSUME Inv, sender.state = "Locking", sender.item.kind # "Periodic", mutex' = "Sender",
         SenderAt("Waiting"),
         UNCHANGED <<sent, channel, update, tail, closed, open, registered, overload, session, depth,
                     last, owed>>
  PROVE  Inv'
  <1>0. SenderTypes /\ SessionTypes /\ ChannelTypes /\ CounterTypes /\ FlagTypes
    BY TypeParts DEF Inv
  <1>1. SenderTypes' /\ sender'.state = "Waiting" /\ sender'.item = sender.item
    BY <1>0, SenderKinds DEF SenderStates
  <1>2. QueueTypeOK'
    BY <1>0, <1>1, TypeParts DEF SessionTypes, ChannelTypes, CounterTypes, FlagTypes
  <1>3. TasksHold'
    BY <1>1 DEF Inv, TasksHold, Holding
  <1>4. ChannelInOrder' /\ HeldIsNext'
    BY <1>1 DEF Inv, ChannelInOrder, HeldIsNext, Carried, Held, Holding, Sending
  <1>5. TailIsLast' /\ OwedIsOnItsWay'
    BY <1>1 DEF Inv, TailIsLast, OwedIsOnItsWay, Alive, Holding, Sending
  <1> QED
    BY <1>2, <1>3, <1>4, <1>5 DEF Inv

\* A periodic state that replaces the one at the tail, or is dropped.
LEMMA CoalesceKeeps ==
  ASSUME Inv, sender.state = "Locking", sender.item.kind = "Periodic", Done,
         update' = update \/ (tail # 0 /\ update' = [update EXCEPT ![tail] = sender.item.event]),
         UNCHANGED <<sent, mutex, channel, tail, closed, open, registered, overload, session, depth,
                     last, owed>>
  PROVE  Inv'
  <1>0. SenderTypes /\ SessionTypes /\ ChannelTypes /\ CounterTypes /\ FlagTypes
    BY TypeParts DEF Inv
  <1>1. SenderTypes' /\ sender'.state = "Idle" /\ ~Sending' /\ Sending
    BY <1>0, SenderKinds DEF Sending
  <1>2. sender.item.event = sent /\ sent \in Events /\ sent \in Nat /\ sent \in 0 .. MaxEvents
    BY <1>0, CapacityAssumption DEF Inv, TasksHold, Items, CounterTypes
  <1>3. /\ update' \in [Events -> 0 .. MaxEvents]
        /\ \A e \in Events : update'[e] = update[e] \/ (e = tail /\ update'[e] = sent)
    BY <1>0, <1>2 DEF CounterTypes
  <1>4. QueueTypeOK'
    BY <1>0, <1>1, <1>3, TypeParts DEF SessionTypes, ChannelTypes, CounterTypes, FlagTypes
  <1>5. TasksHold'
    BY <1>1 DEF Inv, TasksHold, Holding
  <1>6. \A i \in 1 .. Len(channel) :
          /\ channel[i].event \in Events /\ channel[i].event \in Nat /\ Carried(channel[i]) \in Nat
          /\ last < channel[i].event /\ channel[i].event <= Carried(channel[i]) /\ Carried(channel[i]) < sent
    BY <1>0, <1>1, Numbers, ChannelItems DEF Inv, ChannelInOrder
  <1>7. \A i \in 1 .. Len(channel) :
          \/ Bears(update', channel[i]) = Carried(channel[i])
          \/ Bears(update', channel[i]) = sent /\ i = Len(channel)
    BY <1>1, <1>3, <1>6 DEF Inv, TailIsLast, Bears, Carried, Sending
  <1>8. ChannelInOrder'
    <2>1. ASSUME NEW i \in 1 .. Len(channel)
          PROVE  /\ last < channel[i].event /\ channel[i].event <= Bears(update', channel[i])
                 /\ Bears(update', channel[i]) <= sent
      BY <1>2, <1>6, <1>7
    <2>2. ASSUME NEW i \in 1 .. Len(channel), NEW j \in 1 .. Len(channel), i < j
          PROVE  Bears(update', channel[i]) < channel[j].event
      <3>1. i # Len(channel)
        BY <1>0, <2>2 DEF ChannelTypes
      <3> QED
        BY <1>7, <2>2, <3>1 DEF Inv, ChannelInOrder
    <2> QED
      BY <1>1, <2>1, <2>2 DEF ChannelInOrder, Carried
  <1>9. ASSUME Holding
        PROVE  /\ last < session.item.event /\ session.item.event <= Held' /\ Held' <= sent
               /\ \A i \in 1 .. Len(channel) : Held' < channel[i].event
    <2>1. /\ session.item.event \in Events /\ session.item.event \in Nat /\ Held \in Nat
          /\ last < session.item.event /\ session.item.event <= Held /\ Held < sent
          /\ \A i \in 1 .. Len(channel) : Held < channel[i].event
      BY <1>1, <1>9, Numbers DEF Inv, HeldIsNext
    <2>2. Held' = Held \/ (Held' = sent /\ channel = <<>>)
      <3>1. CASE session.state = "Writing" \/ session.item.kind # "Periodic"
        BY <3>1 DEF Held, Carried, Bears
      <3>2. CASE session.state # "Writing" /\ session.item.kind = "Periodic"
        <4>1. Held = update[session.item.event] /\ Held' = update'[session.item.event]
          BY <3>2 DEF Held, Carried, Bears
        <4>2. session.state \in {"Received", "Resolving"}
          BY <1>9, <3>2 DEF Holding
        <4> QED
          BY <1>3, <2>1, <3>2, <4>1, <4>2 DEF Inv, TailIsLast
      <3> QED
        BY <3>1, <3>2
    <2>3. CASE Held' = Held
      BY <1>2, <2>1, <2>3
    <2>4. CASE Held' = sent /\ channel = <<>>
      BY <1>2, <2>1, <2>4
    <2> QED
      BY <2>2, <2>3, <2>4
  <1>10. HeldIsNext'
    <2>1. Holding' <=> Holding
      BY DEF Holding
    <2> QED
      BY <1>1, <1>9, <2>1 DEF Inv, HeldIsNext
  <1>11. TailIsLast' /\ OwedIsOnItsWay'
    BY <1>1 DEF Inv, TailIsLast, OwedIsOnItsWay, Alive, Holding
  <1> QED
    BY <1>4, <1>5, <1>8, <1>10, <1>11 DEF Inv

\* The item last accounted for is the last of the channel.
LEMMA AccountKeeps ==
  ASSUME Inv, Account
  PROVE  Inv'
  <1>0. SenderTypes /\ SessionTypes /\ ChannelTypes /\ CounterTypes /\ FlagTypes
    BY TypeParts DEF Inv
  <1>1. /\ sender.state = "Accounting" /\ mutex' = "Free"
        /\ UNCHANGED <<sent, channel, update, closed, open, registered, overload, session, last, owed>>
    BY DEF Account
  <1>2. SenderTypes' /\ sender'.state = "Idle" /\ ~Sending /\ ~Sending'
    BY <1>0, <1>1, SenderKinds DEF Account, Sending
  <1>3. sender.item.event = sent
    BY <1>1 DEF Inv, TasksHold
  <1>4. tail' \in {sent, 0} /\ tail' \in 0 .. MaxEvents /\ depth' \in Nat
    BY <1>0, <1>3, CapacityAssumption DEF Account, CounterTypes
  <1>5. QueueTypeOK'
    BY <1>0, <1>1, <1>2, <1>4, TypeParts DEF SessionTypes, ChannelTypes, CounterTypes, FlagTypes
  <1>6. TasksHold'
    BY <1>1, <1>2 DEF Inv, TasksHold, Holding
  <1>7. ChannelInOrder' /\ HeldIsNext'
    BY <1>1, <1>2 DEF Inv, ChannelInOrder, HeldIsNext, Carried, Held, Holding
  <1>8. OwedIsOnItsWay'
    BY <1>1, <1>2 DEF Inv, OwedIsOnItsWay, Alive, Holding
  <1>9. \A i \in 1 .. Len(channel) :
          /\ channel[i].event \in Nat /\ Carried(channel[i]) \in Nat /\ channel[i].event # 0
          /\ channel[i].event <= Carried(channel[i]) /\ Carried(channel[i]) <= sent
    BY <1>0, Numbers, ChannelItems DEF Inv, ChannelInOrder
  <1>10. sent \in Nat /\ Len(channel) \in Nat
    BY Numbers DEF Inv
  <1>11. ASSUME NEW i \in 1 .. Len(channel), channel[i].event = tail'
         PROVE  i = Len(channel)
    <2>1. channel[i].event = sent
      BY <1>4, <1>9, <1>11
    <2>2. CASE i < Len(channel)
      <3>1. Len(channel) \in 1 .. Len(channel)
        BY <1>10, <2>2
      <3>2. Carried(channel[i]) < channel[Len(channel)].event
        BY <2>2, <3>1 DEF Inv, ChannelInOrder
      <3> QED
        BY <1>9, <1>10, <2>1, <3>1, <3>2
    <2> QED
      BY <1>10, <2>2
  <1>12. ASSUME session.state \in {"Received", "Resolving"}, session.item.event = tail'
         PROVE  channel = <<>>
    <2>1. Holding
      BY <1>12 DEF Holding
    <2>2. /\ session.item.event \in Nat /\ Held \in Nat /\ last \in Nat
          /\ last < session.item.event /\ session.item.event <= Held
          /\ \A i \in 1 .. Len(channel) : Held < channel[i].event
      BY <2>1, Numbers DEF Inv, HeldIsNext
    <2>3. session.item.event = sent
      BY <1>4, <1>12, <2>2
    <2>4. CASE Len(channel) # 0
      <3>1. 1 \in 1 .. Len(channel)
        BY <1>10, <2>4
      <3>2. Held < channel[1].event /\ channel[1].event <= Carried(channel[1]) /\ Carried(channel[1]) <= sent
        BY <1>9, <2>2, <3>1
      <3> QED
        BY <1>9, <1>10, <2>2, <2>3, <3>1, <3>2
    <2>5. Len(channel) = 0 => channel = <<>>
      BY <1>0 DEF ChannelTypes
    <2> QED
      BY <2>4, <2>5
  <1>13. TailIsLast'
    BY <1>1, <1>11, <1>12 DEF TailIsLast
  <1> QED
    BY <1>5, <1>6, <1>7, <1>8, <1>13 DEF Inv

-----------------------------------------------------------------------------
(* The session's steps with an item. *)

\* The session takes the oldest item of the channel.
LEMMA ReceiveKeeps ==
  ASSUME Inv, Receive
  PROVE  Inv'
  <1>0. SenderTypes /\ SessionTypes /\ ChannelTypes /\ CounterTypes /\ FlagTypes
    BY TypeParts DEF Inv
  <1>1. /\ UNCHANGED <<sent, sender, mutex, update, tail, closed, open, registered, overload, depth,
                       last, owed>>
        /\ session.state = "Serving" /\ channel # <<>>
        /\ session' = [state |-> "Received", item |-> Head(channel), discarded |-> 0]
        /\ channel' = Tail(channel)
    BY DEF Receive, SessionAt
  <1>2. /\ Len(channel) \in Nat /\ 1 \in 1 .. Len(channel) /\ Head(channel) = channel[1]
        /\ Len(channel') = Len(channel) - 1 /\ channel' \in Seq(Items)
        /\ \A i \in 1 .. Len(channel') : channel'[i] = channel[i + 1] /\ i + 1 \in 1 .. Len(channel)
    BY <1>0, <1>1 DEF ChannelTypes
  <1>3. /\ session'.state = "Received" /\ session'.item = channel[1] /\ session'.discarded = 0
        /\ Holding' /\ ~Holding
    BY <1>1, <1>2 DEF Holding
  <1>4. channel[1] \in Items
    BY <1>0, <1>2, ChannelItems
  <1>5. SessionTypes'
    BY <1>1, <1>2, <1>4 DEF SessionTypes, SessionStates
  <1>6. ChannelTypes'
    BY <1>0, <1>2, CapacityAssumption DEF ChannelTypes
  <1>7. QueueTypeOK'
    BY <1>0, <1>1, <1>5, <1>6, TypeParts DEF SenderTypes, CounterTypes, FlagTypes
  <1>8. TasksHold'
    BY <1>1, <1>3, <1>4 DEF Inv, TasksHold
  <1>9. ChannelInOrder'
    <2>1. ASSUME NEW i \in 1 .. Len(channel')
          PROVE  /\ last < channel'[i].event
                 /\ channel'[i].event <= Carried(channel[i + 1]) /\ Carried(channel[i + 1]) <= sent
                 /\ Sending => Carried(channel[i + 1]) < sent
                 /\ Bears(update', channel'[i]) = Carried(channel[i + 1])
      BY <1>1, <1>2 DEF Inv, ChannelInOrder, Carried
    <2>2. ASSUME NEW i \in 1 .. Len(channel'), NEW j \in 1 .. Len(channel'), i < j
          PROVE  Bears(update', channel'[i]) < channel'[j].event
      <3>1. i + 1 < j + 1 /\ i + 1 \in 1 .. Len(channel) /\ j + 1 \in 1 .. Len(channel)
        BY <1>2, <2>2
      <3> QED
        BY <1>2, <2>1, <3>1 DEF Inv, ChannelInOrder
    <2>3. Sending' <=> Sending
      BY <1>1 DEF Sending
    <2>4. \A i \in 1 .. Len(channel') :
            /\ last < channel'[i].event
            /\ channel'[i].event <= Bears(update', channel'[i]) /\ Bears(update', channel'[i]) <= sent
            /\ Sending => Bears(update', channel'[i]) < sent
      BY <2>1
    <2> QED
      BY <1>1, <2>2, <2>3, <2>4 DEF ChannelInOrder, Carried
  <1>10. HeldIsNext'
    <2>1. Held' = Carried(channel[1])
      BY <1>1, <1>3 DEF Held, Carried
    <2>2. /\ last < channel[1].event /\ channel[1].event <= Carried(channel[1]) /\ Carried(channel[1]) <= sent
          /\ Sending => Carried(channel[1]) < sent
      BY <1>2 DEF Inv, ChannelInOrder
    <2>3. ASSUME NEW i \in 1 .. Len(channel') PROVE Carried(channel[1]) < channel'[i].event
      <3>1. 1 < i + 1
        BY <1>2
      <3> QED
        BY <1>2, <3>1 DEF Inv, ChannelInOrder
    <2>4. Sending' <=> Sending
      BY <1>1 DEF Sending
    <2> QED
      BY <1>1, <1>3, <2>1, <2>2, <2>3, <2>4 DEF Inv, HeldIsNext
  <1>11. TailIsLast'
    <2> SUFFICES ASSUME sender.state # "Accounting"
                 PROVE  /\ \A i \in 1 .. Len(channel') :
                             channel'[i].kind = "Periodic" /\ channel'[i].event = tail => i = Len(channel')
                        /\ channel[1].kind = "Periodic" /\ channel[1].event = tail => channel' = <<>>
      BY <1>1, <1>3 DEF TailIsLast
    <2>1. \A i \in 1 .. Len(channel) :
            channel[i].kind = "Periodic" /\ channel[i].event = tail => i = Len(channel)
      BY DEF Inv, TailIsLast
    <2>2. ASSUME NEW i \in 1 .. Len(channel'), channel'[i].kind = "Periodic", channel'[i].event = tail
          PROVE  i = Len(channel')
      <3>1. i + 1 = Len(channel)
        BY <1>2, <2>1, <2>2
      <3> QED
        BY <1>2, <3>1
    <2>3. ASSUME channel[1].kind = "Periodic", channel[1].event = tail
          PROVE  channel' = <<>>
      <3>1. Len(channel') = 0
        BY <1>2, <2>1, <2>3
      <3> QED
        BY <1>2, <3>1
    <2> QED
      BY <2>2, <2>3
  <1>12. OwedIsOnItsWay'
    <2> SUFFICES ASSUME NEW event \in owed
                 PROVE  \/ \E i \in 1 .. Len(channel') : channel'[i].kind # "Periodic" /\ channel'[i].event = event
                        \/ channel[1].kind # "Periodic" /\ channel[1].event = event
                        \/ event = sent /\ (~registered \/ (Sending /\ sender.item.kind # "Periodic"))
      BY <1>1, <1>3 DEF OwedIsOnItsWay, Sending
    <2>1. CASE \E i \in 1 .. Len(channel) : channel[i].kind # "Periodic" /\ channel[i].event = event
      <3>1. PICK i \in 1 .. Len(channel) : channel[i].kind # "Periodic" /\ channel[i].event = event
        BY <2>1
      <3>2. CASE i = 1
        BY <3>1, <3>2
      <3>3. CASE i # 1
        <4>1. i - 1 \in 1 .. Len(channel') /\ (i - 1) + 1 = i
          BY <1>2, <3>3
        <4>2. channel'[i - 1] = channel[i]
          BY <1>2, <4>1
        <4> QED
          BY <3>1, <4>1, <4>2
      <3> QED
        BY <3>2, <3>3
    <2> QED
      BY <1>1, <2>1 DEF Inv, OwedIsOnItsWay, Alive
  <1> QED
    BY <1>7, <1>8, <1>9, <1>10, <1>11, <1>12 DEF Inv

\* The gauge is told, and what the session holds is found to be a line, a marker or a close.
LEMMA DequeueKeeps ==
  ASSUME Inv, Dequeue
  PROVE  Inv'
  <1>0. SenderTypes /\ SessionTypes /\ ChannelTypes /\ CounterTypes /\ FlagTypes
    BY TypeParts DEF Inv
  <1>1. /\ UNCHANGED <<sent, sender, mutex, channel, update, tail, closed, open, registered, overload,
                       last, owed>>
        /\ session.state = "Received" /\ session.item \in Items /\ Holding
    BY DEF Dequeue, Inv, TasksHold, Holding
  <1>2. \/ /\ session' = [session EXCEPT !.state = "Resolving"] /\ session.item.kind = "Periodic"
        \/ /\ session' = [session EXCEPT !.state = "Writing"] /\ session.item.kind # "Periodic"
        \/ session' = SessionAt("Leaving")
    BY DEF Dequeue
  <1>3. /\ SessionTypes'
        /\ \/ /\ session'.state = "Resolving" /\ session.item.kind = "Periodic"
              /\ session'.item = session.item
           \/ /\ session'.state = "Writing" /\ session.item.kind # "Periodic"
              /\ session'.item = session.item
           \/ session'.state = "Leaving"
    BY <1>0, <1>2, SessionIdle DEF SessionTypes, SessionStates
  <1>4. depth' \in Nat
    BY <1>0 DEF CounterTypes, Dequeue
  <1>5. QueueTypeOK'
    BY <1>0, <1>1, <1>3, <1>4, TypeParts DEF SenderTypes, ChannelTypes, CounterTypes, FlagTypes
  <1>6. TasksHold'
    BY <1>1, <1>3 DEF Inv, TasksHold, Holding
  <1>7. ChannelInOrder'
    BY <1>1 DEF Inv, ChannelInOrder, Carried, Sending
  <1>8. HeldIsNext'
    <2>1. Holding' => Held' = Held /\ session'.item = session.item
      BY <1>1, <1>3 DEF Held, Carried, Bears, Holding
    <2> QED
      BY <1>1, <2>1 DEF Inv, HeldIsNext, Sending
  <1>9. TailIsLast' /\ OwedIsOnItsWay'
    BY <1>1, <1>3 DEF Inv, TailIsLast, OwedIsOnItsWay, Alive, Holding, Sending
  <1> QED
    BY <1>5, <1>6, <1>7, <1>8, <1>9 DEF Inv

\* The state a marker carries is taken out of it; no marker behind it has its number.
LEMMA ResolveKeeps ==
  ASSUME Inv, Resolve
  PROVE  Inv'
  <1> DEFINE marker == session.item.event
  <1>0. SenderTypes /\ SessionTypes /\ ChannelTypes /\ CounterTypes /\ FlagTypes
    BY TypeParts DEF Inv
  <1>1. /\ UNCHANGED <<sent, sender, mutex, channel, closed, open, registered, overload, depth,
                       last, owed>>
        /\ session.state = "Resolving" /\ mutex = "Free" /\ Holding
        /\ session' = [session EXCEPT !.state = "Writing", !.item.event = update[marker]]
        /\ update' = [update EXCEPT ![marker] = 0]
        /\ tail' \in {tail, 0}
    BY DEF Resolve, Holding
  <1>2. session.item \in Items /\ session.item.kind = "Periodic" /\ Held = update[marker]
    BY <1>1 DEF Inv, TasksHold, Held, Carried, Bears
  <1>3. /\ marker \in Events /\ marker \in Nat /\ Held \in Nat /\ last \in Nat /\ sent \in Nat
        /\ last < marker /\ marker <= Held /\ Held <= sent /\ (Sending => Held < sent)
        /\ \A i \in 1 .. Len(channel) : Held < channel[i].event
    BY <1>1, Numbers DEF Inv, HeldIsNext
  <1>4. Held \in Events
    BY <1>0, <1>3, CapacityAssumption DEF CounterTypes, Events
  <1>5. /\ session'.state = "Writing" /\ session'.item = [session.item EXCEPT !.event = Held]
        /\ session'.discarded = session.discarded /\ DOMAIN session' = DOMAIN session
    BY <1>0, <1>1, <1>2 DEF SessionTypes
  <1>6. session'.item \in Items /\ session'.item.event = Held /\ session'.item.kind = "Periodic"
    BY <1>2, <1>4, <1>5 DEF Items
  <1>7. SessionTypes'
    BY <1>0, <1>1, <1>2, <1>5, <1>6 DEF SessionTypes, SessionStates
  <1>8. CounterTypes'
    <2>1. update' \in [Events -> 0 .. MaxEvents]
      BY <1>0, <1>1, <1>3, CapacityAssumption DEF CounterTypes
    <2>2. tail' \in 0 .. MaxEvents
      BY <1>0, <1>1, CapacityAssumption DEF CounterTypes
    <2> QED
      BY <1>0, <1>1, <2>1, <2>2 DEF CounterTypes
  <1>9. QueueTypeOK'
    BY <1>0, <1>1, <1>7, <1>8, TypeParts DEF SenderTypes, ChannelTypes, FlagTypes
  <1>10. TasksHold'
    BY <1>1, <1>5, <1>6 DEF Inv, TasksHold
  <1>11. \A i \in 1 .. Len(channel) :
           Bears(update', channel[i]) = Carried(channel[i]) /\ channel[i].event \in Nat
    <2>1. \A i \in 1 .. Len(channel) : channel[i].event \in Events /\ channel[i].event \in Nat
      BY <1>0, ChannelItems
    <2>2. \A i \in 1 .. Len(channel) : channel[i].event # marker
      BY <1>3, <2>1
    <2> QED
      BY <1>0, <1>1, <2>1, <2>2 DEF CounterTypes, Bears, Carried
  <1>12. Sending' <=> Sending
    BY <1>1 DEF Sending
  <1>13. ChannelInOrder'
    BY <1>1, <1>11, <1>12 DEF Inv, ChannelInOrder, Carried
  <1>14. HeldIsNext'
    <2>1. Held' = Held
      BY <1>5, <1>6 DEF Held
    <2> QED
      BY <1>1, <1>3, <1>6, <1>12, <2>1 DEF Inv, HeldIsNext
  <1>15. TailIsLast'
    <2>1. \A i \in 1 .. Len(channel) : channel[i].event # 0
      BY <1>0, ChannelItems
    <2> QED
      BY <1>1, <1>5, <2>1 DEF Inv, TailIsLast
  <1>16. OwedIsOnItsWay'
    BY <1>1, <1>5, <1>12 DEF Inv, OwedIsOnItsWay, Alive, Holding
  <1> QED
    BY <1>9, <1>10, <1>13, <1>14, <1>15, <1>16 DEF Inv

\* What a write adds to the transport.
LEMMA WriteIsNext ==
  ASSUME Inv, session.state = "Writing"
  PROVE  /\ session.item.event \in Events /\ session.item.event \in Nat
         /\ last < session.item.event /\ session.item.event <= sent
         /\ Sending => session.item.event < sent
         /\ \A i \in 1 .. Len(channel) :
              session.item.event < channel[i].event /\ channel[i].event \in Nat
         /\ sent \in Nat /\ last \in Nat
  BY Numbers DEF Inv, HeldIsNext, Holding, Held

\* A write that succeeds leaves only newer events, and one that fails ends the session.
LEMMA WriteKeeps ==
  ASSUME Inv, Write
  PROVE  Inv'
  <1>0. SenderTypes /\ SessionTypes /\ ChannelTypes /\ CounterTypes /\ FlagTypes
    BY TypeParts DEF Inv
  <1>1. /\ UNCHANGED <<sent, sender, mutex, channel, update, tail, closed, open, registered, overload,
                       depth>>
        /\ session.state = "Writing"
    BY DEF Write
  <1>2. \/ /\ session' = SessionAt("Serving") /\ last' = session.item.event
           /\ owed' = owed \ {session.item.event}
        \/ session' = SessionAt("Leaving") /\ last' = last /\ owed' = owed
    BY DEF Write
  <1>3. /\ SessionTypes' /\ ~Holding'
        /\ session'.state = "Serving" \/ (session'.state = "Leaving" /\ ~Alive')
    BY <1>2, SessionIdle DEF SessionStates, Holding, Alive
  <1>4. last' \in 0 .. MaxEvents /\ owed' \subseteq Events
    <2>1. session.item.event \in 0 .. MaxEvents
      <3>1. session.item.event \in 1 .. MaxEvents
        BY <1>1, WriteIsNext DEF Events
      <3> QED
        BY <3>1, CapacityAssumption
    <2> QED
      BY <1>0, <1>2, <2>1 DEF CounterTypes
  <1>5. QueueTypeOK'
    BY <1>0, <1>1, <1>3, <1>4, TypeParts DEF SenderTypes, ChannelTypes, CounterTypes, FlagTypes
  <1>6. TasksHold'
    BY <1>1, <1>3 DEF Inv, TasksHold, Holding
  <1>7. Sending' <=> Sending
    BY <1>1 DEF Sending
  <1>8. ChannelInOrder'
    <2>1. \A i \in 1 .. Len(channel) : last' < channel[i].event
      BY <1>1, <1>2, WriteIsNext DEF Inv, ChannelInOrder
    <2> QED
      BY <1>1, <1>7, <2>1 DEF Inv, ChannelInOrder, Carried
  <1>9. HeldIsNext'
    <2>1. last' <= sent /\ (Sending => last' < sent)
      BY <1>1, <1>2, WriteIsNext DEF Inv, HeldIsNext
    <2> QED
      BY <1>1, <1>3, <1>7, <2>1 DEF HeldIsNext
  <1>10. TailIsLast'
    BY <1>1, <1>3 DEF Inv, TailIsLast
  <1>11. OwedIsOnItsWay'
    <2>1. CASE session' = SessionAt("Serving") /\ owed' = owed \ {session.item.event}
      <3>1. \A event \in owed' : event \in owed /\ event # session.item.event
        BY <2>1
      <3> QED
        BY <1>1, <1>7, <3>1 DEF Inv, OwedIsOnItsWay, Alive, Holding
    <2>2. CASE ~Alive'
      BY <2>2 DEF OwedIsOnItsWay
    <2> QED
      BY <1>2, <1>3, <2>1, <2>2, SessionIdle DEF SessionStates
  <1> QED
    BY <1>5, <1>6, <1>8, <1>9, <1>10, <1>11 DEF Inv

\* What remains in the channel is discarded with the session.
LEMMA DrainKeeps ==
  ASSUME Inv, Drain
  PROVE  Inv'
  <1>0. SenderTypes /\ SessionTypes /\ ChannelTypes /\ CounterTypes /\ FlagTypes
    BY TypeParts DEF Inv
  <1>1. /\ UNCHANGED <<sent, sender, mutex, closed, open, registered, overload, depth, last, owed>>
        /\ session' = [state |-> "Discarding", item |-> Nothing, discarded |-> Len(channel)]
        /\ channel' = <<>> /\ update' = [e \in Events |-> 0] /\ tail' = 0
    BY DEF Drain, SessionAt
  <1>2. session'.state = "Discarding" /\ SessionTypes' /\ ~Holding' /\ ~Alive'
    BY <1>0, <1>1 DEF SessionTypes, SessionStates, ChannelTypes, Holding, Alive
  <1>3. ChannelTypes' /\ Len(channel') = 0
    BY <1>1, CapacityAssumption DEF ChannelTypes
  <1>4. CounterTypes'
    BY <1>0, <1>1, CapacityAssumption DEF CounterTypes
  <1>5. QueueTypeOK'
    BY <1>0, <1>1, <1>2, <1>3, <1>4, TypeParts DEF SenderTypes, FlagTypes
  <1>6. TasksHold'
    BY <1>1, <1>2 DEF Inv, TasksHold, Holding
  <1>7. ChannelInOrder' /\ HeldIsNext'
    BY <1>1, <1>2, <1>3 DEF Inv, ChannelInOrder, HeldIsNext, Sending
  <1>8. TailIsLast' /\ OwedIsOnItsWay'
    BY <1>1, <1>2, <1>3 DEF TailIsLast, OwedIsOnItsWay
  <1> QED
    BY <1>5, <1>6, <1>7, <1>8 DEF Inv

-----------------------------------------------------------------------------
(* The theorems. *)

\* Every step of either task keeps the invariant.
LEMMA InvNext ==
  ASSUME Inv, [QueueNext]_queueVars
  PROVE  Inv'
  <1>1. ASSUME NEW kind \in Kinds, Dispatch(kind) PROVE Inv'
    BY <1>1, DispatchKeeps
  <1>2. CASE ReserveLine \/ SendToClosed \/ WaitFindsClosed \/ WaitTimesOut
    BY <1>2, SenderMoves
  <1>3. CASE SendReliable
    <2>1. sender.state = "Locking" /\ Sending /\ sender.item.kind # "Periodic"
      BY <1>3 DEF SendReliable, Usable, Sending
    <2>2. CASE Len(channel) < Capacity /\ Enqueue
      BY <1>3, <2>1, <2>2, EnqueueKeeps DEF SendReliable
    <2>3. CASE mutex' = "Sender" /\ SenderAt("Waiting") /\ UNCHANGED channel
      BY <1>3, <2>1, <2>3, WaitKeeps DEF SendReliable
    <2> QED
      BY <1>3, <2>2, <2>3 DEF SendReliable
  <1>4. CASE WaitSucceeds
    <2>1. sender.item.kind # "Periodic" /\ Sending
      BY <1>4 DEF Inv, TasksHold, WaitSucceeds, Sending
    <2> QED
      BY <1>4, <2>1, EnqueueKeeps DEF WaitSucceeds
  <1>5. CASE Coalesce
    BY <1>5, CoalesceKeeps DEF Coalesce, Usable
  <1>6. CASE SendPeriodic
    <2>1. sender.state = "Locking" /\ Sending /\ sender.item.kind = "Periodic"
      BY <1>6 DEF SendPeriodic, Usable, Sending
    <2>2. CASE Done
      <3>1. sender'.state = "Idle"
        BY <2>2 DEF Done
      <3>2. ~Enqueue
        BY <3>1, SenderKinds, TypeParts DEF Enqueue, Inv, SenderStates
      <3> QED
        BY <1>6, <2>1, <2>2, <3>2, CoalesceKeeps DEF SendPeriodic
    <2>3. CASE Enqueue /\ ~Done
      BY <1>6, <2>1, <2>3, EnqueueKeeps DEF SendPeriodic
    <2> QED
      BY <1>6, <2>2, <2>3 DEF SendPeriodic
  <1>7. CASE \/ SeeOverload \/ HandleLine \/ FinishLine \/ FailLine \/ DropReceiver \/ Leave
             \/ RemoveSender \/ CloseQueue \/ Discard
    BY <1>7, SessionMoves
  <1>8. CASE UNCHANGED queueVars
    <2>1. QueueTypeOK' /\ TasksHold'
      BY <1>8 DEF queueVars, Inv, QueueTypeOK, TasksHold, Holding
    <2>2. ChannelInOrder' /\ HeldIsNext'
      BY <1>8 DEF queueVars, Inv, ChannelInOrder, HeldIsNext, Held, Carried, Holding, Sending
    <2>3. TailIsLast' /\ OwedIsOnItsWay'
      BY <1>8 DEF queueVars, Inv, TailIsLast, OwedIsOnItsWay, Alive, Holding, Sending
    <2> QED
      BY <2>1, <2>2, <2>3 DEF Inv
  <1> QED
    BY <1>1, <1>2, <1>3, <1>4, <1>5, <1>6, <1>7, <1>8, AccountKeeps, ReceiveKeeps, DequeueKeeps,
       ResolveKeeps, WriteKeeps, DrainKeeps DEF QueueNext, SenderStep, SessionStep

\* The invariant holds of every behaviour of the two tasks.
LEMMA InvAlways == QueueSpec => []Inv
  BY InvInit, InvNext, PTL DEF QueueSpec

\* Both tasks keep their states and the channel never exceeds the queue's capacity, whatever
\* the capacity and the number of events.
THEOREM QueueStaysBounded == QueueSpec => []QueueTypeOK
  <1>1. Inv => QueueTypeOK
    BY DEF Inv
  <1> QED
    BY <1>1, InvAlways, PTL

\* A write is newer than the writes before it and than no event still owed: coalescing,
\* waiting, refusing and discarding never reorder or skip a reliable line
\* (ClientEventSender::send and resolve_event).
THEOREM WritesKeepOrder == QueueSpec => WrittenInOrder
  <1>1. ASSUME Inv, [QueueNext]_queueVars
        PROVE  [last' # last => last' > last /\ \A event \in owed' : event > last']_queueVars
    <2> SUFFICES ASSUME last' # last
                 PROVE  last' > last /\ \A event \in owed' : event > last'
      OBVIOUS
    <2>1. Write
      BY <1>1 DEF QueueNext, SenderStep, SessionStep, queueVars, Dispatch, ReserveLine, SendToClosed,
         SendReliable, WaitSucceeds, WaitFindsClosed, WaitTimesOut, Coalesce, SendPeriodic, Account,
         SeeOverload, Receive, Dequeue, Resolve, FinishLine, DropReceiver, RemoveSender, CloseQueue,
         Drain, Discard, HandleLine, FailLine, Leave
    <2>2. /\ session.state = "Writing" /\ last' = session.item.event
          /\ owed' = owed \ {session.item.event}
      BY <2>1 DEF Write
    <2>3. /\ session.item.event \in Nat /\ last < session.item.event /\ session.item.event <= sent
          /\ Sending => session.item.event < sent
          /\ \A i \in 1 .. Len(channel) :
               session.item.event < channel[i].event /\ channel[i].event \in Nat
          /\ sent \in Nat /\ last \in Nat
      BY <1>1, <2>2, WriteIsNext
    <2>4. ASSUME NEW event \in owed' PROVE event > last'
      <3>1. event \in owed /\ event # session.item.event
        BY <2>2
      <3>2. \/ \E i \in 1 .. Len(channel) : channel[i].event = event
            \/ event = sent
        BY <1>1, <2>2, <3>1 DEF Inv, OwedIsOnItsWay, Alive, Holding
      <3> QED
        BY <2>2, <2>3, <3>1, <3>2
    <2> QED
      BY <2>2, <2>3, <2>4
  <1> QED
    BY <1>1, InvAlways, PTL DEF QueueSpec, WrittenInOrder

-----------------------------------------------------------------------------
(* The deliveries of a session. *)

\* What a line of the outbox may be, and what the history keeps of one.
OutboxKinds == {"reliable", "state"} \cup Scoped
LineType == [kind : OutboxKinds \cup {"none", "hello"}, own : Nat, status : Nat, ready : Nat,
             gen : Nat, cancelled : BOOLEAN]
QueuedType == [kind : {"reliable", "request", "intent", "causal", "status", "ready"}, gen : Nat]
CoreType == [outbox : Seq(LineType), lease : Nat, gen : Nat, active : BOOLEAN,
             phase : {"Connecting", "Reconnecting", "AwaitingHello", "Active"}]
GuiType == [hello : 0..2, staged : [token : Nat, line : LineType, lease : Nat]]
SlotType == [token : Nat, line : LineType, queued : BOOLEAN,
             result : {"none", "written", "failed"}]
FrameType == [token : Nat, line : LineType]
Places == {"none", "connecting", "up", "publish", "failing", "failingAgain", "dropping",
           "dropFail", "gone"}
WorkerType == [at : Places, frame : FrameType, greeted : BOOLEAN, gen : Nat]
DriverType == [live : 0 .. MaxConnections, failed : BOOLEAN]

\* A line of the outbox carries what was queued, of its own kind; what belongs to one
\* connection was queued for this one.
Genuine(e, ls, gen) ==
  /\ e \in LineType /\ e.kind \in OutboxKinds
  /\ e.kind # "state" => /\ e.own \in DOMAIN ls /\ ls[e.own].kind = e.kind
                         /\ e.status = 0 /\ e.ready = 0
  /\ e.kind = "state" => /\ e.own = 0 /\ (e.status # 0 \/ e.ready # 0)
                         /\ e.status # 0 => e.status \in DOMAIN ls /\ ls[e.status].kind = "status"
                         /\ e.ready # 0 => e.ready \in DOMAIN ls /\ ls[e.ready].kind = "ready"
  /\ e.kind # "reliable" => e.gen = gen /\ \A n \in Carries(e) : ls[n].gen = gen

\* The outbox is in the order of queueing.
InOrder(b) ==
  \A i, j \in DOMAIN b : i < j => \A m \in Carries(b[i]), n \in Carries(b[j]) : m < n

\* What was queued before everything behind the front.
Before(b, S) == \A j \in DOMAIN b : j > 1 => \A n \in S, m \in Carries(b[j]) : n < m

\* A cancelled line is a leased front, and whatever of the outbox is withdrawn is in it.
Marked(c, wd) ==
  \A i \in DOMAIN c.outbox :
     LET e == c.outbox[i] IN
     /\ e.cancelled => i = 1 /\ Leased(c) /\ {e.own, e.status} \ {0} \subseteq wd
     /\ Carries(e) \cap wd # {} => e.cancelled

PendingIn(b) == UNION {Carries(b[i]) : i \in DOMAIN b}

\* The first part of NothingIsLost.
Accounted(c, ls, wd, wr) ==
  \A n \in DOMAIN ls :
    \/ n \in PendingIn(c.outbox) \cup wr \cup wd
    \/ ls[n].kind # "reliable" /\ ls[n].gen # c.gen
    \/ /\ ls[n].kind = "ready"
       /\ \E m \in (PendingIn(c.outbox) \cup wr) : m > n /\ m \in DOMAIN ls /\ ls[m].kind = "ready"

\* The outbox c with the lines ls, of which wd were withdrawn and wr written and F are in
\* flight.
OutboxOK(c, ls, wd, wr, F) ==
  /\ c \in CoreType
  /\ ls \in Seq(QueuedType)
  /\ \A n \in DOMAIN ls : ls[n].gen <= c.gen
  /\ \A i \in DOMAIN c.outbox : Genuine(c.outbox[i], ls, c.gen)
  /\ InOrder(c.outbox)
  /\ Leased(c) => c.outbox # << >>
  /\ wd \subseteq {n \in DOMAIN ls : ls[n].kind \in {"request", "intent", "status"}}
  /\ wr \subseteq F /\ F \subseteq DOMAIN ls /\ Before(c.outbox, F)
  /\ Marked(c, wd)
  /\ Accounted(c, ls, wd, wr)

\* The front is the line, but for its cancellation.
IsFront(c, line) ==
  /\ c.outbox # << >>
  /\ c.outbox[1].kind = line.kind /\ c.outbox[1].own = line.own
  /\ c.outbox[1].status = line.status /\ c.outbox[1].ready = line.ready

\* The staged delivery is a Hello that is still pending or the leased front.
StagedOK(c, g) ==
  /\ g \in GuiType
  /\ Leased(c) => g.staged # NoStaged /\ g.staged.line.kind # "hello"
  /\ g.staged # NoStaged =>
       /\ g.staged.token # 0
       /\ IF g.staged.line.kind = "hello"
          THEN g.staged.line = Hello(g.hello) /\ g.hello # 0 /\ g.staged.lease = 0
          ELSE g.staged.lease # 0 /\ c.lease = g.staged.lease /\ IsFront(c, g.staged.line)

\* The slot tracks it, and its result is true.
SlotOK(g, s, wr) ==
  /\ s \in SlotType
  /\ s # NoSlot => s.token # 0
  /\ s = NoSlot => g.staged = NoStaged
  /\ s # NoSlot /\ g.staged = NoStaged => s.result # "none"
  /\ g.staged # NoStaged => g.staged.token = s.token /\ g.staged.line = s.line
  /\ s.result = "written" => Carries(s.line) \subseteq wr
  /\ s.queued => s.result = "none"

\* So do the frames that are on their way.
FramesOK(s, ws, wr) ==
  /\ ws \in [WorkerIds -> WorkerType]
  /\ \A w \in WorkerIds :
       /\ ws[w].at = "none" => ws[w] = NoWorker
       /\ ws[w].frame # NoFrame => ws[w].frame.token # 0
       /\ ws[w].frame.token # 0 /\ ws[w].frame.token = s.token => ws[w].frame.line = s.line
       /\ ws[w].at = "publish" => ws[w].frame # NoFrame /\ Carries(ws[w].frame.line) \subseteq wr

\* What a line for one connection may be carried by.
FitsConnection(line, ls, worker) ==
  line.kind \notin {"none", "hello"} =>
     /\ worker.greeted
     /\ \A n \in Carries(line) : ls[n].kind = "reliable" \/ ls[n].gen = worker.gen

\* Workers are started one after the other, and the current one is of the current
\* generation; only its Hello makes the session active.
ConnectionOK(c, s, ws, d, ls) ==
  /\ d \in DriverType
  /\ \E k \in 0 .. MaxConnections :
       /\ \A w \in WorkerIds : ws[w].at # "none" <=> w <= k
       /\ d.live # 0 => d.live <= k /\ ~d.failed /\ c.gen + 2 = 2 * k
       /\ d.failed => c.gen + 1 = 2 * k
       /\ d.live = 0 /\ ~d.failed => k = 0 /\ c.gen = 0
  /\ d.live # 0 => ws[d.live].gen = c.gen
  /\ c.phase = "Active" => d.live # 0 /\ ws[d.live].greeted
  /\ s.queued /\ s.line.kind \notin {"none", "hello"} =>
       d.live # 0 /\ FitsConnection(s.line, ls, ws[d.live])
  /\ \A w \in WorkerIds : FitsConnection(ws[w].frame.line, ls, ws[w])

\* Everything in flight.
Flying(g, s, ws) ==
  Carries(g.staged.line) \cup Carries(s.line) \cup UNION {Carries(ws[w].frame.line) : w \in WorkerIds}

\* Everything together, for given values of the variables.
Sound(c, g, s, ws, d, ls, wd, wr) ==
  /\ OutboxOK(c, ls, wd, wr, Flying(g, s, ws) \cup wr)
  /\ Len(ls) <= MaxLines
  /\ StagedOK(c, g)
  /\ SlotOK(g, s, wr)
  /\ FramesOK(s, ws, wr)
  /\ ConnectionOK(c, s, ws, d, ls)

DeliveryInv == Sound(core, gui, slot, workers, driver, lines, withdrawn, written)


-----------------------------------------------------------------------------
(* Select. *)

\* One position more.
Step(p, s, keep, i) == IF i \in keep THEN Append(p, s[i]) ELSE p

\* g gives every position of s up to n what is selected up to it.
Selects(g, s, keep, n) ==
  g = [i \in 0 .. n |-> IF i = 0 THEN << >> ELSE Step(g[i - 1], s, keep, i)]

\* Such a g exists, so the recursive function is what its definition says.
LEMMA SelectsExist ==
  ASSUME NEW s, NEW keep, NEW n \in Nat
  PROVE  \E g : Selects(g, s, keep, n)
<1> DEFINE G == {k \in Nat : \E g : Selects(g, s, keep, k)}
<1>1. 0 \in G
  <2>1. Selects([i \in 0 .. 0 |-> << >>], s, keep, 0)
    BY DEF Selects
  <2> QED BY <2>1
<1>2. ASSUME NEW k \in 0 .. n - 1, k \in G PROVE k + 1 \in G
  <2>1. PICK g : Selects(g, s, keep, k)
    BY <1>2
  <2> DEFINE h == [i \in 0 .. k + 1 |-> IF i = 0 THEN << >> ELSE Step(g[i - 1], s, keep, i)]
  <2>2. k \in Nat /\ \A i \in 0 .. k : i \in 0 .. k + 1
    OBVIOUS
  <2>3. \A i \in 0 .. k : h[i] = g[i]
    BY <2>1, <2>2 DEF Selects
  <2>4. \A i \in 0 .. k + 1 : i # 0 => i - 1 \in 0 .. k
    BY <2>2
  <2>5. \A i \in 0 .. k + 1 :
          (IF i = 0 THEN << >> ELSE Step(g[i - 1], s, keep, i))
            = (IF i = 0 THEN << >> ELSE Step(h[i - 1], s, keep, i))
    <3> HIDE DEF h
    <3> QED BY <2>3, <2>4
  <2>6. h = [i \in 0 .. k + 1 |-> IF i = 0 THEN << >> ELSE Step(h[i - 1], s, keep, i)]
    <3> DEFINE L == [i \in 0 .. k + 1 |-> IF i = 0 THEN << >> ELSE Step(h[i - 1], s, keep, i)]
    <3>1. \A i \in 0 .. k + 1 : h[i] = L[i]
      <4>1. \A i \in 0 .. k + 1 : h[i] = IF i = 0 THEN << >> ELSE Step(g[i - 1], s, keep, i)
        OBVIOUS
      <4> HIDE DEF h
      <4> QED BY <2>5, <4>1
    <3>2. h = [i \in 0 .. k + 1 |-> h[i]] /\ L = [i \in 0 .. k + 1 |-> L[i]]
      OBVIOUS
    <3>3. h = L
      <4> HIDE DEF h, L
      <4> QED BY <3>1, <3>2
    <3> HIDE DEF h
    <3> QED BY <3>3
  <2> HIDE DEF h
  <2>7. Selects(h, s, keep, k + 1)
    BY <2>6 DEF Selects
  <2> QED BY <2>2, <2>7
<1>3. n \in G
  <2> HIDE DEF G
  <2>1. 0 .. n \subseteq G
    BY <1>1, <1>2, UpTo
  <2> QED BY <2>1
<1> QED
  BY <1>3

\* r is s at the positions in keep, in their order.
Embeds(r, s, keep, e) ==
  /\ e \in [1 .. Len(r) -> keep]
  /\ \A i, j \in 1 .. Len(r) : i < j => e[i] < e[j]
  /\ \A i \in 1 .. Len(r) : r[i] = s[e[i]]
  /\ \A k \in keep : \E i \in 1 .. Len(r) : e[i] = k

\* One position more keeps it so.
LEMMA EmbedsNext ==
  ASSUME NEW S, NEW s \in Seq(S), NEW n \in Nat, n + 1 \in 1 .. Len(s), NEW keep,
         keep \subseteq 1 .. n, NEW r \in Seq(S), NEW e, Embeds(r, s, keep, e)
  PROVE  /\ Append(r, s[n + 1]) \in Seq(S)
         /\ \E f : Embeds(Append(r, s[n + 1]), s, keep \cup {n + 1}, f)
<1> DEFINE q == Append(r, s[n + 1])
           f == [i \in 1 .. Len(r) + 1 |-> IF i = Len(r) + 1 THEN n + 1 ELSE e[i]]
<1>1. /\ q \in Seq(S) /\ Len(q) = Len(r) + 1 /\ Len(r) \in Nat
      /\ \A i \in 1 .. Len(r) : q[i] = r[i]
      /\ q[Len(r) + 1] = s[n + 1] /\ s[n + 1] \in S
  OBVIOUS
<1>0. \A k \in keep : k \in Nat /\ k < n + 1
  OBVIOUS
<1>2. /\ \A i \in 1 .. Len(r) : e[i] \in keep /\ e[i] < n + 1 /\ e[i] \in Nat
      /\ \A i, j \in 1 .. Len(r) : i < j => e[i] < e[j]
      /\ \A i \in 1 .. Len(r) : r[i] = s[e[i]]
  <2>1. e \in [1 .. Len(r) -> keep]
    BY DEF Embeds
  <2>2. \A i \in 1 .. Len(r) : e[i] \in keep
    BY <2>1
  <2> QED BY <1>0, <2>2 DEF Embeds
<1>3. f \in [1 .. Len(q) -> keep \cup {n + 1}]
  BY <1>1, <1>2
<1>4. ASSUME NEW i \in 1 .. Len(q), NEW j \in 1 .. Len(q), i < j PROVE f[i] < f[j]
  <2>1. i \in 1 .. Len(r)
    BY <1>1, <1>4
  <2>2. f[i] = e[i]
    BY <1>1, <2>1
  <2>3. CASE j = Len(r) + 1
    BY <1>1, <1>2, <2>1, <2>2, <2>3
  <2>4. CASE j \in 1 .. Len(r)
    <3>1. f[j] = e[j]
      BY <1>1, <2>4
    <3> QED BY <1>2, <1>4, <2>1, <2>2, <2>4, <3>1
  <2> QED BY <1>1, <2>3, <2>4
<1>5. \A i \in 1 .. Len(q) : q[i] = s[f[i]]
  BY <1>1, <1>2
<1>6. \A k \in keep \cup {n + 1} : \E i \in 1 .. Len(q) : f[i] = k
  <2>1. f[Len(q)] = n + 1 /\ Len(q) \in 1 .. Len(q)
    BY <1>1
  <2>2. \A i \in 1 .. Len(r) : i \in 1 .. Len(q) /\ f[i] = e[i]
    BY <1>1
  <2> HIDE DEF f, q
  <2> QED BY <2>1, <2>2 DEF Embeds
<1> HIDE DEF f
<1>7. Embeds(q, s, keep \cup {n + 1}, f)
  BY <1>3, <1>4, <1>5, <1>6 DEF Embeds
<1> QED BY <1>1, <1>7

\* Select is what its name says.
LEMMA SelectIs ==
  ASSUME NEW S, NEW s \in Seq(S), NEW keep, keep \subseteq 1 .. Len(s)
  PROVE  /\ Select(s, keep) \in Seq(S)
         /\ \E e : Embeds(Select(s, keep), s, keep, e)
<1> DEFINE N == Len(s)
           g == CHOOSE h : h = [i \in 0 .. Len(s) |->
                     IF i = 0 THEN << >>
                     ELSE IF i \in keep THEN Append(h[i - 1], s[i]) ELSE h[i - 1]]
           Upto(n) == {k \in keep : k <= n}
           Good(n) == g[n] \in Seq(S) /\ \E e : Embeds(g[n], s, Upto(n), e)
           G == {n \in 0 .. N : Good(n)}
<1>0. N \in Nat /\ \A k \in keep : k \in Nat /\ 1 <= k /\ k <= N
  OBVIOUS
<1>1. Select(s, keep) = g[N]
  BY DEF Select
<1>2. Selects(g, s, keep, N)
  <2>1. \E h : h = [i \in 0 .. Len(s) |->
                     IF i = 0 THEN << >>
                     ELSE IF i \in keep THEN Append(h[i - 1], s[i]) ELSE h[i - 1]]
    <3>1. PICK h : Selects(h, s, keep, Len(s))
      BY <1>0, SelectsExist
    <3>2. h = [i \in 0 .. Len(s) |->
                     IF i = 0 THEN << >>
                     ELSE IF i \in keep THEN Append(h[i - 1], s[i]) ELSE h[i - 1]]
      BY <3>1, Zenon DEF Selects, Step
    <3> QED BY <3>2, Zenon
  <2>2. g = [i \in 0 .. Len(s) |->
                     IF i = 0 THEN << >>
                     ELSE IF i \in keep THEN Append(g[i - 1], s[i]) ELSE g[i - 1]]
    BY <2>1, Zenon
  <2> HIDE DEF g
  <2> QED BY <2>2, Zenon DEF Selects, Step
<1> HIDE DEF g
<1>3. g[0] = << >> /\ \A n \in 1 .. N : g[n] = Step(g[n - 1], s, keep, n)
  BY <1>0, <1>2 DEF Selects
<1>4. 0 \in G
  <2>1. Upto(0) = {}
    <3>1. \A k \in keep : ~(k <= 0)
      BY <1>0
    <3> QED BY <3>1
  <2>2. Embeds(g[0], s, Upto(0), [i \in 1 .. 0 |-> 0])
    BY <1>3, <2>1 DEF Embeds
  <2>3. g[0] \in Seq(S)
    BY <1>3
  <2>4. 0 \in 0 .. N
    BY <1>0
  <2> QED BY <2>2, <2>3, <2>4
<1>5. ASSUME NEW n \in 0 .. N - 1, n \in G PROVE n + 1 \in G
  <2>1. n \in Nat /\ n + 1 \in 1 .. N
    BY <1>0
  <2>2. g[n] \in Seq(S)
    BY <1>5
  <2>3. PICK e : Embeds(g[n], s, Upto(n), e)
    BY <1>5
  <2>4. g[n + 1] = Step(g[n], s, keep, n + 1)
    <3>1. (n + 1) - 1 = n
      BY <2>1
    <3> QED BY <1>3, <2>1, <3>1
  <2>5. Good(n + 1)
    <3>1. CASE n + 1 \notin keep
      <4>1. Upto(n + 1) = Upto(n)
        <5>1. \A k \in keep : k <= n + 1 <=> k <= n
          BY <1>0, <2>1, <3>1
        <5> QED BY <5>1
      <4>2. g[n + 1] = g[n]
        BY <2>4, <3>1 DEF Step
      <4> QED BY <2>2, <2>3, <4>1, <4>2
    <3>2. CASE n + 1 \in keep
      <4>1. Upto(n + 1) = Upto(n) \cup {n + 1} /\ Upto(n) \subseteq 1 .. n
        <5>1. \A k \in keep : k <= n + 1 <=> k <= n \/ k = n + 1
          BY <1>0, <2>1, <3>2
        <5>2. \A k \in keep : k <= n => k \in 1 .. n
          BY <1>0, <2>1
        <5> QED BY <3>2, <5>1, <5>2
      <4>2. g[n + 1] = Append(g[n], s[n + 1])
        BY <2>4, <3>2 DEF Step
      <4> HIDE DEF Upto
      <4>3. /\ Append(g[n], s[n + 1]) \in Seq(S)
            /\ \E f : Embeds(Append(g[n], s[n + 1]), s, Upto(n) \cup {n + 1}, f)
        BY <2>1, <2>2, <2>3, <4>1, EmbedsNext
      <4> QED BY <4>1, <4>2, <4>3
    <3> QED BY <3>1, <3>2
  <2> HIDE DEF Good
  <2> QED BY <2>1, <2>5
<1>6. N \in G
  <2> HIDE DEF G, N
  <2>1. 0 .. N \subseteq G
    BY <1>0, <1>4, <1>5, UpTo
  <2> QED BY <1>0, <2>1
<1>7. Upto(N) = keep
  BY <1>0
<1> HIDE DEF Upto
<1> QED
  BY <1>1, <1>6, <1>7

-----------------------------------------------------------------------------
(* What an edit of the outbox leaves. *)

\* y is x, perhaps without its status and perhaps marked.
Shrinks(x, y) ==
  /\ y \in LineType
  /\ y.kind = x.kind /\ y.own = x.own /\ y.ready = x.ready /\ y.gen = x.gen
  /\ y.status \in {0, x.status}

\* b2 is what an edit leaves of b, in its order.
Thins(b, b2, e) ==
  /\ e \in [DOMAIN b2 -> DOMAIN b]
  /\ \A i, j \in DOMAIN b2 : i < j => e[i] < e[j]
  /\ \A i \in DOMAIN b2 : Shrinks(b[e[i]], b2[i])

\* The kinds, by name.
LEMMA KindsAre ==
  /\ OutboxKinds \subseteq {"reliable", "state", "request", "intent", "causal"}
  /\ Scoped \subseteq {"request", "intent", "causal"}
  /\ "hello" \notin OutboxKinds /\ "none" \notin OutboxKinds /\ "status" \notin OutboxKinds
BY DeliveryAssumption DEF OutboxKinds, Scoped

LEMMA CarriesOf ==
  ASSUME NEW ls \in Seq(QueuedType), NEW gen \in Nat, NEW x, Genuine(x, ls, gen)
  PROVE  /\ Carries(x) # {} /\ x.kind # "hello" /\ x.kind \in OutboxKinds /\ x \in LineType
         /\ \A n \in Carries(x) :
              /\ n \in DOMAIN ls /\ n \in Nat /\ n # 0
              /\ x.kind # "state" => n = x.own /\ ls[n].kind = x.kind
              /\ x.kind = "state" => \/ ls[n].kind = "status" /\ n = x.status
                                     \/ ls[n].kind = "ready" /\ n = x.ready
              /\ x.kind # "reliable" => ls[n].kind # "reliable" /\ ls[n].gen = gen
<1>1. x \in LineType /\ x.kind \in OutboxKinds /\ x.kind # "hello"
  BY KindsAre DEF Genuine
<1>2. Carries(x) = {x.own, x.status, x.ready} \ {0}
  BY <1>1 DEF Carries
<1>3. DOMAIN ls = 1 .. Len(ls) /\ Len(ls) \in Nat
  OBVIOUS
<1>4. CASE x.kind # "state"
  <2>1. x.own \in DOMAIN ls /\ ls[x.own].kind = x.kind /\ x.status = 0 /\ x.ready = 0
    BY <1>4 DEF Genuine
  <2>2. Carries(x) = {x.own} /\ x.own \in Nat /\ x.own # 0
    BY <1>2, <1>3, <2>1
  <2> QED BY <1>1, <1>4, <2>1, <2>2 DEF Genuine
<1>5. CASE x.kind = "state"
  <2>1. /\ x.own = 0 /\ (x.status # 0 \/ x.ready # 0)
        /\ x.status # 0 => x.status \in DOMAIN ls /\ ls[x.status].kind = "status"
        /\ x.ready # 0 => x.ready \in DOMAIN ls /\ ls[x.ready].kind = "ready"
        /\ \A n \in Carries(x) : ls[n].gen = gen
    BY <1>5 DEF Genuine
  <2>2. Carries(x) = {x.status, x.ready} \ {0}
    BY <1>2, <2>1
  <2>3. Carries(x) # {}
    BY <2>1, <2>2
  <2>4. ASSUME NEW n \in Carries(x)
        PROVE  /\ n \in DOMAIN ls /\ n \in Nat /\ n # 0
               /\ \/ ls[n].kind = "status" /\ n = x.status
                  \/ ls[n].kind = "ready" /\ n = x.ready
    BY <1>3, <2>1, <2>2, <2>4
  <2> QED BY <1>1, <1>5, <2>1, <2>3, <2>4
<1> QED BY <1>4, <1>5

\* What shrinks carries no more, and is genuine while it carries something.
LEMMA ShrinksIs ==
  ASSUME NEW ls \in Seq(QueuedType), NEW gen \in Nat, NEW gen2 \in Nat, NEW x, NEW y,
         Genuine(x, ls, gen), Shrinks(x, y), gen2 = gen \/ y.kind = "reliable"
  PROVE  /\ Carries(y) \subseteq Carries(x)
         /\ Carries(y) # {} => Genuine(y, ls, gen2)
         /\ \A n \in Carries(x) : n \in Carries(y) \/ (ls[n].kind = "status" /\ y.status = 0)
<1>1. /\ x \in LineType /\ y \in LineType /\ x.kind # "hello" /\ x.kind \in OutboxKinds
      /\ y.kind = x.kind /\ y.own = x.own /\ y.ready = x.ready /\ y.gen = x.gen
      /\ y.status \in {0, x.status}
  BY CarriesOf DEF Shrinks
<1>2. /\ Carries(x) = {x.own, x.status, x.ready} \ {0}
      /\ Carries(y) = {x.own, y.status, x.ready} \ {0}
  BY <1>1 DEF Carries
<1>3. Carries(y) \subseteq Carries(x)
  BY <1>1, <1>2
<1>4. ASSUME Carries(y) # {} PROVE Genuine(y, ls, gen2)
  <2>1. CASE x.kind # "state"
    <3>1. y.kind # "reliable" => y.gen = gen2 /\ \A n \in Carries(y) : ls[n].gen = gen2
      BY <1>1, <1>3 DEF Genuine
    <3>2. y.own \in DOMAIN ls /\ ls[y.own].kind = y.kind /\ y.status = 0 /\ y.ready = 0
      BY <1>1, <2>1 DEF Genuine
    <3> QED BY <1>1, <2>1, <3>1, <3>2 DEF Genuine
  <2>2. CASE x.kind = "state"
    <3>1. y.gen = gen2 /\ \A n \in Carries(y) : ls[n].gen = gen2
      BY <1>1, <1>3, <2>2 DEF Genuine
    <3>2. /\ y.own = 0
          /\ y.status # 0 => y.status \in DOMAIN ls /\ ls[y.status].kind = "status"
          /\ y.ready # 0 => y.ready \in DOMAIN ls /\ ls[y.ready].kind = "ready"
      BY <1>1, <2>2 DEF Genuine
    <3>3. y.status # 0 \/ y.ready # 0
      BY <1>1, <1>2, <1>4, <3>2
    <3> QED BY <1>1, <2>2, <3>1, <3>2, <3>3 DEF Genuine
  <2> QED BY <2>1, <2>2
<1>5. ASSUME NEW n \in Carries(x), n \notin Carries(y)
      PROVE  ls[n].kind = "status" /\ y.status = 0
  <2>1. n = x.status /\ y.status = 0 /\ n # 0
    BY <1>1, <1>2, <1>5
  <2> QED BY <2>1 DEF Genuine
<1> QED BY <1>3, <1>4, <1>5

\* The order survives an edit.
LEMMA ThinsIs ==
  ASSUME NEW ls \in Seq(QueuedType), NEW gen \in Nat, NEW gen2 \in Nat, NEW F,
         NEW b \in Seq(LineType), NEW b2 \in Seq(LineType), NEW e, Thins(b, b2, e),
         \A i \in DOMAIN b : Genuine(b[i], ls, gen), InOrder(b), Before(b, F),
         \A i \in DOMAIN b2 : Carries(b2[i]) # {} /\ (gen2 = gen \/ b2[i].kind = "reliable")
  PROVE  /\ \A i \in DOMAIN b2 : Genuine(b2[i], ls, gen2)
         /\ InOrder(b2) /\ Before(b2, F)
         /\ PendingIn(b2) \subseteq PendingIn(b)
<1>1. /\ \A i \in DOMAIN b2 : e[i] \in DOMAIN b /\ Shrinks(b[e[i]], b2[i])
      /\ \A i, j \in DOMAIN b2 : i < j => e[i] < e[j]
  BY DEF Thins
<1>2. \A i \in DOMAIN b2 : Carries(b2[i]) \subseteq Carries(b[e[i]]) /\ Genuine(b2[i], ls, gen2)
  BY <1>1, ShrinksIs
<1>3. InOrder(b2)
  BY <1>1, <1>2 DEF InOrder
<1>4. ASSUME NEW j \in DOMAIN b2, j > 1 PROVE e[j] > 1
  <2>1. 1 \in DOMAIN b2 /\ e[1] < e[j]
    BY <1>1, <1>4
  <2>2. e[1] \in DOMAIN b /\ e[j] \in DOMAIN b
    BY <1>1, <2>1
  <2>3. e[1] \in Nat /\ e[j] \in Nat /\ e[1] >= 1
    BY <2>2
  <2> QED BY <2>1, <2>3
<1>5. Before(b2, F)
  BY <1>1, <1>2, <1>4 DEF Before
<1>6. PendingIn(b2) \subseteq PendingIn(b)
  BY <1>1, <1>2 DEF PendingIn
<1> QED BY <1>2, <1>3, <1>5, <1>6

\* An edit that drops what was withdrawn, was written or belongs to an old connection
\* keeps the invariant of the outbox.
LEMMA EditKeeps ==
  ASSUME NEW c, NEW ls, NEW wd, NEW wr, NEW F, OutboxOK(c, ls, wd, wr, F),
         NEW c2 \in CoreType, NEW wd2, NEW e, Thins(c.outbox, c2.outbox, e),
         c2.gen = c.gen \/ c2.gen > c.gen,
         \A i \in DOMAIN c2.outbox :
            Carries(c2.outbox[i]) # {} /\ (c2.gen = c.gen \/ c2.outbox[i].kind = "reliable"),
         Leased(c2) => c2.outbox # << >>,
         wd \subseteq wd2,
         wd2 \subseteq {n \in DOMAIN ls : ls[n].kind \in {"request", "intent", "status"}},
         Marked(c2, wd2),
         \A n \in PendingIn(c.outbox) :
            \/ n \in PendingIn(c2.outbox) \cup wr \cup wd2
            \/ ls[n].kind # "reliable" /\ ls[n].gen # c2.gen
  PROVE  OutboxOK(c2, ls, wd2, wr, F)
<1>1. /\ c \in CoreType /\ ls \in Seq(QueuedType) /\ c.gen \in Nat /\ c2.gen \in Nat
      /\ c.outbox \in Seq(LineType) /\ c2.outbox \in Seq(LineType)
      /\ \A n \in DOMAIN ls : ls[n].gen \in Nat /\ ls[n].gen <= c.gen
  <2>1. c \in CoreType /\ ls \in Seq(QueuedType) /\ \A n \in DOMAIN ls : ls[n].gen <= c.gen
    BY DEF OutboxOK
  <2>2. \A n \in DOMAIN ls : ls[n] \in QueuedType
    BY <2>1
  <2>3. \A n \in DOMAIN ls : ls[n].gen \in Nat
    BY <2>2 DEF QueuedType
  <2>4. \A x \in CoreType : x.gen \in Nat /\ x.outbox \in Seq(LineType)
    BY DEF CoreType
  <2> QED BY <2>1, <2>3, <2>4
<1>2. /\ \A i \in DOMAIN c2.outbox : Genuine(c2.outbox[i], ls, c2.gen)
      /\ InOrder(c2.outbox) /\ Before(c2.outbox, F)
      /\ PendingIn(c2.outbox) \subseteq PendingIn(c.outbox)
  <2>1. /\ \A i \in DOMAIN c.outbox : Genuine(c.outbox[i], ls, c.gen)
        /\ InOrder(c.outbox) /\ Before(c.outbox, F)
    BY DEF OutboxOK
  <2> DEFINE b == c.outbox
             b2 == c2.outbox
             gen == c.gen
             gen2 == c2.gen
  <2>2. /\ b \in Seq(LineType) /\ b2 \in Seq(LineType) /\ gen \in Nat /\ gen2 \in Nat
        /\ Thins(b, b2, e) /\ ls \in Seq(QueuedType)
    BY <1>1
  <2>3. \A i \in DOMAIN b2 : Carries(b2[i]) # {} /\ (gen2 = gen \/ b2[i].kind = "reliable")
    OBVIOUS
  <2>4. (\A i \in DOMAIN b : Genuine(b[i], ls, gen)) /\ InOrder(b) /\ Before(b, F)
    BY <2>1
  <2> HIDE DEF b, b2, gen, gen2
  <2>5. /\ \A i \in DOMAIN b2 : Genuine(b2[i], ls, gen2)
        /\ InOrder(b2) /\ Before(b2, F) /\ PendingIn(b2) \subseteq PendingIn(b)
    BY <2>2, <2>3, <2>4, ThinsIs
  <2> QED BY <2>5 DEF b, b2, gen2
<1>3. \A n \in DOMAIN ls : ls[n].gen <= c2.gen
  BY <1>1
<1>4. Accounted(c2, ls, wd2, wr)
  <2>1. SUFFICES ASSUME NEW n \in DOMAIN ls, n \notin PendingIn(c2.outbox) \cup wr \cup wd2,
                        ls[n].kind = "reliable" \/ ls[n].gen = c2.gen
                 PROVE  /\ ls[n].kind = "ready"
                        /\ \E m \in (PendingIn(c2.outbox) \cup wr) :
                              m > n /\ m \in DOMAIN ls /\ ls[m].kind = "ready"
    BY DEF Accounted
  <2>2. n \notin PendingIn(c.outbox)
    BY <2>1
  <2>3. ls[n].kind = "reliable" \/ c2.gen = c.gen
    BY <1>1, <2>1
  <2>4. ls[n].kind = "reliable" \/ ls[n].gen = c.gen
    BY <2>1, <2>3
  <2>5. Accounted(c, ls, wd, wr)
    BY DEF OutboxOK
  <2>6. /\ ls[n].kind = "ready"
        /\ \E m \in (PendingIn(c.outbox) \cup wr) :
              m > n /\ m \in DOMAIN ls /\ ls[m].kind = "ready"
    BY <2>1, <2>2, <2>4, <2>5 DEF Accounted
  <2>7. PICK m \in PendingIn(c.outbox) \cup wr : m > n /\ m \in DOMAIN ls /\ ls[m].kind = "ready"
    BY <2>6
  <2>8. m \in PendingIn(c.outbox) => ls[m].gen = c.gen
    <3>1. \A i \in DOMAIN c.outbox : Genuine(c.outbox[i], ls, c.gen)
      BY DEF OutboxOK
    <3>2. ASSUME NEW i \in DOMAIN c.outbox, m \in Carries(c.outbox[i]) PROVE ls[m].gen = c.gen
      <4>1. /\ c.outbox[i].kind # "state" => ls[m].kind = c.outbox[i].kind
            /\ c.outbox[i].kind # "reliable" => ls[m].gen = c.gen
        BY <1>1, <3>1, <3>2, CarriesOf, SMTT(40)
      <4> QED BY <2>7, <4>1
    <3> QED BY <3>2 DEF PendingIn
  <2>9. m \notin wd2
    BY <2>7
  <2>10. c2.gen = c.gen
    BY <2>3, <2>6
  <2>11. m \in PendingIn(c2.outbox) \cup wr
    BY <2>7, <2>8, <2>9, <2>10
  <2> QED BY <2>6, <2>7, <2>11
<1> QED BY <1>1, <1>2, <1>3, <1>4 DEF OutboxOK

\* Select, of a sequence that shrinks another one.
LEMMA WholeSelect ==
  ASSUME NEW b \in Seq(LineType), NEW t \in Seq(LineType), Len(t) = Len(b),
         \A i \in 1 .. Len(b) : Shrinks(b[i], t[i]), NEW keep \in SUBSET (1 .. Len(b))
  PROVE  LET r == Select(t, keep) IN
         /\ r \in Seq(LineType)
         /\ \E e : Thins(b, r, e)
         /\ \A k \in DOMAIN r : \E i \in keep : r[k] = t[i]
         /\ \A i \in keep : \E k \in DOMAIN r : r[k] = t[i]
<1> DEFINE r == Select(t, keep)
<1>1. r \in Seq(LineType) /\ \E e : Embeds(r, t, keep, e)
  BY SelectIs
<1> HIDE DEF r
<1>2. PICK e : Embeds(r, t, keep, e)
  BY <1>1
<1>3. DOMAIN r = 1 .. Len(r) /\ Len(r) \in Nat /\ DOMAIN b = 1 .. Len(b)
  BY <1>1
<1>4. /\ e \in [DOMAIN r -> keep]
      /\ \A i, j \in DOMAIN r : i < j => e[i] < e[j]
      /\ \A i \in DOMAIN r : r[i] = t[e[i]] /\ e[i] \in keep
      /\ \A k \in keep : \E i \in DOMAIN r : e[i] = k
  BY <1>2, <1>3 DEF Embeds
<1>5. Thins(b, r, e)
  BY <1>3, <1>4 DEF Thins
<1>6. \A i \in keep : \E k \in DOMAIN r : r[k] = t[i]
  BY <1>4
<1> QED BY <1>1, <1>4, <1>5, <1>6 DEF r

\* t shrinks what is behind the front of b.
TailShrinks(b, t) ==
  /\ t \in Seq(LineType) /\ Len(t) = Len(b) - 1
  /\ \A i \in 1 .. Len(t) : Shrinks(b[i + 1], t[i])

\* x before q.
Fronted(x, q) == <<x>> \o q

\* The same behind a front that stays.
LEMMA FrontSelect ==
  ASSUME NEW b \in Seq(LineType), b # << >>, NEW x \in LineType, Shrinks(b[1], x),
         NEW t, TailShrinks(b, t), NEW keep \in SUBSET (1 .. Len(t))
  PROVE  LET r == Fronted(x, Select(t, keep)) IN
         /\ r \in Seq(LineType) /\ r # << >> /\ r[1] = x
         /\ \E e : Thins(b, r, e)
         /\ \A k \in DOMAIN r : k > 1 => \E i \in keep : r[k] = t[i]
         /\ \A i \in keep : \E k \in DOMAIN r : k > 1 /\ r[k] = t[i]
<1> DEFINE q == Select(t, keep)
           r == <<x>> \o q
<1>0. /\ t \in Seq(LineType) /\ Len(t) = Len(b) - 1
      /\ \A i \in 1 .. Len(t) : Shrinks(b[i + 1], t[i])
  BY DEF TailShrinks
<1>1. q \in Seq(LineType) /\ \E e : Embeds(q, t, keep, e)
  BY <1>0, SelectIs
<1> HIDE DEF q
<1>2. PICK f : Embeds(q, t, keep, f)
  BY <1>1
<1>3. /\ r \in Seq(LineType) /\ Len(r) = Len(q) + 1 /\ Len(q) \in Nat /\ r[1] = x
      /\ \A k \in 1 .. Len(q) : r[k + 1] = q[k]
  BY <1>1
<1>4. /\ DOMAIN r = 1 .. Len(q) + 1 /\ DOMAIN b = 1 .. Len(b) /\ Len(b) \in Nat /\ Len(b) > 0
      /\ Len(t) \in Nat
  BY <1>0, <1>3
<1> HIDE DEF r
<1>5. /\ \A i \in 1 .. Len(q) : f[i] \in keep /\ q[i] = t[f[i]]
      /\ \A i, j \in 1 .. Len(q) : i < j => f[i] < f[j]
      /\ \A k \in keep : \E i \in 1 .. Len(q) : f[i] = k
  BY <1>2 DEF Embeds
<1> DEFINE e == [k \in 1 .. Len(q) + 1 |-> IF k = 1 THEN 1 ELSE f[k - 1] + 1]
<1>6. ASSUME NEW k \in 1 .. Len(q) + 1, k # 1
      PROVE  /\ k - 1 \in 1 .. Len(q) /\ f[k - 1] \in keep /\ f[k - 1] \in Nat /\ f[k - 1] >= 1
             /\ e[k] = f[k - 1] + 1 /\ r[k] = t[f[k - 1]] /\ e[k] \in 1 .. Len(b)
  <2>1. k - 1 \in 1 .. Len(q)
    BY <1>3, <1>6
  <2>2. f[k - 1] \in keep /\ r[(k - 1) + 1] = q[k - 1] /\ q[k - 1] = t[f[k - 1]]
    BY <1>3, <1>5, <2>1
  <2>3. (k - 1) + 1 = k
    BY <1>3
  <2>4. f[k - 1] \in 1 .. Len(t)
    BY <2>2
  <2> QED BY <1>0, <1>4, <1>6, <2>1, <2>2, <2>3, <2>4
<1>7. e[1] = 1 /\ 1 \in 1 .. Len(b) /\ 1 \in 1 .. Len(q) + 1
  BY <1>3, <1>4
<1>8. \A k \in DOMAIN r : e[k] \in DOMAIN b
  BY <1>4, <1>6, <1>7
<1>9. ASSUME NEW i \in DOMAIN r, NEW j \in DOMAIN r, i < j PROVE e[i] < e[j]
  <2>1. j # 1 /\ i \in Nat /\ j \in Nat /\ i >= 1
    BY <1>4, <1>9
  <2>2. e[j] = f[j - 1] + 1 /\ f[j - 1] \in Nat /\ f[j - 1] >= 1 /\ j - 1 \in 1 .. Len(q)
    BY <1>4, <1>6, <2>1
  <2>3. CASE i = 1
    BY <1>7, <2>2, <2>3
  <2>4. CASE i # 1
    <3>1. e[i] = f[i - 1] + 1 /\ f[i - 1] \in Nat /\ i - 1 \in 1 .. Len(q)
      BY <1>4, <1>6, <2>4
    <3>2. i - 1 < j - 1
      BY <1>9, <2>1
    <3>3. f[i - 1] < f[j - 1]
      BY <1>5, <2>2, <3>1, <3>2
    <3> QED BY <2>2, <3>1, <3>3
  <2> QED BY <2>3, <2>4
<1>10. \A k \in DOMAIN r : Shrinks(b[e[k]], r[k])
  <2>1. ASSUME NEW k \in DOMAIN r, k # 1 PROVE Shrinks(b[e[k]], r[k])
    <3>1. f[k - 1] \in keep /\ e[k] = f[k - 1] + 1 /\ r[k] = t[f[k - 1]]
      BY <1>4, <1>6, <2>1
    <3>2. f[k - 1] \in 1 .. Len(t)
      BY <3>1
    <3> HIDE DEF e
    <3> QED BY <1>0, <3>1, <3>2
  <2> QED BY <1>3, <1>7, <2>1
<1>11. Thins(b, r, e)
  <2>1. e \in [DOMAIN r -> DOMAIN b]
    BY <1>4, <1>8
  <2> HIDE DEF e
  <2> QED BY <1>9, <1>10, <2>1 DEF Thins
<1>12. ASSUME NEW k \in DOMAIN r, k > 1 PROVE \E i \in keep : r[k] = t[i]
  <2>1. k \in 1 .. Len(q) + 1 /\ k # 1
    BY <1>4, <1>12
  <2>2. f[k - 1] \in keep /\ r[k] = t[f[k - 1]]
    BY <1>6, <2>1
  <2> QED BY <2>2
<1>13. ASSUME NEW i \in keep PROVE \E k \in DOMAIN r : k > 1 /\ r[k] = t[i]
  <2>1. PICK j \in 1 .. Len(q) : f[j] = i
    BY <1>5
  <2>2. r[j + 1] = t[i] /\ j + 1 \in DOMAIN r /\ j + 1 > 1
    BY <1>3, <1>4, <1>5, <2>1
  <2> QED BY <2>2
<1>14. r # << >>
  BY <1>3
<1> QED BY <1>3, <1>11, <1>12, <1>13, <1>14 DEF r, q, Fronted

\* What the operations find in an outbox.
LEMMA OutboxIs ==
  ASSUME NEW c, NEW ls, NEW wd, NEW wr, NEW F, OutboxOK(c, ls, wd, wr, F)
  PROVE  /\ c \in CoreType /\ c.outbox \in Seq(LineType) /\ c.gen \in Nat /\ c.lease \in Nat
         /\ ls \in Seq(QueuedType) /\ DOMAIN c.outbox = 1 .. Len(c.outbox)
         /\ Leased(c) => c.outbox # << >> /\ 1 \in DOMAIN c.outbox
         /\ \A i \in DOMAIN c.outbox :
              LET x == c.outbox[i] IN
              /\ Genuine(x, ls, c.gen) /\ Shrinks(x, x)
              /\ x.cancelled => i = 1 /\ Leased(c) /\ {x.own, x.status} \ {0} \subseteq wd
              /\ Carries(x) \cap wd # {} => x.cancelled
         /\ wd \subseteq {n \in DOMAIN ls : ls[n].kind \in {"request", "intent", "status"}}
<1>1. /\ c \in CoreType /\ ls \in Seq(QueuedType)
      /\ \A i \in DOMAIN c.outbox : Genuine(c.outbox[i], ls, c.gen)
      /\ Leased(c) => c.outbox # << >>
      /\ Marked(c, wd)
      /\ wd \subseteq {n \in DOMAIN ls : ls[n].kind \in {"request", "intent", "status"}}
  BY DEF OutboxOK
<1>2. c.outbox \in Seq(LineType) /\ c.gen \in Nat /\ c.lease \in Nat
  BY <1>1 DEF CoreType
<1>3. DOMAIN c.outbox = 1 .. Len(c.outbox) /\ (c.outbox # << >> => 1 \in DOMAIN c.outbox)
  BY <1>2
<1>4. \A i \in DOMAIN c.outbox : Shrinks(c.outbox[i], c.outbox[i])
  BY <1>2 DEF Shrinks
<1>5. \A i \in DOMAIN c.outbox :
         LET x == c.outbox[i] IN
         /\ x.cancelled => i = 1 /\ Leased(c) /\ {x.own, x.status} \ {0} \subseteq wd
         /\ Carries(x) \cap wd # {} => x.cancelled
  BY <1>1 DEF Marked
<1> QED BY <1>1, <1>2, <1>3, <1>4, <1>5

-----------------------------------------------------------------------------
(* The methods of ProtocolOutbox. *)

\* What a method does to the rest of the outbox, and to a leased front.
Edits(c, c2) ==
  /\ c2.lease = c.lease /\ c2.gen = c.gen /\ c2.active = c.active /\ c2.phase = c.phase
  /\ PendingIn(c2.outbox) \subseteq PendingIn(c.outbox)
  /\ \A line : Leased(c) /\ IsFront(c, line) => IsFront(c2, line)

\* The fields of a core whose outbox is replaced.
LEMMA OutboxReplaced ==
  ASSUME NEW c \in CoreType, NEW b \in Seq(LineType)
  PROVE  LET c2 == [c EXCEPT !.outbox = b] IN
         /\ c2 \in CoreType /\ c2.outbox = b
         /\ c2.lease = c.lease /\ c2.gen = c.gen /\ c2.active = c.active /\ c2.phase = c.phase
         /\ (Leased(c2) <=> Leased(c))
  BY DEF CoreType, Leased

\* Cancelling a kind: everything of the kind is withdrawn.
LEMMA CancelKindKeeps ==
  ASSUME NEW c, NEW ls, NEW wd, NEW wr, NEW F, OutboxOK(c, ls, wd, wr, F),
         NEW kind \in {"request", "intent"}, NEW W,
         W \subseteq {n \in DOMAIN ls : ls[n].kind = kind},
         \A n \in PendingIn(c.outbox) : ls[n].kind = kind => n \in W
  PROVE  /\ OutboxOK(CancelKind(c, kind), ls, wd \cup W, wr, F)
         /\ Edits(c, CancelKind(c, kind))
<1> DEFINE b == c.outbox
           front == IF b[1].kind = kind THEN [b[1] EXCEPT !.cancelled = TRUE] ELSE b[1]
           t == Tail(b)
           keepT == {i \in DOMAIN t : t[i].kind \notin {kind}}
           keepB == {i \in DOMAIN b : b[i].kind \notin {kind}}
           r == IF Leased(c) THEN <<front>> \o Select(t, keepT) ELSE Select(b, keepB)
           c2 == [c EXCEPT !.outbox = r]
<1>1. /\ c \in CoreType /\ b \in Seq(LineType) /\ c.gen \in Nat /\ c.lease \in Nat
      /\ ls \in Seq(QueuedType) /\ DOMAIN b = 1 .. Len(b)
      /\ Leased(c) => b # << >> /\ 1 \in DOMAIN b
      /\ \A i \in DOMAIN b :
           /\ Genuine(b[i], ls, c.gen) /\ Shrinks(b[i], b[i])
           /\ b[i].cancelled => i = 1 /\ Leased(c) /\ {b[i].own, b[i].status} \ {0} \subseteq wd
           /\ Carries(b[i]) \cap wd # {} => b[i].cancelled
      /\ wd \subseteq {n \in DOMAIN ls : ls[n].kind \in {"request", "intent", "status"}}
  BY OutboxIs
<1>2. CancelKind(c, kind) = c2
  <2>1. CASE ~Leased(c)
    BY <2>1 DEF CancelKind, Retain
  <2>2. CASE Leased(c) /\ b[1].kind # kind
    <3>1. Head(b) = b[1]
      BY <1>1, <2>2
    <3> QED BY <2>2, <3>1 DEF CancelKind, Retain
  <2>3. CASE Leased(c) /\ b[1].kind = kind
    <3> DEFINE b1 == [b EXCEPT ![1].cancelled = TRUE]
               m == [c EXCEPT !.outbox[1].cancelled = TRUE]
    <3>1. Head(b) = b[1]
      BY <1>1, <2>3
    <3>2. m = [c EXCEPT !.outbox = b1]
      BY <1>1 DEF CoreType
    <3>3. b1[1] = front /\ b1 \in Seq(LineType) /\ Len(b1) = Len(b)
      <4>1. b[1] \in LineType /\ [b[1] EXCEPT !.cancelled = TRUE] \in LineType
        <5>1. b[1] \in LineType
          BY <1>1, <2>3
        <5> QED BY <5>1 DEF LineType
      <4>2. b1 = [b EXCEPT ![1] = [b[1] EXCEPT !.cancelled = TRUE]]
        BY <1>1, <2>3
      <4> QED BY <1>1, <2>3, <4>1, <4>2
    <3>4. Head(b1) = front /\ Tail(b1) = t
      <4>1. \A i \in 2 .. Len(b) : b1[i] = b[i]
        BY <1>1, <2>3
      <4> HIDE DEF b1, front
      <4>2. Head(b1) = front
        BY <1>1, <2>3, <3>3
      <4>3. Tail(b1) = Tail(b)
        BY <1>1, <2>3, <3>3, <4>1, SMTT(60)
      <4> QED BY <4>2, <4>3
    <3>5. Leased(m) /\ m.outbox = b1 /\ \A q : [m EXCEPT !.outbox = q] = [c EXCEPT !.outbox = q]
      BY <1>1, <2>3, <3>2 DEF CoreType, Leased
    <3>6. CancelKind(c, kind) = [m EXCEPT !.outbox = Retain(m, TRUE, {kind})]
      BY <2>3, <3>1 DEF CancelKind
    <3> HIDE DEF m, b1, front
    <3>7. Retain(m, TRUE, {kind}) = <<front>> \o Select(t, keepT)
      BY <3>4, <3>5 DEF Retain
    <3> QED BY <2>3, <3>5, <3>6, <3>7
  <2> QED BY <2>1, <2>2, <2>3
<1>3. ASSUME Leased(c)
      PROVE  /\ front \in LineType /\ Shrinks(b[1], front) /\ Carries(front) = Carries(b[1])
             /\ front.kind = b[1].kind /\ front.own = b[1].own
             /\ front.status = b[1].status /\ front.ready = b[1].ready
             /\ front.cancelled <=> b[1].kind = kind \/ b[1].cancelled
             /\ t \in Seq(LineType) /\ Len(t) = Len(b) - 1 /\ DOMAIN t = 1 .. Len(t)
             /\ \A i \in 1 .. Len(t) : t[i] = b[i + 1] /\ i + 1 \in DOMAIN b /\ i + 1 > 1
  <2>1. b[1] \in LineType
    BY <1>1, <1>3
  <2>2. /\ front \in LineType
        /\ front.kind = b[1].kind /\ front.own = b[1].own /\ front.gen = b[1].gen
        /\ front.status = b[1].status /\ front.ready = b[1].ready
        /\ front.cancelled <=> b[1].kind = kind \/ b[1].cancelled
    BY <2>1 DEF LineType
  <2> HIDE DEF front
  <2>3. Shrinks(b[1], front) /\ Carries(front) = Carries(b[1])
    BY <2>2 DEF Shrinks, Carries
  <2>4. /\ t \in Seq(LineType) /\ Len(t) = Len(b) - 1 /\ DOMAIN t = 1 .. Len(t)
        /\ \A i \in 1 .. Len(t) : t[i] = b[i + 1] /\ i + 1 \in DOMAIN b /\ i + 1 > 1
    BY <1>1, <1>3
  <2> QED BY <2>2, <2>3, <2>4
<1> HIDE DEF front, t
<1>4. /\ r \in Seq(LineType) /\ (Leased(c) => r # << >> /\ r[1] = front)
      /\ \E e : Thins(b, r, e)
      /\ \A k \in DOMAIN r :
            \/ k = 1 /\ Leased(c)
            \/ \E i \in DOMAIN b : r[k] = b[i] /\ b[i].kind # kind /\ (Leased(c) => i > 1)
      /\ \A i \in DOMAIN b : b[i].kind # kind /\ (i > 1 \/ ~Leased(c)) => \E k \in DOMAIN r : r[k] = b[i]
  <2>1. CASE Leased(c)
    <3>1. keepT \in SUBSET (1 .. Len(t)) /\ \A i \in 1 .. Len(t) : Shrinks(b[i + 1], t[i])
      BY <1>1, <1>3, <2>1
    <3> DEFINE q == Fronted(front, Select(t, keepT))
    <3> HIDE DEF keepT
    <3>2. /\ q \in Seq(LineType) /\ q # << >> /\ q[1] = front
          /\ \E e : Thins(b, q, e)
          /\ \A k \in DOMAIN q : k > 1 => \E i \in keepT : q[k] = t[i]
          /\ \A i \in keepT : \E k \in DOMAIN q : k > 1 /\ q[k] = t[i]
      <4>1. b \in Seq(LineType) /\ b # << >> /\ front \in LineType /\ Shrinks(b[1], front)
        BY <1>1, <1>3, <2>1
      <4>2. keepT \in SUBSET (1 .. Len(t)) /\ TailShrinks(b, t)
        BY <1>3, <2>1, <3>1 DEF TailShrinks
      <4> HIDE DEF b
      <4> QED BY <4>1, <4>2, FrontSelect
    <3> HIDE DEF q
    <3>3. r = q
      BY <2>1 DEF q, keepT, Fronted
    <3>4. ASSUME NEW k \in DOMAIN q, k # 1
          PROVE  \E i \in DOMAIN b : q[k] = b[i] /\ b[i].kind # kind /\ i > 1
      <4>1. k > 1
        BY <3>2, <3>4
      <4>2. PICK i \in keepT : q[k] = t[i]
        BY <3>2, <4>1
      <4>3. i \in 1 .. Len(t) /\ t[i].kind # kind
        BY <1>3, <2>1 DEF keepT
      <4>4. t[i] = b[i + 1] /\ i + 1 \in DOMAIN b /\ i + 1 > 1
        BY <1>3, <2>1, <4>3
      <4> QED BY <4>2, <4>3, <4>4
    <3>5. ASSUME NEW i \in DOMAIN b, b[i].kind # kind, i > 1 PROVE \E k \in DOMAIN q : q[k] = b[i]
      <4>1. i - 1 \in 1 .. Len(t) /\ t[i - 1] = b[i]
        <5>1. i - 1 \in 1 .. Len(t)
          BY <1>1, <1>3, <2>1, <3>5
        <5>2. (i - 1) + 1 = i
          BY <1>1, <3>5
        <5> QED BY <1>3, <2>1, <5>1, <5>2
      <4>2. i - 1 \in keepT
        BY <1>3, <2>1, <3>5, <4>1 DEF keepT
      <4> QED BY <3>2, <4>1, <4>2
    <3> HIDE DEF r
    <3> QED BY <2>1, <3>2, <3>3, <3>4, <3>5
  <2>2. CASE ~Leased(c)
    <3>1. keepB \in SUBSET (1 .. Len(b)) /\ \A i \in 1 .. Len(b) : Shrinks(b[i], b[i])
      BY <1>1
    <3> DEFINE q == Select(b, keepB)
    <3> HIDE DEF keepB
    <3>2. /\ q \in Seq(LineType)
          /\ \E e : Thins(b, q, e)
          /\ \A k \in DOMAIN q : \E i \in keepB : q[k] = b[i]
          /\ \A i \in keepB : \E k \in DOMAIN q : q[k] = b[i]
      <4>1. b \in Seq(LineType)
        BY <1>1
      <4> HIDE DEF b
      <4> QED BY <3>1, <4>1, WholeSelect
    <3> HIDE DEF q
    <3>3. r = q
      BY <2>2 DEF q, keepB
    <3> HIDE DEF r
    <3> QED BY <2>2, <3>2, <3>3 DEF keepB
  <2> QED BY <2>1, <2>2
<1> HIDE DEF r, b
<1>5. /\ c2 \in CoreType /\ c2.outbox = r /\ c2.gen = c.gen /\ (Leased(c2) <=> Leased(c))
      /\ c2.lease = c.lease /\ c2.active = c.active /\ c2.phase = c.phase
  BY <1>1, <1>4, OutboxReplaced
<1> HIDE DEF c2
<1>6. \A i \in DOMAIN b : \A n \in Carries(b[i]) :
         /\ ls[n].kind = kind <=> b[i].kind = kind
         /\ n \in W <=> b[i].kind = kind
  <2>1. ASSUME NEW i \in DOMAIN b, NEW n \in Carries(b[i])
        PROVE  /\ ls[n].kind = kind <=> b[i].kind = kind
               /\ n \in W <=> b[i].kind = kind
    <3>1. /\ b[i].kind # "state" => n = b[i].own /\ ls[n].kind = b[i].kind
          /\ b[i].kind = "state" => ls[n].kind \in {"status", "ready"}
          /\ n \in DOMAIN ls
      BY <1>1, CarriesOf
    <3>2. ls[n].kind = kind <=> b[i].kind = kind
      BY <3>1
    <3>3. n \in PendingIn(c.outbox)
      BY DEF PendingIn, b
    <3> QED BY <3>1, <3>2, <3>3
  <2> QED BY <2>1
<1>7. \A k \in DOMAIN r : Carries(r[k]) # {}
  <2>1. \A i \in DOMAIN b : Carries(b[i]) # {}
    BY <1>1, CarriesOf
  <2>2. Leased(c) => r[1] = front /\ Carries(front) = Carries(b[1]) /\ 1 \in DOMAIN b
    BY <1>1, <1>3, <1>4
  <2>3. ASSUME NEW k \in DOMAIN r PROVE Carries(r[k]) # {}
    <3>1. CASE k = 1 /\ Leased(c)
      BY <2>1, <2>2, <3>1
    <3>2. CASE ~(k = 1 /\ Leased(c))
      <4>1. PICK i \in DOMAIN b : r[k] = b[i]
        BY <1>4, <3>2
      <4> QED BY <2>1, <4>1
    <3> QED BY <3>1, <3>2
  <2> QED BY <2>3
<1>8. Marked(c2, wd \cup W)
  <2>1. SUFFICES ASSUME NEW k \in DOMAIN r
                 PROVE  /\ r[k].cancelled => k = 1 /\ Leased(c)
                                              /\ {r[k].own, r[k].status} \ {0} \subseteq wd \cup W
                        /\ Carries(r[k]) \cap (wd \cup W) # {} => r[k].cancelled
    BY <1>5 DEF Marked
  <2>2. CASE k = 1 /\ Leased(c)
    <3>1. b[1].kind = kind => {b[1].own, b[1].status} \ {0} \subseteq W
      <4>1. ASSUME b[1].kind = kind PROVE b[1].own \in Carries(b[1]) /\ b[1].status = 0
        <5>1. /\ Carries(b[1]) # {} /\ Genuine(b[1], ls, c.gen)
              /\ \A n \in Carries(b[1]) : n = b[1].own
          BY <1>1, <2>2, <4>1, CarriesOf
        <5> QED BY <4>1, <5>1 DEF Genuine
      <4> QED BY <1>1, <1>6, <2>2, <4>1
    <3>2. r[k] = front
      BY <1>4, <2>2
    <3>3. front.cancelled => {front.own, front.status} \ {0} \subseteq wd \cup W
      BY <1>1, <1>3, <2>2, <3>1
    <3>4. Carries(front) \cap (wd \cup W) # {} => front.cancelled
      BY <1>1, <1>3, <1>6, <2>2
    <3> QED BY <2>2, <3>2, <3>3, <3>4
  <2>3. CASE ~(k = 1 /\ Leased(c))
    <3>1. PICK i \in DOMAIN b : r[k] = b[i] /\ b[i].kind # kind /\ (Leased(c) => i > 1)
      BY <1>4, <2>3
    <3>2. ~b[i].cancelled
      BY <1>1, <3>1
    <3>3. Carries(b[i]) \cap (wd \cup W) = {}
      BY <1>1, <1>6, <3>1, <3>2
    <3> QED BY <3>1, <3>2, <3>3
  <2> QED BY <2>2, <2>3
<1>9. \A n \in PendingIn(b) : n \in PendingIn(r) \cup (wd \cup W)
  <2>1. ASSUME NEW i \in DOMAIN b, NEW n \in Carries(b[i]) PROVE n \in PendingIn(r) \cup W
    <3>1. CASE b[i].kind = kind
      BY <1>6, <3>1
    <3>2. CASE b[i].kind # kind /\ (i > 1 \/ ~Leased(c))
      <4>1. PICK k \in DOMAIN r : r[k] = b[i]
        BY <1>4, <3>2
      <4> QED BY <4>1 DEF PendingIn
    <3>3. CASE i = 1 /\ Leased(c)
      <4>1. 1 \in DOMAIN r /\ r[1] = front /\ Carries(front) = Carries(b[1])
        BY <1>3, <1>4, <3>3
      <4> QED BY <3>3, <4>1 DEF PendingIn
    <3>4. i = 1 \/ i > 1
      BY <1>1
    <3> QED BY <3>1, <3>2, <3>3, <3>4
  <2> QED BY <2>1 DEF PendingIn
<1>10. Leased(c2) => c2.outbox # << >>
  BY <1>4, <1>5
<1>11. PICK e : Thins(b, r, e)
  BY <1>4
<1>12. wd \cup W \subseteq {n \in DOMAIN ls : ls[n].kind \in {"request", "intent", "status"}}
  BY <1>1
<1>13. OutboxOK(c2, ls, wd \cup W, wr, F)
  BY <1>5, <1>7, <1>8, <1>9, <1>10, <1>11, <1>12, EditKeeps DEF b
<1>14. PendingIn(r) \subseteq PendingIn(b)
  <2>1. InOrder(b) /\ Before(b, F)
    BY DEF OutboxOK, b
  <2>2. /\ b \in Seq(LineType) /\ r \in Seq(LineType) /\ c.gen \in Nat
        /\ ls \in Seq(QueuedType) /\ \A i \in DOMAIN b : Genuine(b[i], ls, c.gen)
    BY <1>1, <1>4
  <2> QED BY <1>7, <1>11, <2>1, <2>2, ThinsIs, ZenonT(60)
<1>15. Edits(c, c2)
  <2>1. ASSUME NEW line, Leased(c), IsFront(c, line) PROVE IsFront(c2, line)
    <3>1. r # << >> /\ r[1] = front
      BY <1>4, <2>1
    <3>2. /\ front.kind = b[1].kind /\ front.own = b[1].own
          /\ front.status = b[1].status /\ front.ready = b[1].ready
      BY <1>3, <2>1
    <3> QED BY <1>5, <2>1, <3>1, <3>2 DEF IsFront, b
  <2> QED BY <1>5, <1>14, <2>1 DEF Edits, b
<1> QED BY <1>2, <1>13, <1>15

\* Strip takes the status out of a State.
LEMMA StripIs ==
  ASSUME NEW ls \in Seq(QueuedType), NEW gen \in Nat, NEW x, Genuine(x, ls, gen)
  PROVE  /\ Strip(x) \in LineType /\ Shrinks(x, Strip(x))
         /\ x.kind # "state" => Strip(x) = x
         /\ x.kind = "state" => Strip(x).status = 0 /\ ~Strip(x).cancelled
         /\ \A n \in Carries(x) : n \in Carries(Strip(x)) <=> ls[n].kind # "status"
         /\ Carries(Strip(x)) \subseteq Carries(x)
<1>1. x \in LineType
  BY DEF Genuine
<1>2. CASE x.kind # "state"
  <2>1. Strip(x) = x
    BY <1>2 DEF Strip
  <2>2. Shrinks(x, x)
    BY <1>1 DEF Shrinks
  <2>3. \A n \in Carries(x) : ls[n].kind # "status"
    BY <1>2, CarriesOf, KindsAre
  <2> QED BY <1>1, <1>2, <2>1, <2>2, <2>3
<1>3. CASE x.kind = "state"
  <2> DEFINE y == [x EXCEPT !.status = 0, !.cancelled = FALSE]
  <2>1. Strip(x) = y
    BY <1>3 DEF Strip
  <2>2. /\ y \in LineType /\ y.kind = x.kind /\ y.own = x.own /\ y.ready = x.ready
        /\ y.gen = x.gen /\ y.status = 0 /\ ~y.cancelled
    BY <1>1 DEF LineType
  <2> HIDE DEF y
  <2>3. Shrinks(x, y)
    BY <2>2 DEF Shrinks
  <2>4. x.own = 0 /\ (x.status # 0 => ls[x.status].kind = "status")
          /\ (x.ready # 0 => ls[x.ready].kind = "ready")
    BY <1>3 DEF Genuine
  <2>5. Carries(x) = {x.status, x.ready} \ {0} /\ Carries(y) = {x.ready} \ {0}
    BY <1>3, <2>2, <2>4 DEF Carries
  <2>6. \A n \in Carries(x) : n \in Carries(y) <=> ls[n].kind # "status"
    BY <2>4, <2>5
  <2>7. Carries(y) \subseteq Carries(x)
    BY <2>5
  <2> QED BY <1>3, <2>1, <2>2, <2>3, <2>6, <2>7
<1> QED BY <1>2, <1>3

\* A line of the outbox that is not marked stays clean without its status.
LEMMA StripIsClean ==
  ASSUME NEW ls \in Seq(QueuedType), NEW gen \in Nat, NEW x, Genuine(x, ls, gen), NEW wd, NEW W,
         ~x.cancelled, Carries(x) \cap wd = {},
         W \subseteq {n \in DOMAIN ls : ls[n].kind = "status"}
  PROVE  ~Strip(x).cancelled /\ Carries(Strip(x)) \cap (wd \cup W) = {}
<1>1. ~Strip(x).cancelled
  BY StripIs
<1>2. /\ Carries(Strip(x)) \subseteq Carries(x)
      /\ \A n \in Carries(x) : n \in Carries(Strip(x)) <=> ls[n].kind # "status"
  BY StripIs
<1> QED BY <1>1, <1>2

\* Cancelling the participant status: every status is withdrawn.
LEMMA CancelStatusKeeps ==
  ASSUME NEW c, NEW ls, NEW wd, NEW wr, NEW F, OutboxOK(c, ls, wd, wr, F), NEW W,
         W \subseteq {n \in DOMAIN ls : ls[n].kind = "status"},
         \A n \in PendingIn(c.outbox) : ls[n].kind = "status" => n \in W
  PROVE  /\ OutboxOK(CancelStatus(c), ls, wd \cup W, wr, F)
         /\ Edits(c, CancelStatus(c))
<1> DEFINE b == c.outbox
           front == [b[1] EXCEPT !.cancelled = @ \/ b[1].kind = "state"]
           t == Tail(b)
           u == [i \in DOMAIN t |-> Strip(t[i])]
           v == [i \in DOMAIN b |-> Strip(b[i])]
           keepU == {i \in DOMAIN u : Carries(u[i]) # {}}
           keepV == {i \in DOMAIN v : Carries(v[i]) # {}}
           r == IF Leased(c) THEN Fronted(front, Select(u, keepU)) ELSE Select(v, keepV)
           c2 == [c EXCEPT !.outbox = r]
<1>1. /\ c \in CoreType /\ b \in Seq(LineType) /\ c.gen \in Nat /\ c.lease \in Nat
      /\ ls \in Seq(QueuedType) /\ DOMAIN b = 1 .. Len(b) /\ Len(b) \in Nat
      /\ Leased(c) => b # << >> /\ 1 \in DOMAIN b
      /\ \A i \in DOMAIN b :
           /\ Genuine(b[i], ls, c.gen) /\ Shrinks(b[i], b[i])
           /\ b[i].cancelled => i = 1 /\ Leased(c) /\ {b[i].own, b[i].status} \ {0} \subseteq wd
           /\ Carries(b[i]) \cap wd # {} => b[i].cancelled
      /\ wd \subseteq {n \in DOMAIN ls : ls[n].kind \in {"request", "intent", "status"}}
  BY OutboxIs
<1>2. CancelStatus(c) = c2
  <2>1. CASE ~Leased(c)
    BY <2>1 DEF CancelStatus, Stripped
  <2>2. CASE Leased(c)
    <3>1. Head(b) = b[1]
      BY <1>1, <2>2
    <3> QED BY <2>2, <3>1 DEF CancelStatus, Stripped, Fronted
  <2> QED BY <2>1, <2>2
<1>3. ASSUME Leased(c)
      PROVE  /\ front \in LineType /\ Shrinks(b[1], front) /\ Carries(front) = Carries(b[1])
             /\ front.kind = b[1].kind /\ front.own = b[1].own
             /\ front.status = b[1].status /\ front.ready = b[1].ready
             /\ front.cancelled <=> b[1].kind = "state" \/ b[1].cancelled
             /\ t \in Seq(LineType) /\ Len(t) = Len(b) - 1 /\ DOMAIN t = 1 .. Len(t)
             /\ \A i \in 1 .. Len(t) : t[i] = b[i + 1] /\ i + 1 \in DOMAIN b /\ i + 1 > 1
  <2>1. b[1] \in LineType
    BY <1>1, <1>3
  <2>2. /\ front \in LineType
        /\ front.kind = b[1].kind /\ front.own = b[1].own /\ front.gen = b[1].gen
        /\ front.status = b[1].status /\ front.ready = b[1].ready
        /\ front.cancelled <=> b[1].kind = "state" \/ b[1].cancelled
    BY <2>1 DEF LineType
  <2> HIDE DEF front
  <2>3. Shrinks(b[1], front) /\ Carries(front) = Carries(b[1])
    BY <2>2 DEF Shrinks, Carries
  <2>4. /\ t \in Seq(LineType) /\ Len(t) = Len(b) - 1 /\ DOMAIN t = 1 .. Len(t)
        /\ \A i \in 1 .. Len(t) : t[i] = b[i + 1] /\ i + 1 \in DOMAIN b /\ i + 1 > 1
    BY <1>1, <1>3
  <2> QED BY <2>2, <2>3, <2>4
<1> HIDE DEF front, t
<1>4. \A i \in DOMAIN b : Strip(b[i]) \in LineType /\ Shrinks(b[i], Strip(b[i]))
  BY <1>1, StripIs
<1>5. /\ r \in Seq(LineType) /\ (Leased(c) => r # << >> /\ r[1] = front)
      /\ \E e : Thins(b, r, e)
      /\ \A k \in DOMAIN r :
            \/ k = 1 /\ Leased(c)
            \/ \E i \in DOMAIN b : /\ r[k] = Strip(b[i]) /\ Carries(r[k]) # {}
                                   /\ (Leased(c) => i > 1)
      /\ \A i \in DOMAIN b : Carries(Strip(b[i])) # {} /\ (i > 1 \/ ~Leased(c))
            => \E k \in DOMAIN r : r[k] = Strip(b[i])
  <2>1. CASE Leased(c)
    <3>1. u \in Seq(LineType) /\ DOMAIN u = 1 .. Len(t) /\ Len(u) = Len(t)
            /\ \A i \in 1 .. Len(t) : u[i] = Strip(b[i + 1])
      <4>1. \A i \in 1 .. Len(t) : Strip(t[i]) = Strip(b[i + 1]) /\ Strip(t[i]) \in LineType
        BY <1>3, <1>4, <2>1
      <4> QED BY <1>3, <2>1, <4>1
    <3> HIDE DEF u
    <3>2. TailShrinks(b, u)
      <4>1. ASSUME NEW i \in 1 .. Len(u) PROVE Shrinks(b[i + 1], u[i])
        <5>1. i + 1 \in DOMAIN b /\ u[i] = Strip(b[i + 1])
          BY <1>3, <2>1, <3>1
        <5> HIDE DEF b
        <5> QED BY <1>4, <5>1
      <4> QED BY <1>3, <2>1, <3>1, <4>1 DEF TailShrinks
    <3>3. keepU \in SUBSET (1 .. Len(u))
      BY <3>1
    <3> DEFINE q == Fronted(front, Select(u, keepU))
    <3> HIDE DEF keepU
    <3>4. /\ q \in Seq(LineType) /\ q # << >> /\ q[1] = front
          /\ \E e : Thins(b, q, e)
          /\ \A k \in DOMAIN q : k > 1 => \E i \in keepU : q[k] = u[i]
          /\ \A i \in keepU : \E k \in DOMAIN q : k > 1 /\ q[k] = u[i]
      <4>1. b \in Seq(LineType) /\ b # << >> /\ front \in LineType /\ Shrinks(b[1], front)
        BY <1>1, <1>3, <2>1
      <4> HIDE DEF b
      <4> QED BY <3>2, <3>3, <4>1, FrontSelect
    <3> HIDE DEF q
    <3>5. r = q
      BY <2>1 DEF q
    <3>6. ASSUME NEW k \in DOMAIN q, k # 1
          PROVE  \E i \in DOMAIN b : q[k] = Strip(b[i]) /\ Carries(q[k]) # {} /\ i > 1
      <4>1. k > 1
        BY <3>4, <3>6
      <4>2. PICK i \in keepU : q[k] = u[i]
        BY <3>4, <4>1
      <4>3. i \in 1 .. Len(t) /\ Carries(u[i]) # {}
        BY <3>1 DEF keepU
      <4>4. u[i] = Strip(b[i + 1]) /\ i + 1 \in DOMAIN b /\ i + 1 > 1
        BY <1>3, <2>1, <3>1, <4>3
      <4> QED BY <4>2, <4>3, <4>4
    <3>7. ASSUME NEW i \in DOMAIN b, Carries(Strip(b[i])) # {}, i > 1
          PROVE  \E k \in DOMAIN q : q[k] = Strip(b[i])
      <4>1. i - 1 \in 1 .. Len(t) /\ u[i - 1] = Strip(b[i])
        <5>1. i - 1 \in 1 .. Len(t)
          BY <1>1, <1>3, <2>1, <3>7
        <5>2. (i - 1) + 1 = i
          BY <1>1, <3>7
        <5> QED BY <3>1, <5>1, <5>2
      <4>2. i - 1 \in keepU
        BY <3>1, <3>7, <4>1 DEF keepU
      <4> QED BY <3>4, <4>1, <4>2
    <3> HIDE DEF r
    <3> QED BY <2>1, <3>4, <3>5, <3>6, <3>7
  <2>2. CASE ~Leased(c)
    <3>1. v \in Seq(LineType) /\ DOMAIN v = 1 .. Len(b) /\ Len(v) = Len(b)
            /\ \A i \in 1 .. Len(b) : v[i] = Strip(b[i])
      BY <1>1, <1>4
    <3>2. \A i \in 1 .. Len(b) : Shrinks(b[i], v[i])
      BY <1>1, <1>4, <3>1
    <3> HIDE DEF v
    <3>3. keepV \in SUBSET (1 .. Len(b))
      BY <3>1
    <3> DEFINE q == Select(v, keepV)
    <3> HIDE DEF keepV
    <3>4. /\ q \in Seq(LineType)
          /\ \E e : Thins(b, q, e)
          /\ \A k \in DOMAIN q : \E i \in keepV : q[k] = v[i]
          /\ \A i \in keepV : \E k \in DOMAIN q : q[k] = v[i]
      <4>1. b \in Seq(LineType)
        BY <1>1
      <4> HIDE DEF b
      <4> QED BY <3>1, <3>2, <3>3, <4>1, WholeSelect
    <3> HIDE DEF q
    <3>5. r = q
      BY <2>2 DEF q
    <3>6. \A i \in keepV : i \in DOMAIN b /\ v[i] = Strip(b[i]) /\ Carries(v[i]) # {}
      BY <1>1, <3>1 DEF keepV
    <3>7. \A i \in DOMAIN b : Carries(Strip(b[i])) # {} => i \in keepV /\ v[i] = Strip(b[i])
      BY <1>1, <3>1 DEF keepV
    <3> HIDE DEF r, b
    <3> QED BY <2>2, <3>4, <3>5, <3>6, <3>7
  <2> QED BY <2>1, <2>2
<1> HIDE DEF r, b
<1>6. /\ c2 \in CoreType /\ c2.outbox = r /\ c2.gen = c.gen /\ (Leased(c2) <=> Leased(c))
      /\ c2.lease = c.lease /\ c2.active = c.active /\ c2.phase = c.phase
  BY <1>1, <1>5, OutboxReplaced
<1> HIDE DEF c2
<1>7. \A k \in DOMAIN r : Carries(r[k]) # {}
  <2>1. Leased(c) => Carries(b[1]) # {}
    BY <1>1, CarriesOf
  <2>2. Leased(c) => r[1] = front /\ Carries(front) = Carries(b[1])
    BY <1>3, <1>5
  <2> QED BY <1>5, <2>1, <2>2
<1>8. Marked(c2, wd \cup W)
  <2>1. SUFFICES ASSUME NEW k \in DOMAIN r
                 PROVE  /\ r[k].cancelled => k = 1 /\ Leased(c)
                                              /\ {r[k].own, r[k].status} \ {0} \subseteq wd \cup W
                        /\ Carries(r[k]) \cap (wd \cup W) # {} => r[k].cancelled
    BY <1>6 DEF Marked
  <2>2. CASE k = 1 /\ Leased(c)
    <3>0. Genuine(b[1], ls, c.gen) /\ 1 \in DOMAIN b
      BY <1>1, <2>2
    <3>1. b[1].kind = "state" => {b[1].own, b[1].status} \ {0} \subseteq W
      <4>1. ASSUME b[1].kind = "state", b[1].status # 0 PROVE b[1].status \in W
        <5>1. b[1].status \in Carries(b[1]) /\ ls[b[1].status].kind = "status"
          BY <3>0, <4>1 DEF Genuine, Carries
        <5>2. b[1].status \in PendingIn(c.outbox)
          BY <3>0, <5>1 DEF PendingIn, b
        <5> QED BY <5>1, <5>2
      <4>2. b[1].kind = "state" => b[1].own = 0
        BY <3>0 DEF Genuine
      <4> QED BY <4>1, <4>2
    <3>2. r[k] = front
      BY <1>5, <2>2
    <3>3. front.cancelled => {front.own, front.status} \ {0} \subseteq wd \cup W
      BY <1>1, <1>3, <2>2, <3>0, <3>1
    <3>4. \A n \in Carries(b[1]) : n \in W => b[1].kind = "state"
      <4>1. \A n \in Carries(b[1]) : b[1].kind # "state" => ls[n].kind = b[1].kind
        BY <1>1, <3>0, CarriesOf
      <4>2. b[1].kind # "status"
        BY <3>0, KindsAre DEF Genuine
      <4> QED BY <4>1, <4>2
    <3>5. Carries(front) \cap (wd \cup W) # {} => front.cancelled
      BY <1>1, <1>3, <2>2, <3>0, <3>4
    <3> QED BY <2>2, <3>2, <3>3, <3>5
  <2>3. CASE ~(k = 1 /\ Leased(c))
    <3>1. PICK i \in DOMAIN b : r[k] = Strip(b[i]) /\ (Leased(c) => i > 1)
      BY <1>5, <2>3
    <3>2. ~b[i].cancelled
      BY <1>1, <3>1
    <3>3. ~r[k].cancelled /\ Carries(r[k]) \cap (wd \cup W) = {}
      BY <1>1, <3>1, <3>2, StripIsClean
    <3> QED BY <3>3
  <2> QED BY <2>2, <2>3
<1>9. \A n \in PendingIn(b) : n \in PendingIn(r) \cup (wd \cup W)
  <2>1. ASSUME NEW i \in DOMAIN b, NEW n \in Carries(b[i]) PROVE n \in PendingIn(r) \cup W
    <3>1. CASE ls[n].kind = "status"
      <4>1. n \in PendingIn(c.outbox)
        BY DEF PendingIn, b
      <4> QED BY <3>1, <4>1
    <3>2. CASE ls[n].kind # "status" /\ (i > 1 \/ ~Leased(c))
      <4>1. n \in Carries(Strip(b[i]))
        BY <1>1, <3>2, StripIs
      <4>2. PICK k \in DOMAIN r : r[k] = Strip(b[i])
        BY <1>5, <3>2, <4>1
      <4> QED BY <4>1, <4>2 DEF PendingIn
    <3>3. CASE i = 1 /\ Leased(c)
      <4>1. 1 \in DOMAIN r /\ r[1] = front /\ Carries(front) = Carries(b[1])
        BY <1>3, <1>5, <3>3
      <4> QED BY <3>3, <4>1 DEF PendingIn
    <3>4. i = 1 \/ i > 1
      BY <1>1
    <3> QED BY <3>1, <3>2, <3>3, <3>4
  <2> QED BY <2>1 DEF PendingIn
<1>10. Leased(c2) => c2.outbox # << >>
  BY <1>5, <1>6
<1>11. PICK e : Thins(b, r, e)
  BY <1>5
<1>12. wd \cup W \subseteq {n \in DOMAIN ls : ls[n].kind \in {"request", "intent", "status"}}
  BY <1>1
<1>13. OutboxOK(c2, ls, wd \cup W, wr, F)
  BY <1>6, <1>7, <1>8, <1>9, <1>10, <1>11, <1>12, EditKeeps DEF b
<1>14. PendingIn(r) \subseteq PendingIn(b)
  <2>1. InOrder(b) /\ Before(b, F)
    BY DEF OutboxOK, b
  <2>2. /\ b \in Seq(LineType) /\ r \in Seq(LineType) /\ c.gen \in Nat
        /\ ls \in Seq(QueuedType) /\ \A i \in DOMAIN b : Genuine(b[i], ls, c.gen)
    BY <1>1, <1>5
  <2> QED BY <1>7, <1>11, <2>1, <2>2, ThinsIs
<1>15. Edits(c, c2)
  <2>1. ASSUME NEW line, Leased(c), IsFront(c, line) PROVE IsFront(c2, line)
    <3>1. r # << >> /\ r[1] = front
      BY <1>5, <2>1
    <3>2. /\ front.kind = b[1].kind /\ front.own = b[1].own
          /\ front.status = b[1].status /\ front.ready = b[1].ready
      BY <1>3, <2>1
    <3> QED BY <1>6, <2>1, <3>1, <3>2 DEF IsFront, b
  <2> QED BY <1>6, <1>14, <2>1 DEF Edits, b
<1> QED BY <1>2, <1>13, <1>15

\* A new connection keeps the reliable lines.
LEMMA GenerationKeeps ==
  ASSUME NEW c, NEW ls, NEW wd, NEW wr, NEW F, OutboxOK(c, ls, wd, wr, F)
  PROVE  LET c2 == BeginGeneration(c) IN
         /\ OutboxOK(c2, ls, wd, wr, F)
         /\ c2.gen = c.gen + 1 /\ c2.lease = 0 /\ ~Leased(c2) /\ c2.phase = c.phase
<1> DEFINE b == c.outbox
           keep == {i \in DOMAIN b : b[i].kind \notin Scoped \cup {"state"}}
           r == Select(b, keep)
           c1 == [c EXCEPT !.gen = @ + 1, !.active = FALSE, !.lease = 0]
           c2 == [c1 EXCEPT !.outbox = r]
<1>1. /\ c \in CoreType /\ b \in Seq(LineType) /\ c.gen \in Nat /\ c.lease \in Nat
      /\ ls \in Seq(QueuedType) /\ DOMAIN b = 1 .. Len(b) /\ Len(b) \in Nat
      /\ \A i \in DOMAIN b :
           /\ Genuine(b[i], ls, c.gen) /\ Shrinks(b[i], b[i])
           /\ b[i].cancelled => i = 1 /\ Leased(c) /\ {b[i].own, b[i].status} \ {0} \subseteq wd
           /\ Carries(b[i]) \cap wd # {} => b[i].cancelled
      /\ wd \subseteq {n \in DOMAIN ls : ls[n].kind \in {"request", "intent", "status"}}
  BY OutboxIs
<1>2. /\ c1 \in CoreType /\ c1.outbox = b /\ c1.gen = c.gen + 1 /\ c1.lease = 0 /\ ~Leased(c1)
      /\ c1.phase = c.phase
  <2>1. c.gen + 1 \in Nat /\ 0 \in Nat /\ FALSE \in BOOLEAN
    BY <1>1
  <2>2. /\ c1 = [c EXCEPT !.gen = c.gen + 1, !.active = FALSE, !.lease = 0]
        /\ c1 \in CoreType /\ c1.outbox = b /\ c1.gen = c.gen + 1 /\ c1.lease = 0
        /\ c1.phase = c.phase
    BY <1>1, <2>1 DEF CoreType
  <2> QED BY <2>2 DEF Leased
<1>3. BeginGeneration(c) = c2
  <2>1. BeginGeneration(c) = [c1 EXCEPT !.outbox = Retain(c1, FALSE, Scoped \cup {"state"})]
    BY DEF BeginGeneration
  <2> HIDE DEF c1
  <2>2. Retain(c1, FALSE, Scoped \cup {"state"}) = r
    BY <1>2 DEF Retain
  <2> QED BY <2>1, <2>2
<1> HIDE DEF c1
<1>4. /\ r \in Seq(LineType) /\ \E e : Thins(b, r, e)
      /\ \A k \in DOMAIN r : \E i \in keep : r[k] = b[i]
      /\ \A i \in keep : \E k \in DOMAIN r : r[k] = b[i]
  <2>1. keep \in SUBSET (1 .. Len(b)) /\ \A i \in 1 .. Len(b) : Shrinks(b[i], b[i])
    BY <1>1
  <2>2. b \in Seq(LineType)
    BY <1>1
  <2> HIDE DEF b, keep
  <2> QED BY <2>1, <2>2, WholeSelect
<1>5. \A i \in DOMAIN b : i \in keep <=> b[i].kind = "reliable"
  <2>1. \A i \in DOMAIN b : b[i].kind \in OutboxKinds
    BY <1>1 DEF Genuine
  <2>2. "reliable" \notin Scoped \cup {"state"}
    BY KindsAre
  <2> QED BY <2>1, <2>2 DEF OutboxKinds
<1>6. \A i \in keep : i \in DOMAIN b
  OBVIOUS
<1> HIDE DEF keep, r, b
<1>7. /\ c2 \in CoreType /\ c2.outbox = r /\ c2.gen = c.gen + 1 /\ ~Leased(c2) /\ c2.lease = 0
      /\ c2.phase = c.phase
  BY <1>2, <1>4, OutboxReplaced
<1> HIDE DEF c2
<1>8. ASSUME NEW k \in DOMAIN r
      PROVE  /\ Carries(r[k]) # {} /\ r[k].kind = "reliable"
             /\ ~r[k].cancelled /\ Carries(r[k]) \cap wd = {}
  <2>1. PICK i \in DOMAIN b : r[k] = b[i] /\ b[i].kind = "reliable"
    BY <1>4, <1>5, <1>6
  <2>2. /\ Carries(b[i]) # {}
        /\ \A n \in Carries(b[i]) : n = b[i].own /\ n # 0 /\ ls[n].kind = "reliable"
    BY <1>1, <2>1, CarriesOf
  <2>3. Carries(b[i]) \cap wd = {}
    BY <1>1, <2>2
  <2>4. b[i].own \notin wd /\ b[i].own # 0
    BY <2>2, <2>3
  <2>5. ~b[i].cancelled
    BY <1>1, <2>4
  <2> QED BY <2>1, <2>2, <2>3, <2>5
<1>9. Marked(c2, wd)
  BY <1>7, <1>8 DEF Marked
<1>10. \A n \in PendingIn(b) : n \in PendingIn(r) \/ (ls[n].kind # "reliable" /\ ls[n].gen # c2.gen)
  <2>1. ASSUME NEW i \in DOMAIN b, NEW n \in Carries(b[i])
        PROVE  n \in PendingIn(r) \/ (ls[n].kind # "reliable" /\ ls[n].gen # c2.gen)
    <3>1. CASE b[i].kind = "reliable"
      <4>1. PICK k \in DOMAIN r : r[k] = b[i]
        BY <1>4, <1>5, <3>1
      <4> QED BY <4>1 DEF PendingIn
    <3>2. CASE b[i].kind # "reliable"
      <4>1. ls[n].kind # "reliable" /\ ls[n].gen = c.gen
        BY <1>1, <3>2, CarriesOf
      <4> QED BY <1>1, <1>7, <4>1
    <3> QED BY <3>1, <3>2
  <2> QED BY <2>1 DEF PendingIn
<1>11. PICK e : Thins(b, r, e)
  BY <1>4
<1>12. c2.gen > c.gen
  BY <1>1, <1>7
<1>13. OutboxOK(c2, ls, wd, wr, F)
  <2>1. \A i \in DOMAIN c2.outbox :
           Carries(c2.outbox[i]) # {} /\ (c2.gen = c.gen \/ c2.outbox[i].kind = "reliable")
    BY <1>7, <1>8
  <2>2. \A n \in PendingIn(c.outbox) :
            \/ n \in PendingIn(c2.outbox) \cup wr \cup wd
            \/ ls[n].kind # "reliable" /\ ls[n].gen # c2.gen
    BY <1>7, <1>10 DEF b
  <2>3. /\ c2 \in CoreType /\ Thins(c.outbox, c2.outbox, e) /\ ~Leased(c2)
        /\ wd \subseteq {n \in DOMAIN ls : ls[n].kind \in {"request", "intent", "status"}}
    BY <1>1, <1>7, <1>11 DEF b
  <2> QED BY <1>9, <1>12, <2>1, <2>2, <2>3, EditKeeps
<1> QED BY <1>3, <1>7, <1>13

\* Without its front.
LEMMA TailThins ==
  ASSUME NEW b \in Seq(LineType), b # << >>
  PROVE  /\ Tail(b) \in Seq(LineType)
         /\ \E e : Thins(b, Tail(b), e)
         /\ \A k \in DOMAIN Tail(b) : \E i \in DOMAIN b : i > 1 /\ Tail(b)[k] = b[i]
         /\ \A i \in DOMAIN b : i > 1 => \E k \in DOMAIN Tail(b) : Tail(b)[k] = b[i]
<1> DEFINE t == Tail(b)
           e == [k \in 1 .. Len(t) |-> k + 1]
<1>1. /\ t \in Seq(LineType) /\ Len(t) = Len(b) - 1 /\ DOMAIN t = 1 .. Len(t)
      /\ DOMAIN b = 1 .. Len(b) /\ Len(b) \in Nat /\ Len(t) \in Nat
      /\ \A i \in 1 .. Len(t) : t[i] = b[i + 1] /\ i + 1 \in DOMAIN b /\ i + 1 > 1
  OBVIOUS
<1> HIDE DEF t
<1>2. Thins(b, t, e)
  <2>1. e \in [DOMAIN t -> DOMAIN b]
    BY <1>1
  <2>2. \A i, j \in DOMAIN t : i < j => e[i] < e[j]
    BY <1>1
  <2>3. \A i \in DOMAIN t : Shrinks(b[e[i]], t[i])
    <3>1. \A i \in DOMAIN t : b[e[i]] = t[i] /\ t[i] \in LineType
      BY <1>1
    <3> QED BY <3>1 DEF Shrinks
  <2> QED BY <2>1, <2>2, <2>3 DEF Thins
<1>3. \A i \in DOMAIN b : i > 1 => i - 1 \in DOMAIN t /\ t[i - 1] = b[i]
  BY <1>1
<1> HIDE DEF e
<1> QED BY <1>1, <1>2, <1>3 DEF t

\* With another front.
LEMMA FrontThins ==
  ASSUME NEW b \in Seq(LineType), b # << >>, NEW x, Shrinks(b[1], x)
  PROVE  LET r == Fronted(x, Tail(b)) IN
         /\ r \in Seq(LineType) /\ DOMAIN r = DOMAIN b /\ r[1] = x
         /\ \E e : Thins(b, r, e)
         /\ \A k \in DOMAIN r : k > 1 => r[k] = b[k]
<1> DEFINE r == Fronted(x, Tail(b))
           e == [k \in DOMAIN b |-> k]
<1>0. x \in LineType
  BY DEF Shrinks
<1>1. /\ r \in Seq(LineType) /\ Len(r) = Len(b) /\ DOMAIN r = DOMAIN b /\ r[1] = x
      /\ DOMAIN b = 1 .. Len(b) /\ \A k \in DOMAIN r : k > 1 => r[k] = b[k]
  BY <1>0 DEF Fronted
<1> HIDE DEF r
<1>2. Thins(b, r, e)
  <2>1. e \in [DOMAIN r -> DOMAIN b] /\ \A i, j \in DOMAIN r : i < j => e[i] < e[j]
    BY <1>1
  <2>2. ASSUME NEW i \in DOMAIN r PROVE Shrinks(b[e[i]], r[i])
    <3>1. CASE i = 1
      BY <1>1, <3>1
    <3>2. CASE i # 1
      <4>1. r[i] = b[i] /\ r[i] \in LineType /\ e[i] = i
        BY <1>1, <3>2
      <4> HIDE DEF e
      <4> QED BY <4>1 DEF Shrinks
    <3> QED BY <3>1, <3>2
  <2> QED BY <2>1, <2>2 DEF Thins
<1> HIDE DEF e
<1> QED BY <1>1, <1>2 DEF r

LEMMA StrippedOne ==
  ASSUME NEW x, Strip(x) \in LineType
  PROVE  Stripped(<<x>>) = IF Carries(Strip(x)) = {} THEN << >> ELSE <<Strip(x)>>
<1> DEFINE t == [i \in DOMAIN <<x>> |-> Strip(<<x>>[i])]
           keep == {i \in DOMAIN t : Carries(t[i]) # {}}
<1>1. t \in Seq(LineType) /\ Len(t) = 1 /\ t[1] = Strip(x) /\ DOMAIN t = {1} /\ t = <<Strip(x)>>
  OBVIOUS
<1>2. Stripped(<<x>>) = Select(t, keep)
  BY DEF Stripped
<1> HIDE DEF t
<1> DEFINE r == Select(t, keep)
<1>3. r \in Seq(LineType) /\ \E e : Embeds(r, t, keep, e)
  <2>1. keep \subseteq 1 .. Len(t)
    BY <1>1
  <2> HIDE DEF keep
  <2> QED BY <1>1, <2>1, SelectIs
<1>4. PICK e : Embeds(r, t, keep, e)
  BY <1>3
<1>5. CASE Carries(Strip(x)) = {}
  <2>1. keep = {}
    BY <1>1, <1>5
  <2> HIDE DEF r, keep
  <2>2. ~ (1 \in 1 .. Len(r))
    BY <1>4, <2>1 DEF Embeds
  <2>3. r = << >>
    BY <1>3, <2>2
  <2> QED BY <1>2, <1>5, <2>3 DEF r
<1>6. CASE Carries(Strip(x)) # {}
  <2>1. keep = {1}
    BY <1>1, <1>6
  <2> HIDE DEF r, keep
  <2>2. /\ \E i \in 1 .. Len(r) : e[i] = 1
        /\ \A i \in 1 .. Len(r) : e[i] = 1 /\ r[i] = t[1]
        /\ \A i, j \in 1 .. Len(r) : i < j => e[i] < e[j]
    BY <1>4, <2>1 DEF Embeds
  <2>3. Len(r) \in Nat /\ Len(r) >= 1
    BY <1>3, <2>2
  <2>4. ~(Len(r) >= 2)
    <3>1. SUFFICES ASSUME Len(r) >= 2 PROVE FALSE
      OBVIOUS
    <3>2. 1 \in 1 .. Len(r) /\ 2 \in 1 .. Len(r) /\ 1 < 2
      BY <2>3, <3>1
    <3>3. e[1] < e[2] /\ e[1] = 1 /\ e[2] = 1
      BY <2>2, <3>2
    <3> QED BY <3>3
  <2>5. Len(r) = 1 /\ r[1] = Strip(x)
    BY <1>1, <2>2, <2>3, <2>4
  <2>6. r = <<Strip(x)>>
    BY <1>3, <2>5
  <2> QED BY <1>2, <1>6, <2>6 DEF r
<1> QED BY <1>5, <1>6

\* The front was written, and goes.
LEMMA AcknowledgeKeeps ==
  ASSUME NEW c, NEW ls, NEW wd, NEW wr, NEW F, OutboxOK(c, ls, wd, wr, F), Leased(c),
         Carries(c.outbox[1]) \subseteq wr
  PROVE  LET c2 == AcknowledgeFront(c) IN
         /\ OutboxOK(c2, ls, wd, wr, F)
         /\ c2.gen = c.gen /\ c2.lease = 0 /\ ~Leased(c2) /\ c2.phase = c.phase
<1> DEFINE b == c.outbox
           r == Tail(b)
           c2 == AcknowledgeFront(c)
<1>1. /\ c \in CoreType /\ b \in Seq(LineType) /\ c.gen \in Nat /\ c.lease \in Nat /\ b # << >>
      /\ ls \in Seq(QueuedType) /\ DOMAIN b = 1 .. Len(b)
      /\ \A i \in DOMAIN b :
           /\ Genuine(b[i], ls, c.gen)
           /\ b[i].cancelled => i = 1
           /\ Carries(b[i]) \cap wd # {} => b[i].cancelled
      /\ wd \subseteq {n \in DOMAIN ls : ls[n].kind \in {"request", "intent", "status"}}
  BY OutboxIs
<1>2. /\ r \in Seq(LineType) /\ \E e : Thins(b, r, e)
      /\ \A k \in DOMAIN r : \E i \in DOMAIN b : i > 1 /\ r[k] = b[i]
      /\ \A i \in DOMAIN b : i > 1 => \E k \in DOMAIN r : r[k] = b[i]
  BY <1>1, TailThins
<1>3. /\ c2 \in CoreType /\ c2.outbox = r /\ c2.gen = c.gen /\ c2.lease = 0 /\ ~Leased(c2)
      /\ c2.phase = c.phase
  BY <1>1, <1>2 DEF AcknowledgeFront, CoreType, Leased
<1> HIDE DEF c2, r, b
<1>4. ASSUME NEW k \in DOMAIN r
      PROVE  Carries(r[k]) # {} /\ ~r[k].cancelled /\ Carries(r[k]) \cap wd = {}
  <2>1. PICK i \in DOMAIN b : i > 1 /\ r[k] = b[i]
    BY <1>2
  <2>2. Carries(b[i]) # {}
    BY <1>1, CarriesOf
  <2>3. ~b[i].cancelled
    BY <1>1, <2>1
  <2> QED BY <1>1, <2>1, <2>2, <2>3
<1>5. Marked(c2, wd)
  BY <1>3, <1>4 DEF Marked
<1>6. \A n \in PendingIn(b) : n \in PendingIn(r) \cup wr
  <2>1. ASSUME NEW i \in DOMAIN b, NEW n \in Carries(b[i]) PROVE n \in PendingIn(r) \cup wr
    <3>1. CASE i = 1
      BY <3>1 DEF b
    <3>2. CASE i > 1
      <4>1. PICK k \in DOMAIN r : r[k] = b[i]
        BY <1>2, <3>2
      <4> QED BY <4>1 DEF PendingIn
    <3> QED BY <1>1, <3>1, <3>2
  <2> QED BY <2>1 DEF PendingIn
<1>7. PICK e : Thins(b, r, e)
  BY <1>2
<1>8. OutboxOK(c2, ls, wd, wr, F)
  <2>1. \A i \in DOMAIN c2.outbox : Carries(c2.outbox[i]) # {}
    BY <1>3, <1>4
  <2>2. \A n \in PendingIn(c.outbox) : n \in PendingIn(c2.outbox) \cup wr \cup wd
    BY <1>3, <1>6 DEF b
  <2>3. /\ c2 \in CoreType /\ Thins(c.outbox, c2.outbox, e) /\ ~Leased(c2) /\ c2.gen = c.gen
        /\ wd \subseteq {n \in DOMAIN ls : ls[n].kind \in {"request", "intent", "status"}}
    BY <1>1, <1>3, <1>7 DEF b
  <2> QED BY <1>5, <2>1, <2>2, <2>3, EditKeeps
<1> QED BY <1>3, <1>8 DEF c2

\* The delivery of the front failed: what was cancelled of it goes.
LEMMA ReleaseKeeps ==
  ASSUME NEW c, NEW ls, NEW wd, NEW wr, NEW F, OutboxOK(c, ls, wd, wr, F), Leased(c)
  PROVE  LET c2 == ReleaseFront(c, c.lease) IN
         /\ OutboxOK(c2, ls, wd, wr, F)
         /\ c2.gen = c.gen /\ c2.lease = 0 /\ ~Leased(c2) /\ c2.phase = c.phase
<1> DEFINE b == c.outbox
           r == IF ~b[1].cancelled THEN b
                ELSE IF b[1].kind = "state" /\ Carries(Strip(b[1])) # {}
                     THEN Fronted(Strip(b[1]), Tail(b))
                     ELSE Tail(b)
           c2 == ReleaseFront(c, c.lease)
<1>1. /\ c \in CoreType /\ b \in Seq(LineType) /\ c.gen \in Nat /\ c.lease \in Nat /\ b # << >>
      /\ ls \in Seq(QueuedType) /\ DOMAIN b = 1 .. Len(b) /\ 1 \in DOMAIN b
      /\ \A i \in DOMAIN b :
           /\ Genuine(b[i], ls, c.gen) /\ Shrinks(b[i], b[i])
           /\ b[i].cancelled => i = 1 /\ {b[i].own, b[i].status} \ {0} \subseteq wd
           /\ Carries(b[i]) \cap wd # {} => b[i].cancelled
      /\ wd \subseteq {n \in DOMAIN ls : ls[n].kind \in {"request", "intent", "status"}}
  BY OutboxIs
<1>2. /\ Strip(b[1]) \in LineType /\ Shrinks(b[1], Strip(b[1]))
      /\ b[1].kind = "state" => ~Strip(b[1]).cancelled
      /\ \A n \in Carries(b[1]) : n \in Carries(Strip(b[1])) <=> ls[n].kind # "status"
      /\ Carries(Strip(b[1])) \subseteq Carries(b[1])
  BY <1>1, StripIs
<1>3. c2 = [c EXCEPT !.lease = 0, !.outbox = r]
  <2>1. Head(b) = b[1]
    BY <1>1
  <2>2. Stripped(<<b[1]>>) \o Tail(b) =
           IF Carries(Strip(b[1])) # {} THEN Fronted(Strip(b[1]), Tail(b)) ELSE Tail(b)
    <3>1. Tail(b) \in Seq(LineType)
      BY <1>1
    <3>2. << >> \o Tail(b) = Tail(b)
      BY <3>1
    <3> QED BY <1>2, <3>2, StrippedOne DEF Fronted
  <2>3. c2 = [c EXCEPT !.lease = 0,
                       !.outbox = IF ~b[1].cancelled THEN b
                                  ELSE IF b[1].kind = "state" THEN Stripped(<<b[1]>>) \o Tail(b)
                                  ELSE Tail(b)]
    BY <2>1 DEF ReleaseFront
  <2> HIDE DEF c2
  <2> QED BY <2>2, <2>3
<1>4. /\ r \in Seq(LineType) /\ \E e : Thins(b, r, e)
      /\ \A k \in DOMAIN r : \/ \E i \in DOMAIN b : r[k] = b[i] /\ (i > 1 \/ ~b[1].cancelled)
                             \/ /\ r[k] = Strip(b[1]) /\ Carries(Strip(b[1])) # {}
                                /\ b[1].kind = "state"
      /\ \A i \in DOMAIN b : i > 1 \/ ~b[1].cancelled => \E k \in DOMAIN r : r[k] = b[i]
      /\ b[1].cancelled /\ b[1].kind = "state" /\ Carries(Strip(b[1])) # {} =>
           \E k \in DOMAIN r : r[k] = Strip(b[1])
  <2>1. CASE ~b[1].cancelled
    <3>1. r = b
      BY <2>1
    <3>2. Thins(b, b, [i \in DOMAIN b |-> i])
      BY <1>1 DEF Thins
    <3> HIDE DEF r, b
    <3> QED BY <1>1, <2>1, <3>1, <3>2
  <2>2. CASE b[1].cancelled /\ ~(b[1].kind = "state" /\ Carries(Strip(b[1])) # {})
    <3>1. r = Tail(b)
      BY <2>2
    <3>2. /\ Tail(b) \in Seq(LineType) /\ \E e : Thins(b, Tail(b), e)
          /\ \A k \in DOMAIN Tail(b) : \E i \in DOMAIN b : i > 1 /\ Tail(b)[k] = b[i]
          /\ \A i \in DOMAIN b : i > 1 => \E k \in DOMAIN Tail(b) : Tail(b)[k] = b[i]
      BY <1>1, TailThins
    <3> HIDE DEF r, b
    <3> QED BY <2>2, <3>1, <3>2
  <2>3. CASE b[1].cancelled /\ b[1].kind = "state" /\ Carries(Strip(b[1])) # {}
    <3> DEFINE q == Fronted(Strip(b[1]), Tail(b))
    <3>1. r = q
      BY <2>3
    <3>2. /\ q \in Seq(LineType) /\ DOMAIN q = DOMAIN b /\ q[1] = Strip(b[1])
          /\ \E e : Thins(b, q, e)
          /\ \A k \in DOMAIN q : k > 1 => q[k] = b[k]
      BY <1>1, <1>2, FrontThins
    <3>3. \A k \in DOMAIN b : k = 1 \/ k > 1
      BY <1>1
    <3> HIDE DEF r, b, q
    <3> QED BY <1>1, <2>3, <3>1, <3>2, <3>3
  <2> QED BY <2>1, <2>2, <2>3
<1> HIDE DEF r, b
<1>5. /\ c2 \in CoreType /\ c2.outbox = r /\ c2.gen = c.gen /\ c2.lease = 0 /\ ~Leased(c2)
      /\ c2.phase = c.phase
  <2>1. c \in CoreType /\ r \in Seq(LineType)
    BY <1>1, <1>4
  <2> HIDE DEF c2
  <2> QED BY <1>3, <2>1 DEF CoreType, Leased
<1> HIDE DEF c2
<1>6. ASSUME NEW k \in DOMAIN r
      PROVE  Carries(r[k]) # {} /\ ~r[k].cancelled /\ Carries(r[k]) \cap wd = {}
  <2>1. CASE \E i \in DOMAIN b : r[k] = b[i] /\ (i > 1 \/ ~b[1].cancelled)
    <3>1. PICK i \in DOMAIN b : r[k] = b[i] /\ (i > 1 \/ ~b[1].cancelled)
      BY <2>1
    <3>2. ~b[i].cancelled
      BY <1>1, <3>1
    <3>3. Carries(b[i]) # {}
      BY <1>1, CarriesOf
    <3> QED BY <1>1, <3>1, <3>2, <3>3
  <2>2. CASE r[k] = Strip(b[1]) /\ Carries(Strip(b[1])) # {} /\ b[1].kind = "state"
    <3>1. ASSUME NEW n \in Carries(Strip(b[1])) PROVE n \notin wd
      <4>1. n \in Carries(b[1]) /\ ls[n].kind # "status"
        BY <1>2
      <4>2. ls[n].kind = "ready"
        BY <1>1, <2>2, <4>1, CarriesOf
      <4> QED BY <1>1, <4>2
    <3> QED BY <1>2, <2>2, <3>1
  <2> QED BY <1>4, <2>1, <2>2
<1>7. Marked(c2, wd)
  BY <1>5, <1>6 DEF Marked
<1>8. \A n \in PendingIn(b) : n \in PendingIn(r) \cup wd
  <2>1. ASSUME NEW i \in DOMAIN b, NEW n \in Carries(b[i]) PROVE n \in PendingIn(r) \cup wd
    <3>1. CASE i > 1 \/ ~b[1].cancelled
      <4>1. PICK k \in DOMAIN r : r[k] = b[i]
        BY <1>4, <3>1
      <4> QED BY <4>1 DEF PendingIn
    <3>2. CASE i = 1 /\ b[1].cancelled /\ b[1].kind # "state"
      <4>1. n = b[1].own /\ n # 0
        BY <1>1, <3>2, CarriesOf
      <4> QED BY <1>1, <3>2, <4>1
    <3>3. CASE i = 1 /\ b[1].cancelled /\ b[1].kind = "state"
      <4>1. CASE ls[n].kind = "status"
        <5>1. n = b[1].status /\ n # 0
          BY <1>1, <3>3, <4>1, CarriesOf
        <5> QED BY <1>1, <3>3, <5>1
      <4>2. CASE ls[n].kind # "status"
        <5>1. n \in Carries(Strip(b[1]))
          BY <1>2, <3>3, <4>2
        <5>2. PICK k \in DOMAIN r : r[k] = Strip(b[1])
          BY <1>4, <3>3, <5>1
        <5> QED BY <5>1, <5>2 DEF PendingIn
      <4> QED BY <4>1, <4>2
    <3> QED BY <1>1, <3>1, <3>2, <3>3
  <2> QED BY <2>1 DEF PendingIn
<1>9. PICK e : Thins(b, r, e)
  BY <1>4
<1>10. OutboxOK(c2, ls, wd, wr, F)
  <2>1. \A i \in DOMAIN c2.outbox : Carries(c2.outbox[i]) # {}
    BY <1>5, <1>6
  <2>2. \A n \in PendingIn(c.outbox) : n \in PendingIn(c2.outbox) \cup wr \cup wd
    BY <1>5, <1>8 DEF b
  <2>3. /\ c2 \in CoreType /\ Thins(c.outbox, c2.outbox, e) /\ ~Leased(c2) /\ c2.gen = c.gen
        /\ wd \subseteq {n \in DOMAIN ls : ls[n].kind \in {"request", "intent", "status"}}
    BY <1>1, <1>5, <1>9 DEF b
  <2> QED BY <1>7, <2>1, <2>2, <2>3, EditKeeps
<1> QED BY <1>5, <1>10 DEF c2

\* Recording a line changes nothing about the older ones.
LEMMA RecordedLines ==
  ASSUME NEW ls \in Seq(QueuedType), NEW q \in QueuedType
  PROVE  LET l2 == Append(ls, q)
             N == Len(ls) + 1 IN
         /\ l2 \in Seq(QueuedType) /\ DOMAIN l2 = DOMAIN ls \cup {N} /\ l2[N] = q
         /\ N \notin DOMAIN ls /\ N \in Nat /\ N # 0 /\ Len(l2) = N
         /\ \A n \in DOMAIN ls : l2[n] = ls[n] /\ n < N /\ n \in Nat /\ n # 0
  OBVIOUS

LEMMA GenuineStays ==
  ASSUME NEW ls \in Seq(QueuedType), NEW q \in QueuedType, NEW gen \in Nat, NEW x,
         Genuine(x, ls, gen)
  PROVE  Genuine(x, Append(ls, q), gen)
<1>1. DOMAIN ls \subseteq DOMAIN Append(ls, q) /\ \A n \in DOMAIN ls : Append(ls, q)[n] = ls[n]
  BY RecordedLines
<1>2. \A n \in Carries(x) : n \in DOMAIN ls
  BY CarriesOf
<1> DEFINE l2 == Append(ls, q)
<1> HIDE DEF l2
<1>3. DOMAIN ls \subseteq DOMAIN l2 /\ \A n \in DOMAIN ls : l2[n] = ls[n]
  BY <1>1 DEF l2
<1>4. x.kind # "reliable" => x.gen = gen /\ \A n \in Carries(x) : l2[n].gen = gen
  BY <1>2, <1>3 DEF Genuine
<1>5. Genuine(x, l2, gen)
  BY <1>3, <1>4 DEF Genuine
<1> QED BY <1>5 DEF l2

\* A new line at the tail, or a State at the tail that takes up the new one.
LEMMA PutKeeps ==
  ASSUME NEW c, NEW ls, NEW wd, NEW wr, NEW F, OutboxOK(c, ls, wd, wr, F),
         NEW q \in QueuedType, q.gen = c.gen,
         NEW c2 \in CoreType, c2.lease = c.lease, c2.gen = c.gen,
         NEW p \in Nat \ {0}, DOMAIN c2.outbox = 1 .. p,
         Len(c.outbox) = p \/ Len(c.outbox) = p - 1,
         \A i \in 1 .. p - 1 : c2.outbox[i] = c.outbox[i],
         Genuine(c2.outbox[p], Append(ls, q), c.gen), ~c2.outbox[p].cancelled,
         Len(ls) + 1 \in Carries(c2.outbox[p]),
         \A n \in Carries(c2.outbox[p]) :
            n = Len(ls) + 1 \/ (Len(c.outbox) = p /\ n \in Carries(c.outbox[p])),
         Len(c.outbox) = p =>
            /\ ~(p = 1 /\ Leased(c))
            /\ \A n \in Carries(c.outbox[p]) :
                 \/ n \in Carries(c2.outbox[p]) \cup wd
                 \/ ls[n].kind = "ready" /\ q.kind = "ready"
  PROVE  OutboxOK(c2, Append(ls, q), wd, wr, F)
<1> DEFINE b == c.outbox
           b2 == c2.outbox
           N == Len(ls) + 1
           l2 == Append(ls, q)
<1>1. /\ c \in CoreType /\ b \in Seq(LineType) /\ c.gen \in Nat
      /\ ls \in Seq(QueuedType) /\ DOMAIN b = 1 .. Len(b) /\ Len(b) \in Nat
      /\ \A i \in DOMAIN b :
           /\ Genuine(b[i], ls, c.gen)
           /\ b[i].cancelled => i = 1 /\ Leased(c) /\ {b[i].own, b[i].status} \ {0} \subseteq wd
           /\ Carries(b[i]) \cap wd # {} => b[i].cancelled
      /\ wd \subseteq {n \in DOMAIN ls : ls[n].kind \in {"request", "intent", "status"}}
  BY OutboxIs
<1>2. /\ l2 \in Seq(QueuedType) /\ DOMAIN l2 = DOMAIN ls \cup {N} /\ l2[N] = q
      /\ N \notin DOMAIN ls /\ N \in Nat /\ N # 0
      /\ \A n \in DOMAIN ls : l2[n] = ls[n] /\ n < N /\ n \in Nat /\ n # 0
  BY <1>1, RecordedLines
<1>3. /\ \A n \in DOMAIN ls : ls[n].gen <= c.gen
      /\ InOrder(b) /\ wr \subseteq F /\ F \subseteq DOMAIN ls /\ Before(b, F)
      /\ Accounted(c, ls, wd, wr)
  BY DEF OutboxOK
<1>4. /\ Genuine(b2[p], l2, c.gen) /\ ~b2[p].cancelled /\ N \in Carries(b2[p])
      /\ \A n \in Carries(b2[p]) : n = N \/ (Len(b) = p /\ n \in Carries(b[p]))
      /\ Len(b) = p => ~(p = 1 /\ Leased(c))
      /\ Len(b) = p => \A n \in Carries(b[p]) : \/ n \in Carries(b2[p]) \cup wd
                                                \/ ls[n].kind = "ready" /\ q.kind = "ready"
      /\ \A i \in 1 .. p - 1 : b2[i] = b[i]
      /\ DOMAIN b2 = 1 .. p /\ (Len(b) = p \/ Len(b) = p - 1)
  OBVIOUS
<1>5. \A i \in DOMAIN b : Genuine(b[i], l2, c.gen)
  BY <1>1, GenuineStays
<1>6. \A i \in DOMAIN b : \A n \in Carries(b[i]) : n \in DOMAIN ls
  BY <1>1, CarriesOf, SMTT(40)
<1> HIDE DEF b, b2, N, l2
<1>0. Len(b) \in Nat /\ DOMAIN b = 1 .. Len(b) /\ (Len(b) = p \/ Len(b) = p - 1)
  BY <1>1, <1>4, ZenonT(40)
<1>7. \A i \in 1 .. p : i = p \/ (i \in 1 .. p - 1 /\ i \in DOMAIN b)
  <2>1. CASE Len(b) = p
    BY <1>0, <2>1
  <2>2. CASE Len(b) = p - 1
    BY <1>0, <2>2
  <2> QED BY <1>0, <2>1, <2>2
<1>8. \A i \in DOMAIN b2 : Genuine(b2[i], l2, c2.gen)
  <2>1. ASSUME NEW i \in DOMAIN b2 PROVE Genuine(b2[i], l2, c.gen)
    <3>1. CASE i = p
      BY <1>4, <3>1
    <3>2. CASE i # p
      <4>1. i \in DOMAIN b /\ b2[i] = b[i]
        BY <1>4, <1>7, <3>2
      <4> QED BY <1>5, <4>1
    <3> QED BY <3>1, <3>2
  <2> QED BY <2>1
<1>9. Len(b) = p => p \in DOMAIN b
  BY <1>1
<1>10. InOrder(b2)
  <2>1. SUFFICES ASSUME NEW i \in 1 .. p, NEW j \in 1 .. p, i < j,
                        NEW m \in Carries(b2[i]), NEW n \in Carries(b2[j])
                 PROVE  m < n
    BY <1>4 DEF InOrder
  <2>2. i \in 1 .. p - 1 /\ i \in DOMAIN b /\ b2[i] = b[i]
    BY <1>4, <1>7, <2>1
  <2>3. CASE j # p
    <3>1. j \in DOMAIN b /\ b2[j] = b[j]
      BY <1>4, <1>7, <2>3
    <3> QED BY <1>3, <2>1, <2>2, <3>1 DEF InOrder
  <2>4. CASE j = p /\ n = N
    BY <1>2, <1>6, <2>1, <2>2, <2>4
  <2>5. CASE j = p /\ n # N
    <3>1. p \in DOMAIN b /\ n \in Carries(b[p])
      BY <1>4, <1>9, <2>1, <2>5
    <3> QED BY <1>3, <2>1, <2>2, <2>5, <3>1 DEF InOrder
  <2> QED BY <2>3, <2>4, <2>5
<1>11. Before(b2, F)
  <2>1. SUFFICES ASSUME NEW j \in 1 .. p, j > 1, NEW n \in F, NEW m \in Carries(b2[j])
                 PROVE  n < m
    BY <1>4 DEF Before
  <2>2. CASE j # p
    <3>1. j \in DOMAIN b /\ b2[j] = b[j]
      BY <1>4, <1>7, <2>2
    <3> QED BY <1>3, <2>1, <3>1 DEF Before
  <2>3. CASE j = p /\ m = N
    BY <1>2, <1>3, <2>3
  <2>4. CASE j = p /\ m # N
    <3>1. p \in DOMAIN b /\ m \in Carries(b[p])
      BY <1>4, <1>9, <2>1, <2>4
    <3> QED BY <1>3, <2>1, <2>4, <3>1 DEF Before
  <2> QED BY <2>2, <2>3, <2>4
<1>12. Marked(c2, wd)
  <2>1. Leased(c2) <=> Leased(c)
    BY DEF Leased
  <2>2. SUFFICES ASSUME NEW i \in 1 .. p
                 PROVE  /\ b2[i].cancelled => i = 1 /\ Leased(c)
                                                /\ {b2[i].own, b2[i].status} \ {0} \subseteq wd
                        /\ Carries(b2[i]) \cap wd # {} => b2[i].cancelled
    BY <1>4, <2>1 DEF Marked, b2
  <2>3. CASE i # p
    <3>1. i \in DOMAIN b /\ b2[i] = b[i]
      BY <1>4, <1>7, <2>3
    <3> QED BY <1>1, <3>1
  <2>4. CASE i = p
    <3>1. ASSUME NEW n \in Carries(b2[p]), n \in wd PROVE FALSE
      <4>1. n # N
        BY <1>1, <1>2, <3>1
      <4>2. p \in DOMAIN b /\ n \in Carries(b[p]) /\ ~(p = 1 /\ Leased(c))
        BY <1>4, <1>9, <3>1, <4>1
      <4> QED BY <1>1, <3>1, <4>2
    <3> QED BY <1>4, <2>4, <3>1
  <2> QED BY <2>3, <2>4
<1>13. ASSUME NEW n \in PendingIn(b)
       PROVE  n \in PendingIn(b2) \cup wd \/ (ls[n].kind = "ready" /\ q.kind = "ready")
  <2>1. PICK i \in DOMAIN b : n \in Carries(b[i])
    BY <1>13, SMTT(40) DEF PendingIn
  <2>2. i \in 1 .. p - 1 \/ (i = p /\ Len(b) = p)
    <3>1. CASE Len(b) = p
      BY <1>0, <3>1
    <3>2. CASE Len(b) = p - 1
      BY <1>0, <3>2
    <3> QED BY <1>0, <3>1, <3>2
  <2>3. CASE i \in 1 .. p - 1
    <3>1. i \in DOMAIN b2 /\ b2[i] = b[i]
      BY <1>4, <2>3
    <3> QED BY <2>1, <3>1 DEF PendingIn
  <2>4. CASE i = p /\ Len(b) = p
    <3>1. p \in DOMAIN b2
      BY <1>4
    <3> QED BY <1>4, <2>1, <2>4, <3>1 DEF PendingIn
  <2> QED BY <2>2, <2>3, <2>4
<1>14. N \in PendingIn(b2)
  <2>1. p \in DOMAIN b2
    BY <1>4
  <2> QED BY <1>4, <2>1 DEF PendingIn
<1>15. Accounted(c2, l2, wd, wr)
  <2>1. SUFFICES ASSUME NEW n \in DOMAIN ls, n \notin PendingIn(b2) \cup wr \cup wd,
                        ls[n].kind = "reliable" \/ ls[n].gen = c.gen
                 PROVE  /\ ls[n].kind = "ready"
                        /\ \E m \in (PendingIn(b2) \cup wr) :
                              m > n /\ m \in DOMAIN l2 /\ l2[m].kind = "ready"
    <3>1. ASSUME NEW n \in DOMAIN l2, n \notin PendingIn(b2) \cup wr \cup wd,
                 l2[n].kind = "reliable" \/ l2[n].gen = c2.gen
          PROVE  /\ l2[n].kind = "ready"
                 /\ \E m \in (PendingIn(b2) \cup wr) :
                       m > n /\ m \in DOMAIN l2 /\ l2[m].kind = "ready"
      <4>1. n \in DOMAIN ls /\ l2[n] = ls[n]
        BY <1>2, <1>14, <3>1
      <4> QED BY <2>1, <3>1, <4>1
    <3> QED BY <3>1 DEF Accounted, b2
  <2>2. CASE n \in PendingIn(b)
    <3>1. ls[n].kind = "ready" /\ q.kind = "ready"
      BY <1>13, <2>1, <2>2
    <3>2. N > n /\ N \in DOMAIN l2 /\ l2[N].kind = "ready"
      BY <1>2, <3>1
    <3> QED BY <1>14, <3>1, <3>2
  <2>3. CASE n \notin PendingIn(b)
    <3>1. /\ ls[n].kind = "ready"
          /\ \E m \in (PendingIn(b) \cup wr) : m > n /\ m \in DOMAIN ls /\ ls[m].kind = "ready"
      BY <1>3, <2>1, <2>3 DEF Accounted, b
    <3>2. PICK m \in PendingIn(b) \cup wr : m > n /\ m \in DOMAIN ls /\ ls[m].kind = "ready"
      BY <3>1
    <3>3. CASE m \in PendingIn(b2) \cup wr
      BY <1>2, <3>1, <3>2, <3>3
    <3>4. CASE m \notin PendingIn(b2) \cup wr
      <4>1. m \notin wd
        BY <1>1, <3>2
      <4>2. q.kind = "ready"
        BY <1>13, <3>2, <3>4, <4>1
      <4>3. N > n /\ N \in DOMAIN l2 /\ l2[N].kind = "ready"
        BY <1>2, <4>2
      <4> QED BY <1>14, <3>1, <4>3
    <3> QED BY <3>3, <3>4
  <2> QED BY <2>2, <2>3
<1>16. \A n \in DOMAIN l2 : l2[n].gen <= c2.gen
  BY <1>1, <1>2, <1>3
<1>17. c2.outbox # << >>
  BY <1>4 DEF b2
<1>18. wd \subseteq {n \in DOMAIN l2 : l2[n].kind \in {"request", "intent", "status"}}
  BY <1>1, <1>2
<1>19. F \subseteq DOMAIN l2 /\ wr \subseteq F
  BY <1>2, <1>3
<1>20. OutboxOK(c2, l2, wd, wr, F)
  BY <1>2, <1>8, <1>10, <1>11, <1>12, <1>15, <1>16, <1>17, <1>18, <1>19 DEF OutboxOK, b2
<1> QED BY <1>20 DEF l2

\* What of the core the invariant of the outbox is about.
LEMMA CoreAlike ==
  ASSUME NEW c, NEW ls, NEW wd, NEW wr, NEW F, OutboxOK(c, ls, wd, wr, F), NEW c2 \in CoreType,
         c2.outbox = c.outbox, c2.gen = c.gen, c2.lease = c.lease
  PROVE  OutboxOK(c2, ls, wd, wr, F)
<1>1. Leased(c2) <=> Leased(c)
  BY DEF Leased
<1>2. Marked(c2, wd)
  BY <1>1 DEF OutboxOK, Marked
<1>3. Accounted(c2, ls, wd, wr)
  BY DEF OutboxOK, Accounted
<1> QED BY <1>1, <1>2, <1>3 DEF OutboxOK

\* What a method that queues a line leaves alone.
Stays(c, c2) ==
  /\ c2.lease = c.lease /\ c2.gen = c.gen /\ c2.phase = c.phase
  /\ \A line : Leased(c) /\ IsFront(c, line) => IsFront(c2, line)

\* A new line at the tail of the outbox.
LEMMA AppendKeeps ==
  ASSUME NEW c, NEW ls, NEW wd, NEW wr, NEW F, OutboxOK(c, ls, wd, wr, F),
         NEW q \in QueuedType, q.gen = c.gen, NEW x \in LineType,
         Genuine(x, Append(ls, q), c.gen), ~x.cancelled, Carries(x) = {Len(ls) + 1}
  PROVE  LET c2 == [c EXCEPT !.outbox = Append(@, x)] IN
         OutboxOK(c2, Append(ls, q), wd, wr, F) /\ Stays(c, c2)
<1> DEFINE b == c.outbox
           b2 == Append(b, x)
           p == Len(b) + 1
           c2 == [c EXCEPT !.outbox = b2]
<1>1. c \in CoreType /\ b \in Seq(LineType) /\ (Leased(c) => b # << >>)
  BY OutboxIs
<1>2. /\ b2 \in Seq(LineType) /\ DOMAIN b2 = 1 .. p /\ b2[p] = x /\ p \in Nat \ {0}
      /\ \A i \in 1 .. p - 1 : b2[i] = b[i]
      /\ Len(b) = p - 1 /\ Len(b) # p /\ b2 # << >> /\ (b # << >> => b2[1] = b[1])
  <2>1. b2 \in Seq(LineType) /\ Len(b2) = p /\ Len(b) \in Nat /\ p = Len(b) + 1
    BY <1>1
  <2>2. DOMAIN b2 = 1 .. p /\ b2[p] = x /\ \A i \in 1 .. Len(b) : b2[i] = b[i]
    BY <1>1, <2>1
  <2>3. b # << >> => 1 \in 1 .. Len(b)
    BY <1>1
  <2> HIDE DEF b2, p
  <2>4. p \in Nat \ {0} /\ Len(b) = p - 1 /\ Len(b) # p
    BY <2>1
  <2> QED BY <2>1, <2>2, <2>3, <2>4
<1> HIDE DEF b2, p
<1>3. /\ c2 \in CoreType /\ c2.outbox = b2 /\ c2.lease = c.lease /\ c2.gen = c.gen
      /\ c2.phase = c.phase
  BY <1>1, <1>2, OutboxReplaced
<1> HIDE DEF c2
<1>4. OutboxOK(c2, Append(ls, q), wd, wr, F)
  <2>1. /\ DOMAIN c2.outbox = 1 .. p /\ c2.outbox[p] = x /\ Len(c.outbox) = p - 1
        /\ Len(c.outbox) # p /\ \A i \in 1 .. p - 1 : c2.outbox[i] = c.outbox[i]
    BY <1>2, <1>3
  <2>2. p \in Nat \ {0}
    BY <1>2
  <2>3. Len(ls) + 1 \in Carries(x) /\ \A n \in Carries(x) : n = Len(ls) + 1
    OBVIOUS
  <2> QED BY <1>3, <2>1, <2>2, <2>3, PutKeeps
<1>5. Stays(c, c2)
  BY <1>1, <1>2, <1>3 DEF Stays, IsFront
<1> QED BY <1>4, <1>5 DEF c2, b2

\* insert_reliable.
LEMMA InsertKeeps ==
  ASSUME NEW c, NEW ls, NEW wd, NEW wr, NEW F, OutboxOK(c, ls, wd, wr, F),
         NEW kind \in {"reliable"} \cup Scoped
  PROVE  LET c2 == Insert(c, kind, Len(ls) + 1)
             l2 == Append(ls, [kind |-> kind, gen |-> c.gen]) IN
         OutboxOK(c2, l2, wd, wr, F) /\ Stays(c, c2)
<1> DEFINE q == [kind |-> kind, gen |-> c.gen]
           N == Len(ls) + 1
           x == [Blank EXCEPT !.kind = kind, !.own = N, !.gen = c.gen]
           l2 == Append(ls, q)
<1>1. c \in CoreType /\ c.gen \in Nat /\ ls \in Seq(QueuedType)
  BY OutboxIs
<1>2. kind \in OutboxKinds /\ kind # "state" /\ kind # "hello"
        /\ kind \in {"reliable", "request", "intent", "causal"}
  BY KindsAre DEF OutboxKinds
<1>3. q \in QueuedType /\ q.gen = c.gen /\ q.kind = kind
  BY <1>1, <1>2 DEF QueuedType
<1> HIDE DEF q
<1>4. /\ l2 \in Seq(QueuedType) /\ N \in DOMAIN l2 /\ l2[N] = q /\ N \in Nat /\ N # 0
  BY <1>1, <1>3, RecordedLines
<1>5. /\ x.kind = kind /\ x.own = N /\ x.status = 0 /\ x.ready = 0 /\ x.gen = c.gen
      /\ ~x.cancelled /\ x \in LineType
  <2>1. N \in Nat /\ c.gen \in Nat /\ kind \in OutboxKinds
    BY <1>1, <1>2, <1>4
  <2> HIDE DEF N
  <2> QED BY <2>1 DEF Blank, LineType
<1>6. Carries(x) = {N}
  BY <1>2, <1>4, <1>5 DEF Carries
<1> HIDE DEF l2, N
<1>7. Genuine(x, l2, c.gen)
  BY <1>2, <1>3, <1>4, <1>5, <1>6 DEF Genuine
<1>8. Insert(c, kind, N) = [c EXCEPT !.outbox = Append(@, x)]
  BY DEF Insert
<1>9. ~x.cancelled
  BY <1>5
<1> HIDE DEF x
<1>10. Genuine(x, Append(ls, q), c.gen) /\ Carries(x) = {Len(ls) + 1} /\ x \in LineType
  BY <1>5, <1>6, <1>7 DEF l2, N
<1>11. LET c2 == [c EXCEPT !.outbox = Append(@, x)] IN
       OutboxOK(c2, Append(ls, q), wd, wr, F) /\ Stays(c, c2)
  BY <1>3, <1>9, <1>10, AppendKeeps
<1>12. OutboxOK(Insert(c, kind, N), l2, wd, wr, F) /\ Stays(c, Insert(c, kind, N))
  BY <1>8, <1>11 DEF l2
<1> QED BY <1>12 DEF l2, N, q
\* What Merge makes of two States.
LEMMA MergeIs ==
  ASSUME NEW x \in LineType, NEW y \in LineType, x.kind = "state", y.kind = "state",
         x.own = 0, y.own = 0
  PROVE  LET m == Merge(x, y) IN
         /\ m \in LineType /\ m.kind = "state" /\ m.own = 0 /\ m.gen = y.gen
         /\ m.cancelled = y.cancelled
         /\ m.status = IF y.status = 0 THEN x.status ELSE y.status
         /\ m.ready = IF y.ready = 0 THEN x.ready ELSE y.ready
<1> DEFINE s == IF y.status = 0 THEN x.status ELSE y.status
           r == IF y.ready = 0 THEN x.ready ELSE y.ready
           m == [y EXCEPT !.status = s, !.ready = r]
<1>1. s \in Nat /\ r \in Nat
  BY DEF LineType
<1>2. Merge(x, y) = m
  BY DEF Merge
<1>3. s = (IF y.status = 0 THEN x.status ELSE y.status) /\ r = (IF y.ready = 0 THEN x.ready ELSE y.ready)
  OBVIOUS
<1> HIDE DEF s, r
<1>4. /\ m \in LineType /\ m.kind = "state" /\ m.own = 0 /\ m.gen = y.gen
      /\ m.cancelled = y.cancelled /\ m.status = s /\ m.ready = r
  BY <1>1 DEF LineType
<1> HIDE DEF m
<1> QED BY <1>2, <1>3, <1>4

\* The State at the tail of the outbox is replaced.
LastPut(c, x) == [c EXCEPT !.outbox[Len(c.outbox)] = x]

LEMMA LastPutIs ==
  ASSUME NEW c \in CoreType, c.outbox # << >>, NEW x \in LineType
  PROVE  /\ LastPut(c, x) \in CoreType
         /\ LastPut(c, x).outbox = [c.outbox EXCEPT ![Len(c.outbox)] = x]
         /\ LastPut(c, x).lease = c.lease /\ LastPut(c, x).gen = c.gen
         /\ LastPut(c, x).phase = c.phase
         /\ Len(c.outbox) \in Nat \ {0}
         /\ DOMAIN LastPut(c, x).outbox = 1 .. Len(c.outbox)
         /\ LastPut(c, x).outbox[Len(c.outbox)] = x
         /\ \A i \in 1 .. Len(c.outbox) - 1 : LastPut(c, x).outbox[i] = c.outbox[i]
<1> DEFINE b == c.outbox
           n == Len(b)
           b2 == [b EXCEPT ![n] = x]
           c2 == [c EXCEPT !.outbox = b2]
<1>1. b \in Seq(LineType) /\ n \in Nat \ {0} /\ DOMAIN b = 1 .. n
  BY DEF CoreType
<1>2. b2 \in Seq(LineType) /\ DOMAIN b2 = 1 .. n /\ b2[n] = x
      /\ \A i \in 1 .. n - 1 : b2[i] = b[i]
  BY <1>1
<1>3. LastPut(c, x) = c2
  BY DEF LastPut
<1> HIDE DEF b2
<1>4. c2 \in CoreType /\ c2.outbox = b2 /\ c2.lease = c.lease /\ c2.gen = c.gen
      /\ c2.phase = c.phase
  BY <1>2, OutboxReplaced
<1> HIDE DEF c2
<1>5. LastPut(c, x).outbox = b2
  BY <1>3, <1>4
<1> QED BY <1>1, <1>2, <1>3, <1>4, <1>5 DEF b2

\* A State is queued, or taken up by the State at the tail.
StatePlaced(c, x) ==
  LET n == Len(c.outbox)
      coalesce == /\ n > 0 /\ ~(n = 1 /\ Leased(c))
                  /\ c.outbox[n].kind = "state" /\ c.outbox[n].gen = c.gen
  IN IF coalesce THEN LastPut(c, Merge(c.outbox[n], x))
     ELSE [c EXCEPT !.outbox = Append(@, x)]

LEMMA PlaceKeeps ==
  ASSUME NEW c, NEW ls, NEW wd, NEW wr, NEW F, OutboxOK(c, ls, wd, wr, F),
         NEW q \in QueuedType, q.gen = c.gen, NEW x \in LineType,
         x.kind = "state", x.own = 0, x.gen = c.gen, ~x.cancelled,
         \/ q.kind = "status" /\ x.status = Len(ls) + 1 /\ x.ready = 0
         \/ q.kind = "ready" /\ x.ready = Len(ls) + 1 /\ x.status = 0,
         q.kind = "status" => \A n \in PendingIn(c.outbox) : ls[n].kind = "status" => n \in wd
  PROVE  OutboxOK(StatePlaced(c, x), Append(ls, q), wd, wr, F) /\ Stays(c, StatePlaced(c, x))
<1> DEFINE b == c.outbox
           n == Len(b)
           N == Len(ls) + 1
           l2 == Append(ls, q)
           coalesce == /\ n > 0 /\ ~(n = 1 /\ Leased(c))
                       /\ b[n].kind = "state" /\ b[n].gen = c.gen
<1>1. /\ c \in CoreType /\ b \in Seq(LineType) /\ c.gen \in Nat
      /\ ls \in Seq(QueuedType) /\ DOMAIN b = 1 .. n /\ n \in Nat
      /\ \A i \in DOMAIN b : Genuine(b[i], ls, c.gen)
      /\ wd \subseteq {k \in DOMAIN ls : ls[k].kind \in {"request", "intent", "status"}}
  BY OutboxIs
<1>2. /\ l2 \in Seq(QueuedType) /\ N \in DOMAIN l2 /\ l2[N] = q /\ N \in Nat /\ N # 0
      /\ \A k \in DOMAIN ls : k \in DOMAIN l2 /\ l2[k] = ls[k]
  BY <1>1, RecordedLines
<1>3. "state" \in OutboxKinds
  BY DEF OutboxKinds
<1>4. Carries(x) = {N}
  BY <1>2 DEF Carries
<1> HIDE DEF N, l2
<1>5. \/ q.kind = "status" /\ x.status = N /\ x.ready = 0
      \/ q.kind = "ready" /\ x.ready = N /\ x.status = 0
  BY DEF N
<1>6. CASE ~coalesce
  <2>1. Genuine(x, l2, c.gen)
    BY <1>2, <1>3, <1>4, <1>5 DEF Genuine
  <2>2. Genuine(x, Append(ls, q), c.gen) /\ Carries(x) = {Len(ls) + 1}
    BY <1>4, <2>1 DEF l2, N
  <2>3. StatePlaced(c, x) = [c EXCEPT !.outbox = Append(@, x)]
    BY <1>6 DEF StatePlaced
  <2>4. LET c2 == [c EXCEPT !.outbox = Append(@, x)] IN
        OutboxOK(c2, Append(ls, q), wd, wr, F) /\ Stays(c, c2)
    BY <2>2, AppendKeeps
  <2> QED BY <2>3, <2>4
<1>7. CASE coalesce
  <2> DEFINE e == b[n]
             m == Merge(e, x)
             c2 == LastPut(c, m)
  <2>1. n \in DOMAIN b /\ b # << >> /\ n \in Nat \ {0}
    BY <1>1, <1>7
  <2>2. /\ Genuine(e, ls, c.gen) /\ e \in LineType /\ e.kind = "state" /\ e.own = 0
        /\ e.status # 0 => e.status \in DOMAIN ls /\ ls[e.status].kind = "status"
        /\ e.ready # 0 => e.ready \in DOMAIN ls /\ ls[e.ready].kind = "ready"
        /\ e.status \in Nat /\ e.ready \in Nat
        /\ ~(n = 1 /\ Leased(c))
        /\ \A k \in Carries(e) : k \in DOMAIN ls /\ ls[k].gen = c.gen
    <3>1. Genuine(e, ls, c.gen) /\ e.kind = "state" /\ ~(n = 1 /\ Leased(c))
      BY <1>1, <1>7, <2>1
    <3> HIDE DEF e
    <3>2. \A k \in Carries(e) : k \in DOMAIN ls
      BY <1>1, <3>1, CarriesOf
    <3> QED BY <3>1, <3>2 DEF Genuine, LineType
  <2>3. Carries(e) = {e.status, e.ready} \ {0}
    BY <2>2 DEF Carries
  <2> HIDE DEF e
  <2>4. /\ m \in LineType /\ m.kind = "state" /\ m.own = 0 /\ m.gen = c.gen /\ ~m.cancelled
        /\ m.status = IF x.status = 0 THEN e.status ELSE x.status
        /\ m.ready = IF x.ready = 0 THEN e.ready ELSE x.ready
    BY <2>2, MergeIs
  <2> HIDE DEF m
  <2>5. Carries(m) = {m.status, m.ready} \ {0}
    BY <2>4 DEF Carries
  <2>6. N \in Carries(m) /\ \A k \in Carries(m) : k = N \/ k \in Carries(e)
    BY <1>2, <1>5, <2>3, <2>4, <2>5
  <2>7. \A k \in Carries(m) : l2[k].gen = c.gen
    BY <1>2, <2>2, <2>6
  <2>8. Genuine(m, l2, c.gen)
    <3>1. m.status # 0 => m.status \in DOMAIN l2 /\ l2[m.status].kind = "status"
      BY <1>2, <1>5, <2>2, <2>4
    <3>2. m.ready # 0 => m.ready \in DOMAIN l2 /\ l2[m.ready].kind = "ready"
      BY <1>2, <1>5, <2>2, <2>4
    <3>3. m.status # 0 \/ m.ready # 0
      BY <1>2, <1>5, <2>4
    <3> QED BY <1>3, <2>4, <2>7, <3>1, <3>2, <3>3 DEF Genuine
  <2>9. ASSUME NEW k \in Carries(e)
        PROVE  k \in Carries(m) \cup wd \/ (ls[k].kind = "ready" /\ q.kind = "ready")
    <3>1. k # 0 /\ (k = e.status \/ k = e.ready)
      BY <2>3
    <3>2. CASE q.kind = "status"
      <4>1. k \in PendingIn(b)
        BY <2>1 DEF PendingIn, e
      <4>2. CASE k = e.status
        BY <2>2, <3>1, <3>2, <4>1, <4>2
      <4>3. CASE k = e.ready
        BY <1>5, <2>4, <2>5, <3>1, <3>2, <4>3
      <4> QED BY <3>1, <4>2, <4>3
    <3>3. CASE q.kind = "ready"
      <4>2. CASE k = e.status
        BY <1>5, <2>4, <2>5, <3>1, <3>3, <4>2
      <4>3. CASE k = e.ready
        BY <2>2, <3>1, <3>3, <4>3
      <4> QED BY <3>1, <4>2, <4>3
    <3> QED BY <1>5, <3>2, <3>3
  <2>10. /\ c2 \in CoreType /\ c2.lease = c.lease /\ c2.gen = c.gen /\ c2.phase = c.phase
         /\ DOMAIN c2.outbox = 1 .. n /\ c2.outbox[n] = m
         /\ \A i \in 1 .. n - 1 : c2.outbox[i] = c.outbox[i]
    BY <1>1, <2>1, <2>4, LastPutIs
  <2> HIDE DEF c2, n
  <2>11. OutboxOK(c2, Append(ls, q), wd, wr, F)
    <3>1. Len(c.outbox) = n
      BY DEF n
    <3>2. Genuine(c2.outbox[n], Append(ls, q), c.gen) /\ ~c2.outbox[n].cancelled
      BY <2>4, <2>8, <2>10 DEF l2
    <3>3. /\ Len(ls) + 1 \in Carries(c2.outbox[n])
          /\ \A k \in Carries(c2.outbox[n]) :
                k = Len(ls) + 1 \/ (Len(c.outbox) = n /\ k \in Carries(c.outbox[n]))
      BY <2>6, <2>10, <3>1 DEF N, e
    <3>4. /\ ~(n = 1 /\ Leased(c))
          /\ \A k \in Carries(c.outbox[n]) :
                 \/ k \in Carries(c2.outbox[n]) \cup wd
                 \/ ls[k].kind = "ready" /\ q.kind = "ready"
      BY <2>2, <2>9, <2>10 DEF e
    <3>5. /\ c2 \in CoreType /\ c2.lease = c.lease /\ c2.gen = c.gen /\ n \in Nat \ {0}
          /\ DOMAIN c2.outbox = 1 .. n /\ \A i \in 1 .. n - 1 : c2.outbox[i] = c.outbox[i]
      BY <2>1, <2>10
    <3> QED BY <3>1, <3>2, <3>3, <3>4, <3>5, PutKeeps
  <2>12. Stays(c, c2)
    <3>1. Leased(c) => n # 1
      BY <2>2
    <3>2. Leased(c) => 1 \in 1 .. n - 1 /\ 1 \in 1 .. n
      BY <2>1, <3>1
    <3>3. Leased(c) => c2.outbox[1] = c.outbox[1]
      BY <2>10, <3>2
    <3>4. DOMAIN c2.outbox # {}
      BY <2>1, <2>10
    <3>5. c2.outbox # << >>
      BY <3>4
    <3> QED BY <2>10, <3>3, <3>5 DEF Stays, IsFront
  <2>13. StatePlaced(c, x) = c2
    BY <1>7 DEF StatePlaced, c2, m, e, n
  <2> QED BY <2>11, <2>12, <2>13
<1> QED BY <1>6, <1>7

-----------------------------------------------------------------------------
(* What is in flight, and what the owner queues. *)

\* More may be in flight: the front, which everything else follows.
LEMMA FlightGrows ==
  ASSUME NEW c, NEW ls, NEW wd, NEW wr, NEW F, OutboxOK(c, ls, wd, wr, F),
         NEW wr2, NEW F2, wr \subseteq wr2, wr2 \subseteq F2,
         \A n \in F2 : n \in F \/ (c.outbox # << >> /\ n \in Carries(c.outbox[1]))
  PROVE  OutboxOK(c, ls, wd, wr2, F2)
<1> DEFINE b == c.outbox
<1>1. /\ c \in CoreType /\ b \in Seq(LineType) /\ c.gen \in Nat
      /\ ls \in Seq(QueuedType) /\ DOMAIN b = 1 .. Len(b)
      /\ \A i \in DOMAIN b : Genuine(b[i], ls, c.gen)
  BY OutboxIs
<1>2. F \subseteq DOMAIN ls /\ Before(b, F) /\ InOrder(b) /\ Accounted(c, ls, wd, wr)
  BY DEF OutboxOK
<1> HIDE DEF b
<1>3. b # << >> => 1 \in DOMAIN b
  BY <1>1
<1>4. ASSUME NEW n \in F2 PROVE n \in F \/ (1 \in DOMAIN b /\ n \in Carries(b[1]))
  BY <1>3, <1>4 DEF b
<1>5. F2 \subseteq DOMAIN ls
  BY <1>1, <1>2, <1>4, CarriesOf
<1>6. Before(b, F2)
  <2>1. SUFFICES ASSUME NEW j \in DOMAIN b, j > 1, NEW n \in F2, NEW m \in Carries(b[j])
                 PROVE  n < m
    BY DEF Before
  <2>2. CASE n \in F
    BY <1>2, <2>1, <2>2 DEF Before
  <2>3. CASE 1 \in DOMAIN b /\ n \in Carries(b[1])
    BY <1>2, <2>1, <2>3 DEF InOrder
  <2> QED BY <1>4, <2>2, <2>3
<1>7. Accounted(c, ls, wd, wr2)
  BY <1>2 DEF Accounted
<1> QED BY <1>5, <1>6, <1>7 DEF OutboxOK, b

\* What of a kind is pending.
LEMMA PendingOfIs ==
  ASSUME NEW c, NEW wd, NEW wr, NEW F, OutboxOK(c, lines, wd, wr, F), NEW kind
  PROVE  /\ PendingOf(c, kind) \subseteq {n \in DOMAIN lines : lines[n].kind = kind}
         /\ \A n \in PendingIn(c.outbox) : lines[n].kind = kind => n \in PendingOf(c, kind)
<1> DEFINE b == c.outbox
<1>1. /\ b \in Seq(LineType) /\ c.gen \in Nat /\ lines \in Seq(QueuedType)
      /\ DOMAIN lines = 1 .. Len(lines)
      /\ \A i \in DOMAIN b : Genuine(b[i], lines, c.gen)
  BY OutboxIs
<1> HIDE DEF b
<1>2. PendingOf(c, kind) \subseteq {n \in DOMAIN lines : lines[n].kind = kind}
  BY <1>1 DEF PendingOf
<1>3. ASSUME NEW n \in PendingIn(b), lines[n].kind = kind PROVE n \in PendingOf(c, kind)
  <2>1. PICK i \in DOMAIN b : n \in Carries(b[i])
    BY <1>3 DEF PendingIn
  <2>2. n \in DOMAIN lines /\ b[i].kind # "hello"
    BY <1>1, <2>1, CarriesOf
  <2>3. n \in {b[i].own, b[i].status, b[i].ready}
    BY <2>1, <2>2 DEF Carries
  <2>4. b[i] \in Range(b)
    BY DEF Range
  <2>5. n \in {b[i].own, b[i].status, b[i].ready} \cap {m \in 1 .. Len(lines) : lines[m].kind = kind}
    BY <1>1, <1>3, <2>2, <2>3
  <2> QED BY <2>4, <2>5 DEF PendingOf, b
<1> QED BY <1>2, <1>3 DEF b

\* An edit stays.
LEMMA EditsStay ==
  ASSUME NEW c, NEW c2, Edits(c, c2)
  PROVE  Stays(c, c2) /\ (Leased(c2) <=> Leased(c)) /\ PendingIn(c2.outbox) \subseteq PendingIn(c.outbox)
BY DEF Edits, Stays, Leased

LEMMA StaysAgain ==
  ASSUME NEW c, NEW c2, NEW c3, Stays(c, c2), Stays(c2, c3)
  PROVE  Stays(c, c3)
BY DEF Stays, Leased

\* push_connection_scoped_state.
LEMMA PushStateKeeps ==
  ASSUME NEW c, NEW wd, NEW wr, NEW F, OutboxOK(c, lines, wd, wr, F),
         NEW q \in QueuedType, q.gen = c.gen, NEW x \in LineType,
         x.kind = "state", x.own = 0, x.gen = c.gen, ~x.cancelled,
         \/ q.kind = "status" /\ x.status = Len(lines) + 1 /\ x.ready = 0
         \/ q.kind = "ready" /\ x.ready = Len(lines) + 1 /\ x.status = 0
  PROVE  /\ OutboxOK(PushState(c, x), Append(lines, q),
                     IF q.kind = "status" THEN wd \cup PendingOf(c, "status") ELSE wd, wr, F)
         /\ Stays(c, PushState(c, x))
<1> DEFINE b == IF x.status # 0 THEN CancelStatus(c) ELSE c
           wd2 == IF q.kind = "status" THEN wd \cup PendingOf(c, "status") ELSE wd
<1>0. Len(lines) + 1 # 0
  <2>1. lines \in Seq(QueuedType)
    BY OutboxIs
  <2> QED BY <2>1
<1>1. PushState(c, x) = StatePlaced(b, x)
  BY DEF PushState, StatePlaced, LastPut
<1>2. /\ OutboxOK(b, lines, wd2, wr, F) /\ Stays(c, b) /\ b.gen = c.gen
      /\ q.kind = "status" => \A n \in PendingIn(b.outbox) : lines[n].kind = "status" => n \in wd2
  <2>1. CASE q.kind = "status"
    <3>1. /\ PendingOf(c, "status") \subseteq {n \in DOMAIN lines : lines[n].kind = "status"}
          /\ \A n \in PendingIn(c.outbox) : lines[n].kind = "status" => n \in PendingOf(c, "status")
      BY PendingOfIs
    <3>2. b = CancelStatus(c) /\ wd2 = wd \cup PendingOf(c, "status")
      BY <1>0, <2>1
    <3> HIDE DEF b, wd2
    <3>3. OutboxOK(b, lines, wd2, wr, F) /\ Edits(c, b)
      BY <3>1, <3>2, CancelStatusKeeps
    <3>4. Stays(c, b) /\ PendingIn(b.outbox) \subseteq PendingIn(c.outbox) /\ b.gen = c.gen
      BY <3>3, EditsStay DEF Edits
    <3> QED BY <3>1, <3>2, <3>3, <3>4
  <2>2. CASE q.kind # "status"
    <3>1. b = c /\ wd2 = wd
      BY <2>2
    <3>2. Stays(c, c)
      BY DEF Stays
    <3> HIDE DEF b, wd2
    <3> QED BY <2>2, <3>1, <3>2
  <2> QED BY <2>1, <2>2
<1>3. wd2 = IF q.kind = "status" THEN wd \cup PendingOf(c, "status") ELSE wd
  OBVIOUS
<1> HIDE DEF b, wd2
<1>4. OutboxOK(StatePlaced(b, x), Append(lines, q), wd2, wr, F) /\ Stays(b, StatePlaced(b, x))
  <2>1. x.gen = b.gen /\ q.gen = b.gen
    BY <1>2
  <2>2. q.kind = "status" => \A n \in PendingIn(b.outbox) : lines[n].kind = "status" => n \in wd2
    BY <1>2
  <2>3. OutboxOK(b, lines, wd2, wr, F)
    BY <1>2
  <2> QED BY <2>1, <2>2, <2>3, PlaceKeeps
<1> QED BY <1>1, <1>2, <1>3, <1>4, StaysAgain

\* A line that was recorded stays what it is.
LEMMA FitStays ==
  ASSUME NEW ls \in Seq(QueuedType), NEW q \in QueuedType, NEW line, NEW worker,
         Carries(line) \subseteq DOMAIN ls, FitsConnection(line, ls, worker)
  PROVE  FitsConnection(line, Append(ls, q), worker)
<1>1. \A n \in DOMAIN ls : Append(ls, q)[n] = ls[n]
  BY RecordedLines
<1> DEFINE l2 == Append(ls, q)
<1> HIDE DEF l2
<1>2. \A n \in Carries(line) : l2[n] = ls[n]
  BY <1>1 DEF l2
<1>3. FitsConnection(line, l2, worker)
  BY <1>2 DEF FitsConnection
<1> QED BY <1>3 DEF l2

\* The owner queues or withdraws: what is staged and in flight stays.
LEMMA QueueStep ==
  ASSUME NEW c, NEW g, NEW s, NEW ws, NEW d, NEW ls, NEW wd, NEW wr,
         Sound(c, g, s, ws, d, ls, wd, wr),
         NEW c2, NEW l2, NEW wd2, Stays(c, c2),
         OutboxOK(c2, l2, wd2, wr, Flying(g, s, ws) \cup wr),
         l2 = ls \/ (Len(ls) + 1 <= MaxLines /\ \E q \in QueuedType : l2 = Append(ls, q))
  PROVE  Sound(c2, g, s, ws, d, l2, wd2, wr)
<1>1. /\ OutboxOK(c, ls, wd, wr, Flying(g, s, ws) \cup wr) /\ Len(ls) <= MaxLines
      /\ StagedOK(c, g) /\ SlotOK(g, s, wr) /\ FramesOK(s, ws, wr) /\ ConnectionOK(c, s, ws, d, ls)
  BY DEF Sound
<1>2. ls \in Seq(QueuedType)
  BY <1>1, OutboxIs
<1>3. /\ Carries(s.line) \subseteq DOMAIN ls
      /\ \A w \in WorkerIds : Carries(ws[w].frame.line) \subseteq DOMAIN ls
  <2>1. Flying(g, s, ws) \subseteq DOMAIN ls
    BY <1>1 DEF OutboxOK
  <2> QED BY <2>1 DEF Flying
<1>4. Len(l2) <= MaxLines
  <2>1. \A q \in QueuedType : Len(Append(ls, q)) = Len(ls) + 1
    BY <1>2
  <2> QED BY <1>1, <2>1
<1>5. \A line, worker : Carries(line) \subseteq DOMAIN ls /\ FitsConnection(line, ls, worker)
                          => FitsConnection(line, l2, worker)
  BY <1>2, FitStays
<1>6. StagedOK(c2, g)
  BY <1>1 DEF StagedOK, Stays, Leased
<1>7. ConnectionOK(c2, s, ws, d, l2)
  <2>1. c2.gen = c.gen /\ c2.phase = c.phase
    BY DEF Stays
  <2>2. \A w \in WorkerIds : FitsConnection(ws[w].frame.line, l2, ws[w])
    BY <1>1, <1>3, <1>5 DEF ConnectionOK
  <2>3. s.queued /\ s.line.kind \notin {"none", "hello"} =>
           d.live # 0 /\ FitsConnection(s.line, l2, ws[d.live])
    BY <1>1, <1>3, <1>5 DEF ConnectionOK
  <2> QED BY <1>1, <2>1, <2>2, <2>3 DEF ConnectionOK
<1> QED BY <1>1, <1>4, <1>6, <1>7 DEF Sound

\* The fields that the outbox does not look at.
LEMMA Activated ==
  ASSUME NEW c \in CoreType, NEW a \in BOOLEAN
  PROVE  LET c2 == [c EXCEPT !.active = a] IN
         /\ c2 \in CoreType /\ c2.outbox = c.outbox /\ c2.gen = c.gen /\ c2.lease = c.lease
         /\ c2.phase = c.phase
BY DEF CoreType

LEMMA QueueReliableKeeps ==
  ASSUME DeliveryInv, QueueReliable
  PROVE  DeliveryInv'
<1> DEFINE q == [kind |-> "reliable", gen |-> core.gen]
           F == Flying(gui, slot, workers) \cup written
           c2 == Insert(core, "reliable", Number)
           l2 == Append(lines, q)
<1>1. Sound(core, gui, slot, workers, driver, lines, withdrawn, written)
      /\ OutboxOK(core, lines, withdrawn, written, F)
  BY DEF DeliveryInv, Sound
<1>2. q \in QueuedType
  <2>1. core.gen \in Nat
    BY <1>1, OutboxIs
  <2> QED BY <2>1 DEF QueuedType
<1> HIDE DEF q
<1>3. OutboxOK(c2, l2, withdrawn, written, F) /\ Stays(core, c2)
  BY <1>1, InsertKeeps DEF Number, q
<1> HIDE DEF c2, l2
<1>4. Len(lines) + 1 <= MaxLines /\ l2 = Append(lines, q)
  BY DEF QueueReliable, Number, l2
<1>5. Sound(c2, gui, slot, workers, driver, l2, withdrawn, written)
  BY <1>1, <1>2, <1>3, <1>4, QueueStep
<1>6. /\ core' = c2 /\ lines' = l2
      /\ UNCHANGED <<gui, slot, workers, driver, withdrawn, written>>
  BY DEF QueueReliable, Recorded, c2, l2, q
<1> QED BY <1>5, <1>6 DEF DeliveryInv

\* A kind is cancelled, and what was pending of it withdrawn.
LEMMA CancelPending ==
  ASSUME NEW c, NEW wd, NEW wr, NEW F, OutboxOK(c, lines, wd, wr, F),
         NEW kind \in {"request", "intent"}, NEW W,
         W \subseteq {n \in DOMAIN lines : lines[n].kind = kind}, PendingOf(c, kind) \subseteq W
  PROVE  OutboxOK(CancelKind(c, kind), lines, wd \cup W, wr, F) /\ Edits(c, CancelKind(c, kind))
<1>1. \A n \in PendingIn(c.outbox) : lines[n].kind = kind => n \in W
  BY PendingOfIs
<1> QED BY <1>1, CancelKindKeeps

LEMMA QueueScopedKeeps ==
  ASSUME DeliveryInv, NEW kind \in Scoped, QueueScoped(kind)
  PROVE  DeliveryInv'
<1> DEFINE q == [kind |-> kind, gen |-> core.gen]
           F == Flying(gui, slot, workers) \cup written
           b == IF kind = "causal" THEN core ELSE CancelKind(core, kind)
           wd2 == IF kind = "causal" THEN withdrawn ELSE withdrawn \cup PendingOf(core, kind)
           c2 == Insert(b, kind, Number)
           c3 == [c2 EXCEPT !.active = TRUE]
           l2 == Append(lines, q)
<1>1. Sound(core, gui, slot, workers, driver, lines, withdrawn, written)
      /\ OutboxOK(core, lines, withdrawn, written, F)
  BY DEF DeliveryInv, Sound
<1>2. q \in QueuedType
  <2>1. core.gen \in Nat
    BY <1>1, OutboxIs
  <2>2. kind \in {"request", "intent", "causal"}
    BY KindsAre
  <2> QED BY <2>1, <2>2 DEF QueuedType
<1> HIDE DEF F
<1>3. OutboxOK(b, lines, wd2, written, F) /\ Stays(core, b) /\ b.gen = core.gen
  <2>1. CASE kind = "causal"
    BY <1>1, <2>1 DEF Stays
  <2>2. CASE kind # "causal"
    <3>1. kind \in {"request", "intent"}
      BY <2>2, KindsAre
    <3>2. PendingOf(core, kind) \subseteq {n \in DOMAIN lines : lines[n].kind = kind}
      BY <1>1, PendingOfIs
    <3>3. /\ OutboxOK(CancelKind(core, kind), lines, withdrawn \cup PendingOf(core, kind), written, F)
          /\ Edits(core, CancelKind(core, kind))
      BY <1>1, <3>1, <3>2, CancelPending
    <3>4. Stays(core, CancelKind(core, kind)) /\ CancelKind(core, kind).gen = core.gen
      BY <3>3, EditsStay DEF Edits
    <3> QED BY <2>2, <3>3, <3>4
  <2> QED BY <2>1, <2>2
<1> HIDE DEF b, wd2
<1>4. OutboxOK(c2, l2, wd2, written, F) /\ Stays(b, c2)
  BY <1>3, InsertKeeps DEF Number
<1> HIDE DEF c2, q
<1>5. OutboxOK(c3, l2, wd2, written, F) /\ Stays(core, c3)
  <2>1. c2 \in CoreType
    BY <1>4, OutboxIs
  <2>2. /\ c3 \in CoreType /\ c3.outbox = c2.outbox /\ c3.gen = c2.gen /\ c3.lease = c2.lease
        /\ c3.phase = c2.phase
    BY <2>1, Activated
  <2> HIDE DEF c3
  <2>3. OutboxOK(c3, l2, wd2, written, F)
    BY <1>4, <2>2, CoreAlike
  <2>4. Stays(c2, c3)
    BY <2>2 DEF Stays, IsFront
  <2> QED BY <1>3, <1>4, <2>3, <2>4, StaysAgain
<1> HIDE DEF c3, l2
<1>6. Len(lines) + 1 <= MaxLines /\ l2 = Append(lines, q)
  BY DEF QueueScoped, Number, l2
<1>7. Sound(c3, gui, slot, workers, driver, l2, wd2, written)
  BY <1>1, <1>2, <1>5, <1>6, QueueStep DEF F
<1>8. /\ core' = c3 /\ lines' = l2 /\ withdrawn' = wd2
      /\ UNCHANGED <<gui, slot, workers, driver, written>>
  BY DEF QueueScoped, Recorded, c3, c2, b, l2, wd2, q
<1> QED BY <1>7, <1>8 DEF DeliveryInv

LEMMA QueueStateKeeps ==
  ASSUME DeliveryInv, NEW piece \in {"status", "ready"}, QueueState(piece)
  PROVE  DeliveryInv'
<1> DEFINE q == [kind |-> piece, gen |-> core.gen]
           F == Flying(gui, slot, workers) \cup written
           blank == [Blank EXCEPT !.kind = "state", !.gen = core.gen]
           x == IF piece = "status" THEN [blank EXCEPT !.status = Number]
                ELSE [blank EXCEPT !.ready = Number]
           wd2 == IF piece = "status" THEN withdrawn \cup PendingOf(core, piece) ELSE withdrawn
           c2 == PushState(core, x)
           l2 == Append(lines, q)
<1>1. Sound(core, gui, slot, workers, driver, lines, withdrawn, written)
      /\ OutboxOK(core, lines, withdrawn, written, F)
  BY DEF DeliveryInv, Sound
<1> HIDE DEF F
<1>2. core.gen \in Nat /\ lines \in Seq(QueuedType)
  BY <1>1, OutboxIs
<1>3. q \in QueuedType /\ q.kind = piece /\ q.gen = core.gen
  BY <1>2 DEF QueuedType
<1> HIDE DEF q
<1>4. Number \in Nat /\ Number # 0 /\ Number = Len(lines) + 1
  BY <1>2 DEF Number
<1>5. /\ x \in LineType /\ x.kind = "state" /\ x.own = 0 /\ x.gen = core.gen /\ ~x.cancelled
      /\ \/ q.kind = "status" /\ x.status = Number /\ x.ready = 0
         \/ q.kind = "ready" /\ x.ready = Number /\ x.status = 0
  <2>1. "state" \in OutboxKinds
    BY DEF OutboxKinds
  <2>2. /\ blank \in LineType /\ blank.kind = "state" /\ blank.own = 0 /\ blank.status = 0
        /\ blank.ready = 0 /\ blank.gen = core.gen /\ ~blank.cancelled
    BY <1>2, <2>1 DEF Blank, LineType
  <2> HIDE DEF blank
  <2>3. CASE piece = "status"
    <3>1. x = [blank EXCEPT !.status = Number]
      BY <2>3
    <3> HIDE DEF x
    <3> QED BY <1>3, <1>4, <2>2, <2>3, <3>1 DEF LineType
  <2>4. CASE piece = "ready"
    <3>1. x = [blank EXCEPT !.ready = Number]
      BY <2>4
    <3> HIDE DEF x
    <3> QED BY <1>3, <1>4, <2>2, <2>4, <3>1 DEF LineType
  <2> QED BY <2>3, <2>4
<1>6. wd2 = IF q.kind = "status" THEN withdrawn \cup PendingOf(core, "status") ELSE withdrawn
  BY <1>3
<1> HIDE DEF x, wd2
<1>7. OutboxOK(c2, l2, wd2, written, F) /\ Stays(core, c2)
  BY <1>1, <1>3, <1>4, <1>5, <1>6, PushStateKeeps
<1> HIDE DEF c2, l2
<1>8. Len(lines) + 1 <= MaxLines /\ l2 = Append(lines, q)
  BY DEF QueueState, Number, l2
<1>9. Sound(c2, gui, slot, workers, driver, l2, wd2, written)
  BY <1>1, <1>3, <1>7, <1>8, QueueStep DEF F
<1>10. /\ core' = c2 /\ lines' = l2 /\ withdrawn' = wd2
       /\ UNCHANGED <<gui, slot, workers, driver, written>>
  BY DEF QueueState, Recorded, c2, x, l2, wd2, q
<1> QED BY <1>9, <1>10 DEF DeliveryInv

LEMMA WithdrawKeeps ==
  ASSUME DeliveryInv, NEW kind \in Superseding \cup {"status"}, Withdraw(kind)
  PROVE  DeliveryInv'
<1> DEFINE F == Flying(gui, slot, workers) \cup written
           c2 == IF kind = "status" THEN CancelStatus(core) ELSE CancelKind(core, kind)
           wd2 == withdrawn \cup PendingOf(core, kind)
<1>1. Sound(core, gui, slot, workers, driver, lines, withdrawn, written)
      /\ OutboxOK(core, lines, withdrawn, written, F)
  BY DEF DeliveryInv, Sound
<1> HIDE DEF F
<1>2. /\ PendingOf(core, kind) \subseteq {n \in DOMAIN lines : lines[n].kind = kind}
      /\ \A n \in PendingIn(core.outbox) : lines[n].kind = kind => n \in PendingOf(core, kind)
  BY <1>1, PendingOfIs
<1>3. OutboxOK(c2, lines, wd2, written, F) /\ Edits(core, c2)
  <2>1. CASE kind = "status"
    BY <1>1, <1>2, <2>1, CancelStatusKeeps
  <2>2. CASE kind # "status"
    <3>1. kind \in {"request", "intent"}
      BY <2>2, DeliveryAssumption
    <3> QED BY <1>1, <1>2, <2>2, <3>1, CancelKindKeeps
  <2> QED BY <2>1, <2>2
<1> HIDE DEF c2, wd2
<1>4. Stays(core, c2)
  BY <1>3, EditsStay
<1>5. Sound(c2, gui, slot, workers, driver, lines, wd2, written)
  BY <1>1, <1>3, <1>4, QueueStep DEF F
<1>6. /\ core' = c2 /\ withdrawn' = wd2
      /\ UNCHANGED <<gui, slot, workers, driver, lines, written>>
  BY DEF Withdraw, c2, wd2
<1> QED BY <1>5, <1>6 DEF DeliveryInv

LEMMA ChangeRoomKeeps ==
  ASSUME DeliveryInv, ChangeRoom
  PROVE  DeliveryInv'
<1> DEFINE q == [kind |-> "reliable", gen |-> core.gen]
           F == Flying(gui, slot, workers) \cup written
           a == CancelKind(core, "request")
           b == CancelKind(a, "intent")
           c == CancelStatus(b)
           W1 == PendingOf(core, "request")
           W2 == PendingOf(core, "intent")
           W3 == PendingOf(core, "status")
           wd2 == withdrawn \cup W1 \cup W2 \cup W3
           c2 == Insert(c, "reliable", Number)
           l2 == Append(lines, q)
<1>1. Sound(core, gui, slot, workers, driver, lines, withdrawn, written)
      /\ OutboxOK(core, lines, withdrawn, written, F)
  BY DEF DeliveryInv, Sound
<1> HIDE DEF F
<1>2. q \in QueuedType
  <2>1. core.gen \in Nat
    BY <1>1, OutboxIs
  <2> QED BY <2>1 DEF QueuedType
<1>3. /\ W1 \subseteq {n \in DOMAIN lines : lines[n].kind = "request"}
      /\ W2 \subseteq {n \in DOMAIN lines : lines[n].kind = "intent"}
      /\ W3 \subseteq {n \in DOMAIN lines : lines[n].kind = "status"}
      /\ \A n \in PendingIn(core.outbox) : /\ lines[n].kind = "request" => n \in W1
                                           /\ lines[n].kind = "intent" => n \in W2
                                           /\ lines[n].kind = "status" => n \in W3
  BY <1>1, PendingOfIs
<1> HIDE DEF W1, W2, W3
<1>4. /\ OutboxOK(a, lines, withdrawn \cup W1, written, F) /\ Stays(core, a)
      /\ PendingIn(a.outbox) \subseteq PendingIn(core.outbox)
  <2>1. OutboxOK(a, lines, withdrawn \cup W1, written, F) /\ Edits(core, a)
    BY <1>1, <1>3, CancelKindKeeps
  <2> QED BY <2>1, EditsStay
<1> HIDE DEF a
<1>5. /\ OutboxOK(b, lines, withdrawn \cup W1 \cup W2, written, F) /\ Stays(a, b)
      /\ PendingIn(b.outbox) \subseteq PendingIn(core.outbox)
  <2>1. OutboxOK(b, lines, (withdrawn \cup W1) \cup W2, written, F) /\ Edits(a, b)
    BY <1>3, <1>4, CancelKindKeeps
  <2> QED BY <1>4, <2>1, EditsStay
<1> HIDE DEF b
<1>6. OutboxOK(c, lines, wd2, written, F) /\ Stays(b, c)
  <2>1. OutboxOK(c, lines, (withdrawn \cup W1 \cup W2) \cup W3, written, F) /\ Edits(b, c)
    BY <1>3, <1>5, CancelStatusKeeps
  <2> QED BY <2>1, EditsStay
<1> HIDE DEF c, wd2
<1>7. Stays(core, c) /\ c.gen = core.gen
  <2>1. Stays(core, b)
    BY <1>4, <1>5, StaysAgain
  <2>2. Stays(core, c)
    BY <1>6, <2>1, StaysAgain
  <2> QED BY <2>2 DEF Stays
<1>8. OutboxOK(c2, l2, wd2, written, F) /\ Stays(core, c2)
  <2>1. OutboxOK(c2, l2, wd2, written, F) /\ Stays(c, c2)
    BY <1>6, <1>7, InsertKeeps DEF Number
  <2> QED BY <1>7, <2>1, StaysAgain
<1> HIDE DEF c2, l2, q
<1>9. Len(lines) + 1 <= MaxLines /\ l2 = Append(lines, q)
  BY DEF ChangeRoom, Number, l2
<1>10. Sound(c2, gui, slot, workers, driver, l2, wd2, written)
  BY <1>1, <1>2, <1>8, <1>9, QueueStep DEF F
<1>11. /\ core' = c2 /\ lines' = l2 /\ withdrawn' = wd2
       /\ UNCHANGED <<gui, slot, workers, driver, written>>
  BY DEF ChangeRoom, Recorded, c2, c, b, a, l2, wd2, q, W1, W2, W3
<1> QED BY <1>10, <1>11 DEF DeliveryInv

LEMMA RefreshHelloKeeps ==
  ASSUME DeliveryInv, RefreshHello
  PROVE  DeliveryInv'
<1>1. Sound(core, gui, slot, workers, driver, lines, withdrawn, written)
  BY DEF DeliveryInv
<1> DEFINE g == [gui EXCEPT !.hello = 2]
<1>2. StagedOK(core, gui) /\ gui \in GuiType
  BY <1>1 DEF Sound, StagedOK
<1>3. g \in GuiType /\ g.staged = gui.staged /\ g.hello = 2
  BY <1>2 DEF GuiType
<1>4. gui.staged.line.kind # "hello"
  BY DEF RefreshHello
<1> HIDE DEF g
<1>5. StagedOK(core, g)
  BY <1>2, <1>3, <1>4 DEF StagedOK
<1>6. SlotOK(g, slot, written)
  BY <1>1, <1>3 DEF Sound, SlotOK
<1>7. Flying(g, slot, workers) = Flying(gui, slot, workers)
  BY <1>3 DEF Flying
<1>8. Sound(core, g, slot, workers, driver, lines, withdrawn, written)
  BY <1>1, <1>5, <1>6, <1>7 DEF Sound
<1>9. gui' = g /\ UNCHANGED <<core, slot, workers, driver, lines, withdrawn, written>>
  BY DEF RefreshHello, g
<1> QED BY <1>8, <1>9 DEF DeliveryInv

-----------------------------------------------------------------------------
(* The owner's deliveries. *)

\* A counter finds a number that is not in use.
LEMMA UnusedIs ==
  ASSUME NEW T, IsFiniteSet(T)
  PROVE  Unused(T) \in Nat /\ Unused(T) # 0 /\ Unused(T) \notin T
<1> DEFINE k == Cardinality(T)
<1>1. k \in Nat
  BY FS_CardinalityType
<1>2. \E n \in 1 .. k + 1 : n \notin T
  <2>1. SUFFICES ASSUME 1 .. k + 1 \subseteq T PROVE FALSE
    OBVIOUS
  <2>2. Cardinality(1 .. k + 1) <= k
    BY <2>1, FS_Subset
  <2>3. Cardinality(1 .. k + 1) = k + 1
    <3>1. 1 \in Int /\ k + 1 \in Int
      BY <1>1
    <3>2. Cardinality(1 .. k + 1) = IF 1 > k + 1 THEN 0 ELSE (k + 1) - 1 + 1
      BY <3>1, FS_Interval
    <3> QED BY <1>1, <3>2
  <2> QED BY <1>1, <2>2, <2>3
<1>3. Unused(T) \in 1 .. k + 1 /\ Unused(T) \notin T
  BY <1>2 DEF Unused
<1> QED BY <1>1, <1>3

\* The values that stand for nothing.
LEMMA EmptyValues ==
  /\ Blank \in LineType /\ Blank.kind = "none" /\ Carries(Blank) = {}
  /\ NoStaged \in [token : Nat, line : LineType, lease : Nat]
  /\ NoStaged.token = 0 /\ NoStaged.line = Blank /\ NoStaged.lease = 0
  /\ NoSlot \in SlotType /\ NoSlot.token = 0 /\ NoSlot.line = Blank
  /\ NoSlot.queued = FALSE /\ NoSlot.result = "none"
  /\ NoFrame \in FrameType /\ NoFrame.token = 0 /\ NoFrame.line = Blank
<1>1. Blank \in LineType /\ Blank.kind = "none" /\ Carries(Blank) = {}
  BY DEF Blank, LineType, Carries
<1>2. /\ NoStaged \in [token : Nat, line : LineType, lease : Nat]
      /\ NoStaged.token = 0 /\ NoStaged.line = Blank /\ NoStaged.lease = 0
  BY <1>1 DEF NoStaged
<1>3. /\ NoSlot \in SlotType /\ NoSlot.token = 0 /\ NoSlot.line = Blank
      /\ NoSlot.queued = FALSE /\ NoSlot.result = "none"
  BY <1>1 DEF NoSlot, SlotType
<1>4. NoFrame \in FrameType /\ NoFrame.token = 0 /\ NoFrame.line = Blank
  BY <1>1 DEF NoFrame, FrameType
<1> QED BY <1>1, <1>2, <1>3, <1>4

LEMMA HelloIs ==
  ASSUME NEW v \in 0 .. 2
  PROVE  Hello(v) \in LineType /\ Hello(v).kind = "hello" /\ Carries(Hello(v)) = {}
<1>1. v \in Nat /\ Hello(v) = [[Blank EXCEPT !.kind = "hello"] EXCEPT !.own = v]
  BY DEF Hello
<1> DEFINE b == [Blank EXCEPT !.kind = "hello"]
<1>2. b \in LineType /\ b.kind = "hello"
  BY DEF Blank, LineType
<1> HIDE DEF b
<1>3. [b EXCEPT !.own = v] \in LineType /\ [b EXCEPT !.own = v].kind = "hello"
  BY <1>1, <1>2 DEF LineType
<1>4. Hello(v) \in LineType /\ Hello(v).kind = "hello"
  BY <1>1, <1>3 DEF b
<1> QED BY <1>4 DEF Carries

\* The front carries what is staged.
LEMMA FrontCarries ==
  ASSUME NEW c, NEW line, IsFront(c, line)
  PROVE  Carries(c.outbox[1]) = Carries(line)
BY DEF IsFront, Carries

\* A delivery that is over: nothing is staged, and nothing leased.
Over(c, g, c2, g2) ==
  /\ g2 \in GuiType /\ g2.staged = NoStaged
  /\ c2.gen = c.gen /\ c2.phase = c.phase /\ ~Leased(c2)

\* acknowledge_outbound_protocol_delivery, with a receipt that is the slot's.
LEMMA AcknowledgeEnds ==
  ASSUME NEW c, NEW g, NEW s, NEW ls, NEW wd, NEW wr, NEW F, OutboxOK(c, ls, wd, wr, F),
         StagedOK(c, g), SlotOK(g, s, wr), s.result = "written"
  PROVE  /\ OutboxOK(Acknowledge(c, g, s.token)[1], ls, wd, wr, F)
         /\ Over(c, g, Acknowledge(c, g, s.token)[1], Acknowledge(c, g, s.token)[2])
         /\ Acknowledge(c, g, s.token) = <<Acknowledge(c, g, s.token)[1], Acknowledge(c, g, s.token)[2]>>
<1> DEFINE A == Acknowledge(c, g, s.token)
<1>1. s # NoSlot /\ s.token # 0 /\ g \in GuiType /\ Carries(s.line) \subseteq wr
  <2>1. s # NoSlot
    BY EmptyValues
  <2> QED BY <2>1 DEF SlotOK, StagedOK
<1>2. CASE g.staged = NoStaged
  <2>1. A = <<c, g>>
    BY <1>1, <1>2, EmptyValues DEF Acknowledge
  <2>2. ~Leased(c)
    BY <1>2 DEF StagedOK
  <2> HIDE DEF A
  <2> QED BY <1>1, <1>2, <2>1, <2>2 DEF Over, A
<1>3. CASE g.staged # NoStaged /\ g.staged.line.kind = "hello"
  <2> DEFINE g2 == [g EXCEPT !.hello = 0, !.staged = NoStaged]
  <2>1. g.staged.token = s.token /\ g.staged.line = Hello(g.hello) /\ ~Leased(c)
    BY <1>3 DEF StagedOK, SlotOK
  <2>2. A = <<c, g2>>
    BY <1>3, <2>1 DEF Acknowledge
  <2>3. g2 \in GuiType /\ g2.staged = NoStaged
    <3> DEFINE h == [g EXCEPT !.hello = 0]
    <3>1. h \in GuiType
      BY <1>1 DEF GuiType
    <3> HIDE DEF h
    <3>2. [h EXCEPT !.staged = NoStaged] \in GuiType /\ [h EXCEPT !.staged = NoStaged].staged = NoStaged
      BY <3>1, EmptyValues DEF GuiType
    <3> QED BY <3>2 DEF h
  <2> HIDE DEF A, g2
  <2> QED BY <2>1, <2>2, <2>3 DEF Over, A
<1>4. CASE g.staged # NoStaged /\ g.staged.line.kind # "hello"
  <2> DEFINE g2 == [g EXCEPT !.staged = NoStaged]
             c2 == AcknowledgeFront(c)
  <2>1. /\ g.staged.token = s.token /\ g.staged.line = s.line /\ c.lease = g.staged.lease
        /\ Leased(c) /\ IsFront(c, g.staged.line)
    BY <1>4 DEF StagedOK, SlotOK, Leased
  <2>2. A = <<c2, g2>>
    BY <1>4, <2>1 DEF Acknowledge
  <2>3. g2 \in GuiType /\ g2.staged = NoStaged
    BY <1>1, EmptyValues DEF GuiType
  <2>4. Carries(c.outbox[1]) \subseteq wr
    BY <1>1, <2>1, FrontCarries
  <2>5. OutboxOK(c2, ls, wd, wr, F) /\ c2.gen = c.gen /\ ~Leased(c2) /\ c2.phase = c.phase
    BY <2>1, <2>4, AcknowledgeKeeps
  <2> HIDE DEF A, g2, c2
  <2> QED BY <2>2, <2>3, <2>5 DEF Over, A
<1> QED BY <1>2, <1>3, <1>4

\* fail_outbound_protocol_delivery, of the slot's delivery.
LEMMA FailEnds ==
  ASSUME NEW c, NEW g, NEW s, NEW ls, NEW wd, NEW wr, NEW F, OutboxOK(c, ls, wd, wr, F),
         StagedOK(c, g), SlotOK(g, s, wr), s # NoSlot
  PROVE  /\ OutboxOK(Fail(c, g, s.token)[1], ls, wd, wr, F)
         /\ Over(c, g, Fail(c, g, s.token)[1], Fail(c, g, s.token)[2])
         /\ Fail(c, g, s.token) = <<Fail(c, g, s.token)[1], Fail(c, g, s.token)[2]>>
<1> DEFINE A == Fail(c, g, s.token)
           g2 == [g EXCEPT !.staged = NoStaged]
<1>1. s.token # 0 /\ g \in GuiType
  BY DEF SlotOK, StagedOK
<1>0. g2 \in GuiType /\ g2.staged = NoStaged
  BY <1>1, EmptyValues DEF GuiType
<1>2. CASE g.staged = NoStaged
  <2>1. A = <<c, g>>
    BY <1>1, <1>2, EmptyValues DEF Fail
  <2>2. ~Leased(c)
    BY <1>2 DEF StagedOK
  <2> HIDE DEF A
  <2> QED BY <1>1, <1>2, <2>1, <2>2 DEF Over, A
<1>3. CASE g.staged # NoStaged /\ g.staged.line.kind = "hello"
  <2>1. g.staged.token = s.token /\ g.staged.lease = 0 /\ ~Leased(c)
    BY <1>3 DEF StagedOK, SlotOK
  <2>2. A = <<c, g2>>
    BY <1>1, <1>3, <2>1 DEF Fail
  <2> HIDE DEF A, g2
  <2> QED BY <1>0, <2>1, <2>2 DEF Over, A
<1>4. CASE g.staged # NoStaged /\ g.staged.line.kind # "hello"
  <2> DEFINE c2 == ReleaseFront(c, c.lease)
  <2>1. g.staged.token = s.token /\ c.lease = g.staged.lease /\ Leased(c) /\ g.staged.lease # 0
    BY <1>4 DEF StagedOK, SlotOK, Leased
  <2>2. A = <<c2, g2>>
    BY <1>1, <1>4, <2>1 DEF Fail
  <2>5. OutboxOK(c2, ls, wd, wr, F) /\ c2.gen = c.gen /\ ~Leased(c2) /\ c2.phase = c.phase
    BY <2>1, ReleaseKeeps
  <2> HIDE DEF A, g2, c2
  <2> QED BY <1>0, <2>2, <2>5 DEF Over, A
<1> QED BY <1>2, <1>3, <1>4

\* The append of a pair.
LEMMA LastOfAppend ==
  ASSUME NEW S, NEW s \in Seq(S), NEW z \in S
  PROVE  Append(s, z)[Len(s) + 1] = z
OBVIOUS

LEMMA PairAppended ==
  ASSUME NEW x, NEW y, NEW z
  PROVE  Append(<<x, y>>, z) = <<x, y, z>>
<1> DEFINE S == {x, y, z}
           s == <<x, y>>
           t == Append(s, z)
           u == <<x, y, z>>
<1>1. s \in Seq(S) /\ z \in S /\ Len(s) = 2 /\ s[1] = x /\ s[2] = y
  OBVIOUS
<1>2. u \in Seq(S) /\ Len(u) = 3 /\ u[1] = x /\ u[2] = y /\ u[3] = z
  OBVIOUS
<1> HIDE DEF s, S
<1>3. t \in Seq(S) /\ Len(t) = 3 /\ t[1] = x /\ t[2] = y /\ t[3] = z
  <2>1. t \in Seq(S) /\ Len(t) = Len(s) + 1
    BY <1>1
  <2>2. \A i \in 1 .. Len(s) : t[i] = s[i]
    BY <1>1
  <2>3. t[Len(s) + 1] = z
    <3>1. s \in Seq(S) /\ z \in S
      BY <1>1
    <3> QED BY <3>1, LastOfAppend
  <2> HIDE DEF t
  <2>4. Len(t) = 3 /\ t[3] = z
    BY <1>1, <2>1, <2>3
  <2>5. 1 \in 1 .. Len(s) /\ 2 \in 1 .. Len(s)
    BY <1>1
  <2> QED BY <1>1, <2>1, <2>2, <2>4, <2>5
<1> HIDE DEF t, u
<1>4. \A i \in 1 .. 3 : t[i] = u[i]
  BY <1>2, <1>3
<1>5. t = [i \in 1 .. 3 |-> t[i]] /\ u = [i \in 1 .. 3 |-> u[i]]
  BY <1>2, <1>3
<1>6. t = u
  BY <1>4, <1>5
<1> QED BY <1>6 DEF t, u, s

\* apply_session_transport_outbound_delivery_results.
LEMMA AppliedIs ==
  ASSUME NEW c, NEW g, NEW s, NEW ls, NEW wd, NEW wr, NEW F, OutboxOK(c, ls, wd, wr, F),
         StagedOK(c, g), SlotOK(g, s, wr)
  PROVE  LET R == ApplyResult(c, g, s) IN
         /\ s.result = "none" => R = <<c, g, s>>
         /\ s.result # "none" => /\ OutboxOK(R[1], ls, wd, wr, F)
                                 /\ Over(c, g, R[1], R[2])
                                 /\ R[3] = NoSlot
<1>1. s.result \in {"none", "written", "failed"}
  BY DEF SlotOK, SlotType
<1>2. CASE s.result = "none"
  BY <1>2 DEF ApplyResult
<1>3. CASE s.result = "written"
  <2> DEFINE A == Acknowledge(c, g, s.token)
  <2>1. OutboxOK(A[1], ls, wd, wr, F) /\ Over(c, g, A[1], A[2]) /\ A = <<A[1], A[2]>>
    BY <1>3, AcknowledgeEnds
  <2>2. ApplyResult(c, g, s) = Append(A, NoSlot)
    BY <1>3 DEF ApplyResult
  <2> HIDE DEF A
  <2>3. Append(<<A[1], A[2]>>, NoSlot) = <<A[1], A[2], NoSlot>>
    BY PairAppended
  <2>4. ApplyResult(c, g, s) = <<A[1], A[2], NoSlot>>
    BY <2>1, <2>2, <2>3, Zenon
  <2> QED BY <1>3, <2>1, <2>4
<1>4. CASE s.result = "failed"
  <2> DEFINE A == Fail(c, g, s.token)
  <2>0. s # NoSlot
    BY <1>4, EmptyValues
  <2>1. OutboxOK(A[1], ls, wd, wr, F) /\ Over(c, g, A[1], A[2]) /\ A = <<A[1], A[2]>>
    BY <2>0, FailEnds
  <2>2. ApplyResult(c, g, s) = Append(A, NoSlot)
    BY <1>4 DEF ApplyResult
  <2> HIDE DEF A
  <2>3. Append(<<A[1], A[2]>>, NoSlot) = <<A[1], A[2], NoSlot>>
    BY PairAppended
  <2>4. ApplyResult(c, g, s) = <<A[1], A[2], NoSlot>>
    BY <2>1, <2>2, <2>3, Zenon
  <2> QED BY <1>4, <2>1, <2>4
<1> QED BY <1>1, <1>2, <1>3, <1>4

\* Nothing is left in the slot: the parts that say so.
LEMMA EmptySlot ==
  ASSUME NEW c, NEW g, NEW s, NEW ws, NEW d, NEW ls, NEW wd, NEW wr,
         Sound(c, g, s, ws, d, ls, wd, wr), NEW c2, NEW g2, Over(c, g, c2, g2)
  PROVE  /\ StagedOK(c2, g2) /\ SlotOK(g2, NoSlot, wr) /\ FramesOK(NoSlot, ws, wr)
         /\ Flying(g2, NoSlot, ws) \subseteq Flying(g, s, ws)
         /\ ConnectionOK(c2, NoSlot, ws, d, ls)
<1>1. FramesOK(s, ws, wr) /\ ConnectionOK(c, s, ws, d, ls)
  BY DEF Sound
<1>2. g2 \in GuiType /\ g2.staged = NoStaged /\ ~Leased(c2)
      /\ c2.gen = c.gen /\ c2.phase = c.phase
  BY DEF Over
<1>3. StagedOK(c2, g2)
  BY <1>2 DEF StagedOK
<1>4. SlotOK(g2, NoSlot, wr)
  BY <1>2, EmptyValues DEF SlotOK
<1>5. FramesOK(NoSlot, ws, wr)
  BY <1>1, EmptyValues DEF FramesOK
<1>6. Flying(g2, NoSlot, ws) \subseteq Flying(g, s, ws)
  BY <1>2, EmptyValues DEF Flying
<1>7. ConnectionOK(c2, NoSlot, ws, d, ls)
  BY <1>1, <1>2, EmptyValues DEF ConnectionOK
<1> QED BY <1>3, <1>4, <1>5, <1>6, <1>7

\* With the result applied everything is as before.
LEMMA AppliedKeeps ==
  ASSUME NEW c, NEW g, NEW s, NEW ws, NEW d, NEW ls, NEW wd, NEW wr,
         Sound(c, g, s, ws, d, ls, wd, wr)
  PROVE  LET R == ApplyResult(c, g, s) IN
         /\ Sound(R[1], R[2], R[3], ws, d, ls, wd, wr)
         /\ R[1].gen = c.gen /\ R[1].phase = c.phase
         /\ R[3].result = "none"
         /\ s.result # "none" => R[2].staged = NoStaged /\ R[3] = NoSlot /\ ~Leased(R[1])
         /\ s.result = "none" => R = <<c, g, s>>
<1> DEFINE R == ApplyResult(c, g, s)
           F == Flying(g, s, ws) \cup wr
           F2 == Flying(R[2], NoSlot, ws) \cup wr
<1>1. /\ OutboxOK(c, ls, wd, wr, F) /\ StagedOK(c, g) /\ SlotOK(g, s, wr) /\ Len(ls) <= MaxLines
  BY DEF Sound
<1>2. CASE s.result = "none"
  <2>1. R = <<c, g, s>>
    BY <1>1, <1>2, AppliedIs
  <2>2. R[1] = c /\ R[2] = g /\ R[3] = s
    BY <2>1
  <2> HIDE DEF R
  <2> QED BY <1>2, <2>1, <2>2 DEF R
<1>3. CASE s.result # "none"
  <2>1. OutboxOK(R[1], ls, wd, wr, F) /\ Over(c, g, R[1], R[2]) /\ R[3] = NoSlot
    <3> HIDE DEF F
    <3> QED BY <1>1, <1>3, AppliedIs
  <2> HIDE DEF R
  <2>2. /\ StagedOK(R[1], R[2]) /\ SlotOK(R[2], NoSlot, wr) /\ FramesOK(NoSlot, ws, wr)
        /\ Flying(R[2], NoSlot, ws) \subseteq Flying(g, s, ws)
        /\ ConnectionOK(R[1], NoSlot, ws, d, ls)
    BY <2>1, EmptySlot
  <2>3. OutboxOK(R[1], ls, wd, wr, F2)
    <3>1. wr \subseteq F2 /\ \A n \in F2 : n \in F
      BY <2>2
    <3> HIDE DEF F, F2
    <3> QED BY <2>1, <3>1, FlightGrows
  <2>4. Sound(R[1], R[2], NoSlot, ws, d, ls, wd, wr)
    BY <1>1, <2>2, <2>3 DEF Sound
  <2> QED BY <1>3, <2>1, <2>4, EmptyValues DEF Over, R
<1> QED BY <1>2, <1>3

\* The slot of a staged delivery.
SlotFor(st) == [token |-> st.token, line |-> st.line, queued |-> TRUE, result |-> "none"]

\* A delivery is staged, and put into the empty slot.
LEMMA StagedKeeps ==
  ASSUME NEW c, NEW g, NEW ws, NEW d, NEW ls, NEW wd, NEW wr,
         Sound(c, g, NoSlot, ws, d, ls, wd, wr), g.staged = NoStaged,
         NEW c2, NEW g2, StagedOK(c2, g2), g2.staged # NoStaged,
         OutboxOK(c2, ls, wd, wr, Flying(g, NoSlot, ws) \cup wr),
         c2.gen = c.gen, c2.phase = "Active" => c.phase = "Active",
         \A w \in WorkerIds : ws[w].frame.token # g2.staged.token,
         \/ g2.staged.line.kind = "hello"
         \/ IsFront(c2, g2.staged.line) /\ d.live # 0 /\ FitsConnection(g2.staged.line, ls, ws[d.live])
  PROVE  Sound(c2, g2, SlotFor(g2.staged), ws, d, ls, wd, wr)
<1> DEFINE st == g2.staged
           s2 == SlotFor(st)
           F == Flying(g, NoSlot, ws) \cup wr
           F2 == Flying(g2, s2, ws) \cup wr
<1>1. /\ Len(ls) <= MaxLines /\ FramesOK(NoSlot, ws, wr) /\ ConnectionOK(c, NoSlot, ws, d, ls)
  BY DEF Sound
<1>2. /\ st \in [token : Nat, line : LineType, lease : Nat] /\ st.token # 0
      /\ s2.token = st.token /\ s2.line = st.line /\ s2.queued = TRUE /\ s2.result = "none"
      /\ s2 \in SlotType
  BY DEF StagedOK, GuiType, SlotFor, SlotType
<1>3. \A w \in WorkerIds : ws[w].frame.token # st.token
  OBVIOUS
<1> HIDE DEF s2
<1>4. SlotOK(g2, s2, wr)
  <2>1. s2 # NoSlot
    BY <1>2, EmptyValues
  <2> QED BY <1>2, <2>1 DEF SlotOK
<1>5. FramesOK(s2, ws, wr)
  BY <1>1, <1>2, <1>3 DEF FramesOK
<1>6. ConnectionOK(c2, s2, ws, d, ls)
  <2>1. c2.gen = c.gen /\ (c2.phase = "Active" => d.live # 0 /\ ws[d.live].greeted)
    BY <1>1 DEF ConnectionOK
  <2>2. s2.queued /\ s2.line.kind \notin {"none", "hello"} =>
           d.live # 0 /\ FitsConnection(s2.line, ls, ws[d.live])
    BY <1>2
  <2> QED BY <1>1, <2>1, <2>2 DEF ConnectionOK
<1>7. OutboxOK(c2, ls, wd, wr, F2)
  <2>1. st.line.kind = "hello" => Carries(st.line) = {}
    BY DEF Carries
  <2>2. IsFront(c2, st.line) => c2.outbox # << >> /\ Carries(c2.outbox[1]) = Carries(st.line)
    BY FrontCarries DEF IsFront
  <2>3. wr \subseteq F2
    OBVIOUS
  <2>4. \A n \in F2 : n \in F \/ n \in Carries(st.line)
    BY <1>2 DEF Flying
  <2>5. \A n \in F2 : n \in F \/ (c2.outbox # << >> /\ n \in Carries(c2.outbox[1]))
    <3> HIDE DEF F, F2
    <3> QED BY <2>1, <2>2, <2>4
  <2>6. OutboxOK(c2, ls, wd, wr, F)
    OBVIOUS
  <2> HIDE DEF F, F2
  <2> QED BY <2>3, <2>5, <2>6, FlightGrows
<1>8. Sound(c2, g2, s2, ws, d, ls, wd, wr)
  BY <1>1, <1>4, <1>5, <1>6, <1>7 DEF Sound
<1> QED BY <1>8 DEF s2

\* The tokens in use are finitely many.
Tokens == {slot.token} \cup {workers[w].frame.token : w \in WorkerIds}

LEMMA TokensFinite ==
  IsFiniteSet(Tokens)
<1> DEFINE T == {workers[w].frame.token : w \in WorkerIds}
           f == [w \in WorkerIds |-> workers[w].frame.token]
<1>1. IsFiniteSet(WorkerIds)
  BY DeliveryAssumption, FS_Interval DEF WorkerIds
<1>2. f \in [WorkerIds -> T] /\ \A t \in T : \E w \in WorkerIds : f[w] = t
  OBVIOUS
<1>3. f \in Surjection(WorkerIds, T)
  BY <1>2 DEF Surjection
<1> HIDE DEF f, T
<1>4. IsFiniteSet(T)
  BY <1>1, <1>3, FS_Surjection
<1>5. IsFiniteSet({slot.token})
  BY FS_Singleton
<1>6. IsFiniteSet({slot.token} \cup T)
  BY <1>4, <1>5, FS_Union
<1> QED BY <1>6 DEF Tokens, T

\* What begin_outbound_protocol_delivery stages: a Hello, or the front, which was not leased.
Fresh(c, line) ==
  Carries(line) = {} \/ (~Leased(c) /\ c.outbox # << >> /\ line = c.outbox[1])

LEMMA BegunIs ==
  ASSUME NEW c, NEW g, NEW s,
         Sound(c, g, s, workers, driver, lines, withdrawn, written), s.result = "none"
  PROVE  LET B == Begin(c, g) IN
         \/ B = <<c, g>>
         \/ /\ s = NoSlot /\ g.staged = NoStaged /\ B[2].staged # NoStaged
            /\ Fresh(c, B[2].staged.line)
            /\ Sound(B[1], B[2], SlotFor(B[2].staged), workers, driver, lines, withdrawn, written)
<1> DEFINE B == Begin(c, g)
           token == Unused(Tokens)
           F == Flying(g, NoSlot, workers) \cup written
<1>1. /\ OutboxOK(c, lines, withdrawn, written, Flying(g, s, workers) \cup written)
      /\ StagedOK(c, g) /\ SlotOK(g, s, written)
      /\ ConnectionOK(c, s, workers, driver, lines)
  BY DEF Sound
<1>2. CASE g.staged # NoStaged
  BY <1>2 DEF Begin
<1>3. CASE g.staged = NoStaged /\ g.hello = 0 /\ (c.phase # "Active" \/ c.outbox = << >>)
  BY <1>3 DEF Begin
<1>4. ASSUME g.staged = NoStaged,
             ~(g.hello = 0 /\ (c.phase # "Active" \/ c.outbox = << >>))
      PROVE  /\ s = NoSlot /\ g.staged = NoStaged /\ B[2].staged # NoStaged
             /\ Fresh(c, B[2].staged.line)
             /\ Sound(B[1], B[2], SlotFor(B[2].staged), workers, driver, lines, withdrawn, written)
  <2>1. s = NoSlot /\ ~Leased(c) /\ g \in GuiType
    BY <1>1, <1>4 DEF SlotOK, StagedOK
  <2>2. Sound(c, g, NoSlot, workers, driver, lines, withdrawn, written)
        /\ OutboxOK(c, lines, withdrawn, written, F)
    BY <1>1, <2>1
  <2>3. token \in Nat /\ token # 0 /\ \A w \in WorkerIds : workers[w].frame.token # token
    <3>1. token \in Nat /\ token # 0 /\ token \notin Tokens
      BY TokensFinite, UnusedIs
    <3> HIDE DEF token
    <3> QED BY <3>1 DEF Tokens
  <2>4. c \in CoreType /\ c.gen \in Nat /\ c.lease = 0
    BY <2>1, <2>2, OutboxIs DEF Leased
  <2>0. token = Unused({slot.token} \cup {workers[w].frame.token : w \in WorkerIds})
    BY DEF Tokens
  <2> HIDE DEF F, token
  <2>5. CASE g.hello # 0
    <3> DEFINE c2 == [c EXCEPT !.phase = IF @ = "Active" THEN @ ELSE "AwaitingHello"]
               st == [token |-> token, line |-> Hello(g.hello), lease |-> 0]
               g2 == [g EXCEPT !.staged = st]
    <3>1. B = <<c2, g2>>
      BY <1>4, <2>0, <2>5 DEF Begin
    <3>2. /\ c2 \in CoreType /\ c2.outbox = c.outbox /\ c2.gen = c.gen /\ c2.lease = c.lease
          /\ c2.phase = "Active" => c.phase = "Active"
      BY <2>4 DEF CoreType
    <3>3. g.hello \in 0 .. 2
      BY <2>1 DEF GuiType
    <3>4. Hello(g.hello) \in LineType /\ Hello(g.hello).kind = "hello" /\ Carries(Hello(g.hello)) = {}
      BY <3>3, HelloIs
    <3>5. /\ st \in [token : Nat, line : LineType, lease : Nat]
          /\ st.token = token /\ st.line = Hello(g.hello) /\ st.lease = 0
      BY <2>3, <3>4
    <3> HIDE DEF st
    <3>6. g2 \in GuiType /\ g2.staged = st /\ g2.hello = g.hello
      BY <2>1, <3>5 DEF GuiType
    <3> HIDE DEF c2, g2, B
    <3>7. st # NoStaged
      BY <2>3, <3>5, EmptyValues
    <3>8. StagedOK(c2, g2)
      BY <2>1, <2>3, <2>5, <3>2, <3>4, <3>5, <3>6 DEF StagedOK, Leased
    <3>9. OutboxOK(c2, lines, withdrawn, written, F)
      BY <2>2, <3>2, CoreAlike
    <3>10. Sound(c2, g2, SlotFor(g2.staged), workers, driver, lines, withdrawn, written)
      <4>1. g2.staged.line.kind = "hello" /\ g2.staged # NoStaged
        BY <3>4, <3>5, <3>6, <3>7
      <4>2. \A w \in WorkerIds : workers[w].frame.token # g2.staged.token
        BY <2>3, <3>5, <3>6
      <4>3. OutboxOK(c2, lines, withdrawn, written, Flying(g, NoSlot, workers) \cup written)
        BY <3>9 DEF F
      <4> QED BY <1>4, <2>2, <3>2, <3>8, <4>1, <4>2, <4>3, StagedKeeps
    <3>11. B[1] = c2 /\ B[2] = g2
      BY <3>1
    <3> QED BY <1>4, <2>1, <3>4, <3>5, <3>6, <3>7, <3>10, <3>11 DEF Fresh
  <2>6. CASE g.hello = 0
    <3> DEFINE lease == Unused({c.lease})
               c2 == [c EXCEPT !.lease = lease]
               st == [token |-> token, line |-> Head(c.outbox), lease |-> lease]
               g2 == [g EXCEPT !.staged = st]
    <3>0. c.phase = "Active" /\ c.outbox # << >>
      BY <1>4, <2>6
    <3>1. B = <<c2, g2>>
      BY <1>4, <2>0, <2>1, <2>6, <3>0 DEF Begin
    <3>a. lease \in Nat /\ lease # 0
      BY UnusedIs, FS_Singleton
    <3> HIDE DEF lease
    <3>2. /\ c2 \in CoreType /\ c2.outbox = c.outbox /\ c2.gen = c.gen /\ c2.lease = lease
          /\ c2.phase = "Active" /\ Leased(c2)
      BY <2>4, <3>0, <3>a DEF CoreType, Leased
    <3>3. Head(c.outbox) = c.outbox[1] /\ 1 \in DOMAIN c.outbox /\ Genuine(c.outbox[1], lines, c.gen)
      <4>1. /\ c.outbox \in Seq(LineType)
            /\ \A i \in DOMAIN c.outbox : Genuine(c.outbox[i], lines, c.gen)
        BY <2>2, OutboxIs
      <4>2. Head(c.outbox) = c.outbox[1] /\ 1 \in DOMAIN c.outbox
        BY <3>0, <4>1
      <4> QED BY <4>1, <4>2
    <3>b. lines \in Seq(QueuedType)
      BY <2>2, OutboxIs
    <3>4. c.outbox[1] \in LineType /\ c.outbox[1].kind # "hello"
      BY <2>4, <3>3, <3>b, CarriesOf
    <3>5. /\ st \in [token : Nat, line : LineType, lease : Nat]
          /\ st.token = token /\ st.line = c.outbox[1] /\ st.lease = lease
      BY <2>3, <3>a, <3>3, <3>4
    <3> HIDE DEF st
    <3>6. g2 \in GuiType /\ g2.staged = st /\ g2.hello = g.hello
      BY <2>1, <3>5 DEF GuiType
    <3> HIDE DEF c2, g2, B
    <3>7. st # NoStaged
      BY <2>3, <3>5, EmptyValues
    <3>c. IsFront(c2, st.line)
      BY <3>0, <3>2, <3>5 DEF IsFront
    <3>8. StagedOK(c2, g2)
      <4>1. g2.staged.line.kind # "hello" /\ g2.staged.token # 0 /\ g2.staged.lease = lease
        BY <2>3, <3>4, <3>5, <3>6
      <4> QED BY <3>a, <3>2, <3>6, <3>7, <3>c, <4>1 DEF StagedOK
    <3>9. OutboxOK(c2, lines, withdrawn, written, F)
      <4>1. /\ lines \in Seq(QueuedType)
            /\ \A i \in DOMAIN c.outbox : c.outbox[i].cancelled => Leased(c)
            /\ \A i \in DOMAIN c.outbox : Carries(c.outbox[i]) \cap withdrawn # {} => c.outbox[i].cancelled
        BY <2>2, OutboxIs
      <4>2. \A i \in DOMAIN c.outbox : ~c.outbox[i].cancelled /\ Carries(c.outbox[i]) \cap withdrawn = {}
        BY <2>1, <4>1
      <4>3. Marked(c2, withdrawn)
        BY <3>2, <4>2 DEF Marked
      <4>4. Accounted(c2, lines, withdrawn, written)
        BY <2>2, <3>2 DEF OutboxOK, Accounted
      <4> QED BY <2>2, <3>0, <3>2, <4>3, <4>4 DEF OutboxOK
    <3>d. driver.live # 0 /\ FitsConnection(st.line, lines, workers[driver.live])
      <4>1. driver.live # 0 /\ workers[driver.live].greeted /\ workers[driver.live].gen = c.gen
        BY <1>1, <3>0 DEF ConnectionOK
      <4>2. \A n \in Carries(st.line) : lines[n].kind = "reliable" \/ lines[n].gen = c.gen
        BY <2>4, <3>3, <3>5, <3>b, CarriesOf
      <4> QED BY <4>1, <4>2 DEF FitsConnection
    <3>10. Sound(c2, g2, SlotFor(g2.staged), workers, driver, lines, withdrawn, written)
      <4>1. /\ IsFront(c2, g2.staged.line) /\ g2.staged # NoStaged
            /\ FitsConnection(g2.staged.line, lines, workers[driver.live])
        BY <3>6, <3>7, <3>c, <3>d
      <4>2. \A w \in WorkerIds : workers[w].frame.token # g2.staged.token
        BY <2>3, <3>5, <3>6
      <4>3. OutboxOK(c2, lines, withdrawn, written, Flying(g, NoSlot, workers) \cup written)
        BY <3>9 DEF F
      <4>4. c2.phase = "Active" => c.phase = "Active"
        BY <3>0
      <4> QED BY <1>4, <2>2, <3>2, <3>8, <3>d, <4>1, <4>2, <4>3, <4>4, StagedKeeps
    <3>11. B[1] = c2 /\ B[2] = g2
      BY <3>1
    <3> QED BY <1>4, <2>1, <3>0, <3>5, <3>6, <3>7, <3>10, <3>11 DEF Fresh
  <2> QED BY <2>5, <2>6
<1> QED BY <1>2, <1>3, <1>4

LEMMA FlushKeeps ==
  ASSUME DeliveryInv, Flush
  PROVE  DeliveryInv'
<1> DEFINE R == ApplyResult(core, gui, slot)
           B == Begin(R[1], R[2])
<1>1. /\ Sound(R[1], R[2], R[3], workers, driver, lines, withdrawn, written)
      /\ R[3].result = "none"
  BY AppliedKeeps DEF DeliveryInv
<1>2. \/ B = <<R[1], R[2]>>
      \/ /\ R[3] = NoSlot /\ R[2].staged = NoStaged /\ B[2].staged # NoStaged
         /\ Sound(B[1], B[2], SlotFor(B[2].staged), workers, driver, lines, withdrawn, written)
  <2> HIDE DEF R
  <2> QED BY <1>1, BegunIs
<1>3. UNCHANGED <<workers, driver, lines, withdrawn, written>>
  BY DEF Flush
<1>4. IF B[2].staged # R[2].staged /\ R[3] # NoSlot
      THEN TRUE
      ELSE /\ core' = B[1] /\ gui' = B[2]
           /\ slot' = IF B[2].staged # R[2].staged THEN SlotFor(B[2].staged) ELSE R[3]
  BY DEF Flush, SlotFor
<1> HIDE DEF R, B
<1>5. CASE B = <<R[1], R[2]>>
  <2>1. B[1] = R[1] /\ B[2] = R[2]
    BY <1>5
  <2>2. core' = R[1] /\ gui' = R[2] /\ slot' = R[3]
    BY <1>4, <2>1
  <2> QED BY <1>1, <1>3, <2>2 DEF DeliveryInv
<1>6. CASE /\ R[3] = NoSlot /\ R[2].staged = NoStaged /\ B[2].staged # NoStaged
           /\ Sound(B[1], B[2], SlotFor(B[2].staged), workers, driver, lines, withdrawn, written)
  <2>1. core' = B[1] /\ gui' = B[2] /\ slot' = SlotFor(B[2].staged)
    BY <1>4, <1>6
  <2> QED BY <1>3, <1>6, <2>1 DEF DeliveryInv
<1> QED BY <1>2, <1>5, <1>6

\* fail_pending_outbound_protocol_delivery.
LEMMA FailSlotIs ==
  ASSUME NEW g, NEW s, NEW wr, SlotOK(g, s, wr)
  PROVE  /\ SlotOK(g, FailSlot(s), wr)
         /\ FailSlot(s).token = s.token /\ FailSlot(s).line = s.line
         /\ ~FailSlot(s).queued
         /\ FailSlot(s) # NoSlot => FailSlot(s).result # "none"
         /\ FailSlot(s) # NoSlot => FailSlot(s).result = "failed" \/ FailSlot(s).result = s.result
<1> DEFINE f == [s EXCEPT !.queued = FALSE, !.result = "failed"]
<1>1. s \in SlotType
  BY DEF SlotOK
<1>2. CASE s = NoSlot \/ s.result # "none"
  <2>1. FailSlot(s) = s
    BY <1>2 DEF FailSlot
  <2>2. ~s.queued
    BY <1>2, EmptyValues DEF SlotOK
  <2> QED BY <1>2, <2>1, <2>2
<1>3. CASE s # NoSlot /\ s.result = "none"
  <2>1. FailSlot(s) = f
    BY <1>3 DEF FailSlot
  <2>2. /\ f \in SlotType /\ f.token = s.token /\ f.line = s.line /\ f.queued = FALSE
        /\ f.result = "failed"
    BY <1>1 DEF SlotType
  <2> HIDE DEF f
  <2>3. s.token # 0 /\ f # NoSlot
    BY <1>3, <2>2, EmptyValues DEF SlotOK
  <2>4. SlotOK(g, f, wr)
    BY <1>3, <2>2, <2>3 DEF SlotOK
  <2> QED BY <2>1, <2>2, <2>3, <2>4
<1> QED BY <1>2, <1>3

\* The slot may change while the line it tracks stays.
LEMMA SameLine ==
  ASSUME NEW c, NEW g, NEW s, NEW ws, NEW d, NEW ls, NEW wd, NEW wr,
         Sound(c, g, s, ws, d, ls, wd, wr), NEW s2, SlotOK(g, s2, wr),
         s2.token = s.token, s2.line = s.line, s2.queued => s.queued
  PROVE  Sound(c, g, s2, ws, d, ls, wd, wr)
<1>1. FramesOK(s2, ws, wr)
  BY DEF Sound, FramesOK
<1>2. ConnectionOK(c, s2, ws, d, ls)
  BY DEF Sound, ConnectionOK
<1>3. Flying(g, s2, ws) = Flying(g, s, ws)
  BY DEF Flying
<1> QED BY <1>1, <1>2, <1>3 DEF Sound

\* A new generation: the outbox, and nothing staged.
LEMMA NewGeneration ==
  ASSUME NEW c, NEW ls, NEW wd, NEW wr, NEW F, OutboxOK(c, ls, wd, wr, F)
  PROVE  LET c2 == [BeginGeneration(c) EXCEPT !.phase = "Reconnecting"] IN
         /\ OutboxOK(c2, ls, wd, wr, F) /\ c2.gen = c.gen + 1 /\ ~Leased(c2)
         /\ c2.phase = "Reconnecting"
<1> DEFINE b == BeginGeneration(c)
           c2 == [b EXCEPT !.phase = "Reconnecting"]
<1>1. OutboxOK(b, ls, wd, wr, F) /\ b.gen = c.gen + 1 /\ ~Leased(b)
  BY GenerationKeeps
<1>2. b \in CoreType
  BY <1>1, OutboxIs
<1> HIDE DEF b
<1>3. /\ c2 \in CoreType /\ c2.outbox = b.outbox /\ c2.gen = b.gen /\ c2.lease = b.lease
      /\ c2.phase = "Reconnecting"
  BY <1>2 DEF CoreType
<1> HIDE DEF c2
<1>4. OutboxOK(c2, ls, wd, wr, F)
  BY <1>1, <1>3, CoreAlike
<1> QED BY <1>1, <1>3, <1>4 DEF Leased, c2, b

LEMMA NoticeFailureKeeps ==
  ASSUME DeliveryInv, NoticeFailure
  PROVE  DeliveryInv'
<1> DEFINE f == FailSlot(slot)
           R == ApplyResult(core, gui, f)
           c2 == [BeginGeneration(R[1]) EXCEPT !.phase = "Reconnecting"]
           d2 == [live |-> 0, failed |-> TRUE]
<1>1. /\ Sound(core, gui, slot, workers, driver, lines, withdrawn, written)
      /\ SlotOK(gui, slot, written)
  BY DEF DeliveryInv, Sound
<1>2. /\ SlotOK(gui, f, written) /\ f.token = slot.token /\ f.line = slot.line /\ ~f.queued
      /\ f # NoSlot => f.result # "none"
  BY <1>1, FailSlotIs
<1> HIDE DEF f
<1>3. Sound(core, gui, f, workers, driver, lines, withdrawn, written)
  BY <1>1, <1>2, SameLine
<1>4. /\ Sound(R[1], R[2], R[3], workers, driver, lines, withdrawn, written)
      /\ R[1].gen = core.gen
      /\ f.result # "none" => R[2].staged = NoStaged /\ R[3] = NoSlot
      /\ f.result = "none" => R = <<core, gui, f>>
  BY <1>3, AppliedKeeps
<1>5. R[2].staged = NoStaged /\ R[3] = NoSlot
  <2>1. CASE f = NoSlot
    <3>1. gui.staged = NoStaged
      BY <1>2, <2>1 DEF SlotOK
    <3> QED BY <1>4, <2>1, <3>1, EmptyValues
  <2>2. CASE f # NoSlot
    BY <1>2, <1>4, <2>2
  <2> QED BY <2>1, <2>2
<1> HIDE DEF R
<1>6. /\ OutboxOK(R[1], lines, withdrawn, written, Flying(R[2], R[3], workers) \cup written)
      /\ Len(lines) <= MaxLines /\ StagedOK(R[1], R[2]) /\ SlotOK(R[2], R[3], written)
      /\ FramesOK(R[3], workers, written) /\ ConnectionOK(R[1], R[3], workers, driver, lines)
  BY <1>4 DEF Sound
<1>7. /\ OutboxOK(c2, lines, withdrawn, written, Flying(R[2], R[3], workers) \cup written)
      /\ c2.gen = core.gen + 1 /\ ~Leased(c2) /\ c2.phase = "Reconnecting"
  BY <1>4, <1>6, NewGeneration
<1>8. core.gen \in Nat
  BY <1>1, OutboxIs DEF Sound
<1>9. d2 \in DriverType /\ d2.live = 0 /\ d2.failed = TRUE
  BY DeliveryAssumption DEF DriverType
<1> HIDE DEF c2, d2
<1>10. StagedOK(c2, R[2])
  BY <1>5, <1>6, <1>7 DEF StagedOK
<1>11. ConnectionOK(c2, R[3], workers, d2, lines)
  <2>1. driver.live # 0
    BY DEF NoticeFailure
  <2>2. PICK k \in 0 .. MaxConnections :
          /\ \A w \in WorkerIds : workers[w].at # "none" <=> w <= k
          /\ core.gen + 2 = 2 * k
    BY <1>4, <1>6, <2>1 DEF ConnectionOK
  <2>3. k \in Nat /\ c2.gen + 1 = 2 * k
    BY <1>7, <1>8, <2>2, DeliveryAssumption
  <2>4. \E m \in 0 .. MaxConnections :
           /\ \A w \in WorkerIds : workers[w].at # "none" <=> w <= m
           /\ d2.live # 0 => d2.live <= m /\ ~d2.failed /\ c2.gen + 2 = 2 * m
           /\ d2.failed => c2.gen + 1 = 2 * m
           /\ d2.live = 0 /\ ~d2.failed => m = 0 /\ c2.gen = 0
    BY <1>9, <2>2, <2>3
  <2>5. \A w \in WorkerIds : FitsConnection(workers[w].frame.line, lines, workers[w])
    BY <1>6 DEF ConnectionOK
  <2>6. ~R[3].queued
    BY <1>5, EmptyValues
  <2> QED BY <1>7, <1>9, <2>4, <2>5, <2>6 DEF ConnectionOK
<1>12. Sound(c2, R[2], R[3], workers, d2, lines, withdrawn, written)
  BY <1>6, <1>7, <1>10, <1>11 DEF Sound
<1>13. /\ core' = c2 /\ gui' = R[2] /\ slot' = R[3] /\ driver' = d2
       /\ UNCHANGED <<workers, lines, withdrawn, written>>
  BY DEF NoticeFailure, c2, R, d2, f
<1> QED BY <1>12, <1>13 DEF DeliveryInv

\* One worker changes.
LEMMA OneWorker ==
  ASSUME NEW ws \in [WorkerIds -> WorkerType], NEW w \in WorkerIds, NEW x \in WorkerType
  PROVE  LET w2 == [ws EXCEPT ![w] = x] IN
         /\ w2 \in [WorkerIds -> WorkerType] /\ w2[w] = x
         /\ \A v \in WorkerIds : v # w => w2[v] = ws[v]
OBVIOUS

\* A worker is started: it has nothing to write.
LEMMA StartKeeps ==
  ASSUME NEW g, NEW s, NEW wr, NEW ls, FramesOK(s, workers, wr),
         \A v \in WorkerIds : FitsConnection(workers[v].frame.line, ls, workers[v]),
         NEW k \in 0 .. MaxConnections, \A v \in WorkerIds : workers[v].at # "none" <=> v <= k,
         NEW gen \in Nat, Start(gen)
  PROVE  /\ k + 1 \in WorkerIds /\ k \in Nat
         /\ driver' = [live |-> k + 1, failed |-> FALSE]
         /\ FramesOK(s, workers', wr)
         /\ \A v \in WorkerIds : FitsConnection(workers'[v].frame.line, ls, workers'[v])
         /\ \A v \in WorkerIds : workers'[v].at # "none" <=> v <= k + 1
         /\ workers'[k + 1].gen = gen
         /\ Flying(g, s, workers') = Flying(g, s, workers)
<1>1. k \in Nat /\ WorkerIds = 1 .. MaxConnections /\ MaxConnections \in Nat
  BY DeliveryAssumption DEF WorkerIds
<1>2. Started = 1 .. k
  BY <1>1 DEF Started
<1>3. Cardinality(Started) = k
  <2>1. Cardinality(1 .. k) = IF 1 > k THEN 0 ELSE k - 1 + 1
    <3>1. 1 \in Int /\ k \in Int
      BY <1>1
    <3> QED BY <3>1, FS_Interval
  <2> QED BY <1>1, <1>2, <2>1
<1> DEFINE w == k + 1
           x == [workers[w] EXCEPT !.at = "connecting", !.gen = gen]
<1>4. /\ w \in WorkerIds /\ driver' = [live |-> w, failed |-> FALSE]
      /\ workers' = [workers EXCEPT ![w].at = "connecting", ![w].gen = gen]
  BY <1>3 DEF Start
<1>5. /\ workers \in [WorkerIds -> WorkerType]
      /\ \A v \in WorkerIds :
           /\ workers[v].at = "none" => workers[v] = NoWorker
           /\ workers[v].frame # NoFrame => workers[v].frame.token # 0
           /\ workers[v].frame.token # 0 /\ workers[v].frame.token = s.token => workers[v].frame.line = s.line
           /\ workers[v].at = "publish" =>
                workers[v].frame # NoFrame /\ Carries(workers[v].frame.line) \subseteq wr
  BY DEF FramesOK
<1>6. workers[w] = NoWorker /\ workers[w] \in WorkerType
  BY <1>1, <1>4, <1>5
<1>7. workers' = [workers EXCEPT ![w] = x]
  BY <1>4, <1>5
<1>8. x \in WorkerType /\ x.at = "connecting" /\ x.gen = gen /\ x.frame = NoFrame
  <2>1. workers[w].frame = NoFrame
    BY <1>6 DEF NoWorker
  <2>2. /\ x.at = "connecting" /\ x.gen = gen /\ x.frame = workers[w].frame /\ x \in WorkerType
    <3> DEFINE y == workers[w]
    <3>1. y \in WorkerType
      BY <1>6
    <3> HIDE DEF y
    <3>2. LET z == [y EXCEPT !.at = "connecting", !.gen = gen] IN
          z.at = "connecting" /\ z.gen = gen /\ z.frame = y.frame /\ z \in WorkerType
      BY <3>1 DEF WorkerType, Places
    <3> QED BY <3>2 DEF y
  <2> QED BY <2>1, <2>2
<1> HIDE DEF x, w
<1>9. /\ workers' \in [WorkerIds -> WorkerType] /\ workers'[w] = x
      /\ \A v \in WorkerIds : v # w => workers'[v] = workers[v]
  <2>1. workers \in [WorkerIds -> WorkerType] /\ w \in WorkerIds /\ x \in WorkerType
    BY <1>4, <1>5, <1>8
  <2> QED BY <1>7, <2>1
<1>10. FramesOK(s, workers', wr)
  <2>1. ASSUME NEW v \in WorkerIds
        PROVE  /\ workers'[v].at = "none" => workers'[v] = NoWorker
               /\ workers'[v].frame # NoFrame => workers'[v].frame.token # 0
               /\ workers'[v].frame.token # 0 /\ workers'[v].frame.token = s.token
                    => workers'[v].frame.line = s.line
               /\ workers'[v].at = "publish" =>
                    workers'[v].frame # NoFrame /\ Carries(workers'[v].frame.line) \subseteq wr
    <3>1. CASE v = w
      BY <1>8, <1>9, <3>1, EmptyValues
    <3>2. CASE v # w
      <4>1. workers'[v] = workers[v]
        BY <1>9, <3>2
      <4> QED BY <1>5, <4>1
    <3> QED BY <3>1, <3>2
  <2> QED BY <1>9, <2>1 DEF FramesOK
<1>11. \A v \in WorkerIds : FitsConnection(workers'[v].frame.line, ls, workers'[v])
  <2>1. FitsConnection(x.frame.line, ls, x)
    BY <1>8, EmptyValues DEF FitsConnection
  <2> QED BY <1>9, <2>1
<1>12. \A v \in WorkerIds : workers'[v].at # "none" <=> v <= w
  <2>1. ASSUME NEW v \in WorkerIds PROVE workers'[v].at # "none" <=> v <= w
    <3>0. v \in Nat /\ w = k + 1
      BY <1>1 DEF w
    <3>1. CASE v = w
      BY <1>8, <1>9, <3>0, <3>1
    <3>2. CASE v # w
      BY <1>1, <1>9, <3>0, <3>2
    <3> QED BY <3>1, <3>2
  <2> QED BY <2>1
<1>13. \A v \in WorkerIds : Carries(workers'[v].frame.line) = Carries(workers[v].frame.line)
  <2>1. Carries(x.frame.line) = {} /\ Carries(workers[w].frame.line) = {}
    BY <1>6, <1>8, EmptyValues DEF NoWorker
  <2> QED BY <1>9, <2>1
<1>14. Flying(g, s, workers') = Flying(g, s, workers)
  BY <1>13 DEF Flying
<1> QED BY <1>1, <1>4, <1>8, <1>9, <1>10, <1>11, <1>12, <1>14 DEF w

LEMMA StartWorkerKeeps ==
  ASSUME DeliveryInv, StartWorker
  PROVE  DeliveryInv'
<1>1. /\ OutboxOK(core, lines, withdrawn, written, Flying(gui, slot, workers) \cup written)
      /\ Len(lines) <= MaxLines /\ StagedOK(core, gui) /\ SlotOK(gui, slot, written)
      /\ FramesOK(slot, workers, written) /\ ConnectionOK(core, slot, workers, driver, lines)
  BY DEF DeliveryInv, Sound
<1>2. core.gen \in Nat
  BY <1>1, OutboxIs
<1>3. /\ driver.live = 0 /\ ~driver.failed /\ Start(core.gen)
      /\ UNCHANGED <<core, gui, slot, lines, withdrawn, written>>
  BY DEF StartWorker
<1>4. /\ core.gen = 0 /\ \A v \in WorkerIds : workers[v].at # "none" <=> v <= 0
      /\ \A v \in WorkerIds : FitsConnection(workers[v].frame.line, lines, workers[v])
      /\ core.phase # "Active"
      /\ ~(slot.queued /\ slot.line.kind \notin {"none", "hello"})
  BY <1>1, <1>3 DEF ConnectionOK
<1>5. 0 \in 0 .. MaxConnections /\ MaxConnections \in Nat
  BY DeliveryAssumption
<1>6. /\ 0 + 1 \in WorkerIds
      /\ driver' = [live |-> 0 + 1, failed |-> FALSE]
      /\ FramesOK(slot, workers', written)
      /\ \A v \in WorkerIds : FitsConnection(workers'[v].frame.line, lines, workers'[v])
      /\ \A v \in WorkerIds : workers'[v].at # "none" <=> v <= 0 + 1
      /\ workers'[0 + 1].gen = core.gen
      /\ Flying(gui, slot, workers') = Flying(gui, slot, workers)
  BY <1>1, <1>2, <1>3, <1>4, <1>5, StartKeeps
<1>7. ConnectionOK(core, slot, workers', driver', lines)
  <2>1. 1 \in WorkerIds /\ 1 \in 0 .. MaxConnections
    BY <1>5, <1>6 DEF WorkerIds
  <2>2. driver' \in DriverType /\ driver'.live = 1 /\ driver'.failed = FALSE
    BY <1>6, <2>1 DEF DriverType
  <2>3. \E k \in 0 .. MaxConnections :
       /\ \A w \in WorkerIds : workers'[w].at # "none" <=> w <= k
       /\ driver'.live # 0 => driver'.live <= k /\ ~driver'.failed /\ core.gen + 2 = 2 * k
       /\ driver'.failed => core.gen + 1 = 2 * k
       /\ driver'.live = 0 /\ ~driver'.failed => k = 0 /\ core.gen = 0
    BY <1>4, <1>6, <2>1, <2>2
  <2> QED BY <1>4, <1>6, <2>2, <2>3 DEF ConnectionOK
<1>8. Sound(core, gui, slot, workers', driver', lines, withdrawn, written)
  BY <1>1, <1>6, <1>7 DEF Sound
<1> QED BY <1>3, <1>8 DEF DeliveryInv

LEMMA ReconnectKeeps ==
  ASSUME DeliveryInv, Reconnect
  PROVE  DeliveryInv'
<1> DEFINE c2 == [BeginGeneration(core) EXCEPT !.phase = "Reconnecting"]
           g2 == [hello |-> 1, staged |-> NoStaged]
           s2 == FailSlot(slot)
<1>1. /\ OutboxOK(core, lines, withdrawn, written, Flying(gui, slot, workers) \cup written)
      /\ Len(lines) <= MaxLines /\ StagedOK(core, gui) /\ SlotOK(gui, slot, written)
      /\ FramesOK(slot, workers, written) /\ ConnectionOK(core, slot, workers, driver, lines)
  BY DEF DeliveryInv, Sound
<1>2. core.gen \in Nat
  BY <1>1, OutboxIs
<1>3. /\ driver.failed /\ core' = c2 /\ gui' = g2 /\ slot' = s2 /\ Start(c2.gen)
      /\ UNCHANGED <<lines, withdrawn, written>>
  BY DEF Reconnect
<1>4. /\ OutboxOK(c2, lines, withdrawn, written, Flying(gui, slot, workers) \cup written)
      /\ c2.gen = core.gen + 1 /\ ~Leased(c2) /\ c2.phase = "Reconnecting"
  BY <1>1, NewGeneration
<1>5. /\ SlotOK(gui, s2, written) /\ s2.token = slot.token /\ s2.line = slot.line /\ ~s2.queued
      /\ s2 # NoSlot => s2.result # "none"
  BY <1>1, FailSlotIs
<1>6. g2 \in GuiType /\ g2.staged = NoStaged
  BY EmptyValues DEF GuiType
<1> HIDE DEF c2, g2, s2
<1>7. StagedOK(c2, g2)
  BY <1>4, <1>6 DEF StagedOK
<1>8. SlotOK(g2, s2, written)
  BY <1>5, <1>6 DEF SlotOK
<1>9. FramesOK(s2, workers, written)
  BY <1>1, <1>5 DEF FramesOK
<1>10. PICK k \in 0 .. MaxConnections :
          (\A v \in WorkerIds : workers[v].at # "none" <=> v <= k) /\ core.gen + 1 = 2 * k
  BY <1>1, <1>3 DEF ConnectionOK
<1>11. \A v \in WorkerIds : FitsConnection(workers[v].frame.line, lines, workers[v])
  BY <1>1 DEF ConnectionOK
<1>12. c2.gen \in Nat
  BY <1>2, <1>4
<1>13. /\ k + 1 \in WorkerIds /\ k \in Nat
       /\ driver' = [live |-> k + 1, failed |-> FALSE]
       /\ FramesOK(s2, workers', written)
       /\ \A v \in WorkerIds : FitsConnection(workers'[v].frame.line, lines, workers'[v])
       /\ \A v \in WorkerIds : workers'[v].at # "none" <=> v <= k + 1
       /\ workers'[k + 1].gen = c2.gen
       /\ Flying(g2, s2, workers') = Flying(g2, s2, workers)
  BY <1>3, <1>9, <1>10, <1>11, <1>12, StartKeeps
<1>14. ConnectionOK(c2, s2, workers', driver', lines)
  <2>1. k + 1 \in 0 .. MaxConnections /\ k + 1 # 0
    BY <1>13, DeliveryAssumption DEF WorkerIds
  <2>2. driver' \in DriverType /\ driver'.live = k + 1 /\ driver'.failed = FALSE
    BY <1>13, <2>1 DEF DriverType
  <2>3. c2.gen + 2 = 2 * (k + 1)
    BY <1>2, <1>4, <1>10, <1>13
  <2>4. \E m \in 0 .. MaxConnections :
       /\ \A w \in WorkerIds : workers'[w].at # "none" <=> w <= m
       /\ driver'.live # 0 => driver'.live <= m /\ ~driver'.failed /\ c2.gen + 2 = 2 * m
       /\ driver'.failed => c2.gen + 1 = 2 * m
       /\ driver'.live = 0 /\ ~driver'.failed => m = 0 /\ c2.gen = 0
    BY <1>13, <2>1, <2>2, <2>3
  <2> QED BY <1>4, <1>5, <1>13, <2>2, <2>4 DEF ConnectionOK
<1>15. OutboxOK(c2, lines, withdrawn, written, Flying(g2, s2, workers') \cup written)
  <2>1. Flying(g2, s2, workers) \subseteq Flying(gui, slot, workers)
    BY <1>5, <1>6, EmptyValues DEF Flying
  <2>2. \A n \in Flying(g2, s2, workers') \cup written : n \in Flying(gui, slot, workers) \cup written
    BY <1>13, <2>1
  <2>3. written \subseteq Flying(g2, s2, workers') \cup written
    OBVIOUS
  <2> QED BY <1>4, <2>2, <2>3, FlightGrows
<1>16. Sound(c2, g2, s2, workers', driver', lines, withdrawn, written)
  BY <1>1, <1>7, <1>8, <1>13, <1>14, <1>15 DEF Sound
<1> QED BY <1>3, <1>16 DEF DeliveryInv

LEMMA ReceiveHelloKeeps ==
  ASSUME DeliveryInv, ReceiveHello
  PROVE  DeliveryInv'
<1> DEFINE c2 == [core EXCEPT !.phase = "Active", !.active = TRUE]
           F == Flying(gui, slot, workers) \cup written
<1>1. /\ Sound(core, gui, slot, workers, driver, lines, withdrawn, written)
      /\ OutboxOK(core, lines, withdrawn, written, F) /\ StagedOK(core, gui)
      /\ ConnectionOK(core, slot, workers, driver, lines)
  BY DEF DeliveryInv, Sound
<1>2. core \in CoreType
  BY <1>1, OutboxIs
<1>3. /\ c2 \in CoreType /\ c2.outbox = core.outbox /\ c2.gen = core.gen /\ c2.lease = core.lease
  BY <1>2 DEF CoreType
<1>4. /\ driver.live # 0 /\ workers[driver.live].greeted /\ core' = c2
      /\ UNCHANGED <<gui, slot, workers, driver, lines, withdrawn, written>>
  BY DEF ReceiveHello
<1> HIDE DEF c2, F
<1>5. OutboxOK(c2, lines, withdrawn, written, F)
  BY <1>1, <1>3, CoreAlike
<1>6. StagedOK(c2, gui)
  BY <1>1, <1>3 DEF StagedOK, Leased, IsFront
<1>7. ConnectionOK(c2, slot, workers, driver, lines)
  BY <1>1, <1>3, <1>4 DEF ConnectionOK
<1>8. Sound(c2, gui, slot, workers, driver, lines, withdrawn, written)
  BY <1>1, <1>5, <1>6, <1>7 DEF Sound, F
<1> QED BY <1>4, <1>8 DEF DeliveryInv

-----------------------------------------------------------------------------
(* The workers. *)

\* What fits a worker fits it when it has been greeted since.
LEMMA FitGrows ==
  ASSUME NEW line, NEW ls, NEW u, NEW v, FitsConnection(line, ls, u),
         u.greeted => v.greeted, v.gen = u.gen
  PROVE  FitsConnection(line, ls, v)
BY DEF FitsConnection

\* A worker moves: it keeps its frame, drops it, or takes the one in the slot.
LEMMA WorkerStep ==
  ASSUME NEW c, NEW g, NEW s, NEW ws, NEW d, NEW ls, NEW wd, NEW wr,
         Sound(c, g, s, ws, d, ls, wd, wr),
         NEW w \in WorkerIds, NEW x \in WorkerType, ws[w].at # "none", x.at # "none",
         x.gen = ws[w].gen, ws[w].greeted => x.greeted,
         NEW s2, NEW wr2, SlotOK(g, s2, wr2), s2.token = s.token, s2.line = s.line,
         s2.queued => s.queued,
         wr \subseteq wr2, wr2 \subseteq wr \cup Carries(ws[w].frame.line),
         \/ x.frame = NoFrame
         \/ x.frame = ws[w].frame
         \/ /\ x.frame.token = s.token /\ x.frame.line = s.line
            /\ s.queued /\ d.live = w,
         x.at = "publish" => x.frame # NoFrame /\ Carries(x.frame.line) \subseteq wr2
  PROVE  Sound(c, g, s2, [ws EXCEPT ![w] = x], d, ls, wd, wr2)
<1> DEFINE ws2 == [ws EXCEPT ![w] = x]
           F == Flying(g, s, ws) \cup wr
           F2 == Flying(g, s2, ws2) \cup wr2
<1>1. /\ OutboxOK(c, ls, wd, wr, F) /\ Len(ls) <= MaxLines /\ StagedOK(c, g) /\ SlotOK(g, s, wr)
      /\ FramesOK(s, ws, wr) /\ ConnectionOK(c, s, ws, d, ls)
  BY DEF Sound
<1>2. /\ ws \in [WorkerIds -> WorkerType]
      /\ \A v \in WorkerIds :
           /\ ws[v].at = "none" => ws[v] = NoWorker
           /\ ws[v].frame # NoFrame => ws[v].frame.token # 0
           /\ ws[v].frame.token # 0 /\ ws[v].frame.token = s.token => ws[v].frame.line = s.line
           /\ ws[v].at = "publish" => ws[v].frame # NoFrame /\ Carries(ws[v].frame.line) \subseteq wr
  BY <1>1 DEF FramesOK
<1>3. /\ ws2 \in [WorkerIds -> WorkerType] /\ ws2[w] = x
      /\ \A v \in WorkerIds : v # w => ws2[v] = ws[v]
  BY <1>2
<1> HIDE DEF ws2, F, F2
<1>4. s.queued => s.token # 0
  BY <1>1, EmptyValues DEF SlotOK
<1>5. FramesOK(s2, ws2, wr2)
  <2>1. ASSUME NEW v \in WorkerIds
        PROVE  /\ ws2[v].at = "none" => ws2[v] = NoWorker
               /\ ws2[v].frame # NoFrame => ws2[v].frame.token # 0
               /\ ws2[v].frame.token # 0 /\ ws2[v].frame.token = s2.token
                    => ws2[v].frame.line = s2.line
               /\ ws2[v].at = "publish" =>
                    ws2[v].frame # NoFrame /\ Carries(ws2[v].frame.line) \subseteq wr2
    <3>1. CASE v = w
      <4>1. x.frame # NoFrame => x.frame.token # 0
        BY <1>2, <1>4
      <4>2. x.frame.token # 0 /\ x.frame.token = s.token => x.frame.line = s.line
        BY <1>2, EmptyValues
      <4> QED BY <1>3, <3>1, <4>1, <4>2
    <3>2. CASE v # w
      <4>1. ws2[v] = ws[v]
        BY <1>3, <3>2
      <4> QED BY <1>2, <4>1
    <3> QED BY <3>1, <3>2
  <2> QED BY <1>3, <2>1 DEF FramesOK
<1>6. \A v \in WorkerIds : ws2[v].gen = ws[v].gen /\ (ws[v].greeted => ws2[v].greeted)
                             /\ (ws2[v].at # "none" <=> ws[v].at # "none")
  BY <1>3
<1>7. ConnectionOK(c, s2, ws2, d, ls)
  <2>1. d \in DriverType /\ (d.live # 0 => d.live \in WorkerIds)
    <3>1. d \in DriverType
      BY <1>1 DEF ConnectionOK
    <3>2. d.live \in 0 .. MaxConnections
      BY <3>1 DEF DriverType
    <3> QED BY <3>1, <3>2, DeliveryAssumption DEF WorkerIds
  <2>2. \E k \in 0 .. MaxConnections :
       /\ \A v \in WorkerIds : ws2[v].at # "none" <=> v <= k
       /\ d.live # 0 => d.live <= k /\ ~d.failed /\ c.gen + 2 = 2 * k
       /\ d.failed => c.gen + 1 = 2 * k
       /\ d.live = 0 /\ ~d.failed => k = 0 /\ c.gen = 0
    <3>1. PICK k \in 0 .. MaxConnections :
       /\ \A v \in WorkerIds : ws[v].at # "none" <=> v <= k
       /\ d.live # 0 => d.live <= k /\ ~d.failed /\ c.gen + 2 = 2 * k
       /\ d.failed => c.gen + 1 = 2 * k
       /\ d.live = 0 /\ ~d.failed => k = 0 /\ c.gen = 0
      BY <1>1 DEF ConnectionOK
    <3>2. \A v \in WorkerIds : ws2[v].at # "none" <=> v <= k
      BY <1>6, <3>1
    <3> QED BY <3>1, <3>2
  <2>3. /\ d.live # 0 => ws2[d.live].gen = c.gen
        /\ c.phase = "Active" => d.live # 0 /\ ws2[d.live].greeted
    BY <1>1, <1>6, <2>1 DEF ConnectionOK
  <2>4. s.queued /\ s.line.kind \notin {"none", "hello"} =>
          d.live # 0 /\ FitsConnection(s.line, ls, ws2[d.live])
    BY <1>1, <1>6, <2>1, FitGrows DEF ConnectionOK
  <2>5. ASSUME NEW v \in WorkerIds PROVE FitsConnection(ws2[v].frame.line, ls, ws2[v])
    <3>1. FitsConnection(ws[v].frame.line, ls, ws2[v])
      <4>1. FitsConnection(ws[v].frame.line, ls, ws[v])
        BY <1>1 DEF ConnectionOK
      <4> QED BY <1>6, <4>1, FitGrows
    <3>2. CASE v # w
      <4>1. ws2[v] = ws[v]
        BY <1>3, <3>2
      <4> QED BY <3>1, <4>1
    <3>3. CASE v = w /\ x.frame = NoFrame
      <4>1. ws2[v].frame.line.kind = "none"
        BY <1>3, <3>3, EmptyValues
      <4> QED BY <4>1 DEF FitsConnection
    <3>4. CASE v = w /\ x.frame = ws[w].frame
      <4>1. ws2[v].frame.line = ws[v].frame.line
        BY <1>3, <3>4
      <4> QED BY <3>1, <4>1
    <3>5. CASE v = w /\ x.frame.line = s.line /\ s.queued /\ d.live = w
      <4>1. ws2[v].frame.line = s.line
        BY <1>3, <3>5
      <4>2. CASE s.line.kind \notin {"none", "hello"}
        BY <2>4, <3>5, <4>1, <4>2
      <4>3. CASE s.line.kind \in {"none", "hello"}
        BY <4>1, <4>3 DEF FitsConnection
      <4> QED BY <4>2, <4>3
    <3> QED BY <3>2, <3>3, <3>4, <3>5
  <2> QED BY <2>1, <2>2, <2>3, <2>4, <2>5 DEF ConnectionOK
<1>8. wr2 \subseteq F2 /\ F2 \subseteq F
  <2>1. /\ Carries(g.staged.line) \subseteq F /\ Carries(s.line) \subseteq F /\ wr \subseteq F
        /\ \A v \in WorkerIds : Carries(ws[v].frame.line) \subseteq F
    BY DEF F, Flying
  <2>2. Carries(x.frame.line) \subseteq F
    BY <2>1, EmptyValues
  <2>3. \A v \in WorkerIds : Carries(ws2[v].frame.line) \subseteq F
    BY <1>3, <2>1, <2>2
  <2>4. wr2 \subseteq F
    BY <2>1
  <2> QED BY <2>1, <2>3, <2>4 DEF F2, Flying
<1>9. OutboxOK(c, ls, wd, wr2, F2)
  BY <1>1, <1>8, FlightGrows
<1>10. Sound(c, g, s2, ws2, d, ls, wd, wr2)
  BY <1>1, <1>5, <1>7, <1>9 DEF Sound, F2
<1> QED BY <1>10 DEF ws2

\* The worker w, at another place and with another frame.
Moved(w, at, frame) == [workers[w] EXCEPT !.at = at, !.frame = frame]

LEMMA MovedIs ==
  ASSUME workers \in [WorkerIds -> WorkerType], NEW w \in WorkerIds, NEW at \in Places,
         NEW frame \in FrameType
  PROVE  /\ Moved(w, at, frame) \in WorkerType
         /\ Moved(w, at, frame).at = at /\ Moved(w, at, frame).frame = frame
         /\ Moved(w, at, frame).gen = workers[w].gen
         /\ Moved(w, at, frame).greeted = workers[w].greeted
<1> DEFINE y == workers[w]
<1>1. y \in WorkerType
  OBVIOUS
<1>2. Moved(w, at, frame) = [y EXCEPT !.at = at, !.frame = frame]
  BY DEF Moved
<1> HIDE DEF y
<1>4. LET z == [y EXCEPT !.at = at, !.frame = frame] IN
      z \in WorkerType /\ z.at = at /\ z.frame = frame /\ z.gen = y.gen /\ z.greeted = y.greeted
  BY <1>1 DEF WorkerType
<1> QED BY <1>2, <1>4 DEF y

LEMMA MoveIs ==
  ASSUME workers \in [WorkerIds -> WorkerType], NEW w \in WorkerIds, NEW at
  PROVE  [workers EXCEPT ![w] = Moved(w, at, workers[w].frame)] = [workers EXCEPT ![w].at = at]
<1> DEFINE y == workers[w]
<1>1. y \in WorkerType
  OBVIOUS
<1> HIDE DEF y
<1>2. [y EXCEPT !.at = at, !.frame = y.frame] = [y EXCEPT !.at = at]
  BY <1>1 DEF WorkerType
<1>3. Moved(w, at, workers[w].frame) = [workers[w] EXCEPT !.at = at]
  BY <1>2 DEF Moved, y
<1> QED BY <1>3

\* What the workers are.
LEMMA WorkersAre ==
  ASSUME DeliveryInv
  PROVE  /\ Sound(core, gui, slot, workers, driver, lines, withdrawn, written)
         /\ SlotOK(gui, slot, written) /\ workers \in [WorkerIds -> WorkerType]
         /\ \A w \in WorkerIds : workers[w].frame \in FrameType
<1>1. /\ Sound(core, gui, slot, workers, driver, lines, withdrawn, written)
      /\ SlotOK(gui, slot, written) /\ workers \in [WorkerIds -> WorkerType]
  BY DEF DeliveryInv, Sound, FramesOK
<1>2. \A x \in WorkerType : x.frame \in FrameType
  BY DEF WorkerType
<1> QED BY <1>1, <1>2

\* A worker that only moves, and perhaps reports to the slot.
LEMMA MoveKeeps ==
  ASSUME DeliveryInv, NEW w \in WorkerIds, workers[w].at # "none",
         NEW at \in Places \ {"none", "publish"}, NEW frame \in {NoFrame, workers[w].frame},
         workers' = [workers EXCEPT ![w] = Moved(w, at, frame)],
         SlotOK(gui, slot', written), slot'.token = slot.token, slot'.line = slot.line,
         slot'.queued => slot.queued,
         UNCHANGED <<core, gui, driver, lines, withdrawn, written>>
  PROVE  DeliveryInv'
<1> DEFINE x == Moved(w, at, frame)
<1>1. /\ Sound(core, gui, slot, workers, driver, lines, withdrawn, written)
      /\ workers \in [WorkerIds -> WorkerType] /\ frame \in FrameType
  BY WorkersAre, EmptyValues
<1>2. /\ x \in WorkerType /\ x.at = at /\ x.frame = frame /\ x.gen = workers[w].gen
      /\ x.greeted = workers[w].greeted
  <2>1. at \in Places
    OBVIOUS
  <2> QED BY <1>1, <2>1, MovedIs
<1> HIDE DEF x
<1>3. Sound(core, gui, slot', [workers EXCEPT ![w] = x], driver, lines, withdrawn, written)
  <2>1. x.at # "none" /\ x.at # "publish"
    BY <1>2
  <2>2. x.frame = NoFrame \/ x.frame = workers[w].frame
    BY <1>2
  <2> QED BY <1>1, <1>2, <2>1, <2>2, WorkerStep
<1>4. workers' = [workers EXCEPT ![w] = x]
  BY DEF x
<1> QED BY <1>3, <1>4 DEF DeliveryInv

\* The slot as it is.
LEMMA SlotStays ==
  ASSUME DeliveryInv, NEW w \in WorkerIds, workers[w].at # "none",
         NEW at \in Places \ {"none", "publish"}, Move(w, at),
         SlotOK(gui, slot', written), slot'.token = slot.token, slot'.line = slot.line,
         slot'.queued => slot.queued,
         UNCHANGED <<core, gui, driver, lines, withdrawn, written>>
  PROVE  DeliveryInv'
<1>1. workers \in [WorkerIds -> WorkerType]
  BY WorkersAre
<1>2. workers' = [workers EXCEPT ![w] = Moved(w, at, workers[w].frame)]
  BY <1>1, MoveIs DEF Move
<1> QED BY <1>2, MoveKeeps

LEMMA ConnectKeeps ==
  ASSUME DeliveryInv, NEW w \in WorkerIds, Connect(w)
  PROVE  DeliveryInv'
<1>1. SlotOK(gui, slot, written)
  BY WorkersAre
<1>2. /\ workers[w].at # "none" /\ Move(w, "up") /\ slot' = slot
      /\ UNCHANGED <<core, gui, driver, lines, withdrawn, written>>
  BY DEF Connect
<1>3. "up" \in Places \ {"none", "publish"}
  BY DEF Places
<1> QED BY <1>1, <1>2, <1>3, SlotStays

LEMMA ConnectFailsKeeps ==
  ASSUME DeliveryInv, NEW w \in WorkerIds, ConnectFails(w)
  PROVE  DeliveryInv'
<1>1. SlotOK(gui, slot, written)
  BY WorkersAre
<1>2. /\ workers[w].at # "none" /\ Move(w, "gone") /\ slot' = slot
      /\ UNCHANGED <<core, gui, driver, lines, withdrawn, written>>
  BY DEF ConnectFails
<1>3. "gone" \in Places \ {"none", "publish"}
  BY DEF Places
<1> QED BY <1>1, <1>2, <1>3, SlotStays

LEMMA FailPendingKeeps ==
  ASSUME DeliveryInv, NEW w \in WorkerIds, FailPending(w)
  PROVE  DeliveryInv'
<1> DEFINE at == IF workers[w].at = "failing" THEN "failingAgain" ELSE "dropping"
<1>1. SlotOK(gui, slot, written)
  BY WorkersAre
<1>2. /\ workers[w].at # "none" /\ Move(w, at)
      /\ slot' = IF driver.live = w THEN FailSlot(slot) ELSE slot
      /\ UNCHANGED <<core, gui, driver, lines, withdrawn, written>>
  BY DEF FailPending
<1>3. at \in Places \ {"none", "publish"}
  BY DEF Places
<1> HIDE DEF at
<1>4. /\ SlotOK(gui, slot', written) /\ slot'.token = slot.token /\ slot'.line = slot.line
      /\ slot'.queued => slot.queued
  BY <1>1, <1>2, FailSlotIs
<1> QED BY <1>2, <1>3, <1>4, SlotStays

LEMMA DropCheckKeeps ==
  ASSUME DeliveryInv, NEW w \in WorkerIds, DropCheck(w)
  PROVE  DeliveryInv'
<1> DEFINE at == IF driver.live = w THEN "dropFail" ELSE "gone"
<1>1. SlotOK(gui, slot, written)
  BY WorkersAre
<1>2. /\ workers[w].at # "none" /\ Move(w, at) /\ slot' = slot
      /\ UNCHANGED <<core, gui, driver, lines, withdrawn, written>>
  BY DEF DropCheck
<1>3. at \in Places \ {"none", "publish"}
  BY DEF Places
<1> HIDE DEF at
<1> QED BY <1>1, <1>2, <1>3, SlotStays

LEMMA DropFailKeeps ==
  ASSUME DeliveryInv, NEW w \in WorkerIds, DropFail(w)
  PROVE  DeliveryInv'
<1>1. SlotOK(gui, slot, written)
  BY WorkersAre
<1>2. /\ workers[w].at # "none" /\ Move(w, "gone") /\ slot' = FailSlot(slot)
      /\ UNCHANGED <<core, gui, driver, lines, withdrawn, written>>
  BY DEF DropFail
<1>3. "gone" \in Places \ {"none", "publish"}
  BY DEF Places
<1>4. /\ SlotOK(gui, slot', written) /\ slot'.token = slot.token /\ slot'.line = slot.line
      /\ slot'.queued => slot.queued
  BY <1>1, <1>2, FailSlotIs
<1> QED BY <1>2, <1>3, <1>4, SlotStays

\* publish_outbound_protocol_delivery_result: a result that is true.
LEMMA PublishedIs ==
  ASSUME DeliveryInv, NEW w \in WorkerIds, NEW result \in {"written", "failed"},
         result = "written" => workers[w].at = "publish"
  PROVE  /\ SlotOK(gui, Published(w, result), written)
         /\ Published(w, result).token = slot.token /\ Published(w, result).line = slot.line
         /\ Published(w, result).queued => slot.queued
<1> DEFINE f == [slot EXCEPT !.queued = FALSE, !.result = result]
<1>1. SlotOK(gui, slot, written) /\ FramesOK(slot, workers, written)
  BY DEF DeliveryInv, Sound
<1>2. CASE driver.live # w \/ slot.token # workers[w].frame.token \/ slot.result # "none"
           \/ workers[w].frame = NoFrame
  <2>1. Published(w, result) = slot
    BY <1>2 DEF Published
  <2> QED BY <1>1, <2>1
<1>3. CASE ~(driver.live # w \/ slot.token # workers[w].frame.token \/ slot.result # "none"
             \/ workers[w].frame = NoFrame)
  <2>1. Published(w, result) = f
    BY <1>3 DEF Published
  <2>2. slot.token # 0 /\ slot.line = workers[w].frame.line
    BY <1>1, <1>3 DEF FramesOK
  <2>3. result = "written" => Carries(slot.line) \subseteq written
    BY <1>1, <2>2 DEF FramesOK
  <2>4. /\ f \in SlotType /\ f.token = slot.token /\ f.line = slot.line /\ f.queued = FALSE
        /\ f.result = result
    BY <1>1 DEF SlotOK, SlotType
  <2> HIDE DEF f
  <2>5. f # NoSlot /\ slot # NoSlot
    BY <2>2, <2>4, EmptyValues
  <2>6. SlotOK(gui, f, written)
    BY <1>1, <2>2, <2>3, <2>4, <2>5 DEF SlotOK
  <2> QED BY <2>1, <2>4, <2>6
<1> QED BY <1>2, <1>3

LEMMA PublishWrittenKeeps ==
  ASSUME DeliveryInv, NEW w \in WorkerIds, PublishWritten(w)
  PROVE  DeliveryInv'
<1>1. /\ workers[w].at = "publish" /\ slot' = Published(w, "written")
      /\ workers' = [workers EXCEPT ![w].at = "up", ![w].frame = NoFrame]
      /\ UNCHANGED <<core, gui, driver, lines, withdrawn, written>>
  BY DEF PublishWritten
<1>2. "up" \in Places \ {"none", "publish"} /\ workers[w].at # "none" /\ "up" \in Places
  BY <1>1 DEF Places
<1>3. workers \in [WorkerIds -> WorkerType] /\ NoFrame \in FrameType
  BY WorkersAre, EmptyValues
<1>4. workers' = [workers EXCEPT ![w] = Moved(w, "up", NoFrame)]
  BY <1>1, <1>3 DEF Moved
<1>5. /\ SlotOK(gui, slot', written) /\ slot'.token = slot.token /\ slot'.line = slot.line
      /\ slot'.queued => slot.queued
  BY <1>1, PublishedIs
<1> QED BY <1>1, <1>2, <1>4, <1>5, MoveKeeps

LEMMA BreakKeeps ==
  ASSUME DeliveryInv, NEW w \in WorkerIds, Break(w)
  PROVE  DeliveryInv'
<1>1. /\ workers[w].at = "up" /\ slot' = Published(w, "failed")
      /\ workers' = [workers EXCEPT ![w].at = "failing", ![w].frame = NoFrame]
      /\ UNCHANGED <<core, gui, driver, lines, withdrawn, written>>
  BY DEF Break
<1>2. "failing" \in Places \ {"none", "publish"} /\ workers[w].at # "none" /\ "failing" \in Places
  BY <1>1 DEF Places
<1>3. workers \in [WorkerIds -> WorkerType] /\ NoFrame \in FrameType
  BY WorkersAre, EmptyValues
<1>4. workers' = [workers EXCEPT ![w] = Moved(w, "failing", NoFrame)]
  BY <1>1, <1>3 DEF Moved
<1>5. /\ SlotOK(gui, slot', written) /\ slot'.token = slot.token /\ slot'.line = slot.line
      /\ slot'.queued => slot.queued
  BY <1>1, PublishedIs
<1> QED BY <1>1, <1>2, <1>4, <1>5, MoveKeeps

LEMMA TakeFrameKeeps ==
  ASSUME DeliveryInv, NEW w \in WorkerIds, TakeFrame(w)
  PROVE  DeliveryInv'
<1> DEFINE fr == [token |-> slot.token, line |-> slot.line]
           x == [workers[w] EXCEPT !.frame = fr]
           s2 == [slot EXCEPT !.queued = FALSE]
<1>1. /\ Sound(core, gui, slot, workers, driver, lines, withdrawn, written)
      /\ SlotOK(gui, slot, written) /\ workers \in [WorkerIds -> WorkerType]
  BY WorkersAre
<1>2. /\ workers[w].at = "up" /\ driver.live = w /\ slot.queued
      /\ workers' = [workers EXCEPT ![w].frame = fr] /\ slot' = s2
      /\ UNCHANGED <<core, gui, driver, lines, withdrawn, written>>
  BY DEF TakeFrame
<1>3. slot \in SlotType /\ slot # NoSlot /\ slot.result = "none"
  BY <1>1, <1>2, EmptyValues DEF SlotOK
<1>4. /\ s2 \in SlotType /\ s2.token = slot.token /\ s2.line = slot.line /\ s2.queued = FALSE
      /\ s2.result = slot.result
  BY <1>3 DEF SlotType
<1>5. fr \in FrameType /\ fr.token = slot.token /\ fr.line = slot.line
  BY <1>3 DEF SlotType, FrameType
<1>6. workers' = [workers EXCEPT ![w] = x]
  BY <1>2
<1> HIDE DEF fr, s2
<1>7. /\ x \in WorkerType /\ x.at = "up" /\ x.frame = fr /\ x.gen = workers[w].gen
      /\ x.greeted = workers[w].greeted
  <2> DEFINE y == workers[w]
  <2>1. y \in WorkerType /\ y.at = "up"
    BY <1>1, <1>2
  <2> HIDE DEF y
  <2>2. LET z == [y EXCEPT !.frame = fr] IN
        z \in WorkerType /\ z.at = y.at /\ z.frame = fr /\ z.gen = y.gen /\ z.greeted = y.greeted
    BY <1>5, <2>1 DEF WorkerType
  <2> QED BY <2>1, <2>2 DEF y
<1> HIDE DEF x
<1>8. SlotOK(gui, s2, written)
  <2>1. slot.token # 0
    BY <1>1, <1>3 DEF SlotOK
  <2>2. s2 # NoSlot
    BY <1>4, <2>1, EmptyValues
  <2> QED BY <1>1, <1>3, <1>4, <2>1, <2>2 DEF SlotOK
<1>9. Sound(core, gui, s2, [workers EXCEPT ![w] = x], driver, lines, withdrawn, written)
  <2>1. x.at # "none" /\ x.at # "publish" /\ workers[w].at # "none"
    BY <1>2, <1>7
  <2>2. x.frame.token = slot.token /\ x.frame.line = slot.line /\ slot.queued /\ driver.live = w
    BY <1>2, <1>5, <1>7
  <2>3. s2.queued => slot.queued
    BY <1>4
  <2> QED BY <1>1, <1>4, <1>7, <1>8, <2>1, <2>2, <2>3, WorkerStep
<1> QED BY <1>2, <1>6, <1>9 DEF DeliveryInv

LEMMA WriteFrameKeeps ==
  ASSUME DeliveryInv, NEW w \in WorkerIds, WriteFrame(w)
  PROVE  DeliveryInv'
<1> DEFINE y == workers[w]
           gr == y.greeted \/ y.frame.line.kind = "hello"
           x == [y EXCEPT !.at = "publish", !.greeted = gr]
           wr2 == written \cup Carries(y.frame.line)
<1>1. /\ Sound(core, gui, slot, workers, driver, lines, withdrawn, written)
      /\ SlotOK(gui, slot, written) /\ workers \in [WorkerIds -> WorkerType]
  BY WorkersAre
<1>2. /\ y.at = "up" /\ y.frame # NoFrame /\ written' = wr2
      /\ workers' = [workers EXCEPT ![w].at = "publish",
                                    ![w].greeted = @ \/ workers[w].frame.line.kind = "hello"]
      /\ UNCHANGED <<core, gui, slot, driver, lines, withdrawn>>
  BY DEF WriteFrame
<1>3. workers' = [workers EXCEPT ![w] = x]
  BY <1>1, <1>2
<1>4. y \in WorkerType /\ gr \in BOOLEAN /\ (y.greeted => gr)
  <2>1. y \in WorkerType
    BY <1>1
  <2> HIDE DEF y
  <2> QED BY <2>1 DEF WorkerType
<1> HIDE DEF y, gr
<1>5. /\ x \in WorkerType /\ x.at = "publish" /\ x.frame = y.frame /\ x.gen = y.gen
      /\ x.greeted = gr
  BY <1>4 DEF WorkerType, Places
<1> HIDE DEF x, wr2
<1>6. written \subseteq wr2 /\ wr2 \subseteq written \cup Carries(y.frame.line)
      /\ Carries(y.frame.line) \subseteq wr2
  BY DEF wr2
<1>7. SlotOK(gui, slot, wr2)
  BY <1>1, <1>6 DEF SlotOK
<1>8. Sound(core, gui, slot, [workers EXCEPT ![w] = x], driver, lines, withdrawn, wr2)
  <2>1. /\ workers[w].at # "none" /\ x.at # "none" /\ x.gen = workers[w].gen
        /\ workers[w].greeted => x.greeted
        /\ x.frame = workers[w].frame /\ x.frame # NoFrame /\ Carries(x.frame.line) \subseteq wr2
        /\ wr2 \subseteq written \cup Carries(workers[w].frame.line)
    BY <1>2, <1>4, <1>5, <1>6 DEF y
  <2> QED BY <1>1, <1>5, <1>6, <1>7, <2>1, WorkerStep
<1> QED BY <1>2, <1>3, <1>8 DEF DeliveryInv

-----------------------------------------------------------------------------
(* The invariant, and what follows from it. *)

LEMMA DeliveryInitially ==
  ASSUME DeliveryInit
  PROVE  DeliveryInv
<1>1. /\ core = [outbox |-> << >>, lease |-> 0, gen |-> 0, active |-> FALSE,
                 phase |-> "Connecting"]
      /\ gui = [hello |-> 1, staged |-> NoStaged] /\ slot = NoSlot
      /\ workers = [w \in WorkerIds |-> NoWorker]
      /\ driver = [live |-> 0, failed |-> FALSE] /\ lines = << >>
      /\ withdrawn = {} /\ written = {}
  BY DEF DeliveryInit
<1>2. /\ core \in CoreType /\ core.outbox = << >> /\ core.gen = 0 /\ core.lease = 0 /\ ~Leased(core)
      /\ core.phase = "Connecting"
  BY <1>1 DEF CoreType, Leased
<1>3. gui \in GuiType /\ gui.staged = NoStaged
  BY <1>1, EmptyValues DEF GuiType
<1>4. /\ NoWorker \in WorkerType /\ NoWorker.at = "none" /\ NoWorker.frame = NoFrame
  BY EmptyValues DEF NoWorker, WorkerType, Places
<1>5. workers \in [WorkerIds -> WorkerType] /\ \A w \in WorkerIds : workers[w] = NoWorker
  BY <1>1, <1>4
<1>6. Flying(gui, slot, workers) = {}
  BY <1>1, <1>3, <1>4, <1>5, EmptyValues DEF Flying
<1>7. lines \in Seq(QueuedType) /\ DOMAIN lines = {} /\ DOMAIN core.outbox = {} /\ Len(lines) = 0
  BY <1>1, <1>2
<1>8. OutboxOK(core, lines, withdrawn, written, Flying(gui, slot, workers) \cup written)
  BY <1>1, <1>2, <1>6, <1>7 DEF OutboxOK, InOrder, Before, Marked, Accounted
<1>9. StagedOK(core, gui)
  BY <1>2, <1>3 DEF StagedOK
<1>10. SlotOK(gui, slot, written)
  BY <1>1, <1>3, EmptyValues DEF SlotOK
<1>11. FramesOK(slot, workers, written)
  BY <1>4, <1>5, EmptyValues DEF FramesOK
<1>12. ConnectionOK(core, slot, workers, driver, lines)
  <2>1. MaxConnections \in Nat /\ 0 \in 0 .. MaxConnections
    BY DeliveryAssumption
  <2>2. driver \in DriverType /\ driver.live = 0 /\ driver.failed = FALSE
    BY <1>1, <2>1 DEF DriverType
  <2>3. \A w \in WorkerIds : workers[w].at # "none" <=> w <= 0
    BY <1>4, <1>5, <2>1 DEF WorkerIds
  <2>4. \A w \in WorkerIds : FitsConnection(workers[w].frame.line, lines, workers[w])
    BY <1>4, <1>5, EmptyValues DEF FitsConnection
  <2>5. ~slot.queued
    BY <1>1, EmptyValues
  <2> QED BY <1>2, <2>1, <2>2, <2>3, <2>4, <2>5 DEF ConnectionOK
<1> QED BY <1>7, <1>8, <1>9, <1>10, <1>11, <1>12, DeliveryAssumption DEF DeliveryInv, Sound

LEMMA DeliveryStep ==
  ASSUME DeliveryInv, DeliveryNext
  PROVE  DeliveryInv'
<1>1. CASE Queue
  BY <1>1, QueueReliableKeeps, ChangeRoomKeeps, QueueScopedKeeps, QueueStateKeeps, WithdrawKeeps
     DEF Queue
<1>2. CASE RefreshHello
  BY <1>2, RefreshHelloKeeps
<1>3. CASE Owner
  BY <1>3, FlushKeeps, StartWorkerKeeps, NoticeFailureKeeps, ReconnectKeeps, ReceiveHelloKeeps
     DEF Owner
<1>4. ASSUME NEW w \in WorkerIds, Working(w) \/ ConnectFails(w) \/ Break(w) PROVE DeliveryInv'
  BY <1>4, ConnectKeeps, TakeFrameKeeps, WriteFrameKeeps, PublishWrittenKeeps, FailPendingKeeps,
     DropCheckKeeps, DropFailKeeps, ConnectFailsKeeps, BreakKeeps DEF Working
<1> QED BY <1>1, <1>2, <1>3, <1>4 DEF DeliveryNext

LEMMA PendingIs ==
  Pending = PendingIn(core.outbox)
BY DEF Pending, PendingIn, Range

LEMMA InvTyped ==
  ASSUME DeliveryInv
  PROVE  DeliveryTypeOK
<1>1. /\ OutboxOK(core, lines, withdrawn, written, Flying(gui, slot, workers) \cup written)
      /\ Len(lines) <= MaxLines /\ StagedOK(core, gui) /\ SlotOK(gui, slot, written)
      /\ ConnectionOK(core, slot, workers, driver, lines)
  BY DEF DeliveryInv, Sound
<1>2. /\ core \in CoreType /\ lines \in Seq(QueuedType) /\ core.gen \in Nat
      /\ Leased(core) => core.outbox # << >>
      /\ \A i \in DOMAIN core.outbox : core.outbox[i].cancelled => i = 1 /\ Leased(core)
      /\ withdrawn \subseteq DOMAIN lines
  BY <1>1, OutboxIs
<1>3. written \subseteq DOMAIN lines
  BY <1>1 DEF OutboxOK
<1>4. DOMAIN lines \subseteq LineNumbers
  BY <1>1, <1>2, DeliveryAssumption DEF LineNumbers
<1>5. core.gen \in 0 .. 2 * MaxConnections
  <2>1. PICK k \in 0 .. MaxConnections :
       /\ driver.live # 0 => core.gen + 2 = 2 * k
       /\ driver.failed => core.gen + 1 = 2 * k
       /\ driver.live = 0 /\ ~driver.failed => core.gen = 0
    BY <1>1 DEF ConnectionOK
  <2> QED BY <1>2, <2>1, DeliveryAssumption
<1>6. /\ core.phase \in {"Connecting", "Reconnecting", "AwaitingHello", "Active"}
      /\ core.active \in BOOLEAN
  BY <1>2 DEF CoreType
<1>7. Leased(core) => core.lease = gui.staged.lease
  BY <1>1 DEF StagedOK
<1>8. gui.hello \in 0 .. 2 /\ (gui.staged # NoStaged => gui.staged.token = slot.token)
  BY <1>1 DEF StagedOK, SlotOK, GuiType
<1>9. slot.queued \in BOOLEAN /\ slot.result \in {"none", "written", "failed"}
  BY <1>1 DEF SlotOK, SlotType
<1>10. driver.live \in WorkerIds \cup {0} /\ driver.failed \in BOOLEAN
  <2>1. driver \in DriverType
    BY <1>1 DEF ConnectionOK
  <2> QED BY <2>1, DeliveryAssumption DEF DriverType, WorkerIds
<1> QED BY <1>2, <1>3, <1>4, <1>5, <1>6, <1>7, <1>8, <1>9, <1>10 DEF DeliveryTypeOK

LEMMA InvLosesNothing ==
  ASSUME DeliveryInv
  PROVE  NothingIsLost
<1> DEFINE F == Flying(gui, slot, workers) \cup written
<1>1. OutboxOK(core, lines, withdrawn, written, F)
  BY DEF DeliveryInv, Sound
<1>2. /\ lines \in Seq(QueuedType) /\ core.outbox \in Seq(LineType) /\ core.gen \in Nat
      /\ DOMAIN core.outbox = 1 .. Len(core.outbox)
      /\ \A i \in DOMAIN core.outbox : Genuine(core.outbox[i], lines, core.gen)
  BY <1>1, OutboxIs
<1>3. /\ Accounted(core, lines, withdrawn, written) /\ InOrder(core.outbox)
      /\ Before(core.outbox, F) /\ written \subseteq F
  BY <1>1 DEF OutboxOK
<1>4. DOMAIN lines = 1 .. Len(lines)
  BY <1>2
<1>5. ASSUME NEW n \in 1 .. Len(lines)
      PROVE  \/ n \in Pending \cup written \cup withdrawn
             \/ lines[n].kind # "reliable" /\ lines[n].gen # core.gen
             \/ /\ lines[n].kind = "ready"
                /\ \E m \in (Pending \cup written) : m > n /\ lines[m].kind = "ready"
  <2>1. n \in DOMAIN lines
    BY <1>4
  <2> QED BY <1>3, <2>1, PendingIs DEF Accounted
<1>6. ASSUME NEW j \in DOMAIN core.outbox, NEW i \in 1 .. j - 1,
             NEW m \in Carries(core.outbox[i]), NEW n \in Carries(core.outbox[j])
      PROVE  m < n /\ n \notin written
  <2>1. i \in DOMAIN core.outbox /\ i < j /\ j > 1
    BY <1>2
  <2>2. m < n
    BY <1>3, <2>1 DEF InOrder
  <2>3. n \in Nat
    BY <1>2, CarriesOf
  <2>4. n \in F => n < n
    BY <1>3, <2>1 DEF Before
  <2> QED BY <1>3, <2>2, <2>3, <2>4
<1> QED BY <1>5, <1>6 DEF NothingIsLost

LEMMA InvScoped ==
  ASSUME DeliveryInv
  PROVE  ScopedStaysOnItsConnection
<1>1. \A w \in WorkerIds : FitsConnection(workers[w].frame.line, lines, workers[w])
  BY DEF DeliveryInv, Sound, ConnectionOK
<1> QED BY <1>1 DEF FitsConnection, ScopedStaysOnItsConnection

\* What a step stages was not withdrawn.
NotResent == gui'.staged # gui.staged => Carries(gui'.staged.line) \cap withdrawn = {}

LEMMA FlushResendsNothing ==
  ASSUME DeliveryInv, Flush
  PROVE  NotResent
<1> DEFINE R == ApplyResult(core, gui, slot)
           B == Begin(R[1], R[2])
<1>1. /\ Sound(R[1], R[2], R[3], workers, driver, lines, withdrawn, written)
      /\ R[3].result = "none"
      /\ slot.result # "none" => R[2].staged = NoStaged
      /\ slot.result = "none" => R = <<core, gui, slot>>
  BY AppliedKeeps DEF DeliveryInv
<1>2. \/ B = <<R[1], R[2]>>
      \/ R[3] = NoSlot /\ R[2].staged = NoStaged /\ Fresh(R[1], B[2].staged.line)
  <2> HIDE DEF R
  <2> QED BY <1>1, BegunIs
<1>3. IF B[2].staged # R[2].staged /\ R[3] # NoSlot THEN TRUE ELSE gui' = B[2]
  BY DEF Flush
<1>4. R[2].staged \in {gui.staged, NoStaged}
  <2> HIDE DEF R
  <2> QED BY <1>1
<1>5. OutboxOK(R[1], lines, withdrawn, written, Flying(R[2], R[3], workers) \cup written)
  BY <1>1 DEF Sound
<1> HIDE DEF R, B
<1>6. CASE B = <<R[1], R[2]>>
  <2>1. gui' = R[2]
    BY <1>3, <1>6
  <2> QED BY <1>4, <2>1, EmptyValues DEF NotResent
<1>7. CASE R[3] = NoSlot /\ R[2].staged = NoStaged /\ Fresh(R[1], B[2].staged.line)
  <2>1. gui' = B[2]
    BY <1>3, <1>7
  <2>2. Carries(B[2].staged.line) \cap withdrawn = {}
    <3>1. CASE Carries(B[2].staged.line) = {}
      BY <3>1
    <3>2. CASE ~Leased(R[1]) /\ R[1].outbox # << >> /\ B[2].staged.line = R[1].outbox[1]
      <4>1. /\ R[1].outbox \in Seq(LineType)
            /\ \A i \in DOMAIN R[1].outbox :
                 /\ R[1].outbox[i].cancelled => Leased(R[1])
                 /\ Carries(R[1].outbox[i]) \cap withdrawn # {} => R[1].outbox[i].cancelled
        BY <1>5, OutboxIs
      <4>2. 1 \in DOMAIN R[1].outbox
        BY <3>2, <4>1
      <4> QED BY <3>2, <4>1, <4>2
    <3> QED BY <1>7, <3>1, <3>2 DEF Fresh
  <2> QED BY <2>1, <2>2 DEF NotResent
<1> QED BY <1>2, <1>6, <1>7

LEMMA NothingIsResent ==
  ASSUME DeliveryInv, [DeliveryNext]_deliveryVars
  PROVE  NotResent
<1>1. CASE gui' = gui
  BY <1>1 DEF NotResent
<1>2. CASE Flush
  BY <1>2, FlushResendsNothing
<1>3. CASE RefreshHello
  <2>1. gui \in GuiType
    BY DEF DeliveryInv, Sound, StagedOK
  <2>2. gui'.staged = gui.staged
    BY <1>3, <2>1 DEF RefreshHello, GuiType
  <2> QED BY <2>2 DEF NotResent
<1>4. CASE Reconnect
  <2>1. gui'.staged = NoStaged
    BY <1>4 DEF Reconnect
  <2> QED BY <2>1, EmptyValues DEF NotResent
<1>5. CASE NoticeFailure
  <2> DEFINE f == FailSlot(slot)
             R == ApplyResult(core, gui, f)
  <2>1. /\ Sound(core, gui, slot, workers, driver, lines, withdrawn, written)
        /\ SlotOK(gui, slot, written)
    BY DEF DeliveryInv, Sound
  <2>2. SlotOK(gui, f, written) /\ f.token = slot.token /\ f.line = slot.line /\ ~f.queued
    BY <2>1, FailSlotIs
  <2> HIDE DEF f
  <2>3. Sound(core, gui, f, workers, driver, lines, withdrawn, written)
    BY <2>1, <2>2, SameLine
  <2>4. /\ f.result # "none" => R[2].staged = NoStaged
        /\ f.result = "none" => R = <<core, gui, f>>
    BY <2>3, AppliedKeeps
  <2>5. gui' = R[2]
    BY <1>5 DEF NoticeFailure, R, f
  <2> HIDE DEF R
  <2>6. gui'.staged \in {gui.staged, NoStaged}
    BY <2>4, <2>5
  <2> QED BY <2>6, EmptyValues DEF NotResent
<1>6. gui' = gui \/ Flush \/ RefreshHello \/ Reconnect \/ NoticeFailure
  <2>1. CASE UNCHANGED deliveryVars
    BY <2>1 DEF deliveryVars
  <2>2. CASE Queue
    BY <2>2 DEF Queue, QueueReliable, ChangeRoom, QueueScoped, QueueState, Withdraw
  <2>3. CASE Owner
    BY <2>3 DEF Owner, StartWorker, ReceiveHello
  <2>4. ASSUME NEW w \in WorkerIds, Working(w) \/ ConnectFails(w) \/ Break(w) PROVE gui' = gui
    BY <2>4 DEF Working, Connect, TakeFrame, WriteFrame, PublishWritten, FailPending, DropCheck,
                DropFail, ConnectFails, Break
  <2> QED BY <2>1, <2>2, <2>3, <2>4 DEF DeliveryNext
<1> QED BY <1>1, <1>2, <1>3, <1>4, <1>5, <1>6

\* The inductive invariant of the deliveries: the outbox (kinds, order, marks, what is
\* accounted for), the staged delivery, the slot, the frames of the workers and the
\* generations of the connections agree.
THEOREM DeliveryIsInductive ==
  DeliverySpec => []DeliveryInv
<1>1. DeliveryInit => DeliveryInv
  BY DeliveryInitially
<1>2. DeliveryInv /\ [DeliveryNext]_deliveryVars => DeliveryInv'
  <2>1. DeliveryInv /\ UNCHANGED deliveryVars => DeliveryInv'
    BY DEF deliveryVars, DeliveryInv
  <2> QED BY <2>1, DeliveryStep
<1> QED BY <1>1, <1>2, PTL DEF DeliverySpec

\* The types, and what the owner relies on without a lock: a lease is the staged
\* delivery's, and a staged delivery is the one that the slot tracks.
THEOREM DeliveryIsTyped ==
  DeliverySpec => []DeliveryTypeOK
<1>1. DeliveryInv => DeliveryTypeOK
  BY InvTyped
<1> QED BY <1>1, DeliveryIsInductive, PTL

\* However deliveries fail and connections are replaced, a reliable line is pending or was
\* written, and no later line overtakes it.
THEOREM NoLineIsLost ==
  DeliverySpec => []NothingIsLost
<1>1. DeliveryInv => NothingIsLost
  BY InvLosesNothing
<1> QED BY <1>1, DeliveryIsInductive, PTL

\* No connection carries what was queued for another one, or anything before its Hello.
THEOREM ScopeIsKept ==
  DeliverySpec => []ScopedStaysOnItsConnection
<1>1. DeliveryInv => ScopedStaysOnItsConnection
  BY InvScoped
<1> QED BY <1>1, DeliveryIsInductive, PTL

\* A line that was withdrawn is not staged again when the delivery it was in fails.
THEOREM WithdrawnStaysWithdrawn ==
  DeliverySpec => WithdrawnIsNeverResent
<1>1. DeliveryInv /\ [DeliveryNext]_deliveryVars =>
        [gui'.staged # gui.staged => Carries(gui'.staged.line) \cap withdrawn = {}]_deliveryVars
  BY NothingIsResent DEF NotResent
<1> QED BY <1>1, DeliveryIsInductive, PTL DEF DeliverySpec, WithdrawnIsNeverResent
=============================================================================
