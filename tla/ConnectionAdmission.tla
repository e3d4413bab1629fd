------------------------ MODULE ConnectionAdmission ------------------------
(***************************************************************************)
(* Admission of connections (crates/sorotte-server/src/resources.rs): a    *)
(* permit is taken before a connection's worker starts, loses its          *)
(* unauthenticated share when a session exists, and is returned when it is *)
(* dropped, however the connection ends.  All counters are under one mutex.*)
(***************************************************************************)
EXTENDS Naturals, FiniteSets

CONSTANTS
  Connections,      \* accepted sockets
  Addresses,        \* client addresses, IPv4-mapped ones as IPv4
  AddressOf,        \* the address a socket comes from
  MaxActive,        \* active_connections
  MaxUnauthenticated,
  MaxPerAddress

ASSUME AdmissionAssumption ==
  /\ IsFiniteSet(Connections) /\ AddressOf \in [Connections -> Addresses]
  /\ MaxActive \in Nat /\ MaxUnauthenticated \in Nat /\ MaxPerAddress \in Nat

VARIABLES
  permit,            \* the ConnectionPermit of each socket
  active,            \* Admission::active
  unauthenticated,   \* Admission::unauthenticated
  addresses          \* Admission::addresses; an absent bucket is 0

admissionVars == <<permit, active, unauthenticated, addresses>>

Permits == {"None", "Unauthenticated", "Authenticated"}

AdmissionInit ==
  /\ permit = [c \in Connections |-> "None"]
  /\ active = 0 /\ unauthenticated = 0 /\ addresses = [a \in Addresses |-> 0]

\* `admit`; a refused connection only counts in the telemetry of rejections.
Admit(c) ==
  LET a == AddressOf[c]
  IN /\ permit[c] = "None"
     /\ active < MaxActive /\ unauthenticated < MaxUnauthenticated
     /\ addresses[a] < MaxPerAddress
     /\ permit' = [permit EXCEPT ![c] = "Unauthenticated"]
     /\ active' = active + 1 /\ unauthenticated' = unauthenticated + 1
     /\ addresses' = [addresses EXCEPT ![a] = @ + 1]

\* `authenticated`, called after every handled line once the session exists; only the
\* first call changes anything.
Authenticated(c) ==
  /\ permit[c] = "Unauthenticated"
  /\ permit' = [permit EXCEPT ![c] = "Authenticated"]
  /\ unauthenticated' = unauthenticated - 1
  /\ UNCHANGED <<active, addresses>>

\* Fault: the drop forgets that the share may have been returned already.
BlindRelease(c) ==
  LET a == AddressOf[c]
  IN /\ permit[c] # "None"
     /\ permit' = [permit EXCEPT ![c] = "None"]
     /\ active' = active - 1
     /\ unauthenticated' = IF unauthenticated > 0 THEN unauthenticated - 1 ELSE 0
     /\ addresses' = [addresses EXCEPT ![a] = @ - 1]

\* The drop of the permit.
Release(c) ==
  LET a == AddressOf[c]
  IN /\ permit[c] # "None"
     /\ permit' = [permit EXCEPT ![c] = "None"]
     /\ active' = active - 1
     /\ unauthenticated' =
          IF permit[c] = "Unauthenticated" THEN unauthenticated - 1 ELSE unauthenticated
     /\ addresses' = [addresses EXCEPT ![a] = @ - 1]

AdmissionNext == \E c \in Connections : Admit(c) \/ Authenticated(c) \/ Release(c)

AdmissionSpec == AdmissionInit /\ [][AdmissionNext]_admissionVars

-----------------------------------------------------------------------------
Admitted == {c \in Connections : permit[c] # "None"}
Waiting == {c \in Connections : permit[c] = "Unauthenticated"}
AdmittedFrom(a) == {c \in Admitted : AddressOf[c] = a}

\* The counters under the mutex are those of the permits that exist, so a permit is
\* returned exactly once in each of its three shares, and the three limits hold of the
\* connections themselves (`admit`, `authenticated` and the drop of ConnectionPermit).
AdmissionIsExact ==
  /\ permit \in [Connections -> Permits] /\ addresses \in [Addresses -> Nat]
  /\ active = Cardinality(Admitted) /\ active <= MaxActive
  /\ unauthenticated = Cardinality(Waiting) /\ unauthenticated <= MaxUnauthenticated
  /\ \A a \in Addresses :
       /\ addresses[a] = Cardinality(AdmittedFrom(a))
       /\ addresses[a] <= MaxPerAddress
=============================================================================
