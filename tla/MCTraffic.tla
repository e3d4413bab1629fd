------------------------------ MODULE MCTraffic ------------------------------
(***************************************************************************)
(* An instance of each part of what passes between a server and its        *)
(* clients: the number of connections and the bytes queued for them that a *)
(* server admits, the queue of a connection, and the lines a client sends. *)
(* They share no variable, so a behaviour exercises one of them, which its *)
(* initial state chooses.                                                  *)
(***************************************************************************)
EXTENDS ConnectionAdmission, ByteBudget, OutboundQueue, SessionDelivery

CONSTANTS home, away, p1, p2, r1, r2, r3

\* Five sockets, three of them from one address.
Household == [c \in Connections |-> IF c <= 3 THEN home ELSE away]

\* Three reservations of two peers.
TwoOfOne == [r \in Reservations |-> IF r = r3 THEN p2 ELSE p1]

VARIABLE part   \* the component this behaviour exercises

Init ==
  /\ part \in {"admission", "budget", "queue", "delivery"}
  /\ AdmissionInit /\ BudgetInit /\ QueueInit /\ DeliveryInit

Next ==
  /\ UNCHANGED part
  /\ \/ /\ part = "admission" /\ AdmissionNext
        /\ UNCHANGED <<budgetVars, queueVars, deliveryVars>>
     \/ /\ part = "budget" /\ BudgetNext
        /\ UNCHANGED <<admissionVars, queueVars, deliveryVars>>
     \/ /\ part = "queue" /\ QueueNext
        /\ UNCHANGED <<admissionVars, budgetVars, deliveryVars>>
     \/ /\ part = "delivery" /\ DeliveryNext
        /\ UNCHANGED <<admissionVars, budgetVars, queueVars>>

\* The types of the byte budget, of the queue and of the delivery; those of admission are
\* part of AdmissionIsExact.
TypeOK == BudgetTypeOK /\ QueueTypeOK /\ DeliveryTypeOK

\* DeliveryFairness, of the behaviours that exercise the delivery.
FairDelivery ==
  /\ WF_deliveryVars(part = "delivery" /\ Owner)
  /\ \A w \in WorkerIds : WF_deliveryVars(part = "delivery" /\ Working(w))

Spec ==
  /\ Init
  /\ [][Next]_<<part, admissionVars, budgetVars, queueVars, deliveryVars>>
  /\ QueueFairness
  /\ FairDelivery
=============================================================================
