------------------------------ MODULE MCClient -------------------------------
(***************************************************************************)
(* An instance of the loads of a client's player and one of the delivery   *)
(* of its lines.  They share no variable, so a behaviour exercises one of  *)
(* them, which its initial state chooses.  The files film and song are     *)
(* interchangeable.                                                        *)
(***************************************************************************)
EXTENDS PlayerLoads, SessionDelivery, TLC

CONSTANTS film, song

Symmetry == Permutations({film, song})

VARIABLE part   \* the component this behaviour exercises

Init == part \in {"player", "delivery"} /\ PlayerInit /\ DeliveryInit

Next ==
  /\ UNCHANGED part
  /\ \/ part = "player" /\ PlayerNext /\ UNCHANGED deliveryVars
     \/ part = "delivery" /\ DeliveryNext /\ UNCHANGED playerVars

\* The types of both.
TypeOK == PlayerTypeOK /\ DeliveryTypeOK

Spec == Init /\ [][Next]_<<part, playerVars, deliveryVars>>
=============================================================================
