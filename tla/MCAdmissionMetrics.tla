-------------------------- MODULE MCAdmissionMetrics --------------------------
(***************************************************************************)
(* Requests for one pair.  Requests of different pairs share no key, so    *)
(* further pairs would add nothing but their product.                      *)
(***************************************************************************)
EXTENDS AdmissionMetrics

CONSTANTS r1, r2, r3, p1

AllForOnePair == [r \in Requests |-> p1]
=============================================================================
