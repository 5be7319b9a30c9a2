----------------------------- MODULE MCFactory -----------------------------
(* Instances of Factory for TLC. *)
EXTENDS Factory, TLC

CONSTANTS T1, T2, F1, F2, P1, P2, L1

(* Every factory is of one library. *)
OneLibrary == [f \in Factories |-> L1]
=============================================================================
