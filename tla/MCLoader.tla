------------------------------ MODULE MCLoader ------------------------------
(* Instances of Loader for TLC. *)
EXTENDS Loader, TLC

CONSTANTS T1, T2, LA, LB, I1, I2, L1, L2, L3, H1, H2, P, Q, A

(* L1 provides a plugin, L2 two.  P and Q claim the alias A, which is also *)
(* the name of a plugin, and the executable has a plugin that goes by P.   *)
UniqueExports == [lib \in Libs |-> IF lib = L1 THEN {P} ELSE {Q, A}]
SharedAlias   == [lib \in Libs |-> [n \in Symbols |-> {A} \ {n}]]
StaticP       == {[name |-> P, aliases |-> {}, lib |-> Exe]}

(* Two libraries that both provide P. *)
SharedExports == [lib \in Libs |-> {P}]
OwnAlias      == [lib \in Libs |-> [n \in Symbols |->
                                     IF lib = L1 THEN {} ELSE {A}]]

(* L1 and L2 both provide P, L2 also Q; L3 provides nothing. *)
OverlappingExports == [lib \in Libs |-> CASE lib = L1 -> {P}
                                          [] lib = L2 -> {P, Q}
                                          [] lib = L3 -> {}]

(* A static plugin whose name is the alias of one loaded from file. *)
StaticName  == {[name |-> A, aliases |-> {}, lib |-> Exe]}
NoStatics   == {}

Perms == Permutations(Threads) \cup Permutations(Loaders)
           \cup Permutations(Insts) \cup Permutations(Handles)
=============================================================================
