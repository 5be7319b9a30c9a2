-------------------------- MODULE MCPluginLifetime --------------------------
(* Instances of PluginLifetime for TLC. *)
EXTENDS PluginLifetime, TLC

CONSTANTS T1, T2, P1, P2, P3, W1, W2, S1, X, Y, X1, Y1, KX, KY

(* Instance X1 is of plugin X, which provides the interface KX, and Y1 of  *)
(* plugin Y, which provides KY.  P3 is specialized for both.               *)
InstClass  == [i \in Insts |-> IF i = Y1 THEN Y ELSE X]
OwnKind    == [x \in Infos |-> IF x = X THEN {KX} ELSE {KY}]
Plain      == [p \in Ptrs |-> <<>>]
ThirdSpec  == [p \in Ptrs |-> IF p = P3 THEN <<KY, KX>> ELSE <<>>]

(* Programs that never empty a PluginPtr in place and never lock a weak    *)
(* one, and programs that do one or the other while the Loader forgets     *)
(* nothing.                                                                *)
SafePrograms == {{"forget", "share"}, {"clear", "share", "static"}, {"lock"}}
ClearProgram == {{"forget", "clear"}}
LockProgram  == {{"forget", "lock", "share"}, {"static", "lock", "share"}}
SwapProgram  == {{"clear"}}

Perms == Permutations(Threads) \cup Permutations({P1, P2})
           \cup Permutations(Weaks)
=============================================================================
