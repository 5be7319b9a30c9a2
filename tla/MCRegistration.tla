--------------------------- MODULE MCRegistration ---------------------------
(***************************************************************************)
(* Instances of Registration for TLC.  Library X is linked to the plugin   *)
(* library Y; Z stands alone; V is built with another layout of Info, W    *)
(* with another version, N is no plugin library.  The plugins of X, Z and  *)
(* of the executable are each registered by several macros.                *)
(***************************************************************************)
EXTENDS Registration

CONSTANTS X, Y, Z, V, W, N, K1, K2, Cx, Cy, Cz, Cv, Cs, A

MCNameOf ==
  [c \in Classes |-> CASE c = Cx -> "x" [] c = Cy -> "y"
                       [] c = Cz -> "z" [] c = Cv -> "v"
                       [] c = Cs -> "s"]
MCSymbols == {"x", "y", "z", "v", "s", A}
MCInterfaceName ==
  [k \in Interfaces |-> CASE k = K1 -> "k1" [] k = K2 -> "k2"
                          [] k = FromThis -> "fromThis"]
MCInterfaceNames == {"k1", "k2", "fromThis"}

Plugin(c, ks) == [class |-> c, interfaces |-> ks, aliases |-> {},
                  alias |-> FALSE]
Alias(c, as) == [class |-> c, interfaces |-> {}, aliases |-> as,
                 alias |-> TRUE]

MCRegisters ==
  [o \in Objects |->
     CASE o = X   -> {Plugin(Cx, {K1}), Alias(Cx, {A})}
       [] o = Y   -> {Plugin(Cy, {K1, K2})}
       [] o = Z   -> {Plugin(Cz, {K1}), Plugin(Cz, {K2}), Alias(Cz, {A})}
       [] o = V   -> {Plugin(Cv, {K2})}
       [] o = Exe -> {Plugin(Cs, {K1}), Plugin(Cs, {K2}), Alias(Cs, {A})}
       [] OTHER   -> {}]

MCSearchList ==
  [lib \in Libs |-> IF lib = X THEN <<X, Y>> ELSE <<lib>>]
MCLinkOrder == <<>>
MCLinkedToY == <<Y>>

MCLoaderAbi == [version |-> 1, layout |-> 1]
MCAbi ==
  [lib \in Libs |-> [version |-> IF lib = W THEN 2 ELSE 1,
                     layout  |-> IF lib = V THEN 2 ELSE 1]]

(* The theorems of RegistrationProofs that need it apply to the instance   *)
(* in which the executable is linked to no plugin library.                 *)
ASSUME InstanceAssumption ==
  LinkOrder = <<>> => OwnHooks /\ UniqueNames /\ DistinctNames
=============================================================================
