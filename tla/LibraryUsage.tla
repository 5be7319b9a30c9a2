---------------------------- MODULE LibraryUsage ----------------------------
(***************************************************************************)
(* What the loading of libraries promises to the program: code of a        *)
(* library may be used, by an Info or by a plugin instance, only from a    *)
(* moment when the library is loaded, and from then on the library stays   *)
(* loaded until nothing uses it.  Who counts what, and who closes which    *)
(* handle, is not visible here.                                            *)
(***************************************************************************)
CONSTANTS
  Libs,    \* the libraries
  Users    \* the objects that can depend on the code of a library

VARIABLES
  mapped,  \* the libraries that are loaded
  users    \* users[lib]: the objects that depend on it

usageVars == <<mapped, users>>

Init ==
  /\ mapped = {}
  /\ users = [lib \in Libs |-> {}]

Map(lib) ==
  /\ lib \notin mapped
  /\ mapped' = mapped \cup {lib}
  /\ UNCHANGED users

Unmap(lib) ==
  /\ lib \in mapped
  /\ users[lib] = {}
  /\ mapped' = mapped \ {lib}
  /\ UNCHANGED users

(* Objects start to depend on the library. *)
Use(lib) ==
  /\ lib \in mapped
  /\ users' \in [Libs -> SUBSET Users]
  /\ users[lib] \subseteq users'[lib]
  /\ \A other \in Libs \ {lib} : users'[other] = users[other]
  /\ UNCHANGED mapped

(* Objects go: one instance, one Info, or all those that a Loader keeps.   *)
Leave ==
  /\ users' \in [Libs -> SUBSET Users]
  /\ \A lib \in Libs : users'[lib] \subseteq users[lib]
  /\ UNCHANGED mapped

Next == Leave \/ \E lib \in Libs : Map(lib) \/ Unmap(lib) \/ Use(lib)

Spec == Init /\ [][Next]_usageVars
=============================================================================
