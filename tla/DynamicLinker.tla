--------------------------- MODULE DynamicLinker ---------------------------
(***************************************************************************)
(* The dlopen/dlclose service the Loader is built on, as loader/src/       *)
(* Loader.cc uses it: one process-wide count of opens per library, a       *)
(* handle that stays the same while the library is loaded, and unloading   *)
(* when the count returns to zero unless RTLD_NODELETE was ever given.     *)
(*                                                                         *)
(* A handle is an address.  Once a library is unloaded its address may be  *)
(* given to another one, so a handle kept past that point may denote a     *)
(* different library.                                                      *)
(***************************************************************************)
EXTENDS Naturals

CONSTANTS
  Libs,      \* the libraries that exist on disk
  Handles,   \* the addresses dlopen can return
  NoHandle   \* the null handle

ASSUME LinkerAssumption == NoHandle \notin Handles

VARIABLES
  opens,     \* opens[lib]: calls of dlopen not yet matched by dlclose
  handleOf,  \* handleOf[lib]: its handle, NoHandle while it is not loaded
  noDelete   \* the libraries opened with RTLD_NODELETE

dlVars == <<opens, handleOf, noDelete>>

Mapped(lib) == handleOf[lib] # NoHandle

FreeHandles == {h \in Handles : \A lib \in Libs : handleOf[lib] # h}

DlTypeOK ==
  /\ opens \in [Libs -> Nat]
  /\ handleOf \in [Libs -> Handles \cup {NoHandle}]
  /\ noDelete \in SUBSET Libs

DlInit ==
  /\ opens = [lib \in Libs |-> 0]
  /\ handleOf = [lib \in Libs |-> NoHandle]
  /\ noDelete = {}

(* dlopen(path of lib, mode) returning h, where keep says whether the mode *)
(* has RTLD_NODELETE.                                                      *)
DlOpen(lib, h, keep) ==
  /\ IF Mapped(lib) THEN h = handleOf[lib] ELSE h \in FreeHandles
  /\ opens' = [opens EXCEPT ![lib] = @ + 1]
  /\ handleOf' = [handleOf EXCEPT ![lib] = h]
  /\ noDelete' = IF keep THEN noDelete \cup {lib} ELSE noDelete

(* dlopen(path of lib, RTLD_NOLOAD) returning the non-null h. *)
DlProbe(lib, h) == Mapped(lib) /\ DlOpen(lib, h, FALSE)

(* dlclose(h) *)
DlClose(h) ==
  \E lib \in Libs :
    /\ handleOf[lib] = h
    /\ opens[lib] > 0
    /\ opens' = [opens EXCEPT ![lib] = @ - 1]
    /\ handleOf' = IF opens[lib] = 1 /\ lib \notin noDelete
                   THEN [handleOf EXCEPT ![lib] = NoHandle]
                   ELSE handleOf
    /\ UNCHANGED noDelete
=============================================================================
