--------------------------- MODULE RefCountProofs ---------------------------
(***************************************************************************)
(* The count of opens that the dynamic linker keeps for a library is, at   *)
(* every moment, at least the number of references that the Loaders and    *)
(* the threads have to its handle: nothing is closed twice, and nobody     *)
(* holds the handle of a library already unloaded.  It is exactly that     *)
(* number, so that nothing is left open, when no library is Noisy.         *)
(* Nothing is assumed of what the libraries provide.                       *)
(***************************************************************************)
EXTENDS LoaderProofs

USE FiniteAssumption

(* What remains of OpenCountExact when LoadLib may leave a library open,   *)
(* because it took a dlerror of its initialisers for its own.              *)
OpensCounted ==
  \A h \in Handles :
    /\ ReferenceCount(h) # 0 => \E lib \in Libs : handleOf[lib] = h
    /\ \A lib \in Libs :
         handleOf[lib] = h =>
           /\ opens[lib] >= ReferenceCount(h)
           /\ Noisy = {} => opens[lib] = ReferenceCount(h)

(* The inductive invariant.  Beside the count it says that no two loaded   *)
(* libraries share a handle, that the handle a LoadLib call works with is  *)
(* still the one of its library, and that an instance with a handle refers *)
(* to the control block of a Loader.                                       *)
CountInv ==
  /\ OpensCounted
  /\ \A lib \in Libs : ~Mapped(lib) => opens[lib] = 0
  /\ \A lib1, lib2 \in Libs :
       Mapped(lib1) /\ handleOf[lib1] = handleOf[lib2] => lib1 = lib2

HandleInv ==
  /\ \A t \in Threads : call[t].op \in {"opened", "register"} =>
                          handleOf[call[t].lib] = call[t].handle
  /\ \A i \in Insts : inst[i] # NoInst /\ inst[i].handle # NoHandle =>
                        inst[i].loader \in Loaders

-----------------------------------------------------------------------------
(* Counting                                                                *)

LEMMA CountsFinite ==
  ASSUME NEW h
  PROVE  /\ IsFiniteSet(Blocks(h)) /\ IsFiniteSet(Blocks(h)')
         /\ IsFiniteSet(Opening(h)) /\ IsFiniteSet(Opening(h)')
         /\ IsFiniteSet(Closing(h)) /\ IsFiniteSet(Closing(h)')
         /\ Cardinality(Blocks(h)) \in Nat /\ Cardinality(Blocks(h)') \in Nat
         /\ Cardinality(Opening(h)) \in Nat /\ Cardinality(Opening(h)') \in Nat
         /\ Cardinality(Closing(h)) \in Nat /\ Cardinality(Closing(h)') \in Nat
  <1>1. /\ Blocks(h) \subseteq Loaders /\ Blocks(h)' \subseteq Loaders
        /\ Opening(h) \subseteq Threads /\ Opening(h)' \subseteq Threads
        /\ Closing(h) \subseteq Threads /\ Closing(h)' \subseteq Threads
    BY DEF Blocks, Opening, Closing
  <1>2. /\ IsFiniteSet(Blocks(h)) /\ IsFiniteSet(Blocks(h)')
        /\ IsFiniteSet(Opening(h)) /\ IsFiniteSet(Opening(h)')
        /\ IsFiniteSet(Closing(h)) /\ IsFiniteSet(Closing(h)')
    BY <1>1, FS_Subset
  <1> QED BY <1>2, FS_CardinalityType

(* Adding an element to a set, or removing one, changes its size by one.   *)
LEMMA AddOne ==
  ASSUME NEW S, NEW T, NEW x, IsFiniteSet(S), x \notin S, T = S \cup {x}
  PROVE  Cardinality(T) = Cardinality(S) + 1
  BY FS_AddElement

LEMMA RemoveOne ==
  ASSUME NEW S, NEW T, NEW x, IsFiniteSet(S), x \in S, T = S \ {x}
  PROVE  Cardinality(T) = Cardinality(S) - 1 /\ Cardinality(S) > 0
  <1>1. IsFiniteSet(T) /\ x \notin T /\ S = T \cup {x}
    BY FS_Subset
  <1>2. Cardinality(S) = Cardinality(T) + 1
    BY <1>1, AddOne
  <1>3. Cardinality(T) \in Nat
    BY <1>1, FS_CardinalityType
  <1> QED BY <1>2, <1>3

(* A reference makes the count positive; two of them make it at least two. *)
LEMMA CountPositive ==
  ASSUME NEW h
  PROVE  /\ ReferenceCount(h) \in Nat
         /\ Blocks(h) # {} => ReferenceCount(h) > 0
         /\ Opening(h) # {} => ReferenceCount(h) > 0
         /\ Closing(h) # {} => ReferenceCount(h) > 0
         /\ Closing(h) # {} /\ (Blocks(h) # {} \/ Opening(h) # {})
              => ReferenceCount(h) > 1
  <1>1. /\ Cardinality(Blocks(h)) = 0 <=> Blocks(h) = {}
        /\ Cardinality(Opening(h)) = 0 <=> Opening(h) = {}
        /\ Cardinality(Closing(h)) = 0 <=> Closing(h) = {}
    BY CountsFinite, FS_EmptySet
  <1> QED BY <1>1, CountsFinite DEF ReferenceCount

-----------------------------------------------------------------------------
(* Steps that only move references                                         *)

(* When the counts and the linker stay as they are, so does the invariant. *)
LEMMA CountInvKept ==
  ASSUME CountInv, TypeOK, UNCHANGED dlVars,
         \A g \in Handles : ReferenceCount(g)' = ReferenceCount(g)
  PROVE  CountInv'
  <1>1. UNCHANGED <<opens, handleOf>>
    BY DEF dlVars
  <1>2. OpensCounted'
    BY <1>1 DEF CountInv, OpensCounted
  <1> QED BY <1>1, <1>2 DEF CountInv, Mapped

(* A step after which the same blocks are live and the same calls are      *)
(* opening and closing counts nothing differently.                         *)
LEMMA CountsSame ==
  ASSUME NEW g \in Handles,
         \A k \in Loaders : Live(k, g)' <=> Live(k, g),
         Opening(g)' = Opening(g), Closing(g)' = Closing(g)
  PROVE  ReferenceCount(g)' = ReferenceCount(g)
  <1>1. Blocks(g)' = Blocks(g)
    BY DEF Blocks
  <1> QED BY <1>1 DEF ReferenceCount

(* Letting go of a reference to the block <<l, h>>: either another owner   *)
(* is left and nothing changes, or the block's open is handed over to the  *)
(* thread, which will close it.                                            *)
LEMMA DropRefCounts ==
  ASSUME TypeOK, NEW t \in Threads, NEW l, NEW h \in Handles \cup {NoHandle},
         DropRef(t, l, h), closing[t] = NoHandle,
         h # NoHandle => l \in Loaders /\ Live(l, h),
         \A k \in Loaders, g \in Handles :
           k # l \/ g # h => (Live(k, g)' <=> Live(k, g)),
         \A g \in Handles : Opening(g)' = Opening(g)
  PROVE  \A g \in Handles : ReferenceCount(g)' = ReferenceCount(g)
  <1> SUFFICES ASSUME NEW g \in Handles
               PROVE  ReferenceCount(g)' = ReferenceCount(g)
    OBVIOUS
  <1>1. closing' = [closing EXCEPT ![t] =
                      IF h # NoHandle /\ ~Live(l, h)' THEN h ELSE NoHandle]
    BY DEF DropRef, Live, HasOwner
  <1>2. CASE h = NoHandle \/ Live(l, h)'
    <2>1. closing' = closing
      BY <1>1, <1>2 DEF TypeOK
    <2>2. ASSUME NEW k \in Loaders PROVE Live(k, g)' <=> Live(k, g)
      <3>1. CASE k = l /\ g = h
        <4>1. h # NoHandle
          BY <3>1, LinkerAssumption
        <4>2. Live(l, h)
          BY <4>1
        <4>3. Live(l, h)'
          BY <1>2, <4>1
        <4> QED BY <3>1, <4>2, <4>3
      <3>2. CASE k # l \/ g # h
        BY <3>2
      <3> QED BY <3>1, <3>2
    <2> QED BY <2>1, <2>2, CountsSame DEF Closing
  <1>3. CASE h # NoHandle /\ ~Live(l, h)'
    <2>1. closing' = [closing EXCEPT ![t] = h]
      BY <1>1, <1>3
    <2>2. CASE g # h
      <3>1. \A u \in Threads : closing'[u] = g <=> closing[u] = g
        <4>1. closing \in [Threads -> Handles \cup {NoHandle}] /\ NoHandle # g
          BY LinkerAssumption DEF TypeOK
        <4> QED BY <2>1, <2>2, <4>1
      <3>2. Closing(g)' = Closing(g)
        BY <3>1 DEF Closing
      <3> QED BY <2>2, <3>2, CountsSame
    <2>3. CASE g = h
      <3>1. l \in Blocks(g) /\ Blocks(g)' = Blocks(g) \ {l}
        <4>1. l \in Loaders /\ Live(l, g)
          BY <1>3, <2>3
        <4>2. ~Live(l, g)'
          BY <1>3, <2>3
        <4>3. \A k \in Loaders \ {l} : Live(k, g)' <=> Live(k, g)
          OBVIOUS
        <4> QED BY <4>1, <4>2, <4>3 DEF Blocks
      <3>2. t \notin Closing(g) /\ Closing(g)' = Closing(g) \cup {t}
        <4>1. closing \in [Threads -> Handles \cup {NoHandle}] /\ NoHandle # g
          BY LinkerAssumption DEF TypeOK
        <4>2. \A u \in Threads : closing'[u] = g <=> closing[u] = g \/ u = t
          BY <2>1, <2>3, <4>1
        <4> QED BY <4>1, <4>2 DEF Closing
      <3>3. Cardinality(Blocks(g)') = Cardinality(Blocks(g)) - 1
        BY <3>1, CountsFinite, RemoveOne
      <3>4. Cardinality(Closing(g)') = Cardinality(Closing(g)) + 1
        BY <3>2, CountsFinite, AddOne
      <3>5. Cardinality(Opening(g)') = Cardinality(Opening(g))
        OBVIOUS
      <3> QED BY <3>3, <3>4, <3>5, CountsFinite DEF ReferenceCount
    <2> QED BY <2>2, <2>3
  <1> QED BY <1>2, <1>3

(* The LoadLib calls that hold a handle are those at "opened" and at       *)
(* "register": a step that changes none of them, and none of the other     *)
(* references, changes no count.                                           *)
LEMMA OtherCallsCountNothing ==
  ASSUME UNCHANGED <<pluginToDlHandlePtrs, inst, closing>>,
         \A u \in Threads :
           call[u].op \in {"opened", "register"}
             \/ call'[u].op \in {"opened", "register"} => call'[u] = call[u]
  PROVE  \A g \in Handles : ReferenceCount(g)' = ReferenceCount(g)
  <1> SUFFICES ASSUME NEW g \in Handles
               PROVE  ReferenceCount(g)' = ReferenceCount(g)
    OBVIOUS
  <1>1. \A k \in Loaders : Live(k, g)' <=> Live(k, g)
    BY DEF Live, HasOwner
  <1>2. Opening(g)' = Opening(g) /\ Closing(g)' = Closing(g)
    BY DEF Opening, Closing
  <1> QED BY <1>1, <1>2, CountsSame

(* Likewise for the part of the invariant about handles. *)
LEMMA HandleInvKept ==
  ASSUME HandleInv, UNCHANGED handleOf,
         \A u \in Threads :
           call'[u].op \in {"opened", "register"} =>
             /\ call[u].op \in {"opened", "register"}
             /\ call'[u].lib = call[u].lib
             /\ call'[u].handle = call[u].handle,
         \A i \in Insts :
           \/ inst'[i] \in {inst[i], NoInst}
           \/ inst'[i].handle = NoHandle
           \/ inst'[i].loader \in Loaders
  PROVE  HandleInv'
  BY DEF HandleInv

(* An entry of pluginToDlHandlePtrs goes, in ForgetLibrary or ~Loader.     *)
LEMMA EntryGone ==
  ASSUME TypeOK, CountInv, NEW t \in Threads, NEW l \in Loaders,
         NEW n \in Symbols, closing[t] = NoHandle,
         pluginToDlHandlePtrs' =
           [pluginToDlHandlePtrs EXCEPT ![l][n] = NoHandle],
         DropRef(t, l, pluginToDlHandlePtrs[l][n]),
         UNCHANGED <<dlVars, inst>>,
         \A u \in Threads :
           call[u].op \in {"opened", "register"}
             \/ call'[u].op \in {"opened", "register"} => call'[u] = call[u]
  PROVE  CountInv'
  <1> DEFINE h == pluginToDlHandlePtrs[l][n]
  <1>1. h \in Handles \cup {NoHandle}
    BY DEF TypeOK
  <1>2. h # NoHandle => Live(l, h)
    BY DEF Live, HasOwner
  <1>3. ASSUME NEW k \in Loaders, NEW g \in Handles, k # l \/ g # h
        PROVE  Live(k, g)' <=> Live(k, g)
    <2>1. pluginToDlHandlePtrs \in
            [Loaders -> [Symbols -> Handles \cup {NoHandle}]]
      BY DEF TypeOK
    <2>2. g # NoHandle
      BY LinkerAssumption
    <2>3. \A m \in Symbols : pluginToDlHandlePtrs'[k][m] = g <=>
                             pluginToDlHandlePtrs[k][m] = g
      BY <1>3, <2>1, <2>2
    <2> QED BY <2>3 DEF Live, HasOwner
  <1>4. \A g \in Handles : Opening(g)' = Opening(g)
    BY DEF Opening
  <1> HIDE DEF h
  <1>5. DropRef(t, l, h)
    BY DEF h
  <1>6. \A g \in Handles : ReferenceCount(g)' = ReferenceCount(g)
    BY <1>1, <1>2, <1>3, <1>4, <1>5, DropRefCounts
  <1> QED BY <1>6, CountInvKept

-----------------------------------------------------------------------------
(* Steps that open or close                                                *)

(* A dlopen that returns h: the reference to h that appears with it is the *)
(* only change, and even that is missing when LoadLib gives up.            *)
LEMMA OpenCounts ==
  ASSUME TypeOK, CountInv, NEW lib \in Libs, NEW h \in Handles,
         NEW keep \in BOOLEAN, DlOpen(lib, h, keep),
         \/ ReferenceCount(h)' = ReferenceCount(h) + 1
         \/ Noisy # {} /\ ReferenceCount(h)' = ReferenceCount(h),
         \A g \in Handles \ {h} : ReferenceCount(g)' = ReferenceCount(g)
  PROVE  /\ CountInv'
         /\ \A other \in Libs :
              Mapped(other) => handleOf'[other] = handleOf[other]
         /\ handleOf'[lib] = h
  <1> USE DEF Mapped
  <1>1. /\ opens \in [Libs -> Nat] /\ NoHandle # h
        /\ handleOf \in [Libs -> Handles \cup {NoHandle}]
    BY LinkerAssumption DEF TypeOK, DlTypeOK
  <1>2. /\ opens' = [opens EXCEPT ![lib] = opens[lib] + 1]
        /\ handleOf' = [handleOf EXCEPT ![lib] = h]
    BY DEF DlOpen
  <1>3. \A other \in Libs \ {lib} : handleOf[other] # h
    <2>1. CASE Mapped(lib)
      BY <2>1, <1>1 DEF DlOpen, CountInv
    <2>2. CASE ~Mapped(lib)
      BY <2>2 DEF DlOpen, FreeHandles
    <2> QED BY <2>1, <2>2
  <1>4. \A other \in Libs : Mapped(other) => handleOf'[other] = handleOf[other]
    BY <1>1, <1>2 DEF DlOpen
  <1>5. /\ opens[lib] >= ReferenceCount(h)
        /\ Noisy = {} => opens[lib] = ReferenceCount(h)
    <2>1. CASE Mapped(lib)
      BY <2>1 DEF DlOpen, CountInv, OpensCounted
    <2>2. CASE ~Mapped(lib)
      <3>1. \A other \in Libs : handleOf[other] # h
        BY <2>2 DEF DlOpen, FreeHandles
      <3> QED BY <2>2, <3>1 DEF CountInv, OpensCounted
    <2> QED BY <2>1, <2>2
  <1>6. OpensCounted'
    <2> SUFFICES ASSUME NEW g \in Handles
                 PROVE  /\ ReferenceCount(g)' # 0 =>
                             \E other \in Libs : handleOf'[other] = g
                        /\ \A other \in Libs :
                             handleOf'[other] = g =>
                               /\ opens'[other] >= ReferenceCount(g)'
                               /\ Noisy = {} =>
                                    opens'[other] = ReferenceCount(g)'
      BY DEF OpensCounted
    <2>1. CASE g = h
      <3>1. opens'[lib] = opens[lib] + 1 /\ handleOf'[lib] = h
        BY <1>1, <1>2
      <3>2. \A other \in Libs : handleOf'[other] = h => other = lib
        BY <1>1, <1>2, <1>3
      <3>3. ReferenceCount(h) \in Nat /\ opens[lib] \in Nat
        BY <1>1, CountPositive
      <3> QED BY <2>1, <3>1, <3>2, <3>3, <1>5
    <2>2. CASE g # h
      <3>1. ReferenceCount(g)' = ReferenceCount(g)
        BY <2>2
      <3>2. \A other \in Libs : handleOf[other] = g => other # lib
        BY <2>2, <1>1, LinkerAssumption DEF DlOpen
      <3>3. \A other \in Libs : handleOf'[other] = g <=> handleOf[other] = g
        BY <2>2, <3>2, <1>1, <1>2
      <3> QED BY <3>1, <3>2, <3>3, <1>1, <1>2 DEF CountInv, OpensCounted
    <2> QED BY <2>1, <2>2
  <1>7. \A other \in Libs : ~Mapped(other)' => opens'[other] = 0
    BY <1>1, <1>2 DEF CountInv
  <1>8. \A lib1, lib2 \in Libs :
          Mapped(lib1)' /\ handleOf'[lib1] = handleOf'[lib2] => lib1 = lib2
    BY <1>1, <1>2, <1>3 DEF CountInv
  <1> QED BY <1>1, <1>2, <1>4, <1>6, <1>7, <1>8 DEF CountInv

(* A dlclose by thread t.  The handle keeps denoting its library while     *)
(* anything else refers to it.                                             *)
LEMMA CloseCounts ==
  ASSUME TypeOK, CountInv, NEW t \in Threads, CloseHandle(t)
  PROVE  /\ CountInv'
         /\ \A lib \in Libs :
              handleOf[lib] \in Handles
                /\ (Blocks(handleOf[lib]) # {} \/ Opening(handleOf[lib]) # {})
              => handleOf'[lib] = handleOf[lib]
  <1> USE DEF Mapped
  <1>0. PICK h \in Handles : h = closing[t]
    BY DEF CloseHandle, TypeOK
  <1>1. /\ h \in Handles /\ h # NoHandle
        /\ opens \in [Libs -> Nat]
        /\ handleOf \in [Libs -> Handles \cup {NoHandle}]
        /\ closing \in [Threads -> Handles \cup {NoHandle}]
    BY <1>0 DEF CloseHandle, TypeOK, DlTypeOK
  <1>2. PICK lib \in Libs :
          /\ handleOf[lib] = h
          /\ opens[lib] > 0
          /\ opens' = [opens EXCEPT ![lib] = opens[lib] - 1]
          /\ handleOf' = IF opens[lib] = 1 /\ lib \notin noDelete
                         THEN [handleOf EXCEPT ![lib] = NoHandle]
                         ELSE handleOf
    BY <1>0 DEF CloseHandle, DlClose
  <1>3. closing' = [closing EXCEPT ![t] = NoHandle]
    BY DEF CloseHandle
  <1>4. ASSUME NEW g \in Handles
        PROVE  Blocks(g)' = Blocks(g) /\ Opening(g)' = Opening(g)
    <2>1. UNCHANGED <<pluginToDlHandlePtrs, inst, call>>
      BY DEF CloseHandle, loaderVars
    <2> QED BY <2>1 DEF Blocks, Opening, Live, HasOwner
  <1>5. t \in Closing(h) /\ Closing(h)' = Closing(h) \ {t}
    BY <1>0, <1>1, <1>3, LinkerAssumption DEF Closing
  <1>6. ReferenceCount(h)' = ReferenceCount(h) - 1
    <2>1. Cardinality(Closing(h)') = Cardinality(Closing(h)) - 1
      BY <1>5, CountsFinite, RemoveOne
    <2> QED BY <2>1, <1>1, <1>4, CountsFinite DEF ReferenceCount
  <1>7. \A g \in Handles \ {h} : ReferenceCount(g)' = ReferenceCount(g)
    <2> SUFFICES ASSUME NEW g \in Handles \ {h}
                 PROVE  ReferenceCount(g)' = ReferenceCount(g)
      OBVIOUS
    <2>1. Closing(g)' = Closing(g)
      BY <1>0, <1>1, <1>3, LinkerAssumption DEF Closing
    <2> QED BY <2>1, <1>4 DEF ReferenceCount
  <1>8. /\ opens[lib] >= ReferenceCount(h)
        /\ Noisy = {} => opens[lib] = ReferenceCount(h)
        /\ opens[lib] \in Nat /\ ReferenceCount(h) \in Nat
        /\ ReferenceCount(h) > 0
    BY <1>1, <1>2, <1>5, CountPositive DEF CountInv, OpensCounted
  <1>9. \A other \in Libs \ {lib} : handleOf[other] # h
    BY <1>1, <1>2 DEF CountInv
  <1>10. \A other \in Libs : handleOf'[other] \in {handleOf[other], NoHandle}
    BY <1>1, <1>2
  <1>11. \A other \in Libs \ {lib} : handleOf'[other] = handleOf[other]
                                   /\ opens'[other] = opens[other]
    BY <1>1, <1>2
  <1>12. /\ opens'[lib] >= ReferenceCount(h) - 1
         /\ Noisy = {} => opens'[lib] = ReferenceCount(h) - 1
    BY <1>1, <1>2, <1>8
  <1>13. ReferenceCount(h) - 1 # 0 => handleOf'[lib] = h
    BY <1>1, <1>2, <1>8
  <1>14. OpensCounted'
    <2> SUFFICES ASSUME NEW g \in Handles
                 PROVE  /\ ReferenceCount(g)' # 0 =>
                             \E other \in Libs : handleOf'[other] = g
                        /\ \A other \in Libs :
                             handleOf'[other] = g =>
                               /\ opens'[other] >= ReferenceCount(g)'
                               /\ Noisy = {} =>
                                    opens'[other] = ReferenceCount(g)'
      BY DEF OpensCounted
    <2>1. CASE g = h
      BY <2>1, <1>1, <1>2, <1>6, <1>9, <1>11, <1>12, <1>13
    <2>2. CASE g # h
      <3>1. g # NoHandle /\ ReferenceCount(g)' = ReferenceCount(g)
        BY <2>2, <1>7, LinkerAssumption
      <3>2. \A other \in Libs : handleOf'[other] = g <=>
                               other # lib /\ handleOf[other] = g
        BY <2>2, <3>1, <1>2, <1>10, <1>11
      <3>3. \A other \in Libs : handleOf[other] = g => other # lib
        BY <2>2, <1>2
      <3> QED BY <3>1, <3>2, <3>3, <1>11 DEF CountInv, OpensCounted
    <2> QED BY <2>1, <2>2
  <1>15. \A other \in Libs : ~Mapped(other)' => opens'[other] = 0
    <2>1. CASE handleOf' = handleOf
      BY <2>1, <1>1, <1>2, <1>11 DEF CountInv
    <2>2. CASE opens[lib] = 1
      BY <2>2, <1>1, <1>2, <1>11 DEF CountInv
    <2> QED BY <2>1, <2>2, <1>2
  <1>16. \A lib1, lib2 \in Libs :
           Mapped(lib1)' /\ handleOf'[lib1] = handleOf'[lib2] => lib1 = lib2
    BY <1>10 DEF CountInv
  <1>17. CountInv'
    BY <1>14, <1>15, <1>16 DEF CountInv
  <1>18. ASSUME NEW other \in Libs, handleOf[other] \in Handles,
                Blocks(handleOf[other]) # {} \/ Opening(handleOf[other]) # {}
         PROVE  handleOf'[other] = handleOf[other]
    <2>1. CASE other = lib
      <3>1. ReferenceCount(h) > 1
        BY <2>1, <1>18, <1>2, <1>5, CountPositive
      <3> QED BY <2>1, <3>1, <1>2, <1>8
    <2>2. CASE other # lib
      BY <2>2, <1>11
    <2> QED BY <2>1, <2>2
  <1> QED BY <1>17, <1>18

-----------------------------------------------------------------------------
(* The invariant is preserved                                              *)

LEMMA LoadLibCounts ==
  ASSUME TypeOK, CountInv, HandleInv, NEW t \in Threads, NEW l \in Loaders,
         NEW lib \in Libs, NEW keep \in BOOLEAN, LoadLib(t, l, lib, keep)
  PROVE  CountInv' /\ HandleInv'
  <1>1. PICK h \in Handles :
          /\ DlOpen(lib, h, keep)
          /\ call' = [call EXCEPT ![t] =
                        [Idle EXCEPT !.op = "opened", !.loader = l,
                                     !.lib = lib, !.handle = h]]
    BY DEF LoadLib
  <1>2. /\ call'[t].op = "opened" /\ call'[t].lib = lib
        /\ call'[t].handle = h
        /\ \A u \in Threads \ {t} : call'[u] = call[u]
        /\ call[t].op = "idle"
        /\ UNCHANGED <<pluginToDlHandlePtrs, inst, closing>>
    BY <1>1 DEF LoadLib, loaderVars, Idle, TypeOK, Free, At
  <1>3. \A k \in Loaders, g \in Handles : Live(k, g)' <=> Live(k, g)
    BY <1>2 DEF Live, HasOwner
  <1>4. \A g \in Handles : Blocks(g)' = Blocks(g) /\ Closing(g)' = Closing(g)
    BY <1>2, <1>3 DEF Blocks, Closing
  <1>5. t \notin Opening(h) /\ Opening(h)' = Opening(h) \cup {t}
    BY <1>2 DEF Opening
  <1>6. \A g \in Handles \ {h} : Opening(g)' = Opening(g)
    BY <1>2 DEF Opening
  <1>7. ReferenceCount(h)' = ReferenceCount(h) + 1
    <2>1. Cardinality(Opening(h)') = Cardinality(Opening(h)) + 1
      BY <1>5, CountsFinite, AddOne
    <2> QED BY <2>1, <1>4, CountsFinite DEF ReferenceCount
  <1>8. \A g \in Handles \ {h} : ReferenceCount(g)' = ReferenceCount(g)
    BY <1>4, <1>6 DEF ReferenceCount
  <1>9. /\ CountInv'
        /\ \A other \in Libs :
             Mapped(other) => handleOf'[other] = handleOf[other]
        /\ handleOf'[lib] = h
    BY <1>1, <1>7, <1>8, OpenCounts
  <1>10. HandleInv'
    <2>1. ASSUME NEW u \in Threads, u # t,
                 call[u].op \in {"opened", "register"}
          PROVE  handleOf'[call[u].lib] = call[u].handle
      <3>1. call[u].lib \in Libs /\ call[u].handle # NoHandle
        BY <2>1, CallFields, LinkerAssumption DEF TypeOK, LoadCall
      <3>2. Mapped(call[u].lib)
        BY <2>1, <3>1 DEF HandleInv, Mapped
      <3> QED BY <2>1, <3>1, <3>2, <1>9 DEF HandleInv
    <2> QED BY <2>1, <1>2, <1>9 DEF HandleInv
  <1> QED BY <1>9, <1>10

(* LoadLib gives up with the library open: a count without a reference.    *)
LEMMA LoadLibErrorCounts ==
  ASSUME TypeOK, CountInv, HandleInv, NEW t \in Threads, NEW l \in Loaders,
         NEW lib \in Libs, NEW keep \in BOOLEAN,
         LoadLibError(t, l, lib, keep)
  PROVE  CountInv' /\ HandleInv'
  <1>1. PICK h \in Handles : DlOpen(lib, h, keep)
    BY DEF LoadLibError
  <1>2. /\ UNCHANGED <<pluginToDlHandlePtrs, inst, call, closing>>
        /\ Noisy # {}
    BY DEF LoadLibError, loaderVars
  <1>3. \A g \in Handles : ReferenceCount(g)' = ReferenceCount(g)
    BY <1>2, OtherCallsCountNothing
  <1>4. /\ CountInv'
        /\ \A other \in Libs :
             Mapped(other) => handleOf'[other] = handleOf[other]
    BY <1>1, <1>2, <1>3, OpenCounts
  <1>5. ASSUME NEW u \in Threads, call[u].op \in {"opened", "register"}
        PROVE  handleOf'[call[u].lib] = call[u].handle
    <2>1. call[u].lib \in Libs /\ call[u].handle # NoHandle
      BY <1>5, CallFields, LinkerAssumption DEF TypeOK, LoadCall
    <2>2. Mapped(call[u].lib)
      BY <1>5, <2>1 DEF HandleInv, Mapped
    <2> QED BY <1>4, <1>5, <2>1, <2>2 DEF HandleInv
  <1> QED BY <1>2, <1>4, <1>5 DEF HandleInv

LEMMA ForgetLibraryCounts ==
  ASSUME TypeOK, CountInv, HandleInv, NEW t \in Threads, NEW l \in Loaders,
         NEW lib \in Libs, ForgetLibrary(t, l, lib)
  PROVE  CountInv' /\ HandleInv'
  <1>1. PICK h \in Handles :
          /\ DlProbe(lib, h)
          /\ closing' = [closing EXCEPT ![t] = h]
          /\ call' = [call EXCEPT ![t] =
                        [Idle EXCEPT !.op = "find", !.loader = l,
                                     !.handle = h]]
    BY DEF ForgetLibrary
  <1>2. /\ call'[t].op = "find"
        /\ \A u \in Threads \ {t} : call'[u] = call[u]
        /\ call[t].op = "idle" /\ closing[t] = NoHandle
        /\ UNCHANGED <<pluginToDlHandlePtrs, inst>>
    BY <1>1 DEF ForgetLibrary, loaderVars, Idle, TypeOK, Free, At
  <1>3. \A k \in Loaders, g \in Handles : Live(k, g)' <=> Live(k, g)
    BY <1>2 DEF Live, HasOwner
  <1>4. \A g \in Handles : Blocks(g)' = Blocks(g) /\ Opening(g)' = Opening(g)
    BY <1>2, <1>3 DEF Blocks, Opening
  <1>5. \A u \in Threads, g \in Handles :
          closing'[u] = g <=> closing[u] = g \/ (u = t /\ g = h)
    BY <1>1, <1>2, LinkerAssumption DEF TypeOK
  <1>6. t \notin Closing(h) /\ Closing(h)' = Closing(h) \cup {t}
    BY <1>2, <1>5, LinkerAssumption DEF Closing
  <1>7. \A g \in Handles \ {h} : Closing(g)' = Closing(g)
    BY <1>5 DEF Closing
  <1>8. ReferenceCount(h)' = ReferenceCount(h) + 1
    <2>1. Cardinality(Closing(h)') = Cardinality(Closing(h)) + 1
      BY <1>6, CountsFinite, AddOne
    <2> QED BY <2>1, <1>4, CountsFinite DEF ReferenceCount
  <1>9. \A g \in Handles \ {h} : ReferenceCount(g)' = ReferenceCount(g)
    BY <1>4, <1>7 DEF ReferenceCount
  <1>10. DlOpen(lib, h, FALSE) /\ handleOf[lib] = h
    BY <1>1 DEF DlProbe, DlOpen
  <1>11. CountInv'
    BY <1>8, <1>9, <1>10, OpenCounts
  <1>12. UNCHANGED handleOf
    BY <1>10 DEF DlOpen, TypeOK, DlTypeOK
  <1>13. HandleInv'
    BY <1>2, <1>12, HandleInvKept
  <1> QED BY <1>11, <1>13

LEMMA AdoptHandleCounts ==
  ASSUME TypeOK, CountInv, HandleInv, NEW t \in Threads, AdoptHandle(t)
  PROVE  CountInv' /\ HandleInv'
  <1>1. call[t].loader \in Loaders /\ call[t].handle \in Handles
    BY CallFields DEF AdoptHandle, At, TypeOK, LoadCall
  <1>2. PICK l \in Loaders : l = call[t].loader
    BY <1>1
  <1>3. PICK h \in Handles : h = call[t].handle
    BY <1>1
  <1>4. /\ call[t].op = "opened" /\ closing[t] = NoHandle
        /\ call'[t].op = "register" /\ call'[t].loader = l
        /\ call'[t].handle = h /\ call'[t].lib = call[t].lib
        /\ \A u \in Threads \ {t} : call'[u] = call[u]
        /\ UNCHANGED <<dlVars, pluginToDlHandlePtrs, inst>>
    <2>1. call[t] \in LoadCall
      BY CallFields DEF AdoptHandle, At, TypeOK
    <2> QED
      BY <2>1, <1>2, <1>3 DEF AdoptHandle, At, TypeOK, loaderVars, LoadCall
  <1>5. closing' = [closing EXCEPT ![t] = IF Live(l, h) THEN h ELSE NoHandle]
    BY <1>2, <1>3 DEF AdoptHandle, Live, HasOwner
  <1>6. \A k \in Loaders, g \in Handles :
          Live(k, g)' <=> Live(k, g) \/ (k = l /\ g = h)
    BY <1>4 DEF Live, HasOwner
  <1>7. t \in Opening(h) /\ Opening(h)' = Opening(h) \ {t}
    BY <1>3, <1>4 DEF Opening
  <1>8. \A g \in Handles \ {h} : Opening(g)' = Opening(g)
    BY <1>3, <1>4 DEF Opening
  <1>9. Cardinality(Opening(h)') = Cardinality(Opening(h)) - 1
    BY <1>7, CountsFinite, RemoveOne
  <1>10. closing \in [Threads -> Handles \cup {NoHandle}]
    BY DEF TypeOK
  <1>11. \A g \in Handles : ReferenceCount(g)' = ReferenceCount(g)
    <2> SUFFICES ASSUME NEW g \in Handles
                 PROVE  ReferenceCount(g)' = ReferenceCount(g)
      OBVIOUS
    <2>1. CASE g # h
      <3>1. Blocks(g)' = Blocks(g)
        BY <2>1, <1>6 DEF Blocks
      <3>2. Closing(g)' = Closing(g)
        BY <2>1, <1>4, <1>5, <1>10, LinkerAssumption DEF Closing
      <3> QED BY <2>1, <3>1, <3>2, <1>8 DEF ReferenceCount
    <2>2. CASE g = h /\ Live(l, h)
      <3>1. Blocks(g)' = Blocks(g)
        BY <2>2, <1>6 DEF Blocks
      <3>2. t \notin Closing(g) /\ Closing(g)' = Closing(g) \cup {t}
        <4>1. closing' = [closing EXCEPT ![t] = h]
          BY <2>2, <1>5
        <4> QED BY <2>2, <4>1, <1>4, <1>10, LinkerAssumption DEF Closing
      <3>3. Cardinality(Closing(g)') = Cardinality(Closing(g)) + 1
        BY <3>2, CountsFinite, AddOne
      <3> QED BY <2>2, <3>1, <3>3, <1>9, CountsFinite DEF ReferenceCount
    <2>3. CASE g = h /\ ~Live(l, h)
      <3>1. l \notin Blocks(g) /\ Blocks(g)' = Blocks(g) \cup {l}
        BY <2>3, <1>6 DEF Blocks
      <3>2. Closing(g)' = Closing(g)
        <4>1. closing' = [closing EXCEPT ![t] = NoHandle]
          BY <2>3, <1>5
        <4> QED BY <4>1, <1>4, <1>10 DEF Closing
      <3>3. Cardinality(Blocks(g)') = Cardinality(Blocks(g)) + 1
        BY <3>1, CountsFinite, AddOne
      <3> QED BY <2>3, <3>2, <3>3, <1>9, CountsFinite DEF ReferenceCount
    <2> QED BY <2>1, <2>2, <2>3
  <1>12. CountInv'
    BY <1>4, <1>11, CountInvKept
  <1>13. HandleInv'
    BY <1>3, <1>4, HandleInvKept DEF dlVars
  <1> QED BY <1>12, <1>13

LEMMA RegisterPluginCounts ==
  ASSUME TypeOK, CountInv, HandleInv, NEW t \in Threads, NEW n \in Symbols,
         RegisterPlugin(t, n)
  PROVE  CountInv' /\ HandleInv'
  <1>1. call[t] \in LoadCall
    BY CallFields DEF RegisterPlugin, At, TypeOK
  <1>2. PICK l \in Loaders : l = call[t].loader
    BY <1>1 DEF LoadCall
  <1>3. PICK new \in Handles : new = call[t].handle
    BY <1>1 DEF LoadCall
  <1>4. PICK h \in Handles \cup {NoHandle} : h = pluginToDlHandlePtrs[l][n]
    BY DEF TypeOK
  <1>5. /\ call[t].op = "register" /\ closing[t] = NoHandle
        /\ call'[t].op = "register" /\ call'[t].loader = l
        /\ call'[t].handle = new /\ call'[t].lib = call[t].lib
        /\ \A u \in Threads \ {t} : call'[u] = call[u]
        /\ UNCHANGED <<dlVars, inst>>
        /\ DropRef(t, l, h)
    BY <1>1, <1>2, <1>3, <1>4 DEF RegisterPlugin, At, TypeOK, LoadCall
  <1>6. \A k \in Loaders, m \in Symbols :
          pluginToDlHandlePtrs'[k][m] =
            IF k = l /\ m = n THEN new ELSE pluginToDlHandlePtrs[k][m]
    BY <1>2, <1>3 DEF RegisterPlugin, TypeOK
  <1>7. h # NoHandle => Live(l, h)
    BY <1>4 DEF Live, HasOwner
  <1>8. Live(l, new) /\ Live(l, new)'
    BY <1>2, <1>3, <1>5 DEF Live, HasOwner
  <1>9. ASSUME NEW k \in Loaders, NEW g \in Handles, k # l \/ g # h
        PROVE  Live(k, g)' <=> Live(k, g)
    <2>1. CASE k = l /\ g = new
      BY <2>1, <1>8
    <2>2. CASE k # l \/ g # new
      <3>1. \A m \in Symbols :
              pluginToDlHandlePtrs'[k][m] = g <=> pluginToDlHandlePtrs[k][m] = g
        BY <2>2, <1>4, <1>6, <1>9
      <3> QED BY <3>1, <1>2, <1>3, <1>5 DEF Live, HasOwner
    <2> QED BY <2>1, <2>2
  <1>10. \A g \in Handles : Opening(g)' = Opening(g)
    BY <1>5 DEF Opening
  <1>11. \A g \in Handles : ReferenceCount(g)' = ReferenceCount(g)
    BY <1>5, <1>7, <1>9, <1>10, DropRefCounts
  <1>12. CountInv'
    BY <1>5, <1>11, CountInvKept
  <1>13. HandleInv'
    BY <1>3, <1>5, HandleInvKept DEF dlVars
  <1> QED BY <1>12, <1>13

LEMMA FinishLoadCounts ==
  ASSUME TypeOK, CountInv, HandleInv, NEW t \in Threads, FinishLoad(t)
  PROVE  CountInv' /\ HandleInv'
  <1>1. call[t] \in LoadCall
    BY CallFields DEF FinishLoad, At, TypeOK
  <1>2. PICK l \in Loaders : l = call[t].loader
    BY <1>1 DEF LoadCall
  <1>3. PICK h \in Handles : h = call[t].handle
    BY <1>1 DEF LoadCall
  <1>4. /\ call[t].op = "register" /\ closing[t] = NoHandle
        /\ call'[t].op = "idle"
        /\ \A u \in Threads \ {t} : call'[u] = call[u]
        /\ UNCHANGED <<dlVars, pluginToDlHandlePtrs, inst>>
        /\ DropRef(t, l, h)
    BY <1>2, <1>3 DEF FinishLoad, At, TypeOK, Idle
  <1>5. Live(l, h)
    BY <1>2, <1>3, <1>4 DEF Live, HasOwner
  <1>6. \A k \in Loaders, g \in Handles :
          k # l \/ g # h => (Live(k, g)' <=> Live(k, g))
    BY <1>2, <1>3, <1>4 DEF Live, HasOwner
  <1>7. \A g \in Handles : Opening(g)' = Opening(g)
    BY <1>4 DEF Opening
  <1>8. \A g \in Handles : ReferenceCount(g)' = ReferenceCount(g)
    BY <1>4, <1>5, <1>6, <1>7, DropRefCounts
  <1>9. CountInv'
    BY <1>4, <1>8, CountInvKept
  <1>10. HandleInv'
    BY <1>4, HandleInvKept DEF dlVars
  <1> QED BY <1>9, <1>10

LEMMA DeleteInstanceCounts ==
  ASSUME TypeOK, CountInv, HandleInv, NEW t \in Threads, NEW i \in Insts,
         DeleteInstance(t, i)
  PROVE  CountInv' /\ HandleInv'
  <1>1. inst[i] \in Instance
    BY DEF DeleteInstance, TypeOK
  <1>2. PICK l \in Loaders \cup {NoLoader} : l = inst[i].loader
    BY <1>1 DEF Instance
  <1>3. PICK h \in Handles \cup {NoHandle} : h = inst[i].handle
    BY <1>1 DEF Instance
  <1>4. /\ inst[i] # NoInst /\ inst'[i] = NoInst /\ closing[t] = NoHandle
        /\ \A j \in Insts \ {i} : inst'[j] = inst[j]
        /\ UNCHANGED <<dlVars, pluginToDlHandlePtrs, call>>
        /\ DropRef(t, l, h)
    BY <1>2, <1>3 DEF DeleteInstance, Free, At, TypeOK, loaderVars
  <1>5. h # NoHandle => l \in Loaders /\ Live(l, h)
    BY <1>2, <1>3, <1>4 DEF HandleInv, Live, HasOwner
  <1>6. \A k \in Loaders, g \in Handles :
          k # l \/ g # h => (Live(k, g)' <=> Live(k, g))
    BY <1>2, <1>3, <1>4 DEF Live, HasOwner
  <1>7. \A g \in Handles : Opening(g)' = Opening(g)
    BY <1>4 DEF Opening
  <1>8. \A g \in Handles : ReferenceCount(g)' = ReferenceCount(g)
    BY <1>4, <1>5, <1>6, <1>7, DropRefCounts
  <1>9. CountInv'
    BY <1>4, <1>8, CountInvKept
  <1>10. HandleInv'
    BY <1>4, HandleInvKept DEF dlVars
  <1> QED BY <1>9, <1>10

LEMMA InstantiateCounts ==
  ASSUME TypeOK, CountInv, HandleInv, NEW t \in Threads, NEW l \in Loaders,
         NEW s \in Symbols, NEW i \in Insts,
         InstantiateFromFile(t, l, s, i) \/ InstantiateStatic(t, l, s, i)
  PROVE  CountInv' /\ HandleInv'
  <1>1. /\ inst[i] = NoInst
        /\ \A j \in Insts \ {i} : inst'[j] = inst[j]
        /\ UNCHANGED <<dlVars, pluginToDlHandlePtrs, call, closing>>
    BY DEF InstantiateFromFile, InstantiateStatic, TypeOK, loaderVars
  <1>2. \/ inst'[i].handle = NoHandle
        \/ /\ inst'[i].loader = l
           /\ \E n \in Symbols : inst'[i].handle = pluginToDlHandlePtrs[l][n]
    <2>1. CASE InstantiateStatic(t, l, s, i)
      BY <2>1 DEF InstantiateStatic, TypeOK
    <2>2. CASE InstantiateFromFile(t, l, s, i)
      <3>1. LookupPlugin(registry[l], s) \in Symbols
        BY <2>2, LookupType DEF InstantiateFromFile
      <3> QED BY <2>2, <3>1 DEF InstantiateFromFile, TypeOK
    <2> QED BY <2>1, <2>2
  <1>3. ASSUME NEW k \in Loaders, NEW g \in Handles
        PROVE  Live(k, g)' <=> Live(k, g)
    <2>1. g # NoHandle
      BY LinkerAssumption
    <2> QED BY <2>1, <1>1, <1>2 DEF Live, HasOwner
  <1>4. \A g \in Handles : Opening(g)' = Opening(g) /\ Closing(g)' = Closing(g)
    BY <1>1 DEF Opening, Closing
  <1>5. \A g \in Handles : ReferenceCount(g)' = ReferenceCount(g)
    BY <1>3, <1>4, CountsSame
  <1>6. CountInv'
    BY <1>1, <1>5, CountInvKept
  <1>7. HandleInv'
    BY <1>1, <1>2, HandleInvKept DEF dlVars
  <1> QED BY <1>6, <1>7

LEMMA CloseHandleCounts ==
  ASSUME TypeOK, CountInv, HandleInv, NEW t \in Threads, CloseHandle(t)
  PROVE  CountInv' /\ HandleInv'
  <1>1. UNCHANGED <<inst, call>>
    BY DEF CloseHandle
  <1>2. ASSUME NEW u \in Threads, call[u].op \in {"opened", "register"}
        PROVE  handleOf'[call[u].lib] = call[u].handle
    <2>1. /\ call[u].loader \in Loaders /\ call[u].lib \in Libs
          /\ call[u].handle \in Handles
      BY <1>2, CallFields DEF TypeOK, LoadCall
    <2>2. handleOf[call[u].lib] = call[u].handle
      BY <1>2 DEF HandleInv
    <2>3. CASE call[u].op = "opened"
      <3>1. u \in Opening(call[u].handle)
        BY <2>3 DEF Opening
      <3> QED BY <2>1, <2>2, <3>1, CloseCounts
    <2>4. CASE call[u].op = "register"
      <3>1. call[u].loader \in Blocks(call[u].handle)
        BY <2>1, <2>4 DEF Blocks, Live, HasOwner
      <3> QED BY <2>1, <2>2, <3>1, CloseCounts
    <2> QED BY <1>2, <2>3, <2>4
  <1>3. HandleInv'
    BY <1>1, <1>2 DEF HandleInv
  <1> QED BY <1>3, CloseCounts

LEMMA CountInit == Init => CountInv /\ HandleInv
  <1> SUFFICES ASSUME Init PROVE CountInv /\ HandleInv
    OBVIOUS
  <1>1. \A h \in Handles : h # NoHandle
    BY LinkerAssumption
  <1>2. ASSUME NEW h \in Handles PROVE ReferenceCount(h) = 0
    <2>1. \A l \in Loaders : ~Live(l, h)
      BY <1>1 DEF Init, Live, HasOwner, Idle
    <2>2. Blocks(h) = {} /\ Opening(h) = {} /\ Closing(h) = {}
      BY <1>1, <2>1 DEF Init, Blocks, Opening, Closing, Idle
    <2> QED BY <2>2, FS_EmptySet DEF ReferenceCount
  <1>3. \A lib \in Libs : handleOf[lib] = NoHandle /\ opens[lib] = 0
    BY DEF Init, DlInit
  <1>4. OpensCounted
    BY <1>1, <1>2, <1>3 DEF OpensCounted
  <1>5. HandleInv
    BY DEF Init, HandleInv, Idle
  <1> QED BY <1>3, <1>4, <1>5 DEF CountInv, Mapped

LEMMA CountStep ==
  ASSUME TypeOK, CountInv, HandleInv, [Next]_vars
  PROVE  CountInv' /\ HandleInv'
  <1> DEFINE Loading == {"opened", "register"}
  <1>1. ASSUME NEW t \in Threads, NEW l \in Loaders, NEW s \in Symbols,
               ForgetLibraryOfPlugin(t, l, s)
        PROVE  CountInv' /\ HandleInv'
    <2>1. \A u \in Threads :
            call[u].op \in Loading \/ call'[u].op \in Loading =>
              call'[u] = call[u]
      BY <1>1 DEF ForgetLibraryOfPlugin, Free, At, TypeOK, Idle
    <2>2. UNCHANGED <<dlVars, pluginToDlHandlePtrs, inst, closing>>
      BY <1>1 DEF ForgetLibraryOfPlugin, loaderVars
    <2> QED BY <2>1, <2>2, OtherCallsCountNothing, CountInvKept, HandleInvKept
            DEF dlVars
  <1>2. ASSUME NEW t \in Threads, FindLibrary(t)
        PROVE  CountInv' /\ HandleInv'
    <2>1. \A u \in Threads :
            call[u].op \in Loading \/ call'[u].op \in Loading =>
              call'[u] = call[u]
      <3>1. call[t] \in ForgetCall
        BY <1>2, CallFields DEF FindLibrary, At, TypeOK
      <3>2. call'[t].op \in {"forget", "idle"}
        BY <1>2, <3>1 DEF FindLibrary, TypeOK, Idle, ForgetCall
      <3>3. call[t].op = "find" /\ \A u \in Threads \ {t} : call'[u] = call[u]
        BY <1>2 DEF FindLibrary, At, TypeOK
      <3> QED BY <3>2, <3>3
    <2>2. UNCHANGED <<dlVars, pluginToDlHandlePtrs, inst, closing>>
      BY <1>2 DEF FindLibrary, loaderVars
    <2> QED BY <2>1, <2>2, OtherCallsCountNothing, CountInvKept, HandleInvKept
            DEF dlVars
  <1>3. ASSUME NEW t \in Threads, NEW n \in Symbols, ForgetPluginInfo(t, n)
        PROVE  CountInv' /\ HandleInv'
    <2>1. \A u \in Threads :
            call[u].op \in Loading \/ call'[u].op \in Loading =>
              call'[u] = call[u]
      <3>1. call[t] \in ForgetCall
        BY <1>3, CallFields DEF ForgetPluginInfo, At, TypeOK
      <3>2. /\ call'[t].op = "erase" /\ call[t].op = "forget"
            /\ \A u \in Threads \ {t} : call'[u] = call[u]
        BY <1>3, <3>1 DEF ForgetPluginInfo, At, TypeOK, ForgetCall
      <3> QED BY <3>2
    <2>2. UNCHANGED <<dlVars, pluginToDlHandlePtrs, inst, closing>>
      BY <1>3 DEF ForgetPluginInfo
    <2> QED BY <2>1, <2>2, OtherCallsCountNothing, CountInvKept, HandleInvKept
            DEF dlVars
  <1>4. ASSUME NEW t \in Threads, ErasePluginHandle(t)
        PROVE  CountInv' /\ HandleInv'
    <2>1. call[t] \in EraseCall
      BY <1>4, CallFields DEF ErasePluginHandle, At, TypeOK
    <2>2. PICK l \in Loaders, n \in Symbols :
            l = call[t].loader /\ n = call[t].name
      BY <2>1 DEF EraseCall
    <2>3. /\ call'[t].op = "forget" /\ call[t].op = "erase"
          /\ \A u \in Threads \ {t} : call'[u] = call[u]
      BY <1>4, <2>1 DEF ErasePluginHandle, At, TypeOK, EraseCall
    <2>4. /\ pluginToDlHandlePtrs' =
               [pluginToDlHandlePtrs EXCEPT ![l][n] = NoHandle]
          /\ DropRef(t, l, pluginToDlHandlePtrs[l][n])
          /\ closing[t] = NoHandle /\ UNCHANGED <<dlVars, inst>>
      BY <1>4, <2>2 DEF ErasePluginHandle, At
    <2>5. CountInv'
      BY <2>3, <2>4, EntryGone
    <2> QED BY <2>3, <2>4, <2>5, HandleInvKept DEF dlVars
  <1>5. ASSUME NEW t \in Threads, FinishForget(t) \/ FinishDestroy(t)
        PROVE  CountInv' /\ HandleInv'
    <2>1. \A u \in Threads :
            call[u].op \in Loading \/ call'[u].op \in Loading =>
              call'[u] = call[u]
      BY <1>5 DEF FinishForget, FinishDestroy, At, TypeOK, Idle
    <2>2. UNCHANGED <<dlVars, pluginToDlHandlePtrs, inst, closing>>
      BY <1>5 DEF FinishForget, FinishDestroy, loaderVars
    <2> QED BY <2>1, <2>2, OtherCallsCountNothing, CountInvKept, HandleInvKept
            DEF dlVars
  <1>6. ASSUME NEW t \in Threads, NEW l \in Loaders, DestroyLoader(t, l)
        PROVE  CountInv' /\ HandleInv'
    <2>1. \A u \in Threads :
            call[u].op \in Loading \/ call'[u].op \in Loading =>
              call'[u] = call[u]
      BY <1>6 DEF DestroyLoader, Free, At, TypeOK, Idle
    <2>2. UNCHANGED <<dlVars, pluginToDlHandlePtrs, inst, closing>>
      BY <1>6 DEF DestroyLoader
    <2> QED BY <2>1, <2>2, OtherCallsCountNothing, CountInvKept, HandleInvKept
            DEF dlVars
  <1>7. ASSUME NEW t \in Threads, NEW n \in Symbols, DestroyHandle(t, n)
        PROVE  CountInv' /\ HandleInv'
    <2>1. PICK l \in Loaders : l = call[t].loader
      BY <1>7, CallFields DEF DestroyHandle, At, TypeOK, DestroyCall
    <2>2. /\ pluginToDlHandlePtrs' =
               [pluginToDlHandlePtrs EXCEPT ![l][n] = NoHandle]
          /\ DropRef(t, l, pluginToDlHandlePtrs[l][n])
          /\ closing[t] = NoHandle /\ UNCHANGED <<dlVars, inst, call>>
      BY <1>7, <2>1 DEF DestroyHandle, At
    <2>3. CountInv'
      BY <2>2, EntryGone
    <2> QED BY <2>2, <2>3, HandleInvKept DEF dlVars
  <1>8. CASE UNCHANGED vars
    <2>1. UNCHANGED <<dlVars, pluginToDlHandlePtrs, inst, closing, call>>
      BY <1>8 DEF vars, loaderVars
    <2> QED BY <2>1, OtherCallsCountNothing, CountInvKept, HandleInvKept
            DEF dlVars
  <1> QED
    BY <1>1, <1>2, <1>3, <1>4, <1>5, <1>6, <1>7, <1>8, LoadLibCounts,
       LoadLibErrorCounts, ForgetLibraryCounts, AdoptHandleCounts,
       RegisterPluginCounts, FinishLoadCounts, DeleteInstanceCounts,
       InstantiateCounts, CloseHandleCounts
    DEF Next, Invoke, Continue

LEMMA CountInvariant == Spec => [](TypeOK /\ CountInv /\ HandleInv)
  <1>1. Init => TypeOK /\ CountInv /\ HandleInv
    BY CountInit, LoaderTypeInit
  <1>2. TypeOK /\ CountInv /\ HandleInv /\ [Next]_vars =>
          (TypeOK /\ CountInv /\ HandleInv)'
    BY CountStep, LoaderTypeStep
  <1> QED BY <1>1, <1>2, PTL DEF Spec

(* Whatever the libraries provide, and whatever their initialisers leave   *)
(* behind, no handle is closed that is still referred to, and none twice   *)
(* (the dlclose and the deleter in Implementation::LoadLib, the dlclose in *)
(* Loader::ForgetLibrary).                                                 *)
THEOREM LoaderOpensCoverReferences == Spec => []OpensCoverReferences
  <1>1. CountInv => OpensCoverReferences
    BY DEF CountInv, OpensCounted, OpensCoverReferences
  <1> QED BY <1>1, CountInvariant, PTL

(* In every reachable state the linker's count of opens of a library is    *)
(* the number of references to its handle (LoadLib, ForgetLibrary, the     *)
(* destructors of Loader and PluginWithDlHandle), provided that no         *)
(* library's initialisers leave a dlerror that LoadLib takes for its own.  *)
THEOREM LoaderOpenCountExact ==
  ASSUME Noisy = {}
  PROVE  Spec => []OpenCountExact
  <1>1. CountInv => OpenCountExact
    BY DEF CountInv, OpensCounted, OpenCountExact
  <1> QED BY <1>1, CountInvariant, PTL

=============================================================================
