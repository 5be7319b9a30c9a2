--------------------------- MODULE FactoryProofs ---------------------------
(***************************************************************************)
(* Theorems about Factory.  CodeMapped is not inductive: a thread that is  *)
(* leaving a plain delete owns nothing, and relies on the copy that it     *)
(* handed over still being in lostProducts.  The copy stays because only   *)
(* the owner of the mutex removes any, and it starts to when nobody is     *)
(* leaving and nobody can hand over a reference before it is done.         *)
(***************************************************************************)
EXTENDS Factory, TLAPS

Returning == {"handed", "leaving"}

(* Only the owner of the mutex is in CleanupLostProducts. *)
MutexOwned == \A t \in Threads : frame[t].op \in Cleanup => mutex = t

(* The copy that a returning destructor handed over is still there. *)
CopyKept ==
  \A t \in Threads :
    frame[t].op \in Returning => lost[frame[t].factory] > 0

(* Nobody is returning while the vector is being emptied. *)
ClearAlone ==
  \A t \in Threads : frame[t].op = "clear" =>
    \A u \in Threads : frame[u].op \notin Returning

(* A thread that constructs has a PluginPtr to the factory. *)
ConstructorHolds ==
  \A t \in Threads :
    frame[t].op = "construct" => t \in plugins[frame[t].factory]

CodeInv ==
  TypeOK /\ MutexOwned /\ CopyKept /\ ClearAlone /\ ConstructorHolds

(* When CleanupLostProducts may be called: with a sufficient safety wait,  *)
(* or in a single-threaded program (the warnings in its documentation).    *)
CleanupIsSafe == LongWait \/ \A t, u \in Threads : t = u

-----------------------------------------------------------------------------
(* A thread inside an operation other than a cleanup names a factory and a *)
(* product.                                                                *)
LEMMA FrameFacts ==
  ASSUME TypeOK, NEW t \in Threads
  PROVE  /\ frame[t].op \in InCode \cup Owning =>
              frame[t].factory \in Factories /\ frame[t].product \in Products
         /\ frame[t].op \notin InCode \cup Owning \cup Cleanup =>
              frame[t] = Idle
  BY DEF TypeOK, Frame, Idle, InCode, Owning, Cleanup

(* Every step keeps the variables in their types. *)
LEMMA FactoryTypeStep == TypeOK /\ [Next]_vars => TypeOK'
<1> SUFFICES ASSUME TypeOK, [Next]_vars PROVE TypeOK'
  OBVIOUS
<1> USE FactoryAssumption
    DEF TypeOK, Frame, Idle, Busy, Advance, Return, InCode, Owning, Cleanup
<1>1. CASE UNCHANGED vars
  BY <1>1 DEF vars
<1>2. ASSUME NEW t \in Threads, Invoke(t) PROVE TypeOK'
  <2>1. ASSUME NEW lib \in Libs, LoadLib(t, lib) \/ ForgetLibrary(t, lib)
        PROVE  TypeOK'
    BY <2>1 DEF LoadLib, ForgetLibrary
  <2>2. ASSUME NEW f \in Factories, Instantiate(t, f) \/ DropPluginPtr(t, f)
        PROVE  TypeOK'
    BY <2>2 DEF Instantiate, DropPluginPtr
  <2>3. ASSUME NEW f \in Factories, NEW u \in Threads, CopyPluginPtr(t, f, u)
        PROVE  TypeOK'
    BY <2>3 DEF CopyPluginPtr
  <2>4. ASSUME NEW f \in Factories, NEW p \in Products, Construct(t, f, p)
        PROVE  TypeOK'
    BY <2>4 DEF Construct
  <2>5. ASSUME NEW p \in Products, Release(t, p) PROVE TypeOK'
    BY <2>5, ProductAssumption DEF Release, Product
  <2>6. ASSUME NEW p \in Products, DeleteProduct(t, p) \/ LoseProduct(t, p)
        PROVE  TypeOK'
    BY <2>6, ProductAssumption DEF DeleteProduct, LoseProduct, Product
  <2>7. CASE CleanupLostProducts(t)
    BY <2>7 DEF CleanupLostProducts
  <2> QED
    BY <1>2, <2>1, <2>2, <2>3, <2>4, <2>5, <2>6, <2>7 DEF Invoke
<1>3. ASSUME NEW t \in Threads, Continue(t) PROVE TypeOK'
  <2>1. CASE AdoptProduct(t)
    BY <2>1, FrameFacts DEF AdoptProduct, Product
  <2>2. CASE EndDelete(t) \/ DropFactory(t) \/ DropMember(t) \/ Leave(t)
               \/ ConstructThrows(t)
    BY <2>2, FrameFacts
    DEF EndDelete, DropFactory, DropMember, Leave, ConstructThrows
  <2>3. CASE HandOver(t)
    BY <2>3, FrameFacts DEF HandOver
  <2>4. CASE EndWait(t) \/ EndCleanup(t)
    BY <2>4, FrameFacts DEF EndWait, EndCleanup
  <2>5. ASSUME NEW f \in Factories, ClearLost(t, f) PROVE TypeOK'
    BY <2>5 DEF ClearLost
  <2> QED
    BY <1>3, <2>1, <2>2, <2>3, <2>4, <2>5 DEF Continue
<1> QED
  BY <1>1, <1>2, <1>3 DEF Next

(* Every step keeps the protocol of the lost products. *)
LEMMA FactoryProtocolStep ==
  ASSUME CodeInv, [Next]_vars, CleanupIsSafe
  PROVE  (MutexOwned /\ CopyKept /\ ClearAlone /\ ConstructorHolds)'
<1> DEFINE Protocol == MutexOwned /\ CopyKept /\ ClearAlone /\ ConstructorHolds
<1> SUFFICES Protocol'
  OBVIOUS
<1> USE FactoryAssumption
    DEF CodeInv, TypeOK, MutexOwned, CopyKept, ClearAlone, ConstructorHolds,
        Returning, Cleanup, Idle, Busy, Free, Advance, Return
<1>1. CASE UNCHANGED vars
  BY <1>1 DEF vars
<1>2. ASSUME NEW t \in Threads, Invoke(t) PROVE Protocol'
  <2>1. ASSUME NEW lib \in Libs, LoadLib(t, lib) \/ ForgetLibrary(t, lib)
        PROVE  Protocol'
    BY <2>1 DEF LoadLib, ForgetLibrary
  <2>2. ASSUME NEW f \in Factories, Instantiate(t, f) PROVE Protocol'
    <3>1. plugins[f] = {}
      BY <2>2 DEF Instantiate, Alive
    <3> QED
      BY <2>2, <3>1, FrameFacts DEF Instantiate, InCode, Owning
  <2>3. ASSUME NEW f \in Factories, DropPluginPtr(t, f) PROVE Protocol'
    BY <2>3, FrameFacts DEF DropPluginPtr, InCode, Owning
  <2>4. ASSUME NEW f \in Factories, NEW u \in Threads, CopyPluginPtr(t, f, u)
        PROVE  Protocol'
    BY <2>4, FrameFacts DEF CopyPluginPtr, InCode, Owning
  <2>5. ASSUME NEW f \in Factories, NEW p \in Products, Construct(t, f, p)
        PROVE  Protocol'
    BY <2>5 DEF Construct
  <2>6. ASSUME NEW p \in Products, Release(t, p) PROVE Protocol'
    BY <2>6 DEF Release
  <2>7. ASSUME NEW p \in Products, DeleteProduct(t, p) \/ LoseProduct(t, p)
        PROVE  Protocol'
    BY <2>7 DEF DeleteProduct, LoseProduct
  <2>8. CASE CleanupLostProducts(t)
    BY <2>8 DEF CleanupLostProducts
  <2> QED
    BY <1>2, <2>1, <2>2, <2>3, <2>4, <2>5, <2>6, <2>7, <2>8 DEF Invoke
<1>3. ASSUME NEW t \in Threads, Continue(t) PROVE Protocol'
  <2>1. CASE AdoptProduct(t)
    BY <2>1 DEF AdoptProduct
  <2>2. CASE EndDelete(t) \/ DropFactory(t)
    BY <2>2, FrameFacts DEF EndDelete, DropFactory, Frame, InCode, Owning
  (* No thread is emptying the vector, since the mutex is free. *)
  <2>3. CASE HandOver(t)
    <3>1. \A u \in Threads : frame[u].op \notin Cleanup
      BY <2>3 DEF HandOver
    <3> QED
      BY <2>3, <3>1, FrameFacts DEF HandOver, InCode, Owning
  <2>4. CASE DropMember(t) \/ Leave(t) \/ ConstructThrows(t)
    <3>1. \A u \in Threads :
            /\ frame'[u].op \in Returning =>
                 /\ frame[u].op \in Returning
                 /\ frame'[u].factory = frame[u].factory
            /\ frame'[u].op \in Cleanup \cup {"construct"} =>
                 frame'[u] = frame[u]
      BY <2>4, FrameFacts
      DEF DropMember, Leave, ConstructThrows, Frame, InCode, Owning
    <3> QED
      BY <2>4, <3>1 DEF DropMember, Leave, ConstructThrows
  (* No destructor is returning when the wait ends. *)
  <2>5. CASE EndWait(t)
    <3>1. \A u \in Threads : frame[u].op \notin Returning
      BY <2>5 DEF EndWait, CleanupIsSafe
    <3> QED
      BY <2>5, <3>1 DEF EndWait
  <2>6. ASSUME NEW f \in Factories, ClearLost(t, f) PROVE Protocol'
    <3>1. \A u \in Threads : frame[u].op \notin Returning
      BY <2>6 DEF ClearLost
    <3> QED
      BY <2>6, <3>1 DEF ClearLost
  <2>7. CASE EndCleanup(t)
    <3>1. \A u \in Threads \ {t} : frame[u].op \notin Cleanup
      BY <2>7 DEF EndCleanup
    <3> QED
      BY <2>7, <3>1 DEF EndCleanup
  <2> QED
    BY <1>3, <2>1, <2>2, <2>3, <2>4, <2>5, <2>6, <2>7 DEF Continue
<1> QED
  BY <1>1, <1>2, <1>3 DEF Next

(* In each state of an operation the thread that executes library code     *)
(* has, or has left behind, an owner of the factory.                       *)
LEMMA CodeInvImpliesMapped == CodeInv => CodeMapped
<1> SUFFICES ASSUME CodeInv PROVE CodeMapped
  OBVIOUS
<1>1. \A f \in Factories : Alive(f) => Mapped(LibOf[f])
  BY DEF Mapped
<1>2. ASSUME NEW p \in Products, product[p] # NoProduct
      PROVE  Mapped(LibOf[product[p].factory])
  <2>1. product[p].factory \in Factories
    BY <1>2 DEF CodeInv, TypeOK, Product
  <2>2. Alive(product[p].factory)
    BY <1>2 DEF Alive
  <2> QED
    BY <1>1, <2>1, <2>2
<1>3. ASSUME NEW t \in Threads, frame[t].op \in InCode
      PROVE  Mapped(LibOf[frame[t].factory])
  <2>1. frame[t].factory \in Factories
    BY <1>3, FrameFacts DEF CodeInv
  <2>2. CASE frame[t].op = "construct"
    <3>1. plugins[frame[t].factory] # {}
      BY <2>2 DEF CodeInv, ConstructorHolds
    <3> QED
      BY <1>1, <2>1, <3>1 DEF Alive
  <2>3. CASE frame[t].op \in Owning
    <3>1. Alive(frame[t].factory)
      BY <2>3 DEF Alive
    <3> QED
      BY <1>1, <2>1, <3>1
  <2>4. CASE frame[t].op = "leaving"
    <3>1. lost[frame[t].factory] > 0
      BY <2>4 DEF CodeInv, CopyKept, Returning
    <3> QED
      BY <1>1, <2>1, <3>1 DEF Alive
  <2> QED
    BY <1>3, <2>2, <2>3, <2>4 DEF InCode, Owning
<1> QED
  BY <1>2, <1>3 DEF CodeMapped

-----------------------------------------------------------------------------
(* The states of the factories and of their products are well typed. *)
THEOREM FactoryTypeCorrect == Spec => []TypeOK
<1>1. Init => TypeOK
  BY FactoryAssumption DEF Init, TypeOK, Frame
<1> QED
  BY <1>1, FactoryTypeStep, PTL DEF Spec

(* If CleanupLostProducts is called as its documentation asks, no library  *)
(* is unloaded under one of its products, nor under a thread that runs the *)
(* constructor or the destructor of one, whoever deletes it and how.       *)
THEOREM FactoryCodeMapped ==
  ASSUME CleanupIsSafe PROVE Spec => []CodeMapped
<1>1. Init => CodeInv
  BY FactoryAssumption
  DEF Init, CodeInv, TypeOK, Frame, Idle, MutexOwned, CopyKept, ClearAlone,
      ConstructorHolds, Returning, Cleanup
<1>2. CodeInv /\ [Next]_vars => CodeInv'
  BY FactoryTypeStep, FactoryProtocolStep, CleanupIsSafe DEF CodeInv
<1> QED
  BY <1>1, <1>2, CodeInvImpliesMapped, PTL DEF Spec
=============================================================================
