------------------------ MODULE PluginLifetimeProofs ------------------------
(***************************************************************************)
(* Theorems about PluginLifetime.                                          *)
(*                                                                         *)
(* What a PluginPtr shows of an instance is a matter of the object itself  *)
(* and of the one thread that writes it: ObjectInv, which holds whatever   *)
(* the program does.  That an Info never outlives its library is a matter  *)
(* of the order in which owners let go, and holds for the programs that    *)
(* SafeProgram describes: LifetimeInv.                                     *)
(***************************************************************************)
EXTENDS PluginLifetime, TLAPS

(* The first part of TypeOK; the rest of it follows from FrameInv. *)
VarsOK ==
  /\ program \in Programs
  /\ known \subseteq Infos /\ held \subseteq Infos
  /\ ptr \in [Ptrs -> Object \cup {Absent, Moved}]
  /\ weak \in [Weaks -> WeakValue \cup {Moved}]
  /\ shared \in [Shares -> Insts \cup {NoInst}]
  /\ frame \in [Threads -> Frame]

(* A thread that is inside of an operation on a PluginPtr object finds it  *)
(* there, and so its source.                                               *)
FrameInv ==
  \A t \in Threads :
    /\ frame[t].op # "dropInfo" => frame[t].info = NoInfo
    /\ frame[t].op \in {"clear", "copy"} =>
         /\ frame[t].ptr \in Ptrs /\ IsObject(frame[t].ptr)
         /\ frame[t].source # NoPtr => IsObject(frame[t].source)
         /\ frame[t].instance = NoInst
    /\ frame[t].op = "copy" => frame[t].source # NoPtr
    /\ frame[t].op = "lock" =>
         /\ frame[t].ptr \in Ptrs /\ ptr[frame[t].ptr] = Absent
         /\ frame[t].source = NoPtr
    /\ frame[t].op \notin {"clear", "copy", "lock"} =>
         frame[t].ptr = NoPtr /\ frame[t].source = NoPtr

(* Nobody else writes or copies the PluginPtr that a thread is writing. *)
Exclusive ==
  \A t, u \in Threads :
    t # u /\ frame[t].ptr # NoPtr =>
      frame[u].ptr # frame[t].ptr /\ frame[u].source # frame[t].ptr

(* A PluginPtr whose assignment is under way is empty. *)
ClearedInv ==
  \A t \in Threads :
    frame[t].op \in {"clear", "copy"} =>
      /\ ptr[frame[t].ptr].instance = NoInst
      /\ frame[t].op = "copy" => ptr[frame[t].ptr].info = NoInfo

(* Every interface points into the instance, unless Clear has yet to reset *)
(* the map.                                                                *)
EntriesInv ==
  \A p \in Ptrs, k \in Interfaces :
    IsObject(p) /\ ptr[p].interfaces[k] \in Insts =>
      \/ ptr[p].interfaces[k] = ptr[p].instance
      \/ \E t \in Threads : frame[t].op = "clear" /\ frame[t].ptr = p

ObjectInv ==
  /\ VarsOK /\ FrameInv /\ Exclusive
  /\ ClearedInv /\ EntriesInv /\ IteratorsValid

(* The programs in which nothing goes wrong: while libraries are forgotten *)
(* no PluginPtr is emptied in place, and weak pointers are locked only     *)
(* where every Info stays known.                                           *)
SafeProgram(P) ==
  /\ "forget" \in P => "clear" \notin P
  /\ "lock" \in P => "forget" \notin P /\ "static" \notin P

(* A library is held as long as its Info is known, and for ever if the     *)
(* program forgets nothing.                                                *)
LoaderInv ==
  /\ known \subseteq held
  /\ \A t \in Threads : frame[t].op = "forget" => frame[t].want \notin known
  /\ "forget" \notin program => known = {x \in Infos : ~Static(x)}

(* An instance is never referred to without its Info. *)
InfoInv ==
  /\ \A p \in Ptrs :
       IsObject(p) /\ ptr[p].instance # NoInst =>
         ptr[p].info = ClassOf[ptr[p].instance]
  /\ \A w \in Weaks :
       weak[w] # Moved /\ weak[w].instance # NoInst =>
         weak[w].info = ClassOf[weak[w].instance]
  /\ \A t \in Threads :
       frame[t].op = "lock" /\ frame[t].instance # NoInst =>
         frame[t].want = ClassOf[frame[t].instance]
  /\ \A t \in Threads :
       frame[t].op \in {"lock", "expired"} => "lock" \in program

(* Where libraries are forgotten, an Info is never referred to without its *)
(* instance.                                                               *)
OwnerInv ==
  "forget" \in program =>
    /\ \A p \in Ptrs :
         IsObject(p) /\ ptr[p].info # NoInfo => ptr[p].instance # NoInst
    /\ \A t \in Threads :
         frame[t].op = "dropInfo" /\ frame[t].info # NoInfo =>
           /\ frame[t].instance # NoInst
           /\ frame[t].info = ClassOf[frame[t].instance]

LifetimeInv ==
  ObjectInv /\ SafeProgram(program) /\ LoaderInv /\ InfoInv /\ OwnerInv

-----------------------------------------------------------------------------
(* The operators the actions are built from *)

(* A new object has no instance, and the entries that its type needs.      *)
LEMMA NewObjectFacts ==
  ASSUME NEW p \in Ptrs
  PROVE  /\ NewObject(p) \in Object
         /\ NewObject(p).instance = NoInst
         /\ NewObject(p).info = NoInfo
         /\ \A k \in Interfaces : NewObject(p).interfaces[k] \notin Insts
         /\ \A n \in DOMAIN Specialization[p] :
              /\ Specialization[p][n] \in Interfaces
              /\ NewObject(p).interfaces[Specialization[p][n]] = NullEntry
<1>1. Specialization[p] \in Seq(Interfaces)
  BY LifetimeAssumption
<1>2. \A n \in DOMAIN Specialization[p] :
        Specialization[p][n] \in SpecializedFor(p)
  BY <1>1 DEF SpecializedFor, Bases
<1> QED
  BY <1>1, <1>2, LifetimeAssumption DEF NewObject, Object, SpecializedFor

(* Cast writes entries that point into the instance, and takes none away.  *)
LEMMA AssembledFacts ==
  ASSUME NEW p \in Ptrs, NEW x \in Infos \cup {NoInfo},
         NEW i \in Insts \cup {NoInst}
  PROVE  /\ Assembled(p, x, i) \in Object
         /\ Assembled(p, x, i).instance = i
         /\ Assembled(p, x, i).info = x
         /\ \A k \in Interfaces :
              Assembled(p, x, i).interfaces[k] \in Insts =>
                Assembled(p, x, i).interfaces[k] = i
         /\ \A n \in DOMAIN Specialization[p] :
              Assembled(p, x, i).interfaces[Specialization[p][n]] # NoEntry
<1> USE LifetimeAssumption, NewObjectFacts
<1>1. CASE i # NoInst /\ x # NoInfo
  <2>1. i \in Insts /\ i # NoEntry
    BY <1>1
  <2> QED
    BY <1>1, <2>1 DEF Assembled, Cast, Object
<1>2. CASE ~(i # NoInst /\ x # NoInfo)
  BY <1>2 DEF Assembled, Object
<1> QED
  BY <1>1, <1>2

(* Copy(_other) overwrites entries and adds some, and takes none away.     *)
LEMMA CopiedFacts ==
  ASSUME NEW o \in Object, NEW other \in Object
  PROVE  /\ Copied(o, other) \in Object
         /\ Copied(o, other).instance = other.instance
         /\ Copied(o, other).info = other.info
         /\ \A k \in Interfaces :
              \/ Copied(o, other).interfaces[k] = o.interfaces[k]
              \/ /\ Copied(o, other).interfaces[k] = other.interfaces[k]
                 /\ other.interfaces[k] # NoEntry
  BY DEF Copied, Object

(* What is about to be destroyed is owned by the frame.                    *)
LEMMA DestroyingFacts ==
  ASSUME NEW o \in Object \cup WeakValue
  PROVE  /\ Destroying(o) \in Frame
         /\ Destroying(o).op \in {"idle", "dropInfo"}
         /\ Destroying(o).ptr = NoPtr /\ Destroying(o).source = NoPtr
         /\ Destroying(o).op = "dropInfo" =>
              /\ Destroying(o).instance = o.instance
              /\ Destroying(o).info = o.info
         /\ Destroying(o).op = "idle" =>
              Destroying(o).info = NoInfo
  BY DEF Destroying, Frame, Idle, Object, WeakValue

(* The updates that an operation in progress makes to its frame.           *)
LEMMA FrameFacts ==
  ASSUME NEW f \in Frame
  PROVE  /\ Idle \in Frame
         /\ [f EXCEPT !.op = "copy"] \in Frame
         /\ [f EXCEPT !.op = "dropInstance", !.info = NoInfo] \in Frame
  BY DEF Idle, Frame

-----------------------------------------------------------------------------
(* What one PluginPtr object shows *)

(* Every step keeps the variables in their types. *)
LEMMA LifetimeTypeStep ==
  ASSUME ObjectInv, [Next]_vars PROVE VarsOK'
<1> USE LifetimeAssumption, ObjectAssumption DEF IsObject
<1>0. VarsOK /\ FrameInv
  BY DEF ObjectInv
<1>1. CASE UNCHANGED vars
  BY <1>0, <1>1 DEF vars, loaderVars, VarsOK
<1>2. ASSUME NEW t \in Threads, Invoke(t) PROVE VarsOK'
  <2>1. ASSUME NEW p \in Ptrs, NEW i \in Insts,
               Instantiate(t, p, i) \/ InstantiateStatic(t, p, i)
        PROVE  VarsOK'
    <3>1. ClassOf[i] \in Infos
      OBVIOUS
    <3>2. Assembled(p, ClassOf[i], i) \in Object
      BY <3>1, AssembledFacts
    <3> QED
      BY <1>0, <2>1, <3>2
      DEF Instantiate, InstantiateStatic, Settled, VarsOK, loaderVars
  <2>2. ASSUME NEW p \in Ptrs, Construct(t, p) PROVE VarsOK'
    BY <1>0, <2>2, NewObjectFacts DEF Construct, Settled, VarsOK, loaderVars
  <2>3. ASSUME NEW p \in Ptrs, NEW q \in Ptrs, CopyConstruct(t, p, q)
        PROVE  VarsOK'
    <3>1. ptr[q] \in Object
      BY <1>0, <2>3 DEF CopyConstruct, VarsOK
    <3>2. Copied(NewObject(p), ptr[q]) \in Object
      BY <3>1, NewObjectFacts, CopiedFacts
    <3> QED
      BY <1>0, <2>3, <3>2 DEF CopyConstruct, Settled, VarsOK, loaderVars
  <2>4. ASSUME NEW p \in Ptrs, NEW q \in Ptrs, MoveConstruct(t, p, q)
        PROVE  VarsOK'
    BY <1>0, <2>4 DEF MoveConstruct, Settled, VarsOK, loaderVars
  <2>5. ASSUME NEW p \in Ptrs,
               (\E q \in Ptrs : MoveAssign(t, p, q)) \/ Destroy(t, p)
        PROVE  VarsOK'
    <3>1. CASE IsObject(p)
      <4>1. ptr[p] \in Object
        BY <1>0, <3>1 DEF VarsOK
      <4>2. Destroying(ptr[p]) \in Frame
        BY <4>1, DestroyingFacts
      <4>3. frame' = [frame EXCEPT ![t] = Destroying(ptr[p])]
        BY <2>5, <3>1 DEF MoveAssign, Destroy
      <4> QED
        BY <1>0, <2>5, <4>2, <4>3 DEF MoveAssign, Destroy, VarsOK, loaderVars
    <3>2. CASE ~IsObject(p)
      BY <1>0, <2>5, <3>2, FrameFacts
      DEF MoveAssign, Destroy, Settled, Free, VarsOK, loaderVars, Idle
    <3> QED
      BY <3>1, <3>2
  <2>6. ASSUME NEW p \in Ptrs, NEW q \in Ptrs \cup {NoPtr}, Assign(t, p, q)
        PROVE  VarsOK'
    <3>1. ptr[p] \in Object
      BY <1>0, <2>6 DEF Assign, VarsOK
    <3>2. [ptr[p] EXCEPT !.instance = NoInst] \in Object
      BY <3>1 DEF Object
    <3>3. [Idle EXCEPT !.op = "clear", !.ptr = p, !.source = q] \in Frame
      BY DEF Idle, Frame
    <3>4. ptr' = [ptr EXCEPT ![p] = [ptr[p] EXCEPT !.instance = NoInst]]
      BY <1>0, <2>6 DEF Assign, VarsOK
    <3> QED
      BY <1>0, <2>6, <3>2, <3>3, <3>4
      DEF Assign, Free, Settled, VarsOK, loaderVars, Idle
  <2>7. ASSUME NEW p \in Ptrs, NEW k \in Interfaces, NEW s \in Shares,
               QueryInterfaceSharedPtr(t, p, k, s)
        PROVE  VarsOK'
    <3>1. ptr[p].instance \in Insts \cup {NoInst}
      BY <1>0, <2>7 DEF QueryInterfaceSharedPtr, VarsOK, Object
    <3> QED
      BY <1>0, <2>7, <3>1 DEF QueryInterfaceSharedPtr, VarsOK, loaderVars
  <2>8. ASSUME NEW s \in Shares, DropShared(t, s) PROVE VarsOK'
    BY <1>0, <2>8 DEF DropShared, VarsOK, loaderVars
  <2>9. ASSUME NEW w \in Weaks, NEW p \in Ptrs, WeakAssign(t, w, p)
        PROVE  VarsOK'
    <3>1. ptr[p] \in Object
      BY <1>0, <2>9 DEF WeakAssign, VarsOK
    <3>2. [instance |-> ptr[p].instance, info |-> ptr[p].info] \in WeakValue
      BY <3>1 DEF Object, WeakValue
    <3> QED
      BY <1>0, <2>9, <3>2 DEF WeakAssign, VarsOK, loaderVars
  <2>10. ASSUME NEW w \in Weaks, NEW u \in Weaks,
                WeakCopy(t, w, u) \/ WeakMove(t, w, u)
         PROVE  VarsOK'
    BY <1>0, <2>10 DEF WeakCopy, WeakMove, VarsOK, loaderVars
  <2>11. ASSUME NEW w \in Weaks,
                \/ \E p \in Ptrs : LockInstance(t, w, p)
                \/ IsExpiredInstance(t, w)
         PROVE  VarsOK'
    <3>1. weak[w] \in WeakValue
      BY <1>0, <2>11 DEF LockInstance, IsExpiredInstance, VarsOK
    <3>2. weak[w].info \in Infos \cup {NoInfo}
      BY <3>1 DEF WeakValue
    <3>3. Locked(weak[w].instance) \in Insts \cup {NoInst}
      BY DEF Locked
    <3>4. \A p \in Ptrs :
            [Idle EXCEPT !.op = "lock", !.ptr = p, !.want = weak[w].info,
                         !.instance = Locked(weak[w].instance)] \in Frame
      BY <3>2, <3>3 DEF Idle, Frame
    <3>5. [Idle EXCEPT !.op = "expired", !.want = weak[w].info,
                       !.instance = Locked(weak[w].instance)] \in Frame
      BY <3>2, <3>3 DEF Idle, Frame
    <3>6. \E f \in Frame : frame' = [frame EXCEPT ![t] = f]
      BY <2>11, <3>4, <3>5, Zenon DEF LockInstance, IsExpiredInstance
    <3>7. UNCHANGED <<program, loaderVars, ptr, weak, shared>>
      BY <2>11, Zenon DEF LockInstance, IsExpiredInstance
    <3> QED
      BY <1>0, <3>6, <3>7 DEF VarsOK, loaderVars
  <2>12. ASSUME NEW i \in Insts, NEW p \in Ptrs, PluginFromThis(t, i, p)
         PROVE  VarsOK'
    <3>1. ClassOf[i] \in Infos
      OBVIOUS
    <3> QED
      BY <1>0, <2>12, <3>1
      DEF PluginFromThis, Free, VarsOK, loaderVars, Frame, Idle
  <2>13. ASSUME NEW x \in Infos, ForgetInfo(t, x) PROVE VarsOK'
    BY <1>0, <2>13 DEF ForgetInfo, Free, VarsOK, Frame, Idle
  <2> QED
    BY <1>2, <2>1, <2>2, <2>3, <2>4, <2>5, <2>6, <2>7, <2>8, <2>9, <2>10,
       <2>11, <2>12, <2>13
    DEF Invoke
<1>3. ASSUME NEW t \in Threads, Continue(t) PROVE VarsOK'
  <2>1. CASE DropInfo(t) \/ DropInstance(t) \/ ForgetHandle(t)
    <3>1. frame[t] \in Frame
      BY <1>0 DEF VarsOK
    <3>2. DropInfo(t) =>
            frame' = [frame EXCEPT ![t] = [frame[t] EXCEPT
                         !.op = "dropInstance", !.info = NoInfo]]
      BY <1>0 DEF DropInfo, VarsOK
    <3>3. \E f \in Frame : frame' = [frame EXCEPT ![t] = f]
      BY <2>1, <3>1, <3>2, FrameFacts, Zenon
      DEF DropInfo, DropInstance, ForgetHandle
    <3>4. held' \subseteq held /\ UNCHANGED <<program, known, ptr, weak, shared>>
      BY <2>1 DEF DropInfo, DropInstance, ForgetHandle, loaderVars
    <3> QED
      BY <1>0, <3>3, <3>4 DEF VarsOK
  <2>2. CASE ClearInfo(t)
    <3> DEFINE p == frame[t].ptr
               es == [k \in Interfaces |->
                        IF ptr[p].interfaces[k] = NoEntry THEN NoEntry
                        ELSE NullEntry]
    <3>1. p \in Ptrs /\ ptr[p] \in Object /\ frame[t].op = "clear"
      BY <1>0, <2>2 DEF ClearInfo, FrameInv, VarsOK
    <3>2. [ptr[p] EXCEPT !.info = NoInfo, !.interfaces = es] \in Object
      BY <3>1 DEF Object
    <3>3. ptr' = [ptr EXCEPT
                    ![p] = [ptr[p] EXCEPT !.info = NoInfo, !.interfaces = es]]
      BY <1>0, <2>2, <3>1 DEF ClearInfo, VarsOK
    <3>4. frame[t] \in Frame
      BY <1>0 DEF VarsOK
    <3>5. [frame[t] EXCEPT !.op = "copy"] \in Frame /\ Idle \in Frame
      BY <3>4, FrameFacts, Zenon
    <3>6. \E f \in Frame : frame' = [frame EXCEPT ![t] = f]
      BY <2>2, <3>5, Zenon DEF ClearInfo
    <3>7. \E o \in Object : ptr' = [ptr EXCEPT ![p] = o]
      BY <3>2, <3>3, Zenon
    <3>8. UNCHANGED <<program, loaderVars, weak, shared>>
      BY <2>2 DEF ClearInfo
    <3> HIDE DEF p, es
    <3>9. frame' \in [Threads -> Frame]
      BY <1>0, <3>6 DEF VarsOK
    <3>10. ptr' \in [Ptrs -> Object \cup {Absent, Moved}]
      BY <1>0, <3>7 DEF VarsOK
    <3> QED
      BY <1>0, <3>8, <3>9, <3>10 DEF VarsOK, loaderVars
  <2>3. CASE CopyFrom(t)
    <3>1. /\ frame[t].ptr \in Ptrs /\ ptr[frame[t].ptr] \in Object
          /\ frame[t].source \in Ptrs /\ ptr[frame[t].source] \in Object
      BY <1>0, <2>3 DEF CopyFrom, FrameInv, VarsOK, Frame
    <3>2. Copied(ptr[frame[t].ptr], ptr[frame[t].source]) \in Object
      BY <3>1, CopiedFacts
    <3> QED
      BY <1>0, <2>3, <3>1, <3>2, FrameFacts
      DEF CopyFrom, VarsOK, loaderVars, Idle
  <2>4. CASE LockInfo(t)
    <3> DEFINE p == frame[t].ptr
    <3>1. p \in Ptrs /\ frame[t].instance \in Insts \cup {NoInst}
      BY <1>0, <2>4 DEF LockInfo, FrameInv, VarsOK, Frame
    <3>2. LockedInfo(frame[t].want) \in Infos \cup {NoInfo}
      BY DEF LockedInfo
    <3>3. Assembled(p, LockedInfo(frame[t].want), frame[t].instance) \in Object
      BY <3>1, <3>2, AssembledFacts
    <3> QED
      BY <1>0, <2>4, <3>1, <3>3, FrameFacts
      DEF LockInfo, FrameInv, VarsOK, loaderVars, Idle
  <2>5. CASE IsExpiredInfo(t)
    <3> DEFINE o == [instance |-> frame[t].instance,
                     info |-> LockedInfo(frame[t].want)]
    <3>1. LockedInfo(frame[t].want) \in Infos \cup {NoInfo}
      BY DEF LockedInfo
    <3>2. o \in WeakValue
      BY <1>0, <3>1 DEF VarsOK, Frame, WeakValue
    <3>3. frame' = [frame EXCEPT ![t] = Destroying(o)]
      BY <2>5 DEF IsExpiredInfo
    <3> HIDE DEF o
    <3> QED
      BY <1>0, <2>5, <3>2, <3>3, DestroyingFacts
      DEF IsExpiredInfo, VarsOK, loaderVars
  <2> QED
    BY <1>3, <2>1, <2>2, <2>3, <2>4, <2>5 DEF Continue
<1> QED
  BY <1>1, <1>2, <1>3 DEF Next

(* An operation on no PluginPtr object. *)
Quiet(f) ==
  /\ f.op \notin {"clear", "copy", "lock"}
  /\ f.ptr = NoPtr /\ f.source = NoPtr
  /\ f.op # "dropInfo" => f.info = NoInfo

(* An object that PluginPtr p may have. *)
Sound(p, o) ==
  /\ o \in Object
  /\ \A k \in Interfaces : o.interfaces[k] \in Insts =>
                             o.interfaces[k] = o.instance
  /\ \A n \in DOMAIN Specialization[p] :
       o.interfaces[Specialization[p][n]] # NoEntry

(* A step of a thread that is inside of no operation on a PluginPtr,       *)
(* before and after it, and that replaces objects of settled PluginPtrs.   *)
OutsideStep ==
  \E t \in Threads :
    /\ Quiet(frame[t]) /\ Quiet(frame'[t])
    /\ \A u \in Threads \ {t} : frame'[u] = frame[u]
    /\ \A p \in Ptrs :
         \/ ptr'[p] = ptr[p]
         \/ /\ Settled(p)
            /\ ptr'[p] \in {Absent, Moved} \/ Sound(p, ptr'[p])

LEMMA OutsideKeepsObjects ==
  ASSUME ObjectInv, VarsOK', OutsideStep PROVE ObjectInv'
<1> USE LifetimeAssumption, ObjectAssumption DEF IsObject
<1>0. VarsOK /\ FrameInv /\ Exclusive /\ ClearedInv /\ EntriesInv
        /\ IteratorsValid
  BY DEF ObjectInv
<1>1. PICK t \in Threads :
        /\ Quiet(frame[t]) /\ Quiet(frame'[t])
        /\ \A u \in Threads \ {t} : frame'[u] = frame[u]
        /\ \A p \in Ptrs :
             \/ ptr'[p] = ptr[p]
             \/ /\ Settled(p)
                /\ ptr'[p] \in {Absent, Moved} \/ Sound(p, ptr'[p])
  BY DEF OutsideStep
<1>2. \A u \in Threads, p \in Ptrs :
        u # t /\ (frame[u].ptr = p \/ frame[u].source = p) => ptr'[p] = ptr[p]
  BY <1>1 DEF Settled
<1>3. \A u \in Threads : frame[u].source \in Ptrs \cup {NoPtr}
  BY <1>0 DEF VarsOK, Frame
<1>4. FrameInv'
  <2> SUFFICES ASSUME NEW u \in Threads
               PROVE  FrameInv!(u)'
    BY DEF FrameInv
  <2>1. CASE u = t
    BY <1>1, <2>1 DEF Quiet
  <2>2. CASE u # t
    <3>1. frame'[u] = frame[u]
      BY <1>1, <2>2
    <3> QED
      BY <1>0, <1>2, <1>3, <2>2, <3>1 DEF FrameInv
  <2> QED
    BY <2>1, <2>2
<1>5. Exclusive'
  BY <1>0, <1>1 DEF Exclusive, Quiet
<1>6. ClearedInv'
  <2>1. ASSUME NEW u \in Threads, frame'[u].op \in {"clear", "copy"}
        PROVE  /\ u # t /\ frame'[u] = frame[u] /\ frame[u].ptr \in Ptrs
               /\ ptr'[frame[u].ptr] = ptr[frame[u].ptr]
    BY <1>0, <1>1, <1>2, <2>1 DEF Quiet, FrameInv
  <2> QED
    BY <1>0, <2>1 DEF ClearedInv
<1>7. EntriesInv'
  <2> SUFFICES ASSUME NEW p \in Ptrs, NEW k \in Interfaces,
                      (IsObject(p) /\ ptr[p].interfaces[k] \in Insts)'
               PROVE  \/ (ptr[p].interfaces[k] = ptr[p].instance)'
                      \/ \E u \in Threads :
                           (frame[u].op = "clear" /\ frame[u].ptr = p)'
    BY DEF EntriesInv
  <2>1. CASE ptr'[p] = ptr[p]
    BY <1>0, <1>1, <2>1 DEF EntriesInv, Quiet
  <2>2. CASE ptr'[p] # ptr[p]
    BY <1>1, <2>2 DEF Sound
  <2> QED
    BY <2>1, <2>2
<1>8. IteratorsValid'
  <2> SUFFICES ASSUME NEW p \in Ptrs, IsObject(p)'
               PROVE  \A n \in DOMAIN Specialization[p] :
                        ptr'[p].interfaces[Specialization[p][n]] # NoEntry
    BY DEF IteratorsValid
  <2>1. CASE ptr'[p] = ptr[p]
    BY <1>0, <2>1 DEF IteratorsValid
  <2>2. CASE ptr'[p] # ptr[p]
    BY <1>1, <2>2 DEF Sound
  <2> QED
    BY <2>1, <2>2
<1> QED
  BY <1>4, <1>5, <1>6, <1>7, <1>8 DEF ObjectInv

LEMMA QuietFacts ==
  /\ Quiet(Idle)
  /\ \A o \in Object \cup WeakValue : Quiet(Destroying(o))
BY DestroyingFacts DEF Quiet, Idle

(* A new object, and a copy of one that nobody is writing, are sound. *)
LEMMA SoundFacts ==
  ASSUME ObjectInv
  PROVE  /\ \A p \in Ptrs : Sound(p, NewObject(p))
         /\ \A p \in Ptrs, i \in Insts \cup {NoInst},
               x \in Infos \cup {NoInfo} : Sound(p, Assembled(p, x, i))
         /\ \A p, q \in Ptrs :
              /\ IsObject(q) /\ Readable(q)
              /\ Specialization[p] = Specialization[q]
              => Sound(p, ptr[q])
         /\ \A p, q \in Ptrs :
              IsObject(q) /\ Readable(q) =>
                Sound(p, Copied(NewObject(p), ptr[q]))
<1> USE LifetimeAssumption, ObjectAssumption
<1>0. VarsOK /\ EntriesInv /\ IteratorsValid
  BY DEF ObjectInv
<1>1. \A p \in Ptrs : Sound(p, NewObject(p))
  BY NewObjectFacts DEF Sound
<1>2. \A p \in Ptrs, i \in Insts \cup {NoInst}, x \in Infos \cup {NoInfo} :
        Sound(p, Assembled(p, x, i))
  BY AssembledFacts DEF Sound
<1>3. \A q \in Ptrs : IsObject(q) /\ Readable(q) => Sound(q, ptr[q])
  BY <1>0 DEF VarsOK, EntriesInv, IteratorsValid, IsObject, Readable, Sound
<1>4. ASSUME NEW p \in Ptrs, NEW q \in Ptrs, IsObject(q), Readable(q)
      PROVE  Sound(p, Copied(NewObject(p), ptr[q]))
  <2> DEFINE n == NewObject(p)
             c == Copied(n, ptr[q])
  <2>1. Sound(q, ptr[q])
    BY <1>3, <1>4
  <2>2. ptr[q] \in Object /\ n \in Object
    BY <2>1, NewObjectFacts DEF Sound
  <2>3. /\ c \in Object /\ c.instance = ptr[q].instance
        /\ \A k \in Interfaces : \/ c.interfaces[k] = n.interfaces[k]
                                 \/ /\ c.interfaces[k] = ptr[q].interfaces[k]
                                    /\ ptr[q].interfaces[k] # NoEntry
    BY <2>2, CopiedFacts
  <2>4. /\ \A k \in Interfaces : n.interfaces[k] \notin Insts
        /\ \A m \in DOMAIN Specialization[p] :
             /\ Specialization[p][m] \in Interfaces
             /\ n.interfaces[Specialization[p][m]] # NoEntry
    BY NewObjectFacts
  <2> HIDE DEF n, c
  <2>5. Sound(p, c)
    BY <2>1, <2>3, <2>4 DEF Sound
  <2> QED
    BY <2>5 DEF c, n
<1>5. \A p, q \in Ptrs :
        IsObject(q) /\ Readable(q) /\ Specialization[p] = Specialization[q]
        => Sound(p, ptr[q])
  BY <1>3 DEF Sound
<1> QED
  BY <1>1, <1>2, <1>4, <1>5

(* The steps that replace whole objects, or none. *)
LEMMA OutsideSteps ==
  ASSUME ObjectInv, NEW t \in Threads,
         \/ \E p \in Ptrs, i \in Insts :
              Instantiate(t, p, i) \/ InstantiateStatic(t, p, i)
         \/ \E p \in Ptrs : Construct(t, p) \/ Destroy(t, p)
         \/ \E p, q \in Ptrs :
              \/ CopyConstruct(t, p, q) \/ MoveConstruct(t, p, q)
              \/ MoveAssign(t, p, q)
         \/ \E p \in Ptrs, k \in Interfaces, s \in Shares :
              QueryInterfaceSharedPtr(t, p, k, s)
         \/ \E s \in Shares : DropShared(t, s)
         \/ \E w \in Weaks, p \in Ptrs : WeakAssign(t, w, p)
         \/ \E w, u \in Weaks : WeakCopy(t, w, u) \/ WeakMove(t, w, u)
         \/ \E w \in Weaks : IsExpiredInstance(t, w)
         \/ \E x \in Infos : ForgetInfo(t, x)
         \/ DropInfo(t) \/ DropInstance(t) \/ IsExpiredInfo(t)
         \/ ForgetHandle(t)
  PROVE  OutsideStep
<1> USE LifetimeAssumption, ObjectAssumption, QuietFacts, SoundFacts
<1> USE DEF IsObject
<1>0. VarsOK /\ FrameInv
  BY DEF ObjectInv
<1>1. Free(t) => Quiet(frame[t])
  BY DEF Free
<1>2. ASSUME UNCHANGED frame, Free(t),
             \A p \in Ptrs :
               \/ ptr'[p] = ptr[p]
               \/ /\ Settled(p)
                  /\ ptr'[p] \in {Absent, Moved} \/ Sound(p, ptr'[p])
      PROVE  OutsideStep
  BY <1>1, <1>2 DEF OutsideStep
<1>3. ASSUME NEW f, Quiet(f), Quiet(frame[t]),
             frame' = [frame EXCEPT ![t] = f],
             \A p \in Ptrs :
               \/ ptr'[p] = ptr[p]
               \/ /\ Settled(p)
                  /\ ptr'[p] \in {Absent, Moved} \/ Sound(p, ptr'[p])
      PROVE  OutsideStep
  BY <1>0, <1>3 DEF OutsideStep, VarsOK
<1>4. \A p \in Ptrs : Settled(p) => Readable(p)
  BY DEF Settled, Readable
<1>5. ASSUME NEW p \in Ptrs, NEW i \in Insts,
             Instantiate(t, p, i) \/ InstantiateStatic(t, p, i)
      PROVE  OutsideStep
  <2>1. Sound(p, Assembled(p, ClassOf[i], i))
    OBVIOUS
  <2> QED
    BY <1>0, <1>2, <1>5, <2>1 DEF Instantiate, InstantiateStatic, VarsOK
<1>6. ASSUME NEW p \in Ptrs, Construct(t, p) PROVE OutsideStep
  BY <1>0, <1>2, <1>6 DEF Construct, VarsOK
<1>7. ASSUME NEW p \in Ptrs, NEW q \in Ptrs, CopyConstruct(t, p, q)
      PROVE  OutsideStep
  BY <1>0, <1>2, <1>7 DEF CopyConstruct, VarsOK
<1>8. ASSUME NEW p \in Ptrs, NEW q \in Ptrs, MoveConstruct(t, p, q)
      PROVE  OutsideStep
  BY <1>0, <1>2, <1>4, <1>8 DEF MoveConstruct, VarsOK
<1>9. ASSUME NEW p \in Ptrs,
             (\E q \in Ptrs : MoveAssign(t, p, q)) \/ Destroy(t, p)
      PROVE  OutsideStep
  <2>1. \A r \in Ptrs :
          \/ ptr'[r] = ptr[r]
          \/ /\ Settled(r)
             /\ ptr'[r] \in {Absent, Moved} \/ Sound(r, ptr'[r])
    <3>1. ASSUME NEW q \in Ptrs, MoveAssign(t, p, q)
          PROVE  \A r \in Ptrs :
                   \/ ptr'[r] = ptr[r]
                   \/ /\ Settled(r)
                      /\ ptr'[r] \in {Absent, Moved} \/ Sound(r, ptr'[r])
      <4>1. /\ Settled(p) /\ Settled(q)
            /\ Specialization[p] = Specialization[q]
            /\ ptr' = [ptr EXCEPT ![p] = ptr[q], ![q] = Moved]
        BY <3>1 DEF MoveAssign
      <4>2. ptr[q] \in {Absent, Moved} \/ Sound(p, ptr[q])
        BY <1>4, <4>1
      <4> QED
        BY <1>0, <4>1, <4>2 DEF VarsOK
    <3>2. CASE Destroy(t, p)
      BY <1>0, <3>2 DEF Destroy, VarsOK
    <3> QED
      BY <1>9, <3>1, <3>2
  <2>2. Quiet(frame[t])
    BY <1>1, <1>9 DEF MoveAssign, Destroy
  <2>3. CASE IsObject(p)
    <3>1. ptr[p] \in Object
      BY <1>0, <2>3 DEF VarsOK
    <3>2. frame' = [frame EXCEPT ![t] = Destroying(ptr[p])]
      BY <1>9, <2>3 DEF MoveAssign, Destroy
    <3> QED
      BY <1>3, <2>1, <2>2, <3>1, <3>2
  <2>4. CASE ~IsObject(p)
    <3>1. frame' = [frame EXCEPT ![t] = Idle]
      BY <1>9, <2>4 DEF MoveAssign, Destroy
    <3> QED
      BY <1>3, <2>1, <2>2, <3>1
  <2> QED
    BY <2>3, <2>4
<1>10. ASSUME UNCHANGED <<ptr, frame>>, Free(t) PROVE OutsideStep
  BY <1>2, <1>10
<1>11. ASSUME NEW w \in Weaks, IsExpiredInstance(t, w) PROVE OutsideStep
  <2>1. Quiet([Idle EXCEPT !.op = "expired", !.want = weak[w].info,
                           !.instance = Locked(weak[w].instance)])
    BY DEF Quiet, Idle
  <2> QED
    BY <1>1, <1>3, <1>11, <2>1, Zenon DEF IsExpiredInstance
<1>12. ASSUME NEW x \in Infos, ForgetInfo(t, x) PROVE OutsideStep
  <2>1. Quiet([Idle EXCEPT !.op = "forget", !.want = x])
    BY DEF Quiet, Idle
  <2> QED
    BY <1>1, <1>3, <1>12, <2>1, Zenon DEF ForgetInfo
<1>13. CASE DropInfo(t) \/ DropInstance(t) \/ ForgetHandle(t)
  <2>1. frame[t] \in Frame /\ Quiet(frame[t]) /\ UNCHANGED ptr
    BY <1>0, <1>13
    DEF VarsOK, FrameInv, Quiet, DropInfo, DropInstance, ForgetHandle
  <2>2. Quiet([frame[t] EXCEPT !.op = "dropInstance", !.info = NoInfo])
    BY <2>1 DEF Quiet, Frame
  <2>3. DropInfo(t) =>
          frame' = [frame EXCEPT ![t] = [frame[t] EXCEPT
                       !.op = "dropInstance", !.info = NoInfo]]
    BY <1>0 DEF DropInfo, VarsOK
  <2>4. \E f : Quiet(f) /\ frame' = [frame EXCEPT ![t] = f]
    BY <1>13, <2>2, <2>3, Zenon DEF DropInstance, ForgetHandle
  <2> QED
    BY <1>3, <2>1, <2>4
<1>14. CASE IsExpiredInfo(t)
  <2> DEFINE o == [instance |-> frame[t].instance,
                   info |-> LockedInfo(frame[t].want)]
  <2>1. o \in WeakValue
    BY <1>0 DEF VarsOK, Frame, WeakValue, LockedInfo
  <2>2. frame' = [frame EXCEPT ![t] = Destroying(o)] /\ UNCHANGED ptr
    BY <1>14 DEF IsExpiredInfo
  <2>3. Quiet(frame[t])
    BY <1>0, <1>14 DEF FrameInv, Quiet, IsExpiredInfo
  <2> HIDE DEF o
  <2> QED
    BY <1>3, <2>1, <2>2, <2>3
<1> QED
  BY <1>5, <1>6, <1>7, <1>8, <1>9, <1>10, <1>11, <1>12, <1>13, <1>14
  DEF QueryInterfaceSharedPtr, DropShared, WeakAssign, WeakCopy, WeakMove

LEMMA NullFacts ==
  /\ NoPtr \notin Ptrs /\ NoInst \notin Insts
  /\ NullEntry \notin Insts /\ NoEntry \notin Insts /\ NullEntry # NoEntry
  /\ \A o \in Object : o \notin {Absent, Moved}
BY LifetimeAssumption, ObjectAssumption

(* Lock and PluginFromThis begin on a PluginPtr that does not exist yet. *)
LEMMA LockKeepsObjects ==
  ASSUME ObjectInv, VarsOK', NEW t \in Threads, NEW p \in Ptrs,
         \/ \E w \in Weaks : LockInstance(t, w, p)
         \/ \E i \in Insts : PluginFromThis(t, i, p)
  PROVE  ObjectInv'
<1> USE NullFacts DEF IsObject
<1>0. VarsOK /\ FrameInv /\ Exclusive /\ ClearedInv /\ EntriesInv
        /\ IteratorsValid
  BY DEF ObjectInv
<1>1. /\ frame[t].op = "idle" /\ ptr[p] = Absent /\ Settled(p) /\ ptr' = ptr
      /\ frame'[t].op = "lock" /\ frame'[t].ptr = p
      /\ frame'[t].source = NoPtr /\ frame'[t].info = NoInfo
      /\ \A u \in Threads \ {t} : frame'[u] = frame[u]
  <2>1. frame[t] = Idle /\ ptr[p] = Absent /\ Settled(p) /\ ptr' = ptr
    BY DEF LockInstance, PluginFromThis, Free
  <2>2. PICK x, i : frame' = [frame EXCEPT ![t] =
                      [Idle EXCEPT !.op = "lock", !.ptr = p, !.want = x,
                                   !.instance = i]]
    BY Zenon DEF LockInstance, PluginFromThis
  <2> QED
    BY <1>0, <2>1, <2>2 DEF VarsOK, Idle
<1>2. FrameInv'
  BY <1>0, <1>1 DEF FrameInv
<1>3. Exclusive'
  <2>1. \A u \in Threads : frame[u].ptr # p /\ frame[u].source # p
    BY <1>1 DEF Settled
  <2> QED
    BY <1>0, <1>1, <2>1 DEF Exclusive
<1>4. ClearedInv'
  BY <1>0, <1>1 DEF ClearedInv
<1>5. EntriesInv'
  <2>1. \A u \in Threads : frame[u].op = "clear" => frame'[u] = frame[u]
    BY <1>1
  <2> QED
    BY <1>0, <1>1, <2>1 DEF EntriesInv
<1>6. IteratorsValid'
  BY <1>0, <1>1 DEF IteratorsValid
<1> QED
  BY <1>2, <1>3, <1>4, <1>5, <1>6 DEF ObjectInv

(* Assignment begins with Clear: the instance is reset, the entries that   *)
(* still point into it are Clear's to reset.                               *)
LEMMA AssignKeepsObjects ==
  ASSUME ObjectInv, VarsOK', NEW t \in Threads, NEW p \in Ptrs,
         NEW q \in Ptrs \cup {NoPtr}, Assign(t, p, q)
  PROVE  ObjectInv'
<1> USE NullFacts DEF IsObject
<1>0. VarsOK /\ FrameInv /\ Exclusive /\ ClearedInv /\ EntriesInv
        /\ IteratorsValid
  BY DEF ObjectInv
<1>1. /\ frame[t] = Idle /\ IsObject(p) /\ Settled(p)
      /\ q # NoPtr => IsObject(q) /\ Readable(q)
      /\ frame'[t].op = "clear" /\ frame'[t].ptr = p
      /\ frame'[t].source = q /\ frame'[t].info = NoInfo
      /\ frame'[t].instance = NoInst
      /\ \A u \in Threads \ {t} : frame'[u] = frame[u]
  BY <1>0 DEF Assign, Free, VarsOK, Idle
<1>2. /\ ptr[p] \in Object
      /\ ptr'[p] = [ptr[p] EXCEPT !.instance = NoInst]
      /\ \A r \in Ptrs \ {p} : ptr'[r] = ptr[r]
  BY <1>0, <1>1 DEF Assign, VarsOK
<1>3. /\ ptr'[p].instance = NoInst
      /\ ptr'[p].interfaces = ptr[p].interfaces
      /\ ptr'[p] \in Object
  BY <1>2 DEF Object
<1>4. \A u \in Threads : frame[u].ptr # p /\ frame[u].source # p
  BY <1>1 DEF Settled
<1>5. FrameInv'
  <2> SUFFICES ASSUME NEW u \in Threads
               PROVE  FrameInv!(u)'
    BY DEF FrameInv
  <2>1. CASE u = t
    BY <1>1, <1>2, <1>3, <2>1
  <2>2. CASE u # t
    <3>1. frame'[u] = frame[u] /\ frame[u].source \in Ptrs \cup {NoPtr}
      BY <1>0, <1>1, <2>2 DEF VarsOK, Frame
    <3> QED
      BY <1>0, <1>2, <1>4, <2>2, <3>1 DEF FrameInv
  <2> QED
    BY <2>1, <2>2
<1>6. Exclusive'
  BY <1>0, <1>1, <1>4 DEF Exclusive, Readable
<1>7. ClearedInv'
  <2> SUFFICES ASSUME NEW u \in Threads, frame'[u].op \in {"clear", "copy"}
               PROVE  /\ ptr'[frame'[u].ptr].instance = NoInst
                      /\ frame'[u].op = "copy" =>
                           ptr'[frame'[u].ptr].info = NoInfo
    BY DEF ClearedInv
  <2>1. CASE u = t
    BY <1>1, <1>3, <2>1
  <2>2. CASE u # t
    <3>1. frame'[u] = frame[u] /\ frame[u].ptr \in Ptrs \ {p}
      BY <1>0, <1>1, <1>4, <2>2 DEF FrameInv
    <3> QED
      BY <1>0, <1>2, <3>1 DEF ClearedInv
  <2> QED
    BY <2>1, <2>2
<1>8. EntriesInv'
  <2> SUFFICES ASSUME NEW r \in Ptrs, NEW k \in Interfaces,
                      (IsObject(r) /\ ptr[r].interfaces[k] \in Insts)'
               PROVE  \/ (ptr[r].interfaces[k] = ptr[r].instance)'
                      \/ \E u \in Threads :
                           (frame[u].op = "clear" /\ frame[u].ptr = r)'
    BY DEF EntriesInv
  <2>1. CASE r = p
    BY <1>1, <2>1
  <2>2. CASE r # p
    <3>1. \A u \in Threads : frame[u].op = "clear" => frame'[u] = frame[u]
      BY <1>1 DEF Idle
    <3> QED
      BY <1>0, <1>2, <2>2, <3>1 DEF EntriesInv
  <2> QED
    BY <2>1, <2>2
<1>9. IteratorsValid'
  <2>1. \A r \in Ptrs : IsObject(r)' =>
          IsObject(r) /\ ptr'[r].interfaces = ptr[r].interfaces
    BY <1>1, <1>2, <1>3
  <2> QED
    BY <1>0, <2>1 DEF IteratorsValid
<1> QED
  BY <1>5, <1>6, <1>7, <1>8, <1>9 DEF ObjectInv

(* The rest of Clear leaves no entry that points into an instance, and     *)
(* takes none away.                                                        *)
LEMMA ClearInfoFacts ==
  ASSUME ObjectInv, NEW t \in Threads, ClearInfo(t)
  PROVE  /\ frame[t].ptr \in Ptrs /\ ptr[frame[t].ptr] \in Object
         /\ ptr'[frame[t].ptr] \in Object
         /\ ptr'[frame[t].ptr].instance = ptr[frame[t].ptr].instance
         /\ ptr'[frame[t].ptr].info = NoInfo
         /\ \A k \in Interfaces :
              ptr'[frame[t].ptr].interfaces[k] =
                IF ptr[frame[t].ptr].interfaces[k] = NoEntry
                THEN NoEntry ELSE NullEntry
         /\ \A r \in Ptrs \ {frame[t].ptr} : ptr'[r] = ptr[r]
         /\ \/ frame'[t] = Idle
            \/ /\ frame'[t].op = "copy" /\ frame'[t].ptr = frame[t].ptr
               /\ frame'[t].source = frame[t].source
               /\ frame[t].source # NoPtr
               /\ frame'[t].instance = frame[t].instance
               /\ frame'[t].info = NoInfo
         /\ \A u \in Threads \ {t} : frame'[u] = frame[u]
<1> DEFINE p == frame[t].ptr
           es == [k \in Interfaces |->
                    IF ptr[p].interfaces[k] = NoEntry THEN NoEntry
                    ELSE NullEntry]
           o == [ptr[p] EXCEPT !.info = NoInfo, !.interfaces = es]
<1>0. VarsOK /\ FrameInv
  BY DEF ObjectInv
<1>1. p \in Ptrs /\ ptr[p] \in Object
  BY <1>0, ObjectAssumption DEF ClearInfo, FrameInv, VarsOK, IsObject
<1>2. /\ o \in Object /\ o.instance = ptr[p].instance /\ o.info = NoInfo
      /\ \A k \in Interfaces :
           o.interfaces[k] =
             IF ptr[p].interfaces[k] = NoEntry THEN NoEntry ELSE NullEntry
  BY <1>1 DEF Object
<1>3. ptr' = [ptr EXCEPT ![p] = o]
  BY <1>0, <1>1 DEF ClearInfo, VarsOK
<1>4. frame[t] \in Frame /\ frame[t].info = NoInfo
  BY <1>0 DEF VarsOK, FrameInv, ClearInfo
<1>5. /\ [frame[t] EXCEPT !.op = "copy"].op = "copy"
      /\ [frame[t] EXCEPT !.op = "copy"].ptr = frame[t].ptr
      /\ [frame[t] EXCEPT !.op = "copy"].source = frame[t].source
      /\ [frame[t] EXCEPT !.op = "copy"].instance = frame[t].instance
      /\ [frame[t] EXCEPT !.op = "copy"].info = NoInfo
  BY <1>4 DEF Frame
<1>6. \/ frame' = [frame EXCEPT ![t] = Idle]
      \/ /\ frame[t].source # NoPtr
         /\ frame' = [frame EXCEPT ![t] = [frame[t] EXCEPT !.op = "copy"]]
  BY Zenon DEF ClearInfo
<1>7. frame \in [Threads -> Frame] /\ ptr \in [Ptrs -> Object \cup {Absent, Moved}]
  BY <1>0 DEF VarsOK
<1> DEFINE c == [frame[t] EXCEPT !.op = "copy"]
<1>8. /\ c.op = "copy" /\ c.ptr = frame[t].ptr
      /\ c.source = frame[t].source
      /\ c.instance = frame[t].instance /\ c.info = NoInfo
  BY <1>5
<1>9. \/ frame' = [frame EXCEPT ![t] = Idle]
      \/ frame[t].source # NoPtr /\ frame' = [frame EXCEPT ![t] = c]
  BY <1>6
<1> HIDE DEF c
<1>10. /\ \/ frame'[t] = Idle
          \/ /\ frame'[t].op = "copy" /\ frame'[t].ptr = frame[t].ptr
             /\ frame'[t].source = frame[t].source
             /\ frame[t].source # NoPtr
             /\ frame'[t].instance = frame[t].instance
             /\ frame'[t].info = NoInfo
       /\ \A u \in Threads \ {t} : frame'[u] = frame[u]
  BY <1>7, <1>8, <1>9
<1> HIDE DEF o, es
<1>11. ptr'[p] = o /\ \A r \in Ptrs \ {p} : ptr'[r] = ptr[r]
  BY <1>1, <1>3, <1>7
<1> QED
  BY <1>1, <1>2, <1>10, <1>11

LEMMA ClearInfoKeepsObjects ==
  ASSUME ObjectInv, VarsOK', NEW t \in Threads, ClearInfo(t)
  PROVE  ObjectInv'
<1> USE NullFacts DEF IsObject
<1> DEFINE p == frame[t].ptr
<1>0. VarsOK /\ FrameInv /\ Exclusive /\ ClearedInv /\ EntriesInv
        /\ IteratorsValid
  BY DEF ObjectInv
<1>1. /\ p \in Ptrs /\ ptr[p] \in Object /\ ptr'[p] \in Object
      /\ ptr'[p].instance = ptr[p].instance /\ ptr'[p].info = NoInfo
      /\ \A k \in Interfaces :
           ptr'[p].interfaces[k] =
             IF ptr[p].interfaces[k] = NoEntry THEN NoEntry ELSE NullEntry
      /\ \A r \in Ptrs \ {p} : ptr'[r] = ptr[r]
  BY ClearInfoFacts
<1>2. /\ \/ frame'[t] = Idle
         \/ /\ frame'[t].op = "copy" /\ frame'[t].ptr = p
            /\ frame'[t].source = frame[t].source
            /\ frame[t].source # NoPtr
            /\ frame'[t].instance = frame[t].instance
            /\ frame'[t].info = NoInfo
      /\ \A u \in Threads \ {t} : frame'[u] = frame[u]
  BY ClearInfoFacts
<1>3. /\ frame[t].op = "clear" /\ ptr[p].instance = NoInst
      /\ frame[t].instance = NoInst
  BY <1>0 DEF ClearInfo, ClearedInv, FrameInv
<1>4. \A u \in Threads \ {t} : frame[u].ptr # p /\ frame[u].source # p
  BY <1>0, <1>1 DEF Exclusive
<1>5. FrameInv'
  <2> SUFFICES ASSUME NEW u \in Threads
               PROVE  FrameInv!(u)'
    BY DEF FrameInv
  <2>0. \A v \in Threads : frame[v].source \in Ptrs \cup {NoPtr}
    BY <1>0 DEF VarsOK, Frame
  <2>1. CASE u = t
    <3>1. ASSUME frame[t].source # NoPtr
          PROVE  ptr'[frame[t].source] \notin {Absent, Moved}
      <4>1. frame[t].source \in Ptrs /\ IsObject(frame[t].source)
        BY <1>0, <1>3, <2>0, <3>1 DEF FrameInv
      <4>2. CASE frame[t].source = p
        BY <1>1, <4>2
      <4>3. CASE frame[t].source # p
        BY <1>1, <4>1, <4>3
      <4> QED
        BY <4>2, <4>3
    <3> QED
      BY <1>1, <1>2, <1>3, <2>1, <3>1 DEF Idle
  <2>2. CASE u # t
    <3>1. frame'[u] = frame[u]
      BY <1>2, <2>2
    <3> QED
      BY <1>0, <1>1, <1>4, <2>0, <2>2, <3>1 DEF FrameInv
  <2> QED
    BY <2>1, <2>2
<1>6. Exclusive'
  <2>1. \/ frame'[t].ptr = NoPtr /\ frame'[t].source = NoPtr
        \/ frame'[t].ptr = p /\ frame'[t].source = frame[t].source
    BY <1>2 DEF Idle
  <2> QED
    BY <1>0, <1>1, <1>2, <1>4, <2>1 DEF Exclusive
<1>7. ClearedInv'
  <2> SUFFICES ASSUME NEW u \in Threads, frame'[u].op \in {"clear", "copy"}
               PROVE  /\ ptr'[frame'[u].ptr].instance = NoInst
                      /\ frame'[u].op = "copy" =>
                           ptr'[frame'[u].ptr].info = NoInfo
    BY DEF ClearedInv
  <2>1. CASE u = t
    BY <1>1, <1>2, <1>3, <2>1 DEF Idle
  <2>2. CASE u # t
    <3>1. frame'[u] = frame[u] /\ frame[u].ptr \in Ptrs \ {p}
      BY <1>0, <1>2, <1>4, <2>2 DEF FrameInv
    <3> QED
      BY <1>0, <1>1, <3>1 DEF ClearedInv
  <2> QED
    BY <2>1, <2>2
<1>8. EntriesInv'
  <2> SUFFICES ASSUME NEW r \in Ptrs, NEW k \in Interfaces,
                      (IsObject(r) /\ ptr[r].interfaces[k] \in Insts)'
               PROVE  \/ (ptr[r].interfaces[k] = ptr[r].instance)'
                      \/ \E u \in Threads :
                           (frame[u].op = "clear" /\ frame[u].ptr = r)'
    BY DEF EntriesInv
  <2>1. r # p
    BY <1>1
  <2>2. ptr'[r] = ptr[r]
    BY <1>1, <2>1
  <2>3. \A u \in Threads :
          frame[u].ptr = r => u # t /\ frame'[u] = frame[u]
    BY <1>2, <2>1
  <2> QED
    BY <1>0, <2>2, <2>3 DEF EntriesInv
<1>9. IteratorsValid'
  <2>1. \A r \in Ptrs : \A n \in DOMAIN Specialization[r] :
          Specialization[r][n] \in Interfaces
    BY NewObjectFacts
  <2> QED
    BY <1>0, <1>1, <2>1 DEF IteratorsValid
<1> QED
  BY <1>5, <1>6, <1>7, <1>8, <1>9 DEF ObjectInv

(* The step that ends an operation on a PluginPtr: its object is sound.    *)
LEMMA EndKeepsObjects ==
  ASSUME ObjectInv, VarsOK', NEW t \in Threads, NEW p \in Ptrs, NEW o,
         frame[t].ptr = p, Sound(p, o), ptr' = [ptr EXCEPT ![p] = o],
         frame' = [frame EXCEPT ![t] = Idle],
         \A u \in Threads \ {t} : frame[u].ptr # p /\ frame[u].source # p
  PROVE  ObjectInv'
<1> USE NullFacts DEF IsObject
<1>0. VarsOK /\ FrameInv /\ Exclusive /\ ClearedInv /\ EntriesInv
        /\ IteratorsValid
  BY DEF ObjectInv
<1>1. /\ ptr'[p] = o /\ \A r \in Ptrs \ {p} : ptr'[r] = ptr[r]
      /\ frame'[t] = Idle
      /\ \A u \in Threads \ {t} : frame'[u] = frame[u]
      /\ \A u \in Threads : frame[u].source \in Ptrs \cup {NoPtr}
  BY <1>0 DEF VarsOK, Frame
<1>2. FrameInv'
  <2> SUFFICES ASSUME NEW u \in Threads
               PROVE  FrameInv!(u)'
    BY DEF FrameInv
  <2>1. CASE u = t
    BY <1>1, <2>1 DEF Idle
  <2>2. CASE u # t
    <3>1. frame'[u] = frame[u]
      BY <1>1, <2>2
    <3> QED
      BY <1>0, <1>1, <2>2, <3>1 DEF FrameInv
  <2> QED
    BY <2>1, <2>2
<1>3. Exclusive'
  BY <1>0, <1>1 DEF Exclusive, Idle
<1>4. ClearedInv'
  <2> SUFFICES ASSUME NEW u \in Threads, frame'[u].op \in {"clear", "copy"}
               PROVE  /\ ptr'[frame'[u].ptr].instance = NoInst
                      /\ frame'[u].op = "copy" =>
                           ptr'[frame'[u].ptr].info = NoInfo
    BY DEF ClearedInv
  <2>1. u # t
    BY <1>1 DEF Idle
  <2>2. frame'[u] = frame[u] /\ frame[u].ptr \in Ptrs \ {p}
    BY <1>0, <1>1, <2>1 DEF FrameInv
  <2> QED
    BY <1>0, <1>1, <2>2 DEF ClearedInv
<1>5. EntriesInv'
  <2> SUFFICES ASSUME NEW r \in Ptrs, NEW k \in Interfaces,
                      (IsObject(r) /\ ptr[r].interfaces[k] \in Insts)'
               PROVE  \/ (ptr[r].interfaces[k] = ptr[r].instance)'
                      \/ \E u \in Threads :
                           (frame[u].op = "clear" /\ frame[u].ptr = r)'
    BY DEF EntriesInv
  <2>1. CASE r = p
    BY <1>1, <2>1 DEF Sound
  <2>2. CASE r # p
    <3>1. \A u \in Threads :
            frame[u].ptr = r => u # t /\ frame'[u] = frame[u]
      BY <1>1, <2>2
    <3> QED
      BY <1>0, <1>1, <2>2, <3>1 DEF EntriesInv
  <2> QED
    BY <2>1, <2>2
<1>6. IteratorsValid'
  BY <1>0, <1>1 DEF IteratorsValid, Sound
<1> QED
  BY <1>2, <1>3, <1>4, <1>5, <1>6 DEF ObjectInv

(* CopyFrom reads a source that nobody else is writing. *)
LEMMA CopyFromKeepsObjects ==
  ASSUME ObjectInv, VarsOK', NEW t \in Threads, CopyFrom(t)
  PROVE  ObjectInv'
<1> USE NullFacts DEF IsObject
<1> DEFINE p == frame[t].ptr
           q == frame[t].source
           c == Copied(ptr[p], ptr[q])
<1>0. VarsOK /\ FrameInv /\ Exclusive /\ ClearedInv /\ EntriesInv
        /\ IteratorsValid
  BY DEF ObjectInv
<1>1. /\ frame[t].op = "copy" /\ p \in Ptrs /\ ptr[p] \in Object
      /\ q \in Ptrs /\ ptr[q] \in Object
  BY <1>0 DEF CopyFrom, FrameInv, VarsOK, Frame
<1>2. /\ c \in Object /\ c.instance = ptr[q].instance
      /\ \A k \in Interfaces : \/ c.interfaces[k] = ptr[p].interfaces[k]
                               \/ /\ c.interfaces[k] = ptr[q].interfaces[k]
                                  /\ ptr[q].interfaces[k] # NoEntry
  BY <1>1, CopiedFacts
<1>3. \A u \in Threads \ {t} : frame[u].ptr # p /\ frame[u].source # p
  BY <1>0, <1>1 DEF Exclusive
<1>4. \A u \in Threads : frame[u].op = "clear" => frame[u].ptr # q
  BY <1>0, <1>1 DEF Exclusive
<1>5. \A k \in Interfaces : ptr[q].interfaces[k] \in Insts =>
                              ptr[q].interfaces[k] = ptr[q].instance
  BY <1>0, <1>1, <1>4 DEF EntriesInv
<1>6. \A k \in Interfaces : ptr[p].interfaces[k] \notin Insts
  <2>1. ptr[p].instance = NoInst
    BY <1>0, <1>1 DEF ClearedInv
  <2>2. \A u \in Threads : frame[u].op = "clear" => frame[u].ptr # p
    BY <1>1, <1>3
  <2> QED
    BY <1>0, <1>1, <2>1, <2>2 DEF EntriesInv
<1>7. \A n \in DOMAIN Specialization[p] :
        /\ Specialization[p][n] \in Interfaces
        /\ ptr[p].interfaces[Specialization[p][n]] # NoEntry
  BY <1>0, <1>1, NewObjectFacts DEF IteratorsValid
<1>8. /\ ptr' = [ptr EXCEPT ![p] = c]
      /\ frame' = [frame EXCEPT ![t] = Idle]
  BY DEF CopyFrom
<1> HIDE DEF c
<1>9. Sound(p, c)
  BY <1>2, <1>5, <1>6, <1>7 DEF Sound
<1> QED
  BY <1>1, <1>3, <1>8, <1>9, EndKeepsObjects

LEMMA LockInfoKeepsObjects ==
  ASSUME ObjectInv, VarsOK', NEW t \in Threads, LockInfo(t)
  PROVE  ObjectInv'
<1> DEFINE p == frame[t].ptr
           o == Assembled(p, LockedInfo(frame[t].want), frame[t].instance)
<1>0. VarsOK /\ FrameInv /\ Exclusive
  BY DEF ObjectInv
<1>1. p \in Ptrs /\ frame[t].instance \in Insts \cup {NoInst}
  BY <1>0 DEF LockInfo, FrameInv, VarsOK, Frame
<1>2. LockedInfo(frame[t].want) \in Infos \cup {NoInfo}
  BY DEF LockedInfo
<1>3. Sound(p, o)
  BY <1>1, <1>2, SoundFacts
<1>4. \A u \in Threads \ {t} : frame[u].ptr # p /\ frame[u].source # p
  BY <1>0, <1>1, NullFacts DEF Exclusive
<1>5. /\ ptr' = [ptr EXCEPT ![p] = o]
      /\ frame' = [frame EXCEPT ![t] = Idle]
  BY DEF LockInfo
<1> HIDE DEF o
<1> QED
  BY <1>1, <1>3, <1>4, <1>5, EndKeepsObjects

LEMMA ObjectStep ==
  ASSUME ObjectInv, [Next]_vars PROVE ObjectInv'
<1>0. VarsOK'
  BY LifetimeTypeStep
<1>1. CASE UNCHANGED vars
  <2>1. UNCHANGED ptr /\ UNCHANGED frame
    BY <1>1 DEF vars
  <2>2. FrameInv' /\ Exclusive' /\ ClearedInv'
    BY <2>1 DEF ObjectInv, FrameInv, Exclusive, ClearedInv, IsObject
  <2>3. EntriesInv' /\ IteratorsValid'
    BY <2>1 DEF ObjectInv, EntriesInv, IteratorsValid, IsObject
  <2> QED
    BY <1>0, <2>2, <2>3 DEF ObjectInv
<1>2. ASSUME NEW t \in Threads, NEW p \in Ptrs,
             \/ \E w \in Weaks : LockInstance(t, w, p)
             \/ \E i \in Insts : PluginFromThis(t, i, p)
      PROVE  ObjectInv'
  BY <1>0, <1>2, LockKeepsObjects
<1>3. ASSUME NEW t \in Threads, NEW p \in Ptrs, NEW q \in Ptrs \cup {NoPtr},
             Assign(t, p, q)
      PROVE  ObjectInv'
  BY <1>0, <1>3, AssignKeepsObjects
<1>4. ASSUME NEW t \in Threads, ClearInfo(t) \/ CopyFrom(t) \/ LockInfo(t)
      PROVE  ObjectInv'
  BY <1>0, <1>4, ClearInfoKeepsObjects, CopyFromKeepsObjects,
     LockInfoKeepsObjects
<1>5. OutsideStep => ObjectInv'
  BY <1>0, OutsideKeepsObjects
<1>6. ASSUME NEW t \in Threads, Invoke(t) PROVE ObjectInv'
  BY <1>2, <1>3, <1>5, <1>6, OutsideSteps, Zenon DEF Invoke
<1>7. ASSUME NEW t \in Threads, Continue(t) PROVE ObjectInv'
  BY <1>4, <1>5, <1>7, OutsideSteps, Zenon DEF Continue
<1> QED
  BY <1>1, <1>6, <1>7 DEF Next

LEMMA ObjectInit ==
  ASSUME Init PROVE ObjectInv
<1>1. VarsOK
  BY NullFacts DEF Init, VarsOK, Static, WeakValue, Frame, Idle
<1>2. \A t \in Threads : frame[t] = Idle
  BY DEF Init
<1>3. \A p \in Ptrs : ~IsObject(p)
  BY DEF Init, IsObject
<1>4. FrameInv /\ Exclusive /\ ClearedInv
  BY <1>2 DEF FrameInv, Exclusive, ClearedInv, Idle
<1>5. EntriesInv /\ IteratorsValid
  BY <1>3 DEF EntriesInv, IteratorsValid
<1> QED
  BY <1>1, <1>4, <1>5 DEF ObjectInv

LEMMA ObjectInvariant == Spec => []ObjectInv
<1>1. Init => ObjectInv
  BY ObjectInit
<1>2. ObjectInv /\ [Next]_vars => ObjectInv'
  BY ObjectStep
<1> QED
  BY <1>1, <1>2, PTL DEF Spec

(* Every variable keeps its type, and a thread inside of an operation finds *)
(* the PluginPtr it works on.                                               *)
THEOREM LifetimeTypeCorrect == Spec => []TypeOK
<1>1. ObjectInv => TypeOK
  BY DEF ObjectInv, VarsOK, FrameInv, TypeOK
<1> QED
  BY <1>1, ObjectInvariant, PTL

(* The map entries that a specialized PluginPtr reads without looking them *)
(* up exist, for every tree of specializations and every program.          *)
THEOREM IteratorsStayValid == Spec => []IteratorsValid
<1>1. ObjectInv => IteratorsValid
  BY DEF ObjectInv
<1> QED
  BY <1>1, ObjectInvariant, PTL

(* An interface taken from a PluginPtr points into the instance that this  *)
(* PluginPtr keeps alive, in every program.                                *)
THEOREM InterfacesAreOwn == Spec => []InterfacesOwn
<1>1. ObjectInv => InterfacesOwn
  BY NullFacts DEF ObjectInv, EntriesInv, InterfacesOwn, QueryInterface, Readable
<1> QED
  BY <1>1, ObjectInvariant, PTL

(* No entry leaves the interface map of a PluginPtr except with the map    *)
(* itself, when another is moved there.                                    *)
THEOREM EntriesAlwaysStay == Spec => EntriesStay
<1> DEFINE Kept(p) ==
      \/ \A k \in Interfaces : ptr[p].interfaces[k] # NoEntry =>
                                 ptr'[p].interfaces[k] # NoEntry
      \/ \E t \in Threads, q \in Ptrs : MoveAssign(t, p, q)
           Stay == \A p \in Ptrs : IsObject(p) /\ IsObject(p)' => Kept(p)
<1>1. ASSUME ObjectInv, [Next]_vars PROVE [Stay]_vars
  <2> USE NullFacts DEF IsObject
  <2>0. VarsOK /\ FrameInv
    BY <1>1 DEF ObjectInv
  <2>1. UNCHANGED vars => [Stay]_vars
    OBVIOUS
  <2>2. UNCHANGED ptr => Stay
    OBVIOUS
  <2>3. ASSUME NEW t \in Threads, NEW p \in Ptrs,
               \/ \E i \in Insts :
                    Instantiate(t, p, i) \/ InstantiateStatic(t, p, i)
               \/ Construct(t, p) \/ Destroy(t, p)
               \/ \E q \in Ptrs : CopyConstruct(t, p, q)
        PROVE  Stay
    <3>1. /\ ptr[p] = Absent \/ ptr'[p] = Absent
          /\ \A r \in Ptrs \ {p} : ptr'[r] = ptr[r]
      BY <2>0, <2>3
      DEF Instantiate, InstantiateStatic, Construct, Destroy, CopyConstruct,
          VarsOK
    <3> QED
      BY <3>1
  <2>4. ASSUME NEW t \in Threads, NEW p \in Ptrs, NEW q \in Ptrs,
               MoveConstruct(t, p, q)
        PROVE  Stay
    <3>1. /\ ptr[p] = Absent /\ ptr'[q] = Moved
          /\ \A r \in Ptrs \ {p, q} : ptr'[r] = ptr[r]
      BY <2>0, <2>4 DEF MoveConstruct, VarsOK
    <3> QED
      BY <3>1
  <2>5. ASSUME NEW t \in Threads, NEW p \in Ptrs, NEW q \in Ptrs,
               MoveAssign(t, p, q)
        PROVE  Stay
    <3>1. /\ ptr'[q] = Moved
          /\ \A r \in Ptrs \ {p, q} : ptr'[r] = ptr[r]
      BY <2>0, <2>5 DEF MoveAssign, VarsOK
    <3> QED
      BY <2>5, <3>1
  <2>6. ASSUME NEW t \in Threads, NEW p \in Ptrs, NEW q \in Ptrs \cup {NoPtr},
               Assign(t, p, q)
        PROVE  Stay
    <3>1. ptr' = [ptr EXCEPT ![p] = [ptr[p] EXCEPT !.instance = NoInst]]
      BY <2>0, <2>6 DEF Assign, VarsOK
    <3>2. ptr[p] \in Object
      BY <2>0, <2>6 DEF Assign, VarsOK
    <3>3. [ptr[p] EXCEPT !.instance = NoInst].interfaces = ptr[p].interfaces
      BY <3>2 DEF Object
    <3>4. /\ ptr'[p].interfaces = ptr[p].interfaces
          /\ \A r \in Ptrs \ {p} : ptr'[r] = ptr[r]
      BY <2>0, <3>1, <3>3 DEF VarsOK
    <3> QED
      BY <3>4
  <2>7. ASSUME NEW t \in Threads, ClearInfo(t) PROVE Stay
    BY <1>1, <2>7, ClearInfoFacts
  <2>8. ASSUME NEW t \in Threads, CopyFrom(t) PROVE Stay
    <3> DEFINE p == frame[t].ptr
               q == frame[t].source
               c == Copied(ptr[p], ptr[q])
    <3>1. /\ p \in Ptrs /\ ptr[p] \in Object
          /\ q \in Ptrs /\ ptr[q] \in Object
      BY <2>0, <2>8 DEF CopyFrom, FrameInv, VarsOK, Frame
    <3>2. \A k \in Interfaces : ptr[p].interfaces[k] # NoEntry =>
                                  c.interfaces[k] # NoEntry
      BY <3>1, CopiedFacts
    <3>3. ptr' = [ptr EXCEPT ![p] = c]
      BY <2>8 DEF CopyFrom
    <3> HIDE DEF c
    <3>4. ptr'[p] = c /\ \A r \in Ptrs \ {p} : ptr'[r] = ptr[r]
      BY <2>0, <3>1, <3>3 DEF VarsOK
    <3> QED
      BY <3>2, <3>4
  <2>9. ASSUME NEW t \in Threads, LockInfo(t) PROVE Stay
    <3>1. /\ ptr[frame[t].ptr] = Absent
          /\ \A r \in Ptrs \ {frame[t].ptr} : ptr'[r] = ptr[r]
      BY <2>0, <2>9 DEF LockInfo, FrameInv, VarsOK
    <3> QED
      BY <3>1
  <2>10. ASSUME NEW t \in Threads, Invoke(t) PROVE Stay
    <3>1. ASSUME NEW w \in Weaks, NEW u \in Weaks,
                 WeakCopy(t, w, u) \/ WeakMove(t, w, u)
          PROVE  UNCHANGED ptr
      BY <3>1 DEF WeakCopy, WeakMove
    <3> QED
      BY <2>2, <2>3, <2>4, <2>5, <2>6, <2>10, <3>1, Zenon
      DEF Invoke, QueryInterfaceSharedPtr, DropShared, WeakAssign,
          LockInstance, PluginFromThis, IsExpiredInstance, ForgetInfo
  <2>11. ASSUME NEW t \in Threads, Continue(t) PROVE Stay
    BY <2>2, <2>7, <2>8, <2>9, <2>11, Zenon
    DEF Continue, DropInfo, DropInstance, IsExpiredInfo, ForgetHandle
  <2> QED
    BY <1>1, <2>1, <2>10, <2>11 DEF Next
<1>2. Spec => [][Stay]_vars
  BY <1>1, ObjectInvariant, PTL DEF Spec
<1> QED
  BY <1>2 DEF EntriesStay

-----------------------------------------------------------------------------
(* How long an Info lives *)

(* Where the two references of the object of p come from, after a step.    *)
ObjectOrigin(p) ==
  \/ \E q \in Ptrs : /\ IsObject(q)
                     /\ ptr'[p].instance = ptr[q].instance
                     /\ ptr'[p].info = ptr[q].info
  \/ ptr'[p].instance = NoInst /\ ptr'[p].info = NoInfo
  \/ \E i \in Insts : ptr'[p].instance = i /\ ptr'[p].info = ClassOf[i]
  \/ /\ IsObject(p) /\ ("clear" \in program \/ IsEmpty(p))
     /\ ptr'[p].instance = NoInst /\ ptr'[p].info = ptr[p].info
  \/ \E t \in Threads : /\ frame[t].op = "lock"
                        /\ ptr'[p].instance = frame[t].instance
                        /\ ptr'[p].info = LockedInfo(frame[t].want)

LEMMA ObjectOrigins ==
  ASSUME ObjectInv, [Next]_vars
  PROVE  \A p \in Ptrs : IsObject(p)' => ObjectOrigin(p)
<1> USE NullFacts DEF IsObject
<1> DEFINE Goal == \A p \in Ptrs : IsObject(p)' => ObjectOrigin(p)
<1>0. VarsOK /\ FrameInv /\ ClearedInv
  BY DEF ObjectInv
<1>1. ASSUME UNCHANGED ptr PROVE Goal
  BY <1>1 DEF ObjectOrigin
<1>2. ASSUME NEW p \in Ptrs, \A r \in Ptrs \ {p} : ptr'[r] = ptr[r],
             IsObject(p)' => ObjectOrigin(p)
      PROVE  Goal
  <2>1. \A r \in Ptrs \ {p} : IsObject(r)' => ObjectOrigin(r)
    BY <1>2 DEF ObjectOrigin
  <2> QED
    BY <1>2, <2>1
<1> HIDE DEF Goal
<1>3. ASSUME NEW t \in Threads, NEW p \in Ptrs, NEW i \in Insts,
             Instantiate(t, p, i) \/ InstantiateStatic(t, p, i)
      PROVE  Goal
  <2>1. /\ ptr'[p] = Assembled(p, ClassOf[i], i)
        /\ \A r \in Ptrs \ {p} : ptr'[r] = ptr[r]
    BY <1>0, <1>3 DEF Instantiate, InstantiateStatic, VarsOK
  <2>2. ClassOf[i] \in Infos
    BY LifetimeAssumption
  <2>3. ptr'[p].instance = i /\ ptr'[p].info = ClassOf[i]
    BY <2>1, <2>2, AssembledFacts
  <2> QED
    BY <1>2, <2>1, <2>3 DEF ObjectOrigin
<1>4. ASSUME NEW t \in Threads, NEW p \in Ptrs, Construct(t, p)
      PROVE  Goal
  <2>1. /\ ptr'[p] = NewObject(p)
        /\ \A r \in Ptrs \ {p} : ptr'[r] = ptr[r]
    BY <1>0, <1>4 DEF Construct, VarsOK
  <2>2. ptr'[p].instance = NoInst /\ ptr'[p].info = NoInfo
    BY <2>1, NewObjectFacts
  <2> QED
    BY <1>2, <2>1, <2>2 DEF ObjectOrigin
<1>5. ASSUME NEW t \in Threads, NEW p \in Ptrs, NEW q \in Ptrs,
             CopyConstruct(t, p, q)
      PROVE  Goal
  <2>1. /\ ptr'[p] = Copied(NewObject(p), ptr[q]) /\ IsObject(q)
        /\ ptr[q] \in Object
        /\ \A r \in Ptrs \ {p} : ptr'[r] = ptr[r]
    BY <1>0, <1>5 DEF CopyConstruct, VarsOK
  <2>2. ptr'[p].instance = ptr[q].instance /\ ptr'[p].info = ptr[q].info
    BY <2>1, NewObjectFacts, CopiedFacts
  <2> QED
    BY <1>2, <2>1, <2>2 DEF ObjectOrigin
<1>6. ASSUME NEW t \in Threads, NEW p \in Ptrs, NEW q \in Ptrs,
             MoveConstruct(t, p, q) \/ MoveAssign(t, p, q)
      PROVE  Goal
  <2>1. ptr' = [ptr EXCEPT ![p] = ptr[q], ![q] = Moved]
    BY <1>6 DEF MoveConstruct, MoveAssign
  <2>2. \A r \in Ptrs : ptr'[r] \in {ptr[r], ptr[q], Moved}
    BY <1>0, <2>1 DEF VarsOK
  <2> QED
    BY <2>2 DEF Goal, ObjectOrigin
<1>7. ASSUME NEW t \in Threads, NEW p \in Ptrs, Destroy(t, p) PROVE Goal
  <2>1. \A r \in Ptrs : ptr'[r] \in {ptr[r], Absent}
    BY <1>0, <1>7 DEF Destroy, VarsOK
  <2> QED
    BY <2>1 DEF Goal, ObjectOrigin
<1>8. ASSUME NEW t \in Threads, NEW p \in Ptrs, NEW q \in Ptrs \cup {NoPtr},
             Assign(t, p, q)
      PROVE  Goal
  <2>1. ptr' = [ptr EXCEPT ![p] = [ptr[p] EXCEPT !.instance = NoInst]]
    BY <1>0, <1>8 DEF Assign, VarsOK
  <2>2. /\ ptr[p] \in Object /\ IsObject(p)
        /\ "clear" \in program \/ IsEmpty(p)
    BY <1>0, <1>8 DEF Assign, VarsOK
  <2>3. /\ [ptr[p] EXCEPT !.instance = NoInst].instance = NoInst
        /\ [ptr[p] EXCEPT !.instance = NoInst].info = ptr[p].info
    BY <2>2 DEF Object
  <2>4. /\ ptr'[p].instance = NoInst /\ ptr'[p].info = ptr[p].info
        /\ \A r \in Ptrs \ {p} : ptr'[r] = ptr[r]
    BY <1>0, <2>1, <2>3 DEF VarsOK
  <2> QED
    BY <1>2, <2>2, <2>4 DEF ObjectOrigin
<1>9. ASSUME NEW t \in Threads, ClearInfo(t) PROVE Goal
  <2>1. ptr[frame[t].ptr].instance = NoInst
    BY <1>0, <1>9 DEF ClearInfo, ClearedInv
  <2> QED
    BY <1>2, <1>9, <2>1, ClearInfoFacts DEF ObjectOrigin
<1>10. ASSUME NEW t \in Threads, CopyFrom(t) PROVE Goal
  <2> DEFINE p == frame[t].ptr
             q == frame[t].source
  <2>1. /\ p \in Ptrs /\ ptr[p] \in Object /\ IsObject(q)
        /\ q \in Ptrs /\ ptr[q] \in Object
    BY <1>0, <1>10 DEF CopyFrom, FrameInv, VarsOK, Frame
  <2>2. /\ ptr'[p] = Copied(ptr[p], ptr[q])
        /\ \A r \in Ptrs \ {p} : ptr'[r] = ptr[r]
    BY <1>0, <1>10, <2>1 DEF CopyFrom, VarsOK
  <2>3. ptr'[p].instance = ptr[q].instance /\ ptr'[p].info = ptr[q].info
    BY <2>1, <2>2, CopiedFacts
  <2> QED
    BY <1>2, <2>1, <2>2, <2>3 DEF ObjectOrigin
<1>11. ASSUME NEW t \in Threads, LockInfo(t) PROVE Goal
  <2> DEFINE p == frame[t].ptr
  <2>1. p \in Ptrs /\ frame[t].instance \in Insts \cup {NoInst}
    BY <1>0, <1>11 DEF LockInfo, FrameInv, VarsOK, Frame
  <2>2. /\ ptr'[p] = Assembled(p, LockedInfo(frame[t].want),
                               frame[t].instance)
        /\ \A r \in Ptrs \ {p} : ptr'[r] = ptr[r]
    BY <1>0, <1>11, <2>1 DEF LockInfo, VarsOK
  <2>3. LockedInfo(frame[t].want) \in Infos \cup {NoInfo}
    BY DEF LockedInfo
  <2>4. /\ ptr'[p].instance = frame[t].instance
        /\ ptr'[p].info = LockedInfo(frame[t].want)
        /\ frame[t].op = "lock"
    BY <1>11, <2>1, <2>2, <2>3, AssembledFacts DEF LockInfo
  <2> QED
    BY <1>2, <2>1, <2>2, <2>4 DEF ObjectOrigin
<1>12. ASSUME NEW t \in Threads, Invoke(t) PROVE Goal
  <2>1. ASSUME NEW w \in Weaks, NEW u \in Weaks,
               WeakCopy(t, w, u) \/ WeakMove(t, w, u)
        PROVE  UNCHANGED ptr
    BY <2>1 DEF WeakCopy, WeakMove
  <2> QED
    BY <1>1, <1>3, <1>4, <1>5, <1>6, <1>7, <1>8, <1>12, <2>1, Zenon
    DEF Invoke, QueryInterfaceSharedPtr, DropShared, WeakAssign,
        LockInstance, PluginFromThis, IsExpiredInstance, ForgetInfo
<1>13. ASSUME NEW t \in Threads, Continue(t) PROVE Goal
  BY <1>1, <1>9, <1>10, <1>11, <1>13, Zenon
  DEF Continue, DropInfo, DropInstance, IsExpiredInfo, ForgetHandle
<1>14. UNCHANGED vars => Goal
  BY <1>1 DEF vars
<1> QED
  BY <1>12, <1>13, <1>14 DEF Next, Goal

(* Where what the frame of t refers to comes from, after a step. *)
FrameOrigin(t) ==
  \/ frame'[t] = frame[t]
  \/ frame'[t].op \notin {"lock", "expired", "dropInfo", "forget"}
  \/ \E p \in Ptrs : /\ frame'[t].op = "dropInfo" /\ IsObject(p)
                     /\ frame'[t].instance = ptr[p].instance
                     /\ frame'[t].info = ptr[p].info
  \/ frame'[t].op = "dropInfo" /\ frame[t].op = "expired"
  \/ /\ frame'[t].op = "lock" /\ "lock" \in program
     /\ frame'[t].instance # NoInst =>
          \/ frame'[t].want = ClassOf[frame'[t].instance]
          \/ \E w \in Weaks : /\ weak[w] # Moved
                              /\ frame'[t].instance = weak[w].instance
                              /\ frame'[t].want = weak[w].info
  \/ frame'[t].op = "expired" /\ "lock" \in program
  \/ /\ frame'[t].op = "forget" /\ "forget" \in program
     /\ known' = known \ {frame'[t].want}

LEMMA FrameOrigins ==
  ASSUME ObjectInv, [Next]_vars
  PROVE  \A t \in Threads : FrameOrigin(t)
<1> USE NullFacts DEF IsObject
<1> DEFINE Goal == \A t \in Threads : FrameOrigin(t)
<1>0. VarsOK /\ FrameInv
  BY DEF ObjectInv
<1>1. ASSUME UNCHANGED frame PROVE Goal
  BY <1>1 DEF FrameOrigin
<1>2. ASSUME NEW t \in Threads, NEW f, frame' = [frame EXCEPT ![t] = f],
             frame'[t] = f => FrameOrigin(t)
      PROVE  Goal
  <2>1. frame'[t] = f /\ \A u \in Threads \ {t} : frame'[u] = frame[u]
    BY <1>0, <1>2 DEF VarsOK
  <2>2. \A u \in Threads \ {t} : FrameOrigin(u)
    BY <2>1 DEF FrameOrigin
  <2> QED
    BY <1>2, <2>1, <2>2
<1> HIDE DEF Goal
<1>3. ASSUME NEW t \in Threads, frame' = [frame EXCEPT ![t] = Idle]
      PROVE  Goal
  <2>1. Idle.op = "idle"
    BY DEF Idle
  <2> QED
    BY <1>2, <1>3, <2>1 DEF FrameOrigin
<1>4. ASSUME NEW t \in Threads, NEW p \in Ptrs,
             (\E q \in Ptrs : MoveAssign(t, p, q)) \/ Destroy(t, p)
      PROVE  Goal
  <2>1. CASE IsObject(p)
    <3> DEFINE f == Destroying(ptr[p])
    <3>1. ptr[p] \in Object
      BY <1>0, <2>1 DEF VarsOK
    <3>2. /\ f.op \in {"idle", "dropInfo"}
          /\ f.op = "dropInfo" => /\ f.instance = ptr[p].instance
                                 /\ f.info = ptr[p].info
      BY <3>1, DestroyingFacts
    <3>3. frame' = [frame EXCEPT ![t] = f]
      BY <1>4, <2>1 DEF MoveAssign, Destroy
    <3> HIDE DEF f
    <3> QED
      BY <1>2, <2>1, <3>2, <3>3 DEF FrameOrigin
  <2>2. CASE ~IsObject(p)
    BY <1>3, <1>4, <2>2 DEF MoveAssign, Destroy
  <2> QED
    BY <2>1, <2>2
<1>5. ASSUME NEW t \in Threads, NEW p \in Ptrs, NEW q \in Ptrs \cup {NoPtr},
             Assign(t, p, q)
      PROVE  Goal
  <2>1. [Idle EXCEPT !.op = "clear", !.ptr = p, !.source = q].op = "clear"
    BY DEF Idle
  <2>2. frame' = [frame EXCEPT ![t] =
                    [Idle EXCEPT !.op = "clear", !.ptr = p, !.source = q]]
    BY <1>5 DEF Assign
  <2> QED
    BY <1>2, <2>1, <2>2 DEF FrameOrigin
<1>6. ASSUME NEW t \in Threads, NEW p \in Ptrs, NEW w \in Weaks,
             LockInstance(t, w, p)
      PROVE  Goal
  <2> DEFINE f == [Idle EXCEPT !.op = "lock", !.ptr = p, !.want = weak[w].info,
                               !.instance = Locked(weak[w].instance)]
  <2>1. /\ f.op = "lock" /\ f.want = weak[w].info
        /\ f.instance = Locked(weak[w].instance)
    BY DEF Idle
  <2>2. f.instance # NoInst => f.instance = weak[w].instance
    BY <2>1 DEF Locked
  <2>3. /\ frame' = [frame EXCEPT ![t] = f]
        /\ "lock" \in program /\ weak[w] # Moved
    BY <1>6 DEF LockInstance
  <2> HIDE DEF f
  <2> QED
    BY <1>2, <2>1, <2>2, <2>3 DEF FrameOrigin
<1>7. ASSUME NEW t \in Threads, NEW p \in Ptrs, NEW i \in Insts,
             PluginFromThis(t, i, p)
      PROVE  Goal
  <2> DEFINE f == [Idle EXCEPT !.op = "lock", !.ptr = p, !.want = ClassOf[i],
                               !.instance = i]
  <2>1. f.op = "lock" /\ f.want = ClassOf[i] /\ f.instance = i
    BY DEF Idle
  <2>2. frame' = [frame EXCEPT ![t] = f] /\ "lock" \in program
    BY <1>7 DEF PluginFromThis
  <2> HIDE DEF f
  <2> QED
    BY <1>2, <2>1, <2>2 DEF FrameOrigin
<1>8. ASSUME NEW t \in Threads, NEW w \in Weaks, IsExpiredInstance(t, w)
      PROVE  Goal
  <2> DEFINE f == [Idle EXCEPT !.op = "expired", !.want = weak[w].info,
                               !.instance = Locked(weak[w].instance)]
  <2>1. f.op = "expired"
    BY DEF Idle
  <2>2. frame' = [frame EXCEPT ![t] = f] /\ "lock" \in program
    BY <1>8 DEF IsExpiredInstance
  <2> HIDE DEF f
  <2> QED
    BY <1>2, <2>1, <2>2 DEF FrameOrigin
<1>9. ASSUME NEW t \in Threads, NEW x \in Infos, ForgetInfo(t, x) PROVE Goal
  <2> DEFINE f == [Idle EXCEPT !.op = "forget", !.want = x]
  <2>1. f.op = "forget" /\ f.want = x
    BY DEF Idle
  <2>2. /\ frame' = [frame EXCEPT ![t] = f] /\ "forget" \in program
        /\ known' = known \ {x}
    BY <1>9 DEF ForgetInfo
  <2> HIDE DEF f
  <2> QED
    BY <1>2, <2>1, <2>2 DEF FrameOrigin
<1>10. ASSUME NEW t \in Threads, DropInfo(t) PROVE Goal
  <2> DEFINE f == [frame[t] EXCEPT !.op = "dropInstance", !.info = NoInfo]
  <2>1. f.op = "dropInstance"
    BY <1>0 DEF VarsOK, Frame
  <2>2. frame' = [frame EXCEPT ![t] = f]
    BY <1>0, <1>10 DEF DropInfo, VarsOK
  <2> HIDE DEF f
  <2> QED
    BY <1>2, <2>1, <2>2 DEF FrameOrigin
<1>11. ASSUME NEW t \in Threads, ClearInfo(t) PROVE Goal
  <2>1. /\ frame'[t] = Idle \/ frame'[t].op = "copy"
        /\ \A u \in Threads \ {t} : frame'[u] = frame[u]
    BY <1>11, ClearInfoFacts
  <2>2. frame'[t].op \notin {"lock", "expired", "dropInfo", "forget"}
    BY <2>1 DEF Idle
  <2> QED
    BY <2>1, <2>2 DEF Goal, FrameOrigin
<1>12. ASSUME NEW t \in Threads, IsExpiredInfo(t) PROVE Goal
  <2> DEFINE o == [instance |-> frame[t].instance,
                   info |-> LockedInfo(frame[t].want)]
  <2>1. o \in WeakValue
    BY <1>0 DEF VarsOK, Frame, WeakValue, LockedInfo
  <2>2. frame' = [frame EXCEPT ![t] = Destroying(o)] /\ frame[t].op = "expired"
    BY <1>12 DEF IsExpiredInfo
  <2> HIDE DEF o
  <2>3. Destroying(o).op \in {"idle", "dropInfo"}
    BY <2>1, DestroyingFacts
  <2> QED
    BY <1>2, <2>2, <2>3 DEF FrameOrigin
<1>13. ASSUME NEW t \in Threads, Invoke(t) PROVE Goal
  <2>1. ASSUME NEW w \in Weaks, NEW u \in Weaks,
               WeakCopy(t, w, u) \/ WeakMove(t, w, u)
        PROVE  UNCHANGED frame
    BY <2>1 DEF WeakCopy, WeakMove
  <2>2. ASSUME NEW p \in Ptrs, NEW i \in Insts,
               Instantiate(t, p, i) \/ InstantiateStatic(t, p, i)
        PROVE  UNCHANGED frame
    BY <2>2 DEF Instantiate, InstantiateStatic
  <2> QED
    BY <1>1, <1>4, <1>5, <1>6, <1>7, <1>8, <1>9, <1>13, <2>1, <2>2, Zenon
    DEF Invoke, Construct, CopyConstruct, MoveConstruct,
        QueryInterfaceSharedPtr, DropShared, WeakAssign
<1>14. ASSUME NEW t \in Threads, Continue(t) PROVE Goal
  BY <1>3, <1>10, <1>11, <1>12, <1>14, Zenon
  DEF Continue, DropInstance, CopyFrom, LockInfo, ForgetHandle
<1>15. UNCHANGED vars => Goal
  BY <1>1 DEF vars
<1> QED
  BY <1>13, <1>14, <1>15 DEF Next, Goal

(* What a weak pointer refers to came from a PluginPtr, or another one.    *)
LEMMA WeakOrigins ==
  ASSUME ObjectInv, [Next]_vars
  PROVE  \A w \in Weaks : weak'[w] # Moved =>
           \/ \E u \in Weaks : weak[u] # Moved /\ weak'[w] = weak[u]
           \/ \E p \in Ptrs : /\ IsObject(p)
                              /\ weak'[w].instance = ptr[p].instance
                              /\ weak'[w].info = ptr[p].info
<1> DEFINE Goal ==
      \A w \in Weaks : weak'[w] # Moved =>
        \/ \E u \in Weaks : weak[u] # Moved /\ weak'[w] = weak[u]
        \/ \E p \in Ptrs : /\ IsObject(p)
                           /\ weak'[w].instance = ptr[p].instance
                           /\ weak'[w].info = ptr[p].info
<1>0. weak \in [Weaks -> WeakValue \cup {Moved}]
  BY DEF ObjectInv, VarsOK
<1>1. UNCHANGED weak => Goal
  BY Zenon
<1>2. ASSUME NEW t \in Threads, NEW w \in Weaks, NEW p \in Ptrs,
             WeakAssign(t, w, p)
      PROVE  Goal
  BY <1>0, <1>2 DEF WeakAssign
<1>3. ASSUME NEW t \in Threads, NEW w \in Weaks, NEW u \in Weaks,
             WeakCopy(t, w, u) \/ WeakMove(t, w, u)
      PROVE  Goal
  <2>1. \A v \in Weaks : \/ weak'[v] = Moved
                         \/ \E r \in Weaks : weak'[v] = weak[r]
    BY <1>0, <1>3 DEF WeakCopy, WeakMove
  <2> QED
    BY <2>1
<1> HIDE DEF Goal
<1>4. ASSUME NEW t \in Threads, Invoke(t) PROVE Goal
  <2>1. ASSUME NEW p \in Ptrs, NEW i \in Insts,
               Instantiate(t, p, i) \/ InstantiateStatic(t, p, i)
        PROVE  UNCHANGED weak
    BY <2>1 DEF Instantiate, InstantiateStatic
  <2> QED
    BY <1>1, <1>2, <1>3, <1>4, <2>1, Zenon
    DEF Invoke, Construct, CopyConstruct, MoveConstruct, MoveAssign, Destroy,
        Assign, QueryInterfaceSharedPtr, DropShared, LockInstance,
        PluginFromThis, IsExpiredInstance, ForgetInfo
<1>5. ASSUME NEW t \in Threads, Continue(t) PROVE Goal
  BY <1>1, <1>5, Zenon
  DEF Continue, DropInfo, DropInstance, ClearInfo, CopyFrom, LockInfo,
      IsExpiredInfo, ForgetHandle
<1>6. UNCHANGED vars => Goal
  BY <1>1 DEF vars
<1> QED
  BY <1>4, <1>5, <1>6 DEF Next, Goal

(* Only ForgetLibrary takes from what the Loader has: the Info first.      *)
LEMMA LoaderSteps ==
  ASSUME ObjectInv, [Next]_vars
  PROVE  /\ program' = program
         /\ known' \subseteq known
         /\ known' = known \/ "forget" \in program
         /\ \/ held' = held
            \/ \E t \in Threads : /\ frame[t].op = "forget"
                                  /\ held' = held \ {frame[t].want}
<1> DEFINE Goal ==
      /\ program' = program
      /\ known' \subseteq known
      /\ known' = known \/ "forget" \in program
      /\ \/ held' = held
         \/ \E t \in Threads : /\ frame[t].op = "forget"
                               /\ held' = held \ {frame[t].want}
<1>1. UNCHANGED <<program, loaderVars>> => Goal
  BY DEF loaderVars
<1>2. ASSUME NEW t \in Threads, NEW x \in Infos, ForgetInfo(t, x) PROVE Goal
  BY <1>2 DEF ForgetInfo
<1>3. ASSUME NEW t \in Threads, ForgetHandle(t) PROVE Goal
  BY <1>3 DEF ForgetHandle
<1> HIDE DEF Goal
<1>4. ASSUME NEW t \in Threads, Invoke(t) PROVE Goal
  <2>1. ASSUME NEW p \in Ptrs, NEW i \in Insts,
               Instantiate(t, p, i) \/ InstantiateStatic(t, p, i)
        PROVE  UNCHANGED <<program, loaderVars>>
    BY <2>1, Zenon DEF Instantiate, InstantiateStatic
  <2>2. ASSUME NEW w \in Weaks, NEW u \in Weaks,
               WeakCopy(t, w, u) \/ WeakMove(t, w, u)
        PROVE  UNCHANGED <<program, loaderVars>>
    BY <2>2, Zenon DEF WeakCopy, WeakMove
  <2> QED
    BY <1>1, <1>2, <1>4, <2>1, <2>2, Zenon
    DEF Invoke, Construct, CopyConstruct, MoveConstruct, MoveAssign, Destroy,
        Assign, QueryInterfaceSharedPtr, DropShared, WeakAssign, LockInstance,
        PluginFromThis, IsExpiredInstance
<1>5. ASSUME NEW t \in Threads, Continue(t) PROVE Goal
  BY <1>1, <1>3, <1>5, Zenon
  DEF Continue, DropInfo, DropInstance, ClearInfo, CopyFrom, LockInfo,
      IsExpiredInfo
<1>6. UNCHANGED vars => Goal
  BY <1>1 DEF vars
<1> QED
  BY <1>4, <1>5, <1>6 DEF Next, Goal

(* An Info that is wanted is found: it is known in the programs that lock. *)
LEMMA WantedInfoFound ==
  ASSUME LifetimeInv, "lock" \in program, NEW i \in Insts
  PROVE  LockedInfo(ClassOf[i]) = ClassOf[i]
<1>1. "forget" \notin program /\ "static" \notin program
  BY DEF LifetimeInv, SafeProgram
<1>2. known = Infos
  BY <1>1 DEF LifetimeInv, LoaderInv, Static
<1> QED
  BY <1>2, LifetimeAssumption DEF LockedInfo, InfoAlive

LEMMA InfoStep ==
  ASSUME LifetimeInv, [Next]_vars PROVE InfoInv'
<1> USE NullFacts
<1>0. ObjectInv /\ InfoInv /\ VarsOK
  BY DEF LifetimeInv, ObjectInv
<1>1. program' = program
  BY <1>0, LoaderSteps
<1>2. ASSUME NEW p \in Ptrs, IsObject(p)', ptr'[p].instance # NoInst
      PROVE  ptr'[p].info = ClassOf[ptr'[p].instance]
  <2>1. ObjectOrigin(p)
    BY <1>0, <1>2, ObjectOrigins
  <2>2. ASSUME NEW t \in Threads, frame[t].op = "lock",
               ptr'[p].instance = frame[t].instance,
               ptr'[p].info = LockedInfo(frame[t].want)
        PROVE  ptr'[p].info = ClassOf[ptr'[p].instance]
    <3>1. /\ frame[t].instance \in Insts /\ "lock" \in program
          /\ frame[t].want = ClassOf[frame[t].instance]
      BY <1>0, <1>2, <2>2 DEF InfoInv, VarsOK, Frame
    <3> QED
      BY <2>2, <3>1, WantedInfoFound
  <2> QED
    BY <1>0, <1>2, <2>1, <2>2 DEF ObjectOrigin, InfoInv
<1>3. ASSUME NEW w \in Weaks, weak'[w] # Moved, weak'[w].instance # NoInst
      PROVE  weak'[w].info = ClassOf[weak'[w].instance]
  BY <1>0, <1>3, WeakOrigins DEF InfoInv
<1>4. ASSUME NEW t \in Threads
      PROVE  /\ frame'[t].op = "lock" /\ frame'[t].instance # NoInst =>
                  frame'[t].want = ClassOf[frame'[t].instance]
             /\ frame'[t].op \in {"lock", "expired"} => "lock" \in program
  <2>1. FrameOrigin(t)
    BY <1>0, FrameOrigins
  <2> QED
    BY <1>0, <2>1 DEF FrameOrigin, InfoInv
<1> QED
  BY <1>1, <1>2, <1>3, <1>4 DEF InfoInv

LEMMA OwnerStep ==
  ASSUME LifetimeInv, [Next]_vars PROVE OwnerInv'
<1>0. ObjectInv /\ InfoInv /\ OwnerInv /\ VarsOK
  BY DEF LifetimeInv, ObjectInv
<1>1. program' = program
  BY <1>0, LoaderSteps
<1> SUFFICES ASSUME "forget" \in program PROVE OwnerInv'
  BY <1>1 DEF OwnerInv
<1>2. "clear" \notin program /\ "lock" \notin program
  BY DEF LifetimeInv, SafeProgram
<1>3. \A t \in Threads : frame[t].op \notin {"lock", "expired"}
  BY <1>0, <1>2 DEF InfoInv
<1>4. ASSUME NEW p \in Ptrs, IsObject(p)', ptr'[p].info # NoInfo
      PROVE  ptr'[p].instance # NoInst
  <2>1. ObjectOrigin(p)
    BY <1>0, <1>4, ObjectOrigins
  <2> QED
    BY <1>0, <1>2, <1>3, <1>4, <2>1, NullFacts
    DEF ObjectOrigin, OwnerInv, IsEmpty
<1>5. ASSUME NEW t \in Threads, frame'[t].op = "dropInfo",
             frame'[t].info # NoInfo
      PROVE  /\ frame'[t].instance # NoInst
             /\ frame'[t].info = ClassOf[frame'[t].instance]
  <2>1. FrameOrigin(t)
    BY <1>0, FrameOrigins
  <2> QED
    BY <1>0, <1>3, <1>5, <2>1 DEF FrameOrigin, OwnerInv, InfoInv
<1> QED
  BY <1>4, <1>5 DEF OwnerInv

LEMMA LoaderStep ==
  ASSUME LifetimeInv, [Next]_vars PROVE LoaderInv'
<1>0. ObjectInv /\ LoaderInv
  BY DEF LifetimeInv
<1>1. /\ program' = program /\ known' \subseteq known
      /\ known' = known \/ "forget" \in program
      /\ \/ held' = held
         \/ \E t \in Threads : /\ frame[t].op = "forget"
                               /\ held' = held \ {frame[t].want}
  BY <1>0, LoaderSteps
<1>2. ASSUME NEW t \in Threads, frame'[t].op = "forget"
      PROVE  frame'[t].want \notin known'
  <2>1. FrameOrigin(t)
    BY <1>0, FrameOrigins
  <2> QED
    BY <1>0, <1>1, <1>2, <2>1 DEF FrameOrigin, LoaderInv
<1>3. known' \subseteq held'
  BY <1>0, <1>1 DEF LoaderInv
<1>4. "forget" \notin program' => known' = {x \in Infos : ~Static(x)'}
  BY <1>0, <1>1 DEF LoaderInv, Static
<1> QED
  BY <1>2, <1>3, <1>4 DEF LoaderInv

LEMMA LifetimeInit ==
  ASSUME Init, \A P \in Programs : SafeProgram(P) PROVE LifetimeInv
<1>1. \A t \in Threads : frame[t].op = "idle"
  BY DEF Init, Idle
<1>2. \A p \in Ptrs : ~IsObject(p)
  BY DEF Init, IsObject
<1>3. \A w \in Weaks : weak[w].instance = NoInst
  BY DEF Init
<1>4. LoaderInv
  BY <1>1 DEF Init, LoaderInv
<1>5. InfoInv /\ OwnerInv
  BY <1>1, <1>2, <1>3 DEF InfoInv, OwnerInv
<1>6. SafeProgram(program)
  BY DEF Init
<1> QED
  BY <1>4, <1>5, <1>6, ObjectInit DEF LifetimeInv

LEMMA LifetimeStep ==
  ASSUME LifetimeInv, [Next]_vars PROVE LifetimeInv'
<1>1. ObjectInv' /\ program' = program
  BY ObjectStep, LoaderSteps DEF LifetimeInv
<1>2. SafeProgram(program)'
  BY <1>1 DEF LifetimeInv, SafeProgram
<1> QED
  BY <1>1, <1>2, InfoStep, OwnerStep, LoaderStep DEF LifetimeInv

LEMMA LifetimeInvariant ==
  ASSUME \A P \in Programs : SafeProgram(P)
  PROVE  Spec => []LifetimeInv
<1>1. Init => LifetimeInv
  BY LifetimeInit
<1>2. LifetimeInv /\ [Next]_vars => LifetimeInv'
  BY LifetimeStep
<1> QED
  BY <1>1, <1>2, PTL DEF Spec

(* No Info outlives its library, in a program that empties no PluginPtr in *)
(* place while it forgets libraries, and locks weak pointers only when no  *)
(* Info can be lost: the owner that keeps an Info also keeps an instance,  *)
(* or the Loader keeps the handle.                                         *)
THEOREM InfoCodeStaysMapped ==
  ASSUME \A P \in Programs : SafeProgram(P)
  PROVE  Spec => []InfoCodeMapped
<1>1. ASSUME LifetimeInv PROVE InfoCodeMapped
  <2> SUFFICES ASSUME NEW x \in Infos, InfoAlive(x) PROVE Mapped(x)
    BY DEF InfoCodeMapped
  <2>0. /\ VarsOK /\ FrameInv /\ LoaderInv /\ InfoInv /\ OwnerInv
        /\ x # NoInfo
    BY <1>1, LifetimeAssumption DEF LifetimeInv, ObjectInv
  <2>1. CASE x \in known
    BY <2>0, <2>1 DEF LoaderInv, Mapped
  <2>2. CASE "forget" \notin program
    BY <2>0, <2>2 DEF LoaderInv, Mapped
  <2>3. CASE x \notin known /\ "forget" \in program
    <3>1. ASSUME NEW p \in Ptrs, IsObject(p), ptr[p].info = x
          PROVE  Mapped(x)
      <4>1. ptr[p].instance \in Insts /\ Alive(ptr[p].instance)
        BY <2>0, <2>3, <3>1 DEF OwnerInv, VarsOK, Object, IsObject, Alive
      <4>2. ClassOf[ptr[p].instance] = x
        BY <2>0, <3>1, <4>1, NullFacts DEF InfoInv
      <4> QED
        BY <4>1, <4>2 DEF Mapped
    <3>2. ASSUME NEW t \in Threads, frame[t].info = x PROVE Mapped(x)
      <4>1. frame[t].op = "dropInfo"
        BY <2>0, <3>2 DEF FrameInv
      <4>2. /\ frame[t].instance \in Insts
            /\ ClassOf[frame[t].instance] = x
        BY <2>0, <2>3, <3>2, <4>1 DEF OwnerInv, VarsOK, Frame
      <4>3. Alive(frame[t].instance)
        BY DEF Alive
      <4> QED
        BY <4>2, <4>3 DEF Mapped
    <3> QED
      BY <2>3, <3>1, <3>2 DEF InfoAlive
  <2> QED
    BY <2>1, <2>2, <2>3
<1> QED
  BY <1>1, LifetimeInvariant, PTL

(* A PluginPtr that is not empty has the Info that its instance was made   *)
(* from, in the same programs.                                             *)
THEOREM InstancesHaveTheirInfo ==
  ASSUME \A P \in Programs : SafeProgram(P)
  PROVE  Spec => []InstanceHasItsInfo
<1>1. LifetimeInv => InstanceHasItsInfo
  BY DEF LifetimeInv, InfoInv, InstanceHasItsInfo, IsEmpty
<1> QED
  BY <1>1, LifetimeInvariant, PTL

=============================================================================
