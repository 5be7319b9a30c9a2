--------------------------- MODULE PluginLifetime ---------------------------
(***************************************************************************)
(* PluginPtr, WeakPluginPtr and the interface pointers taken from them:    *)
(* core/src/Plugin.cc, core/src/WeakPluginPtr.cc and                       *)
(* core/include/gz/plugin/detail/PluginPtr.hh.                             *)
(*                                                                         *)
(* Three things have an end: a plugin instance, the Info it was made from, *)
(* and the library that both take their code from.  The first two are      *)
(* counted by std::shared_ptr and end with their last owner; the library   *)
(* is loaded while the Loader holds its handle or one of its instances     *)
(* exists, because the instance carries a reference to the handle          *)
(* (PluginWithDlHandle).  The destructor of an Info runs the library's     *)
(* code, so an Info must never outlive it.  A static plugin is part of the *)
(* executable, which is never unloaded; StaticRegistry::GetInfo makes a    *)
(* new Info for every instance.                                            *)
(*                                                                         *)
(* One PluginPtr object is used by one thread at a time; distinct objects  *)
(* that share an instance are used by several.  An operation that lets go  *)
(* of an instance and of an Info does so in two steps.                     *)
(***************************************************************************)
EXTENDS FiniteSets, Sequences, Naturals

CONSTANTS
  Threads,
  Ptrs,            \* PluginPtr objects
  Weaks,           \* WeakPluginPtr objects
  Shares,          \* std::shared_ptr<Interface> objects
  Infos,           \* the plugins known to the Loader, one library each
  Statics,         \* those that some programs have as static plugins
  Insts,           \* plugin instances
  Interfaces,      \* names of interfaces
  ClassOf,         \* ClassOf[i]: the Info instance i is made from
  Provides,        \* Provides[x]: the interfaces of the plugin
  Specialization,  \* Specialization[p]: the type of p, by the interfaces of
                   \*   its SpecializedPluginPtr<...>; <<>> is PluginPtr
  FromThis,        \* the plugins that inherit EnablePluginFromThis
  Programs,        \* the programs considered, see below
  NoInst, NoInfo, NoPtr,  \* null values
  Absent,          \* the object does not exist
  Moved,           \* its dataPtr was moved away
  NullEntry,       \* an interface map entry that is nullptr
  NoEntry          \* no such key in the interface map

(* A program is told by the operations it uses beyond making, copying and  *)
(* moving PluginPtrs:                                                      *)
(*   forget  Loader::ForgetLibrary, or the end of the Loader               *)
(*   clear   = nullptr, or assignment to a PluginPtr that is not empty     *)
(*   lock    WeakPluginPtr::Lock, IsExpired, PluginFromThis                *)
(*   share   QueryInterfaceSharedPtr, Loader::Factory                      *)
(*   static  the plugins Statics are registered as static plugins          *)
Operations == {"forget", "clear", "lock", "share", "static"}

ASSUME LifetimeAssumption ==
  /\ ClassOf \in [Insts -> Infos]
  /\ Statics \subseteq Infos
  /\ \A i, j \in Insts :
       ClassOf[i] = ClassOf[j] /\ ClassOf[i] \in Statics => i = j
  /\ Provides \in [Infos -> SUBSET Interfaces]
  /\ Specialization \in [Ptrs -> Seq(Interfaces)]
  /\ FromThis \subseteq Infos
  /\ Programs \subseteq SUBSET Operations
  /\ NoInst \notin Insts /\ NoInfo \notin Infos /\ NoPtr \notin Ptrs
  /\ {NullEntry, NoEntry} \cap Insts = {} /\ NullEntry # NoEntry

Object == [instance : Insts \cup {NoInst}, info : Infos \cup {NoInfo},
           interfaces : [Interfaces -> Insts \cup {NullEntry, NoEntry}]]

WeakValue == [instance : Insts \cup {NoInst}, info : Infos \cup {NoInfo}]

ASSUME ObjectAssumption == Absent \notin Object /\ Moved \notin Object
                             /\ Absent # Moved

VARIABLES
  program,  \* the program that runs
  known,    \* the Infos in the registry of the Loader
  held,     \* those whose library handle the Loader holds
  ptr,      \* ptr[p]: an Object, Moved or Absent
  weak,     \* weak[w]: the instance and the Info referred to, or Moved
  shared,   \* shared[s]: the instance it keeps
  frame     \* frame[t]: the operation that thread t is inside of

loaderVars == <<known, held>>
vars == <<program, loaderVars, ptr, weak, shared, frame>>

(* The locals of an operation in progress.  op is the place reached:       *)
(*   clear         in Clear, the instance of ptr has been reset            *)
(*   copy          in Copy, ptr has been cleared                           *)
(*   dropInfo      an Object, or the locals of IsExpired, being destroyed: *)
(*                 both references are still owned                         *)
(*   dropInstance  the same, info has been destroyed                       *)
(*   lock          Lock, the weak_ptr to the instance has been locked      *)
(*   expired       IsExpired, likewise                                     *)
(*   forget        ForgetLibrary, between its two erase calls              *)
(* instance and info are owned; want is an Info that is only named.        *)
Frame == [op : {"idle", "clear", "copy", "dropInfo", "dropInstance", "lock",
                "expired", "forget"},
          ptr : Ptrs \cup {NoPtr}, source : Ptrs \cup {NoPtr},
          instance : Insts \cup {NoInst}, info : Infos \cup {NoInfo},
          want : Infos \cup {NoInfo}]

Idle == [op |-> "idle", ptr |-> NoPtr, source |-> NoPtr,
         instance |-> NoInst, info |-> NoInfo, want |-> NoInfo]

-----------------------------------------------------------------------------
(* Ownership *)

IsObject(p) == ptr[p] \notin {Absent, Moved}

IsEmpty(p) == ptr[p].instance = NoInst

Alive(i) ==
  \/ \E p \in Ptrs : IsObject(p) /\ ptr[p].instance = i
  \/ \E s \in Shares : shared[s] = i
  \/ \E t \in Threads : frame[t].instance = i

InfoAlive(x) ==
  \/ x \in known
  \/ \E p \in Ptrs : IsObject(p) /\ ptr[p].info = x
  \/ \E t \in Threads : frame[t].info = x

Static(x) == "static" \in program /\ x \in Statics

Mapped(x) ==
  \/ Static(x)
  \/ x \in held
  \/ \E i \in Insts : ClassOf[i] = x /\ Alive(i)

(* No weak_ptr, live or expired, refers to i: a new instance may be it.    *)
Unused(i) == ~Alive(i) /\ \A w \in Weaks :
                           weak[w] # Moved => weak[w].instance # i

(* Nor to x, nor is one being locked: a new Info may be it. *)
UnusedInfo(x) ==
  /\ ~InfoAlive(x)
  /\ \A w \in Weaks : weak[w] # Moved => weak[w].info # x
  /\ \A t \in Threads : frame[t].want # x

(* No thread is writing, or copying from, p. *)
Settled(p) == \A t \in Threads : frame[t].ptr # p /\ frame[t].source # p

(* No thread is writing p. *)
Readable(p) == \A t \in Threads : frame[t].ptr # p

Free(t) == frame[t] = Idle

LoaderFree == \A t \in Threads : frame[t].op # "forget"

TypeOK ==
  /\ program \in Programs
  /\ known \subseteq Infos /\ held \subseteq Infos
  /\ ptr \in [Ptrs -> Object \cup {Absent, Moved}]
  /\ weak \in [Weaks -> WeakValue \cup {Moved}]
  /\ shared \in [Shares -> Insts \cup {NoInst}]
  /\ frame \in [Threads -> Frame]
  /\ \A t \in Threads :
       /\ frame[t].op \in {"clear", "copy"} => IsObject(frame[t].ptr)
       /\ frame[t].op # "dropInfo" => frame[t].info = NoInfo

Init ==
  /\ program \in Programs
  /\ known = {x \in Infos : ~Static(x)}
  /\ held = known
  /\ ptr = [p \in Ptrs |-> Absent]
  /\ weak = [w \in Weaks |-> [instance |-> NoInst, info |-> NoInfo]]
  /\ shared = [s \in Shares |-> NoInst]
  /\ frame = [t \in Threads |-> Idle]

-----------------------------------------------------------------------------
(* SpecializedPlugin                                                       *)

(* Mutation for IteratorsValid: the others are forgotten. *)
BasesFirst(s) == IF s = <<>> THEN {<<>>} ELSE {s, <<s[1]>>}

(* The classes SpecializedPlugin<...> that SpecializedPlugin<s> inherits,  *)
(* itself included: the first interface's, and that of all the others.     *)
Bases(s) ==
  {SubSeq(s, i, Len(s)) : i \in 1 .. (Len(s) + 1)}
    \cup {<<s[i]>> : i \in DOMAIN s}

(* SelectSpecalizerIfAvailable: the interfaces for which a specializer is  *)
(* among the base classes.                                                 *)
SpecializedFor(p) ==
  {k \in Interfaces : <<k>> \in Bases(Specialization[p])}

-----------------------------------------------------------------------------
(* Plugin::Implementation                                                  *)

(* A new one, for a PluginPtr of the type of p: a specialized type creates *)
(* the map entries that its iterators point to.                            *)
NewObject(p) ==
  [instance |-> NoInst, info |-> NoInfo,
   interfaces |-> [k \in Interfaces |->
                     IF k \in SpecializedFor(p) THEN NullEntry ELSE NoEntry]]

(* The interface map m after an entry for each interface of x is written.  *)
Cast(m, x, i) ==
  [k \in Interfaces |-> IF k \in Provides[x] THEN i ELSE m[k]]

(* Mutation for InstanceHasItsInfo: a copy does not copy the Info. *)
CopiedWithoutInfo(o, other) ==
  [instance |-> other.instance, info |-> o.info,
   interfaces |->
     IF other.instance = NoInst THEN o.interfaces
     ELSE [k \in Interfaces |-> IF other.interfaces[k] # NoEntry
                                THEN other.interfaces[k]
                                ELSE o.interfaces[k]]]

(* Copy(_other), into the cleared object o. *)
Copied(o, other) ==
  [instance |-> other.instance, info |-> other.info,
   interfaces |->
     IF other.instance = NoInst THEN o.interfaces
     ELSE [k \in Interfaces |-> IF other.interfaces[k] # NoEntry
                                THEN other.interfaces[k]
                                ELSE o.interfaces[k]]]

(* Copy(_info, _instance), into a new object; without an Info for the      *)
(* instance it stops before the interfaces are known.                      *)
Assembled(p, x, i) ==
  [instance |-> i, info |-> x,
   interfaces |-> IF i # NoInst /\ x # NoInfo
                  THEN Cast(NewObject(p).interfaces, x, i)
                  ELSE NewObject(p).interfaces]

(* The members of object o are about to be destroyed, info first. *)
Destroying(o) ==
  IF o.instance = NoInst /\ o.info = NoInfo THEN Idle
  ELSE [Idle EXCEPT !.op = "dropInfo", !.instance = o.instance,
                    !.info = o.info]

-----------------------------------------------------------------------------
(* Construction, copy and move                                             *)

(* Loader::Instantiate of a static plugin, with a copy of its Info *)
InstantiateStatic(t, p, i) ==
  /\ Free(t) /\ LoaderFree
  /\ ptr[p] = Absent /\ Settled(p)
  /\ Specialization[p] = <<>>
  /\ Static(ClassOf[i])
  /\ Unused(i) /\ UnusedInfo(ClassOf[i])
  /\ ptr' = [ptr EXCEPT ![p] = Assembled(p, ClassOf[i], i)]
  /\ UNCHANGED <<program, loaderVars, weak, shared, frame>>

(* and of one loaded from file, with the Info that the Loader has *)
Instantiate(t, p, i) ==
  /\ Free(t) /\ LoaderFree
  /\ ptr[p] = Absent /\ Settled(p)
  /\ Specialization[p] = <<>>
  /\ ClassOf[i] \in known \cap held
  /\ Unused(i)
  /\ ptr' = [ptr EXCEPT ![p] = Assembled(p, ClassOf[i], i)]
  /\ UNCHANGED <<program, loaderVars, weak, shared, frame>>

Construct(t, p) ==
  /\ Free(t)
  /\ ptr[p] = Absent /\ Settled(p)
  /\ ptr' = [ptr EXCEPT ![p] = NewObject(p)]
  /\ UNCHANGED <<program, loaderVars, weak, shared, frame>>

CopyConstruct(t, p, q) ==
  /\ Free(t)
  /\ ptr[p] = Absent /\ Settled(p)
  /\ IsObject(q) /\ Readable(q)
  /\ ptr' = [ptr EXCEPT ![p] = Copied(NewObject(p), ptr[q])]
  /\ UNCHANGED <<program, loaderVars, weak, shared, frame>>

MoveConstruct(t, p, q) ==
  /\ Free(t)
  /\ ptr[p] = Absent /\ Settled(p)
  /\ IsObject(q) /\ Settled(q)
  /\ Specialization[p] = Specialization[q]
  /\ ptr' = [ptr EXCEPT ![p] = ptr[q], ![q] = Moved]
  /\ UNCHANGED <<program, loaderVars, weak, shared, frame>>

(* std::unique_ptr installs the new object and then destroys the old one.  *)
(* Moving a PluginPtr to itself changes nothing.                           *)
MoveAssign(t, p, q) ==
  /\ Free(t)
  /\ p # q
  /\ ptr[p] # Absent /\ Settled(p)
  /\ ptr[q] # Absent /\ Settled(q)
  /\ Specialization[p] = Specialization[q]
  /\ ptr' = [ptr EXCEPT ![p] = ptr[q], ![q] = Moved]
  /\ frame' = [frame EXCEPT ![t] =
                 IF IsObject(p) THEN Destroying(ptr[p]) ELSE Idle]
  /\ UNCHANGED <<program, loaderVars, weak, shared>>

Destroy(t, p) ==
  /\ Free(t)
  /\ ptr[p] # Absent /\ Settled(p)
  /\ ptr' = [ptr EXCEPT ![p] = Absent]
  /\ frame' = [frame EXCEPT ![t] =
                 IF IsObject(p) THEN Destroying(ptr[p]) ELSE Idle]
  /\ UNCHANGED <<program, loaderVars, weak, shared>>

(* Mutation for TypeOK: the Info is kept. *)
DropInfoNot(t) ==
  /\ frame[t].op = "dropInfo"
  /\ frame' = [frame EXCEPT ![t].op = "dropInstance"]
  /\ UNCHANGED <<program, loaderVars, ptr, weak, shared>>

(* Mutation for InfoCodeMapped: loadedInstancePtr is declared after info,  *)
(* so that it is destroyed first.                                          *)
DropInfoLast(t) ==
  /\ frame[t].op = "dropInfo"
  /\ frame' = [frame EXCEPT ![t] =
                 IF frame[t].instance # NoInst
                 THEN [frame[t] EXCEPT !.instance = NoInst] ELSE Idle]
  /\ UNCHANGED <<program, loaderVars, ptr, weak, shared>>

DropInfo(t) ==
  /\ frame[t].op = "dropInfo"
  /\ frame' = [frame EXCEPT ![t].op = "dropInstance", ![t].info = NoInfo]
  /\ UNCHANGED <<program, loaderVars, ptr, weak, shared>>

DropInstance(t) ==
  /\ frame[t].op = "dropInstance"
  /\ frame' = [frame EXCEPT ![t] = Idle]
  /\ UNCHANGED <<program, loaderVars, ptr, weak, shared>>

-----------------------------------------------------------------------------
(* Clear, and the assignment that begins with it                           *)

(* p = q, also with q the same object, or p = nullptr when q is NoPtr. *)
Assign(t, p, q) ==
  /\ Free(t)
  /\ IsObject(p) /\ Settled(p)
  /\ q # NoPtr => IsObject(q) /\ Readable(q)
  /\ "clear" \in program \/ IsEmpty(p)
  /\ ptr' = [ptr EXCEPT ![p].instance = NoInst]
  /\ frame' = [frame EXCEPT ![t] =
                 [Idle EXCEPT !.op = "clear", !.ptr = p, !.source = q]]
  /\ UNCHANGED <<program, loaderVars, weak, shared>>

(* Mutation for InterfacesOwn: the entries are left as they are. *)
ClearInfoOnly(t) ==
  /\ frame[t].op = "clear"
  /\ ptr' = [ptr EXCEPT ![frame[t].ptr].info = NoInfo]
  /\ frame' = [frame EXCEPT ![t] = IF frame[t].source = NoPtr THEN Idle
                                   ELSE [frame[t] EXCEPT !.op = "copy"]]
  /\ UNCHANGED <<program, loaderVars, weak, shared>>

(* Mutation for EntriesStay: interfaces.clear(). *)
ClearInfoAndEntries(t) ==
  /\ frame[t].op = "clear"
  /\ ptr' = [ptr EXCEPT ![frame[t].ptr].info = NoInfo,
                        ![frame[t].ptr].interfaces =
                          [k \in Interfaces |-> NoEntry]]
  /\ frame' = [frame EXCEPT ![t] = IF frame[t].source = NoPtr THEN Idle
                                   ELSE [frame[t] EXCEPT !.op = "copy"]]
  /\ UNCHANGED <<program, loaderVars, weak, shared>>

(* The rest of Clear: info is reset, the map entries become nullptr but    *)
(* stay, for the iterators of specialized plugins.                         *)
ClearInfo(t) ==
  /\ frame[t].op = "clear"
  /\ ptr' = [ptr EXCEPT ![frame[t].ptr].info = NoInfo,
                        ![frame[t].ptr].interfaces =
                          [k \in Interfaces |->
                             IF @[k] = NoEntry THEN NoEntry ELSE NullEntry]]
  /\ frame' = [frame EXCEPT ![t] = IF frame[t].source = NoPtr THEN Idle
                                   ELSE [frame[t] EXCEPT !.op = "copy"]]
  /\ UNCHANGED <<program, loaderVars, weak, shared>>

CopyFrom(t) ==
  LET p == frame[t].ptr IN
  /\ frame[t].op = "copy"
  /\ ptr' = [ptr EXCEPT ![p] = Copied(ptr[p], ptr[frame[t].source])]
  /\ frame' = [frame EXCEPT ![t] = Idle]
  /\ UNCHANGED <<program, loaderVars, weak, shared>>

-----------------------------------------------------------------------------
(* Interfaces                                                              *)

QueryInterface(p, k) ==
  IF ptr[p].interfaces[k] \in Insts THEN ptr[p].interfaces[k] ELSE NullEntry

(* HasInterface<K>(): a specialized type looks at the entry, the generic   *)
(* one at whether there is an entry.                                       *)
HasInterface(p, k) ==
  IF k \in SpecializedFor(p) THEN ptr[p].interfaces[k] # NullEntry
  ELSE ptr[p].info # NoInfo /\ ptr[p].interfaces[k] # NoEntry

QueryInterfaceSharedPtr(t, p, k, s) ==
  /\ Free(t)
  /\ "share" \in program
  /\ IsObject(p) /\ Readable(p)
  /\ QueryInterface(p, k) # NullEntry
  /\ shared[s] = NoInst
  /\ shared' = [shared EXCEPT ![s] = ptr[p].instance]
  /\ UNCHANGED <<program, loaderVars, ptr, weak, frame>>

DropShared(t, s) ==
  /\ Free(t)
  /\ shared[s] # NoInst
  /\ shared' = [shared EXCEPT ![s] = NoInst]
  /\ UNCHANGED <<program, loaderVars, ptr, weak, frame>>

-----------------------------------------------------------------------------
(* WeakPluginPtr, and EnablePluginFromThis which keeps one in the instance *)

WeakAssign(t, w, p) ==
  /\ Free(t)
  /\ "lock" \in program
  /\ weak[w] # Moved
  /\ IsObject(p) /\ Readable(p)
  /\ weak' = [weak EXCEPT ![w] =
                [instance |-> ptr[p].instance, info |-> ptr[p].info]]
  /\ UNCHANGED <<program, loaderVars, ptr, shared, frame>>

WeakCopy(t, w, u) ==
  /\ Free(t)
  /\ "lock" \in program
  /\ w # u /\ weak[w] # Moved /\ weak[u] # Moved
  /\ weak' = [weak EXCEPT ![w] = weak[u]]
  /\ UNCHANGED <<program, loaderVars, ptr, shared, frame>>

WeakMove(t, w, u) ==
  /\ Free(t)
  /\ "lock" \in program
  /\ w # u
  /\ weak' = [weak EXCEPT ![w] = weak[u], ![u] = Moved]
  /\ UNCHANGED <<program, loaderVars, ptr, shared, frame>>

(* The weak_ptr to the instance is locked, then the one to the Info. *)
Locked(i) == IF i \in Insts /\ Alive(i) THEN i ELSE NoInst
LockedInfo(x) == IF x \in Infos /\ InfoAlive(x) THEN x ELSE NoInfo

LockInstance(t, w, p) ==
  /\ Free(t)
  /\ "lock" \in program
  /\ weak[w] # Moved
  /\ ptr[p] = Absent /\ Settled(p)
  /\ Specialization[p] = <<>>
  /\ frame' = [frame EXCEPT ![t] =
                 [Idle EXCEPT !.op = "lock", !.ptr = p, !.want = weak[w].info,
                              !.instance = Locked(weak[w].instance)]]
  /\ UNCHANGED <<program, loaderVars, ptr, weak, shared>>

(* PluginFromThis is called on an instance that the program has in hand. *)
InHand(i) ==
  \/ \E q \in Ptrs : IsObject(q) /\ ptr[q].instance = i
  \/ \E s \in Shares : shared[s] = i

PluginFromThis(t, i, p) ==
  /\ Free(t)
  /\ "lock" \in program
  /\ ptr[p] = Absent /\ Settled(p)
  /\ Specialization[p] = <<>>
  /\ ClassOf[i] \in FromThis /\ InHand(i)
  /\ frame' = [frame EXCEPT ![t] =
                 [Idle EXCEPT !.op = "lock", !.ptr = p, !.want = ClassOf[i],
                              !.instance = i]]
  /\ UNCHANGED <<program, loaderVars, ptr, weak, shared>>

LockInfo(t) ==
  LET p == frame[t].ptr IN
  /\ frame[t].op = "lock"
  /\ ptr' = [ptr EXCEPT ![p] = Assembled(p, LockedInfo(frame[t].want),
                                         frame[t].instance)]
  /\ frame' = [frame EXCEPT ![t] = Idle]
  /\ UNCHANGED <<program, loaderVars, weak, shared>>

IsExpiredInstance(t, w) ==
  /\ Free(t)
  /\ "lock" \in program
  /\ weak[w] # Moved
  /\ frame' = [frame EXCEPT ![t] =
                 [Idle EXCEPT !.op = "expired", !.want = weak[w].info,
                              !.instance = Locked(weak[w].instance)]]
  /\ UNCHANGED <<program, loaderVars, ptr, weak, shared>>

IsExpiredInfo(t) ==
  /\ frame[t].op = "expired"
  /\ frame' = [frame EXCEPT ![t] =
                 Destroying([instance |-> frame[t].instance,
                             info |-> LockedInfo(frame[t].want)])]
  /\ UNCHANGED <<program, loaderVars, ptr, weak, shared>>

-----------------------------------------------------------------------------
(* The Loader lets go of a plugin: its Info first, then its handle. *)

ForgetInfo(t, x) ==
  /\ Free(t) /\ LoaderFree
  /\ "forget" \in program
  /\ x \in known
  /\ known' = known \ {x}
  /\ frame' = [frame EXCEPT ![t] = [Idle EXCEPT !.op = "forget", !.want = x]]
  /\ UNCHANGED <<program, held, ptr, weak, shared>>

ForgetHandle(t) ==
  /\ frame[t].op = "forget"
  /\ held' = held \ {frame[t].want}
  /\ frame' = [frame EXCEPT ![t] = Idle]
  /\ UNCHANGED <<program, known, ptr, weak, shared>>

-----------------------------------------------------------------------------
Continue(t) ==
  \/ DropInfo(t) \/ DropInstance(t)
  \/ ClearInfo(t) \/ CopyFrom(t)
  \/ LockInfo(t) \/ IsExpiredInfo(t)
  \/ ForgetHandle(t)

Invoke(t) ==
  \/ \E p \in Ptrs, i \in Insts : Instantiate(t, p, i)
  \/ \E p \in Ptrs, i \in Insts : InstantiateStatic(t, p, i)
  \/ \E p \in Ptrs : Construct(t, p)
  \/ \E p, q \in Ptrs : CopyConstruct(t, p, q)
  \/ \E p, q \in Ptrs : MoveConstruct(t, p, q)
  \/ \E p, q \in Ptrs : MoveAssign(t, p, q)
  \/ \E p \in Ptrs : Destroy(t, p)
  \/ \E p \in Ptrs, q \in Ptrs \cup {NoPtr} : Assign(t, p, q)
  \/ \E p \in Ptrs, k \in Interfaces, s \in Shares :
       QueryInterfaceSharedPtr(t, p, k, s)
  \/ \E s \in Shares : DropShared(t, s)
  \/ \E w \in Weaks, p \in Ptrs : WeakAssign(t, w, p)
  \/ \E w, u \in Weaks : WeakCopy(t, w, u) \/ WeakMove(t, w, u)
  \/ \E w \in Weaks, p \in Ptrs : LockInstance(t, w, p)
  \/ \E i \in Insts, p \in Ptrs : PluginFromThis(t, i, p)
  \/ \E w \in Weaks : IsExpiredInstance(t, w)
  \/ \E x \in Infos : ForgetInfo(t, x)

Next == \E t \in Threads : Invoke(t) \/ Continue(t)

Spec == Init /\ [][Next]_vars

-----------------------------------------------------------------------------
(* Properties                                                              *)

(* The library of an Info is loaded as long as the Info exists: its        *)
(* destructor "depends on the library" (development notes in               *)
(* Plugin::Implementation and WeakPluginPtr::Lock).                        *)
InfoCodeMapped == \A x \in Infos : InfoAlive(x) => Mapped(x)

(* A PluginPtr that is not empty has the Info its instance was made from,  *)
(* so it can name the plugin and every copy can query its interfaces       *)
(* (Plugin::Name, Copy(_info, _instance): "This should never happen!").    *)
InstanceHasItsInfo ==
  \A p \in Ptrs :
    IsObject(p) /\ Settled(p) /\ ~IsEmpty(p) =>
      ptr[p].info = ClassOf[ptr[p].instance]

(* An interface pointer obtained from a PluginPtr points into the instance *)
(* this PluginPtr keeps alive, whatever was assigned to it before          *)
(* (Plugin::QueryInterface).                                               *)
InterfacesOwn ==
  \A p \in Ptrs, k \in Interfaces :
    IsObject(p) /\ Readable(p) /\ QueryInterface(p, k) # NullEntry =>
      QueryInterface(p, k) = ptr[p].instance

(* No entry ever leaves an interface map: specialized plugins keep         *)
(* iterators to them (development note in Plugin::Implementation::Clear).  *)
(* A PluginPtr that is moved to gets another map.                          *)
EntriesStay ==
  [][\A p \in Ptrs :
       IsObject(p) /\ IsObject(p)' =>
         \/ \A k \in Interfaces : ptr[p].interfaces[k] # NoEntry =>
                                    ptr'[p].interfaces[k] # NoEntry
         \/ \E t \in Threads, q \in Ptrs : MoveAssign(t, p, q)]_vars

(* The map entry that a specialized PluginPtr reads without looking it up  *)
(* exists, for every interface it is specialized for, whatever type of     *)
(* PluginPtr was assigned to it (SpecializedPlugin::privateInfo:           *)
(* privateSpecializedInterfaceIterator).                                   *)
IteratorsValid ==
  \A p \in Ptrs :
    IsObject(p) => \A n \in DOMAIN Specialization[p] :
                     ptr[p].interfaces[Specialization[p][n]] # NoEntry

(* When Lock gets the instance it also gets the Info (the assertion in     *)
(* Copy(_info, _instance)).                                                *)
LockFindsInfo ==
  \A t \in Threads :
    frame[t].op = "lock" /\ frame[t].instance # NoInst =>
      InfoAlive(frame[t].want)

(* "Returns true if this Plugin has the specified type of interface, and   *)
(* false otherwise" (Plugin::HasInterface): it has it when it can be       *)
(* queried.                                                                *)
HasInterfaceExact ==
  \A p \in Ptrs, k \in Interfaces :
    IsObject(p) /\ Settled(p) =>
      (HasInterface(p, k) <=> QueryInterface(p, k) # NullEntry)
=============================================================================
