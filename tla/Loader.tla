------------------------------- MODULE Loader -------------------------------
(***************************************************************************)
(* gz::plugin::Loader (loader/src/Loader.cc): loading plugin libraries,    *)
(* instantiating their plugins, forgetting libraries, and the reference    *)
(* counts that decide when a library is unloaded.                          *)
(*                                                                         *)
(* A Loader is not thread-safe: one thread at a time is inside a Loader.   *)
(* Distinct Loaders, and the release of plugin instances, are used from    *)
(* several threads and meet in the dynamic linker's count of opens.        *)
(*                                                                         *)
(* std::shared_ptr<void> to a handle.  The control block that Loader l     *)
(* creates for handle h is named <<l, h>>.  Its owners are the entries of  *)
(* pluginToDlHandlePtrs, the plugin instances made by l, and the local     *)
(* variable dlHandle of a LoadLib in progress; it is live while it has     *)
(* one.  The weak_ptr in dlHandlePtrMap can be locked exactly then, so     *)
(* that map needs no variable.  The owner that goes last calls dlclose as  *)
(* a step of its own: `closing' holds the handle until it has.             *)
(***************************************************************************)
EXTENDS Registry, DynamicLinker

CONSTANTS
  Threads,      \* the threads of the program
  Loaders,      \* the Loader objects it creates
  Insts,        \* plugin instances, what PluginWithDlHandle manages
  Exe,          \* the executable, where static plugins are compiled
  Exports,      \* Exports[lib]: the plugins that GzPluginHook of lib reports;
                \*   {} when LoadPlugins refuses the library
  AliasesIn,    \* AliasesIn[lib][n]: the aliases lib registers for plugin n
  StaticInfos,  \* the Infos of the StaticRegistry, after start-up
  Noisy,        \* the libraries whose initialisers leave a dlerror behind,
                \*   say of a dlopen of their own that failed
  NoLoader, NoLib, NoInst   \* null values

ASSUME LoaderAssumption ==
  /\ Code = Libs \cup {Exe}
  /\ Exe \notin Libs
  /\ NoLoader \notin Loaders
  /\ NoLib \notin Libs
  /\ Exports \in [Libs -> SUBSET Symbols]
  /\ Noisy \subseteq Libs
  /\ AliasesIn \in [Libs -> [Symbols -> SUBSET Symbols]]
  /\ StaticInfos \in SUBSET [name : Symbols, aliases : SUBSET Symbols,
                             lib : {Exe}]
  /\ \A x, y \in StaticInfos : x.name = y.name => x = y

ASSUME FiniteAssumption == IsFiniteSet(Threads) /\ IsFiniteSet(Loaders)

Instance == [lib : Code, loader : Loaders \cup {NoLoader},
             handle : Handles \cup {NoHandle}]

(* An entry of dlHandleToPluginMap, which may be absent. *)
Entry == [known : BOOLEAN, names : SUBSET Symbols]
NoEntry == [known |-> FALSE, names |-> {}]
EntryOf(names) == [known |-> TRUE, names |-> names]

ASSUME InstanceAssumption == NoInst \notin Instance

VARIABLES
  alive,                 \* the Loaders not yet destroyed
  registry,              \* registry[l]: filePlugins
  pluginToDlHandlePtrs,  \* [l][n]: handle of the entry for n, or NoHandle
  dlHandleToPluginMap,   \* [l][h]: names of the entry for h, or NoEntry
  inst,                  \* inst[i]: an instance, or NoInst
  call,                  \* call[t]: the Loader call that thread t is in
  closing                \* closing[t]: the handle t is about to dlclose

loaderVars == <<alive, registry, pluginToDlHandlePtrs, dlHandleToPluginMap>>
vars == <<dlVars, loaderVars, inst, call, closing>>

(* Mutation for TypeOK: the demangled name is never filled in. *)
InfoOfUnnamed(lib, n) ==
  [name |-> NoName, aliases |-> AliasesIn[lib][n], lib |-> lib]

(* The Info that lib provides for its plugin n. *)
InfoOf(lib, n) == [name |-> n, aliases |-> AliasesIn[lib][n], lib |-> lib]

StaticRegistry ==
  [plugins |-> [n \in Symbols |->
                  IF \E x \in StaticInfos : x.name = n
                  THEN CHOOSE x \in StaticInfos : x.name = n ELSE NoInfo],
   aliases |-> [a \in Symbols |->
                  {x.name : x \in {y \in StaticInfos : a \in y.aliases}}]]

(* Loader::LookupPlugin: plugins loaded from file come first. *)
Lookup(l, s) ==
  IF LookupPlugin(registry[l], s) # NoName
  THEN LookupPlugin(registry[l], s)
  ELSE LookupPlugin(StaticRegistry, s)

-----------------------------------------------------------------------------
(* Calls in progress.  op is the place the thread has reached:             *)
(*   opened    Implementation::LoadLib, dlopen has returned                *)
(*   register  the loop of Loader::LoadLib, names in left still to add     *)
(*   find      Implementation::ForgetLibrary, about to look the handle up  *)
(*   forget    its loop, names in left still to forget                     *)
(*   erase     its loop body, between its two erase calls for name         *)
(*   destroy   the destructor, pluginToDlHandlePtrs being destroyed        *)
Idle == [op |-> "idle", loader |-> NoLoader, lib |-> NoLib,
         handle |-> NoHandle, name |-> NoName, left |-> {}]

LoadCall    == [op : {"opened", "register"}, loader : Loaders, lib : Libs,
                handle : Handles, name : {NoName}, left : SUBSET Symbols]
ForgetCall  == [op : {"find", "forget"}, loader : Loaders, lib : {NoLib},
                handle : Handles, name : {NoName}, left : SUBSET Symbols]
EraseCall   == [op : {"erase"}, loader : Loaders, lib : {NoLib},
                handle : Handles, name : Symbols, left : SUBSET Symbols]
DestroyCall == [op : {"destroy"}, loader : Loaders, lib : {NoLib},
                handle : {NoHandle}, name : {NoName}, left : {{}}]

Call == {Idle} \cup LoadCall \cup ForgetCall \cup EraseCall \cup DestroyCall

At(t, op) == closing[t] = NoHandle /\ call[t].op = op

Free(t) == At(t, "idle")

(* No thread is inside Loader l. *)
LoaderFree(l) ==
  /\ l \in alive
  /\ \A t \in Threads : call[t].op # "idle" => call[t].loader # l

(* The control block <<l, h>> has an owner, given the values of            *)
(* pluginToDlHandlePtrs, inst and call.                                    *)
HasOwner(l, h, ptrs, insts, calls) ==
  \/ \E n \in Symbols : ptrs[l][n] = h
  \/ \E i \in Insts :
       insts[i] # NoInst /\ insts[i].loader = l /\ insts[i].handle = h
  \/ \E t \in Threads : /\ calls[t].op = "register"
                        /\ calls[t].loader = l
                        /\ calls[t].handle = h

Live(l, h) == HasOwner(l, h, pluginToDlHandlePtrs, inst, call)

(* Mutation for NoLeak: the block was created without a deleter. *)
DropRefNoDeleter(t, l, h) == UNCHANGED closing

(* Mutation for ImplementsUsage and EntryProvides: whoever lets go calls   *)
(* dlclose.                                                                *)
DropRefRaw(t, l, h) == closing' = [closing EXCEPT ![t] = h]

(* Thread t has let go of a reference to <<l, h>>; if that was the last    *)
(* one, the deleter of the block is what t does next.                      *)
DropRef(t, l, h) ==
  closing' =
    [closing EXCEPT ![t] =
       IF h # NoHandle /\ ~HasOwner(l, h, pluginToDlHandlePtrs', inst', call')
       THEN h ELSE NoHandle]

TypeOK ==
  /\ DlTypeOK
  /\ alive \in SUBSET Loaders
  /\ registry \in [Loaders -> RegistryValue]
  /\ pluginToDlHandlePtrs \in
       [Loaders -> [Symbols -> Handles \cup {NoHandle}]]
  /\ dlHandleToPluginMap \in
       [Loaders -> [Handles -> Entry]]
  /\ inst \in [Insts -> Instance \cup {NoInst}]
  /\ call \in [Threads -> Call]
  /\ closing \in [Threads -> Handles \cup {NoHandle}]

Init ==
  /\ DlInit
  /\ alive = Loaders
  /\ registry = [l \in Loaders |-> EmptyRegistry]
  /\ pluginToDlHandlePtrs =
       [l \in Loaders |-> [n \in Symbols |-> NoHandle]]
  /\ dlHandleToPluginMap = [l \in Loaders |-> [h \in Handles |-> NoEntry]]
  /\ inst = [i \in Insts |-> NoInst]
  /\ call = [t \in Threads |-> Idle]
  /\ closing = [t \in Threads |-> NoHandle]

-----------------------------------------------------------------------------
(* Loader::LoadLib                                                         *)

(* dlopen succeeds.  (When it fails LoadLib returns {} and nothing has     *)
(* changed.)                                                               *)
LoadLib(t, l, lib, keep) ==
  /\ Free(t)
  /\ LoaderFree(l)
  /\ lib \in Noisy => Mapped(lib)
  /\ \E h \in Handles :
       /\ DlOpen(lib, h, keep)
       /\ call' = [call EXCEPT ![t] =
                     [Idle EXCEPT !.op = "opened", !.loader = l,
                                  !.lib = lib, !.handle = h]]
  /\ UNCHANGED <<loaderVars, inst, closing>>

(* dlopen succeeds, but the initialisers that it runs leave a dlerror:     *)
(* LoadLib takes it for its own and returns {}, with the library open.     *)
LoadLibError(t, l, lib, keep) ==
  /\ Free(t)
  /\ LoaderFree(l)
  /\ lib \in Noisy /\ ~Mapped(lib)
  /\ \E h \in Handles : DlOpen(lib, h, keep)
  /\ UNCHANGED <<loaderVars, inst, call, closing>>

(* Mutation for OpenCountExact: the surplus dlopen is not undone. *)
AdoptHandleTwice(t) ==
  /\ At(t, "opened")
  /\ call' = [call EXCEPT ![t].op = "register",
                          ![t].left = Exports[call[t].lib]]
  /\ UNCHANGED <<dlVars, loaderVars, inst, closing>>

(* Mutation for OpensCoverReferences: the dlopen is undone whether or not  *)
(* the weak_ptr could be locked.                                           *)
AdoptHandleClosed(t) ==
  /\ At(t, "opened")
  /\ closing' = [closing EXCEPT ![t] = call[t].handle]
  /\ call' = [call EXCEPT ![t].op = "register",
                          ![t].left = Exports[call[t].lib]]
  /\ UNCHANGED <<dlVars, loaderVars, inst>>

(* The weak_ptr of the handle is locked.  If that gives a live block, the  *)
(* dlopen just made is undone; otherwise it belongs to a new block.        *)
AdoptHandle(t) ==
  /\ At(t, "opened")
  /\ closing' = [closing EXCEPT ![t] =
                   IF Live(call[t].loader, call[t].handle)
                   THEN call[t].handle ELSE NoHandle]
  /\ call' = [call EXCEPT ![t].op = "register",
                          ![t].left = Exports[call[t].lib]]
  /\ UNCHANGED <<dlVars, loaderVars, inst>>

(* One turn of the loop.  Assigning to pluginToDlHandlePtrs[n] releases    *)
(* the handle that was there.                                              *)
RegisterPlugin(t, n) ==
  LET l == call[t].loader IN
  /\ At(t, "register")
  /\ n \in call[t].left
  /\ registry' =
       [registry EXCEPT ![l] = AddInfo(@, InfoOf(call[t].lib, n))]
  /\ pluginToDlHandlePtrs' =
       [pluginToDlHandlePtrs EXCEPT ![l][n] = call[t].handle]
  /\ call' = [call EXCEPT ![t].left = @ \ {n}]
  /\ UNCHANGED <<dlVars, alive, dlHandleToPluginMap, inst>>
  /\ DropRef(t, l, pluginToDlHandlePtrs[l][n])

(* Mutation for ForgetIsComplete: the names are inserted, which leaves     *)
(* what an earlier library with that handle left there.                    *)
FinishLoadInsert(t) ==
  LET l == call[t].loader IN
  /\ At(t, "register")
  /\ call[t].left = {}
  /\ dlHandleToPluginMap' =
       [dlHandleToPluginMap EXCEPT
          ![l][call[t].handle] =
             IF @.known THEN @ ELSE EntryOf(Exports[call[t].lib])]
  /\ call' = [call EXCEPT ![t] = Idle]
  /\ UNCHANGED <<dlVars, alive, registry, pluginToDlHandlePtrs, inst>>
  /\ DropRef(t, l, call[t].handle)

(* The names are saved and the local dlHandle goes out of scope. *)
FinishLoad(t) ==
  LET l == call[t].loader IN
  /\ At(t, "register")
  /\ call[t].left = {}
  /\ dlHandleToPluginMap' =
       [dlHandleToPluginMap EXCEPT
          ![l][call[t].handle] = EntryOf(Exports[call[t].lib])]
  /\ call' = [call EXCEPT ![t] = Idle]
  /\ UNCHANGED <<dlVars, alive, registry, pluginToDlHandlePtrs, inst>>
  /\ DropRef(t, l, call[t].handle)

-----------------------------------------------------------------------------
(* Loader::ForgetLibrary, Loader::ForgetLibraryOfPlugin, Loader::~Loader   *)

(* By path: a dlopen with RTLD_NOLOAD, undone by dlclose before the handle *)
(* is looked up.  (It returns false when the library is not loaded.)       *)
ForgetLibrary(t, l, lib) ==
  /\ Free(t)
  /\ LoaderFree(l)
  /\ \E h \in Handles :
       /\ DlProbe(lib, h)
       /\ closing' = [closing EXCEPT ![t] = h]
       /\ call' = [call EXCEPT ![t] =
                     [Idle EXCEPT !.op = "find", !.loader = l,
                                  !.handle = h]]
  /\ UNCHANGED <<loaderVars, inst>>

(* By name or alias.  (It returns false when there is no entry.) *)
ForgetLibraryOfPlugin(t, l, s) ==
  LET n == Lookup(l, s) IN
  /\ Free(t)
  /\ LoaderFree(l)
  /\ n # NoName
  /\ pluginToDlHandlePtrs[l][n] # NoHandle
  /\ call' = [call EXCEPT ![t] =
                [Idle EXCEPT !.op = "find", !.loader = l,
                             !.handle = pluginToDlHandlePtrs[l][n]]]
  /\ UNCHANGED <<dlVars, loaderVars, inst, closing>>

(* Implementation::ForgetLibrary starts; without an entry for the handle   *)
(* it returns false.                                                       *)
FindLibrary(t) ==
  LET entry == dlHandleToPluginMap[call[t].loader][call[t].handle] IN
  /\ At(t, "find")
  /\ call' = [call EXCEPT ![t] =
                IF entry.known
                THEN [@ EXCEPT !.op = "forget", !.left = entry.names]
                ELSE Idle]
  /\ UNCHANGED <<dlVars, loaderVars, inst, closing>>

ForgetPluginInfo(t, n) ==
  LET l == call[t].loader IN
  /\ At(t, "forget")
  /\ n \in call[t].left
  /\ registry' = [registry EXCEPT ![l] = ForgetInfo(@, n)]
  /\ call' = [call EXCEPT ![t].op = "erase", ![t].name = n]
  /\ UNCHANGED <<dlVars, alive, pluginToDlHandlePtrs, dlHandleToPluginMap,
                 inst, closing>>

(* Mutation for ForgetIsComplete: the loop ends after its first turn. *)
ErasePluginHandleOnce(t) ==
  LET l == call[t].loader
      n == call[t].name
  IN
  /\ At(t, "erase")
  /\ pluginToDlHandlePtrs' =
       [pluginToDlHandlePtrs EXCEPT ![l][n] = NoHandle]
  /\ call' = [call EXCEPT ![t].op = "forget", ![t].name = NoName,
                          ![t].left = {}]
  /\ UNCHANGED <<dlVars, alive, registry, dlHandleToPluginMap, inst>>
  /\ DropRef(t, l, pluginToDlHandlePtrs[l][n])

(* Mutation for CallReturns and CallsAdvance: the loop does not advance.   *)
ErasePluginHandleAgain(t) ==
  LET l == call[t].loader
      n == call[t].name
  IN
  /\ At(t, "erase")
  /\ pluginToDlHandlePtrs' =
       [pluginToDlHandlePtrs EXCEPT ![l][n] = NoHandle]
  /\ call' = [call EXCEPT ![t].op = "forget", ![t].name = NoName]
  /\ UNCHANGED <<dlVars, alive, registry, dlHandleToPluginMap, inst>>
  /\ DropRef(t, l, pluginToDlHandlePtrs[l][n])

ErasePluginHandle(t) ==
  LET l == call[t].loader
      n == call[t].name
  IN
  /\ At(t, "erase")
  /\ pluginToDlHandlePtrs' =
       [pluginToDlHandlePtrs EXCEPT ![l][n] = NoHandle]
  /\ call' = [call EXCEPT ![t].op = "forget", ![t].name = NoName,
                          ![t].left = @ \ {n}]
  /\ UNCHANGED <<dlVars, alive, registry, dlHandleToPluginMap, inst>>
  /\ DropRef(t, l, pluginToDlHandlePtrs[l][n])

FinishForget(t) ==
  /\ At(t, "forget")
  /\ call[t].left = {}
  /\ dlHandleToPluginMap' =
       [dlHandleToPluginMap EXCEPT
          ![call[t].loader][call[t].handle] = NoEntry]
  /\ call' = [call EXCEPT ![t] = Idle]
  /\ UNCHANGED <<dlVars, alive, registry, pluginToDlHandlePtrs, inst,
                 closing>>

(* Mutation for ProviderHandle: pluginToDlHandlePtrs goes before           *)
(* filePlugins, as if they were declared in the other order.               *)
DestroyLoaderHandlesFirst(t, l) ==
  /\ Free(t)
  /\ LoaderFree(l)
  /\ alive' = alive \ {l}
  /\ dlHandleToPluginMap' =
       [dlHandleToPluginMap EXCEPT ![l] = [h \in Handles |-> NoEntry]]
  /\ call' = [call EXCEPT ![t] =
                [Idle EXCEPT !.op = "destroy", !.loader = l]]
  /\ UNCHANGED <<dlVars, registry, pluginToDlHandlePtrs, inst, closing>>

(* Members are destroyed last to first: dlHandleToPluginMap, filePlugins,  *)
(* and then pluginToDlHandlePtrs, an entry at a time.                      *)
DestroyLoader(t, l) ==
  /\ Free(t)
  /\ LoaderFree(l)
  /\ alive' = alive \ {l}
  /\ dlHandleToPluginMap' =
       [dlHandleToPluginMap EXCEPT ![l] = [h \in Handles |-> NoEntry]]
  /\ registry' = [registry EXCEPT ![l] = EmptyRegistry]
  /\ call' = [call EXCEPT ![t] =
                [Idle EXCEPT !.op = "destroy", !.loader = l]]
  /\ UNCHANGED <<dlVars, pluginToDlHandlePtrs, inst, closing>>

DestroyHandle(t, n) ==
  LET l == call[t].loader IN
  /\ At(t, "destroy")
  /\ pluginToDlHandlePtrs[l][n] # NoHandle
  /\ pluginToDlHandlePtrs' =
       [pluginToDlHandlePtrs EXCEPT ![l][n] = NoHandle]
  /\ UNCHANGED <<dlVars, alive, registry, dlHandleToPluginMap, inst, call>>
  /\ DropRef(t, l, pluginToDlHandlePtrs[l][n])

FinishDestroy(t) ==
  /\ At(t, "destroy")
  /\ \A n \in Symbols :
       pluginToDlHandlePtrs[call[t].loader][n] = NoHandle
  /\ call' = [call EXCEPT ![t] = Idle]
  /\ UNCHANGED <<dlVars, loaderVars, inst, closing>>

-----------------------------------------------------------------------------
(* Loader::Instantiate and the end of an instance                          *)

(* Mutation for InstanceCodeMapped: the instance keeps no handle. *)
InstantiateWithoutHandle(t, l, s, i) ==
  LET n == LookupPlugin(registry[l], s) IN
  /\ Free(t)
  /\ LoaderFree(l)
  /\ inst[i] = NoInst
  /\ n # NoName
  /\ registry[l].plugins[n] # NoInfo
  /\ inst' = [inst EXCEPT ![i] =
                [lib |-> registry[l].plugins[n].lib, loader |-> l,
                 handle |-> NoHandle]]
  /\ UNCHANGED <<dlVars, loaderVars, call, closing>>

(* A plugin loaded from file: the instance keeps its Info and a reference  *)
(* to its handle.  (No instance is made when either is missing.)           *)
InstantiateFromFile(t, l, s, i) ==
  LET n == LookupPlugin(registry[l], s) IN
  /\ Free(t)
  /\ LoaderFree(l)
  /\ inst[i] = NoInst
  /\ n # NoName
  /\ registry[l].plugins[n] # NoInfo
  /\ pluginToDlHandlePtrs[l][n] # NoHandle
  /\ inst' = [inst EXCEPT ![i] =
                [lib |-> registry[l].plugins[n].lib, loader |-> l,
                 handle |-> pluginToDlHandlePtrs[l][n]]]
  /\ UNCHANGED <<dlVars, loaderVars, call, closing>>

(* A static plugin, when no plugin loaded from file goes by that name. *)
InstantiateStatic(t, l, s, i) ==
  /\ Free(t)
  /\ LoaderFree(l)
  /\ inst[i] = NoInst
  /\ LookupPlugin(registry[l], s) = NoName
  /\ LookupPlugin(StaticRegistry, s) # NoName
  /\ inst' = [inst EXCEPT ![i] =
                [lib |-> Exe, loader |-> NoLoader, handle |-> NoHandle]]
  /\ UNCHANGED <<dlVars, loaderVars, call, closing>>

(* The last PluginPtr of an instance goes: ~PluginWithDlHandle calls the   *)
(* deleter and then lets go of the handle.                                 *)
DeleteInstance(t, i) ==
  /\ Free(t)
  /\ inst[i] # NoInst
  /\ inst' = [inst EXCEPT ![i] = NoInst]
  /\ UNCHANGED <<dlVars, loaderVars, call>>
  /\ DropRef(t, inst[i].loader, inst[i].handle)

(* The deleter of a handle's control block, or an explicit dlclose. *)
CloseHandle(t) ==
  /\ closing[t] # NoHandle
  /\ DlClose(closing[t])
  /\ closing' = [closing EXCEPT ![t] = NoHandle]
  /\ UNCHANGED <<loaderVars, inst, call>>

-----------------------------------------------------------------------------
(* The steps that thread t takes once it is inside a call. *)
Continue(t) ==
  \/ CloseHandle(t)
  \/ AdoptHandle(t)
  \/ \E n \in Symbols : RegisterPlugin(t, n)
  \/ FinishLoad(t)
  \/ FindLibrary(t)
  \/ \E n \in Symbols : ForgetPluginInfo(t, n)
  \/ ErasePluginHandle(t)
  \/ FinishForget(t)
  \/ \E n \in Symbols : DestroyHandle(t, n)
  \/ FinishDestroy(t)

(* The calls it may make. *)
Invoke(t) ==
  \/ \E l \in Loaders, lib \in Libs, keep \in BOOLEAN :
       LoadLib(t, l, lib, keep) \/ LoadLibError(t, l, lib, keep)
  \/ \E l \in Loaders, lib \in Libs : ForgetLibrary(t, l, lib)
  \/ \E l \in Loaders, s \in Symbols : ForgetLibraryOfPlugin(t, l, s)
  \/ \E l \in Loaders : DestroyLoader(t, l)
  \/ \E l \in Loaders, s \in Symbols, i \in Insts :
       InstantiateFromFile(t, l, s, i)
  \/ \E l \in Loaders, s \in Symbols, i \in Insts :
       InstantiateStatic(t, l, s, i)
  \/ \E i \in Insts : DeleteInstance(t, i)

Next == \E t \in Threads : Invoke(t) \/ Continue(t)

Spec == Init /\ [][Next]_vars

(* A thread that is inside a call goes on running. *)
FairSpec == Spec /\ \A t \in Threads : WF_vars(Continue(t))

-----------------------------------------------------------------------------
(* Properties                                                              *)

(* Every plugin name is provided by one library. *)
UniqueProviders ==
  \A lib1, lib2 \in Libs :
    lib1 # lib2 => Exports[lib1] \cap Exports[lib2] = {}

(* Who has an open of the library with handle h still to be closed: the    *)
(* live blocks of the Loaders, the LoadLib calls that have not yet decided *)
(* what to do with theirs, and the threads about to call dlclose.          *)
Blocks(h)  == {l \in Loaders : Live(l, h)}
Opening(h) == {t \in Threads : call[t].op = "opened" /\ call[t].handle = h}
Closing(h) == {t \in Threads : closing[t] = h}

ReferenceCount(h) ==
  Cardinality(Blocks(h)) + Cardinality(Opening(h)) + Cardinality(Closing(h))

(* The count that the dynamic linker keeps is exactly the number of those  *)
(* references, and none of them is to a library already unloaded: each     *)
(* Loader contributes one open, however many plugins and instances it has, *)
(* and each dlopen gets one dlclose (comments in Implementation::LoadLib). *)
OpenCountExact ==
  \A h \in Handles :
    /\ ReferenceCount(h) # 0 => \E lib \in Libs : handleOf[lib] = h
    /\ \A lib \in Libs : handleOf[lib] = h => opens[lib] = ReferenceCount(h)

(* Whatever the libraries provide, and even when LoadLib takes a stray     *)
(* dlerror for its own: a handle that a block, a LoadLib call or a thread  *)
(* about to call dlclose refers to is that of a library open at least as   *)
(* often as there are such references.  No dlclose comes too early, or is  *)
(* given a handle that is closed (the dlclose and the deleter in           *)
(* Implementation::LoadLib, the dlclose in Loader::ForgetLibrary).         *)
OpensCoverReferences ==
  \A h \in Handles :
    ReferenceCount(h) # 0 =>
      \E lib \in Libs : handleOf[lib] = h /\ opens[lib] >= ReferenceCount(h)

(* No library is leaked: when no thread is inside a call, a library that   *)
(* is loaded, and was never opened with RTLD_NODELETE, is one that a       *)
(* Loader still knows a plugin of or that an instance still needs          *)
(* (Loader::ForgetLibrary: "the library will automatically be unloaded").  *)
NoLeak ==
  (\A t \in Threads : Free(t)) =>
    \A lib \in Libs : Mapped(lib) /\ lib \notin noDelete =>
      \/ \E l \in Loaders, n \in Symbols :
           pluginToDlHandlePtrs[l][n] = handleOf[lib]
      \/ \E i \in Insts : inst[i] # NoInst /\ inst[i].handle = handleOf[lib]

(* pluginToDlHandlePtrs maps a known plugin to the handle of the library   *)
(* that provides it (its comment), so the destructors of the Info always   *)
(* find their library loaded.                                              *)
ProviderHandle ==
  \A l \in Loaders, n \in Symbols :
    registry[l].plugins[n] # NoInfo =>
      /\ pluginToDlHandlePtrs[l][n] # NoHandle
      /\ pluginToDlHandlePtrs[l][n] = handleOf[registry[l].plugins[n].lib]

(* Whatever the libraries provide: an entry of pluginToDlHandlePtrs has    *)
(* the handle of a loaded library that provides the plugin, also after     *)
(* another library provided it too, or was forgotten, or had that handle   *)
(* before (Loader::LoadLib, Implementation::ForgetLibrary).                *)
EntryProvides ==
  \A l \in Loaders, n \in Symbols :
    pluginToDlHandlePtrs[l][n] # NoHandle =>
      \E lib \in Libs : /\ n \in Exports[lib]
                        /\ handleOf[lib] = pluginToDlHandlePtrs[l][n]

(* The library an Info comes from is loaded as long as the Info is in the  *)
(* registry: the destructors of its function objects are that library's    *)
(* code (the development notes in Implementation and ForgetLibrary).       *)
InfoCodeMapped ==
  \A l \in Loaders, n \in Symbols :
    registry[l].plugins[n] # NoInfo => Mapped(registry[l].plugins[n].lib)

(* The library a plugin instance comes from is loaded as long as the       *)
(* instance exists, whatever its Loader has forgotten since and whether or *)
(* not the Loader still exists (PluginWithDlHandle).                       *)
InstanceCodeMapped ==
  \A i \in Insts :
    inst[i] # NoInst /\ inst[i].lib # Exe => Mapped(inst[i].lib)

(* The alias index has exactly the aliases of the Infos that are kept, so  *)
(* ForgetInfo finds every alias it withdraws (aliases.at) and withdraws    *)
(* every trace of the plugin.                                              *)
AliasIndexExact ==
  \A l \in Loaders, a \in Symbols :
    registry[l].aliases[a] =
      {n \in Symbols : /\ registry[l].plugins[n] # NoInfo
                       /\ a \in registry[l].plugins[n].aliases}

(* Whatever the libraries provide: the alias index has every alias of the  *)
(* Infos that are kept, so that their aliases are found, and the           *)
(* `aliases.at(alias)' of Registry::ForgetInfo does not throw.             *)
AliasIndexCovers ==
  \A l \in Loaders, n \in Symbols :
    registry[l].plugins[n] # NoInfo =>
      \A a \in registry[l].plugins[n].aliases : n \in registry[l].aliases[a]

(* A name that LookupPlugin resolves for plugins loaded from file has an   *)
(* Info and a handle: the assertions of PrivateGetInfoForFilePlugin and    *)
(* PrivateGetPluginDlHandlePtr ("This should not be possible!").           *)
ResolvedNameUsable ==
  \A l \in Loaders, s \in Symbols :
    LET n == LookupPlugin(registry[l], s) IN
    LoaderFree(l) /\ n # NoName =>
      /\ registry[l].plugins[n] # NoInfo
      /\ pluginToDlHandlePtrs[l][n] # NoHandle

(* When ForgetLibrary returns true the Loader has let go of the library:   *)
(* it knows no plugin of it and no entry keeps it loaded.                  *)
ForgetIsComplete ==
  [][\A t \in Threads : FinishForget(t) =>
       \A n \in Symbols :
         pluginToDlHandlePtrs'[call[t].loader][n] # call[t].handle]_vars

(* The steps that thread t has at most to take before its call returns,    *)
(* with the dlclose it may owe after each of them.                         *)
TurnsLeft(t) ==
  CASE call[t].op = "opened"   -> Cardinality(Symbols) + 2
    [] call[t].op = "register" -> Cardinality(call[t].left) + 1
    [] call[t].op = "find"     -> 2 * Cardinality(Symbols) + 2
    [] call[t].op = "forget"   -> 2 * Cardinality(call[t].left) + 1
    [] call[t].op = "erase"    -> 2 * Cardinality(call[t].left)
    [] call[t].op = "destroy"  ->
         Cardinality({n \in Symbols :
           pluginToDlHandlePtrs[call[t].loader][n] # NoHandle}) + 1
    [] OTHER                   -> 0

StepsLeft(t) == 2 * TurnsLeft(t) + (IF closing[t] = NoHandle THEN 0 ELSE 1)

(* A thread inside a call gets nearer to its return with every step it     *)
(* takes, and no step of another thread throws it back: the loops of       *)
(* LoadLib, ForgetLibrary and the destructor end, however the threads      *)
(* interleave.                                                             *)
CallsAdvance ==
  [][\A t \in Threads : ~Free(t) =>
       /\ Continue(t) => StepsLeft(t)' < StepsLeft(t)
       /\ StepsLeft(t)' <= StepsLeft(t)]_vars

(* Every call returns: the loops of LoadLib, ForgetLibrary and the         *)
(* destructor end, and no dlclose is left waiting.                         *)
CallReturns == \A t \in Threads : ~Free(t) ~> Free(t)

(* "If the name of a plugin matches the alias string, then that plugin     *)
(* will be instantiated any time the string is used to instantiate a       *)
(* plugin, no matter how many other plugins use the alias"                 *)
(* (Loader::PluginsWithAlias).                                             *)
NameBeatsAlias ==
  \A l \in Loaders, s \in Symbols :
    /\ LoaderFree(l)
    /\ s \in AllPlugins(registry[l]) \cup AllPlugins(StaticRegistry)
    => Lookup(l, s) = s

-----------------------------------------------------------------------------
(* The objects that use the code of a library, for LibraryUsage.           *)
InfoUsers     == {"info"} \X Loaders \X Symbols
InstanceUsers == {"instance"} \X Insts

UsersOf(lib) ==
  {u \in InfoUsers : /\ registry[u[2]].plugins[u[3]] # NoInfo
                     /\ registry[u[2]].plugins[u[3]].lib = lib}
    \cup {u \in InstanceUsers : /\ inst[u[2]] # NoInst
                                /\ inst[u[2]].lib = lib}

Usage == INSTANCE LibraryUsage WITH
  Users  <- InfoUsers \cup InstanceUsers,
  mapped <- {lib \in Libs : Mapped(lib)},
  users  <- [lib \in Libs |-> UsersOf(lib)]

(* The reference counts of the Loader implement LibraryUsage: no step      *)
(* unloads a library under an Info or an instance that needs it.           *)
ImplementsUsage == Usage!Spec
=============================================================================
