---------------------------- MODULE UsageProofs ----------------------------
(***************************************************************************)
(* What the reference counts are for.  Whatever the libraries provide,     *)
(* ForgetLibrary forgets all that a Loader has of a library, an entry has  *)
(* the handle of a loaded library that provides the plugin, the alias      *)
(* index covers the Infos that are kept, and no library is leaked by a     *)
(* Loader that is told of no stray dlerror; every call of a Loader comes   *)
(* nearer to its end with each of its steps.                               *)
(* Provided that no two libraries provide plugins of one name, every Info  *)
(* and every instance finds its library loaded, a name that resolves can   *)
(* be instantiated, and Loader implements LibraryUsage.                    *)
(***************************************************************************)
EXTENDS RefCountProofs

(* A call of l will still save the names of the library with handle h, or  *)
(* is destroying l.                                                        *)
Saving(l, h) ==
  \E t \in Threads :
    /\ call[t].loader = l
    /\ \/ call[t].op = "register" /\ call[t].handle = h
       \/ call[t].op = "destroy"

(* An entry has the handle of a library that provides the plugin, and      *)
(* dlHandleToPluginMap has all the names of that library, or soon will.    *)
EntryInv ==
  \A l \in Loaders, n \in Symbols :
    LET h == pluginToDlHandlePtrs[l][n] IN
    h # NoHandle =>
      \E lib \in Libs :
        /\ n \in Exports[lib]
        /\ handleOf[lib] = h
        /\ dlHandleToPluginMap[l][h] = EntryOf(Exports[lib]) \/ Saving(l, h)

(* What still has the handle that ForgetLibrary is forgetting is among the *)
(* names it has left.                                                      *)
ForgetInv ==
  \A t \in Threads, n \in Symbols :
    /\ call[t].op \in {"forget", "erase"}
    /\ pluginToDlHandlePtrs[call[t].loader][n] = call[t].handle
    => n \in call[t].left

(* A known plugin is one of its library's, and its entry has the handle of *)
(* that library.                                                           *)
ProviderInv ==
  \A l \in Loaders, n \in Symbols :
    registry[l].plugins[n] # NoInfo =>
      \E lib \in Libs :
        /\ n \in Exports[lib]
        /\ registry[l].plugins[n] = InfoOf(lib, n)
        /\ Mapped(lib)
        /\ pluginToDlHandlePtrs[l][n] = handleOf[lib]

IndexInv == \A l \in Loaders : IndexExact(registry[l])

CoverInv == \A l \in Loaders : IndexCovers(registry[l])

(* An instance that needs a library has its handle. *)
InstInv ==
  \A i \in Insts :
    inst[i] # NoInst /\ inst[i].lib # Exe =>
      /\ inst[i].loader \in Loaders
      /\ Mapped(inst[i].lib)
      /\ inst[i].handle = handleOf[inst[i].lib]

(* A thread is alone in the Loader it works on; it registers what the      *)
(* library reports, lets go of a handle after the Info, and strikes out    *)
(* the name last.                                                          *)
CallInv ==
  /\ \A t, u \in Threads :
       t # u /\ call[t].op # "idle" /\ call[u].op # "idle" =>
         call[t].loader # call[u].loader
  /\ \A t \in Threads :
       /\ call[t].op = "register" => call[t].left \subseteq Exports[call[t].lib]
       /\ call[t].op = "erase" =>
            /\ call[t].name \in call[t].left
            /\ registry[call[t].loader].plugins[call[t].name] = NoInfo
       /\ call[t].op = "destroy" =>
            \A n \in Symbols : registry[call[t].loader].plugins[n] = NoInfo

(* Only a library that must stay is loaded without being open. *)
OpenInv ==
  \A lib \in Libs : Mapped(lib) /\ lib \notin noDelete => opens[lib] > 0

(* The part of the invariant that holds whatever the libraries provide.    *)
EntriesInv ==
  /\ TypeOK /\ CountInv /\ HandleInv
  /\ CallInv /\ OpenInv /\ EntryInv /\ ForgetInv /\ CoverInv

UsageInv == EntriesInv /\ ProviderInv /\ IndexInv /\ InstInv

USE LoaderAssumption, LinkerAssumption, RegistryAssumption, InstanceAssumption

-----------------------------------------------------------------------------
(* What one step may do to the registries, the entries, the instances and  *)
(* the handles                                                             *)

(* A handle keeps denoting its library while a Loader refers to it. *)
LEMMA HandlesStay ==
  ASSUME TypeOK, CountInv, [Next]_vars
  PROVE  \A lib \in Libs :
           Mapped(lib) /\ Blocks(handleOf[lib]) # {} =>
             handleOf'[lib] = handleOf[lib]
  <1> DEFINE Goal == \A lib \in Libs :
                       Mapped(lib) /\ Blocks(handleOf[lib]) # {} =>
                         handleOf'[lib] = handleOf[lib]
  <1>1. UNCHANGED dlVars => Goal
    BY DEF dlVars
  <1>2. ASSUME NEW lib \in Libs, NEW h \in Handles, NEW keep \in BOOLEAN,
               DlOpen(lib, h, keep)
        PROVE  Goal
    BY <1>2 DEF DlOpen, TypeOK, DlTypeOK
  <1>3. ASSUME NEW t \in Threads, CloseHandle(t) PROVE Goal
    <2>1. \A lib \in Libs : Mapped(lib) => handleOf[lib] \in Handles
      BY DEF TypeOK, DlTypeOK, Mapped
    <2> QED BY <1>3, <2>1, CloseCounts
  <1> HIDE DEF Goal
  <1>4. ASSUME NEW t \in Threads, Invoke(t) PROVE Goal
    <2>1. ASSUME NEW l \in Loaders, NEW lib \in Libs, NEW keep \in BOOLEAN,
                 LoadLib(t, l, lib, keep) \/ LoadLibError(t, l, lib, keep)
          PROVE  Goal
      <3>1. PICK h \in Handles : DlOpen(lib, h, keep)
        BY <2>1, Zenon DEF LoadLib, LoadLibError
      <3> QED BY <1>2, <3>1, SMT
    <2>2. ASSUME NEW l \in Loaders, NEW lib \in Libs, ForgetLibrary(t, l, lib)
          PROVE  Goal
      <3>1. PICK h \in Handles : DlProbe(lib, h)
        BY <2>2, Zenon DEF ForgetLibrary
      <3>2. UNCHANGED handleOf
        BY <3>1 DEF DlProbe, DlOpen, TypeOK, DlTypeOK
      <3> QED BY <3>2 DEF Goal
    <2>3. ASSUME NEW l \in Loaders, NEW s \in Symbols,
                 \/ ForgetLibraryOfPlugin(t, l, s)
                 \/ \E i \in Insts : InstantiateFromFile(t, l, s, i)
                 \/ \E i \in Insts : InstantiateStatic(t, l, s, i)
          PROVE  UNCHANGED dlVars
      BY <2>3, Zenon
      DEF ForgetLibraryOfPlugin, InstantiateFromFile, InstantiateStatic
    <2>4. ASSUME NEW i \in Insts, DeleteInstance(t, i) PROVE UNCHANGED dlVars
      BY <2>4, Zenon DEF DeleteInstance
    <2>5. ASSUME NEW l \in Loaders, DestroyLoader(t, l)
          PROVE  UNCHANGED dlVars
      BY <2>5, Zenon DEF DestroyLoader
    <2> QED BY <1>1, <1>4, <2>1, <2>2, <2>3, <2>4, <2>5, SMT DEF Invoke
  <1>5. ASSUME NEW t \in Threads, Continue(t) PROVE Goal
    BY <1>1, <1>3, <1>5, Zenon
    DEF Continue, AdoptHandle, RegisterPlugin, FinishLoad, FindLibrary,
        ForgetPluginInfo, ErasePluginHandle, FinishForget, DestroyHandle,
        FinishDestroy
  <1>6. UNCHANGED vars => Goal
    BY <1>1 DEF vars
  <1> QED BY <1>4, <1>5, <1>6 DEF Next, Goal

(* The library of a known plugin has a Loader's block, and that of an      *)
(* instance.                                                               *)
LEMMA UsedLibrariesStay ==
  ASSUME UsageInv, [Next]_vars
  PROVE  /\ \A l \in Loaders, n \in Symbols, lib \in Libs :
              Mapped(lib) /\ pluginToDlHandlePtrs[l][n] = handleOf[lib] =>
                handleOf'[lib] = handleOf[lib]
         /\ \A i \in Insts :
              inst[i] # NoInst /\ inst[i].lib # Exe =>
                /\ inst[i].lib \in Libs
                /\ handleOf'[inst[i].lib] = handleOf[inst[i].lib]
  <1>1. ASSUME NEW l \in Loaders, NEW n \in Symbols, NEW lib \in Libs,
               Mapped(lib), pluginToDlHandlePtrs[l][n] = handleOf[lib]
        PROVE  handleOf'[lib] = handleOf[lib]
    <2>1. l \in Blocks(handleOf[lib])
      BY <1>1 DEF Blocks, Live, HasOwner
    <2> QED BY <1>1, <2>1, HandlesStay DEF UsageInv, EntriesInv
  <1>2. ASSUME NEW i \in Insts, inst[i] # NoInst, inst[i].lib # Exe
        PROVE  /\ inst[i].lib \in Libs
               /\ handleOf'[inst[i].lib] = handleOf[inst[i].lib]
    <2>1. inst[i].lib \in Libs
      BY <1>2 DEF UsageInv, EntriesInv, TypeOK, Instance
    <2>2. inst[i].loader \in Blocks(handleOf[inst[i].lib])
      BY <1>2 DEF Blocks, Live, HasOwner, UsageInv, EntriesInv, InstInv
    <2> QED BY <1>2, <2>1, <2>2, HandlesStay DEF UsageInv, EntriesInv, InstInv
  <1> QED BY <1>1, <1>2

(* What registering a plugin does, whoever else provides it. *)
LEMMA RegisterEffect ==
  ASSUME TypeOK, NEW t \in Threads, NEW n \in Symbols, RegisterPlugin(t, n)
  PROVE  /\ call[t].op = "register" /\ call[t] \in LoadCall
         /\ call[t].loader \in Loaders /\ call[t].lib \in Libs
         /\ call[t].handle \in Handles
         /\ registry'[call[t].loader] =
              AddInfo(registry[call[t].loader], InfoOf(call[t].lib, n))
         /\ \A m \in Symbols \ {n} :
              registry'[call[t].loader].plugins[m] =
                registry[call[t].loader].plugins[m]
         /\ \A l \in Loaders \ {call[t].loader} : registry'[l] = registry[l]
         /\ pluginToDlHandlePtrs'[call[t].loader][n] = call[t].handle
         /\ \A l \in Loaders, m \in Symbols :
              l # call[t].loader \/ m # n =>
                pluginToDlHandlePtrs'[l][m] = pluginToDlHandlePtrs[l][m]
  <1> DEFINE l == call[t].loader
             info == InfoOf(call[t].lib, n)
  <1>1. call[t] \in LoadCall /\ call[t].op = "register"
    BY CallFields DEF RegisterPlugin, At, TypeOK
  <1>2. l \in Loaders /\ call[t].lib \in Libs /\ call[t].handle \in Handles
    BY <1>1 DEF LoadCall
  <1>3. /\ registry \in [Loaders -> RegistryValue]
        /\ registry' = [registry EXCEPT ![l] = AddInfo(registry[l], info)]
        /\ pluginToDlHandlePtrs' =
             [pluginToDlHandlePtrs EXCEPT ![l][n] = call[t].handle]
        /\ pluginToDlHandlePtrs \in
             [Loaders -> [Symbols -> Handles \cup {NoHandle}]]
    BY DEF RegisterPlugin, TypeOK
  <1>4. info.name = n
    BY DEF InfoOf
  <1>5. \A m \in Symbols \ {n} :
          AddInfo(registry[l], info).plugins[m] = registry[l].plugins[m]
    BY <1>4 DEF AddInfo
  <1>6. /\ pluginToDlHandlePtrs'[l][n] = call[t].handle
        /\ \A k \in Loaders, m \in Symbols :
             k # l \/ m # n =>
               pluginToDlHandlePtrs'[k][m] = pluginToDlHandlePtrs[k][m]
    BY <1>2, <1>3
  <1> HIDE DEF info
  <1>7. /\ registry'[l] = AddInfo(registry[l], info)
        /\ \A k \in Loaders \ {l} : registry'[k] = registry[k]
    BY <1>2, <1>3
  <1> QED BY <1>1, <1>2, <1>5, <1>6, <1>7 DEF info

(* Registering a plugin under its one name keeps the index of aliases      *)
(* exact.                                                                  *)
LEMMA RegisterFacts ==
  ASSUME UsageInv, UniqueProviders, NEW t \in Threads, NEW n \in Symbols,
         RegisterPlugin(t, n)
  PROVE  /\ n \in Exports[call[t].lib]
         /\ handleOf[call[t].lib] = call[t].handle
         /\ registry[call[t].loader].plugins[n] \in
              {NoInfo, InfoOf(call[t].lib, n)}
         /\ registry'[call[t].loader].plugins[n] = InfoOf(call[t].lib, n)
         /\ IndexExact(registry'[call[t].loader])
  <1> DEFINE l == call[t].loader
             lib == call[t].lib
             info == InfoOf(lib, n)
  <1>0. TypeOK /\ HandleInv /\ CallInv /\ ProviderInv /\ IndexInv
    BY DEF UsageInv, EntriesInv
  <1>1. /\ call[t].op = "register" /\ l \in Loaders /\ lib \in Libs
        /\ registry'[l] = AddInfo(registry[l], info)
    BY <1>0, RegisterEffect
  <1>2. n \in Exports[lib] /\ handleOf[lib] = call[t].handle
    BY <1>0, <1>1 DEF RegisterPlugin, CallInv, HandleInv
  <1>3. registry[l].plugins[n] \in {NoInfo, info}
    <2>1. ASSUME registry[l].plugins[n] # NoInfo
          PROVE  registry[l].plugins[n] = info
      <3>1. PICK other \in Libs : /\ n \in Exports[other]
                                  /\ registry[l].plugins[n] = InfoOf(other, n)
        BY <1>0, <1>1, <2>1 DEF ProviderInv
      <3>2. other = lib
        BY <1>1, <1>2, <3>1 DEF UniqueProviders
      <3> QED BY <3>1, <3>2
    <2> QED BY <2>1
  <1>4. info \in Info /\ info.name = n /\ info # NoInfo
    BY <1>1 DEF InfoOf, Info
  <1>5. IndexExact(AddInfo(registry[l], info))
    <2>1. registry[l] \in RegistryValue /\ IndexExact(registry[l])
      BY <1>0, <1>1 DEF IndexInv, TypeOK
    <2> QED BY <2>1, <1>3, <1>4, AddInfoIndexExact
  <1>6. AddInfo(registry[l], info).plugins[n] =
          IF registry[l].plugins[n] = NoInfo
          THEN info ELSE registry[l].plugins[n]
    BY <1>4 DEF AddInfo
  <1> HIDE DEF info
  <1>7. registry'[l].plugins[n] = info
    BY <1>1, <1>3, <1>6
  <1> QED BY <1>1, <1>2, <1>3, <1>5, <1>7 DEF info

(* What a step does to a registry, to what is known of plugin n, and to    *)
(* the entry for n.                                                        *)
RegistryStep(l) ==
  \/ registry'[l] \in {registry[l], EmptyRegistry}
  \/ \E n \in Symbols : registry'[l] = ForgetInfo(registry[l], n)
  \/ \E t \in Threads, n \in Symbols :
       RegisterPlugin(t, n) /\ call[t].loader = l

PluginStep(l, n) ==
  \/ registry'[l].plugins[n] = NoInfo
  \/ /\ registry'[l].plugins[n] = registry[l].plugins[n]
     /\ pluginToDlHandlePtrs'[l][n] = pluginToDlHandlePtrs[l][n]
  \/ \E t \in Threads : RegisterPlugin(t, n) /\ call[t].loader = l

PtrStep(l, n) ==
  \/ pluginToDlHandlePtrs'[l][n] \in {pluginToDlHandlePtrs[l][n], NoHandle}
  \/ \E t \in Threads : RegisterPlugin(t, n) /\ call[t].loader = l

LEMMA PluginSteps ==
  ASSUME TypeOK, CallInv, [Next]_vars
  PROVE  /\ \A l \in Loaders : RegistryStep(l)
         /\ \A l \in Loaders, n \in Symbols : PluginStep(l, n) /\ PtrStep(l, n)
  <1> DEFINE Goal == /\ \A l \in Loaders : RegistryStep(l)
                     /\ \A l \in Loaders, n \in Symbols :
                          PluginStep(l, n) /\ PtrStep(l, n)
  <1>1. UNCHANGED <<registry, pluginToDlHandlePtrs>> => Goal
    BY DEF RegistryStep, PluginStep, PtrStep
  <1>2. ASSUME NEW t \in Threads, NEW n \in Symbols, RegisterPlugin(t, n)
        PROVE  Goal
    <2>1. ASSUME NEW l \in Loaders PROVE RegistryStep(l)
      BY <1>2, RegisterEffect DEF RegistryStep
    <2>2. ASSUME NEW l \in Loaders, NEW m \in Symbols
          PROVE  PluginStep(l, m) /\ PtrStep(l, m)
      <3>1. CASE l = call[t].loader /\ m = n
        BY <1>2, <3>1 DEF PluginStep, PtrStep
      <3>2. CASE l = call[t].loader /\ m # n
        BY <1>2, <3>2, RegisterEffect DEF PluginStep, PtrStep
      <3>3. CASE l # call[t].loader
        BY <1>2, <3>3, RegisterEffect DEF PluginStep, PtrStep
      <3> QED BY <3>1, <3>2, <3>3
    <2> QED BY <2>1, <2>2
  <1>3. ASSUME NEW t \in Threads, NEW n \in Symbols, ForgetPluginInfo(t, n)
        PROVE  Goal
    <2> DEFINE l == call[t].loader
               r == ForgetInfo(registry[l], n)
    <2>1. l \in Loaders
      BY <1>3, CallFields DEF ForgetPluginInfo, At, TypeOK, ForgetCall
    <2>2. /\ r.plugins[n] = NoInfo
          /\ \A m \in Symbols \ {n} : r.plugins[m] = registry[l].plugins[m]
      BY <2>1 DEF TypeOK, ForgetInfo, RegistryValue
    <2>3. /\ registry' = [registry EXCEPT ![l] = r]
          /\ UNCHANGED pluginToDlHandlePtrs
      BY <1>3 DEF ForgetPluginInfo
    <2> HIDE DEF r
    <2>4. /\ registry'[l] = r
          /\ \A k \in Loaders \ {l} : registry'[k] = registry[k]
      BY <2>1, <2>3 DEF TypeOK
    <2> QED BY <2>2, <2>3, <2>4 DEF RegistryStep, PluginStep, PtrStep, r
  <1>4. ASSUME NEW t \in Threads, ErasePluginHandle(t) PROVE Goal
    <2> DEFINE l == call[t].loader
               n == call[t].name
    <2>1. call[t] \in EraseCall /\ call[t].op = "erase"
      BY <1>4, CallFields DEF ErasePluginHandle, At, TypeOK
    <2>2. l \in Loaders /\ n \in Symbols /\ registry[l].plugins[n] = NoInfo
      BY <2>1 DEF EraseCall, CallInv
    <2>3. /\ UNCHANGED registry
          /\ pluginToDlHandlePtrs'[l][n] = NoHandle
          /\ \A k \in Loaders, m \in Symbols :
               k # l \/ m # n =>
                 pluginToDlHandlePtrs'[k][m] = pluginToDlHandlePtrs[k][m]
      BY <1>4, <2>2 DEF ErasePluginHandle, TypeOK
    <2> QED BY <2>2, <2>3 DEF RegistryStep, PluginStep, PtrStep
  <1>5. ASSUME NEW t \in Threads, NEW l \in Loaders, DestroyLoader(t, l)
        PROVE  Goal
    <2>1. /\ registry'[l] = EmptyRegistry
          /\ \A k \in Loaders \ {l} : registry'[k] = registry[k]
          /\ UNCHANGED pluginToDlHandlePtrs
      BY <1>5 DEF DestroyLoader, TypeOK
    <2>2. \A n \in Symbols : EmptyRegistry.plugins[n] = NoInfo
      BY DEF EmptyRegistry
    <2> QED BY <2>1, <2>2 DEF RegistryStep, PluginStep, PtrStep
  <1>6. ASSUME NEW t \in Threads, NEW n \in Symbols, DestroyHandle(t, n)
        PROVE  Goal
    <2> DEFINE l == call[t].loader
    <2>1. /\ l \in Loaders
          /\ \A m \in Symbols : registry[l].plugins[m] = NoInfo
      BY <1>6, CallFields
      DEF DestroyHandle, At, TypeOK, DestroyCall, CallInv
    <2>2. /\ UNCHANGED registry
          /\ pluginToDlHandlePtrs'[l][n] = NoHandle
          /\ \A k \in Loaders, m \in Symbols :
               k # l \/ m # n =>
                 pluginToDlHandlePtrs'[k][m] = pluginToDlHandlePtrs[k][m]
      BY <1>6, <2>1 DEF DestroyHandle, TypeOK
    <2> QED BY <2>1, <2>2 DEF RegistryStep, PluginStep, PtrStep
  <1> HIDE DEF Goal
  <1>7. ASSUME NEW t \in Threads, Invoke(t) PROVE Goal
    <2>1. ASSUME NEW i \in Insts, DeleteInstance(t, i)
          PROVE  UNCHANGED <<registry, pluginToDlHandlePtrs>>
      BY <2>1 DEF DeleteInstance, loaderVars
    <2>2. ASSUME NEW l \in Loaders, NEW lib \in Libs,
                 \/ \E keep \in BOOLEAN : \/ LoadLib(t, l, lib, keep)
                                          \/ LoadLibError(t, l, lib, keep)
                 \/ ForgetLibrary(t, l, lib)
          PROVE  UNCHANGED <<registry, pluginToDlHandlePtrs>>
      BY <2>2 DEF LoadLib, LoadLibError, ForgetLibrary, loaderVars
    <2>3. ASSUME NEW l \in Loaders, NEW s \in Symbols,
                 \/ ForgetLibraryOfPlugin(t, l, s)
                 \/ \E i \in Insts : InstantiateFromFile(t, l, s, i)
                 \/ \E i \in Insts : InstantiateStatic(t, l, s, i)
          PROVE  UNCHANGED <<registry, pluginToDlHandlePtrs>>
      BY <2>3 DEF ForgetLibraryOfPlugin, InstantiateFromFile,
                  InstantiateStatic, loaderVars
    <2> QED BY <1>1, <1>5, <1>7, <2>1, <2>2, <2>3 DEF Invoke
  <1>8. ASSUME NEW t \in Threads, Continue(t) PROVE Goal
    <2>1. ASSUME CloseHandle(t) \/ AdoptHandle(t) \/ FinishLoad(t)
                   \/ FindLibrary(t) \/ FinishForget(t) \/ FinishDestroy(t)
          PROVE  UNCHANGED <<registry, pluginToDlHandlePtrs>>
      BY <2>1 DEF CloseHandle, AdoptHandle, FinishLoad, FindLibrary,
                  FinishForget, FinishDestroy, loaderVars
    <2> QED BY <1>1, <1>2, <1>3, <1>4, <1>6, <1>8, <2>1 DEF Continue
  <1>9. UNCHANGED vars => Goal
    BY <1>1 DEF vars, loaderVars
  <1> QED BY <1>7, <1>8, <1>9 DEF Next, Goal

LEMMA IndexStep ==
  ASSUME UsageInv, UniqueProviders, [Next]_vars PROVE IndexInv'
  <1>0. TypeOK /\ CallInv /\ IndexInv
    BY DEF UsageInv, EntriesInv
  <1> SUFFICES ASSUME NEW l \in Loaders PROVE IndexExact(registry'[l])
    BY DEF IndexInv
  <1>1. RegistryStep(l)
    BY <1>0, PluginSteps
  <1>2. CASE registry'[l] \in {registry[l], EmptyRegistry}
    BY <1>0, <1>2, EmptyIndexExact DEF IndexInv
  <1>3. ASSUME NEW n \in Symbols, registry'[l] = ForgetInfo(registry[l], n)
        PROVE  IndexExact(registry'[l])
    BY <1>0, <1>3, ForgetInfoIndexExact DEF IndexInv, TypeOK
  <1>4. ASSUME NEW t \in Threads, NEW n \in Symbols, RegisterPlugin(t, n),
               call[t].loader = l
        PROVE  IndexExact(registry'[l])
    BY <1>4, RegisterFacts
  <1> QED BY <1>1, <1>2, <1>3, <1>4 DEF RegistryStep

(* The aliases of the kept Infos stay in the index, whoever else provides  *)
(* plugins of their names.                                                 *)
LEMMA CoverStep ==
  ASSUME TypeOK, CallInv, CoverInv, [Next]_vars PROVE CoverInv'
  <1> SUFFICES ASSUME NEW l \in Loaders PROVE IndexCovers(registry'[l])
    BY DEF CoverInv
  <1>1. RegistryStep(l)
    BY PluginSteps
  <1>2. CASE registry'[l] \in {registry[l], EmptyRegistry}
    BY <1>2, EmptyIndexCovers DEF CoverInv
  <1>3. ASSUME NEW n \in Symbols, registry'[l] = ForgetInfo(registry[l], n)
        PROVE  IndexCovers(registry'[l])
    BY <1>3, ForgetInfoCovers DEF CoverInv, TypeOK
  <1>4. ASSUME NEW t \in Threads, NEW n \in Symbols, RegisterPlugin(t, n),
               call[t].loader = l
        PROVE  IndexCovers(registry'[l])
    <2>1. /\ call[t].lib \in Libs
          /\ registry'[l] = AddInfo(registry[l], InfoOf(call[t].lib, n))
      BY <1>4, RegisterEffect
    <2>2. InfoOf(call[t].lib, n) \in Info
      BY <2>1, InfoOfType
    <2>3. registry[l] \in RegistryValue /\ IndexCovers(registry[l])
      BY DEF CoverInv, TypeOK
    <2> QED BY <2>1, <2>2, <2>3, AddInfoCovers
  <1> QED BY <1>1, <1>2, <1>3, <1>4 DEF RegistryStep

(* A known plugin keeps the handle of its library. *)
LEMMA ProviderStep ==
  ASSUME UsageInv, UniqueProviders, [Next]_vars PROVE ProviderInv'
  <1> SUFFICES ASSUME NEW l \in Loaders, NEW n \in Symbols,
                      registry'[l].plugins[n] # NoInfo
               PROVE  \E lib \in Libs :
                        /\ n \in Exports[lib]
                        /\ registry'[l].plugins[n] = InfoOf(lib, n)
                        /\ handleOf'[lib] # NoHandle
                        /\ pluginToDlHandlePtrs'[l][n] = handleOf'[lib]
    BY DEF ProviderInv, Mapped
  <1>1. PluginStep(l, n)
    BY PluginSteps DEF UsageInv, EntriesInv
  <1>2. CASE /\ registry'[l].plugins[n] = registry[l].plugins[n]
             /\ pluginToDlHandlePtrs'[l][n] = pluginToDlHandlePtrs[l][n]
    <2>1. PICK lib \in Libs :
            /\ n \in Exports[lib]
            /\ registry[l].plugins[n] = InfoOf(lib, n)
            /\ Mapped(lib)
            /\ pluginToDlHandlePtrs[l][n] = handleOf[lib]
      BY <1>2 DEF UsageInv, ProviderInv
    <2>2. handleOf'[lib] = handleOf[lib]
      BY <2>1, UsedLibrariesStay
    <2> QED BY <1>2, <2>1, <2>2 DEF Mapped
  <1>3. ASSUME NEW t \in Threads, RegisterPlugin(t, n), call[t].loader = l
        PROVE  \E lib \in Libs :
                 /\ n \in Exports[lib]
                 /\ registry'[l].plugins[n] = InfoOf(lib, n)
                 /\ handleOf'[lib] # NoHandle
                 /\ pluginToDlHandlePtrs'[l][n] = handleOf'[lib]
    <2>1. UNCHANGED handleOf
      BY <1>3 DEF RegisterPlugin, dlVars
    <2>2. /\ call[t].lib \in Libs /\ call[t].handle \in Handles
          /\ pluginToDlHandlePtrs'[l][n] = call[t].handle
      BY <1>3, RegisterEffect DEF UsageInv, EntriesInv
    <2> QED BY <1>3, <2>1, <2>2, RegisterFacts
  <1> QED BY <1>1, <1>2, <1>3 DEF PluginStep

-----------------------------------------------------------------------------
(* The calls in progress                                                   *)

(* What CallInv says of thread t alone. *)
CallOf(t) ==
  /\ call[t].op = "register" => call[t].left \subseteq Exports[call[t].lib]
  /\ call[t].op = "erase" =>
       /\ call[t].name \in call[t].left
       /\ registry[call[t].loader].plugins[call[t].name] = NoInfo
  /\ call[t].op = "destroy" =>
       \A n \in Symbols : registry[call[t].loader].plugins[n] = NoInfo

(* Thread t goes on with its call or ends it, or enters a Loader in which  *)
(* nobody is.                                                              *)
CallStep(t) ==
  /\ \A u \in Threads \ {t} : call'[u] = call[u]
  /\ \/ call'[t].op = "idle"
     \/ call[t].op # "idle" /\ call'[t].loader = call[t].loader
     \/ LoaderFree(call'[t].loader)
  /\ call'[t] = call[t] \/ CallOf(t)'

LEMMA InvokeCalls ==
  ASSUME TypeOK, NEW t \in Threads, Invoke(t) PROVE CallStep(t)
  <1> USE DEF TypeOK
  <1>1. call[t].op = "idle"
    BY DEF Invoke, LoadLib, LoadLibError, ForgetLibrary, ForgetLibraryOfPlugin,
           DestroyLoader, InstantiateFromFile, InstantiateStatic,
           DeleteInstance, Free, At
  <1>2. UNCHANGED call => CallStep(t)
    BY <1>1 DEF CallStep
  <1>3. ASSUME NEW c, call' = [call EXCEPT ![t] = c],
               c.op \in {"opened", "find"}, LoaderFree(c.loader)
        PROVE  CallStep(t)
    BY <1>3 DEF CallStep, CallOf
  <1>4. ASSUME NEW l \in Loaders, NEW lib \in Libs, NEW keep \in BOOLEAN,
               LoadLib(t, l, lib, keep) \/ LoadLibError(t, l, lib, keep)
        PROVE  CallStep(t)
    <2>1. CASE LoadLib(t, l, lib, keep)
      <3>1. PICK h \in Handles :
              call' = [call EXCEPT ![t] =
                         [Idle EXCEPT !.op = "opened", !.loader = l,
                                      !.lib = lib, !.handle = h]]
        BY <2>1 DEF LoadLib
      <3> DEFINE c == [Idle EXCEPT !.op = "opened", !.loader = l,
                                   !.lib = lib, !.handle = h]
      <3>2. c.op = "opened" /\ c.loader = l /\ LoaderFree(l)
        BY <2>1 DEF Idle, LoadLib
      <3>3. call' = [call EXCEPT ![t] = c]
        BY <3>1
      <3> HIDE DEF c
      <3> QED BY <1>3, <3>2, <3>3
    <2> QED BY <1>2, <1>4, <2>1 DEF LoadLibError
  <1>5. ASSUME NEW l \in Loaders, NEW h, LoaderFree(l),
               call' = [call EXCEPT ![t] =
                          [Idle EXCEPT !.op = "find", !.loader = l,
                                       !.handle = h]]
        PROVE  CallStep(t)
    <2> DEFINE c == [Idle EXCEPT !.op = "find", !.loader = l, !.handle = h]
    <2>1. c.op = "find" /\ c.loader = l
      BY DEF Idle
    <2>2. call' = [call EXCEPT ![t] = c]
      BY <1>5
    <2> HIDE DEF c
    <2> QED BY <1>3, <1>5, <2>1, <2>2
  <1>6. ASSUME NEW l \in Loaders, NEW lib \in Libs, ForgetLibrary(t, l, lib)
        PROVE  CallStep(t)
    <2>1. PICK h \in Handles :
            call' = [call EXCEPT ![t] =
                       [Idle EXCEPT !.op = "find", !.loader = l,
                                    !.handle = h]]
      BY <1>6 DEF ForgetLibrary
    <2> QED BY <1>5, <1>6, <2>1 DEF ForgetLibrary
  <1>7. ASSUME NEW l \in Loaders, NEW s \in Symbols,
               ForgetLibraryOfPlugin(t, l, s)
        PROVE  CallStep(t)
    BY <1>5, <1>7 DEF ForgetLibraryOfPlugin
  <1>8. ASSUME NEW l \in Loaders, DestroyLoader(t, l) PROVE CallStep(t)
    <2> DEFINE c == [Idle EXCEPT !.op = "destroy", !.loader = l]
    <2>1. c.op = "destroy" /\ c.loader = l /\ LoaderFree(l)
      BY <1>8 DEF Idle, DestroyLoader
    <2>2. call' = [call EXCEPT ![t] = c]
      BY <1>8 DEF DestroyLoader
    <2>3. \A n \in Symbols : registry'[l].plugins[n] = NoInfo
      BY <1>8 DEF DestroyLoader, EmptyRegistry
    <2> HIDE DEF c
    <2> QED BY <2>1, <2>2, <2>3 DEF CallStep, CallOf
  <1>9. ASSUME NEW l \in Loaders, NEW s \in Symbols, NEW i \in Insts,
               InstantiateFromFile(t, l, s, i) \/ InstantiateStatic(t, l, s, i)
        PROVE  UNCHANGED call
    BY <1>9 DEF InstantiateFromFile, InstantiateStatic
  <1>10. ASSUME NEW i \in Insts, DeleteInstance(t, i) PROVE UNCHANGED call
    BY <1>10 DEF DeleteInstance
  <1> QED BY <1>2, <1>4, <1>6, <1>7, <1>8, <1>9, <1>10 DEF Invoke

LEMMA ContinueCalls ==
  ASSUME TypeOK, CallInv, NEW t \in Threads, Continue(t) PROVE CallStep(t)
  <1> USE DEF TypeOK
  <1>1. CASE CloseHandle(t) \/ \E n \in Symbols : DestroyHandle(t, n)
    <2>1. UNCHANGED call
      BY <1>1 DEF CloseHandle, DestroyHandle
    <2> QED BY <2>1, CallFields DEF CallStep, LoaderFree
  <1>2. CASE FinishLoad(t) \/ FinishForget(t) \/ FinishDestroy(t)
    BY <1>2 DEF FinishLoad, FinishForget, FinishDestroy, CallStep, CallOf, Idle
  <1>3. CASE AdoptHandle(t)
    <2>1. call[t] \in LoadCall /\ call[t].op = "opened"
      BY <1>3, CallFields DEF AdoptHandle, At
    <2> DEFINE c == [call[t] EXCEPT !.op = "register",
                                    !.left = Exports[call[t].lib]]
    <2>2. /\ c.op = "register" /\ c.loader = call[t].loader
          /\ c.lib = call[t].lib /\ c.left = Exports[c.lib]
      BY <2>1 DEF LoadCall
    <2>3. call' = [call EXCEPT ![t] = c]
      BY <1>3 DEF AdoptHandle
    <2> HIDE DEF c
    <2> QED BY <2>1, <2>2, <2>3 DEF CallStep, CallOf
  <1>4. ASSUME NEW n \in Symbols, RegisterPlugin(t, n) PROVE CallStep(t)
    <2>1. call[t] \in LoadCall /\ call[t].op = "register"
      BY <1>4, CallFields DEF RegisterPlugin, At
    <2> DEFINE c == [call[t] EXCEPT !.left = call[t].left \ {n}]
    <2>2. /\ c.op = "register" /\ c.loader = call[t].loader
          /\ c.lib = call[t].lib /\ c.left \subseteq call[t].left
      BY <2>1 DEF LoadCall
    <2>3. call' = [call EXCEPT ![t] = c]
      BY <1>4 DEF RegisterPlugin
    <2>4. call[t].left \subseteq Exports[call[t].lib]
      BY <2>1 DEF CallInv
    <2> HIDE DEF c
    <2> QED BY <2>1, <2>2, <2>3, <2>4 DEF CallStep, CallOf
  <1>5. CASE FindLibrary(t)
    <2>1. call[t] \in ForgetCall /\ call[t].op = "find"
      BY <1>5, CallFields DEF FindLibrary, At
    <2> DEFINE c(left) == [call[t] EXCEPT !.op = "forget", !.left = left]
    <2>2. \A left : c(left).op = "forget" /\ c(left).loader = call[t].loader
      BY <2>1 DEF ForgetCall
    <2>3. \/ call' = [call EXCEPT ![t] = Idle]
          \/ \E left : call' = [call EXCEPT ![t] = c(left)]
      BY <1>5 DEF FindLibrary
    <2> HIDE DEF c
    <2>4. CASE call' = [call EXCEPT ![t] = Idle]
      BY <2>4 DEF CallStep, CallOf, Idle
    <2>5. ASSUME NEW left, call' = [call EXCEPT ![t] = c(left)]
          PROVE  CallStep(t)
      <3>1. /\ call'[t] = c(left)
            /\ \A u \in Threads \ {t} : call'[u] = call[u]
        BY <2>5
      <3> QED BY <2>1, <2>2, <3>1 DEF CallStep, CallOf
    <2> QED BY <2>3, <2>4, <2>5
  <1>6. ASSUME NEW n \in Symbols, ForgetPluginInfo(t, n) PROVE CallStep(t)
    <2>1. call[t] \in ForgetCall /\ call[t].op = "forget"
      BY <1>6, CallFields DEF ForgetPluginInfo, At
    <2> DEFINE c == [call[t] EXCEPT !.op = "erase", !.name = n]
               l == call[t].loader
    <2>2. /\ c.op = "erase" /\ c.loader = l /\ c.name = n /\ l \in Loaders
          /\ n \in c.left
      BY <1>6, <2>1 DEF ForgetPluginInfo, ForgetCall
    <2>3. call' = [call EXCEPT ![t] = c]
      BY <1>6 DEF ForgetPluginInfo
    <2>4. registry'[l].plugins[n] = NoInfo
      <3>1. registry'[l] = ForgetInfo(registry[l], n)
        BY <1>6, <2>2 DEF ForgetPluginInfo
      <3> QED BY <2>2, <3>1 DEF ForgetInfo, RegistryValue
    <2> HIDE DEF c
    <2> QED BY <2>1, <2>2, <2>3, <2>4 DEF CallStep, CallOf
  <1>7. CASE ErasePluginHandle(t)
    <2>1. call[t] \in EraseCall /\ call[t].op = "erase"
      BY <1>7, CallFields DEF ErasePluginHandle, At
    <2> DEFINE c == [call[t] EXCEPT !.op = "forget", !.name = NoName,
                                    !.left = call[t].left \ {call[t].name}]
    <2>2. c.op = "forget" /\ c.loader = call[t].loader
      BY <2>1 DEF EraseCall
    <2>3. call' = [call EXCEPT ![t] = c]
      BY <1>7 DEF ErasePluginHandle
    <2> HIDE DEF c
    <2> QED BY <2>1, <2>2, <2>3 DEF CallStep, CallOf
  <1> QED
    BY <1>1, <1>2, <1>3, <1>4, <1>5, <1>6, <1>7 DEF Continue, LoaderFree

LEMMA CallInvStep ==
  ASSUME TypeOK, CallInv, [Next]_vars PROVE CallInv'
  <1>0. TypeOK /\ CallInv
    OBVIOUS
  <1>1. \A l \in Loaders, n \in Symbols : PluginStep(l, n)
    BY <1>0, PluginSteps
  (* A thread that makes no step keeps what CallInv says of it. *)
  <1>2. ASSUME NEW u \in Threads, call'[u] = call[u] PROVE CallOf(u)'
    <2>1. ASSUME NEW n \in Symbols, call[u].op \in {"erase", "destroy"},
                 registry[call[u].loader].plugins[n] = NoInfo
          PROVE  registry'[call[u].loader].plugins[n] = NoInfo
      <3>1. call[u].loader \in Loaders
        BY <1>0, <2>1, CallFields DEF TypeOK
      <3>2. ASSUME NEW t \in Threads, RegisterPlugin(t, n)
            PROVE  call[t].loader # call[u].loader
        BY <1>0, <2>1, <3>2 DEF RegisterPlugin, At, CallInv
      <3> QED BY <1>1, <2>1, <3>1, <3>2 DEF PluginStep
    <2>2. call[u].op = "erase" => call[u].name \in Symbols
      BY <1>0, CallFields DEF TypeOK, EraseCall
    <2> QED BY <1>0, <1>2, <2>1, <2>2 DEF CallOf, CallInv
  <1>3. CASE UNCHANGED vars
    <2>1. UNCHANGED call
      BY <1>3 DEF vars
    <2> QED BY <1>0, <1>2, <2>1 DEF CallInv, CallOf
  <1>4. ASSUME NEW t \in Threads, CallStep(t) PROVE CallInv'
    <2>1. \A u \in Threads : CallOf(u)'
      BY <1>2, <1>4 DEF CallStep
    <2>2. \A u, v \in Threads :
            u # v /\ call'[u].op # "idle" /\ call'[v].op # "idle" =>
              call'[u].loader # call'[v].loader
      BY <1>0, <1>4 DEF CallStep, CallInv, LoaderFree
    <2> QED BY <2>1, <2>2 DEF CallInv, CallOf
  <1> QED BY <1>0, <1>3, <1>4, InvokeCalls, ContinueCalls DEF Next

-----------------------------------------------------------------------------
(* The entries, and the names that dlHandleToPluginMap has of a library    *)

(* What a step does to the names saved for handle h of Loader l. *)
SaveStep(l, h) ==
  \/ /\ dlHandleToPluginMap'[l][h] = dlHandleToPluginMap[l][h]
     /\ Saving(l, h) => Saving(l, h)'
  \/ \E t \in Threads :
       /\ FinishLoad(t) \/ FinishForget(t)
       /\ call[t].loader = l /\ call[t].handle = h
  \/ \E t \in Threads : FinishDestroy(t) /\ call[t].loader = l
  \/ \E t \in Threads : DestroyLoader(t, l)

LEMMA SaveSteps ==
  ASSUME TypeOK, CallInv, [Next]_vars
  PROVE  \A l \in Loaders, h \in Handles : SaveStep(l, h)
  <1> SUFFICES ASSUME NEW l \in Loaders, NEW h \in Handles PROVE SaveStep(l, h)
    OBVIOUS
  (* The calls that save names for l and h go on as they are. *)
  <1>1. ASSUME \A u \in Threads :
                 call[u].op \in {"register", "destroy"} =>
                   /\ call'[u].op = call[u].op
                   /\ call'[u].loader = call[u].loader
                   /\ call'[u].handle = call[u].handle,
               dlHandleToPluginMap'[l][h] = dlHandleToPluginMap[l][h]
        PROVE  SaveStep(l, h)
    BY <1>1 DEF SaveStep, Saving
  (* Only thread t acts; it saves no names, or not for l and h. *)
  <1>2. ASSUME NEW t \in Threads,
               \A u \in Threads \ {t} : call'[u] = call[u],
               \/ call[t].op \notin {"register", "destroy"}
               \/ call[t].loader # l
               \/ call[t].op = "register" /\ call[t].handle # h,
               dlHandleToPluginMap'[l][h] = dlHandleToPluginMap[l][h]
        PROVE  SaveStep(l, h)
    BY <1>2 DEF SaveStep, Saving
  <1>3. ASSUME NEW t \in Threads, Invoke(t) PROVE SaveStep(l, h)
    <2>1. CASE \E k \in Loaders : DestroyLoader(t, k)
      <3>1. PICK k \in Loaders : DestroyLoader(t, k)
        BY <2>1
      <3>2. CASE k = l
        BY <3>1, <3>2 DEF SaveStep
      <3>3. CASE k # l
        <4>1. /\ call[t].op = "idle"
              /\ \A u \in Threads \ {t} : call'[u] = call[u]
              /\ dlHandleToPluginMap'[l] = dlHandleToPluginMap[l]
          BY <3>1, <3>3 DEF DestroyLoader, Free, At, TypeOK
        <4> QED BY <4>1, <1>2
      <3> QED BY <3>2, <3>3
    <2>2. CASE ~\E k \in Loaders : DestroyLoader(t, k)
      <3>1. call[t].op = "idle" /\ UNCHANGED dlHandleToPluginMap
        BY <1>3, <2>2, Zenon
        DEF Invoke, LoadLib, LoadLibError, ForgetLibrary,
            ForgetLibraryOfPlugin, InstantiateFromFile, InstantiateStatic,
            DeleteInstance, Free, At, loaderVars
      <3>2. \A u \in Threads \ {t} : call'[u] = call[u]
        BY <1>3, InvokeCalls DEF CallStep
      <3> QED BY <3>1, <3>2, <1>2
    <2> QED BY <2>1, <2>2
  <1>4. ASSUME NEW t \in Threads, Continue(t) PROVE SaveStep(l, h)
    <2>0. \A u \in Threads \ {t} : call'[u] = call[u]
      BY <1>4, ContinueCalls DEF CallStep
    <2>1. CASE CloseHandle(t) \/ \E n \in Symbols : DestroyHandle(t, n)
      <3>1. UNCHANGED <<call, dlHandleToPluginMap>>
        BY <2>1 DEF CloseHandle, DestroyHandle, loaderVars
      <3> QED BY <3>1, <1>1
    <2>2. CASE AdoptHandle(t) \/ FindLibrary(t) \/ ErasePluginHandle(t)
                 \/ \E n \in Symbols : ForgetPluginInfo(t, n)
      <3>1. call[t].op \in {"opened", "find", "erase", "forget"}
        BY <2>2
        DEF AdoptHandle, FindLibrary, ErasePluginHandle, ForgetPluginInfo, At
      <3>2. UNCHANGED dlHandleToPluginMap
        BY <2>2 DEF AdoptHandle, FindLibrary, ErasePluginHandle,
                    ForgetPluginInfo, loaderVars
      <3> QED BY <2>0, <3>1, <3>2, <1>2
    <2>3. ASSUME NEW n \in Symbols, RegisterPlugin(t, n)
          PROVE  SaveStep(l, h)
      <3>1. call[t] \in LoadCall /\ call[t].op = "register"
        BY <2>3, RegisterEffect
      <3>2. /\ call'[t].op = call[t].op /\ call'[t].loader = call[t].loader
            /\ call'[t].handle = call[t].handle
        BY <2>3, <3>1 DEF RegisterPlugin, TypeOK, LoadCall
      <3>3. UNCHANGED dlHandleToPluginMap
        BY <2>3 DEF RegisterPlugin
      <3> QED BY <2>0, <3>2, <3>3, <1>1
    <2>4. CASE FinishLoad(t) \/ FinishForget(t)
      <3>1. CASE call[t].loader = l /\ call[t].handle = h
        BY <2>4, <3>1 DEF SaveStep
      <3>2. CASE call[t].loader # l \/ call[t].handle # h
        <4>1. dlHandleToPluginMap'[l][h] = dlHandleToPluginMap[l][h]
          <5>1. dlHandleToPluginMap \in [Loaders -> [Handles -> Entry]]
            BY DEF TypeOK
          <5>2. \E x : dlHandleToPluginMap' =
                  [dlHandleToPluginMap EXCEPT
                     ![call[t].loader][call[t].handle] = x]
            BY <2>4 DEF FinishLoad, FinishForget
          <5> QED BY <3>2, <5>1, <5>2
        <4>2. call[t].op \in {"register", "forget"}
          BY <2>4 DEF FinishLoad, FinishForget, At
        <4> QED BY <2>0, <3>2, <4>1, <4>2, <1>2
      <3> QED BY <3>1, <3>2
    <2>5. CASE FinishDestroy(t)
      <3>1. CASE call[t].loader = l
        BY <2>5, <3>1 DEF SaveStep
      <3>2. CASE call[t].loader # l
        <4>1. UNCHANGED dlHandleToPluginMap
          BY <2>5 DEF FinishDestroy, loaderVars
        <4> QED BY <2>0, <3>2, <4>1, <1>2
      <3> QED BY <3>1, <3>2
    <2> QED BY <1>4, <2>1, <2>2, <2>3, <2>4, <2>5 DEF Continue
  <1>5. CASE UNCHANGED vars
    BY <1>1, <1>5 DEF vars, loaderVars
  <1> QED BY <1>3, <1>4, <1>5 DEF Next

LEMMA EntryInvStep ==
  ASSUME TypeOK, CountInv, HandleInv, CallInv, EntryInv, ForgetInv,
         [Next]_vars
  PROVE  EntryInv'
  <1> SUFFICES ASSUME NEW l \in Loaders, NEW n \in Symbols, NEW h \in Handles,
                      pluginToDlHandlePtrs'[l][n] = h
               PROVE  \E lib \in Libs :
                        /\ n \in Exports[lib]
                        /\ handleOf'[lib] = h
                        /\ \/ dlHandleToPluginMap'[l][h] =
                                EntryOf(Exports[lib])
                           \/ Saving(l, h)'
    <2>1. TypeOK'
      BY LoaderTypeStep
    <2>2. \A l \in Loaders, n \in Symbols :
            pluginToDlHandlePtrs'[l][n] # NoHandle =>
              pluginToDlHandlePtrs'[l][n] \in Handles
      BY <2>1 DEF TypeOK
    <2> QED BY <2>2 DEF EntryInv
  <1>1. CASE pluginToDlHandlePtrs[l][n] = h
    <2>1. PICK lib \in Libs :
            /\ n \in Exports[lib]
            /\ handleOf[lib] = h
            /\ \/ dlHandleToPluginMap[l][h] = EntryOf(Exports[lib])
               \/ Saving(l, h)
      BY <1>1 DEF EntryInv
    <2>2. Mapped(lib) /\ handleOf'[lib] = h
      <3>1. l \in Blocks(h) /\ Mapped(lib)
        BY <1>1, <2>1 DEF Blocks, Live, HasOwner, Mapped
      <3> QED BY <2>1, <3>1, HandlesStay
    <2>3. \/ dlHandleToPluginMap'[l][h] = EntryOf(Exports[lib])
          \/ Saving(l, h)'
      <3>1. CASE /\ dlHandleToPluginMap'[l][h] = dlHandleToPluginMap[l][h]
                 /\ Saving(l, h) => Saving(l, h)'
        BY <2>1, <3>1
      <3>2. ASSUME NEW t \in Threads, FinishLoad(t),
                   call[t].loader = l, call[t].handle = h
            PROVE  dlHandleToPluginMap'[l][h] = EntryOf(Exports[lib])
        <4>1. call[t] \in LoadCall
          BY <3>2, CallFields DEF FinishLoad, At, TypeOK
        <4>2. call[t].lib \in Libs /\ handleOf[call[t].lib] = h
          BY <3>2, <4>1 DEF FinishLoad, At, HandleInv, LoadCall
        <4>3. call[t].lib = lib
          BY <2>1, <2>2, <4>2 DEF CountInv
        <4>4. dlHandleToPluginMap' =
                [dlHandleToPluginMap EXCEPT ![l][h] = EntryOf(Exports[lib])]
          BY <3>2, <4>3 DEF FinishLoad
        <4> QED BY <4>4 DEF TypeOK
      <3>3. ASSUME NEW t \in Threads, FinishForget(t),
                   call[t].loader = l, call[t].handle = h
            PROVE  FALSE
        BY <1>1, <3>3 DEF FinishForget, At, ForgetInv
      <3>4. ASSUME NEW t \in Threads, FinishDestroy(t), call[t].loader = l
            PROVE  FALSE
        BY <1>1, <3>4 DEF FinishDestroy
      <3>5. ASSUME NEW t \in Threads, DestroyLoader(t, l)
            PROVE  Saving(l, h)'
        <4>1. call'[t].op = "destroy" /\ call'[t].loader = l
          BY <3>5 DEF DestroyLoader, TypeOK, Idle
        <4> QED BY <4>1 DEF Saving
      <3>6. SaveStep(l, h)
        BY SaveSteps
      <3> QED BY <3>1, <3>2, <3>3, <3>4, <3>5, <3>6 DEF SaveStep
    <2> QED BY <2>1, <2>2, <2>3
  <1>2. ASSUME NEW t \in Threads, RegisterPlugin(t, n), call[t].loader = l
        PROVE  \E lib \in Libs :
                 /\ n \in Exports[lib]
                 /\ handleOf'[lib] = h
                 /\ Saving(l, h)'
    <2>1. /\ call[t] \in LoadCall /\ call[t].op = "register"
          /\ call[t].lib \in Libs /\ call[t].handle = h
      BY <1>2, RegisterEffect
    <2>2. n \in Exports[call[t].lib] /\ handleOf[call[t].lib] = h
      BY <1>2, <2>1 DEF RegisterPlugin, CallInv, HandleInv
    <2>3. UNCHANGED handleOf
      BY <1>2 DEF RegisterPlugin, dlVars
    <2>4. /\ call'[t].op = "register" /\ call'[t].loader = l
          /\ call'[t].handle = h
      BY <1>2, <2>1 DEF RegisterPlugin, TypeOK, LoadCall
    <2>5. Saving(l, h)'
      BY <2>4 DEF Saving
    <2> QED BY <2>1, <2>2, <2>3, <2>5
  <1>3. PtrStep(l, n)
    BY PluginSteps
  <1> QED BY <1>1, <1>2, <1>3 DEF PtrStep

(* What a step does to a call that is forgetting a library, after it. *)
ForgetStep(t) ==
  \/ call'[t].op \notin {"forget", "erase"}
  \/ call'[t] = call[t]
  \/ FindLibrary(t) \/ ErasePluginHandle(t)
  \/ \E n \in Symbols : ForgetPluginInfo(t, n)

LEMMA ForgetSteps ==
  ASSUME TypeOK, CallInv, [Next]_vars
  PROVE  \A t \in Threads : ForgetStep(t)
  <1>1. UNCHANGED call => \A t \in Threads : ForgetStep(t)
    BY DEF ForgetStep
  <1>2. ASSUME NEW t \in Threads, \A u \in Threads \ {t} : call'[u] = call[u],
               ForgetStep(t)
        PROVE  \A u \in Threads : ForgetStep(u)
    BY <1>2 DEF ForgetStep
  <1>3. ASSUME NEW t \in Threads, Invoke(t)
        PROVE  \A u \in Threads : ForgetStep(u)
    <2>1. \A u \in Threads \ {t} : call'[u] = call[u]
      BY <1>3, InvokeCalls DEF CallStep
    <2>2. call'[t].op \notin {"forget", "erase"} \/ UNCHANGED call
      <3>1. ASSUME NEW l \in Loaders, NEW lib \in Libs, NEW keep \in BOOLEAN,
                   LoadLib(t, l, lib, keep)
            PROVE  call'[t].op = "opened"
        BY <3>1 DEF LoadLib, TypeOK, Idle
      <3>2. ASSUME NEW l \in Loaders, NEW lib \in Libs,
                   ForgetLibrary(t, l, lib)
            PROVE  call'[t].op = "find"
        BY <3>2 DEF ForgetLibrary, TypeOK, Idle
      <3>3. ASSUME NEW l \in Loaders, NEW s \in Symbols,
                   ForgetLibraryOfPlugin(t, l, s)
            PROVE  call'[t].op = "find"
        BY <3>3 DEF ForgetLibraryOfPlugin, TypeOK, Idle
      <3>4. ASSUME NEW l \in Loaders, DestroyLoader(t, l)
            PROVE  call'[t].op = "destroy"
        BY <3>4 DEF DestroyLoader, TypeOK, Idle
      <3>5. ASSUME \/ \E l \in Loaders, lib \in Libs, keep \in BOOLEAN :
                        LoadLibError(t, l, lib, keep)
                   \/ \E l \in Loaders, s \in Symbols, i \in Insts :
                        \/ InstantiateFromFile(t, l, s, i)
                        \/ InstantiateStatic(t, l, s, i)
                   \/ \E i \in Insts : DeleteInstance(t, i)
            PROVE  UNCHANGED call
        BY <3>5, Zenon
        DEF LoadLibError, InstantiateFromFile, InstantiateStatic,
            DeleteInstance
      <3> QED BY <1>3, <3>1, <3>2, <3>3, <3>4, <3>5 DEF Invoke
    <2> QED BY <1>1, <1>2, <2>1, <2>2 DEF ForgetStep
  <1>4. ASSUME NEW t \in Threads, Continue(t)
        PROVE  \A u \in Threads : ForgetStep(u)
    <2>1. \A u \in Threads \ {t} : call'[u] = call[u]
      BY <1>4, ContinueCalls DEF CallStep
    <2>2. ASSUME CloseHandle(t) \/ \E n \in Symbols : DestroyHandle(t, n)
          PROVE  UNCHANGED call
      BY <2>2 DEF CloseHandle, DestroyHandle
    <2>3. ASSUME FinishLoad(t) \/ FinishForget(t) \/ FinishDestroy(t)
          PROVE  call'[t].op = "idle"
      BY <2>3 DEF FinishLoad, FinishForget, FinishDestroy, TypeOK, Idle
    <2>4. ASSUME AdoptHandle(t) PROVE call'[t].op = "register"
      <3>1. call[t] \in LoadCall
        BY <2>4, CallFields DEF AdoptHandle, At, TypeOK
      <3> QED BY <2>4, <3>1 DEF AdoptHandle, TypeOK, LoadCall
    <2>5. ASSUME NEW n \in Symbols, RegisterPlugin(t, n)
          PROVE  call'[t].op = "register"
      <3>1. call[t] \in LoadCall /\ call[t].op = "register"
        BY <2>5, RegisterEffect
      <3> QED BY <2>5, <3>1 DEF RegisterPlugin, TypeOK, LoadCall
    <2> QED BY <1>1, <1>2, <1>4, <2>1, <2>2, <2>3, <2>4, <2>5
            DEF Continue, ForgetStep
  <1>5. CASE UNCHANGED vars
    BY <1>1, <1>5 DEF vars
  <1> QED BY <1>3, <1>4, <1>5 DEF Next

LEMMA ForgetInvStep ==
  ASSUME TypeOK, CallInv, EntryInv, ForgetInv, [Next]_vars
  PROVE  ForgetInv'
  <1> SUFFICES ASSUME NEW t \in Threads, NEW n \in Symbols,
                      call'[t].op \in {"forget", "erase"},
                      pluginToDlHandlePtrs'[call'[t].loader][n] =
                        call'[t].handle
               PROVE  n \in call'[t].left
    BY DEF ForgetInv
  <1>1. CASE call'[t] = call[t]
    <2>1. call[t].loader \in Loaders /\ call[t].handle # NoHandle
      BY <1>1, CallFields DEF TypeOK, ForgetCall, EraseCall
    <2>2. ASSUME NEW u \in Threads, RegisterPlugin(u, n),
                 call[u].loader = call[t].loader
          PROVE  FALSE
      BY <1>1, <2>2 DEF RegisterPlugin, At, CallInv
    <2>3. PtrStep(call[t].loader, n)
      BY <2>1, PluginSteps
    <2>4. pluginToDlHandlePtrs[call[t].loader][n] = call[t].handle
      BY <1>1, <2>1, <2>2, <2>3 DEF PtrStep
    <2> QED BY <1>1, <2>4 DEF ForgetInv
  <1>2. CASE FindLibrary(t)
    <2>1. call[t] \in ForgetCall /\ call[t].op = "find"
      BY <1>2, CallFields DEF FindLibrary, At, TypeOK
    <2>2. PICK l \in Loaders, h \in Handles :
            l = call[t].loader /\ h = call[t].handle
      BY <2>1 DEF ForgetCall
    <2> DEFINE entry == dlHandleToPluginMap[l][h]
    <2>3. /\ UNCHANGED pluginToDlHandlePtrs
          /\ call'[t] = [call[t] EXCEPT !.op = "forget",
                                        !.left = entry.names]
      BY <1>2, <2>2 DEF FindLibrary, TypeOK, Idle, loaderVars
    <2>4. /\ call'[t].left = entry.names /\ call'[t].loader = l
          /\ call'[t].handle = h
      BY <2>1, <2>2, <2>3 DEF ForgetCall
    <2>5. PICK lib \in Libs : /\ n \in Exports[lib]
                              /\ entry = EntryOf(Exports[lib]) \/ Saving(l, h)
      BY <2>3, <2>4 DEF EntryInv
    <2>6. ~Saving(l, h)
      BY <2>1, <2>2 DEF Saving, CallInv
    <2> QED BY <2>4, <2>5, <2>6 DEF EntryOf
  <1>3. ASSUME NEW m \in Symbols, ForgetPluginInfo(t, m)
        PROVE  n \in call'[t].left
    <2>1. call[t] \in ForgetCall /\ call[t].op = "forget"
      BY <1>3, CallFields DEF ForgetPluginInfo, At, TypeOK
    <2>2. /\ call'[t].left = call[t].left /\ call'[t].loader = call[t].loader
          /\ call'[t].handle = call[t].handle
          /\ UNCHANGED pluginToDlHandlePtrs
      BY <1>3, <2>1 DEF ForgetPluginInfo, TypeOK, ForgetCall
    <2> QED BY <2>1, <2>2 DEF ForgetInv
  <1>4. CASE ErasePluginHandle(t)
    <2>1. call[t] \in EraseCall /\ call[t].op = "erase"
      BY <1>4, CallFields DEF ErasePluginHandle, At, TypeOK
    <2>2. /\ call'[t].left = call[t].left \ {call[t].name}
          /\ call'[t].loader = call[t].loader
          /\ call'[t].handle = call[t].handle
      BY <1>4, <2>1 DEF ErasePluginHandle, TypeOK, EraseCall
    <2>3. /\ call[t].loader \in Loaders /\ call[t].name \in Symbols
          /\ call[t].handle # NoHandle
      BY <2>1 DEF EraseCall
    <2>4. pluginToDlHandlePtrs'[call[t].loader][n] =
            IF n = call[t].name THEN NoHandle
            ELSE pluginToDlHandlePtrs[call[t].loader][n]
      BY <1>4, <2>3 DEF ErasePluginHandle, TypeOK
    <2>5. /\ n # call[t].name
          /\ pluginToDlHandlePtrs[call[t].loader][n] = call[t].handle
      BY <2>2, <2>3, <2>4
    <2> QED BY <2>1, <2>2, <2>5 DEF ForgetInv
  <1>5. ForgetStep(t)
    BY ForgetSteps
  <1> QED BY <1>1, <1>2, <1>3, <1>4, <1>5 DEF ForgetStep

-----------------------------------------------------------------------------
(* The instances *)

(* An instance comes from a known plugin, with the plugin's handle. *)
LEMMA InstSteps ==
  ASSUME TypeOK, [Next]_vars
  PROVE  \A i \in Insts :
           \/ inst'[i] \in {inst[i], NoInst}
           \/ inst'[i].lib = Exe
           \/ \E l \in Loaders, n \in Symbols :
                /\ registry[l].plugins[n] # NoInfo
                /\ inst'[i] = [lib |-> registry[l].plugins[n].lib,
                               loader |-> l,
                               handle |-> pluginToDlHandlePtrs[l][n]]
  <1> DEFINE Goal ==
        \A i \in Insts :
          \/ inst'[i] \in {inst[i], NoInst}
          \/ inst'[i].lib = Exe
          \/ \E l \in Loaders, n \in Symbols :
               /\ registry[l].plugins[n] # NoInfo
               /\ inst'[i] = [lib |-> registry[l].plugins[n].lib,
                              loader |-> l,
                              handle |-> pluginToDlHandlePtrs[l][n]]
  <1>1. UNCHANGED inst => Goal
    OBVIOUS
  <1>2. ASSUME NEW t \in Threads, NEW l \in Loaders, NEW s \in Symbols,
               NEW j \in Insts, InstantiateFromFile(t, l, s, j)
        PROVE  Goal
    <2> DEFINE n == LookupPlugin(registry[l], s)
               x == [lib |-> registry[l].plugins[n].lib, loader |-> l,
                     handle |-> pluginToDlHandlePtrs[l][n]]
    <2>1. n \in Symbols /\ registry[l].plugins[n] # NoInfo
      BY <1>2, LookupType DEF InstantiateFromFile
    <2>2. inst' = [inst EXCEPT ![j] = x]
      BY <1>2 DEF InstantiateFromFile
    <2>3. \E k \in Loaders, m \in Symbols :
            /\ registry[k].plugins[m] # NoInfo
            /\ x = [lib |-> registry[k].plugins[m].lib, loader |-> k,
                    handle |-> pluginToDlHandlePtrs[k][m]]
      BY <2>1
    <2> HIDE DEF x, n
    <2>4. \A i \in Insts : inst'[i] \in {inst[i], x}
      BY <2>2 DEF TypeOK
    <2> QED BY <2>3, <2>4
  <1>3. ASSUME NEW t \in Threads, NEW l \in Loaders, NEW s \in Symbols,
               NEW j \in Insts, InstantiateStatic(t, l, s, j)
        PROVE  Goal
    BY <1>3 DEF InstantiateStatic, TypeOK
  <1>4. ASSUME NEW t \in Threads, NEW j \in Insts, DeleteInstance(t, j)
        PROVE  Goal
    BY <1>4 DEF DeleteInstance, TypeOK
  <1> HIDE DEF Goal
  <1>5. ASSUME NEW t \in Threads, Invoke(t) PROVE Goal
    <2>1. ASSUME NEW l \in Loaders, NEW lib \in Libs,
                 \/ \E keep \in BOOLEAN : \/ LoadLib(t, l, lib, keep)
                                          \/ LoadLibError(t, l, lib, keep)
                 \/ ForgetLibrary(t, l, lib)
          PROVE  UNCHANGED inst
      BY <2>1 DEF LoadLib, LoadLibError, ForgetLibrary
    <2>2. ASSUME NEW l \in Loaders,
                 \/ \E s \in Symbols : ForgetLibraryOfPlugin(t, l, s)
                 \/ DestroyLoader(t, l)
          PROVE  UNCHANGED inst
      BY <2>2 DEF ForgetLibraryOfPlugin, DestroyLoader
    <2> QED BY <1>1, <1>2, <1>3, <1>4, <1>5, <2>1, <2>2 DEF Invoke
  <1>6. ASSUME NEW t \in Threads, Continue(t) PROVE UNCHANGED inst
    BY <1>6 DEF Continue, CloseHandle, AdoptHandle, RegisterPlugin, FinishLoad,
                FindLibrary, ForgetPluginInfo, ErasePluginHandle, FinishForget,
                DestroyHandle, FinishDestroy
  <1>7. UNCHANGED vars => UNCHANGED inst
    BY DEF vars
  <1> QED BY <1>1, <1>5, <1>6, <1>7 DEF Next, Goal

LEMMA InstInvStep ==
  ASSUME UsageInv, [Next]_vars PROVE InstInv'
  <1> SUFFICES ASSUME NEW i \in Insts, inst'[i] # NoInst, inst'[i].lib # Exe
               PROVE  /\ inst'[i].loader \in Loaders
                      /\ handleOf'[inst'[i].lib] # NoHandle
                      /\ inst'[i].handle = handleOf'[inst'[i].lib]
    BY DEF InstInv, Mapped
  <1>1. CASE inst'[i] = inst[i]
    <2>1. handleOf'[inst[i].lib] = handleOf[inst[i].lib]
      BY <1>1, UsedLibrariesStay
    <2> QED BY <1>1, <2>1 DEF UsageInv, InstInv, Mapped
  <1>2. ASSUME NEW l \in Loaders, NEW n \in Symbols,
               registry[l].plugins[n] # NoInfo,
               inst'[i] = [lib |-> registry[l].plugins[n].lib, loader |-> l,
                           handle |-> pluginToDlHandlePtrs[l][n]]
        PROVE  /\ inst'[i].loader \in Loaders
               /\ handleOf'[inst'[i].lib] # NoHandle
               /\ inst'[i].handle = handleOf'[inst'[i].lib]
    <2>1. PICK lib \in Libs : /\ registry[l].plugins[n] = InfoOf(lib, n)
                              /\ Mapped(lib)
                              /\ pluginToDlHandlePtrs[l][n] = handleOf[lib]
      BY <1>2 DEF UsageInv, ProviderInv
    <2>2. handleOf'[lib] = handleOf[lib]
      BY <2>1, UsedLibrariesStay
    <2>3. registry[l].plugins[n].lib = lib
      BY <2>1 DEF InfoOf
    <2> QED BY <1>2, <2>1, <2>2, <2>3 DEF Mapped
  <1>3. \/ inst'[i] = inst[i]
        \/ \E l \in Loaders, n \in Symbols :
             /\ registry[l].plugins[n] # NoInfo
             /\ inst'[i] = [lib |-> registry[l].plugins[n].lib, loader |-> l,
                            handle |-> pluginToDlHandlePtrs[l][n]]
    <2>1. TypeOK
      BY DEF UsageInv, EntriesInv
    <2> QED BY <2>1, InstSteps
  <1> QED BY <1>1, <1>2, <1>3

LEMMA OpenInvStep ==
  ASSUME TypeOK, OpenInv, [Next]_vars PROVE OpenInv'
  <1>0. TypeOK /\ OpenInv
    OBVIOUS
  <1>1. UNCHANGED dlVars => OpenInv'
    BY <1>0 DEF dlVars, OpenInv, Mapped
  <1>2. ASSUME NEW lib \in Libs, NEW h \in Handles, NEW keep \in BOOLEAN,
               DlOpen(lib, h, keep)
        PROVE  OpenInv'
    <2>1. /\ opens \in [Libs -> Nat]
          /\ opens' = [opens EXCEPT ![lib] = opens[lib] + 1]
          /\ handleOf \in [Libs -> Handles \cup {NoHandle}]
          /\ handleOf' = [handleOf EXCEPT ![lib] = h]
          /\ noDelete \subseteq noDelete'
      BY <1>0, <1>2 DEF DlOpen, TypeOK, DlTypeOK
    <2> QED BY <1>0, <2>1 DEF OpenInv, Mapped
  <1>3. ASSUME NEW h, DlClose(h) PROVE OpenInv'
    <2>1. PICK lib \in Libs :
            /\ opens' = [opens EXCEPT ![lib] = opens[lib] - 1]
            /\ handleOf' = IF opens[lib] = 1 /\ lib \notin noDelete
                           THEN [handleOf EXCEPT ![lib] = NoHandle]
                           ELSE handleOf
            /\ opens[lib] > 0 /\ noDelete' = noDelete
      BY <1>3 DEF DlClose
    <2>2. /\ opens \in [Libs -> Nat]
          /\ handleOf \in [Libs -> Handles \cup {NoHandle}]
      BY <1>0 DEF TypeOK, DlTypeOK
    <2> QED BY <1>0, <2>1, <2>2 DEF OpenInv, Mapped
  <1>4. ASSUME NEW t \in Threads, Invoke(t) PROVE OpenInv'
    <2>1. ASSUME NEW l \in Loaders, NEW lib \in Libs, NEW keep \in BOOLEAN,
                 LoadLib(t, l, lib, keep) \/ LoadLibError(t, l, lib, keep)
          PROVE  OpenInv'
      <3>1. PICK h \in Handles : DlOpen(lib, h, keep)
        BY <2>1, Zenon DEF LoadLib, LoadLibError
      <3> QED BY <1>2, <3>1, SMT
    <2>2. ASSUME NEW l \in Loaders, NEW lib \in Libs, ForgetLibrary(t, l, lib)
          PROVE  OpenInv'
      BY <1>2, <2>2 DEF ForgetLibrary, DlProbe
    <2>3. ASSUME NEW l \in Loaders, NEW s \in Symbols,
                 \/ ForgetLibraryOfPlugin(t, l, s)
                 \/ \E i \in Insts : InstantiateFromFile(t, l, s, i)
                 \/ \E i \in Insts : InstantiateStatic(t, l, s, i)
          PROVE  UNCHANGED dlVars
      BY <2>3
      DEF ForgetLibraryOfPlugin, InstantiateFromFile, InstantiateStatic
    <2>4. ASSUME NEW i \in Insts, DeleteInstance(t, i) PROVE UNCHANGED dlVars
      BY <2>4 DEF DeleteInstance
    <2>5. ASSUME NEW l \in Loaders, DestroyLoader(t, l)
          PROVE  UNCHANGED dlVars
      BY <2>5 DEF DestroyLoader
    <2> QED BY <1>1, <1>4, <2>1, <2>2, <2>3, <2>4, <2>5, SMT DEF Invoke
  <1>5. ASSUME NEW t \in Threads, Continue(t) PROVE OpenInv'
    <2>1. CASE CloseHandle(t)
      BY <1>3, <2>1 DEF CloseHandle
    <2>2. CASE ~CloseHandle(t)
      BY <1>1, <1>5, <2>2, Zenon
      DEF Continue, AdoptHandle, RegisterPlugin, FinishLoad, FindLibrary,
          ForgetPluginInfo, ErasePluginHandle, FinishForget, DestroyHandle,
          FinishDestroy
    <2> QED BY <2>1, <2>2
  <1>6. UNCHANGED vars => OpenInv'
    BY <1>1 DEF vars
  <1> QED BY <1>4, <1>5, <1>6 DEF Next

-----------------------------------------------------------------------------
(* The inductive invariant *)

LEMMA EntriesInit == Init => EntriesInv
  <1> SUFFICES ASSUME Init PROVE EntriesInv
    OBVIOUS
  <1>1. TypeOK /\ CountInv /\ HandleInv
    BY LoaderTypeInit, CountInit
  <1>2. \A l \in Loaders, n \in Symbols :
          /\ registry[l].plugins[n] = NoInfo
          /\ pluginToDlHandlePtrs[l][n] = NoHandle
    BY DEF Init, EmptyRegistry
  <1>3. CallInv /\ EntryInv /\ ForgetInv
    BY <1>2 DEF Init, CallInv, EntryInv, ForgetInv, Idle
  <1>4. OpenInv
    BY DEF Init, DlInit, OpenInv, Mapped
  <1>5. CoverInv
    BY EmptyIndexCovers DEF Init, CoverInv
  <1> QED BY <1>1, <1>3, <1>4, <1>5 DEF EntriesInv

LEMMA EntriesStep ==
  ASSUME EntriesInv, [Next]_vars PROVE EntriesInv'
  <1>0. /\ TypeOK /\ CountInv /\ HandleInv
        /\ CallInv /\ OpenInv /\ EntryInv /\ ForgetInv /\ CoverInv
    BY DEF EntriesInv
  <1>1. TypeOK' /\ CountInv' /\ HandleInv'
    BY <1>0, LoaderTypeStep, CountStep
  <1>2. CallInv' /\ OpenInv'
    BY <1>0, CallInvStep, OpenInvStep
  <1>3. EntryInv' /\ ForgetInv'
    BY <1>0, EntryInvStep, ForgetInvStep
  <1>4. CoverInv'
    BY <1>0, CoverStep
  <1> QED BY <1>1, <1>2, <1>3, <1>4 DEF EntriesInv

LEMMA EntriesInvariant == Spec => []EntriesInv
  <1>1. EntriesInv /\ [Next]_vars => EntriesInv'
    BY EntriesStep
  <1> QED BY <1>1, EntriesInit, PTL DEF Spec

LEMMA UsageInit == Init => UsageInv
  <1> SUFFICES ASSUME Init PROVE UsageInv
    OBVIOUS
  <1>1. EntriesInv
    BY EntriesInit
  <1>2. \A l \in Loaders : registry[l] = EmptyRegistry
    BY DEF Init
  <1>3. \A l \in Loaders, n \in Symbols : registry[l].plugins[n] = NoInfo
    BY <1>2 DEF EmptyRegistry
  <1>4. ProviderInv /\ IndexInv
    BY <1>2, <1>3, EmptyIndexExact DEF ProviderInv, IndexInv
  <1>5. InstInv
    BY DEF Init, InstInv
  <1> QED BY <1>1, <1>4, <1>5 DEF UsageInv

LEMMA UsageStep ==
  ASSUME UsageInv, UniqueProviders, [Next]_vars
  PROVE  UsageInv'
  <1>1. EntriesInv'
    BY EntriesStep DEF UsageInv
  <1> QED BY <1>1, ProviderStep, IndexStep, InstInvStep DEF UsageInv

LEMMA UsageInvariant ==
  ASSUME UniqueProviders PROVE Spec => []UsageInv
  <1>1. Init => UsageInv
    BY UsageInit
  <1>2. UsageInv /\ [Next]_vars => UsageInv'
    BY UsageStep
  <1> QED BY <1>1, <1>2, PTL DEF Spec

-----------------------------------------------------------------------------
(* The properties of the Loader *)

(* The entry of a known plugin has the handle of the library that provides *)
(* it (RegisterPlugin, ForgetPluginInfo, ErasePluginHandle and the order   *)
(* in which ~Loader destroys its members), provided that names are unique. *)
THEOREM LoaderProviderHandle ==
  ASSUME UniqueProviders PROVE Spec => []ProviderHandle
  <1>1. ASSUME UsageInv, NEW l \in Loaders, NEW n \in Symbols,
               registry[l].plugins[n] # NoInfo
        PROVE  /\ pluginToDlHandlePtrs[l][n] # NoHandle
               /\ pluginToDlHandlePtrs[l][n] =
                    handleOf[registry[l].plugins[n].lib]
    <2>1. PICK lib \in Libs : /\ registry[l].plugins[n] = InfoOf(lib, n)
                              /\ Mapped(lib)
                              /\ pluginToDlHandlePtrs[l][n] = handleOf[lib]
      BY <1>1 DEF UsageInv, ProviderInv
    <2>2. registry[l].plugins[n].lib = lib
      BY <2>1 DEF InfoOf
    <2> QED BY <2>1, <2>2 DEF Mapped
  <1>2. UsageInv => ProviderHandle
    BY <1>1 DEF ProviderHandle
  <1> QED BY <1>2, UsageInvariant, PTL

(* Whatever the libraries provide: an entry of pluginToDlHandlePtrs has    *)
(* the handle of a loaded library that provides the plugin                 *)
(* (Loader::LoadLib, Implementation::ForgetLibrary).                       *)
THEOREM LoaderEntryProvides == Spec => []EntryProvides
  <1>1. EntriesInv => EntryProvides
    BY DEF EntriesInv, EntryInv, EntryProvides
  <1> QED BY <1>1, EntriesInvariant, PTL

(* Whatever the libraries provide: the alias index has every alias of the  *)
(* Infos that are kept, so `aliases.at(alias)' does not throw              *)
(* (Registry::AddInfo, Registry::ForgetInfo).                              *)
THEOREM LoaderAliasIndexCovers == Spec => []AliasIndexCovers
  <1>1. EntriesInv => AliasIndexCovers
    BY DEF EntriesInv, CoverInv, IndexCovers, AliasIndexCovers
  <1> QED BY <1>1, EntriesInvariant, PTL

(* The library an Info comes from is loaded as long as the Info is in a    *)
(* Loader's registry, so the destructors of its function objects have      *)
(* their code (RegisterPlugin, ForgetLibrary and the order of its two      *)
(* erase calls), provided that names are unique.                           *)
THEOREM LoaderInfoCodeMapped ==
  ASSUME UniqueProviders PROVE Spec => []InfoCodeMapped
  <1>1. ASSUME UsageInv, NEW l \in Loaders, NEW n \in Symbols,
               registry[l].plugins[n] # NoInfo
        PROVE  Mapped(registry[l].plugins[n].lib)
    <2>1. PICK lib \in Libs : /\ registry[l].plugins[n] = InfoOf(lib, n)
                              /\ Mapped(lib)
      BY <1>1 DEF UsageInv, ProviderInv
    <2>2. registry[l].plugins[n].lib = lib
      BY <2>1 DEF InfoOf
    <2> QED BY <2>1, <2>2
  <1>2. UsageInv => InfoCodeMapped
    BY <1>1 DEF InfoCodeMapped
  <1> QED BY <1>2, UsageInvariant, PTL

(* The library of a plugin instance is loaded as long as the instance      *)
(* exists (Instantiate, PluginWithDlHandle, Implementation::LoadLib),      *)
(* whatever the Loader has forgotten, and even if it is gone.              *)
THEOREM LoaderInstanceCodeMapped ==
  ASSUME UniqueProviders PROVE Spec => []InstanceCodeMapped
  <1>1. UsageInv => InstanceCodeMapped
    BY DEF UsageInv, InstInv, InstanceCodeMapped
  <1> QED BY <1>1, UsageInvariant, PTL

(* The index of aliases agrees with the Infos that are kept                *)
(* (Registry::AddInfo, Registry::ForgetInfo).                              *)
THEOREM LoaderAliasIndexExact ==
  ASSUME UniqueProviders PROVE Spec => []AliasIndexExact
  <1>1. UsageInv => AliasIndexExact
    BY DEF UsageInv, IndexInv, IndexExact, AliasIndexExact
  <1> QED BY <1>1, UsageInvariant, PTL

(* A name or alias that LookupPlugin resolves has an Info and a handle:    *)
(* the assertions of PrivateGetInfoForFilePlugin and                       *)
(* PrivateGetPluginDlHandlePtr cannot fail.                                *)
THEOREM LoaderResolvedNameUsable ==
  ASSUME UniqueProviders PROVE Spec => []ResolvedNameUsable
  <1>1. ASSUME UsageInv, NEW l \in Loaders, NEW s \in Symbols,
               LookupPlugin(registry[l], s) # NoName
        PROVE  LET n == LookupPlugin(registry[l], s) IN
               /\ registry[l].plugins[n] # NoInfo
               /\ pluginToDlHandlePtrs[l][n] # NoHandle
    <2> DEFINE n == LookupPlugin(registry[l], s)
    <2>1. registry[l] \in RegistryValue /\ IndexExact(registry[l])
      BY <1>1 DEF UsageInv, EntriesInv, TypeOK, IndexInv
    <2>2. n \in Symbols
      BY <1>1, <2>1, LookupResult
    <2>3. registry[l].plugins[n] # NoInfo
      BY <1>1, <2>1, LookupFindsInfo
    <2> HIDE DEF n
    <2>4. pluginToDlHandlePtrs[l][n] # NoHandle
      BY <1>1, <2>2, <2>3 DEF UsageInv, ProviderInv, Mapped
    <2> QED BY <2>3, <2>4 DEF n
  <1>2. UsageInv => ResolvedNameUsable
    BY <1>1 DEF ResolvedNameUsable
  <1> QED BY <1>2, UsageInvariant, PTL

(* No library is leaked: between the calls of the Loaders a loaded library *)
(* is one that an entry or an instance still needs (LoadLib undoes its     *)
(* surplus dlopen, the deleter of the handle calls dlclose), provided that *)
(* no library's initialisers leave a dlerror that LoadLib takes for its    *)
(* own.                                                                    *)
THEOREM LoaderNoLeak ==
  ASSUME Noisy = {} PROVE Spec => []NoLeak
  <1>1. ASSUME EntriesInv, \A t \in Threads : Free(t),
               NEW lib \in Libs, Mapped(lib), lib \notin noDelete
        PROVE  \/ \E l \in Loaders, n \in Symbols :
                    pluginToDlHandlePtrs[l][n] = handleOf[lib]
               \/ \E i \in Insts : /\ inst[i] # NoInst
                                    /\ inst[i].handle = handleOf[lib]
    <2> DEFINE h == handleOf[lib]
    <2>1. h \in Handles
      BY <1>1 DEF EntriesInv, TypeOK, DlTypeOK, Mapped
    <2>2. ReferenceCount(h) = opens[lib] /\ opens[lib] > 0
      BY <1>1, <2>1 DEF EntriesInv, CountInv, OpensCounted, OpenInv
    <2>3. \A t \in Threads : call[t].op = "idle" /\ closing[t] = NoHandle
      BY <1>1 DEF Free, At
    <2>4. Opening(h) = {} /\ Closing(h) = {}
      BY <2>1, <2>3 DEF Opening, Closing
    <2>5. Blocks(h) # {}
      <3>1. SUFFICES ASSUME Blocks(h) = {} PROVE FALSE
        OBVIOUS
      <3>2. ReferenceCount(h) = 0
        BY <2>4, <3>1, FS_EmptySet DEF ReferenceCount
      <3> QED BY <2>2, <3>2
    <2>6. PICK l \in Loaders : Live(l, h)
      BY <2>5 DEF Blocks
    <2> QED BY <2>3, <2>6 DEF Live, HasOwner
  <1>2. EntriesInv => NoLeak
    BY <1>1 DEF NoLeak
  <1> QED BY <1>2, EntriesInvariant, PTL

(* When ForgetLibrary returns true no entry of the Loader has the handle   *)
(* any more: dlHandleToPluginMap has the name of every plugin that was     *)
(* registered with it (Implementation::ForgetLibrary, Loader::LoadLib).    *)
(* Nothing is assumed of what the libraries provide.                       *)
THEOREM LoaderForgetIsComplete == Spec => ForgetIsComplete
  <1> DEFINE Complete ==
        \A t \in Threads : FinishForget(t) =>
          \A n \in Symbols :
            pluginToDlHandlePtrs'[call[t].loader][n] # call[t].handle
  <1>1. EntriesInv => Complete
    BY DEF EntriesInv, ForgetInv, FinishForget, At
  <1>2. EntriesInv /\ [Next]_vars => [Complete]_vars
    BY <1>1
  <1> QED BY <1>2, EntriesInvariant, PTL DEF Spec, ForgetIsComplete

-----------------------------------------------------------------------------
(* Calls return *)

(* The entries that the destructor of l has still to destroy. *)
KeptIn(ptrs, l) == {n \in Symbols : ptrs[l][n] # NoHandle}
Kept(l) == KeptIn(pluginToDlHandlePtrs, l)

(* What TurnsLeft counts, in both states of a step. *)
LEMMA TurnsCounted ==
  ASSUME NEW t \in Threads
  PROVE  /\ call[t].op = "idle" => TurnsLeft(t) = 0
         /\ call[t].op = "opened" => TurnsLeft(t) = Cardinality(Symbols) + 2
         /\ call[t].op = "register" =>
              TurnsLeft(t) = Cardinality(call[t].left) + 1
         /\ call[t].op = "find" => TurnsLeft(t) = 2 * Cardinality(Symbols) + 2
         /\ call[t].op = "forget" =>
              TurnsLeft(t) = 2 * Cardinality(call[t].left) + 1
         /\ call[t].op = "erase" =>
              TurnsLeft(t) = 2 * Cardinality(call[t].left)
         /\ call[t].op = "destroy" =>
              TurnsLeft(t) = Cardinality(Kept(call[t].loader)) + 1
         /\ call'[t].op = "idle" => TurnsLeft(t)' = 0
         /\ call'[t].op = "register" =>
              TurnsLeft(t)' = Cardinality(call'[t].left) + 1
         /\ call'[t].op = "forget" =>
              TurnsLeft(t)' = 2 * Cardinality(call'[t].left) + 1
         /\ call'[t].op = "erase" =>
              TurnsLeft(t)' = 2 * Cardinality(call'[t].left)
         /\ call'[t].op = "destroy" =>
              TurnsLeft(t)' =
                Cardinality(KeptIn(pluginToDlHandlePtrs',
                                   call'[t].loader)) + 1
  BY DEF TurnsLeft, Kept, KeptIn

LEMMA TurnsNat ==
  ASSUME IsFiniteSet(Symbols), TypeOK, NEW t \in Threads
  PROVE  TurnsLeft(t) \in Nat
  <1>1. call[t] \in Call
    BY DEF TypeOK
  <1>2. /\ call[t].left \in SUBSET Symbols
        /\ call[t].op \in {"idle", "opened", "register", "find", "forget",
                           "erase", "destroy"}
    BY <1>1 DEF Call, LoadCall, ForgetCall, EraseCall, DestroyCall, Idle
  <1>3. \A S \in SUBSET Symbols : Cardinality(S) \in Nat
    BY FS_Subset, FS_CardinalityType
  <1>4. /\ Cardinality(Symbols) \in Nat
        /\ Cardinality(call[t].left) \in Nat
        /\ Cardinality(Kept(call[t].loader)) \in Nat
    BY <1>2, <1>3 DEF Kept, KeptIn
  <1> QED BY <1>2, <1>4, TurnsCounted

LEMMA FewerTurns ==
  ASSUME NEW t \in Threads, TurnsLeft(t) \in Nat, TurnsLeft(t)' \in Nat,
         TurnsLeft(t)' < TurnsLeft(t)
  PROVE  StepsLeft(t)' < StepsLeft(t) /\ StepsLeft(t)' <= StepsLeft(t)
  <1> DEFINE a == TurnsLeft(t)
             b == TurnsLeft(t)'
             x == IF closing[t] = NoHandle THEN 0 ELSE 1
             y == IF closing'[t] = NoHandle THEN 0 ELSE 1
  <1>1. x \in {0, 1} /\ y \in {0, 1}
    OBVIOUS
  <1>2. StepsLeft(t) = 2 * a + x /\ StepsLeft(t)' = 2 * b + y
    BY DEF StepsLeft
  <1> HIDE DEF x, y
  <1> QED BY <1>1, <1>2

(* A thread's own steps bring its call nearer to its end. *)
LEMMA ContinueAdvances ==
  ASSUME IsFiniteSet(Symbols), TypeOK, CallInv, NEW t \in Threads, Continue(t)
  PROVE  StepsLeft(t)' < StepsLeft(t) /\ StepsLeft(t)' <= StepsLeft(t)
  <1> DEFINE Goal == /\ StepsLeft(t)' < StepsLeft(t)
                     /\ StepsLeft(t)' <= StepsLeft(t)
             C(S) == Cardinality(S)
  <1>1. \A S \in SUBSET Symbols :
          IsFiniteSet(S) /\ C(S) \in Nat /\ C(S) <= C(Symbols)
    BY FS_Subset, FS_CardinalityType
  <1>2. C(Symbols) \in Nat
    BY <1>1
  <1>3. call[t].left \in SUBSET Symbols
    <2>1. call[t] \in Call
      BY DEF TypeOK
    <2> QED BY <2>1 DEF Call, LoadCall, ForgetCall, EraseCall, DestroyCall, Idle
  <1>4. \A n \in call[t].left :
          /\ C(call[t].left) = C(call[t].left \ {n}) + 1
          /\ C(call[t].left \ {n}) \in Nat
    BY <1>1, <1>3, RemoveOne
  <1>5. ASSUME CloseHandle(t) PROVE Goal
    <2>1. UNCHANGED <<call, pluginToDlHandlePtrs>>
      BY <1>5 DEF CloseHandle, loaderVars
    <2>2. TurnsLeft(t)' = TurnsLeft(t)
      BY <2>1 DEF TurnsLeft
    <2>3. closing[t] # NoHandle /\ closing'[t] = NoHandle
      BY <1>5 DEF CloseHandle, TypeOK
    <2>4. TurnsLeft(t) \in Nat
      BY TurnsNat
    <2> QED BY <2>2, <2>3, <2>4 DEF StepsLeft
  <1>6. ASSUME AdoptHandle(t) PROVE Goal
    <2>1. call[t] \in LoadCall /\ call[t].op = "opened"
      BY <1>6, CallFields DEF AdoptHandle, At, TypeOK
    <2>2. /\ call'[t].op = "register"
          /\ call'[t].left = Exports[call[t].lib]
      BY <1>6, <2>1 DEF AdoptHandle, TypeOK, LoadCall
    <2>3. call'[t].left \in SUBSET Symbols
      BY <2>1, <2>2 DEF LoadCall
    <2>4. /\ TurnsLeft(t) = C(Symbols) + 2
          /\ TurnsLeft(t)' = C(call'[t].left) + 1
      BY <2>1, <2>2, TurnsCounted
    <2> QED BY <1>1, <1>2, <2>3, <2>4, FewerTurns
  <1>7. ASSUME NEW n \in Symbols, RegisterPlugin(t, n) PROVE Goal
    <2>1. call[t] \in LoadCall /\ call[t].op = "register"
      BY <1>7, RegisterEffect
    <2>2. /\ call'[t].op = "register" /\ n \in call[t].left
          /\ call'[t].left = call[t].left \ {n}
      BY <1>7, <2>1 DEF RegisterPlugin, TypeOK, LoadCall
    <2>3. PICK c \in Nat : /\ c = C(call[t].left \ {n})
                           /\ C(call[t].left) = c + 1
      BY <1>4, <2>2
    <2>4. /\ TurnsLeft(t) = C(call[t].left) + 1
          /\ TurnsLeft(t)' = C(call'[t].left) + 1
      BY <2>1, <2>2, TurnsCounted
    <2>5. TurnsLeft(t) = c + 2 /\ TurnsLeft(t)' = c + 1
      BY <2>2, <2>3, <2>4
    <2> QED BY <2>5, FewerTurns
  <1>8. ASSUME FinishLoad(t) \/ FinishForget(t) \/ FinishDestroy(t)
        PROVE  Goal
    <2>1. call[t].op \in {"register", "forget", "destroy"}
      BY <1>8 DEF FinishLoad, FinishForget, FinishDestroy, At
    <2>2. call'[t].op = "idle"
      BY <1>8 DEF FinishLoad, FinishForget, FinishDestroy, TypeOK, Idle
    <2>3. C(Kept(call[t].loader)) \in Nat /\ C(call[t].left) \in Nat
      BY <1>1, <1>3 DEF Kept, KeptIn
    <2>4. /\ TurnsLeft(t)' = 0
          /\ TurnsLeft(t) \in {C(call[t].left) + 1, 2 * C(call[t].left) + 1,
                               C(Kept(call[t].loader)) + 1}
      BY <2>1, <2>2, TurnsCounted
    <2> QED BY <2>3, <2>4, FewerTurns
  <1>9. ASSUME FindLibrary(t) PROVE Goal
    <2>1. call[t] \in ForgetCall /\ call[t].op = "find"
      BY <1>9, CallFields DEF FindLibrary, At, TypeOK
    <2> DEFINE entry == dlHandleToPluginMap[call[t].loader][call[t].handle]
               names == entry.names
    <2>2. names \in SUBSET Symbols
      BY <2>1 DEF TypeOK, ForgetCall, Entry
    <2>3. \/ call'[t].op = "idle"
          \/ call'[t].op = "forget" /\ call'[t].left = names
      BY <1>9, <2>1 DEF FindLibrary, TypeOK, ForgetCall, Idle
    <2> HIDE DEF entry, names
    <2>4. /\ TurnsLeft(t) = 2 * C(Symbols) + 2
          /\ TurnsLeft(t)' = 0 \/ TurnsLeft(t)' = 2 * C(names) + 1
      BY <2>1, <2>3, TurnsCounted
    <2> QED BY <1>1, <1>2, <2>2, <2>4, FewerTurns
  <1>10. ASSUME NEW n \in Symbols, ForgetPluginInfo(t, n) PROVE Goal
    <2>1. call[t] \in ForgetCall /\ call[t].op = "forget"
      BY <1>10, CallFields DEF ForgetPluginInfo, At, TypeOK
    <2>2. call'[t].op = "erase" /\ call'[t].left = call[t].left
      BY <1>10, <2>1 DEF ForgetPluginInfo, TypeOK, ForgetCall
    <2>3. /\ TurnsLeft(t) = 2 * C(call[t].left) + 1
          /\ TurnsLeft(t)' = 2 * C(call[t].left)
      BY <2>1, <2>2, TurnsCounted
    <2> QED BY <1>1, <1>3, <2>3, FewerTurns
  <1>11. ASSUME ErasePluginHandle(t) PROVE Goal
    <2>1. call[t] \in EraseCall /\ call[t].op = "erase"
      BY <1>11, CallFields DEF ErasePluginHandle, At, TypeOK
    <2>2. /\ call'[t].op = "forget"
          /\ call'[t].left = call[t].left \ {call[t].name}
      BY <1>11, <2>1 DEF ErasePluginHandle, TypeOK, EraseCall
    <2>3. call[t].name \in call[t].left
      BY <2>1 DEF CallInv
    <2>4. PICK c \in Nat : /\ c = C(call[t].left \ {call[t].name})
                           /\ C(call[t].left) = c + 1
      BY <1>4, <2>3
    <2>5. /\ TurnsLeft(t) = 2 * C(call[t].left)
          /\ TurnsLeft(t)' = 2 * C(call'[t].left) + 1
      BY <2>1, <2>2, TurnsCounted
    <2>6. TurnsLeft(t) = 2 * c + 2 /\ TurnsLeft(t)' = 2 * c + 1
      BY <2>2, <2>4, <2>5
    <2> QED BY <2>6, FewerTurns
  <1>12. ASSUME NEW n \in Symbols, DestroyHandle(t, n) PROVE Goal
    <2>1. PICK l \in Loaders : l = call[t].loader
      BY <1>12, CallFields DEF DestroyHandle, At, TypeOK, DestroyCall
    <2>2. /\ call[t].op = "destroy" /\ UNCHANGED call
          /\ pluginToDlHandlePtrs[l][n] # NoHandle
          /\ pluginToDlHandlePtrs' =
               [pluginToDlHandlePtrs EXCEPT ![l][n] = NoHandle]
      BY <1>12, <2>1 DEF DestroyHandle, At
    <2>3. n \in Kept(l) /\ Kept(l)' = Kept(l) \ {n}
      BY <2>2 DEF Kept, KeptIn, TypeOK
    <2>4. IsFiniteSet(Kept(l)) /\ IsFiniteSet(Kept(l) \ {n})
      BY <1>1 DEF Kept, KeptIn
    <2>5. /\ C(Kept(l)) = C(Kept(l) \ {n}) + 1
          /\ C(Kept(l) \ {n}) \in Nat
      BY <2>3, <2>4, RemoveOne, FS_CardinalityType
    <2>6. /\ TurnsLeft(t) = C(Kept(l)) + 1
          /\ TurnsLeft(t)' = C(Kept(l)') + 1
      BY <2>1, <2>2, TurnsCounted DEF Kept
    <2> QED BY <2>3, <2>5, <2>6, FewerTurns
  <1> HIDE DEF Goal
  <1>13. Goal
    BY <1>5, <1>6, <1>7, <1>8, <1>9, <1>10, <1>11, <1>12, Zenon DEF Continue
  <1> QED BY <1>13 DEF Goal

(* The others leave the call of t, its dlclose and its Loader alone.       *)
LEMMA OthersLeaveCalls ==
  ASSUME TypeOK, CallInv, NEW u \in Threads, Invoke(u) \/ Continue(u),
         NEW t \in Threads, t # u
  PROVE  call'[t] = call[t] /\ closing'[t] = closing[t]
  <1>0. closing \in [Threads -> Handles \cup {NoHandle}]
    BY DEF TypeOK
  <1>1. call'[t] = call[t]
    BY InvokeCalls, ContinueCalls DEF CallStep
  <1>2. CASE Invoke(u)
    <2>1. UNCHANGED closing \/ \E x : closing' = [closing EXCEPT ![u] = x]
      BY <1>2, Zenon
      DEF Invoke, LoadLib, LoadLibError, ForgetLibrary, ForgetLibraryOfPlugin,
          DestroyLoader, InstantiateFromFile, InstantiateStatic,
          DeleteInstance, DropRef
    <2> QED BY <1>0, <1>1, <2>1
  <1>3. CASE Continue(u)
    <2>1. UNCHANGED closing \/ \E x : closing' = [closing EXCEPT ![u] = x]
      BY <1>3, Zenon
      DEF Continue, CloseHandle, AdoptHandle, RegisterPlugin, FinishLoad,
          FindLibrary, ForgetPluginInfo, ErasePluginHandle, FinishForget,
          DestroyHandle, FinishDestroy, DropRef
    <2> QED BY <1>0, <1>1, <2>1
  <1> QED BY <1>1, <1>2, <1>3

LEMMA OthersKeepTurns ==
  ASSUME IsFiniteSet(Symbols), TypeOK, CallInv, [Next]_vars,
         NEW t \in Threads, call'[t] = call[t]
  PROVE  TurnsLeft(t)' \in Nat /\ TurnsLeft(t)' <= TurnsLeft(t)
  <1>1. CASE call[t].op = "destroy"
    <2>1. call[t].loader \in Loaders
      BY <1>1, CallFields DEF TypeOK
    <2>2. PICK l \in Loaders : l = call[t].loader
      BY <2>1
    <2>3. ASSUME NEW n \in Symbols, NEW u \in Threads, RegisterPlugin(u, n),
                 call[u].loader = l
          PROVE  FALSE
      BY <1>1, <2>2, <2>3 DEF RegisterPlugin, At, CallInv
    <2>4. \A n \in Symbols : PtrStep(l, n)
      BY PluginSteps
    <2>5. Kept(l)' \subseteq Kept(l)
      BY <2>3, <2>4 DEF Kept, KeptIn, PtrStep
    <2>6. IsFiniteSet(Kept(l))
      BY FS_Subset DEF Kept, KeptIn
    <2>7. Cardinality(Kept(l)') <= Cardinality(Kept(l))
      BY <2>5, <2>6, FS_Subset
    <2>8. Cardinality(Kept(l)') \in Nat /\ Cardinality(Kept(l)) \in Nat
      BY <2>5, <2>6, FS_Subset, FS_CardinalityType
    <2>9. /\ TurnsLeft(t) = Cardinality(Kept(l)) + 1
          /\ TurnsLeft(t)' = Cardinality(Kept(l)') + 1
      BY <1>1, <2>2, TurnsCounted DEF Kept
    <2> QED BY <2>7, <2>8, <2>9
  <1>2. CASE call[t].op # "destroy"
    <2>1. TurnsLeft(t)' = TurnsLeft(t)
      BY <1>2 DEF TurnsLeft
    <2> QED BY <2>1, TurnsNat
  <1> QED BY <1>1, <1>2

(* Every step of a thread inside a call brings the call nearer to its end, *)
(* and no step of another thread throws it back (the loops of LoadLib,     *)
(* ForgetLibrary and ~Loader, the dlclose after them), as there are        *)
(* finitely many names.                                                    *)
THEOREM LoaderCallsAdvance ==
  ASSUME IsFiniteSet(Symbols) PROVE Spec => CallsAdvance
  <1> DEFINE Advance ==
        \A t \in Threads : ~Free(t) =>
          /\ Continue(t) => StepsLeft(t)' < StepsLeft(t)
          /\ StepsLeft(t)' <= StepsLeft(t)
  <1>1. ASSUME EntriesInv, [Next]_vars, NEW t \in Threads, ~Free(t)
        PROVE  /\ Continue(t) => StepsLeft(t)' < StepsLeft(t)
               /\ StepsLeft(t)' <= StepsLeft(t)
    <2>1. TypeOK /\ CallInv
      BY <1>1 DEF EntriesInv
    <2>2. Continue(t) => /\ StepsLeft(t)' < StepsLeft(t)
                         /\ StepsLeft(t)' <= StepsLeft(t)
      BY <2>1, ContinueAdvances
    <2>3. CASE call'[t] = call[t] /\ closing'[t] = closing[t]
      <3>1. /\ TurnsLeft(t)' \in Nat /\ TurnsLeft(t) \in Nat
            /\ TurnsLeft(t)' <= TurnsLeft(t)
        BY <1>1, <2>1, <2>3, OthersKeepTurns, TurnsNat
      <3> QED BY <2>2, <2>3, <3>1 DEF StepsLeft
    <2>6. ASSUME NEW u \in Threads, Invoke(u) \/ Continue(u), u # t
          PROVE  call'[t] = call[t] /\ closing'[t] = closing[t]
      BY <2>1, <2>6, OthersLeaveCalls
    <2>7. ~Invoke(t)
      BY <1>1 DEF Invoke, LoadLib, LoadLibError, ForgetLibrary,
             ForgetLibraryOfPlugin, DestroyLoader, InstantiateFromFile,
             InstantiateStatic, DeleteInstance
    <2>8. UNCHANGED vars => call'[t] = call[t] /\ closing'[t] = closing[t]
      BY DEF vars
    <2> QED BY <1>1, <2>2, <2>3, <2>6, <2>7, <2>8 DEF Next
  <1>2. EntriesInv /\ [Next]_vars => [Advance]_vars
    BY <1>1
  <1> QED BY <1>2, EntriesInvariant, PTL DEF Spec, CallsAdvance

-----------------------------------------------------------------------------
(* The refinement of LibraryUsage *)

(* An Info, or an instance, uses the code of lib. *)
InfoUses(l, n, lib) ==
  registry[l].plugins[n] # NoInfo /\ registry[l].plugins[n].lib = lib

InstUses(i, lib) == inst[i] # NoInst /\ inst[i].lib = lib

LEMMA UserFields ==
  /\ \A u \in InfoUsers : u[2] \in Loaders /\ u[3] \in Symbols
  /\ \A u \in InstanceUsers : u[2] \in Insts
  BY DEF InfoUsers, InstanceUsers

(* Users that all stay, and users of which none is new. *)
LEMMA UsersStay ==
  ASSUME NEW lib \in Libs,
         \A l \in Loaders, n \in Symbols :
           InfoUses(l, n, lib) => InfoUses(l, n, lib)',
         \A i \in Insts : InstUses(i, lib) => InstUses(i, lib)'
  PROVE  UsersOf(lib) \subseteq UsersOf(lib)'
  BY UserFields DEF UsersOf, InfoUses, InstUses

LEMMA UsersGo ==
  ASSUME NEW lib \in Libs,
         \A l \in Loaders, n \in Symbols :
           InfoUses(l, n, lib)' => InfoUses(l, n, lib),
         \A i \in Insts : InstUses(i, lib)' => InstUses(i, lib)
  PROVE  UsersOf(lib)' \subseteq UsersOf(lib)
  BY UserFields DEF UsersOf, InfoUses, InstUses

(* Nothing uses a library that is not loaded, or that a step unloads. *)
LEMMA UnusedWhenUnloaded ==
  ASSUME UsageInv, [Next]_vars, NEW lib \in Libs, UsersOf(lib) # {}
  PROVE  Mapped(lib) /\ Mapped(lib)'
  <1>1. \/ \E l \in Loaders, n \in Symbols : InfoUses(l, n, lib)
        \/ \E i \in Insts : InstUses(i, lib)
    BY UserFields DEF UsersOf, InfoUses, InstUses
  <1>2. ASSUME NEW l \in Loaders, NEW n \in Symbols, InfoUses(l, n, lib)
        PROVE  Mapped(lib) /\ Mapped(lib)'
    <2>1. PICK x \in Libs : /\ registry[l].plugins[n] = InfoOf(x, n)
                            /\ Mapped(x)
                            /\ pluginToDlHandlePtrs[l][n] = handleOf[x]
      BY <1>2 DEF InfoUses, UsageInv, ProviderInv
    <2>2. x = lib
      BY <1>2, <2>1 DEF InfoUses, InfoOf
    <2> QED BY <2>1, <2>2, UsedLibrariesStay DEF Mapped
  <1>3. ASSUME NEW i \in Insts, InstUses(i, lib)
        PROVE  Mapped(lib) /\ Mapped(lib)'
    BY <1>3, UsedLibrariesStay DEF InstUses, UsageInv, InstInv, Mapped
  <1> QED BY <1>1, <1>2, <1>3

(* One step of the linker, while registries and instances stay. *)
LEMMA LinkerStepMaps ==
  ASSUME UsageInv, [Next]_vars, UNCHANGED <<registry, inst>>,
         NEW lib \in Libs,
         \A other \in Libs \ {lib} : Mapped(other)' <=> Mapped(other)
  PROVE  Usage!Next \/ UNCHANGED Usage!usageVars
  <1> DEFINE M == {x \in Libs : Mapped(x)}
             U == [x \in Libs |-> UsersOf(x)]
  <1>1. U' = U
    BY DEF UsersOf
  <1>2. CASE Mapped(lib)' <=> Mapped(lib)
    <2>1. M' = M
      BY <1>2
    <2> QED BY <1>1, <2>1 DEF Usage!usageVars
  <1>3. CASE ~Mapped(lib) /\ Mapped(lib)'
    <2>1. lib \notin M /\ M' = M \cup {lib}
      BY <1>3
    <2> QED BY <1>1, <2>1 DEF Usage!Next, Usage!Map
  <1>4. CASE Mapped(lib) /\ ~Mapped(lib)'
    <2>1. lib \in M /\ M' = M \ {lib}
      BY <1>4
    <2>2. U[lib] = {}
      BY <1>4, UnusedWhenUnloaded
    <2> QED BY <1>1, <2>1, <2>2 DEF Usage!Next, Usage!Unmap
  <1> QED BY <1>2, <1>3, <1>4

(* A step in which Infos and instances only go. *)
LEMMA LeaveStepMaps ==
  ASSUME UNCHANGED handleOf,
         \A lib \in Libs : UsersOf(lib)' \subseteq UsersOf(lib)
  PROVE  Usage!Next
  <1> DEFINE M == {x \in Libs : Mapped(x)}
             U == [x \in Libs |-> UsersOf(x)]
  <1>1. M' = M
    BY DEF Mapped
  <1>2. U' \in [Libs -> SUBSET (InfoUsers \cup InstanceUsers)]
    BY DEF UsersOf
  <1>3. \A lib \in Libs : U'[lib] \subseteq U[lib]
    OBVIOUS
  <1> QED BY <1>1, <1>2, <1>3 DEF Usage!Next, Usage!Leave

(* A step in which Infos or instances of one loaded library come. *)
LEMMA UseStepMaps ==
  ASSUME UNCHANGED handleOf, NEW lib \in Libs, Mapped(lib),
         UsersOf(lib) \subseteq UsersOf(lib)',
         \A other \in Libs \ {lib} : UsersOf(other)' = UsersOf(other)
  PROVE  Usage!Next
  <1> DEFINE M == {x \in Libs : Mapped(x)}
             U == [x \in Libs |-> UsersOf(x)]
  <1>1. M' = M /\ lib \in M
    BY DEF Mapped
  <1>2. U' \in [Libs -> SUBSET (InfoUsers \cup InstanceUsers)]
    BY DEF UsersOf
  <1>3. /\ U[lib] \subseteq U'[lib]
        /\ \A other \in Libs \ {lib} : U'[other] = U[other]
    OBVIOUS
  <1> QED BY <1>1, <1>2, <1>3 DEF Usage!Next, Usage!Use

LEMMA StutterMaps ==
  UNCHANGED <<handleOf, registry, inst>> => UNCHANGED Usage!usageVars
  BY DEF Usage!usageVars, Mapped, UsersOf

LEMMA RegisterMaps ==
  ASSUME UsageInv, UniqueProviders, NEW t \in Threads, NEW n \in Symbols,
         RegisterPlugin(t, n)
  PROVE  Usage!Next
  <1>0. PICK l \in Loaders, lib \in Libs :
          l = call[t].loader /\ lib = call[t].lib
    BY RegisterEffect DEF UsageInv, EntriesInv
  <1>1. /\ call[t].handle \in Handles
        /\ handleOf[lib] = call[t].handle
        /\ registry[l].plugins[n] \in {NoInfo, InfoOf(lib, n)}
        /\ registry'[l].plugins[n] = InfoOf(lib, n)
        /\ \A m \in Symbols \ {n} :
             registry'[l].plugins[m] = registry[l].plugins[m]
        /\ \A k \in Loaders \ {l} : registry'[k] = registry[k]
    BY <1>0, RegisterEffect, RegisterFacts DEF UsageInv, EntriesInv
  <1>2. Mapped(lib)
    BY <1>1 DEF Mapped
  <1>3. UNCHANGED <<handleOf, inst>>
    BY DEF RegisterPlugin, dlVars
  <1>4. InfoOf(lib, n).lib = lib
    BY DEF InfoOf
  <1>5. \A i \in Insts, x \in Libs : InstUses(i, x)' <=> InstUses(i, x)
    BY <1>3 DEF InstUses
  <1>6. \A k \in Loaders, m \in Symbols, x \in Libs :
          /\ InfoUses(k, m, x) => InfoUses(k, m, x)'
          /\ x # lib => (InfoUses(k, m, x)' => InfoUses(k, m, x))
    <2>1. ASSUME NEW k \in Loaders, NEW m \in Symbols, NEW x \in Libs
          PROVE  /\ InfoUses(k, m, x) => InfoUses(k, m, x)'
                 /\ x # lib => (InfoUses(k, m, x)' => InfoUses(k, m, x))
      <3>1. CASE k = l /\ m = n
        BY <1>1, <1>4, <3>1 DEF InfoUses
      <3>2. CASE k # l \/ m # n
        <4>1. registry'[k].plugins[m] = registry[k].plugins[m]
          BY <1>1, <3>2
        <4> QED BY <4>1 DEF InfoUses
      <3> QED BY <3>1, <3>2
    <2> QED BY <2>1
  <1>7. \A x \in Libs : UsersOf(x) \subseteq UsersOf(x)'
    BY <1>5, <1>6, UsersStay
  <1>8. \A x \in Libs \ {lib} : UsersOf(x)' \subseteq UsersOf(x)
    BY <1>5, <1>6, UsersGo
  <1>9. \A x \in Libs \ {lib} : UsersOf(x)' = UsersOf(x)
    BY <1>7, <1>8
  <1>10. UNCHANGED handleOf /\ UsersOf(lib) \subseteq UsersOf(lib)'
    BY <1>1, <1>3, <1>7
  <1> QED BY <1>2, <1>9, <1>10, UseStepMaps, Zenon

LEMMA InstantiateMaps ==
  ASSUME UsageInv, NEW t \in Threads, NEW l \in Loaders, NEW s \in Symbols,
         NEW i \in Insts, InstantiateFromFile(t, l, s, i)
  PROVE  Usage!Next
  <1> DEFINE n == LookupPlugin(registry[l], s)
  <1>1. n \in Symbols /\ registry[l].plugins[n] # NoInfo
    BY LookupType DEF InstantiateFromFile, UsageInv, EntriesInv
  <1>2. PICK lib \in Libs : /\ registry[l].plugins[n] = InfoOf(lib, n)
                            /\ Mapped(lib)
    BY <1>1 DEF UsageInv, ProviderInv
  <1>3. InfoOf(lib, n).lib = lib
    BY DEF InfoOf
  <1>4. /\ UNCHANGED <<handleOf, registry>>
        /\ inst[i] = NoInst
        /\ inst' = [inst EXCEPT ![i] =
                      [lib |-> registry[l].plugins[n].lib, loader |-> l,
                       handle |-> pluginToDlHandlePtrs[l][n]]]
    BY DEF InstantiateFromFile, dlVars, loaderVars
  <1> HIDE DEF n
  <1>5. /\ inst'[i].lib = lib
        /\ \A j \in Insts \ {i} : inst'[j] = inst[j]
    BY <1>2, <1>3, <1>4 DEF UsageInv, EntriesInv, TypeOK
  <1>6. inst'[i] # NoInst
    <2>1. /\ lib \in Code
          /\ pluginToDlHandlePtrs[l][n] \in Handles \cup {NoHandle}
      BY <1>1 DEF UsageInv, EntriesInv, TypeOK
    <2>2. inst'[i] = [lib |-> lib, loader |-> l,
                      handle |-> pluginToDlHandlePtrs[l][n]]
      BY <1>2, <1>3, <1>4 DEF UsageInv, EntriesInv, TypeOK
    <2>3. inst'[i] \in Instance
      BY <2>1, <2>2 DEF Instance
    <2> QED BY <2>3
  <1>7. \A k \in Loaders, m \in Symbols, x \in Libs :
          InfoUses(k, m, x)' <=> InfoUses(k, m, x)
    BY <1>4 DEF InfoUses
  <1>8. \A j \in Insts, x \in Libs :
          /\ InstUses(j, x) => InstUses(j, x)'
          /\ x # lib => (InstUses(j, x)' => InstUses(j, x))
    BY <1>4, <1>5, <1>6 DEF InstUses
  <1>9. \A x \in Libs : UsersOf(x) \subseteq UsersOf(x)'
    BY <1>7, <1>8, UsersStay
  <1>10. \A x \in Libs \ {lib} : UsersOf(x)' \subseteq UsersOf(x)
    BY <1>7, <1>8, UsersGo
  <1>11. \A x \in Libs \ {lib} : UsersOf(x)' = UsersOf(x)
    BY <1>9, <1>10
  <1>12. UNCHANGED handleOf /\ UsersOf(lib) \subseteq UsersOf(lib)'
    BY <1>4, <1>9
  <1> QED BY <1>2, <1>11, <1>12, UseStepMaps, Zenon

(* Infos that are forgotten, and an instance that is deleted.  A static    *)
(* plugin's instance uses the code of no library.                          *)
LEMMA GoingMaps ==
  ASSUME UNCHANGED handleOf,
         \A l \in Loaders, n \in Symbols :
           registry'[l].plugins[n] \in {registry[l].plugins[n], NoInfo},
         \A i \in Insts : \/ inst'[i] \in {inst[i], NoInst}
                           \/ inst'[i].lib = Exe
  PROVE  Usage!Next
  <1>1. ASSUME NEW lib \in Libs PROVE UsersOf(lib)' \subseteq UsersOf(lib)
    <2>1. \A l \in Loaders, n \in Symbols :
            InfoUses(l, n, lib)' => InfoUses(l, n, lib)
      BY DEF InfoUses
    <2>2. \A i \in Insts : InstUses(i, lib)' => InstUses(i, lib)
      BY DEF InstUses
    <2> QED BY <2>1, <2>2, UsersGo
  <1> QED BY <1>1, LeaveStepMaps

LEMMA UsageStepMaps ==
  ASSUME UsageInv, UniqueProviders, [Next]_vars
  PROVE  Usage!Next \/ UNCHANGED Usage!usageVars
  <1> DEFINE Goal == Usage!Next \/ UNCHANGED Usage!usageVars
  <1>0. TypeOK
    BY DEF UsageInv, EntriesInv
  <1>1. UNCHANGED <<handleOf, registry, inst>> => Goal
    BY StutterMaps
  <1>2. ASSUME NEW lib \in Libs, NEW h \in Handles, NEW keep,
               DlOpen(lib, h, keep), UNCHANGED <<registry, inst>>
        PROVE  Goal
    <2>1. \A x \in Libs \ {lib} : Mapped(x)' <=> Mapped(x)
      BY <1>0, <1>2 DEF DlOpen, Mapped, TypeOK, DlTypeOK
    <2> QED BY <1>2, <2>1, LinkerStepMaps
  <1>3. ASSUME NEW t \in Threads, CloseHandle(t) PROVE Goal
    <2>1. DlClose(closing[t]) /\ UNCHANGED <<registry, inst>>
      BY <1>3 DEF CloseHandle, loaderVars
    <2>2. PICK lib \in Libs :
            handleOf' = IF opens[lib] = 1 /\ lib \notin noDelete
                        THEN [handleOf EXCEPT ![lib] = NoHandle]
                        ELSE handleOf
      BY <2>1 DEF DlClose
    <2>3. \A x \in Libs \ {lib} : Mapped(x)' <=> Mapped(x)
      BY <1>0, <2>2 DEF Mapped, TypeOK, DlTypeOK
    <2> QED BY <2>1, <2>3, LinkerStepMaps
  <1>4. ASSUME NEW t \in Threads, NEW n \in Symbols, ForgetPluginInfo(t, n)
        PROVE  Goal
    <2>1. /\ UNCHANGED <<handleOf, inst>>
          /\ registry' = [registry EXCEPT ![call[t].loader] =
                            ForgetInfo(registry[call[t].loader], n)]
      BY <1>4 DEF ForgetPluginInfo, dlVars
    <2>2. \A l \in Loaders, m \in Symbols :
            registry'[l].plugins[m] \in {registry[l].plugins[m], NoInfo}
      BY <1>0, <2>1 DEF ForgetInfo, TypeOK, RegistryValue
    <2> QED BY <2>1, <2>2, GoingMaps
  <1>5. ASSUME NEW t \in Threads, NEW l \in Loaders, DestroyLoader(t, l)
        PROVE  Goal
    <2>1. /\ UNCHANGED <<handleOf, inst>>
          /\ registry' = [registry EXCEPT ![l] = EmptyRegistry]
      BY <1>5 DEF DestroyLoader, dlVars
    <2>2. \A k \in Loaders, m \in Symbols :
            registry'[k].plugins[m] \in {registry[k].plugins[m], NoInfo}
      BY <1>0, <2>1 DEF EmptyRegistry, TypeOK
    <2> QED BY <2>1, <2>2, GoingMaps
  <1>6. ASSUME NEW t \in Threads, NEW i \in Insts,
               \/ DeleteInstance(t, i)
               \/ \E l \in Loaders, s \in Symbols :
                    InstantiateStatic(t, l, s, i)
        PROVE  Goal
    <2>1. UNCHANGED <<handleOf, registry>>
      BY <1>6 DEF DeleteInstance, InstantiateStatic, dlVars, loaderVars
    <2>2. \A j \in Insts : \/ inst'[j] \in {inst[j], NoInst}
                            \/ inst'[j].lib = Exe
      BY <1>0, <1>6 DEF DeleteInstance, InstantiateStatic, TypeOK
    <2> QED BY <2>1, <2>2, GoingMaps
  <1> HIDE DEF Goal
  <1>7. ASSUME NEW t \in Threads, Invoke(t) PROVE Goal
    <2>1. ASSUME NEW l \in Loaders, NEW lib \in Libs, NEW keep \in BOOLEAN,
                 LoadLib(t, l, lib, keep) \/ LoadLibError(t, l, lib, keep)
          PROVE  Goal
      <3>1. PICK h \in Handles : DlOpen(lib, h, keep)
        BY <2>1, Zenon DEF LoadLib, LoadLibError
      <3>2. UNCHANGED <<registry, inst>>
        BY <2>1 DEF LoadLib, LoadLibError, loaderVars
      <3> QED BY <1>2, <3>1, <3>2, Zenon
    <2>2. ASSUME NEW l \in Loaders, NEW lib \in Libs, ForgetLibrary(t, l, lib)
          PROVE  Goal
      <3>1. PICK h \in Handles : DlOpen(lib, h, FALSE)
        BY <2>2, Zenon DEF ForgetLibrary, DlProbe
      <3>2. UNCHANGED <<registry, inst>>
        BY <2>2 DEF ForgetLibrary, loaderVars
      <3> QED BY <1>2, <3>1, <3>2, Zenon
    <2>3. ASSUME NEW l \in Loaders, NEW s \in Symbols,
                 ForgetLibraryOfPlugin(t, l, s)
          PROVE  Goal
      BY <1>1, <2>3 DEF ForgetLibraryOfPlugin, dlVars, loaderVars
    <2>4. ASSUME NEW l \in Loaders, NEW s \in Symbols, NEW i \in Insts,
                 InstantiateFromFile(t, l, s, i)
          PROVE  Goal
      BY <2>4, InstantiateMaps DEF Goal
    <2> QED BY <1>5, <1>6, <1>7, <2>1, <2>2, <2>3, <2>4, SMT DEF Invoke
  <1>8. ASSUME NEW t \in Threads, Continue(t) PROVE Goal
    <2>1. ASSUME NEW n \in Symbols, RegisterPlugin(t, n) PROVE Goal
      BY <2>1, RegisterMaps DEF Goal
    <2>2. ASSUME \/ AdoptHandle(t) \/ FinishLoad(t) \/ FindLibrary(t)
                 \/ ErasePluginHandle(t) \/ FinishForget(t)
                 \/ FinishDestroy(t)
                 \/ \E n \in Symbols : DestroyHandle(t, n)
          PROVE  UNCHANGED <<handleOf, registry, inst>>
      BY <2>2, Zenon
      DEF AdoptHandle, FinishLoad, FindLibrary, ErasePluginHandle,
          FinishForget, FinishDestroy, DestroyHandle, dlVars, loaderVars
    <2> QED BY <1>1, <1>3, <1>4, <1>8, <2>1, <2>2 DEF Continue
  <1>9. UNCHANGED vars => Goal
    BY <1>1 DEF vars, dlVars, loaderVars
  <1> QED BY <1>7, <1>8, <1>9 DEF Next, Goal

LEMMA UsageInitMaps == Init => Usage!Init
  <1> SUFFICES ASSUME Init PROVE Usage!Init
    OBVIOUS
  <1>1. {lib \in Libs : Mapped(lib)} = {}
    BY DEF Init, DlInit, Mapped
  <1>2. \A lib \in Libs : UsersOf(lib) = {}
    <2>1. \A l \in Loaders, n \in Symbols : registry[l].plugins[n] = NoInfo
      BY DEF Init, EmptyRegistry
    <2>2. \A i \in Insts : inst[i] = NoInst
      BY DEF Init
    <2> QED BY <2>1, <2>2, UserFields DEF UsersOf
  <1> QED BY <1>1, <1>2 DEF Usage!Init

(* The Loaders, their reference counts and the linker's count of opens     *)
(* implement LibraryUsage: an Info or an instance comes only while its     *)
(* library is loaded, and no step unloads a library that either still      *)
(* uses.                                                                   *)
THEOREM LoaderImplementsUsage ==
  ASSUME UniqueProviders PROVE Spec => ImplementsUsage
  <1>1. UsageInv /\ [Next]_vars => [Usage!Next]_(Usage!usageVars)
    BY UsageStepMaps
  <1> QED
    BY <1>1, UsageInitMaps, UsageInvariant, PTL
    DEF Spec, ImplementsUsage, Usage!Spec
=============================================================================
