---------------------------- MODULE LoaderProofs ----------------------------
(***************************************************************************)
(* Theorems about Loader, for every number of threads, Loaders, libraries, *)
(* handles, instances and plugins.                                         *)
(***************************************************************************)
EXTENDS Loader, RegistryProofs, FiniteSetTheorems

USE RegistryAssumption, LinkerAssumption, LoaderAssumption,
    InstanceAssumption

-----------------------------------------------------------------------------
(* Type correctness                                                        *)

LEMMA InfoOfType ==
  ASSUME NEW lib \in Libs, NEW n \in Symbols
  PROVE  InfoOf(lib, n) \in Info
  BY DEF InfoOf, Info

LEMMA IdleType == Idle \in Call
  BY DEF Call

(* What the fields of a call in progress hold at each place. *)
LEMMA CallFields ==
  ASSUME NEW c \in Call
  PROVE  /\ c.op \in {"idle", "opened", "register", "find", "forget", "erase",
                      "destroy"}
         /\ c.op = "idle" => c = Idle
         /\ c.op # "idle" => c.loader \in Loaders
         /\ c.op \in {"opened", "register"} => c \in LoadCall
         /\ c.op \in {"find", "forget"} => c \in ForgetCall
         /\ c.op = "erase" => c \in EraseCall
         /\ c.op = "destroy" => c \in DestroyCall
  BY DEF Call, Idle, LoadCall, ForgetCall, EraseCall, DestroyCall

LEMMA LoaderTypeInit == Init => TypeOK
  <1> SUFFICES ASSUME Init PROVE TypeOK
    OBVIOUS
  <1> USE DEF Init
  <1>1. DlTypeOK
    BY DEF DlInit, DlTypeOK
  <1>2. registry \in [Loaders -> RegistryValue]
    BY EmptyRegistryType
  <1>3. dlHandleToPluginMap \in [Loaders -> [Handles -> Entry]]
    BY DEF Entry, NoEntry
  <1>4. call \in [Threads -> Call]
    BY IdleType
  <1> QED BY <1>1, <1>2, <1>3, <1>4 DEF TypeOK, Instance

LEMMA DlStepType ==
  ASSUME DlTypeOK, NEW h \in Handles
  PROVE  /\ \A lib \in Libs, keep \in BOOLEAN :
              DlOpen(lib, h, keep) => DlTypeOK'
         /\ \A lib \in Libs : DlProbe(lib, h) => DlTypeOK'
         /\ DlClose(h) => DlTypeOK'
  <1>1. ASSUME NEW lib \in Libs, NEW keep \in BOOLEAN, DlOpen(lib, h, keep)
        PROVE  DlTypeOK'
    BY <1>1 DEF DlTypeOK, DlOpen
  <1>2. ASSUME DlClose(h) PROVE DlTypeOK'
    BY <1>2 DEF DlTypeOK, DlClose
  <1> QED BY <1>1, <1>2 DEF DlProbe

LEMMA DropRefType ==
  ASSUME TypeOK, NEW t \in Threads, NEW l, NEW h \in Handles \cup {NoHandle},
         DropRef(t, l, h)
  PROVE  closing' \in [Threads -> Handles \cup {NoHandle}]
  BY DEF TypeOK, DropRef

LEMMA LookupType ==
  ASSUME TypeOK, NEW l \in Loaders, NEW s \in Symbols
  PROVE  /\ LookupPlugin(registry[l], s) \in Symbols \cup {NoName}
         /\ Lookup(l, s) \in Symbols \cup {NoName}
  <1>1. LookupPlugin(registry[l], s) \in Symbols \cup {NoName}
    BY LookupResult DEF TypeOK
  <1>2. LookupPlugin(StaticRegistry, s) \in Symbols \cup {NoName}
    BY DEF LookupPlugin
  <1> QED BY <1>1, <1>2 DEF Lookup

(* The type invariant is preserved by each action. *)
LEMMA LoaderTypeStep == TypeOK /\ [Next]_vars => TypeOK'
  <1> SUFFICES ASSUME TypeOK, [Next]_vars PROVE TypeOK'
    OBVIOUS
  <1> USE DEF TypeOK, loaderVars
  <1>1. ASSUME NEW t \in Threads, NEW l \in Loaders, NEW lib \in Libs,
               NEW keep \in BOOLEAN, LoadLib(t, l, lib, keep)
        PROVE  TypeOK'
    <2>1. PICK h \in Handles : LoadLib(t, l, lib, keep)!4!(h)
      BY <1>1 DEF LoadLib
    <2>2. DlTypeOK'
      BY <2>1, DlStepType
    <2>3. call' \in [Threads -> Call]
      <3>1. [Idle EXCEPT !.op = "opened", !.loader = l, !.lib = lib,
                         !.handle = h] \in LoadCall
        BY DEF Idle, LoadCall
      <3> QED BY <2>1, <3>1 DEF Call
    <2> QED BY <1>1, <2>2, <2>3 DEF LoadLib
  <1>2. ASSUME NEW t \in Threads, AdoptHandle(t) PROVE TypeOK'
    <2>1. call[t] \in LoadCall
      BY <1>2, CallFields DEF AdoptHandle, At
    <2>2. call' \in [Threads -> Call]
      <3>1. call' = [call EXCEPT ![t] = [call[t] EXCEPT !.op = "register",
                                          !.left = Exports[call[t].lib]]]
        BY <1>2 DEF AdoptHandle
      <3>2. [call[t] EXCEPT !.op = "register",
                            !.left = Exports[call[t].lib]] \in LoadCall
        BY <2>1 DEF LoadCall
      <3> QED BY <3>1, <3>2 DEF Call
    <2> QED BY <1>2, <2>1, <2>2 DEF AdoptHandle, DlTypeOK, dlVars, LoadCall
  <1>3. ASSUME NEW t \in Threads, NEW n \in Symbols, RegisterPlugin(t, n)
        PROVE  TypeOK'
    <2>1. call[t] \in LoadCall
      BY <1>3, CallFields DEF RegisterPlugin, At
    <2> DEFINE l == call[t].loader
    <2>2. l \in Loaders /\ call[t].lib \in Libs /\ call[t].handle \in Handles
      BY <2>1 DEF LoadCall
    <2>3. registry' \in [Loaders -> RegistryValue]
      <3>1. AddInfo(registry[l], InfoOf(call[t].lib, n)) \in RegistryValue
        BY <2>2, AddInfoType, InfoOfType
      <3> QED BY <1>3, <3>1 DEF RegisterPlugin
    <2>4. call' \in [Threads -> Call]
      <3>1. [call[t] EXCEPT !.left = call[t].left \ {n}] \in LoadCall
        BY <2>1 DEF LoadCall
      <3> QED BY <1>3, <3>1 DEF RegisterPlugin, Call
    <2>5. closing' \in [Threads -> Handles \cup {NoHandle}]
      <3>1. pluginToDlHandlePtrs[l][n] \in Handles \cup {NoHandle}
        BY <2>2
      <3> QED BY <1>3, <3>1, DropRefType DEF RegisterPlugin
    <2>6. pluginToDlHandlePtrs' \in
            [Loaders -> [Symbols -> Handles \cup {NoHandle}]]
      BY <1>3, <2>2 DEF RegisterPlugin
    <2> QED BY <1>3, <2>3, <2>4, <2>5, <2>6
            DEF RegisterPlugin, DlTypeOK, dlVars
  <1>4. ASSUME NEW t \in Threads, FinishLoad(t) PROVE TypeOK'
    <2>1. call[t] \in LoadCall
      BY <1>4, CallFields DEF FinishLoad, At
    <2> DEFINE l == call[t].loader
    <2>2. l \in Loaders /\ call[t].lib \in Libs /\ call[t].handle \in Handles
      BY <2>1 DEF LoadCall
    <2>3. dlHandleToPluginMap' \in [Loaders -> [Handles -> Entry]]
      <3>1. EntryOf(Exports[call[t].lib]) \in Entry
        BY <2>2 DEF EntryOf, Entry
      <3> QED BY <1>4, <2>2, <3>1 DEF FinishLoad
    <2>4. closing' \in [Threads -> Handles \cup {NoHandle}]
      BY <1>4, <2>2, DropRefType DEF FinishLoad
    <2> QED BY <1>4, <2>3, <2>4, IdleType DEF FinishLoad, DlTypeOK, dlVars
  <1>5. ASSUME NEW t \in Threads, NEW l \in Loaders, NEW lib \in Libs,
               ForgetLibrary(t, l, lib)
        PROVE  TypeOK'
    <2>1. PICK h \in Handles : ForgetLibrary(t, l, lib)!3!(h)
      BY <1>5 DEF ForgetLibrary
    <2>2. DlTypeOK'
      BY <2>1, DlStepType
    <2>3. call' \in [Threads -> Call]
      <3>1. [Idle EXCEPT !.op = "find", !.loader = l, !.handle = h]
              \in ForgetCall
        BY DEF Idle, ForgetCall
      <3> QED BY <2>1, <3>1 DEF Call
    <2> QED BY <1>5, <2>1, <2>2, <2>3 DEF ForgetLibrary
  <1>6. ASSUME NEW t \in Threads, NEW l \in Loaders, NEW s \in Symbols,
               ForgetLibraryOfPlugin(t, l, s)
        PROVE  TypeOK'
    <2>1. pluginToDlHandlePtrs[l][Lookup(l, s)] \in Handles
      BY <1>6, LookupType DEF ForgetLibraryOfPlugin
    <2>2. call' \in [Threads -> Call]
      <3>1. [Idle EXCEPT !.op = "find", !.loader = l,
               !.handle = pluginToDlHandlePtrs[l][Lookup(l, s)]] \in ForgetCall
        BY <2>1 DEF Idle, ForgetCall
      <3> QED BY <1>6, <3>1 DEF ForgetLibraryOfPlugin, Call
    <2> QED BY <1>6, <2>2 DEF ForgetLibraryOfPlugin, DlTypeOK, dlVars
  <1>7. ASSUME NEW t \in Threads, FindLibrary(t) PROVE TypeOK'
    <2>1. call[t] \in ForgetCall
      BY <1>7, CallFields DEF FindLibrary, At
    <2> DEFINE entry == dlHandleToPluginMap[call[t].loader][call[t].handle]
    <2>2. entry \in Entry
      BY <2>1 DEF ForgetCall
    <2>3. [call[t] EXCEPT !.op = "forget", !.left = entry.names] \in ForgetCall
      BY <2>1, <2>2 DEF ForgetCall, Entry
    <2>4. call' \in [Threads -> Call]
      BY <1>7, <2>3, IdleType DEF FindLibrary, Call
    <2> QED BY <1>7, <2>4 DEF FindLibrary, DlTypeOK, dlVars
  <1>8. ASSUME NEW t \in Threads, NEW n \in Symbols, ForgetPluginInfo(t, n)
        PROVE  TypeOK'
    <2>1. call[t] \in ForgetCall
      BY <1>8, CallFields DEF ForgetPluginInfo, At
    <2>2. registry' \in [Loaders -> RegistryValue]
      <3>1. call[t].loader \in Loaders
        BY <2>1 DEF ForgetCall
      <3>2. ForgetInfo(registry[call[t].loader], n) \in RegistryValue
        BY <3>1, ForgetInfoType
      <3> QED BY <1>8, <3>1, <3>2 DEF ForgetPluginInfo
    <2>3. call' \in [Threads -> Call]
      <3>1. [call[t] EXCEPT !.op = "erase", !.name = n] \in EraseCall
        BY <2>1 DEF ForgetCall, EraseCall
      <3> QED BY <1>8, <3>1 DEF ForgetPluginInfo, Call
    <2> QED BY <1>8, <2>2, <2>3 DEF ForgetPluginInfo, DlTypeOK, dlVars
  <1>9. ASSUME NEW t \in Threads, ErasePluginHandle(t) PROVE TypeOK'
    <2>1. call[t] \in EraseCall
      BY <1>9, CallFields DEF ErasePluginHandle, At
    <2> DEFINE l == call[t].loader
               n == call[t].name
    <2>2. l \in Loaders /\ n \in Symbols
      BY <2>1 DEF EraseCall
    <2>3. pluginToDlHandlePtrs' \in
            [Loaders -> [Symbols -> Handles \cup {NoHandle}]]
      BY <1>9, <2>2 DEF ErasePluginHandle
    <2>4. call' \in [Threads -> Call]
      <3> DEFINE c == [call[t] EXCEPT !.op = "forget", !.name = NoName,
                                      !.left = call[t].left \ {n}]
      <3>1. c \in ForgetCall
        BY <2>1 DEF EraseCall, ForgetCall
      <3>2. call' = [call EXCEPT ![t] = c]
        BY <1>9 DEF ErasePluginHandle
      <3> HIDE DEF c
      <3> QED BY <3>1, <3>2 DEF Call
    <2>5. closing' \in [Threads -> Handles \cup {NoHandle}]
      <3>1. pluginToDlHandlePtrs[l][n] \in Handles \cup {NoHandle}
        BY <2>2
      <3> QED BY <1>9, <3>1, DropRefType DEF ErasePluginHandle
    <2> QED BY <1>9, <2>3, <2>4, <2>5 DEF ErasePluginHandle, DlTypeOK, dlVars
  <1>10. ASSUME NEW t \in Threads, FinishForget(t) PROVE TypeOK'
    <2>1. call[t] \in ForgetCall
      BY <1>10, CallFields DEF FinishForget, At
    <2>2. NoEntry \in Entry
      BY DEF NoEntry, Entry
    <2>3. dlHandleToPluginMap' \in [Loaders -> [Handles -> Entry]]
      BY <1>10, <2>1, <2>2 DEF FinishForget, ForgetCall
    <2> QED BY <1>10, <2>3, IdleType DEF FinishForget, DlTypeOK, dlVars
  <1>11. ASSUME NEW t \in Threads, NEW l \in Loaders, DestroyLoader(t, l)
         PROVE  TypeOK'
    <2>1. dlHandleToPluginMap' \in [Loaders -> [Handles -> Entry]]
      <3>1. NoEntry \in Entry
        BY DEF NoEntry, Entry
      <3> QED BY <1>11, <3>1 DEF DestroyLoader
    <2>2. registry' \in [Loaders -> RegistryValue]
      BY <1>11, EmptyRegistryType DEF DestroyLoader
    <2>3. call' \in [Threads -> Call]
      <3>1. [Idle EXCEPT !.op = "destroy", !.loader = l] \in DestroyCall
        BY DEF Idle, DestroyCall
      <3> QED BY <1>11, <3>1 DEF DestroyLoader, Call
    <2> QED BY <1>11, <2>1, <2>2, <2>3 DEF DestroyLoader, DlTypeOK, dlVars
  <1>12. ASSUME NEW t \in Threads, NEW n \in Symbols, DestroyHandle(t, n)
         PROVE  TypeOK'
    <2>1. call[t] \in DestroyCall
      BY <1>12, CallFields DEF DestroyHandle, At
    <2> DEFINE l == call[t].loader
    <2>2. l \in Loaders
      BY <2>1 DEF DestroyCall
    <2>3. pluginToDlHandlePtrs' \in
            [Loaders -> [Symbols -> Handles \cup {NoHandle}]]
      BY <1>12, <2>2 DEF DestroyHandle
    <2>4. closing' \in [Threads -> Handles \cup {NoHandle}]
      <3>1. pluginToDlHandlePtrs[l][n] \in Handles \cup {NoHandle}
        BY <2>2
      <3> QED BY <1>12, <3>1, DropRefType DEF DestroyHandle
    <2> QED BY <1>12, <2>3, <2>4 DEF DestroyHandle, DlTypeOK, dlVars
  <1>13. ASSUME NEW t \in Threads, FinishDestroy(t) PROVE TypeOK'
    BY <1>13, IdleType DEF FinishDestroy, DlTypeOK, dlVars
  <1>14. ASSUME NEW t \in Threads, NEW l \in Loaders, NEW s \in Symbols,
                NEW i \in Insts, InstantiateFromFile(t, l, s, i)
         PROVE  TypeOK'
    <2> DEFINE n == LookupPlugin(registry[l], s)
    <2>1. n \in Symbols
      BY <1>14, LookupType DEF InstantiateFromFile
    <2>2. registry[l].plugins[n].lib \in Code
      BY <1>14, <2>1 DEF InstantiateFromFile, RegistryValue, Info
    <2>3. pluginToDlHandlePtrs[l][n] \in Handles \cup {NoHandle}
      BY <2>1
    <2> HIDE DEF n
    <2>4. [lib |-> registry[l].plugins[n].lib, loader |-> l,
           handle |-> pluginToDlHandlePtrs[l][n]] \in Instance
      BY <2>2, <2>3 DEF Instance
    <2>5. inst' \in [Insts -> Instance \cup {NoInst}]
      BY <1>14, <2>4 DEF InstantiateFromFile, n
    <2> QED BY <1>14, <2>5 DEF InstantiateFromFile, DlTypeOK, dlVars
  <1>15. ASSUME NEW t \in Threads, NEW l \in Loaders, NEW s \in Symbols,
                NEW i \in Insts, InstantiateStatic(t, l, s, i)
         PROVE  TypeOK'
    <2>1. inst' \in [Insts -> Instance \cup {NoInst}]
      BY <1>15 DEF InstantiateStatic, Instance
    <2> QED BY <1>15, <2>1 DEF InstantiateStatic, DlTypeOK, dlVars
  <1>16. ASSUME NEW t \in Threads, NEW i \in Insts, DeleteInstance(t, i)
         PROVE  TypeOK'
    <2>1. closing' \in [Threads -> Handles \cup {NoHandle}]
      <3>1. inst[i] \in Instance
        BY <1>16 DEF DeleteInstance
      <3>2. inst[i].handle \in Handles \cup {NoHandle}
        BY <3>1 DEF Instance
      <3> QED BY <1>16, <3>2, DropRefType DEF DeleteInstance
    <2> QED BY <1>16, <2>1 DEF DeleteInstance, DlTypeOK, dlVars
  <1>17. ASSUME NEW t \in Threads, CloseHandle(t) PROVE TypeOK'
    <2>1. DlTypeOK'
      BY <1>17, DlStepType DEF CloseHandle
    <2> QED BY <1>17, <2>1 DEF CloseHandle
  <1>18. ASSUME NEW t \in Threads, NEW l \in Loaders, NEW lib \in Libs,
                NEW keep \in BOOLEAN, LoadLibError(t, l, lib, keep)
         PROVE  TypeOK'
    <2>1. DlTypeOK'
      BY <1>18, DlStepType DEF LoadLibError
    <2> QED BY <1>18, <2>1 DEF LoadLibError
  <1>19. CASE UNCHANGED vars
    BY <1>19 DEF vars, DlTypeOK, dlVars
  <1> QED
    BY <1>1, <1>2, <1>3, <1>4, <1>5, <1>6, <1>7, <1>8, <1>9, <1>10, <1>11,
       <1>12, <1>13, <1>14, <1>15, <1>16, <1>17, <1>18, <1>19
    DEF Next, Invoke, Continue

(* Every reachable state is well typed. *)
THEOREM LoaderTypeCorrect == Spec => []TypeOK
  BY LoaderTypeInit, LoaderTypeStep, PTL DEF Spec
=============================================================================
