---------------------------- MODULE QueryProofs ----------------------------
(***************************************************************************)
(* Theorems about the queries of Registration.  A Loader that knows a      *)
(* plugin knows all that was registered for it, by however many macros, so *)
(* its answers about interfaces and aliases agree with the registrations,  *)
(* provided that a hook keeps the libraries it serves, that no two objects *)
(* register one name, and that demangling tells classes apart.             *)
(***************************************************************************)
EXTENDS RegistrationProofs

-----------------------------------------------------------------------------
(* The inductive invariant *)

(* All registrations of plugins named n, by whatever object. *)
RegistrationsOf(n) ==
  {r \in UNION {Registers[o] : o \in Objects} : NameOf[r.class] = n}

(* What a call has read of a plugin is all that was registered for it. *)
CallFull(k) ==
  k.op = "register" =>
    \A c \in Classes :
      k.infos[c] # NoInfo => Gathers(k.infos[c], RegistrationsOf(NameOf[c]))

EntryFull(entry, n) ==
  /\ entry.name = n
  /\ entry.demangled = Demangled(entry)
  /\ Gathers(entry, RegistrationsOf(n))

(* Infos and handles come and go together; the alias index is exact. *)
TableFull(t, hs) ==
  /\ \A n \in Symbols : t.plugins[n] # NoInfo <=> hs[n] # NoLib
  /\ \A n \in Symbols : t.plugins[n] # NoInfo => EntryFull(t.plugins[n], n)
  /\ \A a \in Symbols :
       t.aliases[a] = {n \in Symbols : /\ t.plugins[n] # NoInfo
                                       /\ a \in t.plugins[n].aliases}

CallsFull == \A l \in Loaders : CallFull(call[l])

TablesFull == \A l \in Loaders : TableFull(filePlugins[l], handles[l])

(* Nothing of a known plugin is still to be registered. *)
DoneInv ==
  \A l \in Loaders, n \in Symbols :
    filePlugins[l].plugins[n] # NoInfo =>
      \A o \in Objects : RegistersName(o, n) => pending[o] = {}

-----------------------------------------------------------------------------
(* What a Loader reads from a hook *)

LEMMA RegistrationsOfFacts ==
  ASSUME NEW n
  PROVE  \A r : r \in RegistrationsOf(n) <=>
                  \E o \in Objects : r \in Registers[o] /\ NameOf[r.class] = n
  BY DEF RegistrationsOf

(* The registrations that have reached a hook when it is read are all that *)
(* there are for the plugins it has.                                       *)
LEMMA HookFull ==
  ASSUME UniqueNames, DistinctNames, TypeOK, HookExact, HookNotRead,
         NEW l \in Loaders, call[l].op = "hook",
         NEW h \in Libs, call[l].hook = h,
         NEW c \in Classes, pluginMap[h][c] # NoInfo
  PROVE  Gathers(pluginMap[h][c], RegistrationsOf(NameOf[c]))
  <1> DEFINE got == Reached(mapped, bound, pending, h, c)
             all == RegistrationsOf(NameOf[c])
  <1>1. Gathers(pluginMap[h][c], got)
    BY HookExactIff, Zenon DEF HookExactFor
  <1>2. PICK m \in mapped :
          bound[m] = h /\ \E q \in Registers[m] : q.class = c
    <2>1. got # {}
      BY <1>1 DEF Gathers
    <2> QED BY <2>1, ReachedIff
  <1>3. m \in Objects /\ m \in Libs
    BY ConstantTypes DEF TypeOK
  <1>4. pending[m] = {}
    BY <1>2, <1>3 DEF HookNotRead
  <1>5. RegistersName(m, NameOf[c])
    BY <1>2 DEF RegistersName
  <1>6. ASSUME NEW r \in all PROVE r \in got
    <2>1. PICK o \in Objects : r \in Registers[o] /\ NameOf[r.class] = NameOf[c]
      BY <1>6, RegistrationsOfFacts
    <2>2. r.class \in Classes
      BY <2>1, ConstantTypes DEF Registration
    <2>3. r.class = c
      BY <2>1, <2>2 DEF DistinctNames
    <2>4. RegistersName(o, NameOf[c])
      BY <2>1 DEF RegistersName
    <2>5. o = m
      BY <1>3, <1>5, <2>4, ConstantTypes DEF UniqueNames
    <2>6. bound[m] = h /\ r \in Registers[m] /\ r \notin pending[m]
      BY <1>2, <1>4, <2>1, <2>5
    <2> QED BY <2>3, <2>6, ReachedIff
  <1>7. ASSUME NEW r \in got PROVE r \in all
    <2>1. PICK k \in mapped : r \in Registers[k] /\ r.class = c
      BY <1>7, ReachedIff
    <2>2. k \in Objects
      BY ConstantTypes DEF TypeOK
    <2> QED BY <2>1, <2>2, RegistrationsOfFacts
  <1>8. got = all
    BY <1>6, <1>7
  <1> HIDE DEF got, all
  <1> QED BY <1>1, <1>8 DEF all

-----------------------------------------------------------------------------
(* The table of a Loader *)

(* Two Infos that gather the same registrations have the same aliases.     *)
LEMMA SameAliases ==
  ASSUME NEW x, NEW y, NEW regs, Gathers(x, regs), Gathers(y, regs), x # NoInfo
  PROVE  x.aliases = y.aliases
  BY DEF Gathers

(* Registering a plugin that has all its registrations: what is known by   *)
(* the name already has them too.                                          *)
LEMMA AddFull ==
  ASSUME NEW t \in Tables, NEW hs \in [Symbols -> Libs \cup {NoLib}],
         TableFull(t, hs), NEW info \in Info, NEW n \in Symbols,
         EntryFull(info, n), NEW lib \in Libs
  PROVE  TableFull(Table!AddInfo(t, info), [hs EXCEPT ![n] = lib])
  <1> DEFINE after == Table!AddInfo(t, info)
             new == [hs EXCEPT ![n] = lib]
  <1>0. info.name = n /\ info # NoInfo /\ lib # NoLib
    BY ConstantTypes, OpenedFacts DEF EntryFull
  <1>1. \A m \in Symbols : after.plugins[m] =
          IF m = n /\ t.plugins[m] = NoInfo THEN info ELSE t.plugins[m]
    BY <1>0 DEF Table!AddInfo
  <1>2. \A a \in Symbols : after.aliases[a] =
          IF a \in info.aliases THEN t.aliases[a] \cup {n} ELSE t.aliases[a]
    BY <1>0 DEF Table!AddInfo
  <1>3. \A m \in Symbols : new[m] = IF m = n THEN lib ELSE hs[m]
    OBVIOUS
  <1> HIDE DEF after, new
  <1>4. \A m \in Symbols : after.plugins[m] # NoInfo <=> new[m] # NoLib
    BY <1>0, <1>1, <1>3 DEF TableFull
  <1>5. \A m \in Symbols :
          after.plugins[m] # NoInfo => EntryFull(after.plugins[m], m)
    BY <1>1 DEF TableFull
  <1>6. /\ after.plugins[n] # NoInfo
        /\ after.plugins[n].aliases = info.aliases
    <2>1. CASE t.plugins[n] = NoInfo
      BY <1>0, <1>1, <2>1
    <2>2. CASE t.plugins[n] # NoInfo
      <3>1. /\ Gathers(t.plugins[n], RegistrationsOf(n))
            /\ Gathers(info, RegistrationsOf(n))
        BY <2>2 DEF TableFull, EntryFull
      <3>2. t.plugins[n].aliases = info.aliases
        BY <2>2, <3>1, SameAliases, Zenon
      <3> QED BY <1>1, <2>2, <3>2
    <2> QED BY <2>1, <2>2
  <1>7. ASSUME NEW a \in Symbols
        PROVE  after.aliases[a] = {m \in Symbols :
                                     /\ after.plugins[m] # NoInfo
                                     /\ a \in after.plugins[m].aliases}
    <2>1. t.aliases[a] = {m \in Symbols : /\ t.plugins[m] # NoInfo
                                          /\ a \in t.plugins[m].aliases}
      BY DEF TableFull
    <2>2. t.plugins[n] # NoInfo => t.plugins[n] = after.plugins[n]
      BY <1>1
    <2>3. \A m \in Symbols \ {n} : after.plugins[m] = t.plugins[m]
      BY <1>1
    <2>4. ASSUME NEW m \in Symbols
          PROVE  m \in after.aliases[a] <=> /\ after.plugins[m] # NoInfo
                                            /\ a \in after.plugins[m].aliases
      <3>1. CASE m = n
        BY <1>2, <1>6, <2>1, <2>2, <3>1
      <3>2. CASE m # n
        <4>1. m \in after.aliases[a] <=> m \in t.aliases[a]
          BY <1>2, <3>2
        <4>2. after.plugins[m] = t.plugins[m]
          BY <2>3, <3>2
        <4>3. m \in t.aliases[a] <=> /\ t.plugins[m] # NoInfo
                                     /\ a \in t.plugins[m].aliases
          BY <2>1
        <4> QED BY <4>1, <4>2, <4>3, Zenon
      <3> QED BY <3>1, <3>2
    <2>5. after.aliases[a] \subseteq Symbols
      BY <1>2, <2>1
    <2> QED BY <2>4, <2>5
  <1>8. TableFull(after, new)
    BY <1>4, <1>5, <1>7, Zenon DEF TableFull
  <1> QED BY <1>8 DEF after, new

(* Forgetting a plugin withdraws its name from all its aliases.            *)
LEMMA ForgetFull ==
  ASSUME NEW t \in Tables, NEW hs \in [Symbols -> Libs \cup {NoLib}],
         TableFull(t, hs), NEW n \in Symbols
  PROVE  TableFull(Table!ForgetInfo(t, n), [hs EXCEPT ![n] = NoLib])
  <1> DEFINE after == Table!ForgetInfo(t, n)
             new == [hs EXCEPT ![n] = NoLib]
  <1>1. /\ after.plugins[n] = NoInfo
        /\ \A m \in Symbols \ {n} : after.plugins[m] = t.plugins[m]
    BY DEF Table!ForgetInfo, Tables
  <1>2. \A m \in Symbols : new[m] = IF m = n THEN NoLib ELSE hs[m]
    OBVIOUS
  <1>3. ASSUME NEW a \in Symbols
        PROVE  after.aliases[a] = t.aliases[a] \ {n}
    <2>1. t.aliases[a] = {m \in Symbols : /\ t.plugins[m] # NoInfo
                                          /\ a \in t.plugins[m].aliases}
      BY DEF TableFull
    <2>2. CASE t.plugins[n] = NoInfo
      <3>1. after = t
        BY <2>2 DEF Table!ForgetInfo
      <3> QED BY <2>1, <2>2, <3>1
    <2>3. CASE t.plugins[n] # NoInfo
      <3>1. t.plugins[n].name = n
        BY <2>3 DEF TableFull, EntryFull
      <3>2. after.aliases[a] = IF a \in t.plugins[n].aliases
                               THEN t.aliases[a] \ {n} ELSE t.aliases[a]
        BY <2>3, <3>1 DEF Table!ForgetInfo
      <3> HIDE DEF after
      <3> QED BY <2>1, <3>2
    <2> QED BY <2>2, <2>3
  <1> HIDE DEF after, new
  <1>4. \A m \in Symbols : after.plugins[m] # NoInfo <=> new[m] # NoLib
    BY <1>1, <1>2 DEF TableFull
  <1>5. \A m \in Symbols :
          after.plugins[m] # NoInfo => EntryFull(after.plugins[m], m)
    BY <1>1 DEF TableFull
  <1>6. ASSUME NEW a \in Symbols
        PROVE  after.aliases[a] = {m \in Symbols :
                                     /\ after.plugins[m] # NoInfo
                                     /\ a \in after.plugins[m].aliases}
    <2>1. t.aliases[a] = {m \in Symbols : /\ t.plugins[m] # NoInfo
                                          /\ a \in t.plugins[m].aliases}
      BY DEF TableFull
    <2>2. \A m \in Symbols :
            m \in after.aliases[a] <=> /\ after.plugins[m] # NoInfo
                                       /\ a \in after.plugins[m].aliases
      BY <1>1, <1>3, <2>1
    <2>3. after.aliases[a] \subseteq Symbols
      BY <1>3, <2>1
    <2> QED BY <2>2, <2>3
  <1>7. TableFull(after, new)
    BY <1>4, <1>5, <1>6, Zenon DEF TableFull
  <1> QED BY <1>7 DEF after, new

LEMMA FullInit == Init => CallsFull /\ TablesFull /\ DoneInv
  <1> SUFFICES ASSUME Init PROVE CallsFull /\ TablesFull /\ DoneInv
    OBVIOUS
  <1>1. CallsFull
    BY DEF Init, CallsFull, CallFull, Idle
  <1>2. ASSUME NEW l \in Loaders
        PROVE  /\ \A n \in Symbols : /\ filePlugins[l].plugins[n] = NoInfo
                                     /\ handles[l][n] = NoLib
               /\ \A a \in Symbols : filePlugins[l].aliases[a] = {}
    BY DEF Init, Table!EmptyRegistry
  <1>3. TablesFull
    BY <1>2 DEF TablesFull, TableFull
  <1>4. DoneInv
    BY <1>2 DEF DoneInv
  <1> QED BY <1>1, <1>3, <1>4

(* A step of one Loader's call says nothing of the other calls.            *)
LEMMA CallsFullStep ==
  ASSUME TypeOK, CallsFull, NEW l \in Loaders, NEW new,
         call' = [call EXCEPT ![l] = new], CallFull(new)
  PROVE  CallsFull'
  BY DEF CallsFull, TypeOK

LEMMA CallsFullNext ==
  ASSUME UniqueNames, DistinctNames
  PROVE  TypeOK /\ CallInv /\ LinkInv /\ HookExact /\ HookNotRead /\ CallsFull
           /\ [Next]_vars => CallsFull'
  <1> SUFFICES ASSUME TypeOK, CallInv, LinkInv, HookExact, HookNotRead,
                      CallsFull, [Next]_vars
               PROVE  CallsFull'
    OBVIOUS
  <1>0. \A l \in Loaders :
          CallGood(call[l]) /\ call[l] \in Call /\ CallFull(call[l])
    BY DEF CallInv, TypeOK, CallsFull
  <1>1. UNCHANGED call => CallsFull'
    BY DEF CallsFull
  <1>2. ASSUME NEW l \in Loaders, NEW lib \in Libs, LoadLib(l, lib)
        PROVE  CallsFull'
    <2>1. CallFull([Idle EXCEPT !.op = "opened", !.lib = lib])
      BY DEF CallFull, Idle
    <2> QED BY <1>2, <2>1, CallsFullStep DEF LoadLib
  <1>3. ASSUME NEW l \in Loaders, NEW lib \in Libs, ForgetLibrary(l, lib)
        PROVE  CallsFull'
    <2>1. CallFull([Idle EXCEPT !.op = "forget", !.lib = lib,
                                !.left = provides[l][lib]])
      BY DEF CallFull, Idle
    <2> QED BY <1>3, <2>1, CallsFullStep DEF ForgetLibrary
  <1>4. ASSUME NEW l \in Loaders, FindHook(l) PROVE CallsFull'
    <2> DEFINE h == FirstHook(SearchList[call[l].lib])
               new == IF h = NoLib
                      THEN [call[l] EXCEPT !.op = "register",
                                           !.verdict = "missing"]
                      ELSE [call[l] EXCEPT !.op = "hook", !.hook = h]
    <2>1. call[l].infos = EmptyMap
      BY <1>0, <1>4 DEF CallGood, FindHook
    <2> HIDE DEF h
    <2>2. new.infos = EmptyMap
      BY <1>0, <2>1 DEF Call
    <2>3. call' = [call EXCEPT ![l] = new]
      BY <1>4, Zenon DEF FindHook, h
    <2> HIDE DEF new
    <2>4. CallFull(new)
      BY <2>2 DEF CallFull, EmptyMap
    <2> QED BY <2>3, <2>4, CallsFullStep
  <1>5. ASSUME NEW l \in Loaders, LoadPlugins(l) PROVE CallsFull'
    <2> DEFINE h == call[l].hook
               infos == IF Verdict(h) = "ok" THEN pluginMap[h] ELSE EmptyMap
               new == [call[l] EXCEPT
                         !.op = "register", !.verdict = Verdict(h),
                         !.infos = infos,
                         !.left = {c \in Classes : infos[c] # NoInfo}]
    <2>1. /\ call[l].op = "hook" /\ h \in Libs
      BY <1>0, <1>5, OpenedFacts DEF CallGood, LoadPlugins
    <2>2. new.infos = infos
      BY <1>0 DEF Call
    <2>3. call' = [call EXCEPT ![l] = new]
      BY <1>5, Zenon DEF LoadPlugins
    <2>4. ASSUME NEW c \in Classes, infos[c] # NoInfo
          PROVE  Gathers(infos[c], RegistrationsOf(NameOf[c]))
      <3>1. infos = pluginMap[h]
        BY <2>4 DEF EmptyMap
      <3>2. pluginMap[h][c] # NoInfo
        BY <2>4, <3>1
      <3>3. Gathers(pluginMap[h][c], RegistrationsOf(NameOf[c]))
        BY <2>1, <3>2, HookFull
      <3> HIDE DEF infos, h
      <3> QED BY <3>1, <3>3
    <2> HIDE DEF new, infos
    <2>5. CallFull(new)
      BY <2>2, <2>4 DEF CallFull
    <2> QED BY <2>3, <2>5, CallsFullStep
  <1>6. ASSUME NEW l \in Loaders, NEW x,
               \/ x \in Classes /\ RegisterPlugin(l, x)
               \/ x \in Symbols /\ ForgetPlugin(l, x)
        PROVE  CallsFull'
    <2> DEFINE new == [call[l] EXCEPT !.left = @ \ {x}]
    <2>1. call' = [call EXCEPT ![l].left = @ \ {x}]
      BY <1>6 DEF RegisterPlugin, ForgetPlugin
    <2>2. call' = [call EXCEPT ![l] = new]
      BY <2>1
    <2>3. new.op = call[l].op /\ new.infos = call[l].infos
      BY <1>0 DEF Call
    <2> HIDE DEF new
    <2>4. CallFull(new)
      BY <1>0, <2>3 DEF CallFull
    <2> QED BY <2>2, <2>4, CallsFullStep
  <1>7. ASSUME NEW l \in Loaders, FinishLoad(l) \/ FinishForget(l)
        PROVE  CallsFull'
    <2>1. CallFull(Idle)
      BY DEF CallFull, Idle
    <2> QED BY <1>7, <2>1, CallsFullStep DEF FinishLoad, FinishForget
  <1>8. /\ \A lib \in Libs : \A r : Register(lib, r) => UNCHANGED call
        /\ \A r : RegisterStatic(r) => UNCHANGED call
        /\ UNCHANGED vars => UNCHANGED call
    BY DEF Register, RegisterStatic, vars
  <1> QED
    BY <1>1, <1>2, <1>3, <1>4, <1>5, <1>6, <1>7, <1>8, Steps

LEMMA TablesFullStep ==
  ASSUME TypeOK, TablesFull, NEW l \in Loaders, NEW t, NEW hs,
         filePlugins' = [filePlugins EXCEPT ![l] = t],
         handles' = [handles EXCEPT ![l] = hs], TableFull(t, hs)
  PROVE  TablesFull'
  BY DEF TablesFull, TypeOK

(* The steps that change what a Loader has. *)
LEMMA TableSteps ==
  ASSUME [Next]_vars
  PROVE  \/ \E l \in Loaders, c \in Classes : RegisterPlugin(l, c)
         \/ \E l \in Loaders, n \in Symbols : ForgetPlugin(l, n)
         \/ UNCHANGED <<filePlugins, handles>>
  <1>1. /\ \A lib \in Libs : \A r :
             Register(lib, r) => UNCHANGED <<filePlugins, handles>>
        /\ \A r : RegisterStatic(r) => UNCHANGED <<filePlugins, handles>>
        /\ \A l \in Loaders, lib \in Libs :
             LoadLib(l, lib) \/ ForgetLibrary(l, lib) =>
               UNCHANGED <<filePlugins, handles>>
        /\ \A l \in Loaders :
             FindHook(l) \/ LoadPlugins(l) \/ FinishLoad(l) \/ FinishForget(l) =>
               UNCHANGED <<filePlugins, handles>>
        /\ UNCHANGED vars => UNCHANGED <<filePlugins, handles>>
    BY DEF Register, RegisterStatic, LoadLib, ForgetLibrary, FindHook,
           LoadPlugins, FinishLoad, FinishForget, vars, tableVars
  <1> QED BY <1>1, Steps

LEMMA TablesFullNext ==
  TypeOK /\ CallInv /\ CallsFull /\ TablesFull /\ [Next]_vars => TablesFull'
  <1> SUFFICES ASSUME TypeOK, CallInv, CallsFull, TablesFull, [Next]_vars
               PROVE  TablesFull'
    OBVIOUS
  <1>1. UNCHANGED <<filePlugins, handles>> => TablesFull'
    BY DEF TablesFull
  <1>2. ASSUME NEW l \in Loaders, NEW c \in Classes, RegisterPlugin(l, c)
        PROVE  TablesFull'
    <2> DEFINE info == call[l].infos[c]
               n == NameOf[c]
               lib == call[l].lib
               kept == [info EXCEPT !.name = n, !.demangled = Demangled(info)]
               t == Table!AddInfo(filePlugins[l], kept)
               hs == [handles[l] EXCEPT ![n] = lib]
    <2>1. /\ call[l].op = "register" /\ info # NoInfo /\ info \in Info
          /\ n \in Symbols /\ lib \in Libs
      BY <1>2, ConstantTypes
         DEF CallInv, CallGood, RegisterPlugin, TypeOK, Call, InfoMap
    <2>2. Gathers(info, RegistrationsOf(n))
      BY <2>1 DEF CallsFull, CallFull
    <2> HIDE DEF info, lib, n
    <2>3. /\ kept \in Info /\ kept.name = n
          /\ kept.casts = info.casts /\ kept.aliases = info.aliases
          /\ kept.demangled = Demangled(info)
      BY <2>1, DemangledType DEF Info
    <2>4. filePlugins' = [filePlugins EXCEPT ![l] = t]
      BY <1>2, Zenon DEF RegisterPlugin, info, n
    <2>5. handles' = [handles EXCEPT ![l] = hs]
      BY <1>2 DEF RegisterPlugin, n, lib
    <2> HIDE DEF kept
    <2>6. Provided(kept) = Provided(info) /\ Demangled(kept) = Demangled(info)
      BY <2>3 DEF Demangled, Provided
    <2>7. kept # NoInfo
      BY <2>3, ConstantTypes
    <2>8. EntryFull(kept, n)
      BY <2>1, <2>2, <2>3, <2>6, <2>7 DEF EntryFull, Gathers
    <2>9. /\ TableFull(filePlugins[l], handles[l]) /\ filePlugins[l] \in Tables
          /\ handles[l] \in [Symbols -> Libs \cup {NoLib}]
      BY DEF TablesFull, TypeOK
    <2>10. TableFull(t, hs)
      BY <2>1, <2>3, <2>8, <2>9, AddFull
    <2> HIDE DEF t, hs
    <2> QED BY <2>4, <2>5, <2>10, TablesFullStep
  <1>3. ASSUME NEW l \in Loaders, NEW n \in Symbols, ForgetPlugin(l, n)
        PROVE  TablesFull'
    <2> DEFINE t == Table!ForgetInfo(filePlugins[l], n)
               hs == [handles[l] EXCEPT ![n] = NoLib]
    <2>1. filePlugins' = [filePlugins EXCEPT ![l] = t]
      BY <1>3, Zenon DEF ForgetPlugin
    <2>2. handles' = [handles EXCEPT ![l] = hs]
      BY <1>3 DEF ForgetPlugin
    <2>3. /\ TableFull(filePlugins[l], handles[l]) /\ filePlugins[l] \in Tables
          /\ handles[l] \in [Symbols -> Libs \cup {NoLib}]
      BY DEF TablesFull, TypeOK
    <2>4. TableFull(t, hs)
      BY <2>3, ForgetFull
    <2> HIDE DEF t, hs
    <2> QED BY <2>1, <2>2, <2>4, TablesFullStep
  <1> QED BY <1>1, <1>2, <1>3, TableSteps

(* The object that registers a plugin that a Loader knows is a library,    *)
(* and loaded.                                                             *)
LEMMA OwnerLoaded ==
  ASSUME UniqueNames, TypeOK, LinkInv, TablesCode, NEW l \in Loaders,
         NEW n \in Symbols, filePlugins[l].plugins[n] # NoInfo,
         NEW o \in Objects, RegistersName(o, n)
  PROVE  o \in mapped /\ o \in Libs
  <1> DEFINE entry == filePlugins[l].plugins[n]
             m == entry.factory
  <1>1. /\ handles[l][n] \in Libs
        /\ CodeWithin(entry, Opened(handles[l][n]), n)
    BY DEF TablesCode, TableCode
  <1>2. m \in Opened(handles[l][n]) /\ RegistersName(m, n)
    BY <1>1 DEF CodeWithin, CodeOf
  <1>3. handles[l][n] \in mapped
    BY <1>1, OpenedFacts DEF LinkInv, RootsIn
  <1>4. m \in mapped /\ m \in Libs
    BY <1>1, <1>2, <1>3, OpenedFacts DEF LinkInv
  <1> HIDE DEF m, entry
  <1>5. m = o
    BY <1>2, <1>4, ConstantTypes DEF UniqueNames
  <1> QED BY <1>4, <1>5

LEMMA DoneNext ==
  ASSUME UniqueNames
  PROVE  TypeOK /\ CallInv /\ LinkInv /\ TablesCode /\ DoneInv /\ [Next]_vars =>
           DoneInv'
  <1> SUFFICES ASSUME TypeOK, CallInv, LinkInv, TablesCode, DoneInv, [Next]_vars
               PROVE  DoneInv'
    OBVIOUS
  <1> DEFINE Less(p, q) == \A o \in Objects : p[o] = {} => q[o] = {}
  <1>1. ASSUME UNCHANGED filePlugins, Less(pending, pending') PROVE DoneInv'
    BY <1>1 DEF DoneInv
  <1>2. ASSUME NEW o \in Objects, NEW r, pending' = [pending EXCEPT ![o] = @ \ {r}]
        PROVE  Less(pending, pending')
    BY <1>2 DEF TypeOK
  <1>3. ASSUME NEW lib \in Libs, NEW r, Register(lib, r) PROVE DoneInv'
    <2>1. UNCHANGED filePlugins /\ lib \in Objects
          /\ pending' = [pending EXCEPT ![lib] = @ \ {r}]
      BY <1>3, ConstantTypes DEF Register, tableVars
    <2> QED BY <1>1, <1>2, <2>1
  <1>4. ASSUME NEW r, RegisterStatic(r) PROVE DoneInv'
    <2>1. UNCHANGED filePlugins /\ Exe \in Objects
          /\ pending' = [pending EXCEPT ![Exe] = @ \ {r}]
      BY <1>4, ConstantTypes DEF RegisterStatic, tableVars
    <2> QED BY <1>1, <1>2, <2>1
  <1>5. ASSUME NEW l \in Loaders, NEW lib \in Libs, LoadLib(l, lib)
        PROVE  DoneInv'
    <2>1. UNCHANGED filePlugins
      BY <1>5 DEF LoadLib, tableVars
    <2>2. ASSUME NEW k \in Loaders, NEW n \in Symbols,
                 filePlugins[k].plugins[n] # NoInfo,
                 NEW o \in Objects, RegistersName(o, n)
          PROVE  pending'[o] = {}
      <3>1. o \in mapped /\ o \in Libs
        BY <2>2, OwnerLoaded
      <3> QED BY <1>5, <3>1, LoadFacts
    <2> QED BY <2>1, <2>2 DEF DoneInv
  <1>6. ASSUME Quiet, UNCHANGED pending PROVE DoneInv'
    BY <1>6 DEF Quiet, DoneInv
  <1>7. ASSUME NEW l \in Loaders, NEW n \in Symbols, ForgetPlugin(l, n)
        PROVE  DoneInv'
    BY <1>6, <1>7 DEF ForgetPlugin, Unload
  <1>8. ASSUME NEW l \in Loaders, NEW c \in Classes, RegisterPlugin(l, c)
        PROVE  DoneInv'
    BY <1>6, <1>8 DEF RegisterPlugin, Unload
  <1>9. ASSUME UNCHANGED <<filePlugins, pending>> PROVE DoneInv'
    BY <1>9 DEF DoneInv
  <1>10. /\ \A l \in Loaders, lib \in Libs :
              ForgetLibrary(l, lib) => UNCHANGED <<filePlugins, pending>>
         /\ \A l \in Loaders :
              FindHook(l) \/ LoadPlugins(l) \/ FinishLoad(l) \/ FinishForget(l) =>
                UNCHANGED <<filePlugins, pending>>
         /\ UNCHANGED vars => UNCHANGED <<filePlugins, pending>>
    BY DEF ForgetLibrary, FindHook, LoadPlugins, FinishLoad, FinishForget,
           Unload, vars, linkVars, tableVars
  <1> HIDE DEF Less
  <1> QED BY <1>3, <1>4, <1>5, <1>7, <1>8, <1>9, <1>10, Steps

-----------------------------------------------------------------------------
(* What a Loader answers *)

(* What was registered of a plugin gives it an interface, or an alias. *)
HasInterface(n, k) ==
  \E o \in Objects : \E r \in Registers[o] \ pending[o] :
    NameOf[r.class] = n /\ k \in Inserted(r)

HasAlias(os, n, a) ==
  \E o \in os : \E r \in Registers[o] \ pending[o] :
    NameOf[r.class] = n /\ a \in r.aliases

(* The entries of table t are in order, and have what was registered. *)
Answers(t, os) ==
  /\ \A n \in Symbols : t.plugins[n] # NoInfo =>
       /\ t.plugins[n].name = n
       /\ t.plugins[n].demangled = Demangled(t.plugins[n])
       /\ \A k \in Interfaces : k \in Provided(t.plugins[n]) <=> HasInterface(n, k)
       /\ \A a \in Symbols :
            /\ a \in t.plugins[n].aliases <=> HasAlias(os, n, a)
            /\ HasAlias(Objects, n, a) <=> HasAlias(os, n, a)
  /\ \A a \in Symbols :
       t.aliases[a] = {n \in Symbols : t.plugins[n] # NoInfo
                                         /\ a \in t.plugins[n].aliases}

LEMMA FileAnswers ==
  ASSUME UniqueNames, TypeOK, LinkInv, TablesCode, TablesFull, DoneInv,
         NEW l \in Loaders
  PROVE  Answers(filePlugins[l], Libs)
  <1> DEFINE t == filePlugins[l]
  <1>1. TableFull(t, handles[l])
    BY DEF TablesFull
  <1>2. ASSUME NEW n \in Symbols, t.plugins[n] # NoInfo
        PROVE  /\ \A k \in Interfaces :
                    k \in Provided(t.plugins[n]) <=> HasInterface(n, k)
               /\ \A a \in Symbols :
                    /\ a \in t.plugins[n].aliases <=> HasAlias(Libs, n, a)
                    /\ HasAlias(Objects, n, a) <=> HasAlias(Libs, n, a)
    <2> DEFINE regs == RegistrationsOf(n)
    <2>1. ASSUME NEW o \in Objects, NEW r \in Registers[o], NameOf[r.class] = n
          PROVE  o \in Libs /\ r \in Registers[o] \ pending[o]
      <3>1. RegistersName(o, n)
        BY <2>1 DEF RegistersName
      <3>2. o \in Libs
        BY <1>2, <3>1, OwnerLoaded
      <3>3. pending[o] = {}
        BY <1>2, <3>1 DEF DoneInv
      <3> QED BY <3>2, <3>3
    <2>2. \A r : r \in regs <=> \E o \in Objects : /\ r \in Registers[o]
                                                   /\ NameOf[r.class] = n
      BY RegistrationsOfFacts
    <2> HIDE DEF regs
    <2>3. /\ Provided(t.plugins[n]) = UNION {Inserted(r) : r \in regs}
          /\ t.plugins[n].aliases = UNION {r.aliases : r \in regs}
      BY <1>1, <1>2 DEF TableFull, EntryFull, Gathers, regs
    <2> HIDE DEF t
    <2>4. \A k : k \in Provided(t.plugins[n]) <=> HasInterface(n, k)
      BY <2>1, <2>2, <2>3 DEF HasInterface
    <2>5. \A a : a \in t.plugins[n].aliases <=> HasAlias(Libs, n, a)
      BY <2>1, <2>2, <2>3, ConstantTypes DEF HasAlias
    <2>6. \A a : HasAlias(Objects, n, a) <=> HasAlias(Libs, n, a)
      BY <2>1, ConstantTypes DEF HasAlias
    <2> QED BY <2>4, <2>5, <2>6
  <1> HIDE DEF t
  <1>3. Answers(t, Libs)
    BY <1>1, <1>2, Zenon DEF TableFull, EntryFull, Answers
  <1> QED BY <1>3 DEF t

LEMMA StaticAnswers ==
  ASSUME UniqueNames, StaticInv
  PROVE  Answers(staticPlugins, {Exe})
  <1> DEFINE t == staticPlugins
             D == Registers[Exe] \ pending[Exe]
             Regs(n) == {r \in D : NameOf[r.class] = n}
  <1>1. ExactFor(t, D)
    BY DEF StaticInv
  <1>2. ASSUME NEW n \in Symbols, t.plugins[n] # NoInfo
        PROVE  /\ \A k \in Interfaces :
                    k \in Provided(t.plugins[n]) <=> HasInterface(n, k)
               /\ \A a \in Symbols :
                    /\ a \in t.plugins[n].aliases <=> HasAlias({Exe}, n, a)
                    /\ HasAlias(Objects, n, a) <=> HasAlias({Exe}, n, a)
    <2> DEFINE regs == Regs(n)
    <2>1. Gathers(t.plugins[n], regs)
      BY <1>1 DEF ExactFor
    <2>2. PICK q \in D : NameOf[q.class] = n
      BY <1>2, <2>1 DEF Gathers
    <2>3. RegistersName(Exe, n)
      BY <2>2 DEF RegistersName
    <2>4. ASSUME NEW o \in Objects, NEW r \in Registers[o], NameOf[r.class] = n
          PROVE  o = Exe
      <3>1. RegistersName(o, n)
        BY <2>4 DEF RegistersName
      <3> QED BY <2>3, <3>1, ConstantTypes DEF UniqueNames
    <2>5. \A r : r \in regs <=> r \in D /\ NameOf[r.class] = n
      OBVIOUS
    <2>6. /\ Provided(t.plugins[n]) = UNION {Inserted(r) : r \in regs}
          /\ t.plugins[n].aliases = UNION {r.aliases : r \in regs}
      BY <1>2, <2>1, <2>2 DEF Gathers
    <2> HIDE DEF regs, t
    <2>7. \A k : k \in Provided(t.plugins[n]) <=> HasInterface(n, k)
      BY <2>4, <2>5, <2>6, ConstantTypes DEF HasInterface
    <2>8. \A a : a \in t.plugins[n].aliases <=> HasAlias({Exe}, n, a)
      BY <2>5, <2>6 DEF HasAlias
    <2>9. \A a : HasAlias(Objects, n, a) <=> HasAlias({Exe}, n, a)
      BY <2>4, ConstantTypes DEF HasAlias
    <2> QED BY <2>7, <2>8, <2>9
  <1>3. ASSUME NEW a \in Symbols
        PROVE  t.aliases[a] = {n \in Symbols : t.plugins[n] # NoInfo
                                                 /\ a \in t.plugins[n].aliases}
    <2>1. t.aliases[a] = {NameOf[r.class] : r \in {q \in D : a \in q.aliases}}
      BY <1>1 DEF ExactFor
    <2>2. \A r \in D : NameOf[r.class] \in Symbols
      BY ConstantTypes DEF Registration
    <2>3. ASSUME NEW n \in Symbols
          PROVE  n \in t.aliases[a] <=> /\ t.plugins[n] # NoInfo
                                        /\ a \in t.plugins[n].aliases
      <3>1. Gathers(t.plugins[n], Regs(n))
        BY <1>1 DEF ExactFor
      <3> DEFINE regs == Regs(n)
      <3>2. \A r : r \in regs <=> r \in D /\ NameOf[r.class] = n
        OBVIOUS
      <3>3. Gathers(t.plugins[n], regs)
        BY <3>1
      <3> HIDE DEF regs, t, D
      <3>4. CASE regs = {}
        BY <2>1, <3>2, <3>3, <3>4 DEF Gathers
      <3>5. CASE regs # {}
        <4>1. t.plugins[n] # NoInfo
              /\ t.plugins[n].aliases = UNION {r.aliases : r \in regs}
          BY <3>3, <3>5 DEF Gathers
        <4> QED BY <2>1, <3>2, <4>1
      <3> QED BY <3>4, <3>5
    <2> HIDE DEF t, D
    <2>4. t.aliases[a] \subseteq Symbols
      BY <2>1, <2>2
    <2> QED BY <2>3, <2>4
  <1>4. \A n \in Symbols : t.plugins[n] # NoInfo =>
          t.plugins[n].name = n /\ t.plugins[n].demangled = Demangled(t.plugins[n])
    BY <1>1, Zenon DEF ExactFor
  <1> HIDE DEF t
  <1>5. Answers(t, {Exe})
    BY <1>2, <1>3, <1>4, Zenon DEF Answers
  <1> QED BY <1>5 DEF t

(* What a table with exact entries says of its plugins. *)
LEMMA TableQueries ==
  ASSUME NEW t, NEW os, Answers(t, os)
  PROVE  /\ \A k \in Interfaces : \A n :
              n \in Implementing(t, k) <=> /\ n \in Symbols
                                           /\ t.plugins[n] # NoInfo
                                           /\ HasInterface(n, k)
         /\ \A d, n :
              n \in ImplementingDemangled(t, d) <=>
                /\ n \in Symbols /\ t.plugins[n] # NoInfo
                /\ \E k \in Interfaces : HasInterface(n, k) /\ InterfaceName[k] = d
         /\ \A d : d \in Implemented(t) <=>
                     \E n : n \in ImplementingDemangled(t, d)
  <1> DEFINE Here(n) == n \in Symbols /\ t.plugins[n] # NoInfo
  <1>1. \A n : n \in Table!AllPlugins(t) <=> Here(n)
    BY DEF Table!AllPlugins
  <1>2. ASSUME NEW n, Here(n)
        PROVE  /\ t.plugins[n].name = n
               /\ \A k \in Interfaces :
                    k \in Provided(t.plugins[n]) <=> HasInterface(n, k)
    BY <1>2, Zenon DEF Answers
  <1>3. ASSUME NEW n, Here(n), NEW d
        PROVE  d \in t.plugins[n].demangled <=>
                 \E k \in Interfaces : HasInterface(n, k) /\ InterfaceName[k] = d
    <2>1. t.plugins[n].demangled = {InterfaceName[k] : k \in Provided(t.plugins[n])}
      BY <1>3, Zenon DEF Answers, Demangled
    <2>2. Provided(t.plugins[n]) \subseteq Interfaces
      BY DEF Provided
    <2> QED BY <1>2, <1>3, <2>1, <2>2
  <1>4. ASSUME NEW k \in Interfaces, NEW n
        PROVE  n \in Implementing(t, k) <=> Here(n) /\ HasInterface(n, k)
    <2>1. n \in Implementing(t, k) <=>
            \E m \in Table!AllPlugins(t) : /\ k \in Provided(t.plugins[m])
                                           /\ n = t.plugins[m].name
      BY DEF Implementing
    <2> HIDE DEF Here
    <2> QED BY <1>1, <1>2, <2>1
  <1>5. ASSUME NEW d, NEW n
        PROVE  n \in ImplementingDemangled(t, d) <=>
                 Here(n) /\ d \in t.plugins[n].demangled
    <2>1. n \in ImplementingDemangled(t, d) <=>
            \E m \in Table!AllPlugins(t) : /\ d \in t.plugins[m].demangled
                                           /\ n = t.plugins[m].name
      BY DEF ImplementingDemangled
    <2> HIDE DEF Here
    <2> QED BY <1>1, <1>2, <2>1
  <1>6. ASSUME NEW d
        PROVE  d \in Implemented(t) <=>
                 \E n : Here(n) /\ d \in t.plugins[n].demangled
    <2>1. d \in Implemented(t) <=>
            \E n \in Table!AllPlugins(t) : d \in t.plugins[n].demangled
      BY DEF Implemented
    <2> HIDE DEF Here
    <2> QED BY <1>1, <2>1
  <1>7. \A d, n :
          n \in ImplementingDemangled(t, d) <=>
            /\ Here(n)
            /\ \E k \in Interfaces : HasInterface(n, k) /\ InterfaceName[k] = d
    <2> HIDE DEF Here
    <2> QED BY <1>3, <1>5
  <1>8. \A d : d \in Implemented(t) <=> \E n : n \in ImplementingDemangled(t, d)
    <2> HIDE DEF Here
    <2> QED BY <1>5, <1>6
  <1> QED BY <1>4, <1>7, <1>8

(* The invariants imply what is said of interfaces.                        *)
LEMMA InterfaceAnswers ==
  ASSUME UniqueNames, TypeOK, LinkInv, TablesCode, TablesFull, DoneInv, StaticInv
  PROVE  QueriesExact
  <1> SUFFICES ASSUME NEW l \in Loaders
      PROVE
        LET Known == {n \in Symbols : handles[l][n] # NoLib
                                        \/ staticPlugins.plugins[n] # NoInfo}
            Has(n, k) == \E o \in Objects : \E r \in Registers[o] \ pending[o] :
                           NameOf[r.class] = n /\ k \in Inserted(r)
        IN /\ \A k \in Interfaces :
                PluginsImplementing(l, k) = {n \in Known : Has(n, k)}
           /\ \A d \in InterfaceNames :
                /\ PluginsImplementingDemangled(l, d) =
                     UNION {PluginsImplementing(l, k) :
                              k \in {j \in Interfaces : InterfaceName[j] = d}}
                /\ d \in InterfacesImplemented(l)
                     <=> PluginsImplementingDemangled(l, d) # {}
    BY Zenon DEF QueriesExact
  <1> DEFINE file == filePlugins[l]
             static == staticPlugins
             Known == {n \in Symbols : handles[l][n] # NoLib
                                         \/ static.plugins[n] # NoInfo}
             InFile(n) == n \in Symbols /\ file.plugins[n] # NoInfo
             InStatic(n) == n \in Symbols /\ static.plugins[n] # NoInfo
             Named(n, d) ==
               \E k \in Interfaces : HasInterface(n, k) /\ InterfaceName[k] = d
  <1>1. Answers(file, Libs) /\ Answers(static, {Exe})
    BY FileAnswers, StaticAnswers
  <1>2. /\ \A k \in Interfaces : \A n :
             n \in Implementing(file, k) <=> InFile(n) /\ HasInterface(n, k)
        /\ \A d, n :
             n \in ImplementingDemangled(file, d) <=> InFile(n) /\ Named(n, d)
        /\ \A d : d \in Implemented(file) <=>
                    \E n : n \in ImplementingDemangled(file, d)
    BY <1>1, TableQueries, Zenon
  <1>3. /\ \A k \in Interfaces : \A n :
             n \in Implementing(static, k) <=> InStatic(n) /\ HasInterface(n, k)
        /\ \A d, n :
             n \in ImplementingDemangled(static, d) <=> InStatic(n) /\ Named(n, d)
        /\ \A d : d \in Implemented(static) <=>
                    \E n : n \in ImplementingDemangled(static, d)
    BY <1>1, TableQueries, Zenon
  <1>4. \A n : n \in Known <=> InFile(n) \/ InStatic(n)
    BY DEF TablesFull, TableFull
  <1>5. /\ \A k : PluginsImplementing(l, k) =
                    Implementing(file, k) \cup Implementing(static, k)
        /\ \A d : PluginsImplementingDemangled(l, d) =
                    ImplementingDemangled(file, d)
                      \cup ImplementingDemangled(static, d)
        /\ InterfacesImplemented(l) = Implemented(file) \cup Implemented(static)
    BY Zenon DEF PluginsImplementing, PluginsImplementingDemangled,
                 InterfacesImplemented
  <1> HIDE DEF file, static, InFile, InStatic, Known, Named
  <1>6. ASSUME NEW k \in Interfaces, NEW n
        PROVE  n \in PluginsImplementing(l, k) <=> n \in Known /\ HasInterface(n, k)
    BY <1>2, <1>3, <1>4, <1>5
  <1>7. ASSUME NEW d, NEW n
        PROVE  n \in PluginsImplementingDemangled(l, d) <=>
                 n \in Known /\ Named(n, d)
    BY <1>2, <1>3, <1>4, <1>5
  <1>8. ASSUME NEW k \in Interfaces
        PROVE  PluginsImplementing(l, k) = {n \in Known : HasInterface(n, k)}
    BY <1>6
  <1>9. ASSUME NEW d \in InterfaceNames
        PROVE  PluginsImplementingDemangled(l, d) =
                 UNION {PluginsImplementing(l, k) :
                          k \in {j \in Interfaces : InterfaceName[j] = d}}
    <2>1. ASSUME NEW n
          PROVE  n \in PluginsImplementingDemangled(l, d) <=>
                   \E k \in Interfaces : /\ InterfaceName[k] = d
                                         /\ n \in PluginsImplementing(l, k)
      BY <1>6, <1>7 DEF Named
    <2> QED BY <2>1
  <1>10. ASSUME NEW d
         PROVE  d \in InterfacesImplemented(l)
                  <=> PluginsImplementingDemangled(l, d) # {}
    <2>1. d \in InterfacesImplemented(l) <=>
            \/ \E n : n \in ImplementingDemangled(file, d)
            \/ \E n : n \in ImplementingDemangled(static, d)
      BY <1>2, <1>3, <1>5, Zenon
    <2>2. \A n : n \in PluginsImplementingDemangled(l, d) <=>
                   \/ n \in ImplementingDemangled(file, d)
                   \/ n \in ImplementingDemangled(static, d)
      BY <1>5, Zenon
    <2> QED BY <2>1, <2>2
  <1> QED BY <1>8, <1>9, <1>10, Zenon DEF HasInterface, Known, static

(* The invariants imply what is said of aliases.                           *)
LEMMA AliasAnswers ==
  ASSUME UniqueNames, TypeOK, LinkInv, TablesCode, TablesFull, DoneInv, StaticInv
  PROVE  AliasQueriesExact
  <1> DEFINE Done(os) == UNION {Registers[o] \ pending[o] : o \in os}
             Claimed(os, ns, a) ==
               ns \cap {NameOf[r.class] : r \in {q \in Done(os) : a \in q.aliases}}
             Loaded(l) == {n \in Symbols : handles[l][n] # NoLib}
             Static == {n \in Symbols : staticPlugins.plugins[n] # NoInfo}
             Both(l) == Loaded(l) \cup Static
  <1>1. ASSUME NEW os, NEW ns, NEW a, NEW n
        PROVE  n \in Claimed(os, ns, a) <=> n \in ns /\ HasAlias(os, n, a)
    BY DEF HasAlias
  <1> HIDE DEF Claimed
  <1>2. ASSUME NEW l \in Loaders, NEW a \in Symbols
        PROVE  /\ AllPlugins(l) = Both(l)
               /\ PluginsWithAlias(l, a) =
                    Claimed(Objects, Both(l), a) \cup (AllPlugins(l) \cap {a})
               /\ {n \in Symbols : a \in AliasesOfPlugin(l, n)} =
                    Claimed(Objects, Both(l), a)
               /\ a \in Table!CollidingAliases(filePlugins[l])
                    <=> \E m, n \in Claimed(Libs, Loaded(l), a) : m # n
               /\ a \in Table!CollidingAliases(staticPlugins)
                    <=> \E m, n \in Claimed({Exe}, Static, a) : m # n
    <2> DEFINE file == filePlugins[l]
               static == staticPlugins
    <2>1. Answers(file, Libs) /\ Answers(static, {Exe})
      BY FileAnswers, StaticAnswers
    <2>2. \A n \in Symbols : /\ n \in Loaded(l) <=> file.plugins[n] # NoInfo
                             /\ n \in Static <=> static.plugins[n] # NoInfo
      BY DEF TablesFull, TableFull
    <2> DEFINE all == Both(l)
               here == Loaded(l)
               there == Static
    <2>3. all = here \cup there /\ here \subseteq Symbols /\ there \subseteq Symbols
      OBVIOUS
    <2>4. /\ Table!AllPlugins(file) = here /\ Table!AllPlugins(static) = there
          /\ AllPlugins(l) = all
      <3>1. /\ Table!AllPlugins(file) = here /\ Table!AllPlugins(static) = there
        BY <2>2 DEF Table!AllPlugins
      <3> QED BY <3>1 DEF AllPlugins
    <2> HIDE DEF Loaded, Static, Both, all, here, there
    <2>5. \A n \in Symbols :
            /\ n \in file.aliases[a] <=> n \in here /\ HasAlias(Libs, n, a)
            /\ n \in static.aliases[a] <=> n \in there /\ HasAlias({Exe}, n, a)
      <3>1. \A n \in Symbols :
              /\ n \in here <=> file.plugins[n] # NoInfo
              /\ n \in there <=> static.plugins[n] # NoInfo
        BY <2>2 DEF here, there
      <3>2. /\ file.aliases[a] = {n \in Symbols : /\ file.plugins[n] # NoInfo
                                                  /\ a \in file.plugins[n].aliases}
            /\ static.aliases[a] =
                 {n \in Symbols : /\ static.plugins[n] # NoInfo
                                  /\ a \in static.plugins[n].aliases}
        BY <2>1, Zenon DEF Answers
      <3>3. \A n \in Symbols :
              /\ file.plugins[n] # NoInfo =>
                   (a \in file.plugins[n].aliases <=> HasAlias(Libs, n, a))
              /\ static.plugins[n] # NoInfo =>
                   (a \in static.plugins[n].aliases <=> HasAlias({Exe}, n, a))
        BY <2>1, Zenon DEF Answers
      <3> HIDE DEF file, static
      <3> QED BY <3>1, <3>2, <3>3
    <2>6. file.aliases[a] \subseteq Symbols /\ static.aliases[a] \subseteq Symbols
      BY <2>1 DEF Answers
    <2>7. \A n \in Symbols :
            /\ n \in here => (HasAlias(Objects, n, a) <=> HasAlias(Libs, n, a))
            /\ n \in there => (HasAlias(Objects, n, a) <=> HasAlias({Exe}, n, a))
      BY <2>1, <2>2, Zenon DEF Answers, here, there
    <2>8. /\ file.aliases[a] = Claimed(Libs, here, a)
          /\ static.aliases[a] = Claimed({Exe}, there, a)
      BY <1>1, <2>3, <2>5, <2>6
    <2>9. file.aliases[a] \cup static.aliases[a] = Claimed(Objects, all, a)
      <3>1. \A n : n \in file.aliases[a] \cup static.aliases[a] <=>
                     n \in all /\ HasAlias(Objects, n, a)
        BY <2>3, <2>5, <2>6, <2>7
      <3> QED BY <1>1, <3>1
    <2>10. PluginsWithAlias(l, a) =
             Claimed(Objects, all, a) \cup (AllPlugins(l) \cap {a})
      <3>1. /\ file.plugins[a] # NoInfo <=> a \in here
            /\ static.plugins[a] # NoInfo <=> a \in there
        BY <2>2 DEF here, there
      <3>2. PluginsWithAlias(l, a) =
              (file.aliases[a] \cup static.aliases[a])
                \cup (IF a \in here THEN {a} ELSE {})
                \cup (IF a \in there THEN {a} ELSE {})
        BY <3>1 DEF PluginsWithAlias, Table!PluginsWithAlias
      <3> QED BY <2>3, <2>4, <2>9, <3>2
    <2>11. {n \in Symbols : a \in AliasesOfPlugin(l, n)} = Claimed(Objects, all, a)
      <3>1. ASSUME NEW n \in Symbols
            PROVE  a \in AliasesOfPlugin(l, n) <=>
                     n \in file.aliases[a] \/ n \in static.aliases[a]
        <4>1. /\ n \in file.aliases[a] <=> /\ file.plugins[n] # NoInfo
                                           /\ a \in file.plugins[n].aliases
              /\ n \in static.aliases[a] <=> /\ static.plugins[n] # NoInfo
                                             /\ a \in static.plugins[n].aliases
          BY <2>1 DEF Answers
        <4> QED BY <4>1 DEF AliasesOfPlugin, Table!AliasesOfPlugin
      <3> QED BY <2>6, <2>9, <3>1
    <2>12. /\ a \in Table!CollidingAliases(file)
                <=> \E m, n \in Claimed(Libs, here, a) : m # n
           /\ a \in Table!CollidingAliases(static)
                <=> \E m, n \in Claimed({Exe}, there, a) : m # n
      BY <2>8 DEF Table!CollidingAliases
    <2> QED
      BY <2>4, <2>10, <2>11, <2>12 DEF all, here, there
  <1>3. ASSUME NEW l \in Loaders PROVE AllPlugins(l) = Both(l)
    <2>1. \A n \in Symbols : filePlugins[l].plugins[n] # NoInfo
                               <=> handles[l][n] # NoLib
      BY DEF TablesFull, TableFull
    <2> QED BY <2>1 DEF AllPlugins, Table!AllPlugins
  <1> QED BY <1>2, <1>3, Zenon DEF AliasQueriesExact, Claimed

-----------------------------------------------------------------------------
(* Theorems about the queries *)

(* The invariants hold together, with those they rest on.                  *)
LEMMA QueryInvariants ==
  ASSUME OwnHooks, UniqueNames, DistinctNames
  PROVE  Spec => [](TypeOK /\ LinkInv /\ TablesCode /\ TablesFull /\ DoneInv
                      /\ StaticInv)
  <1>1. Init => MapsCode /\ CallsCode /\ TablesCode
    BY CodeInit DEF CodeInv, MapsCode, CallsCode, TablesCode
  <1>2. Init => CallsFull /\ TablesFull /\ DoneInv
    BY FullInit
  <1>3. TypeOK /\ CallInv /\ PendingInv /\ LinkInv /\ HookInv /\ HookExact
          /\ HookNotRead /\ MapsCode /\ CallsCode /\ TablesCode
          /\ CallsFull /\ TablesFull /\ DoneInv /\ [Next]_vars =>
            (MapsCode /\ CallsCode /\ TablesCode
               /\ CallsFull /\ TablesFull /\ DoneInv)'
    BY MapsNext, CallsNext, TablesNext, CallsFullNext, TablesFullNext, DoneNext
  <1>4. StaticExact => StaticInv
    BY StaticInvIsExact
  <1> QED BY <1>1, <1>2, <1>3, <1>4, HookInvariants, RegistrationStaticExact,
             PTL DEF Spec

(* What a Loader answers about interfaces, by mangled and by demangled     *)
(* names, is what was registered for the plugins it knows: each plugin     *)
(* that a Loader takes from a library has all its registrations, by        *)
(* however many macros, and keeps them until it is forgotten.  The         *)
(* assumptions are about how libraries are built: a hook keeps the         *)
(* libraries it serves, no two objects register a plugin by one name, and  *)
(* no two classes have one name.                                           *)
THEOREM RegistrationQueriesExact ==
  ASSUME OwnHooks, UniqueNames, DistinctNames PROVE Spec => []QueriesExact
  <1>1. TypeOK /\ LinkInv /\ TablesCode /\ TablesFull /\ DoneInv /\ StaticInv =>
          QueriesExact
    BY InterfaceAnswers
  <1> QED BY <1>1, QueryInvariants, PTL

(* What a Loader answers about aliases is what was registered for the      *)
(* plugins it knows, and PrettyStr reports a collision exactly while two   *)
(* of them claim one alias: the index of aliases follows the Infos through *)
(* every load and forget.                                                  *)
THEOREM RegistrationAliasQueriesExact ==
  ASSUME OwnHooks, UniqueNames, DistinctNames PROVE Spec => []AliasQueriesExact
  <1>1. TypeOK /\ LinkInv /\ TablesCode /\ TablesFull /\ DoneInv /\ StaticInv =>
          AliasQueriesExact
    BY AliasAnswers
  <1> QED BY <1>1, QueryInvariants, PTL

=============================================================================
