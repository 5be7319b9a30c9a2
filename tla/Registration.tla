---------------------------- MODULE Registration ----------------------------
(***************************************************************************)
(* How plugins become known: the registration macros                       *)
(* (register/include/gz/plugin/detail), the GzPluginHook of a plugin       *)
(* library, the process-wide StaticRegistry, and what Loader::LoadLib      *)
(* makes of them.                                                          *)
(*                                                                         *)
(* A macro defines an object with static lifetime whose constructor        *)
(* registers one Info.  The objects of a library are constructed when it   *)
(* is loaded, in an order that is not specified between translation units. *)
(* GzPluginHook is one function per plugin library, with external linkage: *)
(* which library's hook a registrar reaches is up to symbol resolution,    *)
(* first among the libraries the executable is linked to, then among those *)
(* of the dlopen that loaded the registrar's library.                      *)
(*                                                                         *)
(* Handles, counts of opens and instances are the subject of module        *)
(* Loader; here a library is loaded while a Loader has an entry for it.    *)
(***************************************************************************)
EXTENDS FiniteSets, Naturals, Sequences

CONSTANTS
  Libs,           \* the shared libraries
  Exe,            \* the executable
  Loaders,        \* Loader objects, each used by a thread of its own
  Classes,        \* plugin classes, by typeid name
  Symbols,        \* demangled names of plugins, and aliases
  NameOf,         \* NameOf[c]: DemangleSymbol of a class name
  Interfaces,     \* interface types, by typeid name
  InterfaceNames, \* and by demangled name
  InterfaceName,  \* InterfaceName[k]: DemangleSymbol of an interface name
  FromThis,       \* the interface EnablePluginFromThis
  Enabled,        \* the classes that inherit it
  Registers,      \* Registers[o]: the registrations compiled into o, with
                  \*   the static macros when o is the executable
  HasHook,        \* the libraries that define GzPluginHook (Register.hh)
  SearchList,     \* SearchList[lib]: lib, what it is linked to, what that
                  \*   is linked to, ..., in the order of symbol lookup
  LinkOrder,      \* the libraries that the executable is linked to
  Abi,            \* Abi[lib]: version and layout of Info lib is built with
  LoaderAbi,      \* those the Loader is built with
  NoInfo, NoName, NoLib, NoCast, NoMap   \* null values

Objects == Libs \cup {Exe}

(* One use of GZ_ADD_PLUGIN, or of GZ_ADD_PLUGIN_ALIAS when `alias' is     *)
(* TRUE.  GZ_ADD_FACTORY is one use of each.                               *)
Registration == [class : Classes, interfaces : SUBSET Interfaces,
                 aliases : SUBSET Symbols, alias : BOOLEAN]

(* An Info.  `factory' and `casts' tell the object whose code the factory, *)
(* the deleter and the casting functions are.                              *)
Info == [name : Classes \cup Symbols, factory : Objects,
         casts : [Interfaces -> Objects \cup {NoCast}],
         demangled : SUBSET InterfaceNames, aliases : SUBSET Symbols]

InfoMap == [Classes -> Info \cup {NoInfo}]

EmptyMap == [c \in Classes |-> NoInfo]

Members(s) == {s[i] : i \in DOMAIN s}

ASSUME RegistrationAssumption ==
  /\ Exe \notin Libs /\ NoLib \notin Objects /\ NoCast \notin Objects
  /\ NameOf \in [Classes -> Symbols]
  /\ InterfaceName \in [Interfaces -> InterfaceNames]
  /\ FromThis \in Interfaces
  /\ Registers \in [Objects -> SUBSET Registration]
  /\ \A o \in Objects : \A r \in Registers[o] :
       IF r.alias THEN r.interfaces = {} ELSE r.aliases = {}
  /\ HasHook \subseteq Libs
  /\ \A lib \in Libs : Registers[lib] # {} => lib \in HasHook
  /\ SearchList \in [Libs -> Seq(Libs)]
  /\ \A lib \in Libs : lib \in Members(SearchList[lib])
  /\ LinkOrder \in Seq(Libs)
  /\ \A lib \in Libs : \A m \in Members(SearchList[lib]) :
       Members(SearchList[m]) \subseteq Members(SearchList[lib])
  /\ \A m \in Members(LinkOrder) :
       Members(SearchList[m]) \subseteq Members(LinkOrder)
  /\ Abi \in [Libs -> [version : Nat, layout : Nat]]
  /\ LoaderAbi \in [version : Nat, layout : Nat]
  /\ NoInfo \notin Info /\ NoMap \notin InfoMap /\ NoName \notin Symbols

(* The Loader's table of plugins. *)
Table == INSTANCE Registry WITH Code <- Objects

VARIABLES
  mapped,         \* the libraries that are loaded
  bound,          \* bound[lib]: library whose hook the registrars of lib call
  pending,        \* pending[o]: registrations whose constructors have yet
                  \*   to run
  pluginMap,      \* pluginMap[lib]: static variable of lib's GzPluginHook
  staticPlugins,  \* the StaticRegistry
  filePlugins,    \* filePlugins[l]: the registry of Loader l
  handles,        \* handles[l][n]: library of the pluginToDlHandlePtrs entry
  provides,       \* provides[l][lib]: names of the dlHandleToPluginMap entry
  call            \* call[l]: the call that Loader l is in

linkVars == <<mapped, bound, pending, pluginMap>>
tableVars == <<filePlugins, handles, provides>>
vars == <<linkVars, staticPlugins, tableVars, call>>

Verdicts == {"none", "missing", "version", "layout", "unknown", "ok"}

(* op is the place reached: `opened' after dlopen, `hook' about to call    *)
(* the hook that dlsym found, `register' in the loop of LoadLib, `forget'  *)
(* in that of ForgetLibrary.  infos is what the hook has given, left the   *)
(* classes or the names that the loop has still to do.                     *)
Idle == [op |-> "idle", lib |-> NoLib, hook |-> NoLib, verdict |-> "none",
         infos |-> EmptyMap, left |-> {}]

Call == [op : {"idle", "opened", "hook", "register", "forget"},
         lib : Libs \cup {NoLib}, hook : Libs \cup {NoLib},
         verdict : Verdicts, infos : InfoMap,
         left : SUBSET (Classes \cup Symbols)]

-----------------------------------------------------------------------------
(* MakeInfo and the registrars *)

(* The interfaces that a registration enters: the listed ones, and         *)
(* EnablePluginFromThis when the class inherits it.  An alias enters none. *)
Inserted(r) ==
  IF r.alias THEN {}
  ELSE r.interfaces \cup (IF r.class \in Enabled THEN {FromThis} ELSE {})

MakeInfo(o, r) ==
  [name |-> r.class, factory |-> o,
   casts |-> [k \in Interfaces |-> IF k \in Inserted(r) THEN o ELSE NoCast],
   demangled |-> {}, aliases |-> r.aliases]

Provided(info) == {k \in Interfaces : info.casts[k] # NoCast}

Demangled(info) == {InterfaceName[k] : k \in Provided(info)}

CodeOf(info) ==
  {info.factory} \cup {info.casts[k] : k \in Provided(info)}

(* Mutation for HookExact: a second registration brings only aliases. *)
MergeAliases(entry, info) ==
  [entry EXCEPT !.aliases = @ \cup info.aliases]

(* std::unordered_map::insert and std::set::insert on each element: what   *)
(* the entry has stays.                                                    *)
Merge(entry, info) ==
  [entry EXCEPT
     !.casts = [k \in Interfaces |->
                  IF entry.casts[k] = NoCast THEN info.casts[k]
                  ELSE entry.casts[k]],
     !.aliases = @ \cup info.aliases]

(* GzPluginHook with an input. *)
InputInfo(map, info) ==
  [map EXCEPT ![info.name] =
     IF @ = NoInfo THEN info ELSE Merge(@, info)]

(* Mutation for RefusalExplained: the layout is not reported back. *)
OutputWithoutLayout(h, asked) ==
  [allInfo |-> IF Abi[h] = asked THEN pluginMap[h] ELSE NoMap,
   abi |-> [Abi[h] EXCEPT !.layout = asked.layout]]

(* GzPluginHook with an output: its own version and layout are always      *)
(* reported, its map only when they agree with those asked for.            *)
OutputAllInfo(h, asked) ==
  [allInfo |-> IF Abi[h] = asked THEN pluginMap[h] ELSE NoMap,
   abi |-> Abi[h]]

(* Mutation for StaticExact: the names of interfaces that come with a      *)
(* later registration are not entered.                                     *)
StaticAddInfoShort(r, info) ==
  LET n == NameOf[info.name] IN
  [plugins |-> [r.plugins EXCEPT ![n] =
                  IF @ = NoInfo
                  THEN [info EXCEPT !.name = n, !.demangled = Demangled(info)]
                  ELSE Merge(@, info)],
   aliases |-> [a \in Symbols |->
                  IF a \in info.aliases THEN r.aliases[a] \cup {n}
                  ELSE r.aliases[a]]]

(* StaticRegistry::AddInfo *)
StaticAddInfo(r, info) ==
  LET n == NameOf[info.name]
      entry == r.plugins[n]
  IN
  [plugins |-> [r.plugins EXCEPT ![n] =
                  IF entry = NoInfo
                  THEN [info EXCEPT !.name = n, !.demangled = Demangled(info)]
                  ELSE [Merge(entry, info) EXCEPT
                          !.demangled = @ \cup Demangled(info)]],
   aliases |-> [a \in Symbols |->
                  IF a \in info.aliases THEN r.aliases[a] \cup {n}
                  ELSE r.aliases[a]]]

-----------------------------------------------------------------------------
(* The dynamic linker *)

FirstHook(list) ==
  LET Found == {i \in DOMAIN list : list[i] \in HasHook}
  IN IF Found = {} THEN NoLib
     ELSE list[CHOOSE i \in Found : \A j \in Found : i <= j]

(* What dlopen(lib) loads. *)
Opened(lib) == Members(SearchList[lib])

(* The hook that the registrars of lib reach, lib being loaded with the    *)
(* given search list; the lookup takes place in the first of them.         *)
BoundHook(lib, list) ==
  IF Registers[lib] = {} THEN NoLib ELSE FirstHook(LinkOrder \o list)

(* All constructors of loaded objects have run: no dlopen is in progress,  *)
(* and main has begun.  A call into the dynamic linker waits for this.     *)
Quiet == \A o \in Objects : pending[o] = {}

(* The registrars of o run after those of the libraries it is linked to. *)
MayInitialise(o) ==
  LET needed == IF o = Exe THEN Members(LinkOrder) ELSE Opened(o)
  IN \A lib \in needed \ {o} : pending[lib] = {}

(* The libraries that stay loaded, given the entries and the calls of the  *)
(* Loaders: those a handle refers to, with all they are linked to and all  *)
(* they have bound a symbol to.                                            *)
Kept(hs, calls) ==
  LET Roots == Members(LinkOrder)
                 \cup {lib \in Libs : \E l \in Loaders :
                         \/ \E n \in Symbols : hs[l][n] = lib
                         \/ /\ calls[l].op \in {"opened", "hook", "register"}
                            /\ calls[l].lib = lib}
      Closed(S) == \A lib \in S :
                     /\ Opened(lib) \subseteq S
                     /\ bound[lib] \in S \cup {NoLib}
  IN {lib \in Libs : \A S \in SUBSET Libs :
                       Roots \subseteq S /\ Closed(S) => lib \in S}

(* Entries or calls changed: what nothing refers to any more is unloaded,  *)
(* and its hook's map goes with it.                                        *)
Unload ==
  /\ mapped' = Kept(handles', call')
  /\ pluginMap' = [lib \in Libs |->
                     IF lib \in mapped' THEN pluginMap[lib] ELSE EmptyMap]
  /\ bound' = [lib \in Libs |->
                 IF lib \in mapped' THEN bound[lib] ELSE NoLib]
  /\ UNCHANGED pending

-----------------------------------------------------------------------------
Init ==
  /\ mapped = Members(LinkOrder)
  /\ bound = [lib \in Libs |->
                IF lib \in mapped THEN BoundHook(lib, <<>>) ELSE NoLib]
  /\ pending = [o \in Objects |-> IF o \in mapped \cup {Exe}
                                  THEN Registers[o] ELSE {}]
  /\ pluginMap = [lib \in Libs |-> EmptyMap]
  /\ staticPlugins = Table!EmptyRegistry
  /\ filePlugins = [l \in Loaders |-> Table!EmptyRegistry]
  /\ handles = [l \in Loaders |-> [n \in Symbols |-> NoLib]]
  /\ provides = [l \in Loaders |-> [lib \in Libs |-> {}]]
  /\ call = [l \in Loaders |-> Idle]

(* Registrar::Register, RegisterAlias *)
Register(lib, r) ==
  /\ MayInitialise(lib)
  /\ r \in pending[lib]
  /\ pending' = [pending EXCEPT ![lib] = @ \ {r}]
  /\ pluginMap' = [pluginMap EXCEPT ![bound[lib]] =
                     InputInfo(@, MakeInfo(lib, r))]
  /\ UNCHANGED <<mapped, bound, staticPlugins, tableVars, call>>

(* StaticRegistrar::Register, RegisterAlias *)
RegisterStatic(r) ==
  /\ MayInitialise(Exe)
  /\ r \in pending[Exe]
  /\ pending' = [pending EXCEPT ![Exe] = @ \ {r}]
  /\ staticPlugins' = StaticAddInfo(staticPlugins, MakeInfo(Exe, r))
  /\ UNCHANGED <<mapped, bound, pluginMap, tableVars, call>>

(* Mutation for ReportsOwn and HookNotRead: RTLD_GLOBAL, so that the       *)
(* libraries loaded before come first in the lookup.                       *)
LoadLibGlobal(l, lib) ==
  LET new == Opened(lib) \ mapped
      earlier == mapped \cap HasHook
  IN
  /\ Quiet
  /\ call[l] = Idle
  /\ call' = [call EXCEPT ![l] = [Idle EXCEPT !.op = "opened", !.lib = lib]]
  /\ mapped' = mapped \cup new
  /\ bound' = [m \in Libs |->
                 IF m \notin new THEN bound[m]
                 ELSE IF earlier # {} THEN CHOOSE h \in earlier : TRUE
                 ELSE BoundHook(m, SearchList[lib])]
  /\ pending' = [o \in Objects |->
                   IF o \in new THEN Registers[o] ELSE pending[o]]
  /\ UNCHANGED <<pluginMap, staticPlugins, tableVars>>

(* Loader::LoadLib: the dlopen of Implementation::LoadLib *)
LoadLib(l, lib) ==
  LET new == Opened(lib) \ mapped IN
  /\ Quiet
  /\ call[l] = Idle
  /\ call' = [call EXCEPT ![l] = [Idle EXCEPT !.op = "opened", !.lib = lib]]
  /\ mapped' = mapped \cup new
  /\ bound' = [m \in Libs |-> IF m \in new
                              THEN BoundHook(m, SearchList[lib])
                              ELSE bound[m]]
  /\ pending' = [o \in Objects |->
                   IF o \in new THEN Registers[o] ELSE pending[o]]
  /\ UNCHANGED <<pluginMap, staticPlugins, tableVars>>

(* Implementation::LoadPlugins: dlsym finds the first hook of the library  *)
(* and what it is linked to.                                               *)
FindHook(l) ==
  LET h == FirstHook(SearchList[call[l].lib]) IN
  /\ Quiet
  /\ call[l].op = "opened"
  /\ call' = [call EXCEPT
       ![l] = IF h = NoLib
              THEN [@ EXCEPT !.op = "register", !.verdict = "missing"]
              ELSE [@ EXCEPT !.op = "hook", !.hook = h]]
  /\ UNCHANGED <<linkVars, staticPlugins, tableVars>>

Verdict(h) ==
  LET answer == OutputAllInfo(h, LoaderAbi) IN
  IF answer.abi.version # LoaderAbi.version THEN "version"
  ELSE IF answer.abi.layout # LoaderAbi.layout THEN "layout"
  ELSE IF answer.allInfo = NoMap THEN "unknown" ELSE "ok"

(* ... the call of the hook, and the copy of the map it points to *)
LoadPlugins(l) ==
  LET h == call[l].hook
      infos == IF Verdict(h) = "ok" THEN pluginMap[h] ELSE EmptyMap
  IN
  /\ call[l].op = "hook"
  /\ call' = [call EXCEPT
       ![l] = [@ EXCEPT !.op = "register", !.verdict = Verdict(h),
                        !.infos = infos,
                        !.left = {c \in Classes : infos[c] # NoInfo}]]
  /\ UNCHANGED <<linkVars, staticPlugins, tableVars>>

(* Mutation for QueriesExact: the list of interface names is not made. *)
RegisterPluginShort(l, c) ==
  LET n == NameOf[c] IN
  /\ Quiet
  /\ call[l].op = "register"
  /\ c \in call[l].left
  /\ filePlugins' = [filePlugins EXCEPT ![l] =
       Table!AddInfo(@, [call[l].infos[c] EXCEPT !.name = n])]
  /\ handles' = [handles EXCEPT ![l][n] = call[l].lib]
  /\ call' = [call EXCEPT ![l].left = @ \ {c}]
  /\ Unload
  /\ UNCHANGED <<staticPlugins, provides>>

(* Mutation for TypeOK: the name is not demangled. *)
RegisterPluginMangled(l, c) ==
  LET info == call[l].infos[c] IN
  /\ Quiet
  /\ call[l].op = "register"
  /\ c \in call[l].left
  /\ filePlugins' = [filePlugins EXCEPT ![l] =
       Table!AddInfo(@, [info EXCEPT !.demangled = Demangled(info)])]
  /\ handles' = [handles EXCEPT ![l][NameOf[c]] = call[l].lib]
  /\ call' = [call EXCEPT ![l].left = @ \ {c}]
  /\ Unload
  /\ UNCHANGED <<staticPlugins, provides>>

(* Loader::LoadLib, one turn of its loop *)
RegisterPlugin(l, c) ==
  LET info == call[l].infos[c]
      n == NameOf[c]
  IN
  /\ Quiet
  /\ call[l].op = "register"
  /\ c \in call[l].left
  /\ filePlugins' = [filePlugins EXCEPT ![l] =
       Table!AddInfo(@, [info EXCEPT !.name = n,
                                     !.demangled = Demangled(info)])]
  /\ handles' = [handles EXCEPT ![l][n] = call[l].lib]
  /\ call' = [call EXCEPT ![l].left = @ \ {c}]
  /\ Unload
  /\ UNCHANGED <<staticPlugins, provides>>

(* ... its end: the local dlHandle goes *)
FinishLoad(l) ==
  /\ Quiet
  /\ call[l].op = "register"
  /\ call[l].left = {}
  /\ provides' = [provides EXCEPT ![l][call[l].lib] =
       {NameOf[c] : c \in {d \in Classes : call[l].infos[d] # NoInfo}}]
  /\ call' = [call EXCEPT ![l] = Idle]
  /\ UNCHANGED <<filePlugins, handles>>
  /\ Unload
  /\ UNCHANGED staticPlugins

(* Loader::ForgetLibrary.  (It returns false when the library is not       *)
(* loaded; without an entry the loop has nothing to do.)                   *)
ForgetLibrary(l, lib) ==
  /\ Quiet
  /\ call[l] = Idle
  /\ lib \in mapped
  /\ call' = [call EXCEPT ![l] = [Idle EXCEPT !.op = "forget", !.lib = lib,
                                              !.left = provides[l][lib]]]
  /\ UNCHANGED <<linkVars, staticPlugins, tableVars>>

(* Mutation for InfoCodeLoaded: the Info is left in the registry. *)
ForgetPluginHandle(l, n) ==
  /\ Quiet
  /\ call[l].op = "forget"
  /\ n \in call[l].left
  /\ handles' = [handles EXCEPT ![l][n] = NoLib]
  /\ call' = [call EXCEPT ![l].left = @ \ {n}]
  /\ Unload
  /\ UNCHANGED <<staticPlugins, filePlugins, provides>>

(* ... one turn of its loop *)
ForgetPlugin(l, n) ==
  /\ Quiet
  /\ call[l].op = "forget"
  /\ n \in call[l].left
  /\ filePlugins' = [filePlugins EXCEPT ![l] = Table!ForgetInfo(@, n)]
  /\ handles' = [handles EXCEPT ![l][n] = NoLib]
  /\ call' = [call EXCEPT ![l].left = @ \ {n}]
  /\ Unload
  /\ UNCHANGED <<staticPlugins, provides>>

FinishForget(l) ==
  /\ Quiet
  /\ call[l].op = "forget"
  /\ call[l].left = {}
  /\ provides' = [provides EXCEPT ![l][call[l].lib] = {}]
  /\ call' = [call EXCEPT ![l] = Idle]
  /\ UNCHANGED <<linkVars, staticPlugins, filePlugins, handles>>

Next ==
  \/ \E lib \in Libs : \E r \in pending[lib] : Register(lib, r)
  \/ \E r \in pending[Exe] : RegisterStatic(r)
  \/ \E l \in Loaders :
       \/ \E lib \in Libs : LoadLib(l, lib) \/ ForgetLibrary(l, lib)
       \/ FindHook(l) \/ LoadPlugins(l)
       \/ \E c \in Classes : RegisterPlugin(l, c)
       \/ FinishLoad(l)
       \/ \E n \in Symbols : ForgetPlugin(l, n)
       \/ FinishForget(l)

Spec == Init /\ [][Next]_vars

-----------------------------------------------------------------------------
(* Queries *)

(* Registry::InterfacesImplemented and PluginsImplementing *)
Implemented(r) == UNION {r.plugins[n].demangled : n \in Table!AllPlugins(r)}

Implementing(r, k) ==
  {r.plugins[n].name : n \in {m \in Table!AllPlugins(r) :
                                k \in Provided(r.plugins[m])}}

ImplementingDemangled(r, d) ==
  {r.plugins[n].name : n \in {m \in Table!AllPlugins(r) :
                                d \in r.plugins[m].demangled}}

(* and those of the Loader *)
InterfacesImplemented(l) ==
  Implemented(filePlugins[l]) \cup Implemented(staticPlugins)

PluginsImplementing(l, k) ==
  Implementing(filePlugins[l], k) \cup Implementing(staticPlugins, k)

PluginsImplementingDemangled(l, d) ==
  ImplementingDemangled(filePlugins[l], d)
    \cup ImplementingDemangled(staticPlugins, d)

AllPlugins(l) ==
  Table!AllPlugins(filePlugins[l]) \cup Table!AllPlugins(staticPlugins)

PluginsWithAlias(l, s) ==
  Table!PluginsWithAlias(filePlugins[l], s)
    \cup Table!PluginsWithAlias(staticPlugins, s)

AliasesOfPlugin(l, n) ==
  Table!AliasesOfPlugin(filePlugins[l], n)
    \cup Table!AliasesOfPlugin(staticPlugins, n)

-----------------------------------------------------------------------------
(* Properties *)

Tables == [plugins : [Symbols -> Info \cup {NoInfo}],
           aliases : [Symbols -> SUBSET Symbols]]

(* Every variable has its type. *)
TypeOK ==
  /\ mapped \subseteq Libs
  /\ bound \in [Libs -> Libs \cup {NoLib}]
  /\ pending \in [Objects -> SUBSET Registration]
  /\ pluginMap \in [Libs -> InfoMap]
  /\ staticPlugins \in Tables
  /\ filePlugins \in [Loaders -> Tables]
  /\ handles \in [Loaders -> [Symbols -> Libs \cup {NoLib}]]
  /\ provides \in [Loaders -> [Libs -> SUBSET Symbols]]
  /\ call \in [Loaders -> Call]

(* entry has all that the registrations regs gave, and nothing else. *)
Gathers(entry, regs) ==
  IF regs = {} THEN entry = NoInfo
  ELSE /\ entry # NoInfo
       /\ Provided(entry) = UNION {Inserted(r) : r \in regs}
       /\ entry.aliases = UNION {r.aliases : r \in regs}

(* The registrations of o that have been executed, for one class. *)
Executed(o, c) == {r \in Registers[o] \ pending[o] : r.class = c}

(* A hook has gathered exactly what the registrars that reach it entered,  *)
(* whatever the order in which the constructors ran: several macros for    *)
(* one class add up, in whichever comes first ("We should still insert     *)
(* each of the interface map entries and aliases", GzPluginHook).          *)
HookExact ==
  \A h \in Libs, c \in Classes :
    Gathers(pluginMap[h][c],
            UNION {Executed(lib, c) : lib \in {m \in mapped : bound[m] = h}})

(* The same for StaticRegistry::AddInfo, with the demangled names and the  *)
(* alias index that it keeps up to date.                                   *)
StaticExact ==
  /\ \A n \in Symbols :
       LET entry == staticPlugins.plugins[n] IN
       /\ Gathers(entry, UNION {Executed(Exe, c) :
                                  c \in {d \in Classes : NameOf[d] = n}})
       /\ entry # NoInfo => /\ entry.name = n
                            /\ entry.demangled = Demangled(entry)
  /\ \A a \in Symbols :
       staticPlugins.aliases[a] =
         {NameOf[r.class] : r \in {q \in Registers[Exe] \ pending[Exe] :
                                     a \in q.aliases}}

(* Every Info that a hook, the static registry, a Loader or a call keeps.  *)
KnownInfos ==
  (UNION {{pluginMap[h][c] : c \in Classes} : h \in mapped})
    \cup {staticPlugins.plugins[n] : n \in Symbols}
    \cup (UNION {{filePlugins[l].plugins[n] : n \in Symbols} : l \in Loaders})
    \cup (UNION {{call[l].infos[c] : c \in Classes} : l \in Loaders})

(* The factory, deleter and casts of an Info, wherever it is kept, are     *)
(* code that is loaded: "the Info structs require the library to remain    *)
(* loaded for the destructors of their `deleter' member variables"         *)
(* (Implementation::ForgetLibrary).  The copies LoadPlugins makes are      *)
(* included.                                                               *)
InfoCodeLoaded ==
  \A info \in KnownInfos \ {NoInfo} : CodeOf(info) \subseteq mapped \cup {Exe}

(* No registrar enters anything in the map of a hook that a Loader is      *)
(* reading: LoadPlugins copies the map after dlsym has let go of the       *)
(* dynamic linker's lock, with nothing to keep the initialisers of another *)
(* thread's dlopen out.                                                    *)
HookNotRead ==
  \A l \in Loaders, lib \in Libs :
    call[l].op = "hook" /\ pending[lib] # {} => bound[lib] # call[l].hook

(* A library is never refused for reasons that its hook did not tell       *)
(* ("failed to provide gz::plugin Info for unknown reasons.  Please report *)
(* this error as a bug!", Implementation::LoadPlugins).                    *)
RefusalExplained == \A l \in Loaders : call[l].verdict # "unknown"

(* Neither the executable nor another library brings lib's hook into the   *)
(* lookup of symbols, or another hook into lib's.                          *)
Isolated(lib) ==
  /\ Members(LinkOrder) \cap HasHook = {}
  /\ Opened(lib) \cap HasHook \subseteq {lib}
  /\ \A other \in Libs \ {lib} : lib \notin Opened(other)

(* What the Loader takes from an isolated library that it accepts is what  *)
(* the library registers, all of it and nothing else, for every Loader and *)
(* as often as it is loaded (the constant Exports of module Loader).       *)
ReportsOwn ==
  \A l \in Loaders, lib \in Libs :
    call[l].op = "register" /\ call[l].lib = lib /\ Isolated(lib) =>
      \A c \in Classes :
        IF Abi[lib] = LoaderAbi
        THEN Gathers(call[l].infos[c],
                     {r \in Registers[lib] : r.class = c})
        ELSE call[l].infos[c] = NoInfo

(* What the Loader answers about interfaces is what was registered for the *)
(* plugins it has a handle for, and for the static ones: the same for      *)
(* mangled and demangled names, through any sequence of loads and forgets. *)
QueriesExact ==
  \A l \in Loaders :
    LET Known == {n \in Symbols : handles[l][n] # NoLib
                                    \/ staticPlugins.plugins[n] # NoInfo}
        Has(n, k) == \E o \in Objects : \E r \in Registers[o] \ pending[o] :
                       NameOf[r.class] = n /\ k \in Inserted(r)
    IN /\ \A k \in Interfaces :
            PluginsImplementing(l, k) = {n \in Known : Has(n, k)}
       /\ \A d \in InterfaceNames :
            /\ PluginsImplementingDemangled(l, d) =
                 UNION {PluginsImplementing(l, k) :
                          k \in {j \in Interfaces : InterfaceName[j] = d}}
            /\ d \in InterfacesImplemented(l)
                 <=> PluginsImplementingDemangled(l, d) # {}

(* What the Loader answers about aliases agrees with what was registered   *)
(* for the plugins it has a handle for, and for the static ones; and       *)
(* PrettyStr reports a collision of an alias exactly while two plugins of  *)
(* one registry claim it.                                                  *)
AliasQueriesExact ==
  \A l \in Loaders :
    LET Loaded == {n \in Symbols : handles[l][n] # NoLib}
        Static == {n \in Symbols : staticPlugins.plugins[n] # NoInfo}
        Done(os) == UNION {Registers[o] \ pending[o] : o \in os}
        Claimed(os, ns, a) ==
          ns \cap {NameOf[r.class] : r \in {q \in Done(os) : a \in q.aliases}}
    IN /\ AllPlugins(l) = Loaded \cup Static
       /\ \A a \in Symbols :
            LET Names == Claimed(Objects, Loaded \cup Static, a) IN
            /\ PluginsWithAlias(l, a) = Names \cup (AllPlugins(l) \cap {a})
            /\ {n \in Symbols : a \in AliasesOfPlugin(l, n)} = Names
            /\ a \in Table!CollidingAliases(filePlugins[l])
                 <=> \E m, n \in Claimed(Libs, Loaded, a) : m # n
            /\ a \in Table!CollidingAliases(staticPlugins)
                 <=> \E m, n \in Claimed({Exe}, Static, a) : m # n
-----------------------------------------------------------------------------
(* How libraries are linked and named, for RegistrationProofs *)

(* The registrars of every library reach a hook in a library that is       *)
(* linked to theirs, or theirs itself: true where each plugin library is   *)
(* opened for itself, and not where the executable is linked to one.       *)
OwnHooks ==
  /\ \A m \in Members(LinkOrder) :
       Registers[m] # {} => m \in Opened(BoundHook(m, <<>>))
  /\ \A lib \in Libs : \A m \in Opened(lib) :
       Registers[m] # {} => m \in Opened(BoundHook(m, SearchList[lib]))

(* No two objects register a plugin by the same name. *)
RegistersName(o, n) == \E r \in Registers[o] : NameOf[r.class] = n

UniqueNames ==
  \A o1, o2 \in Objects, n \in Symbols :
    RegistersName(o1, n) /\ RegistersName(o2, n) => o1 = o2

(* The names that DemangleSymbol gives two classes differ. *)
DistinctNames == \A c, d \in Classes : NameOf[c] = NameOf[d] => c = d
=============================================================================
