------------------------- MODULE RegistrationProofs -------------------------
(***************************************************************************)
(* Theorems about Registration.  Whatever the libraries are linked to, the *)
(* StaticRegistry gathers exactly what the executable registers, in        *)
(* whichever order, and every refusal is explained.  What the hooks gather *)
(* is exact, and no Info outlives its code, provided that a hook is only   *)
(* reached by the registrars of libraries it keeps loaded.                 *)
(***************************************************************************)
EXTENDS Registration, FiniteSetTheorems, WellFoundedInduction, TLAPS

-----------------------------------------------------------------------------
(* The inductive invariants *)

(* A loop runs over Infos that are there, and a verdict has its reason. *)
CallGood(k) ==
  /\ k.op # "idle" => k.lib \in Libs
  /\ k.op = "hook" => k.hook \in Opened(k.lib) \cap HasHook
  /\ k.op # "register" => k.infos = EmptyMap
  /\ k.op = "register" =>
       k.left \subseteq {c \in Classes : k.infos[c] # NoInfo}
  /\ k.op \in {"idle", "opened", "hook"} => k.left = {}
  /\ k.verdict # "unknown"

CallInv == \A l \in Loaders : CallGood(call[l])

PendingInv == \A o \in Objects : pending[o] \subseteq Registers[o]

(* What the entries and the calls refer to is in S. *)
RootsIn(hs, calls, S) ==
  \A l \in Loaders :
    /\ calls[l].op \in {"opened", "hook", "register"} => calls[l].lib \in S
    /\ \A n \in Symbols : hs[l][n] \in S \cup {NoLib}

(* A loaded library is there with all that it needs. *)
LinkInv ==
  /\ Members(LinkOrder) \subseteq mapped
  /\ \A lib \in mapped : /\ Opened(lib) \subseteq mapped
                         /\ bound[lib] \in mapped \cup {NoLib}
                         /\ Registers[lib] # {} => bound[lib] # NoLib
  /\ \A lib \in Libs : pending[lib] # {} => lib \in mapped
  /\ RootsIn(handles, call, mapped)

(* A loaded hook keeps the libraries whose registrars reach it. *)
HookInv ==
  /\ \A lib \in mapped : Registers[lib] # {} => lib \in Opened(bound[lib])
  /\ \A h \in Libs \ mapped : pluginMap[h] = EmptyMap

(* The code of an Info that is named n belongs to the objects os, and is   *)
(* of the one that registers n.                                            *)
CodeWithin(info, os, n) ==
  \A o \in CodeOf(info) : o \in os /\ RegistersName(o, n)

MapCode(map, h) ==
  \A c \in Classes :
    map[c] # NoInfo => CodeWithin(map[c], Opened(h), NameOf[c])

CallCode(k) ==
  k.op = "register" =>
    \A c \in Classes :
      k.infos[c] # NoInfo =>
        CodeWithin(k.infos[c], Opened(k.lib), NameOf[c])

TableCode(t, hs) ==
  \A n \in Symbols :
    t.plugins[n] # NoInfo =>
      hs[n] \in Libs /\ CodeWithin(t.plugins[n], Opened(hs[n]), n)

CodeInv ==
  /\ \A h \in mapped : MapCode(pluginMap[h], h)
  /\ \A l \in Loaders : CallCode(call[l])
  /\ \A l \in Loaders : TableCode(filePlugins[l], handles[l])
  /\ \A n \in Symbols : staticPlugins.plugins[n] # NoInfo =>
       CodeOf(staticPlugins.plugins[n]) \subseteq {Exe}

USE RegistrationAssumption

-----------------------------------------------------------------------------
(* Lookups *)

(* A set of numbers that is not empty has a least one: the sets of those   *)
(* elements that do not exceed a given one are finite, and so well-founded *)
(* by inclusion.                                                           *)
LEMMA LeastNumber ==
  ASSUME NEW S, S \subseteq Nat, S # {}
  PROVE  \E m \in S : \A n \in S : m <= n
  <1> DEFINE Below(i) == {j \in S : j <= i}
             T == {Below(i) : i \in S}
             R == StrictSubsetOrdering(Nat)
  <1>1. \A i \in S : Below(i) \in FiniteSubsetsOf(Nat)
    BY FS_BoundedSetOfNaturals DEF FiniteSubsetsOf
  <1>2. IsWellFoundedOn(R, FiniteSubsetsOf(Nat))
    BY FS_StrictSubsetOrderingWellFounded
  <1> HIDE DEF Below
  <1>3. T \subseteq FiniteSubsetsOf(Nat) /\ T # {}
    <2>1. ASSUME NEW x \in T PROVE x \in FiniteSubsetsOf(Nat)
      <3>1. PICK i \in S : x = Below(i)
        BY <2>1
      <3> QED BY <1>1, <3>1
    <2>2. PICK i \in S : TRUE
      OBVIOUS
    <2>3. Below(i) \in T
      OBVIOUS
    <2> QED BY <2>1, <2>3
  <1> HIDE DEF T, R
  <1>4. PICK x \in T : \A y \in T : ~ (<<y, x>> \in R)
    BY <1>2, <1>3, WFMin
  <1>5. PICK m \in S : x = Below(m)
    BY DEF T
  <1>6. ASSUME NEW n \in S, n < m PROVE FALSE
    <2>0. \A i \in S : i \in Nat
      OBVIOUS
    <2>1. Below(n) \in T
      BY DEF T
    <2>2. \A j \in S : j <= n => j <= m
      BY <1>6, <2>0
    <2>3. Below(n) \subseteq Below(m)
      BY <2>2 DEF Below
    <2>4. m \notin Below(n) /\ m \in Below(m)
      BY <1>6, <2>0 DEF Below
    <2>5. Below(n) \in SUBSET Nat /\ Below(m) \in SUBSET Nat
      BY DEF Below
    <2>6. <<Below(n), Below(m)>> \in R
      BY <2>3, <2>4, <2>5 DEF R, StrictSubsetOrdering
    <2> QED BY <1>4, <1>5, <2>1, <2>6
  <1> QED BY <1>6

(* The lookup finds a hook of the list, if there is one. *)
LEMMA FirstHookFacts ==
  ASSUME NEW list \in Seq(Libs)
  PROVE  /\ FirstHook(list) \in (Members(list) \cap HasHook) \cup {NoLib}
         /\ FirstHook(list) = NoLib <=> Members(list) \cap HasHook = {}
  <1> DEFINE Found == {i \in DOMAIN list : list[i] \in HasHook}
             first == CHOOSE i \in Found : \A j \in Found : i <= j
  <1>0. /\ DOMAIN list \subseteq Nat
        /\ \A i \in DOMAIN list : list[i] \in Libs
    OBVIOUS
  <1>1. CASE Found = {}
    BY <1>1 DEF FirstHook, Members
  <1>2. CASE Found # {}
    <2>1. \E i \in Found : \A j \in Found : i <= j
      BY <1>0, <1>2, LeastNumber
    <2>2. first \in Found
      BY <2>1
    <2>3. FirstHook(list) = list[first]
      BY <1>2 DEF FirstHook
    <2> HIDE DEF first
    <2>4. list[first] \in Members(list) \cap HasHook
      BY <2>2 DEF Members
    <2>5. list[first] # NoLib
      BY <1>0, <2>2 DEF Objects
    <2> QED BY <2>3, <2>4, <2>5
  <1> QED BY <1>1, <1>2

LEMMA MembersType ==
  ASSUME NEW list \in Seq(Libs) PROVE Members(list) \subseteq Libs
  <1>1. \A i \in DOMAIN list : list[i] \in Libs
    OBVIOUS
  <1> QED BY <1>1 DEF Members

(* What a library needs is needed by all that need the library.            *)
LEMMA OpenedFacts ==
  /\ \A lib \in Libs : lib \in Opened(lib) /\ Opened(lib) \subseteq Libs
  /\ \A lib \in Libs : \A m \in Opened(lib) : Opened(m) \subseteq Opened(lib)
  /\ Members(LinkOrder) \subseteq Libs
  /\ \A m \in Members(LinkOrder) : Opened(m) \subseteq Members(LinkOrder)
  /\ NoLib \notin Libs
  <1>1. \A lib \in Libs : SearchList[lib] \in Seq(Libs)
    OBVIOUS
  <1>2. NoLib \notin Libs
    BY DEF Objects
  <1> QED BY <1>1, <1>2, MembersType DEF Opened

LEMMA MembersOfBoth ==
  ASSUME NEW s \in Seq(Libs), NEW t \in Seq(Libs)
  PROVE  s \o t \in Seq(Libs) /\ Members(s \o t) = Members(s) \cup Members(t)
  <1>1. /\ s \o t \in Seq(Libs)
        /\ Len(s) \in Nat /\ Len(t) \in Nat
        /\ Len(s \o t) = Len(s) + Len(t)
        /\ DOMAIN s = 1 .. Len(s) /\ DOMAIN t = 1 .. Len(t)
        /\ DOMAIN (s \o t) = 1 .. (Len(s) + Len(t))
    OBVIOUS
  <1>2. \A i \in DOMAIN s : i \in DOMAIN (s \o t) /\ (s \o t)[i] = s[i]
    BY <1>1
  <1>3. \A i \in DOMAIN t : /\ Len(s) + i \in DOMAIN (s \o t)
                            /\ (s \o t)[Len(s) + i] = t[i]
    BY <1>1, SMTT(30)
  <1>4. ASSUME NEW i \in DOMAIN (s \o t)
        PROVE  (s \o t)[i] \in Members(s) \cup Members(t)
    <2>1. CASE i <= Len(s)
      <3>1. i \in DOMAIN s
        BY <1>1, <1>4, <2>1
      <3> QED BY <1>2, <3>1 DEF Members
    <2>2. CASE ~ (i <= Len(s))
      <3>1. i - Len(s) \in DOMAIN t /\ Len(s) + (i - Len(s)) = i
        BY <1>1, <1>4, <2>2
      <3>2. (s \o t)[i] = t[i - Len(s)]
        BY <1>3, <3>1
      <3> QED BY <3>1, <3>2 DEF Members
    <2> QED BY <2>1, <2>2
  <1>5. Members(s) \cup Members(t) \subseteq Members(s \o t)
    <2>1. ASSUME NEW x \in Members(s) PROVE x \in Members(s \o t)
      BY <1>2 DEF Members
    <2>2. ASSUME NEW x \in Members(t) PROVE x \in Members(s \o t)
      BY <1>3 DEF Members
    <2> QED BY <2>1, <2>2
  <1>6. Members(s \o t) \subseteq Members(s) \cup Members(t)
    BY <1>4 DEF Members
  <1> QED BY <1>1, <1>5, <1>6

(* The hook that a library is bound to is found in the lists searched, and *)
(* there is one if the library has registrars.                             *)
LEMMA BoundHookFacts ==
  ASSUME NEW list \in Seq(Libs), NEW m \in Members(LinkOrder) \cup Members(list)
  PROVE  /\ BoundHook(m, list) \in
              Members(LinkOrder) \cup Members(list) \cup {NoLib}
         /\ Registers[m] # {} => BoundHook(m, list) # NoLib
  <1>1. /\ LinkOrder \in Seq(Libs)
        /\ LinkOrder \o list \in Seq(Libs)
        /\ Members(LinkOrder \o list) = Members(LinkOrder) \cup Members(list)
    BY MembersOfBoth
  <1>2. m \in Libs
    BY <1>1, MembersType
  <1>3. Registers[m] # {} => m \in HasHook
    BY <1>2
  <1> QED BY <1>1, <1>3, FirstHookFacts DEF BoundHook

-----------------------------------------------------------------------------
(* Types *)

LEMMA ConstantTypes ==
  /\ Registers \in [Objects -> SUBSET Registration]
  /\ NoInfo \notin Info
  /\ Exe \in Objects /\ Exe \notin Libs /\ Libs \subseteq Objects
  /\ NameOf \in [Classes -> Symbols]
  BY DEF Objects

(* MakeInfo makes an Info of its registration, of code of its object.      *)
LEMMA MakeInfoFacts ==
  ASSUME NEW o \in Objects, NEW r \in Registration
  PROVE  /\ MakeInfo(o, r) \in Info /\ MakeInfo(o, r) # NoInfo
         /\ MakeInfo(o, r).name = r.class /\ r.class \in Classes
         /\ MakeInfo(o, r).aliases = r.aliases
         /\ Provided(MakeInfo(o, r)) = Inserted(r)
         /\ CodeOf(MakeInfo(o, r)) = {o}
  <1>1. r.class \in Classes /\ r.aliases \in SUBSET Symbols
    BY DEF Registration
  <1>2. Inserted(r) \subseteq Interfaces
    BY DEF Registration, Inserted
  <1>3. o # NoCast
    OBVIOUS
  <1>4. MakeInfo(o, r) \in Info
    BY <1>1 DEF MakeInfo, Info
  <1>5. Provided(MakeInfo(o, r)) = Inserted(r)
    BY <1>2, <1>3 DEF MakeInfo, Provided
  <1>6. \A k \in Inserted(r) : MakeInfo(o, r).casts[k] = o
    BY <1>2 DEF MakeInfo
  <1>7. MakeInfo(o, r).factory = o
    BY DEF MakeInfo
  <1>8. CodeOf(MakeInfo(o, r)) = {o}
    BY <1>5, <1>6, <1>7 DEF CodeOf
  <1> QED BY <1>1, <1>4, <1>5, <1>8 DEF MakeInfo

(* A merge adds casts and aliases, and leaves name and factory alone.      *)
LEMMA MergeFacts ==
  ASSUME NEW entry \in Info, NEW info \in Info
  PROVE  /\ Merge(entry, info) \in Info
         /\ Merge(entry, info).name = entry.name
         /\ Merge(entry, info).demangled = entry.demangled
         /\ Merge(entry, info).aliases = entry.aliases \cup info.aliases
         /\ Provided(Merge(entry, info)) = Provided(entry) \cup Provided(info)
         /\ CodeOf(Merge(entry, info)) \subseteq CodeOf(entry) \cup CodeOf(info)
  <1> DEFINE new == Merge(entry, info)
  <1>1. /\ new.name = entry.name /\ new.factory = entry.factory
        /\ new.demangled = entry.demangled
        /\ new.aliases = entry.aliases \cup info.aliases
        /\ new.casts = [k \in Interfaces |->
                          IF entry.casts[k] = NoCast THEN info.casts[k]
                          ELSE entry.casts[k]]
    BY DEF Merge, Info
  <1>2. new \in Info
    BY DEF Merge, Info
  <1> HIDE DEF new
  <1>3. Provided(new) = Provided(entry) \cup Provided(info)
    BY <1>1 DEF Provided
  <1>4. \A k \in Provided(new) :
          \/ k \in Provided(entry) /\ new.casts[k] = entry.casts[k]
          \/ k \in Provided(info) /\ new.casts[k] = info.casts[k]
    BY <1>1 DEF Provided
  <1>5. ASSUME NEW o \in CodeOf(new) PROVE o \in CodeOf(entry) \cup CodeOf(info)
    <2>1. CASE o = new.factory
      BY <1>1, <2>1 DEF CodeOf
    <2>2. CASE \E k \in Provided(new) : o = new.casts[k]
      <3>1. PICK k \in Provided(new) : o = new.casts[k]
        BY <2>2
      <3> QED BY <1>4, <3>1 DEF CodeOf
    <2> QED BY <1>5, <2>1, <2>2 DEF CodeOf
  <1> QED BY <1>1, <1>2, <1>3, <1>5 DEF new

(* The hook enters an Info under its name, and touches no other. *)
LEMMA InputInfoFacts ==
  ASSUME NEW map \in InfoMap, NEW info \in Info, info.name \in Classes
  PROVE  /\ InputInfo(map, info) \in InfoMap
         /\ \A c \in Classes \ {info.name} :
              InputInfo(map, info)[c] = map[c]
         /\ InputInfo(map, info)[info.name] =
              IF map[info.name] = NoInfo THEN info
              ELSE Merge(map[info.name], info)
         /\ InputInfo(map, info)[info.name] # NoInfo
  <1>1. map \in [Classes -> Info \cup {NoInfo}]
    BY DEF InfoMap
  <1>2. map[info.name] # NoInfo => Merge(map[info.name], info) \in Info
    BY <1>1, MergeFacts
  <1> QED BY <1>1, <1>2, ConstantTypes DEF InputInfo, InfoMap

LEMMA EmptyTypes ==
  /\ EmptyMap \in InfoMap
  /\ Idle \in Call
  /\ Table!EmptyRegistry \in Tables
  <1>1. EmptyMap \in InfoMap
    BY DEF EmptyMap, InfoMap
  <1>2. Idle \in Call
    BY <1>1 DEF Idle, Call, Verdicts
  <1>3. Table!EmptyRegistry \in Tables
    BY DEF Tables, Table!EmptyRegistry
  <1> QED BY <1>1, <1>2, <1>3

LEMMA DemangledType ==
  ASSUME NEW info \in Info PROVE Demangled(info) \in SUBSET InterfaceNames
  BY DEF Demangled, Provided, Info

LEMMA StaticAddInfoType ==
  ASSUME NEW r \in Tables, NEW info \in Info, info.name \in Classes
  PROVE  StaticAddInfo(r, info) \in Tables
  <1> DEFINE n == NameOf[info.name]
             new == [info EXCEPT !.name = n, !.demangled = Demangled(info)]
             more == [Merge(r.plugins[n], info) EXCEPT
                        !.demangled = @ \cup Demangled(info)]
             plugins == [r.plugins EXCEPT ![n] = IF r.plugins[n] = NoInfo
                                          THEN new ELSE more]
             aliases == [a \in Symbols |-> IF a \in info.aliases
                                          THEN r.aliases[a] \cup {n}
                                          ELSE r.aliases[a]]
  <1>1. n \in Symbols
    BY ConstantTypes
  <1>2. new \in Info
    BY <1>1, DemangledType DEF Info
  <1>3. r.plugins \in [Symbols -> Info \cup {NoInfo}]
    BY DEF Tables
  <1>4. r.plugins[n] # NoInfo => more \in Info
    <2>1. ASSUME r.plugins[n] # NoInfo PROVE more \in Info
      <3>1. Merge(r.plugins[n], info) \in Info
        BY <1>1, <1>3, <2>1, MergeFacts
      <3> QED BY <3>1, DemangledType DEF Info
    <2> QED BY <2>1
  <1> HIDE DEF new, more
  <1>5. plugins \in [Symbols -> Info \cup {NoInfo}]
    BY <1>1, <1>2, <1>3, <1>4
  <1>6. aliases \in [Symbols -> SUBSET Symbols]
    BY <1>1 DEF Tables
  <1>7. StaticAddInfo(r, info) = [plugins |-> plugins, aliases |-> aliases]
    BY Zenon DEF StaticAddInfo, new, more
  <1> QED BY <1>5, <1>6, <1>7 DEF Tables

LEMMA AddInfoType ==
  ASSUME NEW r \in Tables, NEW info \in Info, info.name \in Symbols
  PROVE  Table!AddInfo(r, info) \in Tables
  BY DEF Tables, Table!AddInfo, Info

LEMMA ForgetInfoType ==
  ASSUME NEW r \in Tables, NEW n \in Symbols
  PROVE  Table!ForgetInfo(r, n) \in Tables
  BY DEF Tables, Table!ForgetInfo, Info

LEMMA BoundHookType ==
  ASSUME NEW list \in Seq(Libs), NEW m
  PROVE  BoundHook(m, list) \in Libs \cup {NoLib}
  <1>1. /\ LinkOrder \o list \in Seq(Libs)
        /\ Members(LinkOrder \o list) \subseteq Libs
    BY MembersOfBoth, MembersType
  <1> QED BY <1>1, FirstHookFacts DEF BoundHook

LEMMA UnloadType ==
  ASSUME TypeOK, Unload
  PROVE  /\ mapped' \subseteq Libs
         /\ bound' \in [Libs -> Libs \cup {NoLib}]
         /\ pluginMap' \in [Libs -> InfoMap]
         /\ pending' = pending
  BY EmptyTypes DEF TypeOK, Unload, Kept

LEMMA TypeInit == Init => TypeOK
  <1> SUFFICES ASSUME Init PROVE TypeOK
    OBVIOUS
  <1>1. mapped \subseteq Libs
    BY OpenedFacts DEF Init
  <1>2. bound \in [Libs -> Libs \cup {NoLib}]
    <2>1. <<>> \in Seq(Libs)
      OBVIOUS
    <2> QED BY <2>1, BoundHookType DEF Init
  <1>3. pending \in [Objects -> SUBSET Registration]
    BY ConstantTypes DEF Init
  <1> QED BY <1>1, <1>2, <1>3, EmptyTypes DEF Init, TypeOK

(* A call of Loader l that changes is a call again. *)
LEMMA CallUpdate ==
  ASSUME call \in [Loaders -> Call], NEW l \in Loaders, NEW new \in Call
  PROVE  [call EXCEPT ![l] = new] \in [Loaders -> Call]
  OBVIOUS

LEMMA TypeRegister ==
  ASSUME TypeOK, NEW lib \in Libs, NEW r, Register(lib, r)
  PROVE  TypeOK'
  <1>1. r \in Registration /\ lib \in Objects
    BY ConstantTypes DEF TypeOK, Register
  <1>2. pending' \in [Objects -> SUBSET Registration]
    BY ConstantTypes DEF TypeOK, Register
  <1> DEFINE info == MakeInfo(lib, r)
  <1>3. info \in Info /\ info.name \in Classes
    BY <1>1, MakeInfoFacts
  <1> HIDE DEF info
  <1>4. pluginMap' = [pluginMap EXCEPT ![bound[lib]] = InputInfo(@, info)]
    BY DEF Register, info
  <1>5. \A h \in Libs : InputInfo(pluginMap[h], info) \in InfoMap
    BY <1>3, InputInfoFacts DEF TypeOK
  <1>6. pluginMap' \in [Libs -> InfoMap]
    BY <1>4, <1>5 DEF TypeOK
  <1> QED BY <1>2, <1>6 DEF TypeOK, Register, tableVars

LEMMA TypeRegisterStatic ==
  ASSUME TypeOK, NEW r, RegisterStatic(r)
  PROVE  TypeOK'
  <1>1. r \in Registration
    BY ConstantTypes DEF TypeOK, RegisterStatic
  <1>2. pending' \in [Objects -> SUBSET Registration]
    BY ConstantTypes DEF TypeOK, RegisterStatic
  <1>3. /\ MakeInfo(Exe, r) \in Info
        /\ MakeInfo(Exe, r).name \in Classes
    BY <1>1, ConstantTypes, MakeInfoFacts
  <1>4. StaticAddInfo(staticPlugins, MakeInfo(Exe, r)) \in Tables
    BY <1>3, StaticAddInfoType DEF TypeOK
  <1>5. staticPlugins' \in Tables
    BY <1>4 DEF RegisterStatic
  <1> QED BY <1>2, <1>5 DEF TypeOK, RegisterStatic, tableVars

LEMMA TypeLoadLib ==
  ASSUME TypeOK, NEW l \in Loaders, NEW lib \in Libs, LoadLib(l, lib)
  PROVE  TypeOK'
  <1> DEFINE new == [Idle EXCEPT !.op = "opened", !.lib = lib]
  <1>1. new \in Call
    BY EmptyTypes DEF Idle, Call, Verdicts
  <1> HIDE DEF new
  <1>2. call' \in [Loaders -> Call]
    BY <1>1, CallUpdate DEF TypeOK, LoadLib, new
  <1>3. mapped' \subseteq Libs
    BY OpenedFacts DEF TypeOK, LoadLib
  <1>4. SearchList[lib] \in Seq(Libs)
    OBVIOUS
  <1>5. bound' \in [Libs -> Libs \cup {NoLib}]
    BY <1>4, BoundHookType DEF TypeOK, LoadLib
  <1>6. pending' \in [Objects -> SUBSET Registration]
    BY ConstantTypes DEF TypeOK, LoadLib
  <1> QED BY <1>2, <1>3, <1>5, <1>6 DEF TypeOK, LoadLib, tableVars

LEMMA TypeFindHook ==
  ASSUME TypeOK, NEW l \in Loaders, FindHook(l), CallInv
  PROVE  TypeOK'
  <1> DEFINE h == FirstHook(SearchList[call[l].lib])
             new == IF h = NoLib
                    THEN [call[l] EXCEPT !.op = "register",
                                         !.verdict = "missing"]
                    ELSE [call[l] EXCEPT !.op = "hook", !.hook = h]
  <1>1. call[l] \in Call /\ call[l].lib \in Libs
    BY DEF TypeOK, CallInv, CallGood, FindHook
  <1>2. SearchList[call[l].lib] \in Seq(Libs)
    BY <1>1
  <1>3. h \in Libs \cup {NoLib}
    BY <1>2, FirstHookFacts, MembersType
  <1> HIDE DEF h
  <1>4. new \in Call
    BY <1>1, <1>3 DEF Call, Verdicts
  <1> HIDE DEF new
  <1>5. call' = [call EXCEPT ![l] = new]
    BY Zenon DEF FindHook, new, h
  <1>6. call' \in [Loaders -> Call]
    BY <1>4, <1>5, CallUpdate DEF TypeOK
  <1> QED BY <1>6 DEF TypeOK, FindHook, tableVars, linkVars

LEMMA VerdictType ==
  ASSUME NEW h PROVE Verdict(h) \in Verdicts \ {"none", "missing"}
  BY DEF Verdict, Verdicts

LEMMA TypeLoadPlugins ==
  ASSUME TypeOK, NEW l \in Loaders, LoadPlugins(l), CallInv
  PROVE  TypeOK'
  <1> DEFINE h == call[l].hook
             infos == IF Verdict(h) = "ok" THEN pluginMap[h] ELSE EmptyMap
             new == [call[l] EXCEPT
                       !.op = "register", !.verdict = Verdict(h),
                       !.infos = infos,
                       !.left = {c \in Classes : infos[c] # NoInfo}]
  <1>1. call[l] \in Call /\ h \in Libs
    BY OpenedFacts DEF TypeOK, CallInv, CallGood, LoadPlugins
  <1>2. infos \in InfoMap
    BY <1>1, EmptyTypes DEF TypeOK
  <1>3. Verdict(h) \in Verdicts
    BY VerdictType
  <1> HIDE DEF infos, h
  <1>4. new \in Call
    BY <1>1, <1>2, <1>3 DEF Call
  <1> HIDE DEF new
  <1>5. call' = [call EXCEPT ![l] = new]
    BY Zenon DEF LoadPlugins, new, infos, h
  <1>6. call' \in [Loaders -> Call]
    BY <1>4, <1>5, CallUpdate DEF TypeOK
  <1> QED BY <1>6 DEF TypeOK, LoadPlugins, tableVars, linkVars

LEMMA TypeRegisterPlugin ==
  ASSUME TypeOK, NEW l \in Loaders, NEW c \in Classes, RegisterPlugin(l, c),
         CallInv
  PROVE  TypeOK'
  <1> DEFINE info == call[l].infos[c]
             n == NameOf[c]
             kept == [info EXCEPT !.name = n, !.demangled = Demangled(info)]
             new == [call[l] EXCEPT !.left = @ \ {c}]
  <1>0. call[l] \in Call /\ n \in Symbols /\ call[l].lib \in Libs
    BY ConstantTypes DEF TypeOK, CallInv, CallGood, RegisterPlugin
  <1>1. info \in Info
    BY <1>0 DEF CallInv, CallGood, RegisterPlugin, Call, InfoMap
  <1> HIDE DEF info, n
  <1>2. kept \in Info /\ kept.name \in Symbols
    BY <1>0, <1>1, DemangledType DEF Info
  <1> HIDE DEF kept
  <1>3. filePlugins[l] \in Tables
    BY DEF TypeOK
  <1>4. Table!AddInfo(filePlugins[l], kept) \in Tables
    BY <1>2, <1>3, AddInfoType
  <1>5. filePlugins' =
          [filePlugins EXCEPT ![l] = Table!AddInfo(filePlugins[l], kept)]
    BY Zenon DEF RegisterPlugin, info, n, kept
  <1>6. filePlugins' \in [Loaders -> Tables]
    BY <1>4, <1>5 DEF TypeOK
  <1>7. handles' \in [Loaders -> [Symbols -> Libs \cup {NoLib}]]
    BY <1>0 DEF TypeOK, RegisterPlugin, n
  <1>8. new \in Call
    BY <1>0 DEF Call
  <1>9. call' = [call EXCEPT ![l].left = @ \ {c}]
    BY DEF RegisterPlugin
  <1>10. call' = [call EXCEPT ![l] = new]
    BY <1>9
  <1> HIDE DEF new
  <1>11. call' \in [Loaders -> Call]
    BY <1>8, <1>10, CallUpdate DEF TypeOK
  <1>12. UNCHANGED <<staticPlugins, provides>> /\ Unload
    BY DEF RegisterPlugin
  <1> QED BY <1>6, <1>7, <1>11, <1>12, UnloadType DEF TypeOK

LEMMA TypeFinishLoad ==
  ASSUME TypeOK, NEW l \in Loaders, FinishLoad(l), CallInv
  PROVE  TypeOK'
  <1> DEFINE names == {NameOf[c] : c \in {d \in Classes :
                                         call[l].infos[d] # NoInfo}}
  <1>1. names \in SUBSET Symbols
    BY ConstantTypes
  <1> HIDE DEF names
  <1>2. provides' = [provides EXCEPT ![l][call[l].lib] = names]
    BY Zenon DEF FinishLoad, names
  <1>3. provides' \in [Loaders -> [Libs -> SUBSET Symbols]]
    BY <1>1, <1>2 DEF TypeOK
  <1>4. call' \in [Loaders -> Call]
    BY CallUpdate, EmptyTypes DEF TypeOK, FinishLoad
  <1>5. UNCHANGED <<staticPlugins, filePlugins, handles>> /\ Unload
    BY DEF FinishLoad
  <1> QED BY <1>3, <1>4, <1>5, UnloadType DEF TypeOK

LEMMA TypeForgetLibrary ==
  ASSUME TypeOK, NEW l \in Loaders, NEW lib \in Libs, ForgetLibrary(l, lib)
  PROVE  TypeOK'
  <1> DEFINE new == [Idle EXCEPT !.op = "forget", !.lib = lib,
                                 !.left = provides[l][lib]]
  <1>1. provides[l][lib] \in SUBSET Symbols
    BY DEF TypeOK
  <1>2. new \in Call
    BY <1>1, EmptyTypes DEF Idle, Call, Verdicts
  <1> HIDE DEF new
  <1>3. call' \in [Loaders -> Call]
    BY <1>2, CallUpdate DEF TypeOK, ForgetLibrary, new
  <1> QED BY <1>3 DEF TypeOK, ForgetLibrary, tableVars, linkVars

LEMMA TypeForgetPlugin ==
  ASSUME TypeOK, NEW l \in Loaders, NEW n \in Symbols, ForgetPlugin(l, n)
  PROVE  TypeOK'
  <1> DEFINE new == [call[l] EXCEPT !.left = @ \ {n}]
  <1>1. Table!ForgetInfo(filePlugins[l], n) \in Tables
    BY ForgetInfoType DEF TypeOK
  <1>2. filePlugins' \in [Loaders -> Tables]
    BY <1>1 DEF TypeOK, ForgetPlugin
  <1>3. handles' \in [Loaders -> [Symbols -> Libs \cup {NoLib}]]
    BY DEF TypeOK, ForgetPlugin
  <1>4. new \in Call
    <2>1. call[l] \in Call
      BY DEF TypeOK
    <2> QED BY <2>1 DEF Call
  <1>5. call' = [call EXCEPT ![l].left = @ \ {n}]
    BY DEF ForgetPlugin
  <1>6. call' = [call EXCEPT ![l] = new]
    BY <1>5
  <1> HIDE DEF new
  <1>7. call' \in [Loaders -> Call]
    BY <1>4, <1>6, CallUpdate DEF TypeOK
  <1>8. UNCHANGED <<staticPlugins, provides>> /\ Unload
    BY DEF ForgetPlugin
  <1> QED BY <1>2, <1>3, <1>7, <1>8, UnloadType DEF TypeOK

LEMMA TypeFinishForget ==
  ASSUME TypeOK, NEW l \in Loaders, FinishForget(l)
  PROVE  TypeOK'
  <1>1. provides' \in [Loaders -> [Libs -> SUBSET Symbols]]
    BY DEF TypeOK, FinishForget
  <1>2. call' \in [Loaders -> Call]
    BY CallUpdate, EmptyTypes DEF TypeOK, FinishForget
  <1> QED BY <1>1, <1>2 DEF TypeOK, FinishForget, linkVars

(* Every step of Spec is one of these. *)
LEMMA Steps ==
  ASSUME [Next]_vars
  PROVE  \/ \E lib \in Libs : \E r \in pending[lib] : Register(lib, r)
         \/ \E r \in pending[Exe] : RegisterStatic(r)
         \/ \E l \in Loaders, lib \in Libs : LoadLib(l, lib)
         \/ \E l \in Loaders, lib \in Libs : ForgetLibrary(l, lib)
         \/ \E l \in Loaders : FindHook(l)
         \/ \E l \in Loaders : LoadPlugins(l)
         \/ \E l \in Loaders, c \in Classes : RegisterPlugin(l, c)
         \/ \E l \in Loaders : FinishLoad(l)
         \/ \E l \in Loaders, n \in Symbols : ForgetPlugin(l, n)
         \/ \E l \in Loaders : FinishForget(l)
         \/ UNCHANGED vars
  BY Zenon DEF Next

(* Type correctness needs the calls to be in order, and is kept by a step. *)
LEMMA TypeNext == TypeOK /\ CallInv /\ [Next]_vars => TypeOK'
  <1> SUFFICES ASSUME TypeOK, CallInv, [Next]_vars PROVE TypeOK'
    OBVIOUS
  <1>1. UNCHANGED vars => TypeOK'
    BY DEF vars, linkVars, tableVars, TypeOK
  <1> QED
    BY <1>1, Steps, TypeRegister, TypeRegisterStatic, TypeLoadLib,
       TypeForgetLibrary, TypeFindHook, TypeLoadPlugins, TypeRegisterPlugin,
       TypeFinishLoad, TypeForgetPlugin, TypeFinishForget

-----------------------------------------------------------------------------
(* Calls *)

LEMMA CallInit == Init => CallInv
  BY DEF Init, CallInv, CallGood, Idle, EmptyMap

(* A step of Loader l changes only the call of l. *)
LEMMA CallStep ==
  ASSUME TypeOK, CallInv, NEW l \in Loaders, NEW new,
         call' = [call EXCEPT ![l] = new], CallGood(new)
  PROVE  CallInv'
  BY DEF CallInv, TypeOK

(* A map that is NoMap is none that a hook has; so a hook that agrees on   *)
(* version and layout gives its map.                                       *)
LEMMA VerdictKnown ==
  ASSUME TypeOK, NEW h \in Libs
  PROVE  Verdict(h) # "unknown" /\ (Verdict(h) = "ok" <=> Abi[h] = LoaderAbi)
  <1>1. pluginMap[h] \in InfoMap /\ pluginMap[h] # NoMap
    BY DEF TypeOK
  <1>2. /\ Abi[h] \in [version : Nat, layout : Nat]
        /\ LoaderAbi \in [version : Nat, layout : Nat]
    OBVIOUS
  <1>3. /\ OutputAllInfo(h, LoaderAbi).abi = Abi[h]
        /\ OutputAllInfo(h, LoaderAbi).allInfo =
             IF Abi[h] = LoaderAbi THEN pluginMap[h] ELSE NoMap
    BY DEF OutputAllInfo
  <1>4. Abi[h].version = LoaderAbi.version /\ Abi[h].layout = LoaderAbi.layout
          => Abi[h] = LoaderAbi
    <2>1. /\ Abi[h] = [version |-> Abi[h].version, layout |-> Abi[h].layout]
          /\ LoaderAbi = [version |-> LoaderAbi.version,
                          layout |-> LoaderAbi.layout]
      BY <1>2, Zenon
    <2> QED BY <2>1, Zenon
  <1> QED BY <1>1, <1>3, <1>4 DEF Verdict

LEMMA CallNext == TypeOK /\ CallInv /\ [Next]_vars => CallInv'
  <1> SUFFICES ASSUME TypeOK, CallInv, [Next]_vars PROVE CallInv'
    OBVIOUS
  <1>0. \A l \in Loaders : CallGood(call[l]) /\ call[l] \in Call
    BY DEF CallInv, TypeOK
  <1>1. UNCHANGED call => CallInv'
    BY DEF CallInv
  <1>2. ASSUME NEW l \in Loaders, NEW lib \in Libs, LoadLib(l, lib)
        PROVE  CallInv'
    <2>1. CallGood([Idle EXCEPT !.op = "opened", !.lib = lib])
      BY DEF CallGood, Idle
    <2> QED BY <1>2, <2>1, CallStep DEF LoadLib
  <1>3. ASSUME NEW l \in Loaders, NEW lib \in Libs, ForgetLibrary(l, lib)
        PROVE  CallInv'
    <2>1. CallGood([Idle EXCEPT !.op = "forget", !.lib = lib,
                                !.left = provides[l][lib]])
      BY DEF CallGood, Idle
    <2> QED BY <1>3, <2>1, CallStep DEF ForgetLibrary
  <1>4. ASSUME NEW l \in Loaders, FindHook(l) PROVE CallInv'
    <2> DEFINE h == FirstHook(SearchList[call[l].lib])
               new == IF h = NoLib
                      THEN [call[l] EXCEPT !.op = "register",
                                           !.verdict = "missing"]
                      ELSE [call[l] EXCEPT !.op = "hook", !.hook = h]
    <2>1. /\ call[l].lib \in Libs /\ call[l].left = {}
          /\ call[l].infos = EmptyMap /\ call[l].verdict # "unknown"
      BY <1>0, <1>4 DEF CallGood, FindHook
    <2>2. h \in (Opened(call[l].lib) \cap HasHook) \cup {NoLib}
      <3>1. SearchList[call[l].lib] \in Seq(Libs)
        BY <2>1
      <3> QED BY <3>1, FirstHookFacts DEF Opened
    <2> HIDE DEF h
    <2>3. CallGood(new)
      BY <1>0, <2>1, <2>2 DEF CallGood, Call
    <2> HIDE DEF new
    <2>4. call' = [call EXCEPT ![l] = new]
      BY <1>4, Zenon DEF FindHook, new, h
    <2> QED BY <2>3, <2>4, CallStep
  <1>5. ASSUME NEW l \in Loaders, LoadPlugins(l) PROVE CallInv'
    <2> DEFINE h == call[l].hook
               infos == IF Verdict(h) = "ok" THEN pluginMap[h] ELSE EmptyMap
               new == [call[l] EXCEPT
                         !.op = "register", !.verdict = Verdict(h),
                         !.infos = infos,
                         !.left = {c \in Classes : infos[c] # NoInfo}]
    <2>1. call[l].lib \in Libs /\ h \in Libs
      BY <1>0, <1>5, OpenedFacts DEF CallGood, LoadPlugins
    <2>2. Verdict(h) # "unknown"
      BY <2>1, VerdictKnown
    <2> HIDE DEF h, infos
    <2>3. CallGood(new)
      BY <1>0, <2>1, <2>2 DEF CallGood, Call
    <2> HIDE DEF new
    <2>4. call' = [call EXCEPT ![l] = new]
      BY <1>5, Zenon DEF LoadPlugins, new, infos, h
    <2> QED BY <2>3, <2>4, CallStep
  <1>6. ASSUME NEW l \in Loaders, NEW x,
               \/ x \in Classes /\ RegisterPlugin(l, x)
               \/ x \in Symbols /\ ForgetPlugin(l, x)
        PROVE  CallInv'
    <2> DEFINE new == [call[l] EXCEPT !.left = @ \ {x}]
    <2>0. /\ call[l].op \in {"register", "forget"}
          /\ call' = [call EXCEPT ![l].left = @ \ {x}]
      BY <1>6 DEF RegisterPlugin, ForgetPlugin
    <2>1. CallGood(new)
      BY <1>0, <2>0 DEF CallGood, Call
    <2>2. call' = [call EXCEPT ![l] = new]
      BY <2>0
    <2> HIDE DEF new
    <2> QED BY <2>1, <2>2, CallStep
  <1>7. ASSUME NEW l \in Loaders, FinishLoad(l) \/ FinishForget(l)
        PROVE  CallInv'
    <2>1. CallGood(Idle)
      BY DEF CallGood, Idle
    <2> QED BY <1>7, <2>1, CallStep DEF FinishLoad, FinishForget
  <1>8. /\ \A lib \in Libs : \A r : Register(lib, r) => UNCHANGED call
        /\ \A r : RegisterStatic(r) => UNCHANGED call
        /\ UNCHANGED vars => UNCHANGED call
    BY DEF Register, RegisterStatic, vars
  <1> QED
    BY <1>1, <1>2, <1>3, <1>4, <1>5, <1>6, <1>7, <1>8, Steps

LEMMA TypeAndCalls == Spec => [](TypeOK /\ CallInv)
  <1>1. Init => TypeOK /\ CallInv
    BY TypeInit, CallInit
  <1>2. TypeOK /\ CallInv /\ [Next]_vars => (TypeOK /\ CallInv)'
    BY TypeNext, CallNext
  <1> QED BY <1>1, <1>2, PTL DEF Spec

(* Every variable has its type: the name under which an Info is entered in *)
(* the table is the demangled one, and what a call has left to do is known *)
(* to it.                                                                  *)
THEOREM RegistrationTypeCorrect == Spec => []TypeOK
  BY TypeAndCalls, PTL

(* A library is never refused "for unknown reasons" (LoadPlugins): a hook  *)
(* that withholds its map has told a version or a layout that differs,     *)
(* whatever those of the library and of the Loader are.                    *)
THEOREM RegistrationRefusalExplained == Spec => []RefusalExplained
  <1>1. CallInv => RefusalExplained
    BY DEF CallInv, CallGood, RefusalExplained
  <1> QED BY <1>1, TypeAndCalls, PTL

-----------------------------------------------------------------------------
(* What registrations add up to *)

(* One more registration, into an entry or to begin one. *)
LEMMA GathersMore ==
  ASSUME NEW entry \in Info \cup {NoInfo}, NEW regs, Gathers(entry, regs),
         NEW r, NEW new \in Info,
         Provided(new) = Inserted(r)
           \cup (IF entry = NoInfo THEN {} ELSE Provided(entry)),
         new.aliases = r.aliases
           \cup (IF entry = NoInfo THEN {} ELSE entry.aliases)
  PROVE  Gathers(new, regs \cup {r})
  <1>1. new # NoInfo
    BY ConstantTypes
  <1>2. /\ UNION {Inserted(q) : q \in regs \cup {r}} =
             Inserted(r) \cup UNION {Inserted(q) : q \in regs}
        /\ UNION {q.aliases : q \in regs \cup {r}} =
             r.aliases \cup UNION {q.aliases : q \in regs}
    OBVIOUS
  <1>3. CASE regs = {}
    BY <1>1, <1>2, <1>3 DEF Gathers
  <1>4. CASE regs # {}
    BY <1>1, <1>2, <1>4 DEF Gathers
  <1> QED BY <1>3, <1>4

(* What StaticRegistry::AddInfo does for one registration. *)
StaticAdded(t, r) ==
  LET n == NameOf[r.class]
      entry == t.plugins[n]
      after == StaticAddInfo(t, MakeInfo(Exe, r))
      new == after.plugins[n]
  IN /\ n \in Symbols /\ new \in Info
     /\ \A m \in Symbols \ {n} : after.plugins[m] = t.plugins[m]
     /\ \A a \in Symbols : after.aliases[a] =
          t.aliases[a] \cup (IF a \in r.aliases THEN {n} ELSE {})
     /\ Provided(new) = Inserted(r)
          \cup (IF entry = NoInfo THEN {} ELSE Provided(entry))
     /\ new.aliases = r.aliases
          \cup (IF entry = NoInfo THEN {} ELSE entry.aliases)
     /\ entry = NoInfo => new.name = n /\ new.demangled = Demangled(new)
     /\ entry # NoInfo =>
          /\ new.name = entry.name
          /\ entry.demangled = Demangled(entry) =>
               new.demangled = Demangled(new)
     /\ CodeOf(new) \subseteq
          {Exe} \cup (IF entry = NoInfo THEN {} ELSE CodeOf(entry))

(* One more registration changes one entry of the StaticRegistry, the      *)
(* other names only as aliases.                                            *)
LEMMA StaticAddInfoFacts ==
  ASSUME NEW t \in Tables, NEW r \in Registration
  PROVE  StaticAdded(t, r)
  <1> DEFINE n == NameOf[r.class]
             entry == t.plugins[n]
             info == MakeInfo(Exe, r)
             first == [info EXCEPT !.name = n, !.demangled = Demangled(info)]
             both == Merge(entry, info)
             more == [both EXCEPT !.demangled = @ \cup Demangled(info)]
             plugins == [t.plugins EXCEPT ![n] = IF entry = NoInfo
                                                 THEN first ELSE more]
             aliases == [a \in Symbols |-> IF a \in info.aliases
                                          THEN t.aliases[a] \cup {n}
                                          ELSE t.aliases[a]]
             new == plugins[n]
  <1>1. /\ info \in Info /\ info.name = r.class /\ r.class \in Classes
        /\ info.aliases = r.aliases /\ Provided(info) = Inserted(r)
        /\ CodeOf(info) = {Exe}
    BY ConstantTypes, MakeInfoFacts
  <1> HIDE DEF info
  <1>2. n \in Symbols /\ t.plugins \in [Symbols -> Info \cup {NoInfo}]
    BY <1>1, ConstantTypes DEF Tables
  <1>3. /\ first \in Info /\ first.name = n
        /\ first.demangled = Demangled(info) /\ first.aliases = info.aliases
        /\ first.casts = info.casts /\ first.factory = info.factory
    BY <1>1, <1>2, DemangledType DEF Info
  <1> HIDE DEF first
  <1>4. /\ Provided(first) = Provided(info) /\ CodeOf(first) = CodeOf(info)
        /\ Demangled(first) = Demangled(info)
    BY <1>3 DEF Provided, CodeOf, Demangled
  <1>5. CASE entry = NoInfo
    <2>1. plugins[n] = first
      BY <1>2, <1>5
    <2>2. StaticAddInfo(t, info) = [plugins |-> plugins, aliases |-> aliases]
      BY <1>1, Zenon DEF StaticAddInfo, first
    <2>3. /\ StaticAddInfo(t, info).plugins = plugins
          /\ StaticAddInfo(t, info).aliases = aliases
      BY <2>2
    <2>4. \A m \in Symbols \ {n} : plugins[m] = t.plugins[m]
      BY <1>2
    <2> HIDE DEF plugins
    <2> QED BY <1>1, <1>2, <1>3, <1>4, <1>5, <2>1, <2>3, <2>4
            DEF info, StaticAdded
  <1>6. CASE entry # NoInfo
    <2>0. entry \in Info
      BY <1>2, <1>6
    <2>1. /\ both \in Info /\ both.name = entry.name
          /\ both.demangled = entry.demangled
          /\ both.aliases = entry.aliases \cup info.aliases
          /\ Provided(both) = Provided(entry) \cup Provided(info)
          /\ CodeOf(both) \subseteq CodeOf(entry) \cup CodeOf(info)
      BY <1>1, <2>0, MergeFacts
    <2> HIDE DEF both
    <2>2. /\ more \in Info /\ more.name = both.name
          /\ more.demangled = both.demangled \cup Demangled(info)
          /\ more.aliases = both.aliases
          /\ more.casts = both.casts /\ more.factory = both.factory
      BY <1>1, <2>1, DemangledType DEF Info
    <2> HIDE DEF more
    <2>8. Provided(more) = Provided(both) /\ CodeOf(more) = CodeOf(both)
      BY <2>2 DEF Provided, CodeOf
    <2>3. Demangled(more) = Demangled(entry) \cup Demangled(info)
      <3>1. Provided(more) = Provided(entry) \cup Provided(info)
        BY <2>1, <2>8
      <3> QED BY <3>1 DEF Demangled
    <2>4. plugins[n] = more
      BY <1>2, <1>6
    <2>5. StaticAddInfo(t, info) = [plugins |-> plugins, aliases |-> aliases]
      BY <1>1, Zenon DEF StaticAddInfo, first, more, both
    <2>6. /\ StaticAddInfo(t, info).plugins = plugins
          /\ StaticAddInfo(t, info).aliases = aliases
      BY <2>5
    <2>7. \A m \in Symbols \ {n} : plugins[m] = t.plugins[m]
      BY <1>2
    <2> HIDE DEF plugins
    <2>9. /\ Provided(more) = Inserted(r) \cup Provided(entry)
          /\ more.aliases = r.aliases \cup entry.aliases
          /\ CodeOf(more) \subseteq {Exe} \cup CodeOf(entry)
          /\ more.name = entry.name
          /\ entry.demangled = Demangled(entry) =>
               more.demangled = Demangled(more)
      BY <1>1, <2>1, <2>2, <2>3, <2>8
    <2>10. \A a \in Symbols : aliases[a] =
             t.aliases[a] \cup (IF a \in r.aliases THEN {n} ELSE {})
      BY <1>1
    <2> HIDE DEF aliases, entry, n
    <2> QED BY <1>2, <1>6, <2>2, <2>4, <2>6, <2>7, <2>9, <2>10
            DEF info, entry, n, StaticAdded
  <1> QED BY <1>5, <1>6

-----------------------------------------------------------------------------
(* Only what has been compiled in is pending *)

LEMMA PendingInit == Init => PendingInv
  BY DEF Init, PendingInv

(* What is pending of an object has been compiled into it.                 *)
LEMMA PendingNext == PendingInv /\ TypeOK /\ [Next]_vars => PendingInv'
  <1> SUFFICES ASSUME PendingInv, TypeOK, [Next]_vars PROVE PendingInv'
    OBVIOUS
  <1>1. UNCHANGED pending => PendingInv'
    BY DEF PendingInv
  <1>2. ASSUME NEW o \in Objects, NEW r,
               pending' = [pending EXCEPT ![o] = @ \ {r}]
        PROVE  PendingInv'
    BY <1>2 DEF PendingInv, TypeOK
  <1>3. ASSUME NEW l \in Loaders, NEW lib \in Libs, LoadLib(l, lib)
        PROVE  PendingInv'
    BY <1>3 DEF PendingInv, LoadLib
  <1>4. /\ \A lib \in Libs : \A r : Register(lib, r) =>
             pending' = [pending EXCEPT ![lib] = @ \ {r}]
        /\ \A r : RegisterStatic(r) =>
             pending' = [pending EXCEPT ![Exe] = @ \ {r}]
    BY Zenon DEF Register, RegisterStatic
  <1>5. /\ \A l \in Loaders, lib \in Libs :
             ForgetLibrary(l, lib) => UNCHANGED pending
        /\ \A l \in Loaders :
             /\ FindHook(l) => UNCHANGED pending
             /\ LoadPlugins(l) => UNCHANGED pending
             /\ FinishLoad(l) => UNCHANGED pending
             /\ FinishForget(l) => UNCHANGED pending
        /\ \A l \in Loaders, c \in Classes :
             RegisterPlugin(l, c) => UNCHANGED pending
        /\ \A l \in Loaders, n \in Symbols :
             ForgetPlugin(l, n) => UNCHANGED pending
        /\ UNCHANGED vars => UNCHANGED pending
    BY DEF ForgetLibrary, FindHook, LoadPlugins, FinishLoad, FinishForget,
           RegisterPlugin, ForgetPlugin, Unload, vars, linkVars
  <1>6. ASSUME NEW lib \in Libs, NEW r, Register(lib, r) PROVE PendingInv'
    BY <1>2, <1>4, <1>6, ConstantTypes
  <1>7. ASSUME NEW r, RegisterStatic(r) PROVE PendingInv'
    BY <1>2, <1>4, <1>7, ConstantTypes
  <1> QED BY <1>1, <1>3, <1>5, <1>6, <1>7, Steps

-----------------------------------------------------------------------------
(* The static plugins *)

(* The StaticRegistry t is exact for the registrations D. *)
ExactFor(t, D) ==
  /\ \A n \in Symbols :
       /\ Gathers(t.plugins[n], {r \in D : NameOf[r.class] = n})
       /\ t.plugins[n] # NoInfo =>
            /\ t.plugins[n].name = n
            /\ t.plugins[n].demangled = Demangled(t.plugins[n])
  /\ \A a \in Symbols :
       t.aliases[a] = {NameOf[r.class] : r \in {q \in D : a \in q.aliases}}

StaticInv == ExactFor(staticPlugins, Registers[Exe] \ pending[Exe])

(* The property, in the form in which it is inductive.                     *)
LEMMA StaticInvIsExact == StaticExact <=> StaticInv
  <1> DEFINE D == Registers[Exe] \ pending[Exe]
             Regs(n) == UNION {Executed(Exe, c) :
                                 c \in {d \in Classes : NameOf[d] = n}}
  <1>1. D \subseteq Registration
    BY ConstantTypes
  <1>2. \A n : Regs(n) = {r \in D : NameOf[r.class] = n}
    <2> TAKE n
    <2>1. \A c : Executed(Exe, c) = {r \in D : r.class = c}
      BY DEF Executed
    <2> HIDE DEF D
    <2>2. Regs(n) = UNION {{r \in D : r.class = c} :
                             c \in {d \in Classes : NameOf[d] = n}}
      BY <2>1
    <2>3. UNION {{r \in D : r.class = c} :
                   c \in {d \in Classes : NameOf[d] = n}} =
            {r \in D : NameOf[r.class] = n}
      <3>1. \A r \in D : r.class \in Classes
        BY <1>1 DEF Registration
      <3> QED BY <3>1
    <2> QED BY <2>2, <2>3, Zenon
  <1>3. StaticExact <=>
          /\ \A n \in Symbols :
               /\ Gathers(staticPlugins.plugins[n], Regs(n))
               /\ staticPlugins.plugins[n] # NoInfo =>
                    /\ staticPlugins.plugins[n].name = n
                    /\ staticPlugins.plugins[n].demangled =
                         Demangled(staticPlugins.plugins[n])
          /\ \A a \in Symbols :
               staticPlugins.aliases[a] =
                 {NameOf[r.class] : r \in {q \in D : a \in q.aliases}}
    BY Zenon DEF StaticExact
  <1> HIDE DEF D, Regs
  <1> QED BY <1>2, <1>3, Zenon DEF StaticInv, ExactFor, D

LEMMA StaticInit == Init => StaticInv
  <1> SUFFICES ASSUME Init PROVE StaticInv
    OBVIOUS
  <1>1. Registers[Exe] \ pending[Exe] = {}
    BY ConstantTypes DEF Init
  <1>2. /\ \A n \in Symbols : staticPlugins.plugins[n] = NoInfo
        /\ \A a \in Symbols : staticPlugins.aliases[a] = {}
    BY DEF Init, Table!EmptyRegistry
  <1>3. ExactFor(staticPlugins, {})
    BY <1>2 DEF ExactFor, Gathers
  <1> QED BY <1>1, <1>3 DEF StaticInv

(* One more static registration. *)
LEMMA ExactForMore ==
  ASSUME NEW t \in Tables, NEW D, ExactFor(t, D), NEW r \in Registration
  PROVE  ExactFor(StaticAddInfo(t, MakeInfo(Exe, r)), D \cup {r})
  <1> DEFINE n == NameOf[r.class]
             entry == t.plugins[n]
             after == StaticAddInfo(t, MakeInfo(Exe, r))
             Regs(E, m) == {q \in E : NameOf[q.class] = m}
  <1>1. StaticAdded(t, r)
    BY StaticAddInfoFacts
  <1> HIDE DEF after
  <1>2. /\ n \in Symbols /\ after.plugins[n] \in Info
        /\ \A m \in Symbols \ {n} : after.plugins[m] = t.plugins[m]
        /\ \A a \in Symbols : after.aliases[a] =
             t.aliases[a] \cup (IF a \in r.aliases THEN {n} ELSE {})
    BY <1>1 DEF StaticAdded, after
  <1>3. /\ Provided(after.plugins[n]) = Inserted(r)
             \cup (IF entry = NoInfo THEN {} ELSE Provided(entry))
        /\ after.plugins[n].aliases = r.aliases
             \cup (IF entry = NoInfo THEN {} ELSE entry.aliases)
    BY <1>1 DEF StaticAdded, after
  <1>4. /\ entry = NoInfo => /\ after.plugins[n].name = n
                             /\ after.plugins[n].demangled =
                                  Demangled(after.plugins[n])
        /\ entry # NoInfo =>
             /\ after.plugins[n].name = entry.name
             /\ entry.demangled = Demangled(entry) =>
                  after.plugins[n].demangled = Demangled(after.plugins[n])
    BY <1>1 DEF StaticAdded, after
  <1>5. \A m \in Symbols :
          /\ Gathers(t.plugins[m], Regs(D, m))
          /\ t.plugins[m] # NoInfo =>
               /\ t.plugins[m].name = m
               /\ t.plugins[m].demangled = Demangled(t.plugins[m])
    BY Zenon DEF ExactFor
  <1>6. entry \in Info \cup {NoInfo}
    BY <1>2 DEF Tables
  <1>7. \A m : Regs(D \cup {r}, m) =
          IF m = n THEN Regs(D, m) \cup {r} ELSE Regs(D, m)
    OBVIOUS
  <1> HIDE DEF n, Regs
  <1>8. Gathers(after.plugins[n], Regs(D, n) \cup {r})
    BY <1>2, <1>3, <1>5, <1>6, GathersMore
  <1>9. ASSUME NEW m \in Symbols
        PROVE  /\ Gathers(after.plugins[m], Regs(D \cup {r}, m))
               /\ after.plugins[m] # NoInfo =>
                    /\ after.plugins[m].name = m
                    /\ after.plugins[m].demangled = Demangled(after.plugins[m])
    <2>1. CASE m = n
      BY <1>2, <1>4, <1>5, <1>7, <1>8, <2>1
    <2>2. CASE m # n
      BY <1>2, <1>5, <1>7, <2>2
    <2> QED BY <2>1, <2>2
  <1>10. ASSUME NEW a \in Symbols
         PROVE  after.aliases[a] =
                  {NameOf[q.class] : q \in {p \in D \cup {r} : a \in p.aliases}}
    <2> DEFINE P == {p \in D : a \in p.aliases}
    <2>1. t.aliases[a] = {NameOf[q.class] : q \in P}
      BY DEF ExactFor
    <2>2. {p \in D \cup {r} : a \in p.aliases} =
            P \cup (IF a \in r.aliases THEN {r} ELSE {})
      OBVIOUS
    <2> HIDE DEF P
    <2>3. {NameOf[q.class] : q \in P \cup {r}} =
            {NameOf[q.class] : q \in P} \cup {n}
      BY DEF n
    <2>4. CASE a \in r.aliases
      BY <1>2, <2>1, <2>2, <2>3, <2>4
    <2>5. CASE a \notin r.aliases
      BY <1>2, <2>1, <2>2, <2>5
    <2> QED BY <2>4, <2>5
  <1> QED BY <1>9, <1>10, Zenon DEF ExactFor, Regs, after

LEMMA StaticNext ==
  TypeOK /\ PendingInv /\ StaticInv /\ [Next]_vars => StaticInv'
  <1> SUFFICES ASSUME TypeOK, PendingInv, StaticInv, [Next]_vars
               PROVE  StaticInv'
    OBVIOUS
  <1>1. UNCHANGED staticPlugins /\ pending'[Exe] = pending[Exe] => StaticInv'
    BY DEF StaticInv
  <1>2. ASSUME NEW r, RegisterStatic(r) PROVE StaticInv'
    <2>1. /\ r \in Registers[Exe] /\ r \in Registration
          /\ pending'[Exe] = pending[Exe] \ {r}
          /\ staticPlugins' = StaticAddInfo(staticPlugins, MakeInfo(Exe, r))
      BY <1>2, ConstantTypes DEF RegisterStatic, PendingInv, TypeOK
    <2>2. Registers[Exe] \ pending'[Exe] =
            (Registers[Exe] \ pending[Exe]) \cup {r}
      BY <2>1
    <2>3. staticPlugins \in Tables
      BY DEF TypeOK
    <2> DEFINE D == Registers[Exe] \ pending[Exe]
    <2>4. ExactFor(staticPlugins, D)
      BY DEF StaticInv
    <2> HIDE DEF D
    <2>5. ExactFor(StaticAddInfo(staticPlugins, MakeInfo(Exe, r)), D \cup {r})
      BY <2>1, <2>3, <2>4, ExactForMore
    <2> QED BY <2>1, <2>2, <2>5 DEF StaticInv, D
  <1>3. /\ \A lib \in Libs : \A r : Register(lib, r) =>
             UNCHANGED staticPlugins /\ pending'[Exe] = pending[Exe]
        /\ \A l \in Loaders, lib \in Libs : LoadLib(l, lib) =>
             UNCHANGED staticPlugins /\ pending'[Exe] = pending[Exe]
    BY ConstantTypes, OpenedFacts DEF Register, LoadLib, TypeOK
  <1>4. /\ \A l \in Loaders, lib \in Libs :
             ForgetLibrary(l, lib) => UNCHANGED <<staticPlugins, pending>>
        /\ \A l \in Loaders :
             /\ FindHook(l) => UNCHANGED <<staticPlugins, pending>>
             /\ LoadPlugins(l) => UNCHANGED <<staticPlugins, pending>>
             /\ FinishLoad(l) => UNCHANGED <<staticPlugins, pending>>
             /\ FinishForget(l) => UNCHANGED <<staticPlugins, pending>>
        /\ \A l \in Loaders, c \in Classes :
             RegisterPlugin(l, c) => UNCHANGED <<staticPlugins, pending>>
        /\ \A l \in Loaders, n \in Symbols :
             ForgetPlugin(l, n) => UNCHANGED <<staticPlugins, pending>>
        /\ UNCHANGED vars => UNCHANGED <<staticPlugins, pending>>
    BY DEF ForgetLibrary, FindHook, LoadPlugins, FinishLoad, FinishForget,
           RegisterPlugin, ForgetPlugin, Unload, vars, linkVars
  <1> QED BY <1>1, <1>2, <1>3, <1>4, Steps

(* Whatever the executable registers with the static macros, by however    *)
(* many of them for one class and in whichever order the initialisers run, *)
(* the StaticRegistry has all that has been executed and nothing else, at  *)
(* any moment; and no library loaded or unloaded changes it.               *)
THEOREM RegistrationStaticExact == Spec => []StaticExact
  <1>1. Init => PendingInv /\ StaticInv
    BY PendingInit, StaticInit
  <1>2. TypeOK /\ PendingInv /\ StaticInv /\ [Next]_vars =>
          (PendingInv /\ StaticInv)'
    BY PendingNext, StaticNext
  <1>3. StaticInv => StaticExact
    BY StaticInvIsExact
  <1> QED BY <1>1, <1>2, <1>3, RegistrationTypeCorrect, PTL DEF Spec

-----------------------------------------------------------------------------
(* Loading and unloading *)

(* What dlclose keeps is the least closed set that has the roots.          *)
LEMMA KeptFacts ==
  ASSUME TypeOK, LinkInv, NEW hs, NEW calls, RootsIn(hs, calls, mapped)
  PROVE  /\ Kept(hs, calls) \subseteq mapped
         /\ Members(LinkOrder) \subseteq Kept(hs, calls)
         /\ RootsIn(hs, calls, Kept(hs, calls))
         /\ \A lib \in Kept(hs, calls) :
              /\ Opened(lib) \subseteq Kept(hs, calls)
              /\ bound[lib] \in Kept(hs, calls) \cup {NoLib}
  <1> DEFINE Roots == Members(LinkOrder)
                        \cup {lib \in Libs : \E l \in Loaders :
                               \/ \E n \in Symbols : hs[l][n] = lib
                               \/ /\ calls[l].op \in {"opened", "hook", "register"}
                                  /\ calls[l].lib = lib}
             Closed(S) == \A lib \in S :
                            /\ Opened(lib) \subseteq S
                            /\ bound[lib] \in S \cup {NoLib}
             K == Kept(hs, calls)
  <1>1. K = {lib \in Libs : \A S \in SUBSET Libs :
                              Roots \subseteq S /\ Closed(S) => lib \in S}
    BY Zenon DEF Kept
  <1> HIDE DEF K
  <1>2. Roots \subseteq mapped /\ Closed(mapped) /\ mapped \in SUBSET Libs
    <2>1. mapped \in SUBSET Libs /\ Members(LinkOrder) \subseteq mapped
      BY DEF LinkInv, TypeOK
    <2>2. Closed(mapped)
      BY DEF LinkInv
    <2>3. ASSUME NEW lib \in Libs, NEW l \in Loaders, NEW n \in Symbols,
                 hs[l][n] = lib
          PROVE  lib \in mapped
      BY <2>3, OpenedFacts DEF RootsIn
    <2>4. ASSUME NEW lib \in Libs, NEW l \in Loaders, calls[l].lib = lib,
                 calls[l].op \in {"opened", "hook", "register"}
          PROVE  lib \in mapped
      BY <2>4 DEF RootsIn
    <2> QED BY <2>1, <2>2, <2>3, <2>4
  <1>3. K \subseteq mapped
    <2> HIDE DEF Roots, Closed
    <2> QED BY <1>1, <1>2
  <1>4. Roots \subseteq K
    <2>1. Roots \subseteq Libs
      BY <1>2
    <2> HIDE DEF Roots, Closed
    <2> QED BY <1>1, <2>1
  <1>5. RootsIn(hs, calls, K)
    <2>1. \A lib \in mapped : lib \in Libs
      BY DEF TypeOK
    <2> QED BY <1>4, <2>1 DEF RootsIn
  <1>6. ASSUME NEW lib \in K
        PROVE  Opened(lib) \subseteq K /\ bound[lib] \in K \cup {NoLib}
    <2>1. lib \in Libs
      BY <1>1
    <2>2. Opened(lib) \subseteq Libs /\ bound[lib] \in Libs \cup {NoLib}
      BY <2>1, OpenedFacts DEF TypeOK
    <2>3. \A S \in SUBSET Libs : Roots \subseteq S /\ Closed(S) =>
            Opened(lib) \subseteq S /\ bound[lib] \in S \cup {NoLib}
      <3> HIDE DEF Roots
      <3> QED BY <1>1
    <2> HIDE DEF Roots, Closed
    <2> QED BY <1>1, <2>2, <2>3
  <1> QED BY <1>3, <1>4, <1>5, <1>6 DEF K

(* What an entry or a call refers to stays loaded, with all it needs; the  *)
(* map of a library that is unloaded is gone with it.                      *)
LEMMA UnloadFacts ==
  ASSUME TypeOK, LinkInv, Unload, RootsIn(handles', call', mapped)
  PROVE  /\ mapped' \subseteq mapped
         /\ Members(LinkOrder) \subseteq mapped'
         /\ RootsIn(handles', call', mapped')
         /\ \A lib \in mapped' : /\ Opened(lib) \subseteq mapped'
                                 /\ bound[lib] \in mapped' \cup {NoLib}
         /\ \A lib \in Libs :
              /\ bound'[lib] = IF lib \in mapped' THEN bound[lib] ELSE NoLib
              /\ pluginMap'[lib] = IF lib \in mapped' THEN pluginMap[lib]
                                   ELSE EmptyMap
         /\ pending' = pending
  <1>1. mapped' = Kept(handles', call')
    BY DEF Unload
  <1> QED BY <1>1, KeptFacts DEF Unload

(* How a step can change what is loaded. *)
LEMMA LinkSteps ==
  ASSUME TypeOK, CallInv, LinkInv, [Next]_vars
  PROVE  \/ \E lib \in Libs : \E r \in pending[lib] : Register(lib, r)
         \/ \E r \in pending[Exe] : RegisterStatic(r)
         \/ \E l \in Loaders, lib \in Libs : LoadLib(l, lib)
         \/ /\ UNCHANGED linkVars /\ RootsIn(handles', call', mapped)
            /\ \/ Quiet
               \/ \A l \in Loaders : call'[l].op = "hook" => call'[l] = call[l]
         \/ Quiet /\ Unload /\ RootsIn(handles', call', mapped)
  <1> DEFINE Refs == RootsIn(handles', call', mapped)
             Waiting == \A k \in Loaders : call'[k].op = "hook" =>
                          call'[k] = call[k]
  <1>0. call \in [Loaders -> Call]
    BY DEF TypeOK
  <1>1. ASSUME NEW l \in Loaders, NEW lib \in Libs, ForgetLibrary(l, lib)
        PROVE  UNCHANGED linkVars /\ Refs /\ Quiet
    <2>1. UNCHANGED linkVars /\ UNCHANGED handles /\ Quiet
      BY <1>1 DEF ForgetLibrary, tableVars
    <2>2. call'[l].op = "forget" /\ \A k \in Loaders \ {l} : call'[k] = call[k]
      BY <1>0, <1>1 DEF ForgetLibrary, Idle
    <2> QED BY <2>1, <2>2 DEF LinkInv, RootsIn
  <1>2. ASSUME NEW l \in Loaders, FindHook(l)
        PROVE  UNCHANGED linkVars /\ Refs /\ Quiet
    <2>1. UNCHANGED linkVars /\ UNCHANGED handles /\ Quiet
      BY <1>2 DEF FindHook, tableVars
    <2>2. /\ call'[l].lib = call[l].lib /\ call[l].op = "opened"
          /\ \A k \in Loaders \ {l} : call'[k] = call[k]
      BY <1>0, <1>2 DEF FindHook, Call
    <2> QED BY <2>1, <2>2 DEF LinkInv, RootsIn
  <1>3. ASSUME NEW l \in Loaders, LoadPlugins(l)
        PROVE  UNCHANGED linkVars /\ Refs /\ Waiting
    <2>1. UNCHANGED linkVars /\ UNCHANGED handles
      BY <1>3 DEF LoadPlugins, tableVars
    <2>2. /\ call'[l].lib = call[l].lib /\ call[l].op = "hook"
          /\ call'[l].op = "register"
          /\ \A k \in Loaders \ {l} : call'[k] = call[k]
      BY <1>0, <1>3 DEF LoadPlugins, Call
    <2> QED BY <2>1, <2>2 DEF LinkInv, RootsIn
  <1>4. ASSUME NEW l \in Loaders, FinishForget(l)
        PROVE  UNCHANGED linkVars /\ Refs /\ Quiet
    <2>1. UNCHANGED linkVars /\ UNCHANGED handles /\ Quiet
      BY <1>4 DEF FinishForget
    <2>2. call'[l].op = "idle" /\ \A k \in Loaders \ {l} : call'[k] = call[k]
      BY <1>0, <1>4 DEF FinishForget, Idle
    <2> QED BY <2>1, <2>2 DEF LinkInv, RootsIn
  <1>5. ASSUME NEW l \in Loaders, NEW c \in Classes, RegisterPlugin(l, c)
        PROVE  Quiet /\ Unload /\ Refs
    <2>1. Quiet /\ Unload /\ call[l].op = "register"
      BY <1>5 DEF RegisterPlugin
    <2>2. /\ call'[l].lib = call[l].lib
          /\ \A k \in Loaders \ {l} : call'[k] = call[k]
      BY <1>0, <1>5 DEF RegisterPlugin, Call
    <2>3. call[l].lib \in mapped
      BY <2>1 DEF LinkInv, RootsIn
    <2>4. \A k \in Loaders, n \in Symbols :
            handles'[k][n] \in {handles[k][n], call[l].lib}
      BY <1>5 DEF RegisterPlugin, TypeOK
    <2>5. RootsIn(handles, call, mapped)
      BY DEF LinkInv
    <2>6. ASSUME NEW k \in Loaders
          PROVE  call'[k].op \in {"opened", "hook", "register"} =>
                   call'[k].lib \in mapped
      BY <2>2, <2>3, <2>5 DEF RootsIn
    <2>7. ASSUME NEW k \in Loaders, NEW n \in Symbols
          PROVE  handles'[k][n] \in mapped \cup {NoLib}
      BY <2>3, <2>4, <2>5 DEF RootsIn
    <2> QED BY <2>1, <2>6, <2>7 DEF RootsIn
  <1>6. ASSUME NEW l \in Loaders, FinishLoad(l) PROVE Quiet /\ Unload /\ Refs
    <2>1. Quiet /\ Unload /\ UNCHANGED handles
      BY <1>6 DEF FinishLoad
    <2>2. call'[l].op = "idle" /\ \A k \in Loaders \ {l} : call'[k] = call[k]
      BY <1>0, <1>6 DEF FinishLoad, Idle
    <2> QED BY <2>1, <2>2 DEF LinkInv, RootsIn
  <1>7. ASSUME NEW l \in Loaders, NEW n \in Symbols, ForgetPlugin(l, n)
        PROVE  Quiet /\ Unload /\ Refs
    <2>1. Quiet /\ Unload /\ call[l].op = "forget"
      BY <1>7 DEF ForgetPlugin
    <2>2. /\ call'[l].op = "forget"
          /\ \A k \in Loaders \ {l} : call'[k] = call[k]
      BY <1>0, <1>7, <2>1 DEF ForgetPlugin, Call
    <2>3. \A k \in Loaders, m \in Symbols :
            handles'[k][m] \in {handles[k][m], NoLib}
      BY <1>7 DEF ForgetPlugin, TypeOK
    <2> QED BY <2>1, <2>2, <2>3 DEF LinkInv, RootsIn
  <1>8. UNCHANGED vars => UNCHANGED linkVars /\ Refs /\ Waiting
    BY DEF vars, linkVars, tableVars, LinkInv
  <1> QED BY <1>1, <1>2, <1>3, <1>4, <1>5, <1>6, <1>7, <1>8, Steps

LEMMA QuietFacts ==
  ASSUME Quiet PROVE \A lib \in Libs : pending[lib] = {}
  BY ConstantTypes DEF Quiet

(* The hook that a library gets to when it is loaded with lib. *)
LEMMA LoadedHook ==
  ASSUME NEW lib \in Libs, NEW m \in Opened(lib)
  PROVE  /\ BoundHook(m, SearchList[lib]) \in
              Members(LinkOrder) \cup Opened(lib) \cup {NoLib}
         /\ Registers[m] # {} => BoundHook(m, SearchList[lib]) # NoLib
  <1>1. SearchList[lib] \in Seq(Libs)
    OBVIOUS
  <1> QED BY <1>1, BoundHookFacts DEF Opened

(* What a dlopen leaves behind. *)
LEMMA LoadFacts ==
  ASSUME TypeOK, LinkInv, NEW l \in Loaders, NEW lib \in Libs, LoadLib(l, lib)
  PROVE  /\ mapped' = mapped \cup Opened(lib)
         /\ \A m \in Libs :
              /\ m \in mapped => bound'[m] = bound[m] /\ pending'[m] = {}
              /\ m \in Opened(lib) \ mapped =>
                   /\ bound'[m] = BoundHook(m, SearchList[lib])
                   /\ pending'[m] = Registers[m]
              /\ m \notin mapped' => bound'[m] = bound[m] /\ pending'[m] = {}
         /\ UNCHANGED pluginMap
         /\ \A k \in Loaders : call'[k] = IF k = l THEN call'[l] ELSE call[k]
         /\ call'[l].op = "opened" /\ call'[l].lib = lib
  <1>1. \A m \in Libs : pending[m] = {}
    BY QuietFacts DEF LoadLib
  <1>2. \A m \in Libs : m \in Objects
    BY ConstantTypes
  <1> DEFINE new == Opened(lib) \ mapped
  <1>3. mapped' = mapped \cup new /\ UNCHANGED pluginMap
    BY DEF LoadLib
  <1>4. \A m \in Libs : bound'[m] = IF m \in new
                                  THEN BoundHook(m, SearchList[lib])
                                  ELSE bound[m]
    BY DEF LoadLib
  <1>5. \A m \in Libs : pending'[m] = IF m \in new THEN Registers[m]
                                    ELSE pending[m]
    BY <1>2 DEF LoadLib
  <1>6. /\ \A k \in Loaders \ {l} : call'[k] = call[k]
        /\ call'[l].op = "opened" /\ call'[l].lib = lib
    BY DEF LoadLib, TypeOK, Idle
  <1>7. mapped' = mapped \cup Opened(lib)
    BY <1>3
  <1>8. \A m \in Libs : m \notin mapped' => m \notin new
    BY <1>3
  <1> QED BY <1>1, <1>3, <1>4, <1>5, <1>6, <1>7, <1>8

LEMMA LinkInit == Init => LinkInv
  <1> SUFFICES ASSUME Init PROVE LinkInv
    OBVIOUS
  <1>1. mapped = Members(LinkOrder) /\ mapped \subseteq Libs
    BY OpenedFacts DEF Init
  <1>2. ASSUME NEW lib \in mapped
        PROVE  /\ Opened(lib) \subseteq mapped
               /\ bound[lib] \in mapped \cup {NoLib}
               /\ Registers[lib] # {} => bound[lib] # NoLib
    <2>1. bound[lib] = BoundHook(lib, <<>>)
      BY <1>1, <1>2 DEF Init
    <2>2. <<>> \in Seq(Libs) /\ Members(<<>>) = {}
      BY DEF Members
    <2>3. lib \in Members(LinkOrder) \cup Members(<<>>)
      BY <1>1, <1>2
    <2>4. /\ bound[lib] \in Members(LinkOrder) \cup {NoLib}
          /\ Registers[lib] # {} => bound[lib] # NoLib
      BY <2>1, <2>2, <2>3, BoundHookFacts
    <2> QED BY <1>1, <1>2, <2>4, OpenedFacts
  <1>3. ASSUME NEW lib \in Libs, pending[lib] # {} PROVE lib \in mapped
    BY <1>3, ConstantTypes DEF Init
  <1>4. RootsIn(handles, call, mapped)
    BY DEF Init, RootsIn, Idle
  <1> QED BY <1>1, <1>2, <1>3, <1>4 DEF LinkInv

(* Loading adds closed sets, and unloading leaves one.                     *)
LEMMA LinkNext == TypeOK /\ CallInv /\ LinkInv /\ [Next]_vars => LinkInv'
  <1> SUFFICES ASSUME TypeOK, CallInv, LinkInv, [Next]_vars PROVE LinkInv'
    OBVIOUS
  <1>1. ASSUME NEW lib \in Libs, NEW r, Register(lib, r) PROVE LinkInv'
    <2>1. /\ UNCHANGED <<mapped, bound, handles, call>>
          /\ \A m \in Libs : pending'[m] \subseteq pending[m]
      BY <1>1, ConstantTypes DEF Register, tableVars, TypeOK
    <2> QED BY <2>1 DEF LinkInv, RootsIn
  <1>2. ASSUME NEW r, RegisterStatic(r) PROVE LinkInv'
    <2>1. /\ UNCHANGED <<mapped, bound, handles, call>>
          /\ \A m \in Libs : pending'[m] = pending[m]
      BY <1>2, ConstantTypes DEF RegisterStatic, tableVars, TypeOK
    <2> QED BY <2>1 DEF LinkInv, RootsIn
  <1>3. ASSUME NEW l \in Loaders, NEW lib \in Libs, LoadLib(l, lib)
        PROVE  LinkInv'
    <2> USE <1>3
    <2>1. mapped' = mapped \cup Opened(lib) /\ mapped' \subseteq Libs
      BY LoadFacts, OpenedFacts DEF TypeOK
    <2>2. UNCHANGED handles
      BY DEF LoadLib, tableVars
    <2>3. RootsIn(handles, call, mapped)'
      <3>1. RootsIn(handles, call, mapped)
        BY DEF LinkInv
      <3>2. lib \in mapped'
        BY <2>1, OpenedFacts
      <3>3. ASSUME NEW k \in Loaders
            PROVE  /\ call'[k].op \in {"opened", "hook", "register"} =>
                        call'[k].lib \in mapped'
                   /\ \A n \in Symbols : handles[k][n] \in mapped' \cup {NoLib}
        <4>1. mapped \subseteq mapped'
          BY <2>1
        <4>2. \A n \in Symbols : handles[k][n] \in mapped' \cup {NoLib}
          BY <3>1, <4>1 DEF RootsIn
        <4>3. k = l => call'[k].lib = lib
          BY LoadFacts
        <4>4. k # l => call'[k] = call[k]
          BY LoadFacts
        <4>5. call[k].op \in {"opened", "hook", "register"} =>
                call[k].lib \in mapped'
          BY <3>1, <4>1 DEF RootsIn
        <4> QED BY <3>2, <4>2, <4>3, <4>4, <4>5
      <3> QED BY <2>2, <3>3 DEF RootsIn
    <2>4. ASSUME NEW m \in mapped'
          PROVE  /\ Opened(m) \subseteq mapped'
                 /\ bound'[m] \in mapped' \cup {NoLib}
                 /\ Registers[m] # {} => bound'[m] # NoLib
      <3>1. CASE m \in mapped
        BY <2>1, <3>1, LoadFacts DEF LinkInv
      <3>2. CASE m \in Opened(lib) \ mapped
        BY <2>1, <3>2, LoadFacts, LoadedHook, OpenedFacts DEF LinkInv
      <3> QED BY <2>1, <3>1, <3>2
    <2>5. ASSUME NEW m \in Libs, pending'[m] # {} PROVE m \in mapped'
      BY <2>1, <2>5, LoadFacts
    <2> QED BY <2>1, <2>3, <2>4, <2>5 DEF LinkInv
  <1>4. ASSUME UNCHANGED linkVars, RootsIn(handles', call', mapped)
        PROVE  LinkInv'
    BY <1>4 DEF LinkInv, linkVars
  <1>5. ASSUME Quiet, Unload, RootsIn(handles', call', mapped) PROVE LinkInv'
    <2>1. \A lib \in Libs : pending'[lib] = {}
      BY <1>5, QuietFacts, UnloadFacts
    <2>2. mapped' \subseteq Libs
      BY <1>5, UnloadType
    <2>3. \A lib \in mapped' : bound'[lib] = bound[lib]
      BY <1>5, <2>2, UnloadFacts
    <2>4. \A lib \in mapped' : Registers[lib] # {} => bound[lib] # NoLib
      BY <1>5, UnloadFacts DEF LinkInv
    <2> QED BY <1>5, <2>1, <2>3, <2>4, UnloadFacts DEF LinkInv
  <1> QED BY <1>1, <1>2, <1>3, <1>4, <1>5, LinkSteps

LEMMA TypeCallsLink ==
  Spec => [](TypeOK /\ CallInv /\ PendingInv /\ LinkInv)
  <1>1. Init => PendingInv /\ LinkInv
    BY PendingInit, LinkInit
  <1>2. TypeOK /\ CallInv /\ PendingInv /\ LinkInv /\ [Next]_vars =>
          (PendingInv /\ LinkInv)'
    BY PendingNext, LinkNext
  <1> QED BY <1>1, <1>2, TypeAndCalls, PTL DEF Spec

-----------------------------------------------------------------------------
(* Hooks that keep the libraries they serve *)

LEMMA HookInit ==
  ASSUME OwnHooks PROVE Init => HookInv
  <1> SUFFICES ASSUME Init PROVE HookInv
    OBVIOUS
  <1>1. \A lib \in mapped : /\ lib \in Members(LinkOrder) /\ lib \in Libs
                            /\ bound[lib] = BoundHook(lib, <<>>)
    BY OpenedFacts DEF Init
  <1>2. \A h \in Libs : pluginMap[h] = EmptyMap
    BY DEF Init
  <1> QED BY <1>1, <1>2 DEF HookInv, OwnHooks

(* A hook that registrars reach keeps their library loaded, and the map of *)
(* one that is not loaded is empty.                                        *)
LEMMA HookNext ==
  ASSUME OwnHooks
  PROVE  TypeOK /\ CallInv /\ LinkInv /\ HookInv /\ [Next]_vars => HookInv'
  <1> SUFFICES ASSUME TypeOK, CallInv, LinkInv, HookInv, [Next]_vars
               PROVE  HookInv'
    OBVIOUS
  <1>1. ASSUME NEW lib \in Libs, NEW r \in pending[lib], Register(lib, r)
        PROVE  HookInv'
    <2>1. /\ UNCHANGED <<mapped, bound>>
          /\ \A h \in Libs \ {bound[lib]} : pluginMap'[h] = pluginMap[h]
      BY <1>1 DEF Register, TypeOK
    <2>2. lib \in mapped /\ (bound[lib] \in Libs => bound[lib] \in mapped)
      BY <1>1, OpenedFacts DEF LinkInv
    <2> QED BY <2>1, <2>2 DEF HookInv
  <1>2. ASSUME NEW r, RegisterStatic(r) PROVE HookInv'
    BY <1>2 DEF RegisterStatic, HookInv
  <1>3. ASSUME NEW l \in Loaders, NEW lib \in Libs, LoadLib(l, lib)
        PROVE  HookInv'
    <2> USE <1>3
    <2>1. mapped' = mapped \cup Opened(lib) /\ mapped' \subseteq Libs
      BY LoadFacts, OpenedFacts DEF TypeOK
    <2>2. ASSUME NEW m \in mapped', Registers[m] # {}
          PROVE  m \in Opened(bound'[m])
      <3>1. CASE m \in mapped
        BY <2>1, <2>2, <3>1, LoadFacts DEF HookInv
      <3>2. CASE m \in Opened(lib) \ mapped
        BY <2>1, <2>2, <3>2, LoadFacts DEF OwnHooks
      <3> QED BY <2>1, <3>1, <3>2
    <2> QED BY <2>1, <2>2, LoadFacts DEF HookInv
  <1>4. ASSUME UNCHANGED linkVars PROVE HookInv'
    BY <1>4 DEF HookInv, linkVars
  <1>5. ASSUME Unload, RootsIn(handles', call', mapped) PROVE HookInv'
    <2>1. mapped' \subseteq Libs
      BY <1>5, UnloadType
    <2> QED BY <1>5, <2>1, UnloadFacts DEF HookInv
  <1> QED BY <1>1, <1>2, <1>3, <1>4, <1>5, LinkSteps

(* No registrar reaches the hook that a Loader is reading, provided that   *)
(* hooks keep the libraries they serve: the hook is loaded, so these are,  *)
(* and their initialisers have run; a library loaded meanwhile has its     *)
(* registrars bound to a hook that comes with it.                          *)
LEMMA HookNotReadInit == Init => HookNotRead
  BY DEF Init, HookNotRead, Idle

LEMMA HookNotReadNext ==
  TypeOK /\ CallInv /\ LinkInv /\ HookInv /\ HookInv' /\ HookNotRead
    /\ [Next]_vars => HookNotRead'
  <1> SUFFICES ASSUME TypeOK, CallInv, LinkInv, HookInv, HookInv',
                      HookNotRead, [Next]_vars
               PROVE  HookNotRead'
    OBVIOUS
  <1>1. ASSUME NEW lib \in Libs, NEW r, Register(lib, r) PROVE HookNotRead'
    <2>1. /\ UNCHANGED <<bound, call>>
          /\ \A m \in Libs : pending'[m] \subseteq pending[m]
      BY <1>1, ConstantTypes DEF Register, TypeOK
    <2> QED BY <2>1 DEF HookNotRead
  <1>2. ASSUME NEW r, RegisterStatic(r) PROVE HookNotRead'
    <2>1. /\ UNCHANGED <<bound, call>>
          /\ \A m \in Libs : pending'[m] = pending[m]
      BY <1>2, ConstantTypes DEF RegisterStatic, TypeOK
    <2> QED BY <2>1 DEF HookNotRead
  <1>3. ASSUME NEW l \in Loaders, NEW lib \in Libs, LoadLib(l, lib)
        PROVE  HookNotRead'
    <2> USE <1>3
    <2>1. ASSUME NEW k \in Loaders, NEW m \in Libs, call'[k].op = "hook",
                 pending'[m] # {}, bound'[m] = call'[k].hook
          PROVE  FALSE
      <3>1. k # l /\ call'[k] = call[k]
        BY <2>1, LoadFacts
      <3>2. m \in mapped' \ mapped /\ Registers[m] # {}
        BY <2>1, LoadFacts
      <3>3. m \in Opened(bound'[m])
        BY <3>2 DEF HookInv
      <3>4. bound'[m] \in Opened(call[k].lib) /\ call[k].lib \in mapped
        BY <2>1, <3>1 DEF CallInv, CallGood, LinkInv, RootsIn
      <3>5. bound'[m] \in mapped
        BY <3>4 DEF LinkInv
      <3> QED BY <3>2, <3>3, <3>5 DEF LinkInv
    <2> QED BY <2>1 DEF HookNotRead
  <1>4. ASSUME UNCHANGED linkVars,
               \/ Quiet
               \/ \A l \in Loaders : call'[l].op = "hook" => call'[l] = call[l]
        PROVE  HookNotRead'
    <2>1. UNCHANGED <<pending, bound>>
      BY <1>4 DEF linkVars
    <2>2. Quiet => \A lib \in Libs : pending[lib] = {}
      BY QuietFacts
    <2> QED BY <1>4, <2>1, <2>2 DEF HookNotRead
  <1>5. ASSUME Quiet, Unload PROVE HookNotRead'
    <2>1. \A lib \in Libs : pending'[lib] = {}
      BY <1>5, QuietFacts DEF Unload
    <2> QED BY <2>1 DEF HookNotRead
  <1> QED BY <1>1, <1>2, <1>3, <1>4, <1>5, LinkSteps

-----------------------------------------------------------------------------
(* What the hooks gather *)

(* The registrations for class c that have reached the hook h, when the    *)
(* libraries S are loaded and bound by b, and those of p are pending.      *)
Reached(S, b, p, h, c) ==
  UNION {{r \in Registers[lib] \ p[lib] : r.class = c} :
           lib \in {m \in S : b[m] = h}}

LEMMA ReachedIff ==
  ASSUME NEW S, NEW b, NEW p, NEW h, NEW c, NEW r
  PROVE  r \in Reached(S, b, p, h, c) <=>
           \E m \in S : /\ b[m] = h /\ r \in Registers[m]
                       /\ r \notin p[m] /\ r.class = c
  BY DEF Reached

(* The same registrations have reached h, before and after. *)
Reaching(S, b, p, m, h) == m \in S /\ b[m] = h /\ Registers[m] \ p[m] # {}

SameReach(S, b, p, T, d, e, h) ==
  \A m : /\ Reaching(S, b, p, m, h) <=> Reaching(T, d, e, m, h)
         /\ Reaching(S, b, p, m, h) => e[m] = p[m]

LEMMA ReachedSame ==
  ASSUME NEW S, NEW b, NEW p, NEW T, NEW d, NEW e, NEW h,
         SameReach(S, b, p, T, d, e, h), NEW c
  PROVE  Reached(T, d, e, h, c) = Reached(S, b, p, h, c)
  <1>1. ASSUME NEW r \in Reached(S, b, p, h, c)
        PROVE  r \in Reached(T, d, e, h, c)
    <2>1. PICK m \in S : /\ b[m] = h /\ r \in Registers[m]
                        /\ r \notin p[m] /\ r.class = c
      BY <1>1 DEF Reached
    <2>2. m \in T /\ d[m] = h /\ e[m] = p[m]
      BY <2>1 DEF SameReach, Reaching
    <2> QED BY <2>1, <2>2 DEF Reached
  <1>2. ASSUME NEW r \in Reached(T, d, e, h, c)
        PROVE  r \in Reached(S, b, p, h, c)
    <2>1. PICK m \in T : /\ d[m] = h /\ r \in Registers[m]
                        /\ r \notin e[m] /\ r.class = c
      BY <1>2 DEF Reached
    <2>2. m \in S /\ b[m] = h /\ e[m] = p[m]
      BY <2>1 DEF SameReach, Reaching
    <2> QED BY <2>1, <2>2 DEF Reached
  <1> QED BY <1>1, <1>2

HookExactFor(S, b, p, map) ==
  \A h \in Libs, c \in Classes : Gathers(map[h][c], Reached(S, b, p, h, c))

LEMMA HookExactIff ==
  HookExact <=> HookExactFor(mapped, bound, pending, pluginMap)
  BY Zenon DEF HookExact, Executed, HookExactFor, Reached

(* The map of each hook is as before, and so is what has reached it; or    *)
(* the hook is unloaded and nothing reaches it.                            *)
SameMap(S, b, p, map, T, d, e, new, h) ==
  \/ new[h] = map[h] /\ SameReach(S, b, p, T, d, e, h)
  \/ new[h] = EmptyMap /\ \A m \in T : d[m] # h

(* Where neither side of HookExact changes, it is kept.                    *)
LEMMA HookExactKept ==
  ASSUME NEW S, NEW b, NEW p, NEW map, HookExactFor(S, b, p, map),
         NEW T, NEW d, NEW e, NEW new,
         \A h \in Libs : SameMap(S, b, p, map, T, d, e, new, h)
  PROVE  HookExactFor(T, d, e, new)
  <1>1. \A c \in Classes : Gathers(EmptyMap[c], {})
    BY DEF Gathers, EmptyMap
  <1>2. ASSUME NEW h \in Libs, NEW c \in Classes
        PROVE  Gathers(new[h][c], Reached(T, d, e, h, c))
    <2>1. Gathers(map[h][c], Reached(S, b, p, h, c))
      BY Zenon DEF HookExactFor
    <2>2. CASE new[h] = map[h] /\ SameReach(S, b, p, T, d, e, h)
      <3>1. Reached(T, d, e, h, c) = Reached(S, b, p, h, c)
        BY <2>2, ReachedSame
      <3> QED BY <2>1, <2>2, <3>1, Zenon
    <2>3. CASE new[h] = EmptyMap /\ \A m \in T : d[m] # h
      <3>1. Reached(T, d, e, h, c) = {}
        BY <2>3 DEF Reached
      <3> QED BY <1>1, <2>3, <3>1, Zenon
    <2>4. SameMap(S, b, p, map, T, d, e, new, h)
      OBVIOUS
    <2> QED BY <2>2, <2>3, <2>4, Zenon DEF SameMap
  <1> QED BY <1>2, Zenon DEF HookExactFor

LEMMA HookExactInit ==
  Init => HookExactFor(mapped, bound, pending, pluginMap)
  <1> SUFFICES ASSUME Init, NEW h \in Libs, NEW c \in Classes
               PROVE  Gathers(pluginMap[h][c],
                              Reached(mapped, bound, pending, h, c))
    BY Zenon DEF HookExactFor
  <1>1. \A m \in mapped : pending[m] = Registers[m]
    BY OpenedFacts, ConstantTypes DEF Init
  <1>2. Reached(mapped, bound, pending, h, c) = {}
    BY <1>1 DEF Reached
  <1>3. pluginMap[h][c] = NoInfo
    BY DEF Init, EmptyMap
  <1> QED BY <1>2, <1>3 DEF Gathers

(* One more registration r, of lib, reaches the hook that lib is bound to. *)
Executes(S, p, e, lib, r) ==
  /\ lib \in S /\ r \in Registers[lib]
  /\ e[lib] = p[lib] \ {r}
  /\ \A m \in S \ {lib} : e[m] = p[m]

ReachedGrows(S, b, p, e, h0, r) ==
  /\ Reached(S, b, e, h0, r.class) = Reached(S, b, p, h0, r.class) \cup {r}
  /\ \A h, c : h # h0 \/ c # r.class =>
       Reached(S, b, e, h, c) = Reached(S, b, p, h, c)

(* A registration that is executed reaches one hook, for one class.        *)
LEMMA ReachedMore ==
  ASSUME NEW S, NEW b, NEW p, NEW e, NEW lib, NEW r, Executes(S, p, e, lib, r)
  PROVE  ReachedGrows(S, b, p, e, b[lib], r)
  <1>0. /\ lib \in S /\ r \in Registers[lib]
        /\ e[lib] = p[lib] \ {r}
        /\ \A m \in S \ {lib} : e[m] = p[m]
    BY DEF Executes
  <1> DEFINE Has(f, q, h, c) == \E m \in S : /\ b[m] = h /\ q \in Registers[m]
                                            /\ q \notin f[m] /\ q.class = c
  <1>1. \A h, c, q : /\ q \in Reached(S, b, e, h, c) <=> Has(e, q, h, c)
                     /\ q \in Reached(S, b, p, h, c) <=> Has(p, q, h, c)
    BY ReachedIff
  <1>2. ASSUME NEW h, NEW c, NEW q, q # r \/ h # b[lib] \/ c # r.class
        PROVE  Has(e, q, h, c) <=> Has(p, q, h, c)
    <2>1. ASSUME NEW m \in S, b[m] = h, q.class = c
          PROVE  q \in e[m] <=> q \in p[m]
      BY <1>0, <1>2, <2>1
    <2> QED BY <2>1
  <1>3. Has(e, r, b[lib], r.class)
    BY <1>0
  <1> HIDE DEF Has
  <1>4. ASSUME NEW q
        PROVE  q \in Reached(S, b, e, b[lib], r.class) <=>
                 q \in Reached(S, b, p, b[lib], r.class) \cup {r}
    BY <1>1, <1>2, <1>3
  <1>5. ASSUME NEW h, NEW c, h # b[lib] \/ c # r.class
        PROVE  Reached(S, b, e, h, c) = Reached(S, b, p, h, c)
    <2>1. ASSUME NEW q
          PROVE  q \in Reached(S, b, e, h, c) <=> q \in Reached(S, b, p, h, c)
      BY <1>1, <1>2, <1>5
    <2> QED BY <2>1
  <1>6. Reached(S, b, e, b[lib], r.class) =
          Reached(S, b, p, b[lib], r.class) \cup {r}
    BY <1>4
  <1> QED BY <1>5, <1>6 DEF ReachedGrows

(* What GzPluginHook does with one Info. *)
LEMMA InputGathers ==
  ASSUME NEW map \in InfoMap, NEW o \in Objects, NEW r \in Registration,
         NEW regs, Gathers(map[r.class], regs)
  PROVE  /\ InputInfo(map, MakeInfo(o, r)) \in InfoMap
         /\ Gathers(InputInfo(map, MakeInfo(o, r))[r.class], regs \cup {r})
         /\ \A c \in Classes \ {r.class} :
              InputInfo(map, MakeInfo(o, r))[c] = map[c]
  <1> DEFINE c0 == r.class
             info == MakeInfo(o, r)
             after == InputInfo(map, info)
             entry == map[c0]
  <1>1. /\ info \in Info /\ info.name = c0 /\ c0 \in Classes
        /\ info.aliases = r.aliases /\ Provided(info) = Inserted(r)
    BY MakeInfoFacts
  <1> HIDE DEF info, c0
  <1>2. /\ after \in InfoMap
        /\ \A c \in Classes \ {c0} : after[c] = map[c]
        /\ after[c0] = IF entry = NoInfo THEN info ELSE Merge(entry, info)
    BY <1>1, InputInfoFacts
  <1> HIDE DEF after
  <1>3. entry \in Info \cup {NoInfo}
    BY <1>1 DEF InfoMap
  <1>4. /\ after[c0] \in Info
        /\ Provided(after[c0]) = Inserted(r)
             \cup (IF entry = NoInfo THEN {} ELSE Provided(entry))
        /\ after[c0].aliases = r.aliases
             \cup (IF entry = NoInfo THEN {} ELSE entry.aliases)
    <2>1. CASE entry = NoInfo
      BY <1>1, <1>2, <2>1
    <2>2. CASE entry # NoInfo
      <3>1. entry \in Info
        BY <1>3, <2>2
      <3>2. /\ Merge(entry, info) \in Info
            /\ Merge(entry, info).aliases = entry.aliases \cup info.aliases
            /\ Provided(Merge(entry, info)) = Provided(entry) \cup Provided(info)
        BY <1>1, <3>1, MergeFacts
      <3> QED BY <1>1, <1>2, <2>2, <3>2
    <2> QED BY <2>1, <2>2
  <1>5. Gathers(entry, regs)
    BY DEF c0
  <1> HIDE DEF entry
  <1>6. Gathers(after[c0], regs \cup {r})
    BY <1>3, <1>4, <1>5, GathersMore
  <1> QED BY <1>2, <1>6 DEF after, info, c0

LEMMA HookExactRegister ==
  ASSUME TypeOK, PendingInv, LinkInv, HookExact,
         NEW lib \in Libs, NEW r \in pending[lib], Register(lib, r)
  PROVE  HookExact'
  <1> DEFINE h0 == bound[lib]
             after == InputInfo(pluginMap[h0], MakeInfo(lib, r))
             Now(h, c) == Reached(mapped, bound, pending, h, c)
             Then(h, c) == Reached(mapped, bound, pending', h, c)
  <1>1. /\ r \in Registers[lib] /\ r \in Registration /\ lib \in Objects
        /\ lib \in mapped /\ h0 \in Libs /\ r.class \in Classes
    BY ConstantTypes, OpenedFacts, MakeInfoFacts DEF PendingInv, LinkInv, TypeOK
  <1>2. /\ UNCHANGED <<mapped, bound>>
        /\ pending'[lib] = pending[lib] \ {r}
        /\ \A m \in mapped \ {lib} : pending'[m] = pending[m]
    BY <1>1, ConstantTypes DEF Register, TypeOK
  <1>3. /\ Then(h0, r.class) = Now(h0, r.class) \cup {r}
        /\ \A h, c : h # h0 \/ c # r.class => Then(h, c) = Now(h, c)
    <2>1. Executes(mapped, pending, pending', lib, r)
      BY <1>1, <1>2 DEF Executes
    <2>2. ReachedGrows(mapped, bound, pending, pending', h0, r)
      BY <2>1, ReachedMore, Zenon
    <2> QED BY <2>2, Zenon DEF ReachedGrows
  <1> HIDE DEF Now, Then
  <1>4. \A h \in Libs, c \in Classes : Gathers(pluginMap[h][c], Now(h, c))
    BY HookExactIff, Zenon DEF HookExactFor, Now
  <1>5. pluginMap[h0] \in InfoMap
    BY <1>1 DEF TypeOK
  <1>6. Gathers(pluginMap[h0][r.class], Now(h0, r.class))
    BY <1>1, <1>4
  <1>7. /\ Gathers(after[r.class], Now(h0, r.class) \cup {r})
        /\ \A c \in Classes \ {r.class} : after[c] = pluginMap[h0][c]
    <2> HIDE DEF h0, after
    <2> DEFINE map == pluginMap[h0]
               regs == Now(h0, r.class)
    <2>1. map \in InfoMap /\ Gathers(map[r.class], regs)
      BY <1>5, <1>6
    <2> HIDE DEF map, regs
    <2>2. /\ Gathers(InputInfo(map, MakeInfo(lib, r))[r.class], regs \cup {r})
          /\ \A c \in Classes \ {r.class} :
               InputInfo(map, MakeInfo(lib, r))[c] = map[c]
      BY <1>1, <2>1, InputGathers, Zenon
    <2> QED BY <2>2 DEF after, map, regs
  <1>8. pluginMap' = [pluginMap EXCEPT ![h0] = InputInfo(@, MakeInfo(lib, r))]
    BY DEF Register
  <1>9. /\ pluginMap'[h0] = after
        /\ \A h \in Libs \ {h0} : pluginMap'[h] = pluginMap[h]
    BY <1>1, <1>8 DEF TypeOK
  <1> HIDE DEF after, h0
  <1>10. ASSUME NEW h \in Libs, NEW c \in Classes
         PROVE  Gathers(pluginMap'[h][c], Then(h, c))
    <2>1. CASE h = h0 /\ c = r.class
      BY <1>3, <1>7, <1>9, <2>1
    <2>2. CASE h # h0 \/ c # r.class
      <3>1. pluginMap'[h][c] = pluginMap[h][c]
        BY <1>7, <1>9, <2>2
      <3>2. Then(h, c) = Now(h, c)
        BY <1>3, <2>2
      <3>3. Gathers(pluginMap[h][c], Now(h, c))
        BY <1>4, Zenon
      <3> QED BY <3>1, <3>2, <3>3
    <2> QED BY <2>1, <2>2
  <1>11. HookExactFor(mapped, bound, pending', pluginMap')
    BY <1>10, Zenon DEF HookExactFor, Then
  <1>12. HookExactFor(mapped', bound', pending', pluginMap')
    BY <1>2, <1>11
  <1> QED BY <1>12, Zenon DEF HookExact, Executed, HookExactFor, Reached

LEMMA HookExactNext ==
  TypeOK /\ CallInv /\ PendingInv /\ LinkInv /\ HookInv /\ HookExact
    /\ [Next]_vars => HookExact'
  <1> SUFFICES ASSUME TypeOK, CallInv, PendingInv, LinkInv, HookInv,
                      HookExact, [Next]_vars
               PROVE  HookExact'
    OBVIOUS
  <1>0. /\ \A m \in mapped : m \in Libs
        /\ HookExactFor(mapped, bound, pending, pluginMap)
    BY HookExactIff DEF TypeOK
  <1>1. ASSUME NEW lib \in Libs, NEW r \in pending[lib], Register(lib, r)
        PROVE  HookExact'
    BY <1>1, HookExactRegister
  <1>2. ASSUME HookExactFor(mapped', bound', pending', pluginMap')
        PROVE  HookExact'
    BY <1>2, Zenon DEF HookExact, Executed, HookExactFor, Reached
  <1> DEFINE Same(h) == SameMap(mapped, bound, pending, pluginMap,
                               mapped', bound', pending', pluginMap', h)
  <1>3. ASSUME \A h \in Libs : Same(h) PROVE HookExact'
    BY <1>0, <1>2, <1>3, HookExactKept, Zenon
  <1>4. ASSUME NEW r, RegisterStatic(r) PROVE HookExact'
    <2>1. /\ UNCHANGED <<mapped, bound, pluginMap>>
          /\ \A m \in mapped : pending'[m] = pending[m]
      BY <1>0, <1>4, ConstantTypes DEF RegisterStatic, TypeOK
    <2>2. \A h \in Libs : Same(h)
      BY <2>1 DEF SameMap, SameReach, Reaching
    <2> QED BY <1>3, <2>2
  <1>5. ASSUME NEW l \in Loaders, NEW lib \in Libs, LoadLib(l, lib)
        PROVE  HookExact'
    <2>1. mapped' = mapped \cup Opened(lib) /\ mapped' \subseteq Libs
      BY <1>5, LoadFacts, OpenedFacts DEF TypeOK
    <2>2. \A m \in mapped : bound'[m] = bound[m] /\ pending'[m] = pending[m]
      BY <1>0, <1>5, LoadFacts, QuietFacts DEF LoadLib
    <2>3. \A m \in mapped' \ mapped : pending'[m] = Registers[m]
      BY <1>5, <2>1, LoadFacts
    <2>4. UNCHANGED pluginMap
      BY <1>5, LoadFacts
    <2>5. \A h \in Libs : Same(h)
      BY <2>1, <2>2, <2>3, <2>4 DEF SameMap, SameReach, Reaching
    <2> QED BY <1>3, <2>5
  <1>6. ASSUME UNCHANGED linkVars PROVE HookExact'
    BY <1>0, <1>2, <1>6 DEF linkVars
  <1>7. ASSUME Unload, RootsIn(handles', call', mapped) PROVE HookExact'
    <2>1. /\ mapped' \subseteq mapped /\ pending' = pending
          /\ \A m \in mapped' : bound'[m] = bound[m]
          /\ \A m \in mapped' : /\ Opened(m) \subseteq mapped'
                                /\ bound[m] \in mapped' \cup {NoLib}
      BY <1>0, <1>7, UnloadFacts
    <2>2. \A h \in Libs : pluginMap'[h] = IF h \in mapped' THEN pluginMap[h]
                                          ELSE EmptyMap
      BY <1>7, UnloadFacts
    <2>3. ASSUME NEW h \in Libs, h \notin mapped' PROVE Same(h)
      <3>1. \A m \in mapped' : bound'[m] # h
        BY <2>1, <2>3, OpenedFacts
      <3> QED BY <2>2, <2>3, <3>1 DEF SameMap
    <2>4. ASSUME NEW h \in Libs, h \in mapped' PROVE Same(h)
      <3>1. \A m \in mapped : bound[m] = h /\ Registers[m] # {} => m \in mapped'
        BY <2>1, <2>4 DEF HookInv
      <3>2. SameReach(mapped, bound, pending, mapped', bound', pending', h)
        BY <2>1, <3>1 DEF SameReach, Reaching
      <3> QED BY <2>2, <2>4, <3>2 DEF SameMap
    <2> QED BY <1>3, <2>3, <2>4
  <1> QED BY <1>1, <1>4, <1>5, <1>6, <1>7, LinkSteps

-----------------------------------------------------------------------------
(* What the Loader takes *)

OwnReport(k) ==
  k.op = "register" /\ Isolated(k.lib) =>
    \A c \in Classes :
      IF Abi[k.lib] = LoaderAbi
      THEN Gathers(k.infos[c], {r \in Registers[k.lib] : r.class = c})
      ELSE k.infos[c] = NoInfo

ReportInv == \A l \in Loaders : OwnReport(call[l])

LEMMA ReportStep ==
  ASSUME TypeOK, ReportInv, NEW l \in Loaders, NEW new,
         call' = [call EXCEPT ![l] = new], OwnReport(new)
  PROVE  ReportInv'
  BY DEF ReportInv, TypeOK

(* Only the registrations of an isolated library reach its hook, and all   *)
(* of them have when it is read.                                           *)
LEMMA IsolatedHook ==
  ASSUME TypeOK, LinkInv, HookInv, HookExact, HookNotRead, NEW l \in Loaders,
         call[l].op = "hook", NEW lib \in mapped, call[l].hook = lib,
         Isolated(lib), NEW c \in Classes
  PROVE  Gathers(pluginMap[lib][c], {r \in Registers[lib] : r.class = c})
  <1>1. lib \in Libs
    BY DEF TypeOK
  <1>2. Registers[lib] # {} => bound[lib] = lib
    <2>1. ASSUME Registers[lib] # {} PROVE bound[lib] = lib
      <3>1. lib \in Opened(bound[lib]) /\ bound[lib] # NoLib
        BY <2>1 DEF HookInv, LinkInv
      <3>2. bound[lib] \in Libs
        BY <1>1, <3>1 DEF TypeOK
      <3> QED BY <3>1, <3>2 DEF Isolated
    <2> QED BY <2>1
  <1>3. ASSUME NEW m \in mapped, bound[m] = lib, Registers[m] # {}
        PROVE  m = lib
    <2>1. m \in Opened(lib)
      BY <1>3 DEF HookInv
    <2>2. m \in HasHook
      BY <1>3 DEF TypeOK
    <2> QED BY <2>1, <2>2 DEF Isolated
  <1>4. Registers[lib] # {} => pending[lib] = {}
    BY <1>1, <1>2 DEF HookNotRead
  <1>5. HookExactFor(mapped, bound, pending, pluginMap)
    BY HookExactIff
  <1>6. Gathers(pluginMap[lib][c], Reached(mapped, bound, pending, lib, c))
    BY <1>1, <1>5, Zenon DEF HookExactFor
  <1>7. ASSUME NEW r \in Reached(mapped, bound, pending, lib, c)
        PROVE  r \in Registers[lib] /\ r.class = c
    <2>1. PICK m \in mapped : bound[m] = lib /\ r \in Registers[m] /\ r.class = c
      BY <1>7 DEF Reached
    <2> QED BY <1>3, <2>1
  <1>8. ASSUME NEW r \in Registers[lib], r.class = c
        PROVE  r \in Reached(mapped, bound, pending, lib, c)
    <2>1. bound[lib] = lib /\ pending[lib] = {}
      BY <1>2, <1>4
    <2>2. r \notin pending[lib]
      BY <2>1
    <2>3. \E m \in mapped : /\ bound[m] = lib /\ r \in Registers[m]
                            /\ r \notin pending[m] /\ r.class = c
      BY <1>8, <2>1, <2>2
    <2> QED BY <2>3, ReachedIff, Zenon
  <1>9. Reached(mapped, bound, pending, lib, c) =
          {r \in Registers[lib] : r.class = c}
    BY <1>7, <1>8
  <1> QED BY <1>6, <1>9

LEMMA ReportInit == Init => ReportInv
  BY DEF Init, ReportInv, OwnReport, Idle

(* Between the hook and the loop the call keeps what it has read.          *)
LEMMA ReportNext ==
  TypeOK /\ CallInv /\ LinkInv /\ HookInv /\ HookExact /\ HookNotRead
    /\ ReportInv /\ [Next]_vars => ReportInv'
  <1> SUFFICES ASSUME TypeOK, CallInv, LinkInv, HookInv, HookExact,
                      HookNotRead, ReportInv, [Next]_vars
               PROVE  ReportInv'
    OBVIOUS
  <1>0. \A l \in Loaders :
          CallGood(call[l]) /\ call[l] \in Call /\ OwnReport(call[l])
    BY DEF CallInv, TypeOK, ReportInv
  <1>1. UNCHANGED call => ReportInv'
    BY DEF ReportInv
  <1>2. ASSUME NEW l \in Loaders, NEW lib \in Libs, LoadLib(l, lib)
        PROVE  ReportInv'
    <2>1. OwnReport([Idle EXCEPT !.op = "opened", !.lib = lib])
      BY DEF OwnReport, Idle
    <2> QED BY <1>2, <2>1, ReportStep DEF LoadLib
  <1>3. ASSUME NEW l \in Loaders, NEW lib \in Libs, ForgetLibrary(l, lib)
        PROVE  ReportInv'
    <2>1. OwnReport([Idle EXCEPT !.op = "forget", !.lib = lib,
                                 !.left = provides[l][lib]])
      BY DEF OwnReport, Idle
    <2> QED BY <1>3, <2>1, ReportStep DEF ForgetLibrary
  <1>4. ASSUME NEW l \in Loaders, FindHook(l) PROVE ReportInv'
    <2> DEFINE lib == call[l].lib
               h == FirstHook(SearchList[lib])
               new == IF h = NoLib
                      THEN [call[l] EXCEPT !.op = "register",
                                           !.verdict = "missing"]
                      ELSE [call[l] EXCEPT !.op = "hook", !.hook = h]
    <2>1. lib \in Libs /\ call[l].infos = EmptyMap
      BY <1>0, <1>4 DEF CallGood, FindHook
    <2>2. h = NoLib => Registers[lib] = {}
      <3>1. SearchList[lib] \in Seq(Libs) /\ lib \in Opened(lib)
        BY <2>1, OpenedFacts
      <3>2. h = NoLib => lib \notin HasHook
        BY <3>1, FirstHookFacts DEF Opened
      <3> QED BY <2>1, <3>2
    <2> HIDE DEF h
    <2>3. OwnReport(new)
      <3>1. CASE h = NoLib
        <4>1. new.lib = lib /\ new.infos = EmptyMap
          BY <1>0, <2>1, <3>1 DEF Call
        <4>2. \A c \in Classes :
                /\ new.infos[c] = NoInfo
                /\ {r \in Registers[lib] : r.class = c} = {}
          BY <2>2, <3>1, <4>1 DEF EmptyMap
        <4> HIDE DEF new, lib
        <4> QED BY <4>1, <4>2 DEF OwnReport, Gathers
      <3>2. CASE h # NoLib
        <4>1. new.op = "hook"
          BY <1>0, <3>2 DEF Call
        <4> HIDE DEF new
        <4> QED BY <4>1 DEF OwnReport
      <3> QED BY <3>1, <3>2
    <2> HIDE DEF new
    <2>4. call' = [call EXCEPT ![l] = new]
      BY <1>4, Zenon DEF FindHook, new, h
    <2> QED BY <2>3, <2>4, ReportStep
  <1>5. ASSUME NEW l \in Loaders, LoadPlugins(l) PROVE ReportInv'
    <2> DEFINE h == call[l].hook
               lib == call[l].lib
               infos == IF Verdict(h) = "ok" THEN pluginMap[h] ELSE EmptyMap
               new == [call[l] EXCEPT
                         !.op = "register", !.verdict = Verdict(h),
                         !.infos = infos,
                         !.left = {c \in Classes : infos[c] # NoInfo}]
    <2>1. /\ lib \in mapped /\ h \in Opened(lib) \cap HasHook
          /\ call[l].op = "hook"
      BY <1>0, <1>5 DEF CallGood, LoadPlugins, LinkInv, RootsIn
    <2>2. lib \in Libs
      BY <2>1 DEF TypeOK
    <2>3. Verdict(h) = "ok" <=> Abi[h] = LoaderAbi
      <3>1. h \in Libs
        BY <2>1, <2>2, OpenedFacts
      <3> QED BY <3>1, VerdictKnown
    <2>4. new.lib = lib /\ new.infos = infos
      BY <1>0 DEF Call
    <2>5. call' = [call EXCEPT ![l] = new]
      BY <1>5, Zenon DEF LoadPlugins
    <2>6. ASSUME Isolated(lib), NEW c \in Classes
          PROVE  IF Abi[lib] = LoaderAbi
                 THEN Gathers(infos[c], {r \in Registers[lib] : r.class = c})
                 ELSE infos[c] = NoInfo
      <3>1. h = lib
        BY <2>1, <2>6 DEF Isolated
      <3>2. Gathers(pluginMap[lib][c], {r \in Registers[lib] : r.class = c})
        BY <2>1, <2>6, <3>1, IsolatedHook
      <3> HIDE DEF h, lib
      <3> QED BY <2>3, <3>1, <3>2 DEF EmptyMap
    <2> HIDE DEF new, lib, infos
    <2>7. OwnReport(new)
      BY <2>4, <2>6 DEF OwnReport
    <2> QED BY <2>5, <2>7, ReportStep
  <1>6. ASSUME NEW l \in Loaders, NEW x,
               \/ x \in Classes /\ RegisterPlugin(l, x)
               \/ x \in Symbols /\ ForgetPlugin(l, x)
        PROVE  ReportInv'
    <2> DEFINE new == [call[l] EXCEPT !.left = @ \ {x}]
    <2>1. call' = [call EXCEPT ![l].left = @ \ {x}]
      BY <1>6 DEF RegisterPlugin, ForgetPlugin
    <2>2. call' = [call EXCEPT ![l] = new]
      BY <2>1
    <2>3. /\ new.op = call[l].op /\ new.lib = call[l].lib
          /\ new.infos = call[l].infos
      BY <1>0 DEF Call
    <2> HIDE DEF new
    <2>4. OwnReport(new)
      BY <1>0, <2>3 DEF OwnReport
    <2> QED BY <2>2, <2>4, ReportStep
  <1>7. ASSUME NEW l \in Loaders, FinishLoad(l) \/ FinishForget(l)
        PROVE  ReportInv'
    <2>1. OwnReport(Idle)
      BY DEF OwnReport, Idle
    <2> QED BY <1>7, <2>1, ReportStep DEF FinishLoad, FinishForget
  <1>8. /\ \A lib \in Libs : \A r : Register(lib, r) => UNCHANGED call
        /\ \A r : RegisterStatic(r) => UNCHANGED call
        /\ UNCHANGED vars => UNCHANGED call
    BY DEF Register, RegisterStatic, vars
  <1> QED
    BY <1>1, <1>2, <1>3, <1>4, <1>5, <1>6, <1>7, <1>8, Steps

-----------------------------------------------------------------------------
(* Theorems about the hooks *)

(* The invariants hold together; each needs those before it.               *)
LEMMA HookInvariants ==
  ASSUME OwnHooks
  PROVE  Spec => [](TypeOK /\ CallInv /\ PendingInv /\ LinkInv /\ HookInv
                      /\ HookExact /\ HookNotRead)
  <1>1. Init => HookInv /\ HookExact /\ HookNotRead
    BY HookInit, HookExactInit, HookExactIff, HookNotReadInit
  <1>2. TypeOK /\ CallInv /\ PendingInv /\ LinkInv /\ HookInv /\ HookExact
          /\ HookNotRead /\ [Next]_vars =>
            (HookInv /\ HookExact /\ HookNotRead)'
    BY HookNext, HookExactNext, HookNotReadNext
  <1> QED BY <1>1, <1>2, TypeCallsLink, PTL DEF Spec

(* A hook has gathered exactly what the registrars that reach it entered,  *)
(* at any moment and whatever the order in which the constructors ran,     *)
(* provided that it keeps the libraries they belong to loaded.             *)
THEOREM RegistrationHookExact ==
  ASSUME OwnHooks PROVE Spec => []HookExact
  BY HookInvariants, PTL

(* LoadPlugins, which copies the map without a lock, never races with an   *)
(* initialiser that enters something in it.                                *)
THEOREM RegistrationHookNotRead ==
  ASSUME OwnHooks PROVE Spec => []HookNotRead
  BY HookInvariants, PTL

(* A Loader takes from an isolated library that it accepts all that the    *)
(* library registers and nothing else, as often as it is loaded: module    *)
(* Loader can have this as the constant Exports.                           *)
THEOREM RegistrationReportsOwn ==
  ASSUME OwnHooks PROVE Spec => []ReportsOwn
  <1>1. Init => ReportInv
    BY ReportInit
  <1>2. TypeOK /\ CallInv /\ PendingInv /\ LinkInv /\ HookInv /\ HookExact
          /\ HookNotRead /\ ReportInv /\ [Next]_vars => ReportInv'
    BY ReportNext
  <1>3. ReportInv => ReportsOwn
    BY DEF ReportInv, OwnReport, ReportsOwn
  <1> QED BY <1>1, <1>2, <1>3, HookInvariants, PTL DEF Spec

-----------------------------------------------------------------------------
(* The code of an Info *)

LEMMA WithinMore ==
  ASSUME NEW info, NEW os, NEW ps, os \subseteq ps, NEW n, CodeWithin(info, os, n)
  PROVE  CodeWithin(info, ps, n)
  BY DEF CodeWithin

(* A merge of two Infos of one object's code is of that object's code.     *)
LEMMA MergeWithin ==
  ASSUME NEW entry \in Info, NEW info \in Info, NEW os, NEW n,
         CodeWithin(entry, os, n), CodeWithin(info, os, n)
  PROVE  CodeWithin(Merge(entry, info), os, n)
  BY MergeFacts DEF CodeWithin

(* A registrar leaves code of its own library, which the hook keeps.       *)
LEMMA InputWithin ==
  ASSUME NEW map \in InfoMap, NEW h \in Libs, MapCode(map, h),
         NEW lib \in Libs, lib \in Opened(h), NEW r \in Registers[lib]
  PROVE  MapCode(InputInfo(map, MakeInfo(lib, r)), h)
  <1> DEFINE info == MakeInfo(lib, r)
             after == InputInfo(map, info)
             c0 == r.class
  <1>1. lib \in Objects /\ r \in Registration
    BY ConstantTypes
  <1>2. /\ info \in Info /\ info.name = c0 /\ c0 \in Classes
        /\ CodeOf(info) = {lib}
    BY <1>1, MakeInfoFacts
  <1>3. RegistersName(lib, NameOf[c0])
    BY DEF RegistersName
  <1> HIDE DEF info, c0
  <1>4. CodeWithin(info, Opened(h), NameOf[c0])
    BY <1>2, <1>3 DEF CodeWithin
  <1>5. /\ \A c \in Classes \ {c0} : after[c] = map[c]
        /\ after[c0] = IF map[c0] = NoInfo THEN info
                       ELSE Merge(map[c0], info)
    BY <1>2, InputInfoFacts
  <1> HIDE DEF after
  <1>6. map[c0] \in Info \cup {NoInfo}
    BY <1>2 DEF InfoMap
  <1>7. CodeWithin(after[c0], Opened(h), NameOf[c0])
    <2>1. CASE map[c0] = NoInfo
      BY <1>4, <1>5, <2>1
    <2>2. CASE map[c0] # NoInfo
      <3>1. map[c0] \in Info /\ CodeWithin(map[c0], Opened(h), NameOf[c0])
        BY <1>2, <1>6, <2>2 DEF MapCode
      <3>2. CodeWithin(Merge(map[c0], info), Opened(h), NameOf[c0])
        BY <1>2, <1>4, <3>1, MergeWithin
      <3> QED BY <1>5, <2>2, <3>2
    <2> QED BY <2>1, <2>2
  <1>8. ASSUME NEW c \in Classes, after[c] # NoInfo
        PROVE  CodeWithin(after[c], Opened(h), NameOf[c])
    <2>1. CASE c = c0
      BY <1>7, <2>1
    <2>2. CASE c # c0
      BY <1>5, <1>8, <2>2 DEF MapCode
    <2> QED BY <2>1, <2>2
  <1> QED BY <1>8 DEF MapCode, after, info

(* Registering a plugin: an Info that is already there under the name is   *)
(* of the same object, by UniqueNames.                                     *)
LEMMA AddWithin ==
  ASSUME UniqueNames, NEW t \in Tables, NEW hs \in [Symbols -> Libs \cup {NoLib}],
         TableCode(t, hs), NEW info \in Info, NEW n \in Symbols, info.name = n,
         NEW lib \in Libs, CodeWithin(info, Opened(lib), n)
  PROVE  TableCode(Table!AddInfo(t, info), [hs EXCEPT ![n] = lib])
  <1> DEFINE after == Table!AddInfo(t, info)
             new == [hs EXCEPT ![n] = lib]
  <1>1. \A m \in Symbols : after.plugins[m] =
          IF m = n /\ t.plugins[m] = NoInfo THEN info ELSE t.plugins[m]
    BY DEF Table!AddInfo
  <1> HIDE DEF after
  <1>2. ASSUME t.plugins[n] # NoInfo
        PROVE  CodeWithin(t.plugins[n], Opened(lib), n)
    <2>1. CodeWithin(t.plugins[n], Opened(hs[n]), n)
      BY <1>2 DEF TableCode
    <2>2. info.factory \in Opened(lib) /\ RegistersName(info.factory, n)
      BY DEF CodeWithin, CodeOf
    <2>3. t.plugins[n] \in Info
      BY <1>2 DEF Tables
    <2>4. CodeOf(t.plugins[n]) \subseteq Objects /\ info.factory \in Objects
      BY <2>3 DEF CodeOf, Provided, Info
    <2> QED BY <2>1, <2>2, <2>4 DEF CodeWithin, UniqueNames
  <1>3. ASSUME NEW m \in Symbols, after.plugins[m] # NoInfo
        PROVE  new[m] \in Libs /\ CodeWithin(after.plugins[m], Opened(new[m]), m)
    <2>1. CASE m = n
      <3>1. new[m] = lib
        BY <2>1
      <3>2. CodeWithin(after.plugins[n], Opened(lib), n)
        BY <1>1, <1>2
      <3> QED BY <2>1, <3>1, <3>2
    <2>2. CASE m # n
      <3>1. new[m] = hs[m] /\ after.plugins[m] = t.plugins[m]
        BY <1>1, <2>2
      <3> QED BY <1>3, <3>1 DEF TableCode
    <2> QED BY <2>1, <2>2
  <1> QED BY <1>3 DEF TableCode, after

(* Forgetting a plugin changes no other entry.                             *)
LEMMA ForgetWithin ==
  ASSUME NEW t \in Tables, NEW hs \in [Symbols -> Libs \cup {NoLib}],
         TableCode(t, hs), NEW n \in Symbols
  PROVE  TableCode(Table!ForgetInfo(t, n), [hs EXCEPT ![n] = NoLib])
  <1> DEFINE after == Table!ForgetInfo(t, n)
  <1>1. /\ after.plugins[n] = NoInfo
        /\ \A m \in Symbols \ {n} : after.plugins[m] = t.plugins[m]
    BY DEF Table!ForgetInfo, Tables
  <1> HIDE DEF after
  <1> QED BY <1>1 DEF TableCode, after

LEMMA CodeInit == Init => CodeInv
  <1> SUFFICES ASSUME Init PROVE CodeInv
    OBVIOUS
  <1>1. \A h \in mapped : MapCode(pluginMap[h], h)
    BY OpenedFacts DEF Init, MapCode, EmptyMap
  <1>2. \A l \in Loaders : CallCode(call[l])
    BY DEF Init, CallCode, Idle
  <1>3. \A l \in Loaders : TableCode(filePlugins[l], handles[l])
    BY DEF Init, TableCode, Table!EmptyRegistry
  <1>4. \A n \in Symbols : staticPlugins.plugins[n] = NoInfo
    BY DEF Init, Table!EmptyRegistry
  <1> QED BY <1>1, <1>2, <1>3, <1>4 DEF CodeInv

(* The parts of the invariant, step by step. *)
MapsCode == \A h \in mapped : MapCode(pluginMap[h], h)

LEMMA MapsNext ==
  TypeOK /\ CallInv /\ PendingInv /\ LinkInv /\ HookInv /\ MapsCode
    /\ [Next]_vars => MapsCode'
  <1> SUFFICES ASSUME TypeOK, CallInv, PendingInv, LinkInv, HookInv, MapsCode,
                      [Next]_vars
               PROVE  MapsCode'
    OBVIOUS
  <1>0. \A h \in mapped : h \in Libs
    BY DEF TypeOK
  <1>1. ASSUME NEW lib \in Libs, NEW r \in pending[lib], Register(lib, r)
        PROVE  MapsCode'
    <2> DEFINE h0 == bound[lib]
    <2>1. r \in Registers[lib] /\ lib \in mapped /\ h0 \in mapped
      BY ConstantTypes DEF PendingInv, LinkInv
    <2>2. lib \in Opened(h0) /\ h0 \in Libs
      BY <1>0, <2>1 DEF HookInv
    <2>3. pluginMap[h0] \in InfoMap /\ MapCode(pluginMap[h0], h0)
      BY <2>1, <2>2 DEF TypeOK, MapsCode
    <2> HIDE DEF h0
    <2>4. MapCode(InputInfo(pluginMap[h0], MakeInfo(lib, r)), h0)
      BY <2>1, <2>2, <2>3, InputWithin
    <2>5. /\ pluginMap' = [pluginMap EXCEPT ![h0] =
                             InputInfo(@, MakeInfo(lib, r))]
          /\ UNCHANGED mapped
      BY <1>1, Zenon DEF Register, h0
    <2>6. ASSUME NEW h \in mapped PROVE MapCode(pluginMap'[h], h)
      <3>1. CASE h = h0
        <4>1. pluginMap'[h] = InputInfo(pluginMap[h0], MakeInfo(lib, r))
          BY <2>2, <2>5, <3>1 DEF TypeOK
        <4> QED BY <2>4, <3>1, <4>1
      <3>2. CASE h # h0
        <4>1. pluginMap'[h] = pluginMap[h]
          BY <1>0, <2>5, <3>2 DEF TypeOK
        <4> QED BY <4>1 DEF MapsCode
      <3> QED BY <3>1, <3>2
    <2> QED BY <2>5, <2>6 DEF MapsCode
  <1>2. ASSUME NEW r, RegisterStatic(r) PROVE MapsCode'
    BY <1>2 DEF RegisterStatic, MapsCode
  <1>3. ASSUME NEW l \in Loaders, NEW lib \in Libs, LoadLib(l, lib)
        PROVE  MapsCode'
    <2>1. mapped' \subseteq Libs /\ UNCHANGED pluginMap
      BY <1>3, LoadFacts, OpenedFacts DEF TypeOK
    <2>2. \A h \in Libs \ mapped : pluginMap[h] = EmptyMap
      BY DEF HookInv
    <2>3. \A h : MapCode(EmptyMap, h)
      BY DEF MapCode, EmptyMap
    <2> QED BY <2>1, <2>2, <2>3 DEF MapsCode
  <1>4. ASSUME UNCHANGED linkVars PROVE MapsCode'
    BY <1>4 DEF MapsCode, linkVars
  <1>5. ASSUME Unload, RootsIn(handles', call', mapped) PROVE MapsCode'
    <2>1. /\ mapped' \subseteq mapped
          /\ \A h \in mapped' : pluginMap'[h] = pluginMap[h]
      BY <1>0, <1>5, UnloadFacts
    <2> QED BY <2>1 DEF MapsCode
  <1> QED BY <1>1, <1>2, <1>3, <1>4, <1>5, LinkSteps

CallsCode == \A l \in Loaders : CallCode(call[l])

(* A step of one Loader's call says nothing of the other calls.            *)
LEMMA CallsStep ==
  ASSUME TypeOK, CallsCode, NEW l \in Loaders, NEW new,
         call' = [call EXCEPT ![l] = new], CallCode(new)
  PROVE  CallsCode'
  BY DEF CallsCode, TypeOK

LEMMA CallsNext ==
  TypeOK /\ CallInv /\ LinkInv /\ MapsCode /\ CallsCode /\ [Next]_vars =>
    CallsCode'
  <1> SUFFICES ASSUME TypeOK, CallInv, LinkInv, MapsCode, CallsCode, [Next]_vars
               PROVE  CallsCode'
    OBVIOUS
  <1>0. \A l \in Loaders :
          CallGood(call[l]) /\ call[l] \in Call /\ CallCode(call[l])
    BY DEF CallInv, TypeOK, CallsCode
  <1>1. UNCHANGED call => CallsCode'
    BY DEF CallsCode
  <1>2. ASSUME NEW l \in Loaders, NEW lib \in Libs, LoadLib(l, lib)
        PROVE  CallsCode'
    <2>1. CallCode([Idle EXCEPT !.op = "opened", !.lib = lib])
      BY DEF CallCode, Idle
    <2> QED BY <1>2, <2>1, CallsStep DEF LoadLib
  <1>3. ASSUME NEW l \in Loaders, NEW lib \in Libs, ForgetLibrary(l, lib)
        PROVE  CallsCode'
    <2>1. CallCode([Idle EXCEPT !.op = "forget", !.lib = lib,
                                !.left = provides[l][lib]])
      BY DEF CallCode, Idle
    <2> QED BY <1>3, <2>1, CallsStep DEF ForgetLibrary
  <1>4. ASSUME NEW l \in Loaders, FindHook(l) PROVE CallsCode'
    <2> DEFINE h == FirstHook(SearchList[call[l].lib])
               new == IF h = NoLib
                      THEN [call[l] EXCEPT !.op = "register",
                                           !.verdict = "missing"]
                      ELSE [call[l] EXCEPT !.op = "hook", !.hook = h]
    <2>1. call[l].infos = EmptyMap
      BY <1>0, <1>4 DEF CallGood, FindHook
    <2> HIDE DEF h
    <2>2. new.infos = EmptyMap
      BY <1>0, <2>1 DEF Call
    <2>3. call' = [call EXCEPT ![l] = new]
      BY <1>4, Zenon DEF FindHook, h
    <2> HIDE DEF new
    <2>4. CallCode(new)
      BY <2>2 DEF CallCode, EmptyMap
    <2> QED BY <2>3, <2>4, CallsStep
  <1>5. ASSUME NEW l \in Loaders, LoadPlugins(l) PROVE CallsCode'
    <2> DEFINE h == call[l].hook
               lib == call[l].lib
               infos == IF Verdict(h) = "ok" THEN pluginMap[h] ELSE EmptyMap
               new == [call[l] EXCEPT
                         !.op = "register", !.verdict = Verdict(h),
                         !.infos = infos,
                         !.left = {c \in Classes : infos[c] # NoInfo}]
    <2>1. lib \in mapped /\ lib \in Libs /\ h \in Opened(lib)
      BY <1>0, <1>5 DEF CallGood, LoadPlugins, LinkInv, RootsIn
    <2>2. /\ h \in mapped /\ Opened(h) \subseteq Opened(lib)
      BY <2>1, OpenedFacts DEF LinkInv
    <2>3. MapCode(pluginMap[h], h)
      BY <2>2 DEF MapsCode
    <2>4. new.lib = lib /\ new.infos = infos
      BY <1>0 DEF Call
    <2>5. call' = [call EXCEPT ![l] = new]
      BY <1>5, Zenon DEF LoadPlugins
    <2>6. ASSUME NEW c \in Classes, infos[c] # NoInfo
          PROVE  CodeWithin(infos[c], Opened(lib), NameOf[c])
      <3> HIDE DEF h, lib
      <3>1. infos = pluginMap[h]
        BY <2>6 DEF EmptyMap
      <3>2. CodeWithin(infos[c], Opened(h), NameOf[c])
        BY <2>3, <2>6, <3>1 DEF MapCode
      <3> QED BY <2>2, <3>2, WithinMore
    <2> HIDE DEF new, lib, infos
    <2>7. CallCode(new)
      BY <2>4, <2>6 DEF CallCode
    <2> QED BY <2>5, <2>7, CallsStep
  <1>6. ASSUME NEW l \in Loaders, NEW x,
               \/ x \in Classes /\ RegisterPlugin(l, x)
               \/ x \in Symbols /\ ForgetPlugin(l, x)
        PROVE  CallsCode'
    <2> DEFINE new == [call[l] EXCEPT !.left = @ \ {x}]
    <2>1. call' = [call EXCEPT ![l].left = @ \ {x}]
      BY <1>6 DEF RegisterPlugin, ForgetPlugin
    <2>2. call' = [call EXCEPT ![l] = new]
      BY <2>1
    <2>3. /\ new.op = call[l].op /\ new.lib = call[l].lib
          /\ new.infos = call[l].infos
      BY <1>0 DEF Call
    <2> HIDE DEF new
    <2>4. CallCode(new)
      BY <1>0, <2>3 DEF CallCode
    <2> QED BY <2>2, <2>4, CallsStep
  <1>7. ASSUME NEW l \in Loaders, FinishLoad(l) \/ FinishForget(l)
        PROVE  CallsCode'
    <2>1. CallCode(Idle)
      BY DEF CallCode, Idle
    <2> QED BY <1>7, <2>1, CallsStep DEF FinishLoad, FinishForget
  <1>8. /\ \A lib \in Libs : \A r : Register(lib, r) => UNCHANGED call
        /\ \A r : RegisterStatic(r) => UNCHANGED call
        /\ UNCHANGED vars => UNCHANGED call
    BY DEF Register, RegisterStatic, vars
  <1> QED
    BY <1>1, <1>2, <1>3, <1>4, <1>5, <1>6, <1>7, <1>8, Steps

TablesCode == \A l \in Loaders : TableCode(filePlugins[l], handles[l])

LEMMA TablesStep ==
  ASSUME TypeOK, TablesCode, NEW l \in Loaders, NEW t, NEW hs,
         filePlugins' = [filePlugins EXCEPT ![l] = t],
         handles' = [handles EXCEPT ![l] = hs], TableCode(t, hs)
  PROVE  TablesCode'
  BY DEF TablesCode, TypeOK

LEMMA TablesNext ==
  ASSUME UniqueNames
  PROVE  TypeOK /\ CallInv /\ CallsCode /\ TablesCode /\ [Next]_vars =>
           TablesCode'
  <1> SUFFICES ASSUME TypeOK, CallInv, CallsCode, TablesCode, [Next]_vars
               PROVE  TablesCode'
    OBVIOUS
  <1>1. UNCHANGED <<filePlugins, handles>> => TablesCode'
    BY DEF TablesCode
  <1>2. ASSUME NEW l \in Loaders, NEW c \in Classes, RegisterPlugin(l, c)
        PROVE  TablesCode'
    <2> DEFINE info == call[l].infos[c]
               n == NameOf[c]
               lib == call[l].lib
               kept == [info EXCEPT !.name = n, !.demangled = Demangled(info)]
               t == Table!AddInfo(filePlugins[l], kept)
               hs == [handles[l] EXCEPT ![n] = lib]
    <2>1. /\ call[l].op = "register" /\ info # NoInfo /\ info \in Info
          /\ n \in Symbols /\ lib \in Libs
      BY <1>2, ConstantTypes
         DEF CallInv, CallGood, RegisterPlugin, TypeOK, Call, InfoMap
    <2>2. CodeWithin(info, Opened(lib), n)
      BY <2>1 DEF CallsCode, CallCode
    <2> HIDE DEF info, lib, n
    <2>3. /\ kept \in Info /\ kept.name = n
          /\ kept.casts = info.casts /\ kept.factory = info.factory
      BY <2>1, DemangledType DEF Info
    <2>4. filePlugins' = [filePlugins EXCEPT ![l] = t]
      BY <1>2, Zenon DEF RegisterPlugin, info, n
    <2>5. handles' = [handles EXCEPT ![l] = hs]
      BY <1>2 DEF RegisterPlugin, n, lib
    <2> HIDE DEF kept
    <2>6. CodeWithin(kept, Opened(lib), n)
      BY <2>2, <2>3 DEF CodeWithin, CodeOf, Provided
    <2>7. /\ TableCode(filePlugins[l], handles[l]) /\ filePlugins[l] \in Tables
          /\ handles[l] \in [Symbols -> Libs \cup {NoLib}]
      BY DEF TablesCode, TypeOK
    <2>8. TableCode(t, hs)
      BY <2>1, <2>3, <2>6, <2>7, AddWithin
    <2> HIDE DEF t, hs
    <2> QED BY <2>4, <2>5, <2>8, TablesStep
  <1>3. ASSUME NEW l \in Loaders, NEW n \in Symbols, ForgetPlugin(l, n)
        PROVE  TablesCode'
    <2> DEFINE t == Table!ForgetInfo(filePlugins[l], n)
               hs == [handles[l] EXCEPT ![n] = NoLib]
    <2>1. filePlugins' = [filePlugins EXCEPT ![l] = t]
      BY <1>3, Zenon DEF ForgetPlugin
    <2>2. handles' = [handles EXCEPT ![l] = hs]
      BY <1>3 DEF ForgetPlugin
    <2>3. /\ TableCode(filePlugins[l], handles[l]) /\ filePlugins[l] \in Tables
          /\ handles[l] \in [Symbols -> Libs \cup {NoLib}]
      BY DEF TablesCode, TypeOK
    <2>4. TableCode(t, hs)
      BY <2>3, ForgetWithin
    <2> HIDE DEF t, hs
    <2> QED BY <2>1, <2>2, <2>4, TablesStep
  <1>4. /\ \A lib \in Libs : \A r :
             Register(lib, r) => UNCHANGED <<filePlugins, handles>>
        /\ \A r : RegisterStatic(r) => UNCHANGED <<filePlugins, handles>>
        /\ \A l \in Loaders, lib \in Libs :
             LoadLib(l, lib) \/ ForgetLibrary(l, lib) =>
               UNCHANGED <<filePlugins, handles>>
        /\ \A l \in Loaders :
             FindHook(l) \/ LoadPlugins(l) \/ FinishLoad(l) \/ FinishForget(l) =>
               UNCHANGED <<filePlugins, handles>>
        /\ UNCHANGED vars => UNCHANGED <<filePlugins, handles>>
    BY DEF Register, RegisterStatic, LoadLib, ForgetLibrary, FindHook,
           LoadPlugins, FinishLoad, FinishForget, vars, tableVars
  <1> QED BY <1>1, <1>2, <1>3, <1>4, Steps

StaticCode ==
  \A n \in Symbols : staticPlugins.plugins[n] # NoInfo =>
    CodeOf(staticPlugins.plugins[n]) \subseteq {Exe}

LEMMA StaticCodeNext ==
  TypeOK /\ PendingInv /\ StaticCode /\ [Next]_vars => StaticCode'
  <1> SUFFICES ASSUME TypeOK, PendingInv, StaticCode, [Next]_vars
               PROVE  StaticCode'
    OBVIOUS
  <1>1. UNCHANGED staticPlugins => StaticCode'
    BY DEF StaticCode
  <1>2. ASSUME NEW r, RegisterStatic(r) PROVE StaticCode'
    <2> DEFINE t == staticPlugins
               n == NameOf[r.class]
               after == StaticAddInfo(t, MakeInfo(Exe, r))
    <2>1. r \in Registration /\ staticPlugins' = after /\ t \in Tables
      BY <1>2, ConstantTypes DEF RegisterStatic, PendingInv, TypeOK
    <2>2. StaticAdded(t, r)
      BY <2>1, StaticAddInfoFacts
    <2> HIDE DEF after
    <2>3. /\ \A m \in Symbols \ {n} : after.plugins[m] = t.plugins[m]
          /\ n \in Symbols
          /\ CodeOf(after.plugins[n]) \subseteq
               {Exe} \cup (IF t.plugins[n] = NoInfo THEN {}
                          ELSE CodeOf(t.plugins[n]))
      BY <2>2 DEF StaticAdded, after
    <2>4. ASSUME NEW m \in Symbols, after.plugins[m] # NoInfo
          PROVE  CodeOf(after.plugins[m]) \subseteq {Exe}
      <3> HIDE DEF n
      <3>1. CASE m = n
        BY <2>3, <3>1 DEF StaticCode
      <3>2. CASE m # n
        BY <2>3, <2>4, <3>2 DEF StaticCode
      <3> QED BY <3>1, <3>2
    <2> QED BY <2>1, <2>4 DEF StaticCode
  <1>3. /\ \A lib \in Libs : \A r : Register(lib, r) => UNCHANGED staticPlugins
        /\ \A l \in Loaders, lib \in Libs :
             LoadLib(l, lib) \/ ForgetLibrary(l, lib) => UNCHANGED staticPlugins
        /\ \A l \in Loaders :
             FindHook(l) \/ LoadPlugins(l) \/ FinishLoad(l) \/ FinishForget(l) =>
               UNCHANGED staticPlugins
        /\ \A l \in Loaders, c \in Classes :
             RegisterPlugin(l, c) => UNCHANGED staticPlugins
        /\ \A l \in Loaders, n \in Symbols :
             ForgetPlugin(l, n) => UNCHANGED staticPlugins
        /\ UNCHANGED vars => UNCHANGED staticPlugins
    BY DEF Register, LoadLib, ForgetLibrary, FindHook, LoadPlugins, FinishLoad,
           FinishForget, RegisterPlugin, ForgetPlugin, vars
  <1> QED BY <1>1, <1>2, <1>3, Steps

(* The invariant implies the property: what a handle or a call refers to   *)
(* is loaded, with all that it is linked to.                               *)
LEMMA CodeLoaded ==
  TypeOK /\ CallInv /\ LinkInv /\ CodeInv => InfoCodeLoaded
  <1> SUFFICES ASSUME TypeOK, CallInv, LinkInv, CodeInv PROVE InfoCodeLoaded
    OBVIOUS
  <1>1. ASSUME NEW h \in mapped, NEW c \in Classes, pluginMap[h][c] # NoInfo
        PROVE  CodeOf(pluginMap[h][c]) \subseteq mapped \cup {Exe}
    BY <1>1 DEF CodeInv, MapCode, CodeWithin, LinkInv
  <1>2. ASSUME NEW n \in Symbols, staticPlugins.plugins[n] # NoInfo
        PROVE  CodeOf(staticPlugins.plugins[n]) \subseteq mapped \cup {Exe}
    BY <1>2 DEF CodeInv
  <1>3. ASSUME NEW l \in Loaders, NEW n \in Symbols,
               filePlugins[l].plugins[n] # NoInfo
        PROVE  CodeOf(filePlugins[l].plugins[n]) \subseteq mapped \cup {Exe}
    <2>1. /\ handles[l][n] \in Libs
          /\ CodeWithin(filePlugins[l].plugins[n], Opened(handles[l][n]), n)
      BY <1>3 DEF CodeInv, TableCode
    <2>2. handles[l][n] \in mapped
      BY <2>1, OpenedFacts DEF LinkInv, RootsIn
    <2> QED BY <2>1, <2>2 DEF CodeWithin, LinkInv
  <1>4. ASSUME NEW l \in Loaders, NEW c \in Classes, call[l].infos[c] # NoInfo
        PROVE  CodeOf(call[l].infos[c]) \subseteq mapped \cup {Exe}
    <2>1. call[l].op = "register"
      BY <1>4 DEF CallInv, CallGood, EmptyMap
    <2>2. /\ CodeWithin(call[l].infos[c], Opened(call[l].lib), NameOf[c])
          /\ call[l].lib \in mapped
      BY <1>4, <2>1 DEF CodeInv, CallCode, LinkInv, RootsIn
    <2> QED BY <2>2 DEF CodeWithin, LinkInv
  <1>5. ASSUME NEW info \in KnownInfos, info # NoInfo
        PROVE  CodeOf(info) \subseteq mapped \cup {Exe}
    <2>1. CASE \E h \in mapped, c \in Classes : info = pluginMap[h][c]
      <3>1. PICK h \in mapped, c \in Classes : info = pluginMap[h][c]
        BY <2>1
      <3> QED BY <1>1, <1>5, <3>1
    <2>2. CASE \E n \in Symbols : info = staticPlugins.plugins[n]
      BY <1>2, <1>5, <2>2
    <2>3. CASE \E l \in Loaders, n \in Symbols : info = filePlugins[l].plugins[n]
      <3>1. PICK l \in Loaders, n \in Symbols : info = filePlugins[l].plugins[n]
        BY <2>3
      <3> QED BY <1>3, <1>5, <3>1
    <2>4. CASE \E l \in Loaders, c \in Classes : info = call[l].infos[c]
      <3>1. PICK l \in Loaders, c \in Classes : info = call[l].infos[c]
        BY <2>4
      <3> QED BY <1>4, <1>5, <3>1
    <2>5. \/ \E h \in mapped : info \in {pluginMap[h][c] : c \in Classes}
          \/ info \in {staticPlugins.plugins[n] : n \in Symbols}
          \/ \E l \in Loaders :
               info \in {filePlugins[l].plugins[n] : n \in Symbols}
          \/ \E l \in Loaders : info \in {call[l].infos[c] : c \in Classes}
      BY <1>5 DEF KnownInfos
    <2> QED BY <2>1, <2>2, <2>3, <2>4, <2>5
  <1> QED BY <1>5 DEF InfoCodeLoaded

(* The factory, the deleter and the casts of every Info, wherever it is    *)
(* kept, are code that is loaded, provided that each hook keeps the        *)
(* libraries it serves and no two objects register a plugin by one name:   *)
(* a handle for the library it was read from is all that an Info needs.    *)
THEOREM RegistrationInfoCodeLoaded ==
  ASSUME OwnHooks, UniqueNames PROVE Spec => []InfoCodeLoaded
  <1>1. Init => MapsCode /\ CallsCode /\ TablesCode /\ StaticCode
    BY CodeInit DEF CodeInv, MapsCode, CallsCode, TablesCode, StaticCode
  <1>2. TypeOK /\ CallInv /\ PendingInv /\ LinkInv /\ HookInv
          /\ MapsCode /\ CallsCode /\ TablesCode /\ StaticCode /\ [Next]_vars =>
            (MapsCode /\ CallsCode /\ TablesCode /\ StaticCode)'
    BY MapsNext, CallsNext, TablesNext, StaticCodeNext
  <1>3. TypeOK /\ CallInv /\ LinkInv
          /\ MapsCode /\ CallsCode /\ TablesCode /\ StaticCode => InfoCodeLoaded
    BY CodeLoaded DEF CodeInv, MapsCode, CallsCode, TablesCode, StaticCode
  <1> QED BY <1>1, <1>2, <1>3, HookInvariants, PTL DEF Spec

=============================================================================
