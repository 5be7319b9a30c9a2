--------------------------- MODULE RegistryProofs ---------------------------
(***************************************************************************)
(* Facts about the operations of Registry, for every value of the          *)
(* constants.                                                              *)
(***************************************************************************)
EXTENDS Registry, TLAPS

(* A registry has the right type from the start, and registering and       *)
(* forgetting a plugin keep it.                                            *)
LEMMA EmptyRegistryType == EmptyRegistry \in RegistryValue
  BY DEF EmptyRegistry, RegistryValue

LEMMA AddInfoType ==
  ASSUME NEW r \in RegistryValue, NEW info \in Info
  PROVE  AddInfo(r, info) \in RegistryValue
  BY DEF AddInfo, RegistryValue, Info

LEMMA ForgetInfoType ==
  ASSUME NEW r \in RegistryValue, NEW n \in Symbols
  PROVE  ForgetInfo(r, n) \in RegistryValue
  BY DEF ForgetInfo, RegistryValue, Info

(* What LookupPlugin returns is a plugin name or the empty string, and a   *)
(* name that it returns is the one asked for or claims it as an alias.     *)
LEMMA LookupResult ==
  ASSUME NEW r \in RegistryValue, NEW s \in Symbols,
         LookupPlugin(r, s) # NoName
  PROVE  /\ LookupPlugin(r, s) \in Symbols
         /\ \/ /\ LookupPlugin(r, s) = s
               /\ r.plugins[s] # NoInfo
            \/ r.aliases[s] = {LookupPlugin(r, s)}
  BY RegistryAssumption DEF LookupPlugin, RegistryValue

(* The index of aliases has exactly the aliases of the plugins, each of    *)
(* which is stored under its own name.                                     *)
IndexExact(r) ==
  /\ \A n \in Symbols : r.plugins[n] # NoInfo => r.plugins[n].name = n
  /\ \A a \in Symbols :
       r.aliases[a] = {n \in Symbols : /\ r.plugins[n] # NoInfo
                                       /\ a \in r.plugins[n].aliases}

LEMMA EmptyIndexExact == IndexExact(EmptyRegistry)
  BY DEF EmptyRegistry, IndexExact

(* Registering keeps the index exact when the name is new, or is already   *)
(* there with the same Info.                                               *)
LEMMA AddInfoIndexExact ==
  ASSUME NEW r \in RegistryValue, NEW info \in Info, IndexExact(r),
         r.plugins[info.name] \in {NoInfo, info}
  PROVE  IndexExact(AddInfo(r, info))
  <1> DEFINE q == AddInfo(r, info)
  <1>1. \A n \in Symbols : q.plugins[n] =
          IF n = info.name /\ r.plugins[n] = NoInfo THEN info ELSE r.plugins[n]
    BY DEF AddInfo
  <1>2. \A a \in Symbols : q.aliases[a] =
          IF a \in info.aliases THEN r.aliases[a] \cup {info.name}
          ELSE r.aliases[a]
    BY DEF AddInfo
  <1>3. info.name \in Symbols /\ info # NoInfo /\ info.aliases \in SUBSET Symbols
    BY RegistryAssumption DEF Info
  <1>4. \A n \in Symbols : n # info.name => q.plugins[n] = r.plugins[n]
    BY <1>1
  <1>5. q.plugins[info.name] = info
    BY <1>1, <1>3
  <1>6. \A n \in Symbols : q.plugins[n] # NoInfo => q.plugins[n].name = n
    BY <1>4, <1>5, <1>3 DEF IndexExact
  <1>7. ASSUME NEW a \in Symbols
        PROVE  q.aliases[a] = {n \in Symbols : /\ q.plugins[n] # NoInfo
                                               /\ a \in q.plugins[n].aliases}
    <2> DEFINE R == {n \in Symbols : /\ r.plugins[n] # NoInfo
                                     /\ a \in r.plugins[n].aliases}
               Q == {n \in Symbols : /\ q.plugins[n] # NoInfo
                                     /\ a \in q.plugins[n].aliases}
    <2>1. r.aliases[a] = R
      BY DEF IndexExact
    <2>2. \A n \in Symbols \ {info.name} : n \in R <=> n \in Q
      BY <1>4
    <2>3. info.name \in Q <=> a \in info.aliases
      BY <1>3, <1>5
    <2>4. info.name \in R => info.name \in Q
      BY <1>3, <1>5
    <2>5. CASE a \in info.aliases
      <3>1. q.aliases[a] = R \cup {info.name}
        BY <1>2, <2>1, <2>5
      <3>2. Q = R \cup {info.name}
        <4>1. info.name \in Q
          BY <2>3, <2>5
        <4> HIDE DEF q
        <4> QED BY <2>2, <2>4, <4>1, <1>3
      <3> QED BY <3>1, <3>2
    <2>6. CASE a \notin info.aliases
      <3>1. q.aliases[a] = R
        BY <1>2, <2>1, <2>6
      <3>2. Q = R
        <4>1. info.name \notin Q /\ info.name \notin R
          BY <2>3, <2>4, <2>6
        <4> HIDE DEF q
        <4> QED BY <2>2, <4>1, <1>3
      <3> QED BY <3>1, <3>2
    <2> QED BY <2>5, <2>6
  <1> QED BY <1>6, <1>7 DEF IndexExact

(* Forgetting a plugin withdraws every trace of it. *)
LEMMA ForgetInfoIndexExact ==
  ASSUME NEW r \in RegistryValue, NEW m \in Symbols, IndexExact(r)
  PROVE  /\ IndexExact(ForgetInfo(r, m))
         /\ ForgetInfo(r, m).plugins[m] = NoInfo
         /\ \A n \in Symbols \ {m} :
              ForgetInfo(r, m).plugins[n] = r.plugins[n]
  <1> DEFINE q == ForgetInfo(r, m)
  <1>1. CASE r.plugins[m] = NoInfo
    BY <1>1 DEF ForgetInfo
  <1>2. CASE r.plugins[m] # NoInfo
    <2>1. \A n \in Symbols :
            q.plugins[n] = IF n = m THEN NoInfo ELSE r.plugins[n]
      BY <1>2 DEF ForgetInfo, RegistryValue
    <2>2. \A a \in Symbols : q.aliases[a] =
            IF a \in r.plugins[m].aliases
            THEN r.aliases[a] \ {r.plugins[m].name} ELSE r.aliases[a]
      BY <1>2 DEF ForgetInfo
    <2>3. r.plugins[m].name = m
      BY <1>2 DEF IndexExact
    <2>4. \A n \in Symbols : q.plugins[n] # NoInfo => q.plugins[n].name = n
      BY <2>1 DEF IndexExact
    <2>5. ASSUME NEW a \in Symbols
          PROVE  q.aliases[a] = {n \in Symbols :
                                   /\ q.plugins[n] # NoInfo
                                   /\ a \in q.plugins[n].aliases}
      <3> DEFINE R == {n \in Symbols : /\ r.plugins[n] # NoInfo
                                       /\ a \in r.plugins[n].aliases}
                 Q == {n \in Symbols : /\ q.plugins[n] # NoInfo
                                       /\ a \in q.plugins[n].aliases}
      <3>1. r.aliases[a] = R
        BY DEF IndexExact
      <3>2. \A n \in Symbols : n \in Q <=> n \in R /\ n # m
        BY <2>1
      <3>3. m \in R <=> a \in r.plugins[m].aliases
        BY <1>2
      <3>4. Q = R \ {m}
        <4> HIDE DEF q
        <4> QED BY <3>2
      <3>5. CASE a \in r.plugins[m].aliases
        BY <2>2, <2>3, <3>1, <3>4, <3>5
      <3>6. CASE a \notin r.plugins[m].aliases
        <4>1. q.aliases[a] = R
          BY <2>2, <3>1, <3>6
        <4>2. m \notin R
          BY <3>3, <3>6
        <4> QED BY <4>1, <4>2, <3>4
      <3> QED BY <3>5, <3>6
    <2> QED BY <2>1, <2>4, <2>5 DEF IndexExact
  <1> QED BY <1>1, <1>2

(* The index has every alias of the plugins, each of which is stored under *)
(* its own name; it may have more.                                         *)
IndexCovers(r) ==
  \A n \in Symbols :
    r.plugins[n] # NoInfo =>
      /\ r.plugins[n].name = n
      /\ \A a \in r.plugins[n].aliases : n \in r.aliases[a]

LEMMA EmptyIndexCovers == IndexCovers(EmptyRegistry)
  BY DEF EmptyRegistry, IndexCovers

(* Registering keeps the aliases covered, whatever is there already under  *)
(* that name.                                                              *)
LEMMA AddInfoCovers ==
  ASSUME NEW r \in RegistryValue, NEW info \in Info, IndexCovers(r)
  PROVE  IndexCovers(AddInfo(r, info))
  <1> DEFINE q == AddInfo(r, info)
  <1> SUFFICES ASSUME NEW n \in Symbols, q.plugins[n] # NoInfo
               PROVE  /\ q.plugins[n].name = n
                      /\ \A a \in q.plugins[n].aliases : n \in q.aliases[a]
    BY DEF IndexCovers
  <1>1. \A a \in Symbols :
          /\ r.aliases[a] \subseteq q.aliases[a]
          /\ a \in info.aliases => info.name \in q.aliases[a]
    BY DEF AddInfo
  <1>2. info.aliases \subseteq Symbols
    BY DEF Info
  <1>3. CASE n = info.name /\ r.plugins[n] = NoInfo
    <2>1. q.plugins[n] = info
      BY <1>3 DEF AddInfo
    <2> QED BY <1>1, <1>2, <1>3, <2>1
  <1>4. CASE ~(n = info.name /\ r.plugins[n] = NoInfo)
    <2>1. q.plugins[n] = r.plugins[n]
      BY <1>4 DEF AddInfo
    <2>2. r.plugins[n].aliases \subseteq Symbols
      BY <2>1 DEF RegistryValue, Info
    <2> QED BY <1>1, <2>1, <2>2 DEF IndexCovers
  <1> QED BY <1>3, <1>4

(* Forgetting one plugin withdraws no alias of another. *)
LEMMA ForgetInfoCovers ==
  ASSUME NEW r \in RegistryValue, NEW m \in Symbols, IndexCovers(r)
  PROVE  IndexCovers(ForgetInfo(r, m))
  <1> DEFINE q == ForgetInfo(r, m)
  <1>1. CASE r.plugins[m] = NoInfo
    BY <1>1 DEF ForgetInfo
  <1>2. CASE r.plugins[m] # NoInfo
    <2>1. \A n \in Symbols :
            q.plugins[n] = IF n = m THEN NoInfo ELSE r.plugins[n]
      BY <1>2 DEF ForgetInfo, RegistryValue
    <2>2. \A a \in Symbols : r.aliases[a] \ {m} \subseteq q.aliases[a]
      BY <1>2 DEF ForgetInfo, IndexCovers
    <2> SUFFICES ASSUME NEW n \in Symbols, q.plugins[n] # NoInfo
                 PROVE  /\ q.plugins[n].name = n
                        /\ \A a \in q.plugins[n].aliases : n \in q.aliases[a]
      BY DEF IndexCovers
    <2>3. n # m /\ q.plugins[n] = r.plugins[n]
      BY <2>1
    <2>4. r.plugins[n].aliases \subseteq Symbols
      BY <2>3 DEF RegistryValue, Info
    <2> QED BY <2>2, <2>3, <2>4 DEF IndexCovers
  <1> QED BY <1>1, <1>2

(* With an exact index, a name that LookupPlugin returns is registered.    *)
THEOREM LookupFindsInfo ==
  ASSUME NEW r \in RegistryValue, NEW s \in Symbols, IndexExact(r),
         LookupPlugin(r, s) # NoName
  PROVE  r.plugins[LookupPlugin(r, s)] # NoInfo
  BY LookupResult DEF IndexExact
=============================================================================
