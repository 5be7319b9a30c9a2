------------------------------ MODULE Registry ------------------------------
(***************************************************************************)
(* gz::plugin::Registry (loader/src/detail/Registry.cc): the table that a  *)
(* Loader keeps of the plugins it read from libraries.  A registry is a    *)
(* value with the two maps of the class:                                   *)
(*                                                                         *)
(*   plugins   from a plugin name to its Info, NoInfo where no key exists  *)
(*   aliases   from an alias to the names that claim it, {} where no key   *)
(*             exists (an empty set and an absent key answer alike in      *)
(*             every query)                                                *)
(*                                                                         *)
(* Names and aliases are both strings, and LookupPlugin takes either, so   *)
(* both are drawn from Symbols.  An Info keeps what the queries and the    *)
(* lifetime of the plugin depend on: its name, its aliases and the library *)
(* its factory, deleter and casting functions are compiled into.           *)
(***************************************************************************)
EXTENDS FiniteSets

CONSTANTS
  Symbols,   \* the strings used as plugin names and as aliases
  Code,      \* where code lives: the libraries and the executable
  NoInfo,    \* the null ConstInfoPtr
  NoName     \* the empty string LookupPlugin returns

ASSUME RegistryAssumption ==
  /\ NoName \notin Symbols
  /\ NoInfo \notin [name : Symbols, aliases : SUBSET Symbols, lib : Code]

Info == [name : Symbols, aliases : SUBSET Symbols, lib : Code]

RegistryValue == [plugins : [Symbols -> Info \cup {NoInfo}],
                  aliases : [Symbols -> SUBSET Symbols]]

EmptyRegistry == [plugins |-> [n \in Symbols |-> NoInfo],
                  aliases |-> [a \in Symbols |-> {}]]

-----------------------------------------------------------------------------
(* Queries *)

AllPlugins(r) == {n \in Symbols : r.plugins[n] # NoInfo}

PluginsWithAlias(r, s) ==
  r.aliases[s] \cup (IF r.plugins[s] # NoInfo THEN {s} ELSE {})

AliasesOfPlugin(r, n) ==
  IF r.plugins[n] # NoInfo THEN r.plugins[n].aliases ELSE {}

(* A plugin name wins over an alias; an alias that several plugins claim   *)
(* resolves to nothing.                                                    *)
LookupPlugin(r, s) ==
  IF r.plugins[s] # NoInfo THEN s
  ELSE IF \E n \in Symbols : r.aliases[s] = {n}
       THEN CHOOSE n \in Symbols : r.aliases[s] = {n}
       ELSE NoName

(* The aliases that PrettyStr lists with a name collision. *)
CollidingAliases(r) ==
  {a \in Symbols : \E m, n \in r.aliases[a] : m # n}

-----------------------------------------------------------------------------
(* Updates *)

(* The aliases are recorded first, whether or not the Info is then kept:   *)
(* std::unordered_map::insert leaves an existing entry as it is.           *)
AddInfo(r, info) ==
  [plugins |-> [n \in Symbols |->
                  IF n = info.name /\ r.plugins[n] = NoInfo
                  THEN info ELSE r.plugins[n]],
   aliases |-> [a \in Symbols |->
                  IF a \in info.aliases
                  THEN r.aliases[a] \cup {info.name} ELSE r.aliases[a]]]

(* Mutation for AliasIndexExact: the alias index is not cleaned up. *)
ForgetInfoKeepAliases(r, n) ==
  IF r.plugins[n] = NoInfo THEN r
  ELSE [plugins |-> [r.plugins EXCEPT ![n] = NoInfo], aliases |-> r.aliases]

(* Mutation for AliasIndexCovers: an alias goes with the first plugin that *)
(* claims it.                                                              *)
ForgetInfoAndAliases(r, n) ==
  IF r.plugins[n] = NoInfo THEN r
  ELSE [plugins |-> [r.plugins EXCEPT ![n] = NoInfo],
        aliases |-> [a \in Symbols |->
                       IF a \in r.plugins[n].aliases THEN {}
                       ELSE r.aliases[a]]]

(* Only the aliases of the Info that was kept are withdrawn. *)
ForgetInfo(r, n) ==
  IF r.plugins[n] = NoInfo THEN r
  ELSE [plugins |-> [r.plugins EXCEPT ![n] = NoInfo],
        aliases |-> [a \in Symbols |->
                       IF a \in r.plugins[n].aliases
                       THEN r.aliases[a] \ {r.plugins[n].name}
                       ELSE r.aliases[a]]]
=============================================================================
