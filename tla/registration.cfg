SPECIFICATION Spec
CONSTANTS
  X = X
  Y = Y
  Z = Z
  V = V
  W = W
  N = N
  K1 = K1
  K2 = K2
  Cx = Cx
  Cy = Cy
  Cz = Cz
  Cv = Cv
  Cs = Cs
  A = "a"
  Libs = {X, Y, Z, V, W, N}
  Exe = Exe
  Loaders = {l1, l2}
  Classes = {Cx, Cy, Cz, Cv, Cs}
  Symbols <- MCSymbols
  NameOf <- MCNameOf
  FromThis = FromThis
  Interfaces = {K1, K2, FromThis}
  InterfaceNames <- MCInterfaceNames
  InterfaceName <- MCInterfaceName
  Enabled = {Cz}
  Registers <- MCRegisters
  HasHook = {X, Y, Z, V, W}
  SearchList <- MCSearchList
  LinkOrder <- MCLinkOrder
  Abi <- MCAbi
  LoaderAbi <- MCLoaderAbi
  NoInfo = NoInfo
  NoName = NoName
  NoLib = NoLib
  NoCast = NoCast
  NoMap = NoMap
INVARIANTS
  TypeOK
  HookExact
  StaticExact
  InfoCodeLoaded
  HookNotRead
  RefusalExplained
  ReportsOwn
  QueriesExact
  AliasQueriesExact
