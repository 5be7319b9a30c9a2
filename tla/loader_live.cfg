SPECIFICATION FairSpec
CONSTANTS
  T1 = T1  T2 = T2
  LA = LA  LB = LB
  I1 = I1  I2 = I2
  L1 = L1  L2 = L2  L3 = L3
  H1 = H1  H2 = H2
  P = P  Q = Q  A = A
  Exe = Exe
  Threads = {T1, T2}
  Loaders = {LA}
  Insts = {I1}
  Libs = {L1, L2, L3}
  Handles = {H1, H2}
  Symbols = {P, Q, A}
  Code = {L1, L2, L3, Exe}
  NoInfo = NoInfo  NoName = NoName  NoHandle = NoHandle
  NoLoader = NoLoader  NoLib = NoLib  NoInst = NoInst
  Exports <- OverlappingExports
  AliasesIn <- OwnAlias
  Noisy = {L1}
  StaticInfos <- StaticP
INVARIANTS
  OpensCoverReferences
  EntryProvides
  AliasIndexCovers
PROPERTIES
  ForgetIsComplete
  CallReturns
  CallsAdvance
CHECK_DEADLOCK FALSE
