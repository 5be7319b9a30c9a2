SPECIFICATION FairSpec
CONSTANTS
  T1 = T1  T2 = T2
  F1 = F1  F2 = F2
  P1 = P1  P2 = P2
  L1 = L1
  Threads = {T1, T2}
  Libs = {L1}
  Factories = {F1, F2}
  Products = {P1, P2}
  LibOf <- OneLibrary
  LongWait = TRUE
  MaxLost = 1
  NoThread = NoThread  NoFactory = NoFactory  NoProduct = NoProduct
INVARIANTS
  TypeOK
  CodeMapped
PROPERTIES
  MutexReleased
