SPECIFICATION Spec
CONSTANTS
  T1 = T1  T2 = T2
  P1 = P1  P2 = P2  P3 = P3
  W1 = W1  W2 = W2  S1 = S1
  X = X  Y = Y
  X1 = X1  Y1 = Y1
  KX = KX  KY = KY
  Threads = {T1}
  Ptrs = {P1, P2, P3}
  Weaks = {W1}
  Shares = {S1}
  Infos = {X}
  Statics = {X}
  Insts = {X1}
  Interfaces = {KX, KY}
  ClassOf <- InstClass
  Provides <- OwnKind
  Specialization <- ThirdSpec
  FromThis = {X}
  Programs <- LockProgram
  NoInst = NoInst  NoInfo = NoInfo  NoPtr = NoPtr
  Absent = Absent  Moved = Moved
  NullEntry = NullEntry  NoEntry = NoEntry
INVARIANT LockFindsInfo
CHECK_DEADLOCK FALSE
