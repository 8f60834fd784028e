SPECIFICATION Spec
CONSTANTS
  t1 = t1
  t2 = t2
  t3 = t3
  None = None
  Thread = {t1, t2}
  LateThread = {}
  Root <- MCRootLast
  StraySignals = FALSE
  Unreadable = {}
  DEBUG_INFO = TRUE
  MaxDepth = 3
  Radix = 16
  Func <- MCFunc
  FuncSize <- MCFuncSize
  TextSym <- MCTextSym
  Moved <- MCMoved
  MovedAddr <- MCMovedAddr
  BoltSym <- MCBoltSym
  CallIns <- MCCallIns
  CallFunc <- MCCallFunc
  CallTarget <- MCCallTarget
  Slot <- MCSlot
  SlotTarget <- MCSlotTarget
  SlotUser <- MCSlotUser
INVARIANTS
  UnmovedFuncOffStack
CHECK_DEADLOCK FALSE
