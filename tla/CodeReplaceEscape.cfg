SPECIFICATION Spec
CONSTANTS
  t1 = t1
  t2 = t2
  t3 = t3
  None = None
  Thread = {t1, t3}
  LateThread = {t3}
  Root <- MCRootLate
  StraySignals = TRUE
  Unreadable = {"vtable"}
  DEBUG_INFO = FALSE
  MaxDepth = 3
  Radix = 16
  Func <- MCFunc
  FuncSize <- MCFuncSize
  TextSym <- MCTextSym
  Moved <- MCMoved
  MovedAddr <- MCMovedAddr
  BoltSym <- MCBoltSym
  CallIns <- MCCallIns
  CallFunc <- MCCallFunc
  CallTarget <- MCCallTarget
  Slot <- MCSlotLate
  SlotTarget <- MCSlotTargetLate
  SlotUser <- MCSlotUserLate
INVARIANTS
  NoDanglingCall
CHECK_DEADLOCK FALSE
