------------------------- MODULE PtraceSessionProofs -------------------------
(***************************************************************************)
(* Proofs about PtraceSession, for every set of threads and however many   *)
(* of them start late, and for every number of signals: the threads that   *)
(* are paused stay paused, only the thread being tried is diverted, and    *)
(* the SIGSTOP that ptrace_cont sees is the one the library raises.        *)
(***************************************************************************)
EXTENDS PtraceSession, SequenceTheorems, TLAPS

-----------------------------------------------------------------------------
(* The inductive invariant.                                                 *)

(* The loops over tids use an index into it. *)
IndexInv ==
  /\ pc \in {"scan", "read"} => i = 1
  /\ pc \notin {"scan", "read", "join", "exited"} => i \in 1 .. Len(tids)

(* What the last pass over the directory has seen is in tids, as long as it  *)
(* is alive.                                                                 *)
ScanInv ==
  /\ pc = "read" => dirRead \subseteq Range(tids)
  /\ \A t \in dirOpen \cup Range(tids) : run[t] # "unborn"
  /\ pc \in {"attach", "wait", "unwind", "inject", "stepwait", "contwait"} =>
       dirOpen \cap Live \subseteq Range(tids)

(* A thread that runs has nothing to report; EXITED is reported by threads   *)
(* that are gone.                                                            *)
ReportInv ==
  \A t \in Thread :
    /\ run[t] \in {"unborn", "running"} => report[t] = None
    /\ report[t] = "EXITED" => run[t] = "gone"

(* Whoever waitpid will be called for is traced or gone. *)
AttachInv ==
  /\ pc = "attach" => \A j \in 1 .. i - 1 : tids[j] \in traced \/ run[tids[j]] = "gone"
  /\ pc = "wait" => \A j \in 1 .. Len(tids) : tids[j] \in traced \/ run[tids[j]] = "gone"

(* Thread t stands still and waitpid has been called for it. *)
Quiet(t) == run[t] = "gone" \/ (run[t] = "stopped" /\ report[t] = None)

(* Between the loop of waitpid and the loop of PTRACE_DETACH all threads in  *)
(* tids are quiet but the one the tracer tries.                              *)
QuietInv ==
  /\ pc = "wait" => \A j \in 1 .. i - 1 : Quiet(tids[j])
  /\ pc \in {"unwind", "inject"} => \A j \in 1 .. Len(tids) : Quiet(tids[j])
  /\ Waiting => \A j \in 1 .. Len(tids) : j # i => Quiet(tids[j])
  /\ pc = "detach" => \A j \in i .. Len(tids) : Quiet(tids[j])

(* Only the thread being tried has the registers of the library, and those   *)
(* saved from it are its own.                                                *)
DivertInv ==
  /\ \A t \in Thread : regs[t] = "lib" /\ run[t] # "gone" => Waiting /\ t = Tid
  /\ Waiting => old_regs = "own"

(* After the trap no SIGSTOP is left from PTRACE_ATTACH, so a later one is   *)
(* that of the library.                                                      *)
RaiseInv ==
  /\ pc = "stepwait" /\ report[Tid] = "SIGTRAP" => "SIGSTOP" \notin pending[Tid]
  /\ pc = "contwait" /\ lib # "done" => "SIGSTOP" \notin pending[Tid] /\ report[Tid] # "SIGSTOP"
  /\ claimed => lib = "done"

SessionInv ==
  TypeOK /\ IndexInv /\ ScanInv /\ ReportInv /\ AttachInv /\ QuietInv /\ DivertInv /\ RaiseInv

-----------------------------------------------------------------------------
(* tids grows by threads it does not contain. *)
LEMMA AppendNew ==
  ASSUME NEW s \in Seq(Thread), IsInjective(s), NEW t \in Thread, t \notin Range(s)
  PROVE  /\ Append(s, t) \in Seq(Thread) /\ Len(Append(s, t)) = Len(s) + 1
         /\ IsInjective(Append(s, t))
         /\ Range(Append(s, t)) = Range(s) \cup {t}
<1>1. PICK r : r = Append(s, t)
  OBVIOUS
<1>2. /\ r \in Seq(Thread) /\ Len(r) = Len(s) + 1
      /\ \A j \in 1 .. Len(s) : r[j] = s[j]
      /\ r[Len(s) + 1] = t
  BY <1>1, AppendProperties
<1>3. /\ Len(s) \in Nat
      /\ DOMAIN s = 1 .. Len(s) /\ DOMAIN r = 1 .. Len(s) + 1
      /\ DOMAIN r = DOMAIN s \cup {Len(s) + 1}
  BY <1>2
<1>4. IsInjective(r)
  BY <1>2, <1>3 DEF IsInjective, Range
<1>5. Range(r) = Range(s) \cup {t}
  BY <1>2, <1>3 DEF Range
<1> QED BY <1>1, <1>2, <1>4, <1>5

(* A thread creates another one, which the directory need not show. *)
LEMMA SpawnStep ==
  ASSUME SessionInv, NEW t \in Thread, NEW u \in LateThread, Spawn(t, u)
  PROVE  SessionInv'
<1> USE SessionAssumption DEF SessionInv, Spawn, OwnCode, Executes, Tid, tracerVars, scanVars
<1>1. TypeOK'
  BY DEF TypeOK
<1>2. IndexInv'
  BY DEF TypeOK, IndexInv
<1>3. ScanInv'
  BY DEF TypeOK, IndexInv, ScanInv, Range, Live
<1>4. ReportInv'
  BY DEF TypeOK, IndexInv, ReportInv, QuietInv, Quiet, Waiting
<1>5. AttachInv'
  BY DEF TypeOK, IndexInv, ScanInv, AttachInv, Range
<1>6. QuietInv'
  BY DEF TypeOK, IndexInv, ReportInv, AttachInv, QuietInv, Quiet, Waiting
<1>7. DivertInv'
  BY DEF TypeOK, IndexInv, QuietInv, Quiet, DivertInv, ReportInv, Waiting
<1>8. RaiseInv'
  BY DEF TypeOK, IndexInv, RaiseInv
<1> QED BY <1>1, <1>2, <1>3, <1>4, <1>5, <1>6, <1>7, <1>8

(* A thread enters or leaves a system call that sleeps. *)
LEMMA SleepStep ==
  ASSUME SessionInv, NEW t \in Thread, Sleep(t) \/ Wake(t)
  PROVE  SessionInv'
<1> USE SessionAssumption DEF SessionInv, Sleep, Wake, Tid, tracerVars, scanVars
<1>1. TypeOK'
  <2>1. blocked' \in [Thread -> BOOLEAN]
    BY Zenon DEF TypeOK
  <2> QED BY <2>1 DEF TypeOK
<1>2. IndexInv'
  BY DEF TypeOK, IndexInv
<1>3. ScanInv'
  BY DEF TypeOK, IndexInv, ScanInv, Range, Live
<1>4. ReportInv'
  BY DEF TypeOK, IndexInv, ReportInv, QuietInv, Quiet, Waiting
<1>5. AttachInv'
  BY DEF TypeOK, IndexInv, ScanInv, AttachInv, Range
<1>6. QuietInv'
  BY DEF TypeOK, IndexInv, ReportInv, AttachInv, QuietInv, Quiet, Waiting
<1>7. DivertInv'
  BY DEF TypeOK, IndexInv, QuietInv, Quiet, DivertInv, ReportInv, Waiting
<1>8. RaiseInv'
  BY DEF TypeOK, IndexInv, RaiseInv
<1> QED BY <1>1, <1>2, <1>3, <1>4, <1>5, <1>6, <1>7, <1>8

(* A lock of libc is taken or released. *)
LEMMA LockStep ==
  ASSUME SessionInv, NEW t \in Thread, LockLibc(t) \/ UnlockLibc(t)
  PROVE  SessionInv'
<1> USE SessionAssumption DEF SessionInv, LockLibc, UnlockLibc, Tid, tracerVars, scanVars
<1>1. TypeOK'
  BY DEF TypeOK
<1>2. IndexInv'
  BY DEF TypeOK, IndexInv
<1>3. ScanInv'
  BY DEF TypeOK, IndexInv, ScanInv, Range, Live
<1>4. ReportInv'
  BY DEF TypeOK, IndexInv, ReportInv, QuietInv, Quiet, Waiting
<1>5. AttachInv'
  BY DEF TypeOK, IndexInv, ScanInv, AttachInv, Range
<1>6. QuietInv'
  BY DEF TypeOK, IndexInv, ReportInv, AttachInv, QuietInv, Quiet, Waiting
<1>7. DivertInv'
  BY DEF TypeOK, IndexInv, QuietInv, Quiet, DivertInv, ReportInv, Waiting
<1>8. RaiseInv'
  BY DEF TypeOK, IndexInv, RaiseInv
<1> QED BY <1>1, <1>2, <1>3, <1>4, <1>5, <1>6, <1>7, <1>8

(* Threads end: none of them has to be paused any more. *)
LEMMA EndStep ==
  ASSUME SessionInv, NEW T \in SUBSET Thread, End(T)
  PROVE  SessionInv'
<1> USE SessionAssumption DEF SessionInv, End, Tid, tracerVars, scanVars
<1>1. TypeOK'
  BY DEF TypeOK
<1>2. IndexInv'
  BY DEF TypeOK, IndexInv
<1>3. ScanInv'
  BY DEF TypeOK, IndexInv, ScanInv, Range, Live
<1>4. ReportInv'
  BY DEF TypeOK, IndexInv, ReportInv, QuietInv, Quiet, Waiting
<1>5. AttachInv'
  BY DEF TypeOK, IndexInv, ScanInv, AttachInv, Range
<1>6. QuietInv'
  BY DEF TypeOK, IndexInv, ReportInv, AttachInv, QuietInv, Quiet, Waiting
<1>7. DivertInv'
  BY DEF TypeOK, IndexInv, QuietInv, Quiet, DivertInv, ReportInv, Waiting
<1>8. RaiseInv'
  BY DEF TypeOK, IndexInv, RaiseInv
<1> QED BY <1>1, <1>2, <1>3, <1>4, <1>5, <1>6, <1>7, <1>8

(* A signal arrives; it is not a SIGSTOP. *)
LEMMA SignalStep ==
  ASSUME SessionInv, NEW t \in Thread, Signal(t)
  PROVE  SessionInv'
<1> USE SessionAssumption DEF SessionInv, Signal, Live, Tid, tracerVars, scanVars
<1>1. TypeOK'
  BY DEF TypeOK
<1>2. IndexInv'
  BY DEF TypeOK, IndexInv
<1>3. ScanInv'
  BY DEF TypeOK, IndexInv, ScanInv, Range, Live
<1>4. ReportInv'
  BY DEF TypeOK, IndexInv, ReportInv, QuietInv, Quiet, Waiting
<1>5. AttachInv'
  BY DEF TypeOK, IndexInv, ScanInv, AttachInv, Range
<1>6. QuietInv'
  BY DEF TypeOK, IndexInv, ReportInv, AttachInv, QuietInv, Quiet, Waiting
<1>7. DivertInv'
  BY DEF TypeOK, IndexInv, QuietInv, Quiet, DivertInv, ReportInv, Waiting
<1>8. RaiseInv'
  BY DEF TypeOK, IndexInv, RaiseInv
<1> QED BY <1>1, <1>2, <1>3, <1>4, <1>5, <1>6, <1>7, <1>8

(* A thread nobody traces takes a signal. *)
LEMMA TakeSignalStep ==
  ASSUME SessionInv, NEW t \in Thread, NEW s \in {"SIGSTOP", "OTHER"}, TakeSignal(t, s)
  PROVE  SessionInv'
<1> USE SessionAssumption DEF SessionInv, TakeSignal, Tid, tracerVars, scanVars
<1>1. TypeOK'
  BY DEF TypeOK
<1>2. IndexInv'
  BY DEF TypeOK, IndexInv
<1>3. ScanInv'
  BY DEF TypeOK, IndexInv, ScanInv, Range, Live
<1>4. ReportInv'
  BY DEF TypeOK, IndexInv, ReportInv, QuietInv, Quiet, Waiting
<1>5. AttachInv'
  BY DEF TypeOK, IndexInv, ScanInv, AttachInv, Range
<1>6. QuietInv'
  BY DEF TypeOK, IndexInv, ReportInv, AttachInv, QuietInv, Quiet, Waiting
<1>7. DivertInv'
  BY DEF TypeOK, IndexInv, QuietInv, Quiet, DivertInv, ReportInv, Waiting
<1>8. RaiseInv'
  BY DEF TypeOK, IndexInv, RaiseInv
<1> QED BY <1>1, <1>2, <1>3, <1>4, <1>5, <1>6, <1>7, <1>8

(* A traced thread stops for a signal and reports it. *)
LEMMA SignalStopStep ==
  ASSUME SessionInv, NEW t \in Thread, NEW s \in {"SIGSTOP", "OTHER"}, SignalStop(t, s)
  PROVE  SessionInv'
<1> USE SessionAssumption DEF SessionInv, SignalStop, Tid, tracerVars, scanVars
<1>1. TypeOK'
  BY DEF TypeOK
<1>2. IndexInv'
  BY DEF TypeOK, IndexInv
<1>3. ScanInv'
  BY DEF TypeOK, IndexInv, ScanInv, Range, Live
<1>4. ReportInv'
  BY DEF TypeOK, IndexInv, ReportInv, QuietInv, Quiet, Waiting
<1>5. AttachInv'
  BY DEF TypeOK, IndexInv, ScanInv, AttachInv, Range
<1>6. QuietInv'
  BY DEF TypeOK, IndexInv, ReportInv, AttachInv, QuietInv, Quiet, Waiting
<1>7. DivertInv'
  BY DEF TypeOK, IndexInv, QuietInv, Quiet, DivertInv, ReportInv, Waiting
<1>8. RaiseInv'
  BY DEF TypeOK, IndexInv, RaiseInv
<1> QED BY <1>1, <1>2, <1>3, <1>4, <1>5, <1>6, <1>7, <1>8

(* The single step ends in a trap, and only when no signal is pending. *)
LEMMA TrapStopStep ==
  ASSUME SessionInv, TrapStop
  PROVE  SessionInv'
<1> USE SessionAssumption DEF SessionInv, TrapStop, Tid, tracerVars, scanVars
<1>1. TypeOK'
  BY DEF TypeOK
<1>2. IndexInv'
  BY DEF TypeOK, IndexInv
<1>3. ScanInv'
  BY DEF TypeOK, IndexInv, ScanInv, Range, Live
<1>4. ReportInv'
  BY DEF TypeOK, IndexInv, ReportInv, QuietInv, Quiet, Waiting
<1>5. AttachInv'
  BY DEF TypeOK, IndexInv, ScanInv, AttachInv, Range
<1>6. QuietInv'
  BY DEF TypeOK, IndexInv, ReportInv, AttachInv, QuietInv, Quiet, Waiting
<1>7. DivertInv'
  BY DEF TypeOK, IndexInv, QuietInv, Quiet, DivertInv, ReportInv, Waiting
<1>8. RaiseInv'
  BY DEF TypeOK, IndexInv, RaiseInv
<1> QED BY <1>1, <1>2, <1>3, <1>4, <1>5, <1>6, <1>7, <1>8

(* The library runs; only its end raises SIGSTOP. *)
LEMMA LibStep ==
  ASSUME SessionInv, FetchDataPath \/ InsertMachineCode
  PROVE  SessionInv'
<1> USE SessionAssumption DEF SessionInv, FetchDataPath, InsertMachineCode, LibRuns, Tid, tracerVars, scanVars
<1>1. TypeOK'
  BY DEF TypeOK
<1>2. IndexInv'
  BY DEF TypeOK, IndexInv
<1>3. ScanInv'
  BY DEF TypeOK, IndexInv, ScanInv, Range, Live
<1>4. ReportInv'
  BY DEF TypeOK, IndexInv, ReportInv, QuietInv, Quiet, Waiting
<1>5. AttachInv'
  BY DEF TypeOK, IndexInv, ScanInv, AttachInv, Range
<1>6. QuietInv'
  BY DEF TypeOK, IndexInv, ReportInv, AttachInv, QuietInv, Quiet, Waiting
<1>7. DivertInv'
  BY DEF TypeOK, IndexInv, QuietInv, Quiet, DivertInv, ReportInv, Waiting
<1>8. RaiseInv'
  BY DEF TypeOK, IndexInv, RaiseInv
<1> QED BY <1>1, <1>2, <1>3, <1>4, <1>5, <1>6, <1>7, <1>8

(* The tracer ends: no thread that lives may be diverted. *)
LEMMA ExitStep ==
  ASSUME SessionInv, Exit, \A t \in Thread : regs[t] = "lib" => run[t] = "gone"
  PROVE  SessionInv'
<1> USE SessionAssumption DEF SessionInv, Exit, kernelVars, Tid, scanVars
<1>1. TypeOK'
  BY DEF TypeOK
<1>2. IndexInv'
  BY DEF TypeOK, IndexInv
<1>3. ScanInv'
  BY DEF TypeOK, IndexInv, ScanInv, Range, Live
<1>4. ReportInv'
  BY DEF TypeOK, IndexInv, ReportInv, QuietInv, Quiet, Waiting
<1>5. AttachInv'
  BY DEF TypeOK, IndexInv, ScanInv, AttachInv, Range
<1>6. QuietInv'
  BY DEF TypeOK, IndexInv, ReportInv, AttachInv, QuietInv, Quiet, Waiting
<1>7. DivertInv'
  BY DEF TypeOK, IndexInv, QuietInv, Quiet, DivertInv, ReportInv, Waiting
<1>8. RaiseInv'
  BY DEF TypeOK, IndexInv, RaiseInv
<1> QED BY <1>1, <1>2, <1>3, <1>4, <1>5, <1>6, <1>7, <1>8

(* The directory is opened once more. *)
LEMMA OpenDirStep ==
  ASSUME SessionInv, OpenDir, pc' = "read"
  PROVE  SessionInv'
<1> USE SessionAssumption DEF SessionInv, OpenDir, Exit, threadVars, Tid, Live
<1>1. TypeOK'
  BY DEF TypeOK
<1>2. IndexInv'
  BY DEF TypeOK, IndexInv
<1>3. ScanInv'
  BY DEF TypeOK, IndexInv, ScanInv, Range, Live
<1>4. ReportInv'
  BY DEF TypeOK, IndexInv, ReportInv, QuietInv, Quiet, Waiting
<1>5. AttachInv'
  BY DEF TypeOK, IndexInv, ScanInv, AttachInv, Range
<1>6. QuietInv'
  BY DEF TypeOK, IndexInv, ReportInv, AttachInv, QuietInv, Quiet, Waiting
<1>7. DivertInv'
  BY DEF TypeOK, IndexInv, QuietInv, Quiet, DivertInv, ReportInv, Waiting
<1>8. RaiseInv'
  BY DEF TypeOK, IndexInv, RaiseInv
<1> QED BY <1>1, <1>2, <1>3, <1>4, <1>5, <1>6, <1>7, <1>8

(* An entry is read. *)
LEMMA ReadDirStep ==
  ASSUME SessionInv, NEW t \in Thread, ReadDir(t)
  PROVE  SessionInv'
<1> USE SessionAssumption DEF SessionInv, ReadDir, ReadEntry, Live, threadVars, Tid
<1>1. TypeOK'
  <2>1. CASE t \in Range(tids)
    BY <2>1 DEF TypeOK
  <2>2. CASE t \notin Range(tids)
    <3>1. tids' = Append(tids, t) /\ tids \in Seq(Thread) /\ IsInjective(tids)
      BY <2>2 DEF TypeOK
    <3>2. tids' \in Seq(Thread) /\ Len(tids') = Len(tids) + 1 /\ IsInjective(tids')
      BY ONLY <2>2, <3>1, AppendNew, Zenon
    <3> QED BY <2>2, <3>1, <3>2 DEF TypeOK
  <2> QED BY <2>1, <2>2
<1>2. IndexInv'
  BY DEF TypeOK, IndexInv
<1>3. ScanInv'
  <2>1. CASE t \in Range(tids)
    BY <2>1 DEF TypeOK, ScanInv
  <2>2. CASE t \notin Range(tids)
    <3>1. Range(tids') = Range(tids) \cup {t}
      BY <2>2, AppendNew DEF TypeOK
    <3> QED BY <2>2, <3>1 DEF TypeOK, ScanInv
  <2> QED BY <2>1, <2>2
<1>4. ReportInv'
  BY DEF TypeOK, IndexInv, ReportInv, QuietInv, Quiet, Waiting
<1>5. AttachInv'
  BY DEF TypeOK, IndexInv, ScanInv, AttachInv, Range
<1>6. QuietInv'
  BY DEF TypeOK, IndexInv, ReportInv, AttachInv, QuietInv, Quiet, Waiting
<1>7. DivertInv'
  BY DEF TypeOK, IndexInv, QuietInv, Quiet, DivertInv, ReportInv, Waiting
<1>8. RaiseInv'
  BY DEF TypeOK, IndexInv, RaiseInv
<1> QED BY <1>1, <1>2, <1>3, <1>4, <1>5, <1>6, <1>7, <1>8

(* The directory has been read: the threads that were alive are in tids. *)
LEMMA CloseDirStep ==
  ASSUME SessionInv, CloseDir
  PROVE  SessionInv'
<1> USE SessionAssumption DEF SessionInv, CloseDir, CloseDirAt, threadVars, scanVars, Live, Tid
<1>1. TypeOK'
  BY DEF TypeOK
<1>2. IndexInv'
  BY DEF TypeOK, IndexInv
<1>3. ScanInv'
  BY DEF TypeOK, IndexInv, ScanInv, Range, Live
<1>4. ReportInv'
  BY DEF TypeOK, IndexInv, ReportInv, QuietInv, Quiet, Waiting
<1>5. AttachInv'
  BY DEF TypeOK, IndexInv, ScanInv, AttachInv, Range
<1>6. QuietInv'
  BY DEF TypeOK, IndexInv, ReportInv, AttachInv, QuietInv, Quiet, Waiting
<1>7. DivertInv'
  BY DEF TypeOK, IndexInv, QuietInv, Quiet, DivertInv, ReportInv, Waiting
<1>8. RaiseInv'
  BY DEF TypeOK, IndexInv, RaiseInv
<1> QED BY <1>1, <1>2, <1>3, <1>4, <1>5, <1>6, <1>7, <1>8

(* PTRACE_ATTACH *)
LEMMA AttachStep ==
  ASSUME SessionInv, Attach
  PROVE  SessionInv'
<1> USE SessionAssumption DEF SessionInv, Attach, NextTid, scanVars, Tid
<1>1. TypeOK'
  BY DEF TypeOK, IndexInv
<1>2. IndexInv'
  BY DEF TypeOK, IndexInv
<1>3. ScanInv'
  BY DEF TypeOK, IndexInv, ScanInv, Range, Live
<1>4. ReportInv'
  BY DEF TypeOK, IndexInv, ReportInv, QuietInv, Quiet, Waiting
<1>5. AttachInv'
  BY DEF TypeOK, IndexInv, ScanInv, AttachInv, Range, Live
<1>6. QuietInv'
  BY DEF TypeOK, IndexInv, ReportInv, AttachInv, QuietInv, Quiet, Waiting
<1>7. DivertInv'
  BY DEF TypeOK, IndexInv, QuietInv, Quiet, DivertInv, ReportInv, Waiting
<1>8. RaiseInv'
  BY DEF TypeOK, IndexInv, RaiseInv
<1> QED BY <1>1, <1>2, <1>3, <1>4, <1>5, <1>6, <1>7, <1>8

(* waitpid: a traced thread has stopped or is gone. *)
LEMMA WaitStep ==
  ASSUME SessionInv, Wait
  PROVE  SessionInv'
<1> USE SessionAssumption DEF SessionInv, Wait, NextTid, kernelVars, scanVars, Tid
<1>1. TypeOK'
  BY DEF TypeOK, IndexInv
<1>2. IndexInv'
  BY DEF TypeOK, IndexInv
<1>3. ScanInv'
  BY DEF TypeOK, IndexInv, ScanInv, Range, Live
<1>4. ReportInv'
  BY DEF TypeOK, IndexInv, ReportInv, QuietInv, Quiet, Waiting
<1>5. AttachInv'
  BY DEF TypeOK, IndexInv, ScanInv, AttachInv, Range
<1>6. QuietInv'
  BY DEF TypeOK, IndexInv, ReportInv, AttachInv, QuietInv, Quiet, Waiting
<1>7. DivertInv'
  BY DEF TypeOK, IndexInv, QuietInv, Quiet, DivertInv, ReportInv, Waiting
<1>8. RaiseInv'
  BY DEF TypeOK, IndexInv, RaiseInv
<1> QED BY <1>1, <1>2, <1>3, <1>4, <1>5, <1>6, <1>7, <1>8

(* All stacks have been walked. *)
LEMMA UnwindStep ==
  ASSUME SessionInv, Unwind, pc' = "inject"
  PROVE  SessionInv'
<1> USE SessionAssumption DEF SessionInv, Unwind, Exit, threadVars, scanVars, Tid
<1>1. TypeOK'
  BY DEF TypeOK
<1>2. IndexInv'
  BY DEF TypeOK, IndexInv
<1>3. ScanInv'
  BY DEF TypeOK, IndexInv, ScanInv, Range, Live
<1>4. ReportInv'
  BY DEF TypeOK, IndexInv, ReportInv, QuietInv, Quiet, Waiting
<1>5. AttachInv'
  BY DEF TypeOK, IndexInv, ScanInv, AttachInv, Range
<1>6. QuietInv'
  BY DEF TypeOK, IndexInv, ReportInv, AttachInv, QuietInv, Quiet, Waiting
<1>7. DivertInv'
  BY DEF TypeOK, IndexInv, QuietInv, Quiet, DivertInv, ReportInv, Waiting
<1>8. RaiseInv'
  BY DEF TypeOK, IndexInv, RaiseInv
<1> QED BY <1>1, <1>2, <1>3, <1>4, <1>5, <1>6, <1>7, <1>8

(* A quiet thread is diverted and resumed. *)
LEMMA SingleStepStep ==
  ASSUME SessionInv, SingleStep, pc' = "stepwait"
  PROVE  SessionInv'
<1> USE SessionAssumption DEF SessionInv, SingleStep, DivertTo, Exit, kernelVars, scanVars, Tid
<1>1. TypeOK'
  BY SMTT(30) DEF TypeOK, IndexInv
<1>2. IndexInv'
  BY DEF TypeOK, IndexInv
<1>3. ScanInv'
  BY DEF TypeOK, IndexInv, ScanInv, Range, Live
<1>4. ReportInv'
  BY DEF TypeOK, IndexInv, ReportInv, QuietInv, Quiet, Waiting
<1>5. AttachInv'
  BY DEF TypeOK, IndexInv, ScanInv, AttachInv, Range
<1>6. QuietInv'
  BY DEF TypeOK, IsInjective, IndexInv, ReportInv, AttachInv, QuietInv, Quiet, Waiting
<1>7. DivertInv'
  BY DEF TypeOK, IndexInv, QuietInv, Quiet, DivertInv, ReportInv, Waiting
<1>8. RaiseInv'
  BY DEF TypeOK, IndexInv, QuietInv, Quiet, RaiseInv
<1> QED BY <1>1, <1>2, <1>3, <1>4, <1>5, <1>6, <1>7, <1>8

(* The single step failed: the thread has its own registers again. *)
LEMMA StepFalseStep ==
  ASSUME SessionInv, StepFalse
  PROVE  SessionInv'
<1> USE SessionAssumption DEF SessionInv, StepFalse, StepFails, Restore, kernelVars, scanVars, Tid
<1>1. TypeOK'
  BY DEF TypeOK, IndexInv
<1>2. IndexInv'
  BY DEF TypeOK, IndexInv
<1>3. ScanInv'
  BY DEF TypeOK, IndexInv, ScanInv, Range, Live
<1>4. ReportInv'
  BY DEF TypeOK, IndexInv, ReportInv, QuietInv, Quiet, Waiting
<1>5. AttachInv'
  BY DEF TypeOK, IndexInv, ScanInv, AttachInv, Range
<1>6. QuietInv'
  BY DEF TypeOK, IndexInv, ReportInv, AttachInv, QuietInv, Quiet, Waiting
<1>7. DivertInv'
  BY DEF TypeOK, IndexInv, QuietInv, Quiet, DivertInv, ReportInv, Waiting
<1>8. RaiseInv'
  BY DEF TypeOK, IndexInv, RaiseInv
<1> QED BY <1>1, <1>2, <1>3, <1>4, <1>5, <1>6, <1>7, <1>8

(* The single step succeeded: no SIGSTOP is pending. *)
LEMMA StepTrueStep ==
  ASSUME SessionInv, StepTrue
  PROVE  SessionInv'
<1> USE SessionAssumption DEF SessionInv, StepTrue, StepSucceeds, kernelVars, scanVars, Tid
<1>1. TypeOK'
  BY DEF TypeOK
<1>2. IndexInv'
  BY DEF TypeOK, IndexInv
<1>3. ScanInv'
  BY DEF TypeOK, IndexInv, ScanInv, Range, Live
<1>4. ReportInv'
  BY DEF TypeOK, IndexInv, ReportInv, QuietInv, Quiet, Waiting
<1>5. AttachInv'
  BY DEF TypeOK, IndexInv, ScanInv, AttachInv, Range
<1>6. QuietInv'
  BY DEF TypeOK, IsInjective, IndexInv, ReportInv, AttachInv, QuietInv, Quiet, Waiting
<1>7. DivertInv'
  BY DEF TypeOK, IndexInv, QuietInv, Quiet, DivertInv, ReportInv, Waiting
<1>8. RaiseInv'
  BY DEF TypeOK, IndexInv, RaiseInv
<1> QED BY <1>1, <1>2, <1>3, <1>4, <1>5, <1>6, <1>7, <1>8

(* The thread has stopped in the library. *)
LEMMA ContStep ==
  ASSUME SessionInv, Cont
  PROVE  SessionInv'
<1> USE SessionAssumption DEF SessionInv, Cont, Restore, kernelVars, scanVars, Tid
<1>1. TypeOK'
  BY DEF TypeOK, IndexInv
<1>2. IndexInv'
  BY DEF TypeOK, IndexInv
<1>3. ScanInv'
  BY DEF TypeOK, IndexInv, ScanInv, Range, Live
<1>4. ReportInv'
  BY DEF TypeOK, IndexInv, ReportInv, QuietInv, Quiet, Waiting
<1>5. AttachInv'
  BY DEF TypeOK, IndexInv, ScanInv, AttachInv, Range
<1>6. QuietInv'
  BY DEF TypeOK, IndexInv, ReportInv, AttachInv, QuietInv, Quiet, Waiting
<1>7. DivertInv'
  BY DEF TypeOK, IndexInv, QuietInv, Quiet, DivertInv, ReportInv, Waiting
<1>8. RaiseInv'
  BY DEF TypeOK, IndexInv, RaiseInv
<1> QED BY <1>1, <1>2, <1>3, <1>4, <1>5, <1>6, <1>7, <1>8

(* PTRACE_DETACH resumes one thread after the other. *)
LEMMA DetachStep ==
  ASSUME SessionInv, Detach
  PROVE  SessionInv'
<1> USE SessionAssumption DEF SessionInv, Detach, DetachIf, NextTid, kernelVars, scanVars, Tid
<1>1. TypeOK'
  BY DEF TypeOK
<1>2. IndexInv'
  BY DEF TypeOK, IndexInv
<1>3. ScanInv'
  BY DEF TypeOK, IndexInv, ScanInv, Range, Live
<1>4. ReportInv'
  BY DEF TypeOK, IndexInv, ReportInv, QuietInv, Quiet, Waiting
<1>5. AttachInv'
  BY DEF TypeOK, IndexInv, ScanInv, AttachInv, Range
<1>6. QuietInv'
  BY DEF TypeOK, IsInjective, IndexInv, ReportInv, AttachInv, QuietInv, Quiet, Waiting
<1>7. DivertInv'
  BY DEF TypeOK, IndexInv, QuietInv, Quiet, DivertInv, ReportInv, Waiting
<1>8. RaiseInv'
  BY DEF TypeOK, IndexInv, RaiseInv
<1> QED BY <1>1, <1>2, <1>3, <1>4, <1>5, <1>6, <1>7, <1>8

-----------------------------------------------------------------------------
LEMMA TargetStep ==
  ASSUME SessionInv, NEW t \in Thread, TargetNext(t)
  PROVE  SessionInv'
<1>1. ASSUME NEW u \in LateThread, Spawn(t, u) PROVE SessionInv'
  BY <1>1, SpawnStep
<1>2. CASE Sleep(t) \/ Wake(t)
  BY <1>2, SleepStep
<1>3. CASE LockLibc(t) \/ UnlockLibc(t)
  BY <1>3, LockStep
<1>4. CASE ThreadExit(t) \/ ProcessExit(t)
  BY <1>4, EndStep DEF ThreadExit, ProcessExit, Live
<1>5. CASE Signal(t)
  BY <1>5, SignalStep
<1> QED BY <1>1, <1>2, <1>3, <1>4, <1>5 DEF TargetNext

LEMMA TracerStep ==
  ASSUME SessionInv, TracerNext
  PROVE  SessionInv'
<1>1. Exit /\ ~ Waiting => SessionInv'
  BY ExitStep DEF SessionInv, DivertInv, TypeOK
<1>2. CASE OpenDir
  BY <1>1, <1>2, OpenDirStep DEF OpenDir, Waiting
<1>3. ASSUME NEW t \in Thread, ReadDir(t) PROVE SessionInv'
  BY <1>3, ReadDirStep
<1>4. CASE CloseDir
  BY <1>4, CloseDirStep
<1>5. CASE Attach
  BY <1>5, AttachStep
<1>6. CASE Wait
  BY <1>6, WaitStep
<1>7. CASE Unwind
  BY <1>1, <1>7, UnwindStep DEF Unwind, Waiting
<1>8. CASE SingleStep
  BY <1>1, <1>8, SingleStepStep DEF SingleStep, DivertTo, Waiting
<1>9. CASE StepFalse
  BY <1>9, StepFalseStep
<1>10. CASE StepTrue
  BY <1>10, StepTrueStep
<1>11. CASE Cont
  BY <1>11, ContStep
<1>12. CASE WaitExited
  <2>1. \A t \in Thread : regs[t] = "lib" => run[t] = "gone"
    BY <1>12 DEF WaitExited, SessionInv, DivertInv, ReportInv
  <2> QED BY <1>12, <2>1, ExitStep DEF WaitExited
<1>13. CASE Detach
  BY <1>13, DetachStep
<1>14. CASE Join
  BY <1>1, <1>14 DEF Join, Waiting
<1> QED BY <1>2, <1>3, <1>4, <1>5, <1>6, <1>7, <1>8, <1>9, <1>10, <1>11, <1>12, <1>13, <1>14
        DEF TracerNext

LEMMA SessionInit == Init => SessionInv
<1> SUFFICES ASSUME Init PROVE SessionInv
  OBVIOUS
<1> USE SessionAssumption DEF Init
<1>1. TypeOK
  <2>1. blocked \in [Thread -> BOOLEAN]
    BY Zenon
  <2>2. tids \in Seq(Thread) /\ IsInjective(tids) /\ Len(tids) = 0
    BY DEF IsInjective
  <2>3. /\ run \in [Thread -> {"unborn", "running", "stopped", "gone"}]
        /\ regs \in [Thread -> {"own", "lib"}]
        /\ pending \in [Thread -> SUBSET {"SIGSTOP", "OTHER"}]
        /\ report \in [Thread -> {None, "SIGSTOP", "SIGTRAP", "OTHER", "EXITED"}]
    OBVIOUS
  <2>4. /\ traced \subseteq Thread
        /\ lock \in Thread \cup {None} /\ sent \in 0 .. MaxSignals
        /\ i \in 1 .. Len(tids) + 1
    BY <2>2
  <2>5. groupStop \in BOOLEAN /\ has_new_tid \in BOOLEAN /\ claimed \in BOOLEAN
    OBVIOUS
  <2>6. /\ dirOpen \subseteq Thread /\ dirRead \subseteq Thread
        /\ old_regs \in {"own", "lib"} /\ lib \in {"idle", "fetched", "done"}
        /\ pc \in {"scan", "read", "attach", "wait", "unwind", "inject", "stepwait", "contwait",
             "detach", "join", "exited"}
    OBVIOUS
  <2> QED BY ONLY <2>1, <2>2, <2>3, <2>4, <2>5, <2>6, Zenon DEF TypeOK
<1>2. IndexInv /\ ScanInv /\ ReportInv /\ AttachInv
  BY DEF IndexInv, ScanInv, ReportInv, AttachInv, Range
<1>3. QuietInv /\ DivertInv /\ RaiseInv
  BY DEF QuietInv, DivertInv, RaiseInv, Waiting
<1> QED BY <1>1, <1>2, <1>3 DEF SessionInv

LEMMA SessionStutter == SessionInv /\ UNCHANGED vars => SessionInv'
<1> SUFFICES ASSUME SessionInv, UNCHANGED vars PROVE SessionInv'
  OBVIOUS
<1> USE DEF SessionInv, vars, threadVars, scanVars, Tid
<1>1. TypeOK' /\ IndexInv' /\ ScanInv'
  BY DEF TypeOK, IndexInv, ScanInv, Live
<1>2. ReportInv' /\ AttachInv' /\ QuietInv'
  BY DEF ReportInv, AttachInv, QuietInv, Quiet, Waiting
<1>3. DivertInv' /\ RaiseInv'
  BY DEF DivertInv, RaiseInv, Waiting
<1> QED BY <1>1, <1>2, <1>3

(* Whatever the threads, the kernel and the tracer do, the invariant of the  *)
(* session holds.                                                            *)
THEOREM SessionInvariant == Spec => []SessionInv
<1>1. SessionInv /\ [Next]_vars => SessionInv'
  <2> SUFFICES ASSUME SessionInv, [Next]_vars PROVE SessionInv'
    OBVIOUS
  <2>1. ASSUME NEW t \in Thread, TargetNext(t) PROVE SessionInv'
    BY <2>1, TargetStep
  <2>2. ASSUME NEW t \in Thread, KernelNext(t) PROVE SessionInv'
    BY <2>2, TakeSignalStep, SignalStopStep DEF KernelNext
  <2>3. CASE TrapStop
    BY <2>3, TrapStopStep
  <2>4. CASE FetchDataPath \/ InsertMachineCode
    BY <2>4, LibStep
  <2>5. CASE TracerNext
    BY <2>5, TracerStep
  <2>6. CASE UNCHANGED vars
    BY <2>6, SessionStutter
  <2> QED BY <2>1, <2>2, <2>3, <2>4, <2>5, <2>6 DEF Next
<1> QED BY <1>1, SessionInit, PTL DEF Spec

(* Every variable keeps its type: in particular no thread is in tids twice,  *)
(* so none is attached to or waited for twice, and every index is one of     *)
(* tids.                                                                     *)
THEOREM SessionTypes == Spec => []TypeOK
<1>1. SessionInv => TypeOK
  BY DEF SessionInv
<1> QED BY <1>1, SessionInvariant, PTL

(* pause_and_get_tids keeps its promise for the threads it can know of: from *)
(* the walk over the stacks to the end of the insertion they stand still,    *)
(* but for the one the tracer has resumed.                                   *)
THEOREM SessionPaused == Spec => []SeenThreadsPaused
<1>1. SessionInv => SeenThreadsPaused
  <2> SUFFICES ASSUME SessionInv, pc \in {"inject", "stepwait", "contwait"},
                      NEW t \in dirOpen, run[t] = "running"
               PROVE  Waiting /\ t = Tid
    BY DEF SeenThreadsPaused
  <2>1. PICK j \in 1 .. Len(tids) : t = tids[j]
    BY DEF SessionInv, TypeOK, ScanInv, Live, Range
  <2> QED BY <2>1 DEF SessionInv, QuietInv, Quiet, Waiting, Tid
<1> QED BY <1>1, SessionInvariant, PTL

(* ptrace_single_step and ptrace_cont give a thread its registers back on    *)
(* every way out: no live thread but the one being tried is in the library.  *)
THEOREM SessionRegisters == Spec => []OnlyTidDiverted
<1>1. SessionInv => OnlyTidDiverted
  BY DEF SessionInv, DivertInv, OnlyTidDiverted, Live
<1> QED BY <1>1, SessionInvariant, PTL

(* When ptrace_cont reports that the insertion has finished, it has: the     *)
(* SIGSTOP it saw is not one that PTRACE_ATTACH had sent.                    *)
THEOREM SessionClaim == Spec => []ClaimedMeansInserted
<1>1. SessionInv => ClaimedMeansInserted
  BY DEF SessionInv, RaiseInv, ClaimedMeansInserted
<1> QED BY <1>1, SessionInvariant, PTL
=============================================================================
