---------------------------- MODULE PtraceSession ----------------------------
(***************************************************************************)
(* The tracer's ptrace calls on the threads of the target: pause all of    *)
(* them (pause_and_get_tids), pick one that can run (ptrace_single_step),  *)
(* let it execute the library (ptrace_cont) and detach.  The threads go on *)
(* starting, sleeping and ending until they are stopped, and signals       *)
(* arrive when they like.  CodeReplace takes this session as given and     *)
(* models what happens to the code.                                        *)
(***************************************************************************)
EXTENDS Integers, Sequences, Functions

CONSTANTS
  Thread,      \* all threads of the target
  LateThread,  \* those that another thread creates at run time
  MaxSignals,  \* how many signals other than SIGSTOP and SIGTRAP arrive
  LibcLocks,   \* do threads take the locks of malloc and stdio?
  None

ASSUME SessionAssumption ==
  /\ LateThread \subseteq Thread
  /\ MaxSignals \in Nat
  /\ LibcLocks \in BOOLEAN
  /\ None \notin Thread \cup {"SIGSTOP", "SIGTRAP", "OTHER", "EXITED"}

VARIABLES
  run,        \* run[t]: "unborn", "running", "stopped" (by ptrace) or "gone"
  blocked,    \* blocked[t]: is t asleep in a system call?
  regs,       \* regs[t]: "own", or "lib" when rip points into the library
  pending,    \* pending[t]: the signals t has not taken yet
  report,     \* report[t]: what waitpid(t) will return, or None
  traced,     \* the threads ptrace is attached to
  groupStop,  \* has an untraced thread taken a SIGSTOP?
  lock,       \* the thread that holds a lock of libc, or None
  sent,       \* number of signals that have arrived
  lib,        \* the library: "idle", "fetched" the data path, or "done"
  pc,         \* what the tracer does next
  tids, i,    \* the vector tids and the index into it
  dirOpen,    \* the threads alive when the directory was last opened
  dirRead,    \* the entries read from it
  has_new_tid,
  old_regs,   \* the registers saved by ptrace_single_step
  claimed     \* "[tracer] machine code insertion finishes!"

threadVars == << run, blocked, regs, pending, report, traced, groupStop, lock, sent, lib >>
scanVars   == << dirOpen, dirRead, has_new_tid >>
vars == << threadVars, pc, tids, i, scanVars, old_regs, claimed >>

Live    == {t \in Thread : run[t] \in {"running", "stopped"}}
Tid     == tids[i]
Waiting == pc \in {"stepwait", "contwait"}

Init ==
  /\ run = [t \in Thread |-> IF t \in LateThread THEN "unborn" ELSE "running"]
  /\ blocked = [t \in Thread |-> FALSE]
  /\ regs = [t \in Thread |-> "own"]
  /\ pending = [t \in Thread |-> {}]
  /\ report = [t \in Thread |-> None]
  /\ traced = {} /\ groupStop = FALSE /\ lock = None /\ sent = 0 /\ lib = "idle"
  /\ pc = "scan" /\ tids = << >> /\ i = 1
  /\ dirOpen = {} /\ dirRead = {} /\ has_new_tid = FALSE
  /\ old_regs = "own" /\ claimed = FALSE

-----------------------------------------------------------------------------
(* The threads of the target and the kernel.                                *)

tracerVars == << pc, tids, i, scanVars, old_regs, claimed >>

Executes(t) == run[t] = "running" /\ ~ groupStop /\ ~ blocked[t]
OwnCode(t)  == Executes(t) /\ regs[t] = "own"

Spawn(t, u) ==
  /\ OwnCode(t) /\ run[u] = "unborn"
  /\ run' = [run EXCEPT ![u] = "running"]
  /\ UNCHANGED << blocked, regs, pending, report, traced, groupStop, lock, sent, lib, tracerVars >>

(* A thread starts or ends a system call that sleeps. *)
Sleep(t) ==
  /\ OwnCode(t) /\ lock # t
  /\ blocked' = [blocked EXCEPT ![t] = TRUE]
  /\ UNCHANGED << run, regs, pending, report, traced, groupStop, lock, sent, lib, tracerVars >>

Wake(t) ==
  /\ run[t] = "running" /\ ~ groupStop /\ regs[t] = "own" /\ blocked[t]
  /\ blocked' = [blocked EXCEPT ![t] = FALSE]
  /\ UNCHANGED << run, regs, pending, report, traced, groupStop, lock, sent, lib, tracerVars >>

(* A thread is inside malloc or stdio. *)
LockLibc(t) ==
  /\ LibcLocks /\ OwnCode(t) /\ lock = None
  /\ lock' = t
  /\ UNCHANGED << run, blocked, regs, pending, report, traced, groupStop, sent, lib, tracerVars >>

UnlockLibc(t) ==
  /\ OwnCode(t) /\ lock = t
  /\ lock' = None
  /\ UNCHANGED << run, blocked, regs, pending, report, traced, groupStop, sent, lib, tracerVars >>

(* The threads of set T end; waitpid reports those that are traced. *)
End(T) ==
  /\ run' = [t \in Thread |-> IF t \in T THEN "gone" ELSE run[t]]
  /\ pending' = [t \in Thread |-> IF t \in T THEN {} ELSE pending[t]]
  /\ report' = [t \in Thread |-> IF t \in T \cap traced THEN "EXITED" ELSE report[t]]
  /\ UNCHANGED << blocked, regs, traced, groupStop, lock, sent, lib, tracerVars >>

ThreadExit(t)  == OwnCode(t) /\ lock # t /\ End({t})

(* exit(), of the program or of print_err_and_exit in the library *)
ProcessExit(t) == Executes(t) /\ (regs[t] = "lib" => pc = "contwait") /\ End(Live)

(* A signal other than SIGSTOP and SIGTRAP arrives. *)
Signal(t) ==
  /\ sent < MaxSignals /\ t \in Live
  /\ sent' = sent + 1
  /\ pending' = [pending EXCEPT ![t] = @ \cup {"OTHER"}]
  /\ UNCHANGED << run, blocked, regs, report, traced, groupStop, lock, lib, tracerVars >>

(* A thread nobody traces runs the handler of OTHER; a SIGSTOP stops the     *)
(* whole process.                                                            *)
TakeSignal(t, s) ==
  /\ run[t] = "running" /\ ~ groupStop /\ t \notin traced /\ s \in pending[t]
  /\ pending' = [pending EXCEPT ![t] = @ \ {s}]
  /\ groupStop' = (s = "SIGSTOP")
  /\ UNCHANGED << run, blocked, regs, report, traced, lock, sent, lib, tracerVars >>

(* A traced thread stops and reports the signal instead, also when it has    *)
(* been resumed but has not executed an instruction.                         *)
SignalStop(t, s) ==
  /\ run[t] = "running" /\ t \in traced /\ s \in pending[t]
  /\ run' = [run EXCEPT ![t] = "stopped"]
  /\ pending' = [pending EXCEPT ![t] = @ \ {s}]
  /\ report' = [report EXCEPT ![t] = s]
  /\ UNCHANGED << blocked, regs, traced, groupStop, lock, sent, lib, tracerVars >>

(* PTRACE_SINGLESTEP: one instruction is executed, the first one of the      *)
(* library or, in a thread that was asleep, the one the restarted system     *)
(* call would be at, two bytes before it.                                    *)
TrapStop ==
  /\ pc = "stepwait" /\ run[Tid] = "running" /\ pending[Tid] = {}
  /\ run' = [run EXCEPT ![Tid] = "stopped"]
  /\ report' = [report EXCEPT ![Tid] = "SIGTRAP"]
  /\ UNCHANGED << blocked, regs, pending, traced, groupStop, lock, sent, lib, tracerVars >>

(* insert_machine_code: it prints, opens files and allocates memory, so it   *)
(* needs the locks of libc.  It fetches the data path from the tracer ...    *)
LibRuns == pc = "contwait" /\ Executes(Tid) /\ regs[Tid] = "lib" /\ lock = None

FetchDataPath ==
  /\ LibRuns /\ lib = "idle"
  /\ lib' = "fetched"
  /\ UNCHANGED << run, blocked, regs, pending, report, traced, groupStop, lock, sent, tracerVars >>

(* ... inserts the code and ends with raise(SIGSTOP). *)
InsertMachineCode ==
  /\ LibRuns /\ lib = "fetched"
  /\ lib' = "done"
  /\ pending' = [pending EXCEPT ![Tid] = @ \cup {"SIGSTOP"}]
  /\ UNCHANGED << run, blocked, regs, report, traced, groupStop, lock, sent, tracerVars >>

-----------------------------------------------------------------------------
(* The tracer.                                                              *)

kernelVars == << blocked, pending, groupStop, lock, sent, lib >>

(* exit(-1), or the end of main: the kernel detaches and resumes the threads *)
(* that are still traced.                                                    *)
Exit ==
  /\ pc' = "exited"
  /\ run' = [t \in Thread |-> IF t \in traced /\ run[t] = "stopped" THEN "running" ELSE run[t]]
  /\ traced' = {}
  /\ report' = [t \in Thread |-> None]
  /\ UNCHANGED << kernelVars, regs, tids, i, scanVars, old_regs, claimed >>

(* The next iteration of a loop over tids, or what follows it. *)
NextTid(next) ==
  IF i < Len(tids) THEN i' = i + 1 /\ UNCHANGED pc ELSE i' = 1 /\ pc' = next

(* pause_and_get_tids: opendir of /proc/<pid>/task *)
OpenDir ==
  /\ pc = "scan"
  /\ \/ Live = {} /\ Exit
     \/ /\ Live # {}
        /\ pc' = "read"
        /\ dirOpen' = Live /\ dirRead' = {} /\ has_new_tid' = FALSE
        /\ UNCHANGED << threadVars, tids, i, old_regs, claimed >>

(* readdir: a thread that starts or ends meanwhile may be seen or not. *)
ReadEntry(t, known) ==
  /\ pc = "read" /\ t \in Live \ dirRead
  /\ dirRead' = dirRead \cup {t}
  /\ IF t \in known
     THEN UNCHANGED << tids, has_new_tid >>
     ELSE tids' = Append(tids, t) /\ has_new_tid' = TRUE
  /\ UNCHANGED << threadVars, pc, i, dirOpen, old_regs, claimed >>

(* Faulty variant: tids_set is not consulted. *)
ReadDirUnchecked(t) == ReadEntry(t, {})

ReadDir(t) == ReadEntry(t, Range(tids))

(* Another pass if there was a new tid.  The loops over an empty tids do     *)
(* nothing.                                                                  *)
CloseDirAt(end) ==
  /\ pc = "read" /\ end
  /\ pc' = IF has_new_tid THEN "scan" ELSE IF tids = << >> THEN "join" ELSE "attach"
  /\ UNCHANGED << threadVars, tids, i, scanVars, old_regs, claimed >>

(* Faulty variant: the inner loop ends after the first entries. *)
CloseDirEarly == CloseDirAt(dirRead # {})

CloseDir == CloseDirAt(dirOpen \cap Live \subseteq dirRead)

(* PTRACE_ATTACH sends SIGSTOP; for a thread that is gone it fails. *)
Attach ==
  /\ pc = "attach"
  /\ IF Tid \in Live
     THEN /\ traced' = traced \cup {Tid}
          /\ pending' = [pending EXCEPT ![Tid] = @ \cup {"SIGSTOP"}]
     ELSE UNCHANGED << traced, pending >>
  /\ NextTid("wait")
  /\ UNCHANGED << run, blocked, regs, report, groupStop, lock, sent, lib, tids, scanVars, old_regs, claimed >>

(* waitpid: the status is not looked at. *)
Wait ==
  /\ pc = "wait"
  /\ Tid \in traced => report[Tid] # None
  /\ report' = [report EXCEPT ![Tid] = None]
  /\ NextTid("unwind")
  /\ UNCHANGED << kernelVars, run, regs, traced, tids, scanVars, old_regs, claimed >>

(* unwind_call_stack: unw_init_remote fails on a thread that is gone. *)
Unwind ==
  /\ pc = "unwind"
  /\ \/ /\ \E t \in Range(tids) : run[t] # "stopped"
        /\ Exit
     \/ /\ \A t \in Range(tids) : run[t] = "stopped"
        /\ pc' = "inject" /\ i' = 1
        /\ UNCHANGED << threadVars, tids, scanVars, old_regs, claimed >>

(* ptrace_single_step: save the registers, let rip point to the library,     *)
(* PTRACE_SINGLESTEP.  A signal the thread was stopped for is suppressed.    *)
DivertTo(next) ==
  /\ pc = "inject"
  /\ \/ run[Tid] # "stopped" /\ Exit
     \/ /\ run[Tid] = "stopped"
        /\ old_regs' = regs[Tid]
        /\ regs' = [regs EXCEPT ![Tid] = "lib"]
        /\ run' = [run EXCEPT ![Tid] = "running"]
        /\ pc' = next
        /\ UNCHANGED << kernelVars, report, traced, tids, i, scanVars, claimed >>

(* Faulty variant: the thread is resumed without a single step. *)
SingleStepOmitted == DivertTo("contwait")

SingleStep == DivertTo("stepwait")

(* PTRACE_SETREGS *)
Restore(saved) == regs' = [regs EXCEPT ![Tid] = saved]

(* ptrace_single_step returns false: the thread stopped for another signal,  *)
(* or rip has not passed the start of the library.                           *)
StepFails(saved) ==
  /\ pc = "stepwait"
  /\ \/ report[Tid] \in {"SIGSTOP", "OTHER"}
     \/ report[Tid] = "SIGTRAP" /\ blocked[Tid]
  /\ report' = [report EXCEPT ![Tid] = None]
  /\ Restore(saved)
  /\ IF i < Len(tids) THEN i' = i + 1 /\ pc' = "inject" ELSE i' = 1 /\ pc' = "detach"
  /\ UNCHANGED << kernelVars, run, traced, tids, scanVars, old_regs, claimed >>

(* Faulty variant: the registers are not restored. *)
StepFalseUnrestored == StepFails(regs[Tid])

StepFalse == StepFails(old_regs)

(* ptrace_single_step returns true, ptrace_cont: PTRACE_CONT *)
StepSucceeds(moved) ==
  /\ pc = "stepwait" /\ report[Tid] = "SIGTRAP" /\ moved
  /\ report' = [report EXCEPT ![Tid] = None]
  /\ run' = [run EXCEPT ![Tid] = "running"]
  /\ pc' = "contwait"
  /\ UNCHANGED << kernelVars, regs, traced, tids, i, scanVars, old_regs, claimed >>

(* Faulty variant: rip is not compared with the start of the library. *)
StepTrueUnchecked == StepSucceeds(TRUE)

StepTrue == StepSucceeds(~ blocked[Tid])

(* ptrace_cont: the thread has stopped, for SIGSTOP or for another signal. *)
Cont ==
  /\ pc = "contwait" /\ report[Tid] \in {"SIGSTOP", "OTHER"}
  /\ report' = [report EXCEPT ![Tid] = None]
  /\ Restore(old_regs)
  /\ claimed' = (report[Tid] = "SIGSTOP")
  /\ pc' = "detach" /\ i' = 1
  /\ UNCHANGED << kernelVars, run, traced, tids, scanVars, old_regs >>

(* Both: ! WIFSTOPPED(status) *)
WaitExited == Waiting /\ report[Tid] = "EXITED" /\ Exit

(* main: PTRACE_DETACH, without passing on the signal the thread was stopped *)
(* for.                                                                      *)
DetachIf(reached) ==
  /\ pc = "detach"
  /\ IF reached /\ Tid \in traced /\ run[Tid] = "stopped"
     THEN /\ run' = [run EXCEPT ![Tid] = "running"]
          /\ traced' = traced \ {Tid}
     ELSE UNCHANGED << run, traced >>
  /\ NextTid("join")
  /\ UNCHANGED << kernelVars, regs, report, tids, scanVars, old_regs, claimed >>

(* Faulty variant: the loop ends before the last thread. *)
DetachAllButLast == DetachIf(i < Len(tids))

Detach == DetachIf(TRUE)

(* main: t.join() returns once the library has fetched the data path. *)
Join == pc = "join" /\ lib # "idle" /\ Exit

-----------------------------------------------------------------------------
TargetNext(t) ==
  \/ \E u \in LateThread : Spawn(t, u)
  \/ Sleep(t) \/ Wake(t) \/ LockLibc(t) \/ UnlockLibc(t)
  \/ ThreadExit(t) \/ ProcessExit(t) \/ Signal(t)

KernelNext(t) == \E s \in {"SIGSTOP", "OTHER"} : TakeSignal(t, s) \/ SignalStop(t, s)

TracerNext ==
  \/ OpenDir \/ (\E t \in Thread : ReadDir(t)) \/ CloseDir
  \/ Attach \/ Wait \/ Unwind
  \/ SingleStep \/ StepFalse \/ StepTrue \/ Cont \/ WaitExited
  \/ Detach \/ Join

Next ==
  \/ \E t \in Thread : TargetNext(t) \/ KernelNext(t)
  \/ TrapStop \/ FetchDataPath \/ InsertMachineCode
  \/ TracerNext

(* The tracer's calls return, the kernel delivers signals and executes       *)
(* resumed threads, and the library gets a lock of libc that is released     *)
(* again and again.  Nothing is assumed of the program of the target: its    *)
(* threads may sleep or hold a lock for ever.                                *)
Fairness ==
  /\ WF_vars(TracerNext) /\ WF_vars(TrapStop)
  /\ SF_vars(FetchDataPath) /\ SF_vars(InsertMachineCode)
  /\ \A t \in Thread : WF_vars(KernelNext(t))

Spec == Init /\ [][Next]_vars

FairSpec == Spec /\ Fairness
-----------------------------------------------------------------------------
TypeOK ==
  /\ run \in [Thread -> {"unborn", "running", "stopped", "gone"}]
  /\ blocked \in [Thread -> BOOLEAN]
  /\ regs \in [Thread -> {"own", "lib"}]
  /\ pending \in [Thread -> SUBSET {"SIGSTOP", "OTHER"}]
  /\ report \in [Thread -> {None, "SIGSTOP", "SIGTRAP", "OTHER", "EXITED"}]
  /\ traced \subseteq Thread /\ groupStop \in BOOLEAN
  /\ lock \in Thread \cup {None} /\ sent \in 0 .. MaxSignals /\ lib \in {"idle", "fetched", "done"}
  /\ pc \in {"scan", "read", "attach", "wait", "unwind", "inject", "stepwait", "contwait",
             "detach", "join", "exited"}
  /\ tids \in Seq(Thread) /\ IsInjective(tids)
  /\ i \in 1 .. Len(tids) + 1
  /\ dirOpen \subseteq Thread /\ dirRead \subseteq Thread /\ has_new_tid \in BOOLEAN
  /\ old_regs \in {"own", "lib"} /\ claimed \in BOOLEAN

(* While the tracer walks the stacks and inserts code, every thread that     *)
(* existed when pause_and_get_tids last opened the task directory stands     *)
(* still, but for the one thread the tracer itself has resumed.              *)
SeenThreadsPaused ==
  pc \in {"inject", "stepwait", "contwait"} =>
    \A t \in dirOpen : run[t] = "running" => Waiting /\ t = Tid

(* What ptrace_pause.hpp says of pause_and_get_tids: all threads are paused. *)
AllThreadsPaused ==
  pc \in {"inject", "stepwait", "contwait"} =>
    \A t \in Thread : run[t] = "running" => Waiting /\ t = Tid

(* However ptrace_single_step and ptrace_cont return, the registers a thread *)
(* had are back: no thread but the one being tried is diverted to the        *)
(* library.                                                                  *)
OnlyTidDiverted ==
  \A t \in Live : regs[t] = "lib" => Waiting /\ t = Tid

(* ptrace_cont takes any SIGSTOP for the one the library raises at its end.  *)
(* It is right: a SIGSTOP of PTRACE_ATTACH that is still pending shows up in *)
(* the single step before.                                                   *)
ClaimedMeansInserted == claimed => lib = "done"

(* The library waits for a lock of libc that a paused thread holds. *)
LibBlocked == pc = "contwait" /\ lock # None

(* The session ends: the tracer never waits for ever for a thread to stop or *)
(* for the library, but for a library that a paused thread keeps from libc.  *)
SessionEnds == <>(pc \in {"join", "exited"} \/ []LibBlocked)

(* Once a thread executes the library the tracer itself comes to its end,    *)
(* t.join() included, unless a signal took the library away from it.         *)
HijackEnds == pc = "contwait" ~> (pc = "exited" \/ sent > 0 \/ []LibBlocked)

Resumed == ~ groupStop /\ \A t \in Thread : run[t] # "stopped"

(* In the end the target is running again, whichever way the tracer left it: *)
(* no thread stays stopped, by ptrace or by the SIGSTOP of an attach.  A     *)
(* signal that arrives during the session can leave such a SIGSTOP behind.   *)
TargetResumes == <>[](Resumed \/ sent > 0 \/ LibBlocked)

(* What replace_function.hpp says of insert_machine_code: the thread that    *)
(* executes it raises a signal when it has finished.                         *)
LibraryFinishes == pc = "contwait" ~> pc # "contwait"
=============================================================================
