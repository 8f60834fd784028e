----------------------------- MODULE CodeReplace -----------------------------
(***************************************************************************)
(* One round of online code replacement: the threads of the target         *)
(* process, the tracer (tracer.cpp) that pauses them, unwinds their stacks *)
(* and hijacks one of them, and the preloaded library                      *)
(* (replace_function.cpp) that copies the optimized code into the process. *)
(*                                                                         *)
(* Code is identified by its version.  text[f] is what lies at f's         *)
(* original address: "C0", "C1" (the bytes of the BOLTed binary) or "torn" *)
(* while a memcpy is overwriting it.                                       *)
(***************************************************************************)
EXTENDS BinaryLayout

CONSTANTS
  Thread,       \* all threads of the target
  LateThread,   \* those that another thread creates at run time
  Root,         \* Root[t]: the function t starts in
  StraySignals, \* may a signal stop the hijacked thread inside the library?
  Unreadable,   \* the files that the library may fail to open, or to read to the end
  DEBUG_INFO,   \* is the tracer built with -DDEBUG_INFO?  The Makefile does so.
  MaxDepth,     \* bound on the depth of call stacks
  None          \* no thread, no record

ASSUME ThreadAssumption ==
  /\ LateThread \subseteq Thread
  /\ Root \in [Thread -> Func]
  /\ StraySignals \in BOOLEAN /\ DEBUG_INFO \in BOOLEAN
  /\ MaxDepth \in Nat \ {0}
  /\ Unreadable \subseteq {"bolted", "site", "vtable", "func"}
  /\ None \notin Thread /\ None \notin Func /\ None \notin CallIns /\ None \notin Slot

Torn == -1   \* a pointer or displacement that is half written

VARIABLES
  target,    \* the process: "alive", "exited" or "crashed"
  status,    \* status[t]: "unborn", "running" or "stopped" by ptrace
  stack,     \* stack[t]: the frames of t, innermost last
  text,      \* text[f]: the code at f's original address
  bolted,    \* bolted[g]: the code at MovedAddr[g]
  site,      \* site[c]: the address call instruction c of C0 reaches
  slot,      \* slot[v]: the function pointer in vtable slot v
  tp,        \* what the tracer does next
  tids,      \* the vector tids of pause_and_get_tids
  tried,     \* those ptrace_single_step has rejected
  hijack,    \* the thread that executes the library, or None
  func_in_call_stack,
  boltFile, siteFile, vtabFile, funcFile,  \* records not yet copied
  lp,        \* what the library does next
  cur,       \* the record being copied, or None
  pathSent   \* has send_data_path finished?

targetVars == << target, status, stack >>
codeVars   == << text, bolted, site, slot >>
fileVars   == << boltFile, siteFile, vtabFile, funcFile >>
tracerVars == << tp, tids, tried, func_in_call_stack >>
libVars    == << hijack, lp, cur, pathSent >>
vars == << targetVars, codeVars, fileVars, tracerVars, libVars >>

CopyPhase == {"bolted", "site", "vtable", "func"}
LibBusy   == CopyPhase \cup {"handshake"}

(* A frame of function fn, in its original or its moved copy.  img is the    *)
(* code version it started executing, "none" while it is at its entry.       *)
Frame == [fn : Func, moved : BOOLEAN, ip : Nat, img : {"none", "C0", "C1"}]

Base(fr)   == IF fr.moved THEN MovedAddr[fr.fn] ELSE fr.fn
CodeAt(fr) == IF fr.moved THEN bolted[fr.fn] ELSE text[fr.fn]
Top(t)     == stack[t][Len(stack[t])]

(* The frame a control transfer to address d creates.  d is the start of an  *)
(* original or of a moved function.                                          *)
FrameAt(d) ==
  IF d \in Func
  THEN [fn |-> d, moved |-> FALSE, ip |-> d, img |-> "none"]
  ELSE [fn |-> CHOOSE g \in Moved : MovedAddr[g] = d,
        moved |-> TRUE, ip |-> d, img |-> "none"]

IsEntry(d) == d \in Func \/ \E g \in Moved : MovedAddr[g] = d

(* Can the frame execute its next instruction?  At the entry any complete    *)
(* body will do, in the middle only the one it started with.                 *)
Executable(fr) ==
  /\ CodeAt(fr) \in {"C0", "C1"}
  /\ fr.img \in {"none", CodeAt(fr)}

-----------------------------------------------------------------------------
Init ==
  /\ target = "alive"
  /\ status = [t \in Thread |-> IF t \in LateThread THEN "unborn" ELSE "running"]
  /\ stack = [t \in Thread |-> IF t \in LateThread THEN << >> ELSE << FrameAt(Root[t]) >>]
  /\ text = [f \in Func |-> "C0"]
  /\ bolted = [g \in Moved |-> "absent"]
  /\ site = CallTarget
  /\ slot = SlotTarget
  /\ tp = "prepare"
  /\ tids = {} /\ tried = {} /\ func_in_call_stack = {}
  /\ boltFile = {} /\ siteFile = {} /\ vtabFile = {} /\ funcFile = {}
  /\ hijack = None /\ lp = "idle" /\ cur = None /\ pathSent = FALSE

-----------------------------------------------------------------------------
(* The threads of the target, as the processor executes them.               *)

Executes(t) ==
  /\ target = "alive"
  /\ status[t] = "running"
  /\ t # hijack

(* t's top frame, once it has executed up to instruction pointer base + off. *)
Advanced(t, off) == [Top(t) EXCEPT !.ip = Base(Top(t)) + off, !.img = CodeAt(Top(t))]

(* The address call instruction c reaches in the code version fr executes.   *)
DestOfCall(c, img) == IF img = "C0" THEN site[c] ELSE NewAddr(CallTarget[c])

Land(t, off, d) ==
  /\ Len(stack[t]) < MaxDepth
  /\ IF IsEntry(d)
     THEN /\ stack' = [stack EXCEPT ![t] = Append([@ EXCEPT ![Len(@)] = Advanced(t, off)], FrameAt(d))]
          /\ UNCHANGED << target, status >>
     ELSE /\ target' = "crashed"
          /\ UNCHANGED << status, stack >>
  /\ UNCHANGED << codeVars, fileVars, tracerVars, libVars >>

(* t executes some instructions of its function and is in its middle. *)
Step(t) ==
  /\ Executes(t) /\ Executable(Top(t)) /\ Top(t).img = "none"
  /\ stack' = [stack EXCEPT ![t][Len(stack[t])] = Advanced(t, 1)]
  /\ UNCHANGED << target, status, codeVars, fileVars, tracerVars, libVars >>

Call(t, c) ==
  /\ Executes(t) /\ Executable(Top(t)) /\ CallFunc[c] = Top(t).fn
  /\ Land(t, c + CallSize - CallFunc[c], DestOfCall(c, CodeAt(Top(t))))

VirtualCall(t, v) ==
  /\ Executes(t) /\ Executable(Top(t)) /\ Top(t).fn \in SlotUser[v]
  /\ Land(t, 1, slot[v])

Return(t) ==
  /\ Executes(t) /\ Executable(Top(t)) /\ Len(stack[t]) > 1
  /\ stack' = [stack EXCEPT ![t] = SubSeq(@, 1, Len(@) - 1)]
  /\ UNCHANGED << target, status, codeVars, fileVars, tracerVars, libVars >>

(* pthread_create: the new thread is not traced, whoever creates it. *)
Spawn(t, u) ==
  /\ Executes(t) /\ Executable(Top(t)) /\ status[u] = "unborn"
  /\ status' = [status EXCEPT ![u] = "running"]
  /\ stack' = [stack EXCEPT ![u] = << FrameAt(Root[u]) >>]
  /\ UNCHANGED << target, codeVars, fileVars, tracerVars, libVars >>

(* t continues in bytes that are not the code it was executing. *)
Fault(t) ==
  /\ Executes(t) /\ ~ Executable(Top(t))
  /\ target' = "crashed"
  /\ UNCHANGED << status, stack, codeVars, fileVars, tracerVars, libVars >>

-----------------------------------------------------------------------------
(* The tracer: main() of tracer.cpp from llvm-bolt's result on.             *)

(* main: remove the old files, write_functions for bolted_func, write_vtable *)
PrepareFiles ==
  /\ target = "alive" /\ tp = "prepare"
  /\ boltFile' = bolted_functions_bin
  /\ vtabFile' = Slot
  /\ tp' = "scan"
  /\ UNCHANGED << targetVars, codeVars, siteFile, funcFile, tids, tried, func_in_call_stack, libVars >>

(* pause_and_get_tids: read /proc/<pid>/task until no new tid appears. *)
ScanTasks ==
  /\ target = "alive" /\ tp = "scan"
  /\ LET live == {t \in Thread : status[t] # "unborn"}
     IN  /\ tids' = tids \cup live
         /\ tp' = IF live \subseteq tids THEN "attach" ELSE "scan"
  /\ UNCHANGED << targetVars, codeVars, fileVars, tried, func_in_call_stack, libVars >>

(* pause_and_get_tids: PTRACE_ATTACH and waitpid of one thread. *)
Attach(t) ==
  /\ target = "alive" /\ tp = "attach" /\ t \in tids /\ status[t] = "running"
  /\ status' = [status EXCEPT ![t] = "stopped"]
  /\ UNCHANGED << target, stack, codeVars, fileVars, tracerVars, libVars >>

CallStackIps == UNION {{stack[t][i].ip : i \in 1 .. Len(stack[t])} : t \in tids}

(* main, once every tid is stopped: unwind_call_stack,                       *)
(* get_func_in_call_stack, get_unmoved_func_not_in_call_stack,               *)
(* extract_call_sites and write_functions for the unmoved functions.         *)
Unwind ==
  /\ target = "alive" /\ tp = "attach"
  /\ \A t \in tids : status[t] = "stopped"
  /\ \E ub \in PrevOfBegin :
       func_in_call_stack' = get_func_in_call_stack(CallStackIps, ub)
  /\ siteFile' = extract_call_sites(func_in_call_stack')
  /\ funcFile' = write_functions(get_unmoved_func_not_in_call_stack(func_in_call_stack'))
  /\ tp' = "inject"
  /\ UNCHANGED << targetVars, codeVars, boltFile, vtabFile, tids, tried, libVars >>

(* ptrace_single_step returns true: t left the first instruction of          *)
(* insert_machine_code.  ptrace_cont then resumes it.                        *)
SingleStepTrue(t) ==
  /\ target = "alive" /\ tp = "inject" /\ t \in tids \ tried
  /\ hijack' = t
  /\ status' = [status EXCEPT ![t] = "running"]
  /\ lp' = "handshake"
  /\ tp' = "cont"
  /\ UNCHANGED << target, stack, codeVars, fileVars, tids, tried, func_in_call_stack, cur, pathSent >>

(* ptrace_single_step returns false: t is blocked in the kernel or stopped   *)
(* for another signal.  Its registers are restored.                          *)
SingleStepFalse(t) ==
  /\ target = "alive" /\ tp = "inject" /\ t \in tids \ tried
  /\ tried' = tried \cup {t}
  /\ UNCHANGED << targetVars, codeVars, fileVars, tp, tids, func_in_call_stack, libVars >>

(* main: the loop over tids ends without a thread that can run the library. *)
NoThreadLeft ==
  /\ target = "alive" /\ tp = "inject" /\ tried = tids
  /\ tp' = "detach"
  /\ UNCHANGED << targetVars, codeVars, fileVars, tids, tried, func_in_call_stack, libVars >>

(* ptrace_cont: the thread stopped itself with SIGSTOP.  Its registers are   *)
(* restored.                                                                 *)
ContSigstop ==
  /\ target = "alive" /\ tp = "cont" /\ lp = "finished"
  /\ hijack' = None
  /\ tp' = "detach"
  /\ UNCHANGED << targetVars, codeVars, fileVars, tids, tried, func_in_call_stack, lp, cur, pathSent >>

(* ptrace_cont: any other signal stopped it.  Its registers are restored as  *)
(* well, so the library never continues.                                     *)
ContOther ==
  /\ target = "alive" /\ tp = "cont" /\ StraySignals /\ lp \in LibBusy
  /\ status' = [status EXCEPT ![hijack] = "stopped"]
  /\ hijack' = None
  /\ lp' = "abandoned"
  /\ tp' = "detach"
  /\ pathSent' \in IF lp = "handshake" THEN BOOLEAN ELSE {pathSent}
  /\ UNCHANGED << target, stack, codeVars, fileVars, tids, tried, func_in_call_stack, cur >>

(* main: PTRACE_DETACH of one thread. *)
Detach(t) ==
  /\ target = "alive" /\ tp = "detach" /\ t \in tids /\ status[t] = "stopped"
  /\ status' = [status EXCEPT ![t] = "running"]
  /\ UNCHANGED << target, stack, codeVars, fileVars, tracerVars, libVars >>

(* main: clean_up removes the files, in a build without DEBUG_INFO;          *)
(* detaching from a target that is gone has no effect.                       *)
CleanUp ==
  /\ tp = "detach"
  /\ target = "alive" => \A t \in tids : status[t] = "running"
  /\ IF DEBUG_INFO
     THEN UNCHANGED fileVars
     ELSE boltFile' = {} /\ siteFile' = {} /\ vtabFile' = {} /\ funcFile' = {}
  /\ tp' = "join"
  /\ UNCHANGED << targetVars, codeVars, tids, tried, func_in_call_stack, libVars >>

(* main: t.join() returns and "code replacement done!" is printed. *)
Done ==
  /\ tp = "join" /\ pathSent
  /\ tp' = "done"
  /\ UNCHANGED << targetVars, codeVars, fileVars, tids, tried, func_in_call_stack, libVars >>

(* waitpid reports that the target is gone, or opendir fails: exit(-1). *)
TracerExit ==
  /\ target # "alive" /\ tp \in {"scan", "attach", "inject", "cont"}
  /\ tp' = "exited"
  /\ UNCHANGED << targetVars, codeVars, fileVars, tids, tried, func_in_call_stack, libVars >>

(* unw_init_remote or PTRACE_SETREGS fails on a paused thread: exit(-1), and *)
(* the kernel resumes the threads the tracer leaves behind.                  *)
TracerFails ==
  /\ target = "alive" /\ tp \in {"attach", "inject"}
  /\ \A t \in tids : status[t] = "stopped"
  /\ status' = [t \in Thread |-> IF status[t] = "stopped" THEN "running" ELSE status[t]]
  /\ tp' = "exited"
  /\ UNCHANGED << target, stack, codeVars, fileVars, tids, tried, func_in_call_stack, libVars >>

-----------------------------------------------------------------------------
(* The library: insert_machine_code() on the hijacked thread.  One memcpy    *)
(* is two steps, since other threads may run and signals may arrive in       *)
(* between; the records of one file are taken in any order.                  *)

LibRuns == target = "alive" /\ tp = "cont"

(* Faulty variant: the call sites are inserted before the BOLTed functions. *)
HandshakeSitesFirst ==
  /\ LibRuns /\ lp = "handshake"
  /\ lp' = "site" /\ pathSent' = TRUE
  /\ UNCHANGED << targetVars, codeVars, fileVars, tracerVars, hijack, cur >>

(* insert_machine_code: the data path arrives, the files are opened. *)
Handshake ==
  /\ LibRuns /\ lp = "handshake"
  /\ lp' = "bolted" /\ pathSent' = TRUE
  /\ UNCHANGED << targetVars, codeVars, fileVars, tracerVars, hijack, cur >>

(* insert_machine_code is through with a file when every record is copied.   *)
(* A file that fopen could not open is skipped without a word, and a fread   *)
(* that fails at the start of a record passes for the end of the file.       *)
Through(file, phase) == cur = None /\ (file = {} \/ phase \in Unreadable)

(* The phase that follows *)
NextFile(file, phase, next) ==
  /\ LibRuns /\ lp = phase /\ Through(file, phase)
  /\ lp' = next
  /\ UNCHANGED << targetVars, codeVars, fileVars, tracerVars, hijack, cur, pathSent >>

(* insert_BOLTed_function *)
BeginBolted(g) ==
  /\ LibRuns /\ lp = "bolted" /\ cur = None /\ g \in boltFile
  /\ boltFile' = boltFile \ {g} /\ cur' = g
  /\ bolted' = [bolted EXCEPT ![g] = "torn"]
  /\ UNCHANGED << targetVars, text, site, slot, siteFile, vtabFile, funcFile, tracerVars, hijack, lp, pathSent >>

EndBolted ==
  /\ LibRuns /\ lp = "bolted" /\ cur # None
  /\ bolted' = [bolted EXCEPT ![cur] = "C1"] /\ cur' = None
  /\ UNCHANGED << targetVars, text, site, slot, fileVars, tracerVars, hijack, lp, pathSent >>

(* insert_call_site *)
BeginSite(c) ==
  /\ LibRuns /\ lp = "site" /\ cur = None /\ c \in siteFile
  /\ siteFile' = siteFile \ {c} /\ cur' = c
  /\ site' = [site EXCEPT ![c] = Torn]
  /\ UNCHANGED << targetVars, text, bolted, slot, boltFile, vtabFile, funcFile, tracerVars, hijack, lp, pathSent >>

EndSite ==
  /\ LibRuns /\ lp = "site" /\ cur # None
  /\ site' = [site EXCEPT ![cur] = PatchedDest(cur)] /\ cur' = None
  /\ UNCHANGED << targetVars, text, bolted, slot, fileVars, tracerVars, hijack, lp, pathSent >>

(* insert_v_table *)
BeginSlot(v) ==
  /\ LibRuns /\ lp = "vtable" /\ cur = None /\ v \in vtabFile
  /\ vtabFile' = vtabFile \ {v} /\ cur' = v
  /\ slot' = [slot EXCEPT ![v] = Torn]
  /\ UNCHANGED << targetVars, text, bolted, site, boltFile, siteFile, funcFile, tracerVars, hijack, lp, pathSent >>

EndSlot ==
  /\ LibRuns /\ lp = "vtable" /\ cur # None
  /\ slot' = [slot EXCEPT ![cur] = NewAddr(SlotTarget[cur])] /\ cur' = None
  /\ UNCHANGED << targetVars, text, bolted, site, fileVars, tracerVars, hijack, lp, pathSent >>

(* insert_unmoved_func *)
BeginFunc(f) ==
  /\ LibRuns /\ lp = "func" /\ cur = None /\ f \in funcFile
  /\ funcFile' = funcFile \ {f} /\ cur' = f
  /\ text' = [text EXCEPT ![f] = "torn"]
  /\ UNCHANGED << targetVars, bolted, site, slot, boltFile, siteFile, vtabFile, tracerVars, hijack, lp, pathSent >>

EndFunc ==
  /\ LibRuns /\ lp = "func" /\ cur # None
  /\ text' = [text EXCEPT ![cur] = "C1"] /\ cur' = None
  /\ UNCHANGED << targetVars, bolted, site, slot, fileVars, tracerVars, hijack, lp, pathSent >>

(* insert_machine_code: raise(SIGSTOP) *)
RaiseSigstop ==
  /\ LibRuns /\ lp = "func" /\ Through(funcFile, "func")
  /\ lp' = "finished"
  /\ status' = [status EXCEPT ![hijack] = "stopped"]
  /\ UNCHANGED << target, stack, codeVars, fileVars, tracerVars, hijack, cur, pathSent >>

(* print_err_and_exit: mmap or mprotect failed, the whole process exits. *)
PrintErrAndExit ==
  /\ LibRuns /\ lp \in LibBusy
  /\ target' = "exited"
  /\ UNCHANGED << status, stack, codeVars, fileVars, tracerVars, libVars >>

-----------------------------------------------------------------------------
ThreadNext(t) ==
  \/ Step(t) \/ Return(t) \/ Fault(t)
  \/ \E c \in CallIns : Call(t, c)
  \/ \E v \in Slot : VirtualCall(t, v)
  \/ \E u \in LateThread : Spawn(t, u)

TracerNext ==
  \/ PrepareFiles \/ ScanTasks \/ Unwind \/ NoThreadLeft
  \/ ContSigstop \/ ContOther \/ CleanUp \/ Done
  \/ TracerExit \/ TracerFails
  \/ \E t \in Thread : Attach(t) \/ SingleStepTrue(t) \/ SingleStepFalse(t) \/ Detach(t)

LibNext ==
  \/ Handshake
  \/ \E g \in Moved : BeginBolted(g)
  \/ EndBolted
  \/ NextFile(boltFile, "bolted", "site")
  \/ \E c \in CallIns : BeginSite(c)
  \/ EndSite
  \/ NextFile(siteFile, "site", "vtable")
  \/ \E v \in Slot : BeginSlot(v)
  \/ EndSlot
  \/ NextFile(vtabFile, "vtable", "func")
  \/ \E f \in Func : BeginFunc(f)
  \/ EndFunc
  \/ RaiseSigstop
  \/ PrintErrAndExit

Next == (\E t \in Thread : ThreadNext(t)) \/ TracerNext \/ LibNext

Spec == Init /\ [][Next]_vars
-----------------------------------------------------------------------------
TypeOK ==
  /\ target \in {"alive", "exited", "crashed"}
  /\ status \in [Thread -> {"unborn", "running", "stopped"}]
  /\ stack \in [Thread -> Seq(Frame)]
  /\ text \in [Func -> {"C0", "C1", "torn"}]
  /\ bolted \in [Moved -> {"absent", "C1", "torn"}]
  /\ site \in [CallIns -> Int]
  /\ slot \in [Slot -> Int]
  /\ tp \in {"prepare", "scan", "attach", "inject", "cont", "detach", "join", "done", "exited"}
  /\ tids \subseteq Thread /\ tried \subseteq tids
  /\ hijack \in Thread \cup {None}
  /\ func_in_call_stack \subseteq TextSym
  /\ boltFile \subseteq Moved /\ siteFile \subseteq call_sites_all
  /\ vtabFile \subseteq Slot /\ funcFile \subseteq get_unmoved_func
  /\ lp \in LibBusy \cup {"idle", "finished", "abandoned"}
  /\ cur \in Func \cup CallIns \cup Slot \cup {None}
  /\ pathSent \in BOOLEAN

(* d leads to function f: to its original, which stays callable for ever, or *)
(* to its moved copy, which then must be there.                              *)
Reaches(d, f) ==
  \/ d = f
  \/ f \in Moved /\ d = MovedAddr[f] /\ bolted[f] = "C1"

(* The order in which insert_machine_code copies the files: at every moment  *)
(* of the insertion, also one where a signal ends it for good, no call       *)
(* instruction, vtable slot, replaced function or executing moved function   *)
(* leads to a moved function that is not completely inserted, and no pointer *)
(* is half written but the one of the record being copied.  This takes that  *)
(* bolted_functions.bin could be read: it does not hold with "bolted" in     *)
(* Unreadable, the later files may be missing.                               *)
NoDanglingCall ==
  /\ \A c \in CallIns : \/ Reaches(site[c], CallTarget[c])
                        \/ site[c] = Torn /\ cur = c
  /\ \A v \in Slot : \/ Reaches(slot[v], SlotTarget[v])
                     \/ slot[v] = Torn /\ cur = v
  /\ \A c \in CallIns : text[CallFunc[c]] = "C1" => Reaches(NewAddr(CallTarget[c]), CallTarget[c])
  /\ \A t \in Thread : \A i \in 1 .. Len(stack[t]) :
       stack[t][i].moved => \A g \in Moved : bolted[g] = "C1"

(* Stack liveness: no function is overwritten while a frame of any thread    *)
(* is in the middle of it.  Each frame finds the code it was executing when  *)
(* the thread resumes or returns into it.                                    *)
FramesResumable ==
  \A t \in Thread : \A i \in 1 .. Len(stack[t]) :
    stack[t][i].img \in {"none", CodeAt(stack[t][i])}

(* When it holds: every thread is paused, and no thread ever executes the    *)
(* last function of the symbol table, unless BOLT moved that one.            *)
Callable == {Root[t] : t \in Thread} \cup {CallTarget[c] : c \in CallIns}
              \cup {SlotTarget[v] : v \in Slot}

LastSymbolIdle == LastTextSym \cap Callable \subseteq Moved

(* What infrastructure.hpp says of get_unmoved_func_not_in_call_stack: the   *)
(* functions it selects for overwriting are not on any call stack.           *)
UnmovedFuncOffStack ==
  tp = "inject" =>
    \A t \in tids : \A i \in 1 .. Len(stack[t]) :
      stack[t][i].img # "none" => stack[t][i].fn \notin funcFile

(* What an insertion that reports its end has achieved: every call to a      *)
(* moved function in a function that BOLT kept and `nm` lists goes to the    *)
(* moved copy, either because the function was replaced or because the call  *)
(* was patched (extract_call_sites never sees a call that ends a function).  *)
(* This takes that all four files could be read.                             *)
Replaced ==
  /\ \A g \in Moved : bolted[g] = "C1"
  /\ \A v \in Slot : slot[v] = NewAddr(SlotTarget[v])
  /\ \A c \in call_sites_all :
       (CallFunc[c] \in get_unmoved_func \cap BoltSym /\ CallTarget[c] \in Moved) =>
         text[CallFunc[c]] = "C1" \/ site[c] = MovedAddr[CallTarget[c]]

FinishedMeansReplaced == lp = "finished" => Replaced

(* The call stacks as the source program sees them, and the abstract program *)
(* the target has to go on being: each step of the target, whatever code it  *)
(* executes, is a call, a return or a thread start of that program.          *)
Edge == {<< CallFunc[c], CallTarget[c] >> : c \in CallIns}
          \cup UNION {SlotUser[v] \X {SlotTarget[v]} : v \in Slot}

Source == INSTANCE Program WITH
  FirstThread <- Thread \ LateThread,
  calls <- [t \in Thread |-> [i \in 1 .. Len(stack[t]) |-> stack[t][i].fn]],
  process <- target

(* Replacing the code is invisible to the program being optimized. *)
Transparent == Source!ProgramSpec

=============================================================================
