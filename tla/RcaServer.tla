------------------------------ MODULE RcaServer ------------------------------
(***************************************************************************)
(* The build accelerator: a library hooks the exec calls that start clang  *)
(* (rca-clang, or rca-clang-new which needs no server), and a server tells *)
(* each of them to run the compiler under perf, as it is, or optimized.    *)
(* After NUM_PERF_DATA profiles the server makes the optimized compiler in *)
(* a thread of its own while it goes on answering.                         *)
(*                                                                         *)
(* Time passes by Tick, which stands for the three seconds the server      *)
(* sleeps.  A profile is named after the millisecond it is started in, so  *)
(* two that are started between the same ticks may get the same name.      *)
(***************************************************************************)
EXTENDS Integers, Sequences, FiniteSets

CONSTANTS
  NumClients,     \* number of processes that come to execute clang
  Calls(_),       \* Calls(c): the calls <<hook, preload>> the c-th may do it by
  Jobs,           \* how many of them the build runs at the same time
  NUM_PERF_DATA,
  NUM_PERF2BOLT_IN_PARALLEL,
  MaxKills        \* how many clients are killed while they ask the server

ASSUME RcaAssumption ==
  /\ NumClients \in Nat /\ Jobs \in Nat /\ NUM_PERF_DATA \in Nat /\ MaxKills \in Nat
  /\ NUM_PERF2BOLT_IN_PARALLEL \in Nat \ {0}
  /\ \A c \in 1 .. NumClients : Calls(c) \subseteq {"execve", "execvp", "new", "dummy"} \X BOOLEAN

None     == 0
MaxPerfs == 2   \* where the model stops a perf under a perf under a perf
Client   == 1 .. NumClients

VARIABLES
  image,      \* what the process executes: "none" yet, "hook", "perf", "clang",
              \* "clang.bolt"; or "ended", "failed" (execve), "panicked", "killed"
  hook,       \* the hook it is in
  preload,    \* is LD_PRELOAD in the environment it passes on?
  perfs,      \* how many perfs it runs under
  profile,    \* the file it is profiled into, named after who started it, or None
  conn,       \* its connection: "none", "open", "sent", a reply, or "reset"
  kills,
  up,         \* is the server running?
  backlog,    \* connections that wait for accept
  spc,        \* the accept loop: "accept", "read" or "sleep"
  cur,        \* the client it serves
  count,
  bolt_binary_generated,  \* the value the accept loop has read under the mutex
  slept,      \* has the server slept its three seconds?
  recent,     \* profiles started since the last tick
  flag,       \* the value behind the mutex
  bolt,       \* the BOLT thread: "none", "sleep", "convert", "merge", "bolt",
              \* "set", "done", or "dead" after a panic
  todo,       \* directory entries it has not reached
  children,   \* the perf2bolts it has started and not waited for
  running,    \* those that still run
  found,      \* the complete profiles it found when it opened the directory
  fdata,      \* profiles that are converted
  clangBolt   \* is there a file CLANG_BOLT_PATH, of this build or an earlier one?

clientVars == << image, hook, preload, perfs, profile, conn, kills, recent >>
serverVars == << up, backlog, spc, cur, count, bolt_binary_generated, slept >>
boltVars   == << flag, bolt, todo, children, running, found, fdata, clangBolt >>
vars == << clientVars, serverVars, boltVars >>

Init ==
  /\ image = [c \in Client |-> "none"] /\ hook = [c \in Client |-> "execve"]
  /\ preload = [c \in Client |-> TRUE] /\ perfs = [c \in Client |-> 0]
  /\ profile = [c \in Client |-> None] /\ conn = [c \in Client |-> "none"]
  /\ kills = 0 /\ recent = {}
  /\ up = TRUE /\ backlog = << >> /\ spc = "accept" /\ cur = None /\ count = 0
  /\ bolt_binary_generated = FALSE /\ slept = FALSE
  /\ flag = FALSE /\ bolt = "none" /\ todo = {} /\ children = {} /\ running = {}
  /\ found = {} /\ fdata = {} /\ clangBolt \in BOOLEAN

(* The profiles there are, and those perf has finished writing *)
files    == {profile[c] : c \in Client} \ {None}
complete == {profile[c] : c \in {d \in Client : image[d] = "ended"}} \ {None}

-----------------------------------------------------------------------------
(* The clients.                                                             *)

Becomes(c, i) == image' = [image EXCEPT ![c] = i]
Closes(c)     == conn' = [conn EXCEPT ![c] = "none"]

(* exec of clang in a process with the library loaded.  The environment it   *)
(* passes on need not contain LD_PRELOAD.  The clients are numbered in the   *)
(* order of these calls.                                                     *)
Busy(c) == image[c] \in {"hook", "perf"} \/ (image[c] = "clang" /\ profile[c] # None)

Invoke(c, h, e) ==
  /\ image[c] = "none" /\ \A d \in 1 .. c - 1 : image[d] # "none"
  /\ Cardinality({d \in Client : Busy(d)}) < Jobs
  /\ Becomes(c, "hook")
  /\ hook' = [hook EXCEPT ![c] = h]
  /\ preload' = [preload EXCEPT ![c] = e]
  /\ UNCHANGED << perfs, profile, conn, kills, recent, serverVars, boltVars >>

AsksServer(c) == image[c] = "hook" /\ hook[c] \in {"execve", "dummy"}

(* What a hook falls back to: the call it was made for, as it was.  The      *)
(* dummy client only says what it was told.                                  *)
Unchanged(c) == Becomes(c, IF hook[c] = "dummy" THEN "ended" ELSE "clang")

(* TcpStream::connect *)
Connect(c) ==
  /\ AsksServer(c) /\ conn[c] = "none"
  /\ IF up
     THEN /\ conn' = [conn EXCEPT ![c] = "open"]
          /\ backlog' = Append(backlog, c)
          /\ UNCHANGED image
     ELSE Unchanged(c) /\ UNCHANGED << conn, backlog >>
  /\ UNCHANGED << hook, preload, perfs, profile, kills, recent, up, spc, cur, count,
                  bolt_binary_generated, slept, boltVars >>

(* stream.write of "clang invocation".  When the server has ended since the  *)
(* connect, either this fails and unwrap panics, or the read that follows.   *)
Write(c) ==
  /\ AsksServer(c) /\ conn[c] = "open"
  /\ \/ conn' = [conn EXCEPT ![c] = IF up THEN "sent" ELSE "reset"] /\ UNCHANGED image
     \/ ~ up /\ Becomes(c, "panicked") /\ Closes(c)
  /\ UNCHANGED << hook, preload, perfs, profile, kills, recent, serverVars, boltVars >>

(* envp_cstring.remove(index) panics when no variable is LD_PRELOAD; execvp  *)
(* calls remove_var.                                                         *)
WrapEnvpPanics(c) == hook[c] \in {"execve", "new"} /\ ~ preload[c]

(* Faulty variant: the environment is passed on as it is. *)
wrap_envp_kept(c) == preload' = preload

(* LD_PRELOAD is removed. *)
wrap_envp(c) == preload' = [preload EXCEPT ![c] = FALSE]

(* The time of the call is part of the name of perf's output. *)
add_perf_prefix(c) ==
  /\ \E f \in recent \cup {c} : profile' = [profile EXCEPT ![c] = f]
  /\ recent' = recent \cup {profile'[c]}

(* The process becomes perf record, or panics before that. *)
BecomesPerf(c) ==
  /\ IF WrapEnvpPanics(c)
     THEN Becomes(c, "panicked") /\ UNCHANGED << preload, perfs, profile, recent >>
     ELSE /\ Becomes(c, "perf")
          /\ wrap_envp(c) /\ add_perf_prefix(c)
          /\ perfs' = [perfs EXCEPT ![c] = @ + 1]
  /\ Closes(c)
  /\ UNCHANGED << hook, kills, serverVars, boltVars >>

(* The answer "start perf profiling" *)
ExecPerf(c) ==
  /\ AsksServer(c) /\ hook[c] = "execve" /\ conn[c] = "perf"
  /\ BecomesPerf(c)

(* The hook of execvp, in both libraries, and the one of execve in           *)
(* rca-clang-new ask nobody.                                                 *)
my_execvp(c)     == image[c] = "hook" /\ hook[c] = "execvp" /\ BecomesPerf(c)
my_execve_new(c) == image[c] = "hook" /\ hook[c] = "new" /\ BecomesPerf(c)

(* perf executes clang with execvp, through the library if it is loaded. *)
PerfExecs(c) ==
  /\ image[c] = "perf" /\ perfs[c] < MaxPerfs
  /\ IF preload[c]
     THEN Becomes(c, "hook") /\ hook' = [hook EXCEPT ![c] = "execvp"]
     ELSE Becomes(c, "clang") /\ UNCHANGED hook
  /\ UNCHANGED << preload, perfs, profile, conn, kills, recent, serverVars, boltVars >>

(* execve of clang.bolt returns when there is none. *)
ExecBolted(c) ==
  /\ AsksServer(c) /\ hook[c] = "execve" /\ conn[c] = "bolted"
  /\ IF WrapEnvpPanics(c) THEN Becomes(c, "panicked") /\ UNCHANGED preload
     ELSE IF ~ clangBolt THEN Becomes(c, "failed") /\ UNCHANGED preload
     ELSE Becomes(c, "clang.bolt") /\ wrap_envp(c)
  /\ Closes(c)
  /\ UNCHANGED << hook, perfs, profile, kills, recent, serverVars, boltVars >>

(* Any other reply, none, or an error; the dummy client takes any reply. *)
ExecUnchangedAfter(c, replies) ==
  /\ AsksServer(c)
  /\ conn[c] \in replies \cup (IF hook[c] = "dummy" THEN {"perf", "bolted"} ELSE {})
  /\ Unchanged(c) /\ Closes(c)
  /\ UNCHANGED << hook, preload, perfs, profile, kills, recent, serverVars, boltVars >>

(* Faulty variant: a lost connection is not handled. *)
ExecUnchangedOnReply(c) == ExecUnchangedAfter(c, {"plain"})

ExecUnchanged(c) == ExecUnchangedAfter(c, {"plain", "reset"})

(* A compiler under perf ends, and perf writes the rest of its profile. *)
ProfileEnds(c) ==
  /\ image[c] = "clang" /\ profile[c] # None
  /\ Becomes(c, "ended")
  /\ UNCHANGED << hook, preload, perfs, profile, conn, kills, recent, serverVars, boltVars >>

Kill(c) ==
  /\ kills < MaxKills /\ AsksServer(c)
  /\ Becomes(c, "killed")
  /\ kills' = kills + 1
  /\ Closes(c)
  /\ UNCHANGED << hook, preload, perfs, profile, recent, serverVars, boltVars >>

-----------------------------------------------------------------------------
(* The accept loop.                                                         *)

Accept ==
  /\ up /\ spc = "accept" /\ backlog # << >>
  /\ cur' = Head(backlog) /\ backlog' = Tail(backlog)
  /\ bolt_binary_generated' = flag
  /\ count' = count + 1
  /\ spc' = "read"
  /\ UNCHANGED << up, slept, clientVars, boltVars >>

(* stream.read returns when the client has written or its end is closed. *)
Reads == up /\ spc = "read" /\ conn[cur] # "open"

client_run_perf == ~ bolt_binary_generated /\ count <= NUM_PERF_DATA

Answer(r) ==
  /\ conn' = [conn EXCEPT ![cur] = IF image[cur] = "killed" THEN "none" ELSE r]
  /\ spc' = "accept" /\ cur' = None /\ bolt_binary_generated' = FALSE
  /\ UNCHANGED << image, hook, preload, perfs, profile, kills, recent, up, backlog, count >>

ReplyBolted ==
  /\ Reads /\ bolt_binary_generated
  /\ Answer("bolted")
  /\ UNCHANGED << slept, boltVars >>

(* sleep_ms(3000) before the answer "start perf profiling" *)
SleepFor(over) ==
  /\ Reads /\ client_run_perf
  /\ spc' = "sleep" /\ slept' = over
  /\ UNCHANGED << up, backlog, cur, count, bolt_binary_generated, clientVars, boltVars >>

(* Faulty variant: the server does not sleep before the answer. *)
StartSleepOmitted == SleepFor(TRUE)

StartSleep == SleepFor(FALSE)

ReplyPerf ==
  /\ up /\ spc = "sleep" /\ slept
  /\ Answer("perf") /\ slept' = FALSE
  /\ UNCHANGED boltVars

(* "run program without perf", also when a client was killed before it sent  *)
(* anything.  After NUM_PERF_DATA clients the BOLT thread is started.        *)
ReplyPlainAnd(start) ==
  /\ Reads /\ ~ bolt_binary_generated
  /\ client_run_perf => image[cur] = "killed"
  /\ Answer("plain")
  /\ bolt' = IF start THEN "sleep" ELSE bolt
  /\ UNCHANGED << slept, flag, todo, children, running, found, fdata, clangBolt >>

(* Faulty variant: the thread is only started in the branch for perf. *)
ReplyPlainOnly == ReplyPlainAnd(client_run_perf /\ count = NUM_PERF_DATA + 1)

ReplyPlain == ReplyPlainAnd(count = NUM_PERF_DATA + 1)

(* Three seconds pass.  A client that was told to profile starts perf within *)
(* them.                                                                     *)
Tick ==
  /\ recent # {} \/ (spc = "sleep" /\ ~ slept)
  /\ \A c \in Client : ~ (AsksServer(c) /\ hook[c] = "execve" /\ conn[c] = "perf")
  /\ recent' = {} /\ slept' = (spc = "sleep")
  /\ UNCHANGED << image, hook, preload, perfs, profile, conn, kills, up, backlog, spc, cur,
                  count, bolt_binary_generated, boltVars >>

(* The server is stopped, the BOLT thread with it. *)
StopServer ==
  /\ up
  /\ up' = FALSE /\ backlog' = << >> /\ spc' = "accept" /\ cur' = None /\ slept' = FALSE
  /\ conn' = [c \in Client |-> IF conn[c] = "sent" THEN "reset" ELSE conn[c]]
  /\ bolt' = IF bolt = "done" THEN bolt ELSE "dead"
  /\ todo' = {} /\ children' = {} /\ running' = {} /\ found' = {} /\ fdata' = {}
  /\ UNCHANGED << image, hook, preload, perfs, profile, kills, recent, count,
                  bolt_binary_generated, flag, clangBolt >>

-----------------------------------------------------------------------------
(* The BOLT thread.                                                         *)

BoltStep(at) == up /\ bolt = at /\ UNCHANGED << clientVars, serverVars >>

(* generate_perf_fdata opens the directory. *)
ReadPerfDir ==
  /\ BoltStep("sleep")
  /\ bolt' = "convert"
  /\ todo' = files
  /\ found' = complete
  /\ UNCHANGED << flag, children, running, fdata, clangBolt >>

(* A perf2bolt for the next entry *)
StartPerf2bolt(f) ==
  /\ BoltStep("convert") /\ f \in todo /\ Cardinality(children) < NUM_PERF2BOLT_IN_PARALLEL
  /\ todo' = todo \ {f}
  /\ children' = children \cup {f} /\ running' = running \cup {f}
  /\ UNCHANGED << flag, bolt, found, fdata, clangBolt >>

(* perf2bolt ends, without a result if perf was still writing. *)
Perf2boltEnds(f) ==
  /\ up /\ f \in running
  /\ running' = running \ {f}
  /\ fdata' = fdata \cup ({f} \cap complete)
  /\ UNCHANGED << flag, bolt, todo, children, found, clangBolt, clientVars, serverVars >>

(* A full batch is waited for. *)
WaitBatch ==
  /\ BoltStep("convert") /\ running = {}
  /\ Cardinality(children) = NUM_PERF2BOLT_IN_PARALLEL
  /\ children' = {}
  /\ UNCHANGED << flag, bolt, todo, running, found, fdata, clangBolt >>

LastBatchStarted ==
  bolt = "convert" /\ todo = {} /\ Cardinality(children) < NUM_PERF2BOLT_IN_PARALLEL

(* And the last one, if it is smaller. *)
WaitRestIf(ended) ==
  /\ BoltStep("convert") /\ LastBatchStarted /\ ended
  /\ bolt' = "merge" /\ children' = {}
  /\ UNCHANGED << flag, todo, running, found, fdata, clangBolt >>

(* Faulty variant: the last, smaller batch is not waited for. *)
WaitRestOmitted == WaitRestIf(TRUE)

WaitRest == WaitRestIf(running = {})

(* merge-fdata *.fdata, after which nobody looks at these files, and the     *)
(* start of llvm-bolt                                                        *)
MergeAndBolt ==
  /\ BoltStep("merge")
  /\ bolt' = "bolt" /\ fdata' = {} /\ found' = {}
  /\ UNCHANGED << flag, todo, children, running, clangBolt >>

(* llvm-bolt ends.  When it fails there may be no file, or the one before. *)
LlvmBoltEnds ==
  /\ BoltStep("bolt")
  /\ bolt' = "set" /\ clangBolt' \in BOOLEAN
  /\ UNCHANGED << flag, todo, children, running, found, fdata >>

(* The exit code is not looked at. *)
SetFlagAt(at) ==
  /\ BoltStep(at)
  /\ flag' = TRUE /\ bolt' = IF at = "set" THEN "done" ELSE bolt
  /\ UNCHANGED << todo, children, running, found, fdata, clangBolt >>

(* Faulty variant: llvm-bolt is not waited for. *)
SetFlagEarly == SetFlagAt("bolt")

SetFlag == SetFlagAt("set")

(* expect(): perf2bolt, sh or llvm-bolt cannot be started, or the directory  *)
(* not be read.  The accept loop goes on.                                    *)
BoltPanics ==
  /\ up /\ bolt \in {"sleep", "convert", "merge"}
  /\ bolt' = "dead"
  /\ UNCHANGED << flag, todo, children, running, found, fdata, clangBolt, clientVars, serverVars >>

-----------------------------------------------------------------------------
ClientStep(c) ==
  \/ Connect(c) \/ Write(c) \/ ExecPerf(c) \/ my_execvp(c) \/ my_execve_new(c) \/ PerfExecs(c)
  \/ ExecBolted(c) \/ ExecUnchanged(c)

ServerStep == Accept \/ ReplyBolted \/ StartSleep \/ ReplyPerf \/ ReplyPlain

BoltThreadStep ==
  \/ ReadPerfDir \/ WaitBatch \/ WaitRest \/ MergeAndBolt \/ LlvmBoltEnds \/ SetFlag
  \/ \E f \in Client : StartPerf2bolt(f) \/ Perf2boltEnds(f)

Next ==
  \/ \E c \in Client :
       \/ \E h \in Calls(c) : Invoke(c, h[1], h[2])
       \/ ClientStep(c) \/ ProfileEnds(c) \/ Kill(c)
  \/ ServerStep \/ Tick \/ StopServer
  \/ BoltThreadStep \/ BoltPanics

(* Processes and threads are scheduled and the tools come to an end; nothing *)
(* makes anybody start a compiler, stop one, or stop the server.             *)
Spec ==
  /\ Init /\ [][Next]_vars
  /\ \A c \in Client : WF_vars(ClientStep(c))
  /\ WF_vars(ServerStep) /\ WF_vars(Tick) /\ WF_vars(BoltThreadStep)
-----------------------------------------------------------------------------
TypeOK ==
  /\ image \in [Client -> {"none", "hook", "perf", "clang", "clang.bolt", "ended", "failed",
                           "panicked", "killed"}]
  /\ hook \in [Client -> {"execve", "execvp", "new", "dummy"}]
  /\ preload \in [Client -> BOOLEAN]
  /\ perfs \in [Client -> 0 .. MaxPerfs]
  /\ profile \in [Client -> Client \cup {None}]
  /\ conn \in [Client -> {"none", "open", "sent", "perf", "bolted", "plain", "reset"}]
  /\ kills \in 0 .. MaxKills /\ recent \subseteq Client
  /\ up \in BOOLEAN /\ backlog \in Seq(Client) /\ spc \in {"accept", "read", "sleep"}
  /\ cur \in Client \cup {None} /\ count \in 0 .. NumClients
  /\ bolt_binary_generated \in BOOLEAN /\ slept \in BOOLEAN /\ flag \in BOOLEAN
  /\ bolt \in {"none", "sleep", "convert", "merge", "bolt", "set", "done", "dead"}
  /\ running \subseteq children
  /\ Cardinality(children) <= NUM_PERF2BOLT_IN_PARALLEL
  /\ found \cup fdata \cup todo \subseteq Client
  /\ clangBolt \in BOOLEAN

(* The flag the accept loop reads under the mutex, the reply and the hook    *)
(* together keep every compiler from executing a clang.bolt that llvm-bolt   *)
(* is still writing.                                                         *)
RunsFinishedBinary ==
  \A c \in Client : image[c] = "clang.bolt" => bolt = "done"

(* A profile that was complete when the BOLT thread opened the directory is  *)
(* converted when merge-fdata runs: the batches of generate_perf_fdata leave *)
(* none behind, and the last of them has ended.                              *)
NothingFinishedLost == bolt = "merge" => found \subseteq fdata

(* No two compilers the server told to profile write to the same file: the   *)
(* accept loop serves them one after the other and sleeps before each, so    *)
(* the names, which are times, differ.                                       *)
ProfilesDistinct ==
  \A c, d \in Client :
    c # d /\ hook[c] = "execve" /\ hook[d] = "execve" /\ profile[c] # None
      => profile[c] # profile[d]

(* perf itself starts the compiler with execvp, which the library hooks: it  *)
(* must not be loaded there, or perf would run under perf without end.       *)
NoPerfUnderPerf == \A c \in Client : perfs[c] <= 1

(* No compiler waits for ever: whether the server answers, is stopped or was *)
(* never there, each one that was started comes to be executed in one form   *)
(* or the other, or fails (without LD_PRELOAD to remove, without a binary    *)
(* because llvm-bolt left none, or because the server ended between the      *)
(* connect and the write).                                                   *)
EveryCompilerRuns == <>[](\A c \in Client : image[c] \notin {"hook", "perf"})

(* Once NUM_PERF_DATA + 1 connections have been accepted the optimized       *)
(* compiler is announced, unless the BOLT thread panics or the server is     *)
(* stopped.                                                                  *)
BoltAnnounced == <>[](count > NUM_PERF_DATA => flag \/ bolt = "dead")
=============================================================================
