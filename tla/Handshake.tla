------------------------------ MODULE Handshake ------------------------------
(***************************************************************************)
(* The three TCP connections between the tracer and its target.            *)
(*    8000  before_main tells the tracer where insert_machine_code is      *)
(*    9000  the library tells the tracer that it waits for the data path   *)
(*   18000  the tracer's second thread sends the data path                 *)
(* bind and connect are called without looking at their results, the       *)
(* sockets are inherited by the processes the tracer starts, and the       *)
(* second thread is ready in time only because main sleeps meanwhile.      *)
(***************************************************************************)
EXTENDS Integers, Sequences, FiniteSets, Functions

CONSTANTS
  LibPathLen,     \* length of the directory of replace_function.so
  PathLens,       \* lengths tmp_data_path may have
  CleanHeap,      \* is the buffer of get_lib_addr zero behind the digits?
  MaxChild,       \* how many programs the target executes
  None

Port == {8000, 9000, 18000}

(* Both paths end with a slash: ocolos_env::get_dir_path appends it. *)
ASSUME HandshakeAssumption ==
  /\ LibPathLen \in Nat /\ LibPathLen >= 1
  /\ PathLens \subseteq Nat \ {0}
  /\ CleanHeap \in BOOLEAN
  /\ MaxChild \in Nat

VARIABLES
  tmp_data_path,  \* the length of the configured path
  tracer,     \* what main does next
  sender,     \* what the thread of send_data_path does next
  target,     \* what the target does next
  listeners,  \* listeners[p]: the processes that hold the socket listening on p
  backlog,    \* backlog[p]: the connections to p nobody has accepted
  sock,       \* sock[c]: the connection opened by c
  lib_addr,   \* the address main has received
  data_path,  \* the length of the path the library has received
  ldPreload,  \* is LD_PRELOAD set in the environment of the target?
  preloaded,  \* number of other programs that have loaded the library
  inserted,   \* has the library inserted the code?
  interrupted \* has ptrace_cont returned for a signal the library did not raise?

netVars == << listeners, backlog, sock >>
vars == << tmp_data_path, tracer, sender, target, netVars, lib_addr, data_path, ldPreload, preloaded,
           inserted, interrupted >>

Client == {"target", "child", "lib", "sender"}
Alive  == target \notin {"none", "dead"}

Init ==
  /\ tmp_data_path \in PathLens
  /\ tracer = "bind" /\ sender = "off" /\ target = "none"
  /\ listeners \in [Port -> {{}, {"other"}}]
  /\ backlog = [p \in Port |-> << >>]
  /\ sock = [c \in Client |-> "closed"]
  /\ lib_addr = None /\ data_path = None
  /\ ldPreload = FALSE /\ preloaded = 0 /\ inserted = FALSE /\ interrupted = FALSE

-----------------------------------------------------------------------------
(* The kernel.                                                              *)

(* bind and listen.  When the port is taken bind fails, and listen gives the *)
(* socket a port of its own that nobody will connect to.                     *)
Listen(q, p) ==
  listeners' = IF listeners[p] = {} THEN [listeners EXCEPT ![p] = {q}] ELSE listeners

(* A connection waits in the backlog of the port; nobody listens: refused. *)
Connect(c, p) ==
  IF listeners[p] = {} THEN UNCHANGED << sock, backlog >>
  ELSE /\ sock' = [sock EXCEPT ![c] = "connected"]
       /\ backlog' = [backlog EXCEPT ![p] = Append(@, c)]

(* The connection that an accept of q on p returns once its data, or its     *)
(* end, can be read.                                                         *)
Readable(q, p) ==
  /\ q \in listeners[p] /\ backlog[p] # << >>
  /\ sock[Head(backlog[p])] \in {"written", "eof"}

(* Process q closes the listening sockets on P; connections that wait in the *)
(* backlog of a port nobody holds any more are reset.                        *)
Close(q, P) ==
  /\ listeners' = [p \in Port |-> IF p \in P THEN listeners[p] \ {q} ELSE listeners[p]]
  /\ backlog' = [p \in Port |-> IF listeners'[p] = {} THEN << >> ELSE backlog[p]]

(* accept, read and close of the listening socket *)
AcceptAndClose(q, p) ==
  /\ listeners' = [listeners EXCEPT ![p] = @ \ {q}]
  /\ backlog' = [backlog EXCEPT ![p] = IF listeners'[p] = {} THEN << >> ELSE Tail(@)]

(* The processes q starts inherit its sockets: none is close-on-exec. *)
Inherit(q, child) ==
  listeners' = [p \in Port |-> IF q \in listeners[p] THEN listeners[p] \cup {child} ELSE listeners[p]]

(* The end of the target: exit, SIGPIPE, a crash. *)
Dies ==
  /\ target' = "dead"
  /\ Close("target", Port)
  /\ sock' = [c \in Client |-> IF c \in {"target", "lib"} /\ sock[c] = "connected" THEN "eof" ELSE sock[c]]

(* The end of the tracer process, its second thread included. *)
TracerExits ==
  /\ tracer' = "exited" /\ sender' = "exited"
  /\ Close("tracer", Port)
  /\ sock' = [sock EXCEPT !["sender"] = IF @ = "connected" THEN "eof" ELSE @]

-----------------------------------------------------------------------------
(* main of the tracer.                                                      *)

CreateTcpSocket ==
  /\ tracer = "bind"
  /\ tracer' = "fork"
  /\ Listen("tracer", 8000)
  /\ UNCHANGED << sender, target, backlog, sock, lib_addr, data_path, ldPreload, preloaded,
                  inserted, interrupted >>

(* fork and execve of the target with LD_PRELOAD set; when execve fails the  *)
(* child prints a message and ends.                                          *)
CreateTargetServerProcess ==
  /\ tracer = "fork"
  /\ tracer' = "accept"
  /\ \/ target' = "connect" /\ ldPreload' = TRUE /\ Inherit("tracer", "target")
     \/ target' = "dead" /\ UNCHANGED << ldPreload, listeners >>
  /\ UNCHANGED << sender, backlog, sock, lib_addr, data_path, preloaded, inserted, interrupted >>

(* get_lib_addr: a read that fails is reported and its buffer used all the   *)
(* same; the digits are not terminated, so whatever the buffer holds behind  *)
(* them is converted too.                                                    *)
GetLibAddrWhen(ready) ==
  /\ tracer = "accept" /\ ready
  /\ LET c == Head(backlog[8000]) IN
       lib_addr' \in IF sock[c] = "written" /\ CleanHeap THEN {c}
                     ELSE IF sock[c] = "written" THEN {c, "garbage"} ELSE {"garbage"}
  /\ AcceptAndClose("tracer", 8000)
  /\ tracer' = "thread"
  /\ UNCHANGED << sender, target, sock, data_path, ldPreload, preloaded, inserted, interrupted >>

(* Faulty variant: the read does not wait for the data. *)
GetLibAddrNoWait == GetLibAddrWhen("tracer" \in listeners[8000] /\ backlog[8000] # << >>)

GetLibAddr == GetLibAddrWhen(Readable("tracer", 8000))

(* thread t = thread(send_data_path, ...) *)
StartSender ==
  /\ tracer = "thread"
  /\ tracer' = "benchmark" /\ sender' = "listen"
  /\ UNCHANGED << target, netVars, lib_addr, data_path, ldPreload, preloaded,
                  inserted, interrupted >>

(* initialize_benchmark ends the tracer when the client fails, as it does    *)
(* without a server; run_benchmark starts a process that stays.              *)
RunBenchmark ==
  /\ tracer = "benchmark"
  /\ \/ TracerExits
     \/ /\ Alive
        /\ tracer' = "profile"
        /\ Inherit("tracer", "bench")
        /\ UNCHANGED << sender, backlog, sock >>
  /\ UNCHANGED << target, lib_addr, data_path, ldPreload, preloaded, inserted, interrupted >>

(* After the profile: all threads of the target are paused and one of them   *)
(* is resumed at lib_addr.  Without a target the tracer exits; at another    *)
(* address, or when no thread can run, the library is not executed.          *)
Hijack ==
  /\ tracer = "profile"
  /\ \/ /\ target = "main" /\ lib_addr = "target"
        /\ tracer' = "wait" /\ target' = "lib_listen"
        /\ UNCHANGED << sender, netVars >>
     \/ /\ target = "main"
        /\ tracer' = "join"
        /\ UNCHANGED << sender, target, netVars >>
     \/ /\ target = "dead"
        /\ TracerExits
        /\ UNCHANGED target
  /\ UNCHANGED << lib_addr, data_path, ldPreload, preloaded, inserted, interrupted >>

(* ptrace_cont returns when the thread has stopped, restores its registers   *)
(* and lets main resume the target, whether the library has raised SIGSTOP   *)
(* or another signal has stopped the thread in the library: that one is only *)
(* reported, and the library's sockets stay open.  It exits when the target  *)
(* has died.                                                                 *)
LibraryReturned ==
  /\ tracer = "wait"
  /\ \/ /\ target = "back"
        /\ tracer' = "join" /\ target' = "main"
        /\ UNCHANGED << sender, netVars, interrupted >>
     \/ /\ target = "signalled"
        /\ tracer' = "join" /\ target' = "main" /\ interrupted' = TRUE
        /\ UNCHANGED << sender, netVars >>
     \/ /\ target = "dead"
        /\ TracerExits
        /\ UNCHANGED << target, interrupted >>
  /\ UNCHANGED << lib_addr, data_path, ldPreload, preloaded, inserted >>

(* t.join() and "code replacement done" *)
Join ==
  /\ tracer = "join" /\ sender = "done"
  /\ tracer' = "done"
  /\ UNCHANGED << sender, target, netVars, lib_addr, data_path, ldPreload, preloaded,
                  inserted, interrupted >>

-----------------------------------------------------------------------------
(* send_data_path, the tracer's second thread.                              *)

SenderListen ==
  /\ sender = "listen"
  /\ sender' = "accept"
  /\ Listen("tracer", 9000)
  /\ UNCHANGED << tracer, target, backlog, sock, lib_addr, data_path, ldPreload, preloaded,
                  inserted, interrupted >>

SenderAccept ==
  /\ sender = "accept" /\ "tracer" \in listeners[9000] /\ backlog[9000] # << >>
  /\ sender' = "connect"
  /\ backlog' = [backlog EXCEPT ![9000] = Tail(@)]
  /\ UNCHANGED << tracer, target, listeners, sock, lib_addr, data_path, ldPreload, preloaded,
                  inserted, interrupted >>

SenderConnect ==
  /\ sender = "connect"
  /\ sender' = "write"
  /\ Connect("sender", 18000)
  /\ UNCHANGED << tracer, target, listeners, lib_addr, data_path, ldPreload, preloaded,
                  inserted, interrupted >>

(* write on a socket that is not connected raises SIGPIPE. *)
SenderWrite ==
  /\ sender = "write"
  /\ IF sock["sender"] = "connected"
     THEN /\ sock' = [sock EXCEPT !["sender"] = "written"]
          /\ sender' = "done"
          /\ Close("tracer", {9000})
          /\ UNCHANGED tracer
     ELSE TracerExits
  /\ UNCHANGED << target, lib_addr, data_path, ldPreload, preloaded, inserted, interrupted >>

-----------------------------------------------------------------------------
(* The target process and the library in it.                                *)

(* The loop over environ compares LD_PRELOAD with a path that has no         *)
(* directory.                                                                *)
UnsetLdPreload == LibPathLen = 0

BeforeMainConnect ==
  /\ target = "connect"
  /\ target' = "write"
  /\ ldPreload' = (ldPreload /\ ~ UnsetLdPreload)
  /\ Connect("target", 8000)
  /\ UNCHANGED << tracer, sender, listeners, lib_addr, data_path, preloaded,
                  inserted, interrupted >>

BeforeMainLeaves(state) ==
  /\ target = "write"
  /\ IF sock["target"] = "connected"
     THEN /\ sock' = [sock EXCEPT !["target"] = state]
          /\ target' = "main"
          /\ UNCHANGED << listeners, backlog >>
     ELSE Dies
  /\ UNCHANGED << tracer, sender, lib_addr, data_path, ldPreload, preloaded,
                  inserted, interrupted >>

(* Faulty variant: nothing is written. *)
BeforeMainWriteUnsent == BeforeMainLeaves("connected")

BeforeMainWrite == BeforeMainLeaves("written")

(* The target executes another program, which runs before_main too when      *)
(* LD_PRELOAD is still in the environment.                                   *)
ExecChild ==
  /\ target = "main" /\ ldPreload /\ preloaded < MaxChild
  /\ preloaded' = preloaded + 1
  /\ IF listeners[8000] = {} THEN UNCHANGED << sock, backlog >>
     ELSE /\ sock' = [sock EXCEPT !["child"] = "written"]
          /\ backlog' = [backlog EXCEPT ![8000] = Append(@, "child")]
  /\ UNCHANGED << tracer, sender, target, listeners, lib_addr, data_path, ldPreload, inserted, interrupted >>

TargetDies ==
  /\ Alive
  /\ Dies
  /\ UNCHANGED << tracer, sender, lib_addr, data_path, ldPreload, preloaded,
                  inserted, interrupted >>

(* Faulty variant: create_tcp_socket is not called. *)
LibListenOmitted ==
  /\ target = "lib_listen"
  /\ target' = "lib_connect"
  /\ UNCHANGED << tracer, sender, netVars, lib_addr, data_path, ldPreload, preloaded,
                  inserted, interrupted >>

(* insert_machine_code: first listen for the path, then ask for it. *)
LibListen ==
  /\ target = "lib_listen"
  /\ target' = "lib_connect"
  /\ Listen("target", 18000)
  /\ UNCHANGED << tracer, sender, backlog, sock, lib_addr, data_path, ldPreload, preloaded,
                  inserted, interrupted >>

(* Faulty variant: the library does not connect. *)
LibConnectOmitted ==
  /\ target = "lib_connect"
  /\ target' = "lib_accept"
  /\ UNCHANGED << tracer, sender, netVars, lib_addr, data_path, ldPreload, preloaded,
                  inserted, interrupted >>

LibConnect ==
  /\ target = "lib_connect"
  /\ target' = "lib_accept"
  /\ Connect("lib", 9000)
  /\ UNCHANGED << tracer, sender, listeners, lib_addr, data_path, ldPreload, preloaded,
                  inserted, interrupted >>

(* Faulty variant: room for one byte less. *)
ReadMaxShort == 79

(* The size of the one read of get_data_path. *)
ReadMax == 80

GetDataPath ==
  /\ target = "lib_accept" /\ Readable("target", 18000)
  /\ IF sock[Head(backlog[18000])] = "eof"
     THEN Dies /\ UNCHANGED data_path
     ELSE /\ data_path' = IF tmp_data_path <= ReadMax THEN tmp_data_path ELSE ReadMax
          /\ AcceptAndClose("target", 18000)
          /\ target' = "insert"
          /\ UNCHANGED sock
  /\ UNCHANGED << tracer, sender, lib_addr, ldPreload, preloaded, inserted, interrupted >>

(* The files are opened under the received path.  When it was cut nothing is *)
(* found: fclose(NULL) raises SIGSEGV, which stops the traced thread like    *)
(* any signal, unless the debug log could be created there.                  *)
InsertMachineCode ==
  /\ target = "insert"
  /\ \/ /\ data_path = tmp_data_path
        /\ inserted' = TRUE /\ target' = "back"
     \/ /\ data_path # tmp_data_path
        /\ target' \in {"back", "signalled"}
        /\ UNCHANGED inserted
  /\ UNCHANGED << tracer, sender, netVars, lib_addr, data_path, ldPreload, preloaded, interrupted >>

(* A signal the library has not raised (a timer, a child that ended, a fault) *)
(* stops the hijacked thread, which is traced, wherever it is in the library. *)
SignalStops ==
  /\ tracer = "wait"
  /\ target \in {"lib_listen", "lib_connect", "lib_accept", "insert", "back"}
  /\ target' = "signalled"
  /\ UNCHANGED << tracer, sender, netVars, lib_addr, data_path, ldPreload, preloaded,
                  inserted, interrupted >>

-----------------------------------------------------------------------------
MainNext   == \/ CreateTcpSocket \/ CreateTargetServerProcess \/ GetLibAddr \/ StartSender
              \/ RunBenchmark \/ Hijack \/ LibraryReturned \/ Join
SenderNext == SenderListen \/ SenderAccept \/ SenderConnect \/ SenderWrite
LibNext    == \/ BeforeMainConnect \/ BeforeMainWrite
              \/ LibListen \/ LibConnect \/ GetDataPath \/ InsertMachineCode

Next ==
  /\ MainNext \/ SenderNext \/ LibNext \/ ExecChild \/ TargetDies \/ SignalStops
  /\ UNCHANGED tmp_data_path

Spec == Init /\ [][Next]_vars

(* A thread that is not blocked in accept, read, waitpid or join goes on. *)
FairSpec ==
  /\ Spec
  /\ WF_vars(MainNext /\ UNCHANGED tmp_data_path)
  /\ WF_vars(SenderNext /\ UNCHANGED tmp_data_path)
  /\ WF_vars(LibNext /\ UNCHANGED tmp_data_path)
-----------------------------------------------------------------------------
TypeOK ==
  /\ tmp_data_path \in PathLens
  /\ tracer \in {"bind", "fork", "accept", "thread", "benchmark", "profile", "wait", "join", "done", "exited"}
  /\ sender \in {"off", "listen", "accept", "connect", "write", "done", "exited"}
  /\ target \in {"none", "connect", "write", "main", "lib_listen", "lib_connect", "lib_accept",
                 "insert", "back", "signalled", "dead"}
  /\ listeners \in [Port -> SUBSET {"tracer", "target", "bench", "other"}]
  /\ \A p \in Port :
       /\ backlog[p] \in Seq(Client)
       /\ \A c \in Client \ {"child"} : Len(SelectSeq(backlog[p], LAMBDA d : d = c)) <= 1
  /\ sock \in [Client -> {"closed", "connected", "written", "eof"}]
  /\ lib_addr \in Client \cup {"garbage", None}
  /\ data_path \in 1 .. ReadMax \cup {None}
  /\ ldPreload \in BOOLEAN /\ preloaded \in 0 .. MaxChild
  /\ inserted \in BOOLEAN /\ interrupted \in BOOLEAN

(* As long as the target lives, the address main resumes a thread at is the  *)
(* target's own insert_machine_code: not that of a program the target has    *)
(* executed, and not the result of a read that found nothing.                *)
LibAddrIsTarget == lib_addr # None /\ Alive => lib_addr = "target"

(* The library listens before it asks, so send_data_path never connects to a *)
(* port where nobody listens, however late either thread is.                 *)
SenderFindsLibrary ==
  sender = "connect" /\ Alive => listeners[18000] # {}

(* "code replacement done" is only printed if the library found its files,   *)
(* as long as their path fits into the one read of get_data_path and no      *)
(* other signal made ptrace_cont return before the library was through.      *)
DoneMeansInserted == tracer = "done" /\ tmp_data_path <= 80 /\ ~ interrupted => inserted

(* get_lib_addr returns once the target has passed before_main, if bind gave *)
(* the tracer its port.                                                      *)
LibAddrArrives == target = "main" /\ "tracer" \in listeners[8000] ~> lib_addr # None

(* Nobody asks send_data_path any more: the library was interrupted first.   *)
NeverAsked == interrupted /\ sender = "accept" /\ backlog[9000] = << >>

(* The two processes do not wait for each other for ever, if send_data_path  *)
(* listens when the library starts and the library's port is free: the       *)
(* tracer comes to its end, unless a signal stopped the library before it    *)
(* had asked for the path, and t.join() waits for a thread that is never     *)
(* asked.  A signal that comes later does not keep the tracer from its end.  *)
HandshakeEnds ==
  target = "lib_listen" /\ "tracer" \in listeners[9000] /\ listeners[18000] = {}
    ~> tracer \in {"done", "exited"} \/ NeverAsked
=============================================================================
