---------------------------- MODULE HandshakeProofs ----------------------------
(***************************************************************************)
(* Proofs about Handshake for every length of the configured path, every   *)
(* number of programs the target executes, and whichever ports were taken. *)
(***************************************************************************)
EXTENDS Handshake, SequenceTheorems, TLAPS

-----------------------------------------------------------------------------
(* The inductive invariant.                                                 *)

NetTypes ==
  /\ tmp_data_path \in Nat
  /\ listeners \in [Port -> SUBSET {"tracer", "target", "bench", "other"}]
  /\ backlog \in [Port -> Seq(Client)]
  /\ sock \in [Client -> {"closed", "connected", "written", "eof"}]

(* main up to the hijack, the library in the target, and the second thread   *)
(* up to its connect                                                         *)
BeforeHijack == {"bind", "fork", "accept", "thread", "benchmark", "profile"}
InLibrary    == {"lib_listen", "lib_connect", "lib_accept", "insert", "back", "signalled"}
Unconnected  == {"off", "listen", "accept", "connect"}

(* Where main is and where the target can be meanwhile *)
PhaseInv ==
  /\ target \in InLibrary \cup {"none", "connect", "write", "main", "dead"}
  /\ target = "none" <=> tracer \in {"bind", "fork"}
  /\ tracer \in {"bind", "fork", "accept"} => lib_addr = None
  /\ tracer \in {"bind", "fork", "accept", "thread"} => sender = "off"
  /\ tracer \notin {"fork", "accept"} => "tracer" \notin listeners[8000]
  /\ target \in InLibrary => tracer \in {"wait", "exited"}

(* As long as the tracer listens on 8000 the target is the first in line     *)
(* there, and its connection does not end without the address while it lives.*)
AddrInv ==
  /\ target # "dead" => sock["target"] # "eof"
  /\ target \in {"none", "connect"} => backlog[8000] = << >>
  /\ "tracer" \in listeners[8000] /\ target \in {"write", "main"} =>
       backlog[8000] # << >> /\ Head(backlog[8000]) = "target"
  /\ CleanHeap => LibAddrIsTarget

(* Only the library connects to 9000, when it listens on 18000, and only the *)
(* second thread connects there: until it has, the library waits for it, or  *)
(* has left its socket open where a signal stopped it.                       *)
AskInv ==
  /\ sender \in Unconnected => backlog[18000] = << >>
  /\ "tracer" \notin listeners[18000]
  /\ target = "lib_connect" => listeners[18000] # {}
  /\ (backlog[9000] # << >> \/ sender = "connect") /\ sender \in Unconnected /\ Alive =>
       (target \in {"lib_accept", "signalled"} \/ interrupted) /\ listeners[18000] # {}

Fits    == tmp_data_path <= 80
Unasked == backlog[9000] = << >> /\ sender \notin {"connect", "write", "done"}

(* Main waits for the second thread without the library only if a signal has *)
(* interrupted that, or if nobody has asked the second thread and nobody     *)
(* will.                                                                     *)
DoneInv ==
  /\ tracer \in BeforeHijack => Unasked
  /\ target = "insert" /\ Fits => data_path = tmp_data_path
  /\ target = "back" /\ Fits => inserted
  /\ tracer = "join" /\ Fits => inserted \/ interrupted \/ (Unasked /\ target \in {"main", "dead"})
  /\ DoneMeansInserted

WireInv == NetTypes /\ PhaseInv /\ AddrInv /\ AskInv /\ DoneInv

-----------------------------------------------------------------------------
(* The socket calls.                                                        *)

Process == {"tracer", "target", "bench", "other"}

(* After bind and listen somebody listens on the port. *)
LEMMA ListenSays ==
  ASSUME NetTypes, NEW q \in Process, NEW p \in Port, Listen(q, p)
  PROVE  /\ listeners' \in [Port -> SUBSET Process]
         /\ listeners'[p] # {} /\ listeners'[p] \subseteq listeners[p] \cup {q}
         /\ \A r \in Port : r # p => listeners'[r] = listeners[r]
BY DEF NetTypes, Listen, Process

LEMMA AppendAt ==
  ASSUME NEW b \in [Port -> Seq(Client)], NEW p \in Port, NEW c \in Client
  PROVE  [b EXCEPT ![p] = Append(b[p], c)] \in [Port -> Seq(Client)]
<1>1. PICK s : s = Append(b[p], c)
  OBVIOUS
<1>2. s \in Seq(Client)
  BY <1>1, AppendProperties
<1> QED BY <1>1, <1>2

(* The backlog of a port grows at its end, if somebody listens. *)
LEMMA ConnectSays ==
  ASSUME NetTypes, NEW c \in Client, NEW p \in Port, Connect(c, p)
  PROVE  /\ backlog' \in [Port -> Seq(Client)]
         /\ sock' \in [Client -> {"closed", "connected", "written", "eof"}]
         /\ \A r \in Port : r # p => backlog'[r] = backlog[r]
         /\ \A d \in Client : d # c => sock'[d] = sock[d]
         /\ sock'[c] \in {"connected", sock[c]}
         /\ listeners[p] = {} => backlog'[p] = backlog[p]
         /\ listeners[p] # {} => backlog'[p] # << >>
                                 /\ Head(backlog'[p]) = IF backlog[p] = << >> THEN c ELSE Head(backlog[p])
<1>1. CASE listeners[p] = {}
  BY <1>1 DEF NetTypes, Connect
<1>2. CASE listeners[p] # {}
  <2>1. PICK b : b = Append(backlog[p], c)
    OBVIOUS
  <2>2. b \in Seq(Client) /\ b # << >> /\ Head(b) = IF backlog[p] = << >> THEN c ELSE Head(backlog[p])
    BY <2>1, AppendProperties, HeadTailAppend DEF NetTypes
  <2>3. backlog' = [backlog EXCEPT ![p] = b] /\ sock' = [sock EXCEPT ![c] = "connected"]
    BY <1>2, <2>1 DEF Connect
  <2> QED BY <1>2, <2>2, <2>3 DEF NetTypes
<1> QED BY <1>1, <1>2

(* A backlog is kept, or reset when nobody listens any more. *)
LEMMA CloseSays ==
  ASSUME NetTypes, NEW q \in Process, NEW P \in SUBSET Port, Close(q, P)
  PROVE  /\ listeners' \in [Port -> SUBSET Process]
         /\ backlog' \in [Port -> Seq(Client)]
         /\ \A p \in Port :
              /\ listeners'[p] \subseteq listeners[p]
              /\ \A r \in listeners[p] : r # q \/ p \notin P => r \in listeners'[p]
              /\ backlog'[p] \in {backlog[p], << >>}
              /\ listeners'[p] # {} => backlog'[p] = backlog[p]
<1>1. << >> \in Seq(Client)
  OBVIOUS
<1> QED BY <1>1 DEF NetTypes, Close, Process

(* An accept takes the first of the backlog. *)
LEMMA AcceptSays ==
  ASSUME NetTypes, NEW q \in Process, NEW p \in Port, AcceptAndClose(q, p), backlog[p] # << >>
  PROVE  /\ listeners' \in [Port -> SUBSET Process]
         /\ backlog' \in [Port -> Seq(Client)]
         /\ \A r \in Port : r # p => listeners'[r] = listeners[r] /\ backlog'[r] = backlog[r]
         /\ listeners'[p] = listeners[p] \ {q}
<1>1. << >> \in Seq(Client) /\ Tail(backlog[p]) \in Seq(Client)
  BY DEF NetTypes
<1> QED BY <1>1 DEF NetTypes, AcceptAndClose, Process

(* The end of the target leaves no connection of it half open. *)
LEMMA DiesSays ==
  ASSUME NetTypes, Dies
  PROVE  /\ target' = "dead"
         /\ listeners' \in [Port -> SUBSET Process]
         /\ backlog' \in [Port -> Seq(Client)]
         /\ sock' \in [Client -> {"closed", "connected", "written", "eof"}]
         /\ \A p \in Port :
              /\ listeners'[p] \subseteq listeners[p]
              /\ "tracer" \in listeners[p] => "tracer" \in listeners'[p]
              /\ backlog'[p] \in {backlog[p], << >>}
<1>1. Port \in SUBSET Port /\ "target" \in Process
  BY DEF Process
<1>2. sock' \in [Client -> {"closed", "connected", "written", "eof"}]
  BY DEF NetTypes, Dies
<1> QED BY <1>1, <1>2, CloseSays DEF Dies

LEMMA TracerExitsSays ==
  ASSUME NetTypes, TracerExits
  PROVE  /\ tracer' = "exited" /\ sender' = "exited"
         /\ listeners' \in [Port -> SUBSET Process]
         /\ backlog' \in [Port -> Seq(Client)]
         /\ sock' \in [Client -> {"closed", "connected", "written", "eof"}]
         /\ \A c \in Client : c # "sender" => sock'[c] = sock[c]
         /\ \A p \in Port :
              /\ "tracer" \notin listeners'[p] /\ listeners'[p] \subseteq listeners[p]
              /\ \A r \in listeners[p] : r # "tracer" => r \in listeners'[p]
              /\ backlog'[p] \in {backlog[p], << >>}
<1>1. Port \in SUBSET Port /\ "tracer" \in Process
  BY DEF Process
<1>2. /\ sock' \in [Client -> {"closed", "connected", "written", "eof"}]
      /\ \A c \in Client : c # "sender" => sock'[c] = sock[c]
  BY DEF NetTypes, TracerExits, Client
<1>3. \A p \in Port : "tracer" \notin listeners'[p]
  BY DEF NetTypes, TracerExits, Close
<1> QED BY <1>1, <1>2, <1>3, CloseSays DEF TracerExits

-----------------------------------------------------------------------------
(* The steps.                                                               *)

(* The tracer listens on 8000. *)
LEMMA CreateTcpSocketStep ==
  ASSUME WireInv, CreateTcpSocket, UNCHANGED tmp_data_path
  PROVE  WireInv'
<1> USE DEF WireInv, netVars, CreateTcpSocket
<1>0. /\ listeners' \in [Port -> SUBSET Process]
      /\ listeners'[8000] # {} /\ listeners'[8000] \subseteq listeners[8000] \cup {"tracer"}
      /\ \A r \in Port : r # 8000 => listeners'[r] = listeners[r]
  BY ListenSays DEF Port, Process
<1>1. NetTypes'
  BY <1>0 DEF NetTypes, Process
<1>2. PhaseInv'
  BY <1>0 DEF NetTypes, PhaseInv, InLibrary, Port
<1>3. AddrInv'
  BY <1>0 DEF NetTypes, PhaseInv, AddrInv, InLibrary, LibAddrIsTarget, Alive, Port, Client
<1>4. AskInv'
  BY <1>0 DEF NetTypes, PhaseInv, AskInv, DoneInv, BeforeHijack, Unasked, Alive, InLibrary, Unconnected, Port
<1>5. DoneInv'
  BY <1>0 DEF NetTypes, PhaseInv, DoneInv, AskInv, Unasked, Fits, BeforeHijack, InLibrary, Unconnected, Alive, DoneMeansInserted, Port
<1> QED BY <1>1, <1>2, <1>3, <1>4, <1>5

(* The target is started, with a socket of the tracer. *)
LEMMA ForkStep ==
  ASSUME WireInv, CreateTargetServerProcess, UNCHANGED tmp_data_path
  PROVE  WireInv'
<1> USE DEF WireInv, netVars, CreateTargetServerProcess, Inherit
<1>1. NetTypes'
  BY DEF NetTypes, Process
<1>2. PhaseInv'
  BY DEF NetTypes, PhaseInv, InLibrary, Port
<1>3. AddrInv'
  BY DEF NetTypes, PhaseInv, AddrInv, InLibrary, LibAddrIsTarget, Alive, Port, Client
<1>4. AskInv'
  BY DEF NetTypes, PhaseInv, AskInv, DoneInv, BeforeHijack, Unasked, Alive, InLibrary, Unconnected, Port
<1>5. DoneInv'
  BY DEF NetTypes, PhaseInv, DoneInv, AskInv, Unasked, Fits, BeforeHijack, InLibrary, Unconnected, Alive, DoneMeansInserted, Port
<1> QED BY <1>1, <1>2, <1>3, <1>4, <1>5

(* The tracer reads the address, from the first in line. *)
LEMMA GetLibAddrStep ==
  ASSUME WireInv, GetLibAddr, UNCHANGED tmp_data_path
  PROVE  WireInv'
<1> USE DEF WireInv, netVars, GetLibAddr, GetLibAddrWhen, Readable
<1>0. /\ listeners' \in [Port -> SUBSET Process]
      /\ backlog' \in [Port -> Seq(Client)]
      /\ \A r \in Port : r # 8000 => listeners'[r] = listeners[r] /\ backlog'[r] = backlog[r]
      /\ listeners'[8000] = listeners[8000] \ {"tracer"}
  BY AcceptSays DEF Port, Process
<1>1. NetTypes'
  BY <1>0 DEF NetTypes, Process
<1>2. PhaseInv'
  BY <1>0 DEF NetTypes, PhaseInv, InLibrary, Port
<1>3. AddrInv'
  <2>1. \A p \in Port : backlog[p] \in Seq(Client)
    BY DEF NetTypes
  <2>2. Alive => Head(backlog[8000]) = "target" /\ sock["target"] = "written"
    BY <2>1 DEF NetTypes, PhaseInv, AddrInv, InLibrary, Alive, Port, Client
  <2>3. CleanHeap /\ Alive => lib_addr' = "target"
    BY <2>2
  <2>4. CleanHeap => LibAddrIsTarget'
    BY <2>3 DEF LibAddrIsTarget, Alive
  <2> QED BY <1>0, <2>4 DEF NetTypes, PhaseInv, AddrInv, Port
<1>4. AskInv'
  BY <1>0 DEF NetTypes, PhaseInv, AskInv, DoneInv, BeforeHijack, Unasked, Alive, InLibrary, Unconnected, Port
<1>5. DoneInv'
  BY <1>0 DEF NetTypes, PhaseInv, DoneInv, AskInv, Unasked, Fits, BeforeHijack, InLibrary, Unconnected, Alive, DoneMeansInserted, Port
<1> QED BY <1>1, <1>2, <1>3, <1>4, <1>5

(* The second thread is started. *)
LEMMA StartSenderStep ==
  ASSUME WireInv, StartSender, UNCHANGED tmp_data_path
  PROVE  WireInv'
<1> USE DEF WireInv, netVars, StartSender
<1>1. NetTypes'
  BY DEF NetTypes, Process
<1>2. PhaseInv'
  BY DEF NetTypes, PhaseInv, InLibrary, Port
<1>3. AddrInv'
  BY DEF NetTypes, PhaseInv, AddrInv, InLibrary, LibAddrIsTarget, Alive, Port, Client
<1>4. AskInv'
  BY DEF NetTypes, PhaseInv, AskInv, DoneInv, BeforeHijack, Unasked, Alive, InLibrary, Unconnected, Port
<1>5. DoneInv'
  BY DEF NetTypes, PhaseInv, DoneInv, AskInv, Unasked, Fits, BeforeHijack, InLibrary, Unconnected, Alive, DoneMeansInserted, Port
<1> QED BY <1>1, <1>2, <1>3, <1>4, <1>5

(* The benchmark is started, or the tracer ends. *)
LEMMA RunBenchmarkStep ==
  ASSUME WireInv, RunBenchmark, UNCHANGED tmp_data_path
  PROVE  WireInv'
<1> USE DEF WireInv, netVars, RunBenchmark, Inherit
<1>0. TracerExits =>
      /\ tracer' = "exited" /\ sender' = "exited"
      /\ listeners' \in [Port -> SUBSET Process]
      /\ backlog' \in [Port -> Seq(Client)]
      /\ sock' \in [Client -> {"closed", "connected", "written", "eof"}]
      /\ \A c \in Client : c # "sender" => sock'[c] = sock[c]
      /\ \A p \in Port :
           /\ "tracer" \notin listeners'[p] /\ listeners'[p] \subseteq listeners[p]
           /\ \A r \in listeners[p] : r # "tracer" => r \in listeners'[p]
           /\ backlog'[p] \in {backlog[p], << >>}
  BY TracerExitsSays
<1>1. NetTypes'
  BY <1>0 DEF NetTypes, Process
<1>2. PhaseInv'
  BY <1>0 DEF NetTypes, PhaseInv, InLibrary, Port
<1>3. AddrInv'
  BY <1>0 DEF NetTypes, PhaseInv, AddrInv, InLibrary, LibAddrIsTarget, Alive, Port, Client
<1>4. AskInv'
  BY <1>0 DEF NetTypes, PhaseInv, AskInv, DoneInv, BeforeHijack, Unasked, Alive, InLibrary, Unconnected, Port
<1>5. DoneInv'
  BY <1>0 DEF NetTypes, PhaseInv, DoneInv, AskInv, Unasked, Fits, BeforeHijack, InLibrary, Unconnected, Alive, DoneMeansInserted, Port
<1> QED BY <1>1, <1>2, <1>3, <1>4, <1>5

(* A thread is sent into the library, or none, or the target is dead. *)
LEMMA HijackStep ==
  ASSUME WireInv, Hijack, UNCHANGED tmp_data_path
  PROVE  WireInv'
<1> USE DEF WireInv, netVars, Hijack
<1>0. TracerExits =>
      /\ tracer' = "exited" /\ sender' = "exited"
      /\ listeners' \in [Port -> SUBSET Process]
      /\ backlog' \in [Port -> Seq(Client)]
      /\ sock' \in [Client -> {"closed", "connected", "written", "eof"}]
      /\ \A c \in Client : c # "sender" => sock'[c] = sock[c]
      /\ \A p \in Port :
           /\ "tracer" \notin listeners'[p] /\ listeners'[p] \subseteq listeners[p]
           /\ \A r \in listeners[p] : r # "tracer" => r \in listeners'[p]
           /\ backlog'[p] \in {backlog[p], << >>}
  BY TracerExitsSays
<1>1. NetTypes'
  BY <1>0 DEF NetTypes, Process
<1>2. PhaseInv'
  BY <1>0 DEF NetTypes, PhaseInv, InLibrary, Port
<1>3. AddrInv'
  BY <1>0 DEF NetTypes, PhaseInv, AddrInv, InLibrary, LibAddrIsTarget, Alive, Port, Client
<1>4. AskInv'
  BY <1>0 DEF NetTypes, PhaseInv, AskInv, DoneInv, BeforeHijack, Unasked, Alive, InLibrary, Unconnected, Port
<1>5. DoneInv'
  BY <1>0 DEF NetTypes, PhaseInv, DoneInv, AskInv, Unasked, Fits, BeforeHijack, InLibrary, Unconnected, Alive, DoneMeansInserted, Port
<1> QED BY <1>1, <1>2, <1>3, <1>4, <1>5

(* The library is done or was interrupted, or the target is dead. *)
LEMMA LibraryReturnedStep ==
  ASSUME WireInv, LibraryReturned, UNCHANGED tmp_data_path
  PROVE  WireInv'
<1> USE DEF WireInv, netVars, LibraryReturned
<1>0. TracerExits =>
      /\ tracer' = "exited" /\ sender' = "exited"
      /\ listeners' \in [Port -> SUBSET Process]
      /\ backlog' \in [Port -> Seq(Client)]
      /\ sock' \in [Client -> {"closed", "connected", "written", "eof"}]
      /\ \A c \in Client : c # "sender" => sock'[c] = sock[c]
      /\ \A p \in Port :
           /\ "tracer" \notin listeners'[p] /\ listeners'[p] \subseteq listeners[p]
           /\ \A r \in listeners[p] : r # "tracer" => r \in listeners'[p]
           /\ backlog'[p] \in {backlog[p], << >>}
  BY TracerExitsSays
<1>1. NetTypes'
  BY <1>0 DEF NetTypes, Process
<1>2. PhaseInv'
  BY <1>0 DEF NetTypes, PhaseInv, InLibrary, Port
<1>3. AddrInv'
  BY <1>0 DEF NetTypes, PhaseInv, AddrInv, InLibrary, LibAddrIsTarget, Alive, Port, Client
<1>4. AskInv'
  BY <1>0 DEF NetTypes, PhaseInv, AskInv, DoneInv, BeforeHijack, Unasked, Alive, InLibrary, Unconnected, Port
<1>5. DoneInv'
  BY <1>0 DEF NetTypes, PhaseInv, DoneInv, AskInv, Unasked, Fits, BeforeHijack, InLibrary, Unconnected, Alive, DoneMeansInserted, Port
<1> QED BY <1>1, <1>2, <1>3, <1>4, <1>5

(* The second thread has been asked, so the library has run. *)
LEMMA JoinStep ==
  ASSUME WireInv, Join, UNCHANGED tmp_data_path
  PROVE  WireInv'
<1> USE DEF WireInv, netVars, Join
<1>1. NetTypes'
  BY DEF NetTypes, Process
<1>2. PhaseInv'
  BY DEF NetTypes, PhaseInv, InLibrary, Port
<1>3. AddrInv'
  BY DEF NetTypes, PhaseInv, AddrInv, InLibrary, LibAddrIsTarget, Alive, Port, Client
<1>4. AskInv'
  BY DEF NetTypes, PhaseInv, AskInv, DoneInv, BeforeHijack, Unasked, Alive, InLibrary, Unconnected, Port
<1>5. DoneInv'
  BY DEF NetTypes, PhaseInv, DoneInv, AskInv, Unasked, Fits, BeforeHijack, InLibrary, Unconnected, Alive, DoneMeansInserted, Port
<1> QED BY <1>1, <1>2, <1>3, <1>4, <1>5

(* The second thread listens on 9000. *)
LEMMA SenderListenStep ==
  ASSUME WireInv, SenderListen, UNCHANGED tmp_data_path
  PROVE  WireInv'
<1> USE DEF WireInv, netVars, SenderListen
<1>0. /\ listeners' \in [Port -> SUBSET Process]
      /\ listeners'[9000] # {} /\ listeners'[9000] \subseteq listeners[9000] \cup {"tracer"}
      /\ \A r \in Port : r # 9000 => listeners'[r] = listeners[r]
  BY ListenSays DEF Port, Process
<1>1. NetTypes'
  BY <1>0 DEF NetTypes, Process
<1>2. PhaseInv'
  BY <1>0 DEF NetTypes, PhaseInv, InLibrary, Port
<1>3. AddrInv'
  BY <1>0 DEF NetTypes, PhaseInv, AddrInv, InLibrary, LibAddrIsTarget, Alive, Port, Client
<1>4. AskInv'
  BY <1>0 DEF NetTypes, PhaseInv, AskInv, DoneInv, BeforeHijack, Unasked, Alive, InLibrary, Unconnected, Port
<1>5. DoneInv'
  BY <1>0 DEF NetTypes, PhaseInv, DoneInv, AskInv, Unasked, Fits, BeforeHijack, InLibrary, Unconnected, Alive, DoneMeansInserted, Port
<1> QED BY <1>1, <1>2, <1>3, <1>4, <1>5

(* The second thread has been asked by the library. *)
LEMMA SenderAcceptStep ==
  ASSUME WireInv, SenderAccept, UNCHANGED tmp_data_path
  PROVE  WireInv'
<1> USE DEF WireInv, netVars, SenderAccept
<1>0. backlog[9000] \in Seq(Client) /\ Tail(backlog[9000]) \in Seq(Client)
  BY DEF NetTypes, Port
<1>1. NetTypes'
  BY <1>0 DEF NetTypes, Port
<1>2. PhaseInv'
  BY <1>0 DEF NetTypes, PhaseInv, InLibrary, Port
<1>3. AddrInv'
  BY <1>0 DEF NetTypes, PhaseInv, AddrInv, InLibrary, LibAddrIsTarget, Alive, Port, Client
<1>4. AskInv'
  BY <1>0 DEF NetTypes, PhaseInv, AskInv, DoneInv, BeforeHijack, Unasked, Alive, InLibrary, Unconnected, Port
<1>5. DoneInv'
  BY <1>0 DEF NetTypes, PhaseInv, DoneInv, AskInv, Unasked, Fits, BeforeHijack, InLibrary, Unconnected, Alive, DoneMeansInserted, Port
<1> QED BY <1>1, <1>2, <1>3, <1>4, <1>5

(* The second thread connects to the library. *)
LEMMA SenderConnectStep ==
  ASSUME WireInv, SenderConnect, UNCHANGED tmp_data_path
  PROVE  WireInv'
<1> USE DEF WireInv, netVars, SenderConnect
<1>0. /\ backlog' \in [Port -> Seq(Client)]
      /\ sock' \in [Client -> {"closed", "connected", "written", "eof"}]
      /\ \A r \in Port : r # 18000 => backlog'[r] = backlog[r]
      /\ \A d \in Client : d # "sender" => sock'[d] = sock[d]
      /\ sock'["sender"] \in {"connected", sock["sender"]}
      /\ listeners[18000] = {} => backlog'[18000] = backlog[18000]
      /\ listeners[18000] # {} => backlog'[18000] # << >>
           /\ Head(backlog'[18000]) = IF backlog[18000] = << >> THEN "sender" ELSE Head(backlog[18000])
  BY ConnectSays DEF Port, Client
<1>1. NetTypes'
  BY <1>0 DEF NetTypes, Process
<1>2. PhaseInv'
  BY <1>0 DEF NetTypes, PhaseInv, InLibrary, Port
<1>3. AddrInv'
  BY <1>0 DEF NetTypes, PhaseInv, AddrInv, InLibrary, LibAddrIsTarget, Alive, Port, Client
<1>4. AskInv'
  BY <1>0 DEF NetTypes, PhaseInv, AskInv, DoneInv, BeforeHijack, Unasked, Alive, InLibrary, Unconnected, Port
<1>5. DoneInv'
  BY <1>0 DEF NetTypes, PhaseInv, DoneInv, AskInv, Unasked, Fits, BeforeHijack, InLibrary, Unconnected, Alive, DoneMeansInserted, Port
<1> QED BY <1>1, <1>2, <1>3, <1>4, <1>5

(* The second thread sends the path, or SIGPIPE ends the tracer. *)
LEMMA SenderWriteStep ==
  ASSUME WireInv, SenderWrite, UNCHANGED tmp_data_path
  PROVE  WireInv'
<1> USE DEF WireInv
<1>1. /\ sock["sender"] # "connected" => TracerExits
      /\ sock["sender"] = "connected" =>
           /\ sock' = [sock EXCEPT !["sender"] = "written"]
           /\ sender' = "done" /\ tracer' = tracer
           /\ listeners' \in [Port -> SUBSET Process]
           /\ backlog' \in [Port -> Seq(Client)]
           /\ \A p \in Port :
                /\ listeners'[p] \subseteq listeners[p]
                /\ \A r \in listeners[p] : r # "tracer" \/ p # 9000 => r \in listeners'[p]
                /\ backlog'[p] \in {backlog[p], << >>}
                /\ listeners'[p] # {} => backlog'[p] = backlog[p]
  BY CloseSays DEF SenderWrite, Process, Port
<1>2. sender = "write"
      /\ UNCHANGED << target, lib_addr, data_path, ldPreload, preloaded, inserted, interrupted >>
  BY DEF SenderWrite
<1>3. CASE sock["sender"] # "connected"
  <2>1. /\ tracer' = "exited" /\ sender' = "exited"
        /\ listeners' \in [Port -> SUBSET Process]
        /\ backlog' \in [Port -> Seq(Client)]
        /\ sock' \in [Client -> {"closed", "connected", "written", "eof"}]
        /\ \A c \in Client : c # "sender" => sock'[c] = sock[c]
        /\ \A p \in Port :
             /\ "tracer" \notin listeners'[p] /\ listeners'[p] \subseteq listeners[p]
             /\ \A r \in listeners[p] : r # "tracer" => r \in listeners'[p]
             /\ backlog'[p] \in {backlog[p], << >>}
    BY <1>1, <1>3, TracerExitsSays
  <2>2. NetTypes'
    BY <1>2, <2>1 DEF NetTypes, Process
  <2>3. PhaseInv'
    BY <1>2, <2>1 DEF NetTypes, PhaseInv, InLibrary, Port
  <2>4. AddrInv'
    BY <1>2, <2>1 DEF NetTypes, PhaseInv, AddrInv, InLibrary, LibAddrIsTarget, Alive, Port, Client
  <2>5. AskInv'
    BY <1>2, <2>1, SMTT(30) DEF NetTypes, PhaseInv, AskInv, DoneInv, BeforeHijack, Unasked, Alive, InLibrary, Unconnected, Port
  <2>6. DoneInv'
    BY <1>2, <2>1 DEF NetTypes, PhaseInv, DoneInv, AskInv, Unasked, Fits, BeforeHijack, InLibrary, Unconnected, Alive, DoneMeansInserted, Port
  <2> QED BY <2>2, <2>3, <2>4, <2>5, <2>6
<1>4. CASE sock["sender"] = "connected"
  <2>2. NetTypes'
    <3>1. sock' \in [Client -> {"closed", "connected", "written", "eof"}]
      BY <1>1, <1>4 DEF NetTypes
    <3>2. /\ listeners' \in [Port -> SUBSET {"tracer", "target", "bench", "other"}]
          /\ backlog' \in [Port -> Seq(Client)]
      BY <1>1, <1>4 DEF Process
    <3> QED BY <3>1, <3>2 DEF NetTypes
  <2>3. PhaseInv'
    BY <1>1, <1>2, <1>4 DEF NetTypes, PhaseInv, InLibrary, Port
  <2>4. AddrInv'
    BY <1>1, <1>2, <1>4 DEF NetTypes, PhaseInv, AddrInv, InLibrary, LibAddrIsTarget, Alive, Port, Client
  <2>5. AskInv'
    BY <1>1, <1>2, <1>4 DEF NetTypes, PhaseInv, AskInv, DoneInv, BeforeHijack, Unasked, Alive, InLibrary, Unconnected, Port
  <2>6. DoneInv'
    BY <1>1, <1>2, <1>4 DEF NetTypes, PhaseInv, DoneInv, AskInv, Unasked, Fits, BeforeHijack, InLibrary, Unconnected, Alive, DoneMeansInserted, Port
  <2> QED BY <2>2, <2>3, <2>4, <2>5, <2>6
<1> QED BY <1>3, <1>4

(* The target is the first to connect to 8000. *)
LEMMA BeforeMainConnectStep ==
  ASSUME WireInv, BeforeMainConnect, UNCHANGED tmp_data_path
  PROVE  WireInv'
<1> USE DEF WireInv, netVars, BeforeMainConnect
<1>0. /\ backlog' \in [Port -> Seq(Client)]
      /\ sock' \in [Client -> {"closed", "connected", "written", "eof"}]
      /\ \A r \in Port : r # 8000 => backlog'[r] = backlog[r]
      /\ \A d \in Client : d # "target" => sock'[d] = sock[d]
      /\ sock'["target"] \in {"connected", sock["target"]}
      /\ listeners[8000] = {} => backlog'[8000] = backlog[8000]
      /\ listeners[8000] # {} => backlog'[8000] # << >>
           /\ Head(backlog'[8000]) = IF backlog[8000] = << >> THEN "target" ELSE Head(backlog[8000])
  BY ConnectSays DEF Port, Client
<1>1. NetTypes'
  BY <1>0 DEF NetTypes, Process
<1>2. PhaseInv'
  BY <1>0 DEF NetTypes, PhaseInv, InLibrary, Port
<1>3. AddrInv'
  BY <1>0 DEF NetTypes, PhaseInv, AddrInv, InLibrary, LibAddrIsTarget, Alive, Port, Client
<1>4. AskInv'
  BY <1>0 DEF NetTypes, PhaseInv, AskInv, DoneInv, BeforeHijack, Unasked, Alive, InLibrary, Unconnected, Port
<1>5. DoneInv'
  BY <1>0 DEF NetTypes, PhaseInv, DoneInv, AskInv, Unasked, Fits, BeforeHijack, InLibrary, Unconnected, Alive, DoneMeansInserted, Port
<1> QED BY <1>1, <1>2, <1>3, <1>4, <1>5

(* before_main has sent the address, or dies. *)
LEMMA BeforeMainWriteStep ==
  ASSUME WireInv, BeforeMainWrite, UNCHANGED tmp_data_path
  PROVE  WireInv'
<1> USE DEF WireInv, netVars, BeforeMainWrite, BeforeMainLeaves
<1>0. Dies =>
      /\ target' = "dead"
      /\ listeners' \in [Port -> SUBSET Process]
      /\ backlog' \in [Port -> Seq(Client)]
      /\ sock' \in [Client -> {"closed", "connected", "written", "eof"}]
      /\ \A p \in Port :
           /\ listeners'[p] \subseteq listeners[p]
           /\ "tracer" \in listeners[p] => "tracer" \in listeners'[p]
           /\ backlog'[p] \in {backlog[p], << >>}
  BY DiesSays
<1>1. NetTypes'
  BY <1>0 DEF NetTypes, Process
<1>2. PhaseInv'
  BY <1>0 DEF NetTypes, PhaseInv, InLibrary, Port
<1>3. AddrInv'
  BY <1>0 DEF NetTypes, PhaseInv, AddrInv, InLibrary, LibAddrIsTarget, Alive, Port, Client
<1>4. AskInv'
  BY <1>0 DEF NetTypes, PhaseInv, AskInv, DoneInv, BeforeHijack, Unasked, Alive, InLibrary, Unconnected, Port
<1>5. DoneInv'
  BY <1>0 DEF NetTypes, PhaseInv, DoneInv, AskInv, Unasked, Fits, BeforeHijack, InLibrary, Unconnected, Alive, DoneMeansInserted, Port
<1> QED BY <1>1, <1>2, <1>3, <1>4, <1>5

(* A program the target executes gets in line behind it. *)
LEMMA ExecChildStep ==
  ASSUME WireInv, ExecChild, UNCHANGED tmp_data_path
  PROVE  WireInv'
<1> USE DEF WireInv, netVars, ExecChild
<1>1. NetTypes'
  <2>1. backlog \in [Port -> Seq(Client)] /\ 8000 \in Port /\ "child" \in Client
    BY DEF NetTypes, Port, Client
  <2>2. backlog' \in [Port -> Seq(Client)]
    <3>1. PICK p \in Port, c \in Client :
            backlog' = backlog \/ backlog' = [backlog EXCEPT ![p] = Append(backlog[p], c)]
      BY <2>1
    <3>2. [backlog EXCEPT ![p] = Append(backlog[p], c)] \in [Port -> Seq(Client)]
      BY <2>1, AppendAt
    <3>3. backlog \in [Port -> Seq(Client)]
      BY <2>1
    <3> QED BY ONLY <3>1, <3>2, <3>3, Zenon
  <2>3. sock' \in [Client -> {"closed", "connected", "written", "eof"}]
    BY <2>1 DEF NetTypes
  <2> QED BY <2>2, <2>3 DEF NetTypes
<1>2. PhaseInv'
  BY DEF NetTypes, PhaseInv, InLibrary, Port
<1>3. AddrInv'
  BY SMTT(30) DEF NetTypes, PhaseInv, AddrInv, InLibrary, LibAddrIsTarget, Alive, Port, Client
<1>4. AskInv'
  BY DEF NetTypes, PhaseInv, AskInv, DoneInv, BeforeHijack, Unasked, Alive, InLibrary, Unconnected, Port
<1>5. DoneInv'
  BY DEF NetTypes, PhaseInv, DoneInv, AskInv, Unasked, Fits, BeforeHijack, InLibrary, Unconnected, Alive, DoneMeansInserted, Port
<1> QED BY <1>1, <1>2, <1>3, <1>4, <1>5

(* The target dies. *)
LEMMA TargetDiesStep ==
  ASSUME WireInv, TargetDies, UNCHANGED tmp_data_path
  PROVE  WireInv'
<1> USE DEF WireInv, netVars, TargetDies
<1>0. Dies =>
      /\ target' = "dead"
      /\ listeners' \in [Port -> SUBSET Process]
      /\ backlog' \in [Port -> Seq(Client)]
      /\ sock' \in [Client -> {"closed", "connected", "written", "eof"}]
      /\ \A p \in Port :
           /\ listeners'[p] \subseteq listeners[p]
           /\ "tracer" \in listeners[p] => "tracer" \in listeners'[p]
           /\ backlog'[p] \in {backlog[p], << >>}
  BY DiesSays
<1>1. NetTypes'
  BY <1>0 DEF NetTypes, Process
<1>2. PhaseInv'
  BY <1>0 DEF NetTypes, PhaseInv, InLibrary, Alive, Port
<1>3. AddrInv'
  BY <1>0 DEF NetTypes, PhaseInv, AddrInv, InLibrary, LibAddrIsTarget, Alive, Port, Client
<1>4. AskInv'
  BY <1>0 DEF NetTypes, PhaseInv, AskInv, DoneInv, BeforeHijack, Unasked, Alive, InLibrary, Unconnected, Port
<1>5. DoneInv'
  BY <1>0 DEF NetTypes, PhaseInv, DoneInv, AskInv, Unasked, Fits, BeforeHijack, InLibrary, Unconnected, Alive, DoneMeansInserted, Port
<1> QED BY <1>1, <1>2, <1>3, <1>4, <1>5

(* The library listens on 18000. *)
LEMMA LibListenStep ==
  ASSUME WireInv, LibListen, UNCHANGED tmp_data_path
  PROVE  WireInv'
<1> USE DEF WireInv, netVars, LibListen
<1>0. /\ listeners' \in [Port -> SUBSET Process]
      /\ listeners'[18000] # {} /\ listeners'[18000] \subseteq listeners[18000] \cup {"target"}
      /\ \A r \in Port : r # 18000 => listeners'[r] = listeners[r]
  BY ListenSays DEF Port, Process
<1>1. NetTypes'
  BY <1>0 DEF NetTypes, Process
<1>2. PhaseInv'
  BY <1>0 DEF NetTypes, PhaseInv, InLibrary, Port
<1>3. AddrInv'
  BY <1>0 DEF NetTypes, PhaseInv, AddrInv, InLibrary, LibAddrIsTarget, Alive, Port, Client
<1>4. AskInv'
  BY <1>0 DEF NetTypes, PhaseInv, AskInv, DoneInv, BeforeHijack, Unasked, Alive, InLibrary, Unconnected, Port
<1>5. DoneInv'
  BY <1>0 DEF NetTypes, PhaseInv, DoneInv, AskInv, Unasked, Fits, BeforeHijack, InLibrary, Unconnected, Alive, DoneMeansInserted, Port
<1> QED BY <1>1, <1>2, <1>3, <1>4, <1>5

(* The library asks for the path. *)
LEMMA LibConnectStep ==
  ASSUME WireInv, LibConnect, UNCHANGED tmp_data_path
  PROVE  WireInv'
<1> USE DEF WireInv, netVars, LibConnect
<1>0. /\ backlog' \in [Port -> Seq(Client)]
      /\ sock' \in [Client -> {"closed", "connected", "written", "eof"}]
      /\ \A r \in Port : r # 9000 => backlog'[r] = backlog[r]
      /\ \A d \in Client : d # "lib" => sock'[d] = sock[d]
      /\ sock'["lib"] \in {"connected", sock["lib"]}
      /\ listeners[9000] = {} => backlog'[9000] = backlog[9000]
      /\ listeners[9000] # {} => backlog'[9000] # << >>
           /\ Head(backlog'[9000]) = IF backlog[9000] = << >> THEN "lib" ELSE Head(backlog[9000])
  BY ConnectSays DEF Port, Client
<1>1. NetTypes'
  BY <1>0 DEF NetTypes, Process
<1>2. PhaseInv'
  BY <1>0 DEF NetTypes, PhaseInv, InLibrary, Port
<1>3. AddrInv'
  BY <1>0 DEF NetTypes, PhaseInv, AddrInv, InLibrary, LibAddrIsTarget, Alive, Port, Client
<1>4. AskInv'
  BY <1>0 DEF NetTypes, PhaseInv, AskInv, DoneInv, BeforeHijack, Unasked, Alive, InLibrary, Unconnected, Port
<1>5. DoneInv'
  BY <1>0 DEF NetTypes, PhaseInv, DoneInv, AskInv, Unasked, Fits, BeforeHijack, InLibrary, Unconnected, Alive, DoneMeansInserted, Port
<1> QED BY <1>1, <1>2, <1>3, <1>4, <1>5

(* The library reads the path. *)
LEMMA GetDataPathStep ==
  ASSUME WireInv, GetDataPath, UNCHANGED tmp_data_path
  PROVE  WireInv'
<1> USE DEF WireInv
<1>1. /\ sock[Head(backlog[18000])] = "eof" => Dies
      /\ sock[Head(backlog[18000])] # "eof" =>
           /\ data_path' = IF tmp_data_path <= ReadMax THEN tmp_data_path ELSE ReadMax
           /\ target' = "insert" /\ sock' = sock
           /\ listeners' \in [Port -> SUBSET Process]
           /\ backlog' \in [Port -> Seq(Client)]
           /\ \A r \in Port : r # 18000 => listeners'[r] = listeners[r] /\ backlog'[r] = backlog[r]
           /\ listeners'[18000] = listeners[18000] \ {"target"}
  BY AcceptSays DEF GetDataPath, Readable, Port, Process
<1>2. target = "lib_accept" /\ backlog[18000] # << >>
      /\ UNCHANGED << tracer, sender, lib_addr, ldPreload, preloaded, inserted, interrupted >>
  BY DEF GetDataPath, Readable
<1>3. CASE sock[Head(backlog[18000])] = "eof"
  <2>1. /\ target' = "dead"
        /\ listeners' \in [Port -> SUBSET Process]
        /\ backlog' \in [Port -> Seq(Client)]
        /\ sock' \in [Client -> {"closed", "connected", "written", "eof"}]
        /\ \A p \in Port :
             /\ listeners'[p] \subseteq listeners[p]
             /\ "tracer" \in listeners[p] => "tracer" \in listeners'[p]
             /\ backlog'[p] \in {backlog[p], << >>}
    BY <1>1, <1>3, DiesSays
  <2>2. NetTypes'
    BY <1>2, <2>1 DEF NetTypes, Process, ReadMax
  <2>3. PhaseInv'
    BY <1>2, <2>1 DEF NetTypes, PhaseInv, InLibrary, Port, ReadMax
  <2>4. AddrInv'
    BY <1>2, <2>1 DEF NetTypes, PhaseInv, AddrInv, InLibrary, LibAddrIsTarget, Alive, Port, Client, ReadMax
  <2>5. AskInv'
    BY <1>2, <2>1 DEF NetTypes, PhaseInv, AskInv, DoneInv, BeforeHijack, Unasked, Alive, InLibrary, Unconnected, Port, ReadMax
  <2>6. DoneInv'
    BY <1>2, <2>1 DEF NetTypes, PhaseInv, DoneInv, AskInv, Unasked, Fits, BeforeHijack, InLibrary, Unconnected, Alive, DoneMeansInserted, Port, ReadMax
  <2> QED BY <2>2, <2>3, <2>4, <2>5, <2>6
<1>4. CASE sock[Head(backlog[18000])] # "eof"
  <2>2. NetTypes'
    BY <1>1, <1>2, <1>4 DEF NetTypes, Process, ReadMax
  <2>3. PhaseInv'
    BY <1>1, <1>2, <1>4 DEF NetTypes, PhaseInv, InLibrary, Port, ReadMax
  <2>4. AddrInv'
    BY <1>1, <1>2, <1>4 DEF NetTypes, PhaseInv, AddrInv, InLibrary, LibAddrIsTarget, Alive, Port, Client, ReadMax
  <2>5. AskInv'
    BY <1>1, <1>2, <1>4 DEF NetTypes, PhaseInv, AskInv, DoneInv, BeforeHijack, Unasked, Alive, InLibrary, Unconnected, Port, ReadMax
  <2>6. DoneInv'
    BY <1>1, <1>2, <1>4 DEF NetTypes, PhaseInv, DoneInv, AskInv, Unasked, Fits, BeforeHijack, InLibrary, Unconnected, Alive, DoneMeansInserted, Port, ReadMax
  <2> QED BY <2>2, <2>3, <2>4, <2>5, <2>6
<1> QED BY <1>3, <1>4

(* The library inserts the code, or does not find its files. *)
LEMMA InsertMachineCodeStep ==
  ASSUME WireInv, InsertMachineCode, UNCHANGED tmp_data_path
  PROVE  WireInv'
<1> USE DEF WireInv, netVars, InsertMachineCode
<1>1. NetTypes'
  BY DEF NetTypes, Process
<1>2. PhaseInv'
  BY DEF NetTypes, PhaseInv, InLibrary, Port
<1>3. AddrInv'
  BY DEF NetTypes, PhaseInv, AddrInv, InLibrary, LibAddrIsTarget, Alive, Port, Client
<1>4. AskInv'
  BY DEF NetTypes, PhaseInv, AskInv, DoneInv, BeforeHijack, Unasked, Alive, InLibrary, Unconnected, Port
<1>5. DoneInv'
  BY DEF NetTypes, PhaseInv, DoneInv, AskInv, Unasked, Fits, BeforeHijack, InLibrary, Unconnected, Alive, DoneMeansInserted, Port
<1> QED BY <1>1, <1>2, <1>3, <1>4, <1>5

(* A signal stops the thread in the library. *)
LEMMA SignalStopsStep ==
  ASSUME WireInv, SignalStops, UNCHANGED tmp_data_path
  PROVE  WireInv'
<1> USE DEF WireInv, netVars, SignalStops
<1>1. NetTypes'
  BY DEF NetTypes, Process
<1>2. PhaseInv'
  BY DEF NetTypes, PhaseInv, InLibrary, Port
<1>3. AddrInv'
  BY DEF NetTypes, PhaseInv, AddrInv, InLibrary, LibAddrIsTarget, Alive, Port, Client
<1>4. AskInv'
  BY DEF NetTypes, PhaseInv, AskInv, DoneInv, BeforeHijack, Unasked, Alive, InLibrary, Unconnected, Port
<1>5. DoneInv'
  BY DEF NetTypes, PhaseInv, DoneInv, AskInv, Unasked, Fits, BeforeHijack, InLibrary, Unconnected, Alive, DoneMeansInserted, Port
<1> QED BY <1>1, <1>2, <1>3, <1>4, <1>5

-----------------------------------------------------------------------------
LEMMA WireInit == Init => WireInv
<1> SUFFICES ASSUME Init PROVE WireInv
  OBVIOUS
<1>1. NetTypes
  BY HandshakeAssumption DEF Init, NetTypes
<1>2. /\ \A p \in Port : backlog[p] = << >>
      /\ listeners[8000] \in {{}, {"other"}} /\ listeners[18000] \in {{}, {"other"}}
      /\ sock["target"] = "closed"
  BY DEF Init, Port, Client
<1>3. PhaseInv /\ AddrInv
  BY <1>2 DEF Init, PhaseInv, AddrInv, InLibrary, LibAddrIsTarget, Alive, Port
<1>4. AskInv /\ DoneInv
  BY <1>2 DEF Init, AskInv, DoneInv, Unasked, Alive, DoneMeansInserted, Port
<1> QED BY <1>1, <1>3, <1>4 DEF WireInv

LEMMA WireStutter == WireInv /\ UNCHANGED vars => WireInv'
BY DEF WireInv, vars, netVars, NetTypes, PhaseInv, AddrInv, LibAddrIsTarget, Alive, AskInv,
       DoneInv, Unasked, Fits, DoneMeansInserted

(* However the tracer's two threads, the target and its library interleave,  *)
(* and wherever one of them ends, the invariant of the handshake holds.      *)
THEOREM WireInvariant == Spec => []WireInv
<1>1. WireInv /\ [Next]_vars => WireInv'
  <2> SUFFICES ASSUME WireInv, [Next]_vars PROVE WireInv'
    OBVIOUS
  <2>1. CASE Next
    <3>1. UNCHANGED tmp_data_path
      BY <2>1 DEF Next
    <3>2. CASE MainNext
      BY <3>1, <3>2, CreateTcpSocketStep, ForkStep, GetLibAddrStep, StartSenderStep,
         RunBenchmarkStep, HijackStep, LibraryReturnedStep, JoinStep DEF MainNext
    <3>3. CASE SenderNext
      BY <3>1, <3>3, SenderListenStep, SenderAcceptStep, SenderConnectStep, SenderWriteStep
         DEF SenderNext
    <3>4. CASE LibNext
      BY <3>1, <3>4, BeforeMainConnectStep, BeforeMainWriteStep, LibListenStep, LibConnectStep,
         GetDataPathStep, InsertMachineCodeStep DEF LibNext
    <3>5. CASE ExecChild \/ TargetDies \/ SignalStops
      BY <3>1, <3>5, ExecChildStep, TargetDiesStep, SignalStopsStep
    <3> QED BY <2>1, <3>2, <3>3, <3>4, <3>5 DEF Next
  <2>2. CASE UNCHANGED vars
    BY <2>2, WireStutter
  <2> QED BY <2>1, <2>2
<1> QED BY <1>1, WireInit, PTL DEF Spec

(* get_lib_addr returns the address of the target's own library, not that of *)
(* a program the target has executed, whenever the bytes behind the digits   *)
(* in its buffer are zero.                                                   *)
THEOREM WireAddress ==
  ASSUME CleanHeap
  PROVE  Spec => []LibAddrIsTarget
<1>1. WireInv => LibAddrIsTarget
  BY DEF WireInv, AddrInv
<1> QED BY <1>1, WireInvariant, PTL

(* send_data_path connects to 18000 only when the library listens there, as  *)
(* long as the target lives.                                                 *)
THEOREM WireConnects == Spec => []SenderFindsLibrary
<1>1. WireInv => SenderFindsLibrary
  BY DEF WireInv, AskInv, SenderFindsLibrary, Unconnected
<1> QED BY <1>1, WireInvariant, PTL

(* "code replacement done" means that the library has found its files, when  *)
(* their path fits into one read and ptrace_cont has not returned for a      *)
(* signal the library did not raise: neither a port that was taken, nor a    *)
(* thread that could not be hijacked, nor a target that died leads there.    *)
THEOREM WireDone == Spec => []DoneMeansInserted
<1>1. WireInv => DoneMeansInserted
  BY DEF WireInv, DoneInv
<1> QED BY <1>1, WireInvariant, PTL
=============================================================================
