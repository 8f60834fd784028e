---------------------------- MODULE RcaServerProofs ----------------------------
(***************************************************************************)
(* Proofs about RcaServer for any number of compilers started by any of    *)
(* the hooked calls, any number of parallel jobs, profiles and perf2bolts. *)
(***************************************************************************)
EXTENDS RcaServer, SequenceTheorems, FiniteSetTheorems, TLAPS

-----------------------------------------------------------------------------
(* The inductive invariant.                                                 *)

(* The BOLT thread is started once, and whoever knows of the optimized       *)
(* compiler knows it from a flag that is set when it has finished.           *)
AnnounceInv ==
  /\ up /\ (count <= NUM_PERF_DATA \/ (count = NUM_PERF_DATA + 1 /\ spc # "accept")) => bolt = "none"
  /\ flag => bolt = "done"
  /\ bolt_binary_generated => flag
  /\ \A c \in Client : conn[c] = "bolted" => flag
  /\ RunsFinishedBinary

(* A complete profile stays complete, and is in the rest of the directory,   *)
(* in a perf2bolt that runs, or converted.                                   *)
BatchInv ==
  /\ bolt \in {"convert", "merge"} => found \subseteq complete
  /\ bolt = "convert" => found \subseteq todo \cup running \cup fdata
  /\ children \subseteq Client
  /\ NothingFinishedLost

(* A process is profiled once: perf does not pass the library on. *)
PerfInv ==
  \A c \in Client :
    /\ image[c] = "none" => conn[c] = "none"
    /\ image[c] \in {"none", "hook"} => perfs[c] = 0 /\ profile[c] = None
    /\ image[c] = "perf" => ~ preload[c]
    /\ perfs[c] <= 1

(* Whoever is connected has been started. *)
ServedInv ==
  /\ spc # "accept" => cur \in Client /\ image[cur] # "none"
  /\ \A k \in 1 .. Len(backlog) : image[backlog[k]] # "none"

ToldToProfile(c) == AsksServer(c) /\ hook[c] = "execve" /\ conn[c] = "perf"
NoneRecent       == \A d \in Client : hook[d] = "execve" => profile[d] \notin recent

(* A name is taken from a client that has been profiled.  After the server   *)
(* has slept nobody it told to profile has still to start, and none of them  *)
(* was started at the present time; so it is until the one it tells next has *)
(* started.                                                                  *)
NamesInv ==
  /\ \A f \in recent \cup files : profile[f] # None
  /\ spc = "sleep" /\ slept => NoneRecent /\ \A c \in Client : ~ ToldToProfile(c)
  /\ \A c, d \in Client : ToldToProfile(c) /\ ToldToProfile(d) => c = d
  /\ \A c \in Client : ToldToProfile(c) => NoneRecent
  /\ ProfilesDistinct

(* The clients that have connected, or will not. *)
Past == {c \in Client : image[c] # "none" /\ ~ (AsksServer(c) /\ conn[c] = "none")}

(* A client connects once. *)
CountInv == count + Len(backlog) <= Cardinality(Past)

RcaInv == TypeOK /\ AnnounceInv /\ BatchInv /\ PerfInv /\ ServedInv /\ NamesInv /\ CountInv

-----------------------------------------------------------------------------
LEMMA ClientsFinite ==
  ASSUME NEW P, P \subseteq Client
  PROVE  IsFiniteSet(P)
<1>1. IsFiniteSet(Client)
  BY RcaAssumption, FS_Interval DEF Client
<1> QED BY <1>1, FS_Subset

LEMMA CardinalityGrows ==
  ASSUME NEW P, NEW Q, P \subseteq Q, Q \subseteq Client
  PROVE  /\ Cardinality(P) \in Nat /\ Cardinality(Q) \in Nat
         /\ Cardinality(P) <= Cardinality(Q) /\ Cardinality(Q) <= NumClients
<1>1. IsFiniteSet(Client) /\ Cardinality(Client) = NumClients
  BY RcaAssumption, FS_Interval DEF Client
<1>2. IsFiniteSet(Q) /\ Cardinality(Q) <= Cardinality(Client)
  BY <1>1, FS_Subset
<1>3. IsFiniteSet(P) /\ Cardinality(P) <= Cardinality(Q)
  BY <1>2, FS_Subset
<1> QED BY <1>1, <1>2, <1>3, FS_CardinalityType

(* A step that starts no profile, tells nobody to profile and makes nobody a *)
(* client of execve that has a profile, keeps the names apart.               *)
LEMMA NamesKept ==
  ASSUME TypeOK, NamesInv, profile' = profile, recent' = recent,
         \A d \in Client : ToldToProfile(d)' => ToldToProfile(d),
         \A d \in Client : hook'[d] = "execve" => hook[d] = "execve" \/ profile[d] = None,
         spc' = "sleep" /\ slept' => spc = "sleep" /\ slept
  PROVE  NamesInv'
<1>1. \A f \in recent' \cup files' : profile'[f] # None
  BY DEF NamesInv, files
<1>2. NoneRecent => NoneRecent'
  BY DEF TypeOK, NoneRecent, None, Client
<1>3. ProfilesDistinct'
  BY DEF NamesInv, ProfilesDistinct
<1> QED BY <1>1, <1>2, <1>3 DEF NamesInv

LEMMA ConnectAppends ==
  ASSUME NEW s \in Seq(Client), NEW c \in Client
  PROVE  \A r : r = Append(s, c) =>
           /\ r \in Seq(Client)
           /\ Len(s) \in Nat /\ Len(r) = Len(s) + 1
           /\ \A k \in 1 .. Len(s) : r[k] = s[k]
           /\ r[Len(s) + 1] = c
BY AppendProperties

(* exec of clang in a process with the library loaded *)
LEMMA InvokeStep ==
  ASSUME RcaInv, NEW c \in Client, NEW h \in {"execve", "execvp", "new", "dummy"}, NEW e \in BOOLEAN, Invoke(c, h, e)
  PROVE  RcaInv'
<1> USE RcaAssumption DEF RcaInv, Invoke, Becomes, serverVars, boltVars
<1>1. TypeOK'
  BY DEF TypeOK
<1>2. AnnounceInv'
  BY DEF TypeOK, AnnounceInv, RunsFinishedBinary
<1>3. BatchInv'
  BY DEF TypeOK, BatchInv, NothingFinishedLost, complete
<1>4. PerfInv'
  BY DEF TypeOK, PerfInv
<1>5. ServedInv'
  BY DEF TypeOK, ServedInv
<1>6. NamesInv'
  <2>1. \A d \in Client : ToldToProfile(d)' => ToldToProfile(d)
    BY DEF TypeOK, PerfInv, ToldToProfile, AsksServer
  <2> QED BY <2>1, NamesKept DEF TypeOK, PerfInv
<1>7. CountInv'
  <2>1. Past \subseteq Past' /\ Past' \subseteq Client
    BY DEF TypeOK, PerfInv, ServedInv, Past, AsksServer
  <2>2. Cardinality(Past) <= Cardinality(Past') /\ Cardinality(Past) \in Nat /\ Cardinality(Past') \in Nat
    BY <2>1, CardinalityGrows
  <2> QED BY <2>2 DEF TypeOK, CountInv
<1> QED BY <1>1, <1>2, <1>3, <1>4, <1>5, <1>6, <1>7

(* A client connects, for the only time. *)
LEMMA ConnectStep ==
  ASSUME RcaInv, NEW c \in Client, Connect(c)
  PROVE  RcaInv'
<1> USE RcaAssumption DEF RcaInv, Connect, AsksServer, Unchanged, Becomes, boltVars
<1>1. TypeOK'
  <2>1. CASE up
    <3>0. backlog' = Append(backlog, c) /\ backlog \in Seq(Client)
      BY <2>1 DEF TypeOK
    <3>1. backlog' \in Seq(Client)
      BY <3>0, ConnectAppends, Zenon
    <3> QED BY <2>1, <3>1, ZenonT(40) DEF TypeOK
  <2>2. CASE ~ up
    BY <2>2, ZenonT(40) DEF TypeOK
  <2> QED BY <2>1, <2>2
<1>2. AnnounceInv'
  BY DEF TypeOK, AnnounceInv, RunsFinishedBinary
<1>3. BatchInv'
  BY DEF TypeOK, BatchInv, NothingFinishedLost, complete
<1>4. PerfInv'
  BY DEF TypeOK, PerfInv
<1>5. ServedInv'
  <2>1. CASE up
    <3>0. backlog' = Append(backlog, c) /\ backlog \in Seq(Client)
      BY <2>1 DEF TypeOK
    <3>1. /\ Len(backlog) \in Nat /\ Len(backlog') = Len(backlog) + 1
          /\ \A k \in 1 .. Len(backlog) : backlog'[k] = backlog[k]
          /\ backlog'[Len(backlog) + 1] = c
      BY ONLY <3>0, c \in Client, ConnectAppends
    <3>2. \A k \in 1 .. Len(backlog') : image'[backlog'[k]] # "none"
      BY <2>1, <3>1 DEF ServedInv
    <3> QED BY <2>1, <3>2 DEF ServedInv
  <2>2. CASE ~ up
    <3>1. backlog' = backlog /\ spc' = spc /\ cur' = cur
      BY <2>2
    <3>2. \A d \in Client : image[d] # "none" => image'[d] # "none"
      BY <2>2 DEF TypeOK
    <3>3. backlog \in Seq(Client)
      BY DEF TypeOK
    <3>4. \A k \in 1 .. Len(backlog) : backlog[k] \in Client
      BY <3>3
    <3> QED BY ONLY <3>1, <3>2, <3>4, ServedInv DEF ServedInv
  <2> QED BY <2>1, <2>2
<1>6. NamesInv'
  <2>1. \A d \in Client : ToldToProfile(d)' => ToldToProfile(d)
    BY DEF TypeOK, PerfInv, ToldToProfile, AsksServer
  <2> QED BY <2>1, NamesKept DEF TypeOK, PerfInv
<1>7. CountInv'
  <2>1. Past \cup {c} \subseteq Past' /\ Past' \subseteq Client /\ c \notin Past /\ Past \subseteq Client
    BY DEF TypeOK, Past, AsksServer
  <2>2. /\ Cardinality(Past \cup {c}) <= Cardinality(Past')
        /\ Cardinality(Past) \in Nat /\ Cardinality(Past') \in Nat
    BY <2>1, CardinalityGrows
  <2>3. Cardinality(Past \cup {c}) = Cardinality(Past) + 1
    BY <2>1, ClientsFinite, FS_AddElement
  <2>4. CASE up
    <3>0. backlog' = Append(backlog, c) /\ backlog \in Seq(Client)
      BY <2>4 DEF TypeOK
    <3>1. Len(backlog) \in Nat /\ Len(backlog') = Len(backlog) + 1
      BY <3>0, ConnectAppends, Zenon
    <3> QED BY <2>2, <2>3, <2>4, <3>1 DEF TypeOK, CountInv
  <2>5. CASE ~ up
    BY <2>2, <2>3, <2>5 DEF TypeOK, CountInv
  <2> QED BY <2>4, <2>5
<1> QED BY <1>1, <1>2, <1>3, <1>4, <1>5, <1>6, <1>7

(* A client writes, or finds that the server has ended. *)
LEMMA WriteStep ==
  ASSUME RcaInv, NEW c \in Client, Write(c)
  PROVE  RcaInv'
<1> USE RcaAssumption DEF RcaInv, Write, AsksServer, Becomes, Closes, serverVars, boltVars
<1>1. TypeOK'
  <2>0. /\ \E v \in {"none", "sent", "reset"} : conn' = [conn EXCEPT ![c] = v]
        /\ image' = image \/ image' = [image EXCEPT ![c] = "panicked"]
    OBVIOUS
  <2>1. conn' \in [Client -> {"none", "open", "sent", "perf", "bolted", "plain", "reset"}]
    <3>1. conn \in [Client -> {"none", "open", "sent", "perf", "bolted", "plain", "reset"}]
      BY DEF TypeOK
    <3> QED BY ONLY <2>0, <3>1
  <2>2. image' \in [Client -> {"none", "hook", "perf", "clang", "clang.bolt", "ended", "failed",
                               "panicked", "killed"}]
    <3>1. image \in [Client -> {"none", "hook", "perf", "clang", "clang.bolt", "ended", "failed",
                                "panicked", "killed"}]
      BY DEF TypeOK
    <3> QED BY ONLY <2>0, <3>1
  <2> QED BY <2>1, <2>2 DEF TypeOK
<1>2. AnnounceInv'
  BY DEF TypeOK, AnnounceInv, RunsFinishedBinary
<1>3. BatchInv'
  BY DEF TypeOK, BatchInv, NothingFinishedLost, complete
<1>4. PerfInv'
  BY DEF TypeOK, PerfInv
<1>5. ServedInv'
  BY DEF TypeOK, ServedInv
<1>6. NamesInv'
  <2>1. \A d \in Client : ToldToProfile(d)' => ToldToProfile(d)
    BY DEF TypeOK, PerfInv, ToldToProfile, AsksServer
  <2> QED BY <2>1, NamesKept DEF TypeOK, PerfInv
<1>7. CountInv'
  <2>1. Past \subseteq Past' /\ Past' \subseteq Client
    BY DEF TypeOK, PerfInv, ServedInv, Past, AsksServer
  <2>2. Cardinality(Past) <= Cardinality(Past') /\ Cardinality(Past) \in Nat /\ Cardinality(Past') \in Nat
    BY <2>1, CardinalityGrows
  <2> QED BY <2>2 DEF TypeOK, CountInv
<1> QED BY <1>1, <1>2, <1>3, <1>4, <1>5, <1>6, <1>7

(* A profile is started: by a client the server told to, or by one that asks nobody. *)
LEMMA BecomesPerfStep ==
  ASSUME RcaInv, NEW c \in Client, image[c] = "hook", hook[c] = "execve" => conn[c] = "perf", BecomesPerf(c)
  PROVE  RcaInv'
<1> USE RcaAssumption DEF RcaInv, BecomesPerf, WrapEnvpPanics, wrap_envp, add_perf_prefix, Becomes, Closes, serverVars, boltVars
<1>1. TypeOK'
  <2>1. preload' \in [Client -> BOOLEAN]
    BY Zenon DEF TypeOK
  <2>2. perfs' \in [Client -> 0 .. MaxPerfs]
    BY DEF TypeOK, PerfInv, MaxPerfs
  <2>3. profile' \in [Client -> Client \cup {None}] /\ recent' \subseteq Client
    <3>1. CASE WrapEnvpPanics(c)
      BY <3>1 DEF TypeOK
    <3>2. CASE ~ WrapEnvpPanics(c)
      <4>1. PICK f \in recent \cup {c} : profile' = [profile EXCEPT ![c] = f]
        BY <3>2
      <4>2. f \in Client /\ profile'[c] = f /\ recent' = recent \cup {f}
        BY <3>2, <4>1 DEF TypeOK
      <4> QED BY <4>1, <4>2 DEF TypeOK
    <3> QED BY <3>1, <3>2
  <2>4. image' \in [Client -> {"none", "hook", "perf", "clang", "clang.bolt", "ended", "failed",
                               "panicked", "killed"}]
    <3>1. image' \in {[image EXCEPT ![c] = "perf"], [image EXCEPT ![c] = "panicked"]}
      OBVIOUS
    <3> HIDE DEF BecomesPerf, wrap_envp, add_perf_prefix, Becomes, Closes
    <3> QED BY <3>1 DEF TypeOK
  <2>5. conn' \in [Client -> {"none", "open", "sent", "perf", "bolted", "plain", "reset"}]
    BY DEF TypeOK
  <2>6. UNCHANGED << hook, kills, serverVars, boltVars >>
    OBVIOUS
  <2> HIDE DEF BecomesPerf, wrap_envp, add_perf_prefix, Becomes, Closes
  <2> QED BY <2>1, <2>2, <2>3, <2>4, <2>5, <2>6 DEF TypeOK
<1>2. AnnounceInv'
  BY DEF TypeOK, AnnounceInv, RunsFinishedBinary
<1>3. BatchInv'
  <2>1. \A d \in Client : image[d] = "ended" => image'[d] = "ended" /\ profile'[d] = profile[d]
    BY DEF TypeOK
  <2>2. complete \subseteq complete'
    BY <2>1 DEF complete
  <2> QED BY <2>2 DEF TypeOK, BatchInv, NothingFinishedLost
<1>4. PerfInv'
  BY DEF TypeOK, PerfInv
<1>5. ServedInv'
  BY DEF TypeOK, ServedInv
<1>6. NamesInv'
  <2>1. CASE WrapEnvpPanics(c)
    <3>1. \A d \in Client : ToldToProfile(d)' => ToldToProfile(d)
      BY <2>1 DEF TypeOK, ToldToProfile, AsksServer
    <3> QED BY <2>1, <3>1, NamesKept DEF TypeOK
  <2>2. CASE ~ WrapEnvpPanics(c)
    <3>1. PICK f \in recent \cup {c} : profile' = [profile EXCEPT ![c] = f]
      BY <2>2
    <3>2. /\ f \in Client /\ profile[c] = None /\ f # None
          /\ profile'[c] = f /\ \A d \in Client : d # c => profile'[d] = profile[d]
          /\ recent' = recent \cup {f} /\ hook' = hook
      BY <2>2, <3>1 DEF TypeOK, PerfInv, None, Client
    <3>3. \A d \in Client : profile[d] # c
      BY <3>2 DEF NamesInv, files, None, Client
    <3>4. \A g \in recent' \cup files' : profile'[g] # None
      <4>1. recent' \cup files' \subseteq recent \cup files \cup {f}
        BY <3>2 DEF files
      <4>2. \A g \in recent \cup files : g \in Client /\ profile[g] # None
        BY DEF TypeOK, NamesInv, files
      <4> QED BY <3>1, <3>2, <4>1, <4>2
    <3>5. \A d \in Client : ToldToProfile(d)' => ToldToProfile(d) /\ d # c
      BY <2>2 DEF TypeOK, ToldToProfile, AsksServer
    <3>6. CASE hook[c] = "execve"
      <4>1. ToldToProfile(c)
        BY <3>6 DEF ToldToProfile, AsksServer
      <4>2. \A d \in Client : ~ ToldToProfile(d)'
        BY <3>5, <4>1 DEF NamesInv
      <4>3. \A d \in Client : d # c /\ hook[d] = "execve" => profile[d] # f
        BY <3>1, <3>3, <4>1 DEF NamesInv, NoneRecent
      <4>4. ProfilesDistinct'
        BY <3>2, <4>3 DEF NamesInv, ProfilesDistinct
      <4>5. ~ (spc' = "sleep" /\ slept')
        BY <4>1 DEF NamesInv
      <4> QED BY <3>4, <4>2, <4>4, <4>5 DEF NamesInv
    <3>7. CASE hook[c] # "execve"
      <4>1. ProfilesDistinct'
        BY <3>2, <3>7 DEF NamesInv, ProfilesDistinct
      <4>2. NoneRecent => NoneRecent'
        BY <3>1, <3>2, <3>3, <3>7 DEF NoneRecent
      <4> QED BY <3>4, <3>5, <4>1, <4>2 DEF NamesInv
    <3> QED BY <3>6, <3>7
  <2> QED BY <2>1, <2>2
<1>7. CountInv'
  <2>1. Past \subseteq Past' /\ Past' \subseteq Client
    BY DEF TypeOK, PerfInv, ServedInv, Past, AsksServer
  <2>2. Cardinality(Past) <= Cardinality(Past') /\ Cardinality(Past) \in Nat /\ Cardinality(Past') \in Nat
    BY <2>1, CardinalityGrows
  <2> QED BY <2>2 DEF TypeOK, CountInv
<1> QED BY <1>1, <1>2, <1>3, <1>4, <1>5, <1>6, <1>7

(* perf executes the compiler, without the library. *)
LEMMA PerfExecsStep ==
  ASSUME RcaInv, NEW c \in Client, PerfExecs(c)
  PROVE  RcaInv'
<1> USE RcaAssumption DEF RcaInv, PerfExecs, Becomes, serverVars, boltVars
<1>1. TypeOK'
  BY ZenonT(40) DEF TypeOK
<1>2. AnnounceInv'
  BY DEF TypeOK, AnnounceInv, RunsFinishedBinary
<1>3. BatchInv'
  BY DEF TypeOK, BatchInv, NothingFinishedLost, complete
<1>4. PerfInv'
  BY DEF TypeOK, PerfInv
<1>5. ServedInv'
  BY DEF TypeOK, ServedInv
<1>6. NamesInv'
  <2>1. \A d \in Client : ToldToProfile(d)' => ToldToProfile(d)
    BY DEF TypeOK, PerfInv, ToldToProfile, AsksServer
  <2> QED BY <2>1, NamesKept DEF TypeOK, PerfInv
<1>7. CountInv'
  <2>1. Past \subseteq Past' /\ Past' \subseteq Client
    BY DEF TypeOK, PerfInv, ServedInv, Past, AsksServer
  <2>2. Cardinality(Past) <= Cardinality(Past') /\ Cardinality(Past) \in Nat /\ Cardinality(Past') \in Nat
    BY <2>1, CardinalityGrows
  <2> QED BY <2>2 DEF TypeOK, CountInv
<1> QED BY <1>1, <1>2, <1>3, <1>4, <1>5, <1>6, <1>7

(* A client executes the optimized compiler. *)
LEMMA ExecBoltedStep ==
  ASSUME RcaInv, NEW c \in Client, ExecBolted(c)
  PROVE  RcaInv'
<1> USE RcaAssumption DEF RcaInv, ExecBolted, AsksServer, WrapEnvpPanics, wrap_envp, Becomes, Closes, serverVars, boltVars
<1>1. TypeOK'
  <2>1. image' \in {[image EXCEPT ![c] = i] : i \in {"panicked", "failed", "clang.bolt"}}
    OBVIOUS
  <2>2. preload' \in {preload, [preload EXCEPT ![c] = FALSE]}
    OBVIOUS
  <2>3. /\ conn' = [conn EXCEPT ![c] = "none"]
        /\ UNCHANGED << hook, perfs, profile, kills, recent, serverVars, boltVars >>
    OBVIOUS
  <2> HIDE DEF ExecBolted, Becomes, Closes, wrap_envp
  <2>4. preload' \in [Client -> BOOLEAN]
    BY <2>2, Zenon DEF TypeOK
  <2>5. image' \in [Client -> {"none", "hook", "perf", "clang", "clang.bolt", "ended", "failed",
                               "panicked", "killed"}]
    BY <2>1 DEF TypeOK
  <2>6. conn' \in [Client -> {"none", "open", "sent", "perf", "bolted", "plain", "reset"}]
    BY <2>3 DEF TypeOK
  <2> QED BY <2>3, <2>4, <2>5, <2>6 DEF TypeOK
<1>2. AnnounceInv'
  BY DEF TypeOK, AnnounceInv, RunsFinishedBinary
<1>3. BatchInv'
  BY DEF TypeOK, BatchInv, NothingFinishedLost, complete
<1>4. PerfInv'
  BY DEF TypeOK, PerfInv
<1>5. ServedInv'
  BY DEF TypeOK, ServedInv
<1>6. NamesInv'
  <2>1. \A d \in Client : ToldToProfile(d)' => ToldToProfile(d)
    BY DEF TypeOK, PerfInv, ToldToProfile, AsksServer
  <2> QED BY <2>1, NamesKept DEF TypeOK, PerfInv
<1>7. CountInv'
  <2>1. Past \subseteq Past' /\ Past' \subseteq Client
    BY DEF TypeOK, PerfInv, ServedInv, Past, AsksServer
  <2>2. Cardinality(Past) <= Cardinality(Past') /\ Cardinality(Past) \in Nat /\ Cardinality(Past') \in Nat
    BY <2>1, CardinalityGrows
  <2> QED BY <2>2 DEF TypeOK, CountInv
<1> QED BY <1>1, <1>2, <1>3, <1>4, <1>5, <1>6, <1>7

(* A client executes the compiler it was called for. *)
LEMMA ExecUnchangedStep ==
  ASSUME RcaInv, NEW c \in Client, ExecUnchanged(c)
  PROVE  RcaInv'
<1> USE RcaAssumption DEF RcaInv, ExecUnchanged, ExecUnchangedAfter, Unchanged, AsksServer, Becomes, Closes, serverVars, boltVars
<1>1. TypeOK'
  BY DEF TypeOK
<1>2. AnnounceInv'
  BY DEF TypeOK, AnnounceInv, RunsFinishedBinary
<1>3. BatchInv'
  BY DEF TypeOK, BatchInv, NothingFinishedLost, complete
<1>4. PerfInv'
  BY DEF TypeOK, PerfInv
<1>5. ServedInv'
  BY DEF TypeOK, ServedInv
<1>6. NamesInv'
  <2>1. \A d \in Client : ToldToProfile(d)' => ToldToProfile(d)
    BY DEF TypeOK, PerfInv, ToldToProfile, AsksServer
  <2> QED BY <2>1, NamesKept DEF TypeOK, PerfInv
<1>7. CountInv'
  <2>1. Past \subseteq Past' /\ Past' \subseteq Client
    BY DEF TypeOK, PerfInv, ServedInv, Past, AsksServer
  <2>2. Cardinality(Past) <= Cardinality(Past') /\ Cardinality(Past) \in Nat /\ Cardinality(Past') \in Nat
    BY <2>1, CardinalityGrows
  <2> QED BY <2>2 DEF TypeOK, CountInv
<1> QED BY <1>1, <1>2, <1>3, <1>4, <1>5, <1>6, <1>7

(* A profile is complete. *)
LEMMA ProfileEndsStep ==
  ASSUME RcaInv, NEW c \in Client, ProfileEnds(c)
  PROVE  RcaInv'
<1> USE RcaAssumption DEF RcaInv, ProfileEnds, Becomes, serverVars, boltVars
<1>1. TypeOK'
  BY DEF TypeOK
<1>2. AnnounceInv'
  BY DEF TypeOK, AnnounceInv, RunsFinishedBinary
<1>3. BatchInv'
  BY DEF TypeOK, BatchInv, NothingFinishedLost, complete
<1>4. PerfInv'
  BY DEF TypeOK, PerfInv
<1>5. ServedInv'
  BY DEF TypeOK, ServedInv
<1>6. NamesInv'
  BY SMTT(30) DEF TypeOK, NamesInv, PerfInv, ToldToProfile, NoneRecent, ProfilesDistinct, files, AsksServer, None, Client
<1>7. CountInv'
  <2>1. Past \subseteq Past' /\ Past' \subseteq Client
    BY DEF TypeOK, PerfInv, ServedInv, Past, AsksServer
  <2>2. Cardinality(Past) <= Cardinality(Past') /\ Cardinality(Past) \in Nat /\ Cardinality(Past') \in Nat
    BY <2>1, CardinalityGrows
  <2> QED BY <2>2 DEF TypeOK, CountInv
<1> QED BY <1>1, <1>2, <1>3, <1>4, <1>5, <1>6, <1>7

(* A client is killed while it asks. *)
LEMMA KillStep ==
  ASSUME RcaInv, NEW c \in Client, Kill(c)
  PROVE  RcaInv'
<1> USE RcaAssumption DEF RcaInv, Kill, AsksServer, Becomes, Closes, serverVars, boltVars
<1>1. TypeOK'
  BY DEF TypeOK
<1>2. AnnounceInv'
  BY DEF TypeOK, AnnounceInv, RunsFinishedBinary
<1>3. BatchInv'
  BY DEF TypeOK, BatchInv, NothingFinishedLost, complete
<1>4. PerfInv'
  BY DEF TypeOK, PerfInv
<1>5. ServedInv'
  BY DEF TypeOK, ServedInv
<1>6. NamesInv'
  BY DEF TypeOK, NamesInv, PerfInv, ToldToProfile, NoneRecent, ProfilesDistinct, files, AsksServer, None, Client
<1>7. CountInv'
  <2>1. Past \subseteq Past' /\ Past' \subseteq Client
    BY DEF TypeOK, PerfInv, ServedInv, Past, AsksServer
  <2>2. Cardinality(Past) <= Cardinality(Past') /\ Cardinality(Past) \in Nat /\ Cardinality(Past') \in Nat
    BY <2>1, CardinalityGrows
  <2> QED BY <2>2 DEF TypeOK, CountInv
<1> QED BY <1>1, <1>2, <1>3, <1>4, <1>5, <1>6, <1>7

(* A connection is accepted. *)
LEMMA AcceptStep ==
  ASSUME RcaInv, Accept
  PROVE  RcaInv'
<1> USE RcaAssumption DEF RcaInv, Accept, clientVars, boltVars
<1>1. TypeOK'
  <2>1. /\ Head(backlog) \in Client /\ Tail(backlog) \in Seq(Client)
        /\ Len(backlog) \in Nat /\ Len(backlog) >= 1
    BY DEF TypeOK
  <2>2. Past \subseteq Client
    BY DEF Past
  <2>3. count' \in 0 .. NumClients
    BY <2>1, <2>2, CardinalityGrows DEF TypeOK, CountInv
  <2> QED BY <2>1, <2>3 DEF TypeOK
<1>2. AnnounceInv'
  BY DEF TypeOK, AnnounceInv, RunsFinishedBinary
<1>3. BatchInv'
  BY DEF TypeOK, BatchInv, NothingFinishedLost, complete
<1>4. PerfInv'
  BY DEF TypeOK, PerfInv
<1>5. ServedInv'
  BY DEF TypeOK, ServedInv
<1>6. NamesInv'
  BY DEF TypeOK, NamesInv, PerfInv, ToldToProfile, NoneRecent, ProfilesDistinct, files, AsksServer, None, Client
<1>7. CountInv'
  <2>1. Past \subseteq Past' /\ Past' \subseteq Client
    BY DEF TypeOK, PerfInv, ServedInv, Past, AsksServer
  <2>2. Cardinality(Past) <= Cardinality(Past') /\ Cardinality(Past) \in Nat /\ Cardinality(Past') \in Nat
    BY <2>1, CardinalityGrows
  <2> QED BY <2>2 DEF TypeOK, CountInv
<1> QED BY <1>1, <1>2, <1>3, <1>4, <1>5, <1>6, <1>7

(* The answer that names the optimized compiler *)
LEMMA ReplyBoltedStep ==
  ASSUME RcaInv, ReplyBolted
  PROVE  RcaInv'
<1> USE RcaAssumption DEF RcaInv, ReplyBolted, Reads, Answer, boltVars
<1>1. TypeOK'
  BY DEF TypeOK
<1>2. AnnounceInv'
  BY DEF TypeOK, AnnounceInv, RunsFinishedBinary
<1>3. BatchInv'
  BY DEF TypeOK, BatchInv, NothingFinishedLost, complete
<1>4. PerfInv'
  BY DEF TypeOK, PerfInv, ServedInv
<1>5. ServedInv'
  BY DEF TypeOK, ServedInv
<1>6. NamesInv'
  BY DEF TypeOK, NamesInv, PerfInv, ToldToProfile, NoneRecent, ProfilesDistinct, files, AsksServer, None, Client
<1>7. CountInv'
  <2>1. Past \subseteq Past' /\ Past' \subseteq Client
    BY DEF TypeOK, PerfInv, ServedInv, Past, AsksServer
  <2>2. Cardinality(Past) <= Cardinality(Past') /\ Cardinality(Past) \in Nat /\ Cardinality(Past') \in Nat
    BY <2>1, CardinalityGrows
  <2> QED BY <2>2 DEF TypeOK, CountInv
<1> QED BY <1>1, <1>2, <1>3, <1>4, <1>5, <1>6, <1>7

(* The server goes to sleep. *)
LEMMA StartSleepStep ==
  ASSUME RcaInv, StartSleep
  PROVE  RcaInv'
<1> USE RcaAssumption DEF RcaInv, StartSleep, SleepFor, Reads, client_run_perf, clientVars, boltVars
<1>1. TypeOK'
  BY DEF TypeOK
<1>2. AnnounceInv'
  BY DEF TypeOK, AnnounceInv, RunsFinishedBinary
<1>3. BatchInv'
  BY DEF TypeOK, BatchInv, NothingFinishedLost, complete
<1>4. PerfInv'
  BY DEF TypeOK, PerfInv
<1>5. ServedInv'
  BY DEF TypeOK, ServedInv
<1>6. NamesInv'
  BY DEF TypeOK, NamesInv, PerfInv, ToldToProfile, NoneRecent, ProfilesDistinct, files, AsksServer, None, Client
<1>7. CountInv'
  <2>1. Past \subseteq Past' /\ Past' \subseteq Client
    BY DEF TypeOK, PerfInv, ServedInv, Past, AsksServer
  <2>2. Cardinality(Past) <= Cardinality(Past') /\ Cardinality(Past) \in Nat /\ Cardinality(Past') \in Nat
    BY <2>1, CardinalityGrows
  <2> QED BY <2>2 DEF TypeOK, CountInv
<1> QED BY <1>1, <1>2, <1>3, <1>4, <1>5, <1>6, <1>7

(* The answer "start perf profiling": the server has slept. *)
LEMMA ReplyPerfStep ==
  ASSUME RcaInv, ReplyPerf
  PROVE  RcaInv'
<1> USE RcaAssumption DEF RcaInv, ReplyPerf, Answer, boltVars
<1>1. TypeOK'
  BY DEF TypeOK
<1>2. AnnounceInv'
  BY DEF TypeOK, AnnounceInv, RunsFinishedBinary
<1>3. BatchInv'
  BY DEF TypeOK, BatchInv, NothingFinishedLost, complete
<1>4. PerfInv'
  BY DEF TypeOK, PerfInv, ServedInv
<1>5. ServedInv'
  BY DEF TypeOK, ServedInv
<1>6. NamesInv'
  BY DEF TypeOK, NamesInv, PerfInv, ToldToProfile, NoneRecent, ProfilesDistinct, files, AsksServer, None, Client
<1>7. CountInv'
  <2>1. Past \subseteq Past' /\ Past' \subseteq Client
    BY DEF TypeOK, PerfInv, ServedInv, Past, AsksServer
  <2>2. Cardinality(Past) <= Cardinality(Past') /\ Cardinality(Past) \in Nat /\ Cardinality(Past') \in Nat
    BY <2>1, CardinalityGrows
  <2> QED BY <2>2 DEF TypeOK, CountInv
<1> QED BY <1>1, <1>2, <1>3, <1>4, <1>5, <1>6, <1>7

(* The answer "run program without perf", which starts the BOLT thread once. *)
LEMMA ReplyPlainStep ==
  ASSUME RcaInv, ReplyPlain
  PROVE  RcaInv'
<1> USE RcaAssumption DEF RcaInv, ReplyPlain, ReplyPlainAnd, Reads, Answer, boltVars
<1>1. TypeOK'
  BY DEF TypeOK
<1>2. AnnounceInv'
  BY DEF TypeOK, AnnounceInv, RunsFinishedBinary
<1>3. BatchInv'
  BY DEF TypeOK, BatchInv, NothingFinishedLost, complete
<1>4. PerfInv'
  BY DEF TypeOK, PerfInv, ServedInv
<1>5. ServedInv'
  BY DEF TypeOK, ServedInv
<1>6. NamesInv'
  BY DEF TypeOK, NamesInv, PerfInv, ToldToProfile, NoneRecent, ProfilesDistinct, files, AsksServer, None, Client
<1>7. CountInv'
  <2>1. Past \subseteq Past' /\ Past' \subseteq Client
    BY DEF TypeOK, PerfInv, ServedInv, Past, AsksServer
  <2>2. Cardinality(Past) <= Cardinality(Past') /\ Cardinality(Past) \in Nat /\ Cardinality(Past') \in Nat
    BY <2>1, CardinalityGrows
  <2> QED BY <2>2 DEF TypeOK, CountInv
<1> QED BY <1>1, <1>2, <1>3, <1>4, <1>5, <1>6, <1>7

(* Time passes, so names given before are not given again. *)
LEMMA TickStep ==
  ASSUME RcaInv, Tick
  PROVE  RcaInv'
<1> USE RcaAssumption DEF RcaInv, Tick, boltVars
<1>1. TypeOK'
  BY DEF TypeOK
<1>2. AnnounceInv'
  BY DEF TypeOK, AnnounceInv, RunsFinishedBinary
<1>3. BatchInv'
  BY DEF TypeOK, BatchInv, NothingFinishedLost, complete
<1>4. PerfInv'
  BY DEF TypeOK, PerfInv
<1>5. ServedInv'
  BY DEF TypeOK, ServedInv
<1>6. NamesInv'
  BY DEF TypeOK, NamesInv, PerfInv, ToldToProfile, NoneRecent, ProfilesDistinct, files, AsksServer, None, Client
<1>7. CountInv'
  <2>1. Past \subseteq Past' /\ Past' \subseteq Client
    BY DEF TypeOK, PerfInv, ServedInv, Past, AsksServer
  <2>2. Cardinality(Past) <= Cardinality(Past') /\ Cardinality(Past) \in Nat /\ Cardinality(Past') \in Nat
    BY <2>1, CardinalityGrows
  <2> QED BY <2>2 DEF TypeOK, CountInv
<1> QED BY <1>1, <1>2, <1>3, <1>4, <1>5, <1>6, <1>7

(* The server is stopped. *)
LEMMA StopServerStep ==
  ASSUME RcaInv, StopServer
  PROVE  RcaInv'
<1> USE RcaAssumption DEF RcaInv, StopServer
<1>1. TypeOK'
  <2>1. conn' \in [Client -> {"none", "open", "sent", "perf", "bolted", "plain", "reset"}]
    BY DEF TypeOK
  <2>2. Cardinality(children') <= NUM_PERF2BOLT_IN_PARALLEL
    BY FS_EmptySet
  <2>3. backlog' \in Seq(Client)
    OBVIOUS
  <2> QED BY <2>1, <2>2, <2>3 DEF TypeOK
<1>2. AnnounceInv'
  BY DEF TypeOK, AnnounceInv, RunsFinishedBinary
<1>3. BatchInv'
  BY DEF TypeOK, BatchInv, NothingFinishedLost, complete
<1>4. PerfInv'
  BY DEF TypeOK, PerfInv
<1>5. ServedInv'
  BY DEF TypeOK, ServedInv
<1>6. NamesInv'
  BY DEF TypeOK, NamesInv, PerfInv, ToldToProfile, NoneRecent, ProfilesDistinct, files, AsksServer, None, Client
<1>7. CountInv'
  <2>1. Past \subseteq Past' /\ Past' \subseteq Client
    BY DEF TypeOK, PerfInv, ServedInv, Past, AsksServer
  <2>2. Cardinality(Past) <= Cardinality(Past') /\ Cardinality(Past) \in Nat /\ Cardinality(Past') \in Nat
    BY <2>1, CardinalityGrows
  <2> QED BY <2>2 DEF TypeOK, CountInv
<1> QED BY <1>1, <1>2, <1>3, <1>4, <1>5, <1>6, <1>7

(* The BOLT thread opens the directory. *)
LEMMA ReadPerfDirStep ==
  ASSUME RcaInv, ReadPerfDir
  PROVE  RcaInv'
<1> USE RcaAssumption DEF RcaInv, ReadPerfDir, BoltStep, clientVars, serverVars
<1>1. TypeOK'
  <2>1. files \subseteq Client /\ complete \subseteq Client
    BY DEF TypeOK, files, complete
  <2> QED BY <2>1 DEF TypeOK
<1>2. AnnounceInv'
  BY DEF TypeOK, AnnounceInv, RunsFinishedBinary
<1>3. BatchInv'
  <2>1. complete \subseteq files /\ complete' = complete
    BY DEF TypeOK, files, complete
  <2> QED BY <2>1 DEF BatchInv, NothingFinishedLost
<1>4. PerfInv'
  BY DEF TypeOK, PerfInv
<1>5. ServedInv'
  BY DEF TypeOK, ServedInv
<1>6. NamesInv'
  BY DEF TypeOK, NamesInv, PerfInv, ToldToProfile, NoneRecent, ProfilesDistinct, files, AsksServer, None, Client
<1>7. CountInv'
  <2>1. Past \subseteq Past' /\ Past' \subseteq Client
    BY DEF TypeOK, PerfInv, ServedInv, Past, AsksServer
  <2>2. Cardinality(Past) <= Cardinality(Past') /\ Cardinality(Past) \in Nat /\ Cardinality(Past') \in Nat
    BY <2>1, CardinalityGrows
  <2> QED BY <2>2 DEF TypeOK, CountInv
<1> QED BY <1>1, <1>2, <1>3, <1>4, <1>5, <1>6, <1>7

(* A perf2bolt is started. *)
LEMMA StartPerf2boltStep ==
  ASSUME RcaInv, NEW f \in Client, StartPerf2bolt(f)
  PROVE  RcaInv'
<1> USE RcaAssumption DEF RcaInv, StartPerf2bolt, BoltStep, clientVars, serverVars
<1>1. TypeOK'
  <2>1. IsFiniteSet(children) /\ Cardinality(children) \in Nat
    BY ClientsFinite, FS_CardinalityType DEF BatchInv
  <2>2. Cardinality(children \cup {f}) \in {Cardinality(children), Cardinality(children) + 1}
    BY ONLY <2>1, FS_AddElement, Zenon
  <2>3. Cardinality(children') <= NUM_PERF2BOLT_IN_PARALLEL
    BY <2>1, <2>2
  <2> QED BY <2>3 DEF TypeOK
<1>2. AnnounceInv'
  BY DEF TypeOK, AnnounceInv, RunsFinishedBinary
<1>3. BatchInv'
  BY DEF TypeOK, BatchInv, NothingFinishedLost, complete
<1>4. PerfInv'
  BY DEF TypeOK, PerfInv
<1>5. ServedInv'
  BY DEF TypeOK, ServedInv
<1>6. NamesInv'
  BY DEF TypeOK, NamesInv, PerfInv, ToldToProfile, NoneRecent, ProfilesDistinct, files, AsksServer, None, Client
<1>7. CountInv'
  <2>1. Past \subseteq Past' /\ Past' \subseteq Client
    BY DEF TypeOK, PerfInv, ServedInv, Past, AsksServer
  <2>2. Cardinality(Past) <= Cardinality(Past') /\ Cardinality(Past) \in Nat /\ Cardinality(Past') \in Nat
    BY <2>1, CardinalityGrows
  <2> QED BY <2>2 DEF TypeOK, CountInv
<1> QED BY <1>1, <1>2, <1>3, <1>4, <1>5, <1>6, <1>7

(* A perf2bolt ends; a complete profile is converted. *)
LEMMA Perf2boltEndsStep ==
  ASSUME RcaInv, NEW f \in Client, Perf2boltEnds(f)
  PROVE  RcaInv'
<1> USE RcaAssumption DEF RcaInv, Perf2boltEnds, clientVars, serverVars
<1>1. TypeOK'
  BY DEF TypeOK
<1>2. AnnounceInv'
  BY DEF TypeOK, AnnounceInv, RunsFinishedBinary
<1>3. BatchInv'
  BY DEF TypeOK, BatchInv, NothingFinishedLost, complete
<1>4. PerfInv'
  BY DEF TypeOK, PerfInv
<1>5. ServedInv'
  BY DEF TypeOK, ServedInv
<1>6. NamesInv'
  BY DEF TypeOK, NamesInv, PerfInv, ToldToProfile, NoneRecent, ProfilesDistinct, files, AsksServer, None, Client
<1>7. CountInv'
  <2>1. Past \subseteq Past' /\ Past' \subseteq Client
    BY DEF TypeOK, PerfInv, ServedInv, Past, AsksServer
  <2>2. Cardinality(Past) <= Cardinality(Past') /\ Cardinality(Past) \in Nat /\ Cardinality(Past') \in Nat
    BY <2>1, CardinalityGrows
  <2> QED BY <2>2 DEF TypeOK, CountInv
<1> QED BY <1>1, <1>2, <1>3, <1>4, <1>5, <1>6, <1>7

(* A full batch has ended. *)
LEMMA WaitBatchStep ==
  ASSUME RcaInv, WaitBatch
  PROVE  RcaInv'
<1> USE RcaAssumption DEF RcaInv, WaitBatch, BoltStep, clientVars, serverVars
<1>1. TypeOK'
  BY FS_EmptySet DEF TypeOK
<1>2. AnnounceInv'
  BY DEF TypeOK, AnnounceInv, RunsFinishedBinary
<1>3. BatchInv'
  BY DEF TypeOK, BatchInv, NothingFinishedLost, complete
<1>4. PerfInv'
  BY DEF TypeOK, PerfInv
<1>5. ServedInv'
  BY DEF TypeOK, ServedInv
<1>6. NamesInv'
  BY DEF TypeOK, NamesInv, PerfInv, ToldToProfile, NoneRecent, ProfilesDistinct, files, AsksServer, None, Client
<1>7. CountInv'
  <2>1. Past \subseteq Past' /\ Past' \subseteq Client
    BY DEF TypeOK, PerfInv, ServedInv, Past, AsksServer
  <2>2. Cardinality(Past) <= Cardinality(Past') /\ Cardinality(Past) \in Nat /\ Cardinality(Past') \in Nat
    BY <2>1, CardinalityGrows
  <2> QED BY <2>2 DEF TypeOK, CountInv
<1> QED BY <1>1, <1>2, <1>3, <1>4, <1>5, <1>6, <1>7

(* The last batch has ended. *)
LEMMA WaitRestStep ==
  ASSUME RcaInv, WaitRest
  PROVE  RcaInv'
<1> USE RcaAssumption DEF RcaInv, WaitRest, WaitRestIf, LastBatchStarted, BoltStep, clientVars, serverVars
<1>1. TypeOK'
  BY FS_EmptySet DEF TypeOK
<1>2. AnnounceInv'
  BY DEF TypeOK, AnnounceInv, RunsFinishedBinary
<1>3. BatchInv'
  BY DEF TypeOK, BatchInv, NothingFinishedLost, complete
<1>4. PerfInv'
  BY DEF TypeOK, PerfInv
<1>5. ServedInv'
  BY DEF TypeOK, ServedInv
<1>6. NamesInv'
  BY DEF TypeOK, NamesInv, PerfInv, ToldToProfile, NoneRecent, ProfilesDistinct, files, AsksServer, None, Client
<1>7. CountInv'
  <2>1. Past \subseteq Past' /\ Past' \subseteq Client
    BY DEF TypeOK, PerfInv, ServedInv, Past, AsksServer
  <2>2. Cardinality(Past) <= Cardinality(Past') /\ Cardinality(Past) \in Nat /\ Cardinality(Past') \in Nat
    BY <2>1, CardinalityGrows
  <2> QED BY <2>2 DEF TypeOK, CountInv
<1> QED BY <1>1, <1>2, <1>3, <1>4, <1>5, <1>6, <1>7

(* merge-fdata, and the start of llvm-bolt *)
LEMMA MergeAndBoltStep ==
  ASSUME RcaInv, MergeAndBolt
  PROVE  RcaInv'
<1> USE RcaAssumption DEF RcaInv, MergeAndBolt, BoltStep, clientVars, serverVars
<1>1. TypeOK'
  BY DEF TypeOK
<1>2. AnnounceInv'
  BY DEF TypeOK, AnnounceInv, RunsFinishedBinary
<1>3. BatchInv'
  BY DEF TypeOK, BatchInv, NothingFinishedLost, complete
<1>4. PerfInv'
  BY DEF TypeOK, PerfInv
<1>5. ServedInv'
  BY DEF TypeOK, ServedInv
<1>6. NamesInv'
  BY DEF TypeOK, NamesInv, PerfInv, ToldToProfile, NoneRecent, ProfilesDistinct, files, AsksServer, None, Client
<1>7. CountInv'
  <2>1. Past \subseteq Past' /\ Past' \subseteq Client
    BY DEF TypeOK, PerfInv, ServedInv, Past, AsksServer
  <2>2. Cardinality(Past) <= Cardinality(Past') /\ Cardinality(Past) \in Nat /\ Cardinality(Past') \in Nat
    BY <2>1, CardinalityGrows
  <2> QED BY <2>2 DEF TypeOK, CountInv
<1> QED BY <1>1, <1>2, <1>3, <1>4, <1>5, <1>6, <1>7

(* llvm-bolt ends. *)
LEMMA LlvmBoltEndsStep ==
  ASSUME RcaInv, LlvmBoltEnds
  PROVE  RcaInv'
<1> USE RcaAssumption DEF RcaInv, LlvmBoltEnds, BoltStep, clientVars, serverVars
<1>1. TypeOK'
  BY DEF TypeOK
<1>2. AnnounceInv'
  BY DEF TypeOK, AnnounceInv, RunsFinishedBinary
<1>3. BatchInv'
  BY DEF TypeOK, BatchInv, NothingFinishedLost, complete
<1>4. PerfInv'
  BY DEF TypeOK, PerfInv
<1>5. ServedInv'
  BY DEF TypeOK, ServedInv
<1>6. NamesInv'
  BY DEF TypeOK, NamesInv, PerfInv, ToldToProfile, NoneRecent, ProfilesDistinct, files, AsksServer, None, Client
<1>7. CountInv'
  <2>1. Past \subseteq Past' /\ Past' \subseteq Client
    BY DEF TypeOK, PerfInv, ServedInv, Past, AsksServer
  <2>2. Cardinality(Past) <= Cardinality(Past') /\ Cardinality(Past) \in Nat /\ Cardinality(Past') \in Nat
    BY <2>1, CardinalityGrows
  <2> QED BY <2>2 DEF TypeOK, CountInv
<1> QED BY <1>1, <1>2, <1>3, <1>4, <1>5, <1>6, <1>7

(* The optimized compiler is announced. *)
LEMMA SetFlagStep ==
  ASSUME RcaInv, SetFlag
  PROVE  RcaInv'
<1> USE RcaAssumption DEF RcaInv, SetFlag, SetFlagAt, BoltStep, clientVars, serverVars
<1>1. TypeOK'
  BY DEF TypeOK
<1>2. AnnounceInv'
  BY DEF TypeOK, AnnounceInv, RunsFinishedBinary
<1>3. BatchInv'
  BY DEF TypeOK, BatchInv, NothingFinishedLost, complete
<1>4. PerfInv'
  BY DEF TypeOK, PerfInv
<1>5. ServedInv'
  BY DEF TypeOK, ServedInv
<1>6. NamesInv'
  BY DEF TypeOK, NamesInv, PerfInv, ToldToProfile, NoneRecent, ProfilesDistinct, files, AsksServer, None, Client
<1>7. CountInv'
  <2>1. Past \subseteq Past' /\ Past' \subseteq Client
    BY DEF TypeOK, PerfInv, ServedInv, Past, AsksServer
  <2>2. Cardinality(Past) <= Cardinality(Past') /\ Cardinality(Past) \in Nat /\ Cardinality(Past') \in Nat
    BY <2>1, CardinalityGrows
  <2> QED BY <2>2 DEF TypeOK, CountInv
<1> QED BY <1>1, <1>2, <1>3, <1>4, <1>5, <1>6, <1>7

(* The BOLT thread panics. *)
LEMMA BoltPanicsStep ==
  ASSUME RcaInv, BoltPanics
  PROVE  RcaInv'
<1> USE RcaAssumption DEF RcaInv, BoltPanics, clientVars, serverVars
<1>1. TypeOK'
  BY DEF TypeOK
<1>2. AnnounceInv'
  BY DEF TypeOK, AnnounceInv, RunsFinishedBinary
<1>3. BatchInv'
  BY DEF TypeOK, BatchInv, NothingFinishedLost, complete
<1>4. PerfInv'
  BY DEF TypeOK, PerfInv
<1>5. ServedInv'
  BY DEF TypeOK, ServedInv
<1>6. NamesInv'
  BY DEF TypeOK, NamesInv, PerfInv, ToldToProfile, NoneRecent, ProfilesDistinct, files, AsksServer, None, Client
<1>7. CountInv'
  <2>1. Past \subseteq Past' /\ Past' \subseteq Client
    BY DEF TypeOK, PerfInv, ServedInv, Past, AsksServer
  <2>2. Cardinality(Past) <= Cardinality(Past') /\ Cardinality(Past) \in Nat /\ Cardinality(Past') \in Nat
    BY <2>1, CardinalityGrows
  <2> QED BY <2>2 DEF TypeOK, CountInv
<1> QED BY <1>1, <1>2, <1>3, <1>4, <1>5, <1>6, <1>7

-----------------------------------------------------------------------------
LEMMA RcaInit == Init => RcaInv
<1> SUFFICES ASSUME Init PROVE RcaInv
  OBVIOUS
<1> USE RcaAssumption DEF Init
<1>1. TypeOK
  <2>1. preload \in [Client -> BOOLEAN]
    BY Zenon
  <2>2. backlog \in Seq(Client) /\ Len(backlog) = 0
    OBVIOUS
  <2>3. running \subseteq children /\ Cardinality(children) <= NUM_PERF2BOLT_IN_PARALLEL
    BY FS_EmptySet
  <2>4. /\ image \in [Client -> {"none", "hook", "perf", "clang", "clang.bolt", "ended", "failed",
                                 "panicked", "killed"}]
        /\ hook \in [Client -> {"execve", "execvp", "new", "dummy"}]
        /\ perfs \in [Client -> 0 .. MaxPerfs]
        /\ profile \in [Client -> Client \cup {None}]
        /\ conn \in [Client -> {"none", "open", "sent", "perf", "bolted", "plain", "reset"}]
    BY DEF MaxPerfs
  <2>5. /\ kills \in 0 .. MaxKills /\ recent \subseteq Client
        /\ spc \in {"accept", "read", "sleep"}
        /\ cur \in Client \cup {None} /\ count \in 0 .. NumClients
        /\ bolt \in {"none", "sleep", "convert", "merge", "bolt", "set", "done", "dead"}
        /\ found \cup fdata \cup todo \subseteq Client
    OBVIOUS
  <2>6. /\ up \in BOOLEAN /\ bolt_binary_generated \in BOOLEAN /\ slept \in BOOLEAN
        /\ flag \in BOOLEAN /\ clangBolt \in BOOLEAN
    OBVIOUS
  <2> QED BY ONLY <2>1, <2>2, <2>3, <2>4, <2>5, <2>6, Zenon DEF TypeOK
<1>2. AnnounceInv /\ BatchInv
  BY DEF AnnounceInv, RunsFinishedBinary, BatchInv, NothingFinishedLost
<1>3. PerfInv /\ ServedInv
  BY DEF PerfInv, ServedInv
<1>4. NamesInv
  BY DEF NamesInv, ToldToProfile, AsksServer, ProfilesDistinct, files
<1>5. CountInv
  <2>1. Past \subseteq Client
    BY DEF Past
  <2> QED BY <2>1, CardinalityGrows DEF CountInv
<1> QED BY <1>1, <1>2, <1>3, <1>4, <1>5 DEF RcaInv

LEMMA RcaStutter == RcaInv /\ UNCHANGED vars => RcaInv'
<1> SUFFICES ASSUME RcaInv, UNCHANGED vars PROVE RcaInv'
  OBVIOUS
<1> USE DEF RcaInv, vars, clientVars, serverVars, boltVars
<1>1. TypeOK' /\ AnnounceInv' /\ BatchInv'
  BY DEF TypeOK, AnnounceInv, RunsFinishedBinary, BatchInv, NothingFinishedLost, complete
<1>2. PerfInv' /\ ServedInv'
  BY DEF PerfInv, ServedInv
<1>3. NamesInv'
  BY NamesKept DEF ToldToProfile, AsksServer
<1>4. CountInv'
  BY DEF CountInv, Past, AsksServer
<1> QED BY <1>1, <1>2, <1>3, <1>4

(* Every client's steps keep the invariant. *)
LEMMA RcaClient ==
  ASSUME RcaInv, NEW c \in Client, ClientStep(c)
  PROVE  RcaInv'
<1>1. CASE Connect(c)
  BY <1>1, ConnectStep
<1>2. CASE ExecPerf(c)
  BY <1>2, BecomesPerfStep DEF ExecPerf, AsksServer
<1>3. CASE my_execvp(c)
  BY <1>3, BecomesPerfStep DEF my_execvp
<1>4. CASE my_execve_new(c)
  BY <1>4, BecomesPerfStep DEF my_execve_new
<1>5. CASE PerfExecs(c)
  BY <1>5, PerfExecsStep
<1>6. CASE ExecBolted(c)
  BY <1>6, ExecBoltedStep
<1>7. CASE ExecUnchanged(c)
  BY <1>7, ExecUnchangedStep
<1>8. CASE Write(c)
  BY <1>8, WriteStep
<1> QED BY <1>1, <1>2, <1>3, <1>4, <1>5, <1>6, <1>7, <1>8 DEF ClientStep

(* So do the steps of the BOLT thread. *)
LEMMA RcaBolt ==
  ASSUME RcaInv, BoltThreadStep
  PROVE  RcaInv'
<1>1. CASE ReadPerfDir
  BY <1>1, ReadPerfDirStep
<1>2. CASE WaitBatch \/ WaitRest
  BY <1>2, WaitBatchStep, WaitRestStep
<1>3. CASE MergeAndBolt \/ LlvmBoltEnds \/ SetFlag
  BY <1>3, MergeAndBoltStep, LlvmBoltEndsStep, SetFlagStep
<1>4. ASSUME NEW f \in Client, StartPerf2bolt(f) \/ Perf2boltEnds(f) PROVE RcaInv'
  BY <1>4, StartPerf2boltStep, Perf2boltEndsStep
<1> QED BY <1>1, <1>2, <1>3, <1>4 DEF BoltThreadStep

(* The invariant of the build accelerator holds in every state. *)
THEOREM RcaInvariant == Spec => []RcaInv
<1>1. RcaInv /\ [Next]_vars => RcaInv'
  <2> SUFFICES ASSUME RcaInv, [Next]_vars PROVE RcaInv'
    OBVIOUS
  <2>1. ASSUME NEW c \in Client, NEW h \in Calls(c), Invoke(c, h[1], h[2]) PROVE RcaInv'
    <3>1. h[1] \in {"execve", "execvp", "new", "dummy"} /\ h[2] \in BOOLEAN
      BY RcaAssumption DEF Client
    <3> QED BY <2>1, <3>1, InvokeStep
  <2>2. ASSUME NEW c \in Client, ClientStep(c) PROVE RcaInv'
    BY <2>2, RcaClient
  <2>3. ASSUME NEW c \in Client, ProfileEnds(c) \/ Kill(c) PROVE RcaInv'
    BY <2>3, ProfileEndsStep, KillStep
  <2>4. CASE ServerStep
    BY <2>4, AcceptStep, ReplyBoltedStep, StartSleepStep, ReplyPerfStep, ReplyPlainStep DEF ServerStep
  <2>5. CASE Tick \/ StopServer \/ BoltPanics
    BY <2>5, TickStep, StopServerStep, BoltPanicsStep
  <2>6. CASE BoltThreadStep
    BY <2>6, RcaBolt
  <2>7. CASE UNCHANGED vars
    BY <2>7, RcaStutter
  <2> QED BY <2>1, <2>2, <2>3, <2>4, <2>5, <2>6, <2>7 DEF Next
<1> QED BY <1>1, RcaInit, PTL DEF Spec

(* Every variable keeps its type.  In particular no more connections are     *)
(* accepted than compilers are started, and never are more perf2bolts in     *)
(* flight than NUM_PERF2BOLT_IN_PARALLEL.                                    *)
THEOREM RcaTypes == Spec => []TypeOK
<1>1. RcaInv => TypeOK
  BY DEF RcaInv
<1> QED BY <1>1, RcaInvariant, PTL

(* No compiler executes a clang.bolt that llvm-bolt is still writing,        *)
(* however the answers, the hooks and the BOLT thread interleave.            *)
THEOREM RcaBinary == Spec => []RunsFinishedBinary
<1>1. RcaInv => RunsFinishedBinary
  BY DEF RcaInv, AnnounceInv
<1> QED BY <1>1, RcaInvariant, PTL

(* Whatever the size of the batches, the profiles that were complete when    *)
(* generate_perf_fdata opened the directory are converted when merge-fdata   *)
(* runs.                                                                     *)
THEOREM RcaConverted == Spec => []NothingFinishedLost
<1>1. RcaInv => NothingFinishedLost
  BY DEF RcaInv, BatchInv
<1> QED BY <1>1, RcaInvariant, PTL

(* No two compilers the server told to profile write to the same file. *)
THEOREM RcaNames == Spec => []ProfilesDistinct
<1>1. RcaInv => ProfilesDistinct
  BY DEF RcaInv, NamesInv
<1> QED BY <1>1, RcaInvariant, PTL

(* wrap_envp and remove_var keep perf from being hooked again. *)
THEOREM RcaPerf == Spec => []NoPerfUnderPerf
<1>1. RcaInv => NoPerfUnderPerf
  BY DEF RcaInv, PerfInv, NoPerfUnderPerf
<1> QED BY <1>1, RcaInvariant, PTL
=============================================================================
