--------------------------- MODULE DataFilesProofs ---------------------------
(***************************************************************************)
(* For any number of runs and rebuilds: the properties of DataFiles.       *)
(*                                                                         *)
(* The argument is the invariant IInv: from the rm on the four files hold  *)
(* pieces of this run only, and from the first extraction on every piece   *)
(* with code has it from the cached binary (BinsInv, ELFInv); and as long  *)
(* as nothing has gone wrong, what each step has left on the disk is what  *)
(* the next one needs (CleanInv).                                          *)
(***************************************************************************)
EXTENDS DataFiles, TLAPS

AfterBolt    == {"nm", "rm", "write_functions", "write_vtable", "pause", "call_sites", "unmoved",
                 "insert", "clean_up", "cont_opt", "ended"}
AfterNm      == AfterBolt \ {"nm"}
AfterRm      == AfterNm \ {"rm", "clean_up", "cont_opt", "ended"}
AfterExtract == AfterRm \ {"write_functions"}
AfterPause   == {"call_sites", "unmoved", "insert", "clean_up", "cont_opt", "ended"}

(* What every piece written in this run is like *)
OfThisRun(x) ==
  /\ x.run = run
  /\ x.elf # None => x.elf = ELF
  /\ trouble = {} => x.map \in {None, Mine} /\ x.elf \in {None, Mine} /\ x.build \in {None, target}

ELFInv ==
  /\ ELF # Torn
  /\ trouble = {} => ELF \in {None, Mine}
  /\ pc \in AfterExtract => ELF # None
  /\ pc \in {"perf", "perf2bolt", "llvm-bolt", "nm", "rm", "write_functions"} => ELF = None

BinsInv ==
  /\ pc = "write_functions" => \A f \in Bin : bins[f] = {}
  /\ pc \in AfterRm => \A f \in Bin : \A x \in bins[f] : OfThisRun(x)

TextInv ==
  /\ \A x \in text : OfThisRun(x)
  /\ pc \in AfterRm \cup {"perf", "perf2bolt", "llvm-bolt", "nm", "rm"} => text = {}

CleanInv ==
  trouble = {} =>
    /\ pc \notin Over => build = target /\ disk.sites = target
    /\ pc = "perf2bolt" => disk.data = run
    /\ pc = "llvm-bolt" => disk.fdata = run
    /\ pc \in AfterBolt => bolted_func = Mine /\ disk.bolt = Mine
    /\ pc \in AfterNm => func_with_addr = target
    /\ pc \in AfterPause => disk.callstack = run
    /\ pc \in AfterBolt \cup {"llvm-bolt"} /\ "DEBUG_INFO" \in defines => disk.info = run
    /\ pc = "ended" /\ "CONT_OPT" \in defines => disk.data2 = run

IInv == TypeOK /\ ELFInv /\ BinsInv /\ TextInv /\ CleanInv
-----------------------------------------------------------------------------
Disk == [data : 0 .. MaxRuns, data2 : 0 .. MaxRuns, fdata : 0 .. MaxRuns, info : 0 .. MaxRuns,
         callstack : 0 .. MaxRuns, sites : 0 .. MaxBuilds, bolt : Binary \cup {None, Torn}]

Left == [fdata : 0 .. MaxRuns, bolt : Binary \cup {None}]

(* The first run starts with an empty directory but for the call sites. *)
LEMMA InitIInv == Init => IInv
<1> SUFFICES ASSUME Init PROVE IInv
  OBVIOUS
<1>1. TypeOK
  BY DataAssumption DEF Init, TypeOK, Run, Build
<1>2. ELFInv /\ BinsInv /\ TextInv
  BY DataAssumption DEF Init, ELFInv,  BinsInv, TextInv, AfterRm, AfterNm, AfterBolt, AfterExtract
<1>3. CleanInv
  BY DEF Init, CleanInv, AfterNm, AfterBolt, AfterPause, Over
<1> QED  BY <1>1, <1>2, <1>3 DEF IInv

(* perf: a success leaves a profile of this run. *)
LEMMA PerfStep == IInv /\ RunPerfRecord => IInv'
<1> SUFFICES ASSUME IInv, RunPerfRecord PROVE IInv'
  OBVIOUS
<1>1. TypeOK /\ disk \in Disk /\ run \in 1 .. MaxRuns /\ MaxRuns \in Nat
  BY DataAssumption DEF IInv, TypeOK, Disk, Run
<1>2. PICK d \in {0, run, disk.data} :
         disk' = [disk EXCEPT !.data = d] /\ (d # run => trouble' # {})
  <2>1. disk = [disk EXCEPT !.data = disk.data]
    BY <1>1 DEF Disk
  <2> QED  BY <2>1 DEF RunPerfRecord
<1>3. /\ pc = "perf" /\ pc' = "perf2bolt" /\ trouble' \in {trouble, trouble \cup {"perf"}}
      /\ UNCHANGED << defines, build, run, target, bins, bolted_func, func_with_addr, ELF, text, orphan >>
  BY DEF RunPerfRecord
<1>4. disk' \in Disk /\ disk'.data = d /\ disk'.sites = disk.sites
  BY <1>1, <1>2 DEF Disk
<1>5. TypeOK'
  BY <1>1, <1>3, <1>4 DEF TypeOK, Disk
<1>6. ELFInv' /\ BinsInv' /\ TextInv'
  BY <1>3 DEF IInv, ELFInv, Mine, BinsInv, TextInv, AfterRm, AfterNm, AfterBolt, AfterExtract
<1>7. CleanInv'
  BY <1>2, <1>3, <1>4 DEF IInv, CleanInv, AfterNm, AfterBolt, AfterPause, Over
<1> QED  BY <1>5, <1>6, <1>7 DEF IInv

(* perf2bolt: a success leaves the profile of this run, converted. *)
LEMMA Perf2boltStep == IInv /\ RunPerf2bolt => IInv'
<1> SUFFICES ASSUME IInv, RunPerf2bolt PROVE IInv'
  OBVIOUS
<1>1. TypeOK /\ disk \in Disk /\ run \in 1 .. MaxRuns /\ MaxRuns \in Nat
  BY DataAssumption DEF IInv, TypeOK, Disk, Run
<1>2. PICK f \in {0, disk.data, disk.fdata}, i \in {disk.info, run} :
         /\ disk' = [disk EXCEPT !.fdata = f, !.info = i]
         /\ trouble' = {} => f = disk.data /\ i = run
  BY <1>1 DEF RunPerf2bolt, Converts
<1>3. /\ pc = "perf2bolt" /\ pc' = "llvm-bolt" /\ trouble' \in {trouble, trouble \cup {"perf2bolt"}}
      /\ UNCHANGED << defines, build, run, target, bins, bolted_func, func_with_addr, ELF, text, orphan >>
  BY DEF RunPerf2bolt, Converts
<1>4. disk' \in Disk /\ disk'.fdata = f /\ disk'.info = i /\ disk'.sites = disk.sites
  <2>1. f \in 0 .. MaxRuns /\ i \in 0 .. MaxRuns
    BY <1>1, <1>2 DEF Disk
  <2>2. PICK d : d = [disk EXCEPT !.fdata = f]
    OBVIOUS
  <2>3. d \in Disk /\ d.fdata = f /\ d.sites = disk.sites
    BY <1>1, <2>1, <2>2 DEF Disk
  <2>4. disk' = [d EXCEPT !.info = i]
    BY <1>2, <2>2
  <2> QED  BY <2>1, <2>3, <2>4 DEF Disk
<1>5. TypeOK'
  BY <1>1, <1>3, <1>4 DEF TypeOK, Disk
<1>6. ELFInv' /\ BinsInv' /\ TextInv'
  BY <1>3 DEF IInv, ELFInv, Mine, BinsInv, TextInv, AfterRm, AfterNm, AfterBolt, AfterExtract
<1>7. CleanInv'
  BY <1>2, <1>3, <1>4 DEF IInv, CleanInv, AfterNm, AfterBolt, AfterPause, Over
<1> QED  BY <1>5, <1>6, <1>7 DEF IInv

(* llvm-bolt: a success leaves the binary this run should make. *)
LEMMA LlvmboltStep == IInv /\ RunLlvmbolt => IInv'
<1> SUFFICES ASSUME IInv, RunLlvmbolt PROVE IInv'
  OBVIOUS
<1>1. /\ TypeOK /\ disk \in Disk /\ run \in Run /\ build \in Build /\ disk.fdata \in 0 .. MaxRuns
      /\ MaxRuns \in Nat
  BY DataAssumption DEF IInv, TypeOK, Disk
<1>2. disk.fdata # 0 => Bolts \in Binary
  BY <1>1 DEF Bolts, Binary, Run
<1>3. /\ pc = "llvm-bolt" /\ pc' = "nm" /\ trouble' \in {trouble, trouble \cup {"llvm-bolt"}}
      /\ UNCHANGED << defines, build, run, target, bins, func_with_addr, ELF, text, orphan >>
  BY DEF RunLlvmbolt
<1>4. PICK b \in Binary \cup {None, Torn} :
         /\ disk' = [disk EXCEPT !.bolt = b]
         /\ bolted_func' \in Binary \cup {None}
         /\ trouble' = {} => b = Bolts /\ bolted_func' = Bolts
  <2>1. disk.bolt \in Binary \cup {None, Torn}
    BY <1>1 DEF Disk
  <2> QED  BY <1>2, <2>1 DEF RunLlvmbolt
<1>5. disk' \in Disk /\ disk'.bolt = b /\ disk'.info = disk.info /\ disk'.sites = disk.sites
  BY <1>1, <1>4 DEF Disk
<1>6. TypeOK'
  BY <1>1, <1>3, <1>4, <1>5 DEF TypeOK, Disk
<1>7. ELFInv' /\ BinsInv' /\ TextInv'
  BY <1>3 DEF IInv, ELFInv, Mine, BinsInv, TextInv, AfterRm, AfterNm, AfterBolt, AfterExtract
<1>8. trouble' = {} => Bolts = Mine
  BY <1>3 DEF IInv, CleanInv, Bolts, Mine, Over
<1>9. CleanInv'
  BY <1>3, <1>4, <1>5, <1>8 DEF IInv, CleanInv, AfterNm, AfterBolt, AfterPause, Over, Mine
<1> QED  BY <1>6, <1>7, <1>9 DEF IInv

(* nm reads the binary that is on the disk, and rm empties the files. *)
LEMMA NmRmStep == IInv /\ (RunNm \/ DeleteBins) => IInv'
<1> SUFFICES ASSUME IInv, RunNm \/ DeleteBins PROVE IInv'
  OBVIOUS
<1>1. CASE RunNm
  <2>1. TypeOK'
    BY <1>1 DEF IInv, TypeOK, RunNm
  <2>2. ELFInv' /\ BinsInv' /\ TextInv'
    BY <1>1 DEF IInv, ELFInv, Mine, BinsInv, TextInv, AfterRm, AfterNm, AfterBolt, AfterExtract, RunNm
  <2>3. CleanInv'
    BY <1>1 DEF IInv, CleanInv, AfterNm, AfterBolt, AfterPause, Over, Mine, RunNm
  <2> QED  BY <2>1, <2>2, <2>3 DEF IInv
<1>2. CASE DeleteBins
  <2>1. /\ pc = "rm" /\ pc' = "write_functions"
        /\ UNCHANGED << defines, build, run, target, disk, bolted_func, func_with_addr, ELF, text, orphan, trouble >>
    BY <1>2 DEF DeleteBins, Deletes
  <2>2. bins' = [f \in Bin |-> {}]
    BY <1>2 DEF DeleteBins, Deletes
  <2>3. bins' \in [Bin -> SUBSET Piece]
    BY <2>2
  <2>4. TypeOK'
    BY <2>1, <2>3 DEF IInv, TypeOK
  <2>5. ELFInv' /\ BinsInv' /\ TextInv'
    BY <2>1, <2>2 DEF IInv, ELFInv, Mine, BinsInv, TextInv, AfterRm, AfterNm, AfterBolt, AfterExtract
  <2>6. CleanInv'
    BY <2>1 DEF IInv, CleanInv, AfterNm, AfterBolt, AfterPause, Over, Mine
  <2> QED  BY <2>4, <2>5, <2>6 DEF IInv
<1> QED  BY <1>1, <1>2

(* A piece stays one of this run as long as the run and its cache do. *)
LEMMA PieceKept ==
  ASSUME UNCHANGED << run, target, ELF >>, trouble' = {} => trouble = {},
         NEW CONSTANT x, OfThisRun(x)
  PROVE  OfThisRun(x)'
BY DEF OfThisRun, Mine

(* Where a binary can be read, it is the cached one, and this run's if       *)
(* nothing has gone wrong.                                                   *)
LEMMA InitFacts ==
  ASSUME IInv, Parses(init), pc \in {"write_functions", "write_vtable", "unmoved"}
  PROVE  /\ init \in Binary /\ init # None /\ init # Torn
         /\ pc # "write_functions" => init = ELF
         /\ trouble = {} => init = Mine
<1>1. init \in Binary
  BY DEF IInv, TypeOK, init, Parses
<1>2. pc # "write_functions" => init = ELF
  BY DEF IInv, ELFInv, AfterExtract, AfterRm, AfterNm, AfterBolt, init
<1>3. ASSUME trouble = {} PROVE init = Mine
  <2>1. CASE pc = "write_functions"
    BY <1>3, <2>1 DEF IInv, ELFInv, CleanInv, AfterBolt, init
  <2>2. CASE pc # "write_functions"
    BY <1>3, <2>2, <1>2 DEF IInv, ELFInv, AfterExtract, AfterRm, AfterNm, AfterBolt
  <2> QED  BY <2>1, <2>2
<1> QED  BY <1>1, <1>2, <1>3, DataAssumption

(* An extraction writes pieces of this run with code of the cached binary. *)
LEMMA ExtractStep ==
  ASSUME IInv,
         NEW CONSTANT at, NEW CONSTANT next, NEW CONSTANT f \in Bin, NEW STATE pieces,
         \/ at = "write_functions" /\ next = "write_vtable"
         \/ at = "write_vtable" /\ next = "pause"
         \/ at = "unmoved" /\ next = "insert",
         Extract(at, next, f, pieces),
         \A x \in pieces :
           /\ x \in Piece /\ x.run = run /\ x.elf = init
           /\ x.map \in {None, bolted_func} /\ x.build \in {None, func_with_addr}
  PROVE  IInv'
<1>1. /\ pc = at /\ pc' = next /\ Parses(init) /\ ELF' = init
      /\ bins' = [bins EXCEPT ![f] = pieces]
      /\ UNCHANGED << defines, build, run, target, disk, bolted_func, func_with_addr, text, orphan, trouble >>
  BY DEF Extract
<1>2. /\ init \in Binary /\ init # None /\ init # Torn
      /\ pc # "write_functions" => init = ELF
      /\ trouble = {} => init = Mine
  BY <1>1, InitFacts
<1>3. /\ TypeOK /\ bins \in [Bin -> SUBSET Piece]
      /\ \A g \in Bin : bins'[g] = IF g = f THEN pieces ELSE bins[g]
  BY <1>1 DEF IInv, TypeOK
<1>4. bins' \in [Bin -> SUBSET Piece]
  BY <1>1, <1>3
<1>5. TypeOK'
  BY <1>1, <1>2, <1>3, <1>4 DEF TypeOK, Paused
<1>6. ELFInv'
  BY <1>1, <1>2 DEF ELFInv, AfterExtract, AfterRm, AfterNm, AfterBolt, Mine
<1>7. \A x \in pieces : OfThisRun(x)'
  <2> SUFFICES ASSUME NEW x \in pieces PROVE OfThisRun(x)'
    OBVIOUS
  <2>1. x.run = run' /\ x.elf = ELF' /\ (trouble = {} => x.elf = Mine)
    BY <1>1, <1>2
  <2>2. trouble = {} => x.map \in {None, Mine} /\ x.build \in {None, target}
    BY <1>1 DEF IInv, CleanInv, AfterBolt, AfterNm
  <2> QED  BY <2>1, <2>2, <1>1 DEF OfThisRun, Mine
<1>8. BinsInv'
  <2> SUFFICES ASSUME NEW g \in Bin, NEW x \in bins'[g] PROVE OfThisRun(x)'
    BY <1>1 DEF BinsInv
  <2>1. CASE g = f
    BY <2>1, <1>3, <1>7
  <2>2. CASE g # f
    <3>1. x \in bins[g] /\ OfThisRun(x) /\ pc # "write_functions"
      BY <2>2, <1>1, <1>3 DEF IInv, BinsInv, AfterRm, AfterNm, AfterBolt
    <3> QED  BY <3>1, <1>1, <1>2, PieceKept
  <2> QED  BY <2>1, <2>2
<1>9. TextInv'
  <2>1. text = {}
    BY <1>1 DEF IInv, TextInv, AfterRm, AfterNm, AfterBolt
  <2> QED  BY <2>1, <1>1 DEF TextInv
<1>10. CleanInv'
  BY <1>1 DEF IInv, CleanInv, AfterNm, AfterBolt, AfterPause, Over, Mine
<1> QED  BY <1>5, <1>6, <1>8, <1>9, <1>10 DEF IInv

(* The three extractions *)
LEMMA ExtractSteps ==
  IInv /\ (WriteBoltedFunctions \/ WriteVtable \/ WriteUnmovedFunctions) => IInv'
<1> SUFFICES ASSUME IInv, WriteBoltedFunctions \/ WriteVtable \/ WriteUnmovedFunctions PROVE IInv'
  OBVIOUS
<1>1. /\ pc \in {"write_functions", "write_vtable", "unmoved"} /\ Parses(init)
      /\ run \in Run /\ bolted_func \in Binary \cup {None} /\ func_with_addr \in Build
  BY DEF IInv, TypeOK, WriteBoltedFunctions, WriteVtable, WriteUnmovedFunctions, Extract
<1>2. init \in Binary
  BY <1>1, InitFacts
<1>3. CASE WriteBoltedFunctions
  <2> DEFINE x == [run |-> run, map |-> bolted_func, elf |-> init, build |-> None]
  <2>1. x \in Piece /\ x.run = run /\ x.elf = init /\ x.map = bolted_func /\ x.build = None
    BY <1>1, <1>2 DEF Piece
  <2>2. Extract("write_functions", "write_vtable", "bolted_functions", IF bolted_func = None THEN {} ELSE {x})
    BY <1>3 DEF WriteBoltedFunctions
  <2> HIDE DEF x
  <2> QED  BY <2>1, <2>2, ExtractStep DEF Bin
<1>4. CASE WriteVtable
  <2> DEFINE x == [run |-> run, map |-> None, elf |-> init, build |-> None]
  <2>1. x \in Piece /\ x.run = run /\ x.elf = init /\ x.map = None /\ x.build = None
    BY <1>1, <1>2 DEF Piece
  <2>2. Extract("write_vtable", "pause", "v_table", {x})
    BY <1>4 DEF WriteVtable
  <2> HIDE DEF x
  <2> QED  BY <2>1, <2>2, ExtractStep DEF Bin
<1>5. CASE WriteUnmovedFunctions
  <2> DEFINE x == [run |-> run, map |-> bolted_func, elf |-> init, build |-> func_with_addr]
  <2>1. x \in Piece /\ x.run = run /\ x.elf = init /\ x.map = bolted_func /\ x.build = func_with_addr
    BY <1>1, <1>2 DEF Piece
  <2>2. Extract("unmoved", "insert", "unmoved_func", {x})
    BY <1>5 DEF WriteUnmovedFunctions
  <2> HIDE DEF x
  <2> QED  BY <2>1, <2>2, ExtractStep DEF Bin
<1> QED  BY <1>3, <1>4, <1>5

(* The tracer ends, one way or the other. *)
LEMMA StopStep == IInv /\ (PopenFails \/ InitPanics \/ ArchiveThrows \/ Kill) => IInv'
<1> SUFFICES ASSUME IInv, PopenFails \/ InitPanics \/ ArchiveThrows \/ Kill PROVE IInv'
  OBVIOUS
<1>1. /\ pc' \in {"aborted", "killed"}
      /\ UNCHANGED << defines, build, run, target, disk, bins, bolted_func, func_with_addr, ELF, text, trouble >>
  BY DEF PopenFails, InitPanics, ArchiveThrows, Kill
<1>2. TypeOK /\ orphan' \in Left
  <2>1. TypeOK /\ orphan \in Left /\ disk.data \in 0 .. MaxRuns
    BY DEF IInv, TypeOK, Left
  <2>2. disk.fdata # 0 => Bolts \in Binary
    BY DataAssumption DEF IInv, TypeOK, Bolts, Binary, Run
  <2>3. \/ orphan' = orphan
        \/ orphan' = [orphan EXCEPT !.fdata = disk.data]
        \/ disk.fdata # 0 /\ orphan' = [orphan EXCEPT !.bolt = Bolts]
    BY DEF PopenFails, InitPanics, ArchiveThrows, Kill
  <2>4. [orphan EXCEPT !.fdata = disk.data] \in Left
    BY <2>1 DEF Left
  <2>5. disk.fdata # 0 => [orphan EXCEPT !.bolt = Bolts] \in Left
    BY <2>1, <2>2 DEF Left
  <2> QED  BY <2>1, <2>3, <2>4, <2>5
<1>3. TypeOK'
  BY <1>1, <1>2 DEF TypeOK, Over, Left
<1>4. \A x \in text : OfThisRun(x)'
  BY <1>1, PieceKept DEF IInv, TextInv
<1>5. ELFInv' /\ BinsInv' /\ TextInv'
  BY <1>1, <1>4 DEF IInv, ELFInv, Mine, BinsInv, TextInv, AfterRm, AfterNm, AfterBolt, AfterExtract
<1>6. CleanInv'
  BY <1>1 DEF IInv, CleanInv, AfterNm, AfterBolt, AfterPause, Over
<1> QED  BY <1>3, <1>5, <1>6 DEF IInv

(* The functions on the stacks are stored once the target is paused. *)
LEMMA PauseStep == IInv /\ Pause => IInv'
<1> SUFFICES ASSUME IInv, Pause PROVE IInv'
  OBVIOUS
<1>1. /\ pc = "pause" /\ pc' = "call_sites" /\ disk' = [disk EXCEPT !.callstack = run]
      /\ UNCHANGED << defines, build, run, target, bins, bolted_func, func_with_addr, ELF, text, orphan, trouble >>
  BY DEF Pause
<1>2. TypeOK /\ disk \in Disk /\ run \in 0 .. MaxRuns
  BY DataAssumption DEF IInv, TypeOK, Disk, Run
<1>3. /\ disk' \in Disk /\ disk'.callstack = run /\ disk'.sites = disk.sites
      /\ disk'.bolt = disk.bolt /\ disk'.info = disk.info
  BY <1>1, <1>2 DEF Disk
<1>4. TypeOK'
  BY <1>1, <1>2, <1>3 DEF TypeOK, Disk, Paused
<1>5. \A f \in Bin : \A x \in bins[f] : OfThisRun(x)'
  BY <1>1, PieceKept DEF IInv, BinsInv, AfterRm, AfterNm, AfterBolt
<1>6. text = {}
  BY <1>1 DEF IInv, TextInv, AfterRm, AfterNm, AfterBolt
<1>7. ELFInv' /\ BinsInv' /\ TextInv'
  BY <1>1, <1>5, <1>6 DEF IInv, ELFInv, Mine, BinsInv, TextInv, AfterExtract, AfterRm, AfterNm, AfterBolt
<1>8. CleanInv'
  BY <1>1, <1>3 DEF IInv, CleanInv, AfterNm, AfterBolt, AfterPause, Over, Mine
<1> QED  BY <1>4, <1>7, <1>8 DEF IInv

(* The patched calls are appended to a file that this run has emptied. *)
LEMMA CallSitesStep == IInv /\ AppendCallSites => IInv'
<1> SUFFICES ASSUME IInv, AppendCallSites PROVE IInv'
  OBVIOUS
<1>0. PICK x : x = [run |-> run, map |-> bolted_func, elf |-> None, build |-> disk.sites]
  OBVIOUS
<1> DEFINE new == IF bolted_func = None THEN {} ELSE {x}
<1>1. /\ pc = "call_sites" /\ pc' = "unmoved" /\ disk.sites # 0
      /\ UNCHANGED << defines, build, run, target, disk, bolted_func, func_with_addr, ELF, text, orphan, trouble >>
  BY DEF AppendCallSites
<1>2. bins' = [bins EXCEPT !["call_sites"] = @ \cup new]
  BY <1>0 DEF AppendCallSites
<1>3. TypeOK /\ bins \in [Bin -> SUBSET Piece] /\ "call_sites" \in Bin
  BY DEF IInv, TypeOK, Bin
<1>4. x \in Piece /\ x.run = run /\ x.elf = None /\ x.map = bolted_func /\ x.build = disk.sites
  BY <1>0, <1>1, <1>3, DataAssumption DEF TypeOK, Piece, Build
<1>5. OfThisRun(x)'
  <2>1. trouble = {} => bolted_func = Mine /\ disk.sites = target
    BY <1>1 DEF IInv, CleanInv, AfterBolt, Over
  <2> QED  BY <1>1, <1>4, <2>1 DEF OfThisRun, Mine
<1>6. \A g \in Bin : bins'[g] = IF g = "call_sites" THEN bins[g] \cup new ELSE bins[g]
  BY <1>2, <1>3
<1>7. new \subseteq {x} /\ new \subseteq Piece
  BY <1>4
<1> HIDE DEF new
<1>8. bins' \in [Bin -> SUBSET Piece]
  BY <1>2, <1>3, <1>7
<1>9. TypeOK'
  BY <1>1, <1>3, <1>8 DEF TypeOK, Paused
<1>10. \A f \in Bin : \A y \in bins[f] : OfThisRun(y)'
  BY <1>1, PieceKept DEF IInv, BinsInv, AfterRm, AfterNm, AfterBolt
<1>11. ASSUME NEW f \in Bin, NEW y \in bins'[f] PROVE OfThisRun(y)'
  <2>1. y \in bins[f] \/ y = x
    BY <1>6, <1>7
  <2> QED  BY <2>1, <1>5, <1>10
<1>12. text = {}
  BY <1>1 DEF IInv, TextInv, AfterRm, AfterNm, AfterBolt
<1>13. ELFInv' /\ BinsInv' /\ TextInv'
  BY <1>1, <1>11, <1>12 DEF IInv, ELFInv, Mine, BinsInv, TextInv, AfterExtract, AfterRm, AfterNm, AfterBolt
<1>14. CleanInv'
  BY <1>1 DEF IInv, CleanInv, AfterNm, AfterBolt, AfterPause, Over, Mine
<1> QED  BY <1>9, <1>13, <1>14 DEF IInv

(* The library inserts what is in the files. *)
LEMMA InsertStep == IInv /\ InsertMachineCode => IInv'
<1> SUFFICES ASSUME IInv, InsertMachineCode PROVE IInv'
  OBVIOUS
<1>1. /\ pc = "insert" /\ pc' = "clean_up"
      /\ UNCHANGED << defines, build, run, target, disk, bins, bolted_func, func_with_addr, ELF, orphan, trouble >>
  BY DEF InsertMachineCode
<1>2. \A x \in text' : \E f \in Bin : x \in bins[f]
  <2>1. PICK opened \in SUBSET Bin : text' = UNION {bins[f] : f \in opened}
    BY DEF InsertMachineCode
  <2> QED  BY <2>1
<1>3. TypeOK /\ bins \in [Bin -> SUBSET Piece]
  BY DEF IInv, TypeOK
<1>4. text' \subseteq Piece
  BY <1>2, <1>3
<1>5. TypeOK'
  BY <1>1, <1>3, <1>4 DEF TypeOK
<1>6. \A f \in Bin : \A x \in bins[f] : OfThisRun(x)'
  BY <1>1, PieceKept DEF IInv, BinsInv, AfterRm, AfterNm, AfterBolt
<1>7. \A x \in text' : OfThisRun(x)'
  BY <1>2, <1>6
<1>8. ELFInv' /\ BinsInv' /\ TextInv'
  BY <1>1, <1>7 DEF IInv, ELFInv, Mine, BinsInv, TextInv, AfterExtract, AfterRm, AfterNm, AfterBolt
<1>9. CleanInv'
  BY <1>1 DEF IInv, CleanInv, AfterNm, AfterBolt, AfterPause, Over, Mine
<1> QED  BY <1>5, <1>8, <1>9 DEF IInv

(* clean_up removes files that nothing of this run reads any more, and with  *)
(* DEBUG_INFO does nothing.                                                  *)
LEMMA CleanUpStep == IInv /\ CleanUp => IInv'
<1> SUFFICES ASSUME IInv, CleanUp PROVE IInv'
  OBVIOUS
<1>1. /\ pc = "clean_up" /\ pc' = "cont_opt"
      /\ UNCHANGED << defines, build, run, target, bolted_func, func_with_addr, ELF, text, orphan, trouble >>
  BY DEF CleanUp, Cleans
<1>2. TypeOK /\ disk \in Disk /\ bins \in [Bin -> SUBSET Piece] /\ 0 \in 0 .. MaxRuns
  BY DataAssumption DEF IInv, TypeOK, Disk
<1>3. /\ bins' \in [Bin -> SUBSET Piece] /\ disk' \in Disk
      /\ disk'.bolt = disk.bolt /\ disk'.sites = disk.sites /\ disk'.callstack = disk.callstack
      /\ "DEBUG_INFO" \in defines => disk' = disk
  <2>1. CASE "DEBUG_INFO" \in defines
    BY <2>1, <1>2 DEF CleanUp, Cleans
  <2>2. CASE "DEBUG_INFO" \notin defines
    <3>1. /\ bins' = [f \in Bin |-> {}]
          /\ disk' = [disk EXCEPT !.data = 0, !.data2 = 0, !.fdata = 0, !.info = 0]
      BY <2>2 DEF CleanUp, Cleans
    <3>2. bins' \in [Bin -> SUBSET Piece]
      BY <3>1
    <3>3. disk' \in Disk /\ disk'.bolt = disk.bolt /\ disk'.sites = disk.sites /\ disk'.callstack = disk.callstack
      BY <3>1, <1>2 DEF Disk
    <3> QED  BY <2>2, <3>2, <3>3
  <2> QED  BY <2>1, <2>2
<1>4. TypeOK'
  BY <1>1, <1>2, <1>3 DEF TypeOK, Disk
<1>5. \A x \in text : OfThisRun(x)'
  BY <1>1, PieceKept DEF IInv, TextInv
<1>6. ELFInv' /\ BinsInv' /\ TextInv'
  BY <1>1, <1>5 DEF IInv, ELFInv, Mine, BinsInv, TextInv, AfterExtract, AfterRm, AfterNm, AfterBolt
<1>7. CleanInv'
  BY <1>1, <1>3 DEF IInv, CleanInv, AfterNm, AfterBolt, AfterPause, Over, Mine
<1> QED  BY <1>4, <1>6, <1>7 DEF IInv

(* The steps after the insertion, or of the user, that only change the disk: *)
(* the code that is inserted stays what it is.                               *)
LEMMA DiskStep ==
  ASSUME IInv, disk' \in Disk,
         trouble' \subseteq {"perf", "perf2bolt", "llvm-bolt", "overwritten", "rebuilt", "extract_call_sites"},
         trouble' = {} => trouble = {},
         pc' = pc \/ (pc = "cont_opt" /\ pc' = "ended"),
         orphan' \in Left, build' \in Build,
         UNCHANGED << defines, run, target, bins, bolted_func, func_with_addr, ELF, text >>,
         CleanInv'
  PROVE  IInv'
<1>1. TypeOK'
  BY DEF IInv, TypeOK, Disk, Left, Over
<1>2. \A x \in text : OfThisRun(x)'
  BY PieceKept DEF IInv, TextInv
<1>3. pc \in AfterRm => \A f \in Bin : \A x \in bins[f] : OfThisRun(x)'
  BY PieceKept DEF IInv, BinsInv
<1>4. ELFInv' /\ BinsInv' /\ TextInv'
  BY <1>2, <1>3 DEF IInv, ELFInv, Mine, BinsInv, TextInv, AfterExtract, AfterRm, AfterNm, AfterBolt
<1> QED  BY <1>1, <1>4 DEF IInv

(* The second profile *)
LEMMA ContOptStep == IInv /\ ContOpt => IInv'
<1> SUFFICES ASSUME IInv, ContOpt PROVE IInv'
  OBVIOUS
<1>1. disk \in Disk /\ run \in 0 .. MaxRuns /\ TypeOK
  BY DataAssumption DEF IInv, TypeOK, Disk, Run
<1>2. /\ pc = "cont_opt" /\ pc' = "ended"
      /\ UNCHANGED << defines, build, run, target, bins, bolted_func, func_with_addr, ELF, text, orphan >>
      /\ trouble' \in {trouble, trouble \cup {"perf"}}
  BY DEF ContOpt
<1>3. /\ disk' \in Disk /\ disk'.bolt = disk.bolt /\ disk'.callstack = disk.callstack /\ disk'.info = disk.info
      /\ trouble' = {} /\ "CONT_OPT" \in defines => disk'.data2 = run
  <2>1. CASE disk' = disk /\ ("CONT_OPT" \notin defines \/ trouble' # {})
    BY <2>1, <1>1
  <2>2. CASE disk' = [disk EXCEPT !.data2 = run]
    BY <2>2, <1>1 DEF Disk
  <2> QED  BY <2>1, <2>2 DEF ContOpt
<1>4. CleanInv'
  BY <1>2, <1>3 DEF IInv, CleanInv, AfterNm, AfterBolt, AfterPause, Over, Mine
<1>5. trouble' = {} => trouble = {}
  BY <1>2
<1>6. trouble' \subseteq {"perf", "perf2bolt", "llvm-bolt", "overwritten", "rebuilt", "extract_call_sites"}
  BY <1>1, <1>2 DEF TypeOK
<1> QED  BY <1>1, <1>2, <1>3, <1>4, <1>5, <1>6, DiskStep DEF TypeOK, Left

(* Tools that are left over, and the user, change what is on the disk. *)
LEMMA OutsideStep ==
  IInv /\ (OrphanConverts \/ OrphanOpens \/ OrphanWrites \/ Rebuild \/ ExtractOffline) => IInv'
<1> SUFFICES ASSUME IInv, OrphanConverts \/ OrphanOpens \/ OrphanWrites \/ Rebuild \/ ExtractOffline PROVE IInv'
  OBVIOUS
<1>1. disk \in Disk /\ orphan \in Left /\ TypeOK /\ 0 \in 0 .. MaxBuilds /\ build \in 0 .. MaxBuilds
  BY DataAssumption DEF IInv, TypeOK, Disk, Left, Build
<1>2. CASE OrphanOpens \/ OrphanWrites
  <2>1. /\ UNCHANGED << defines, build, run, pc, target, bins, bolted_func, func_with_addr, ELF, text >>
        /\ trouble' = trouble \cup {"overwritten"} /\ orphan' \in Left
    BY <1>2, <1>1 DEF OrphanOpens, OrphanWrites, Left
  <2>2. disk' \in Disk
    <3>1. PICK b \in Binary \cup {None, Torn} : disk' = [disk EXCEPT !.bolt = b]
      BY <1>2, <1>1 DEF OrphanOpens, OrphanWrites, Left
    <3> QED  BY <3>1, <1>1 DEF Disk
  <2>3. CleanInv'
    BY <2>1 DEF CleanInv
  <2> QED  BY <1>1, <2>1, <2>2, <2>3, DiskStep DEF TypeOK, Left
<1>3. CASE Rebuild
  <2>1. build' \in Build
    BY <1>1, <1>3, DataAssumption DEF Rebuild, TypeOK, Build
  <2>2. CleanInv'
    BY <1>3 DEF CleanInv, Rebuild
  <2> QED  BY <1>1, <1>3, <2>1, <2>2, DiskStep DEF Rebuild, TypeOK, Left
<1>4. CASE ExtractOffline
  <2>1. PICK b \in {build, 0} : disk' = [disk EXCEPT !.sites = b]
    BY <1>4 DEF ExtractOffline
  <2>2. /\ disk' \in Disk /\ disk'.bolt = disk.bolt /\ disk'.callstack = disk.callstack /\ disk'.info = disk.info
        /\ disk'.data2 = disk.data2 /\ disk'.data = disk.data /\ disk'.fdata = disk.fdata
    BY <1>1, <2>1 DEF Disk
  <2>3. /\ pc \in Over
        /\ UNCHANGED << defines, build, run, pc, target, bins, bolted_func, func_with_addr, ELF, text, orphan, trouble >>
    BY <1>4 DEF ExtractOffline
  <2>4. CleanInv'
    BY <2>2, <2>3 DEF IInv, CleanInv, AfterNm, AfterBolt, AfterPause, Over, Mine
  <2> QED  BY <1>1, <2>2, <2>3, <2>4, DiskStep DEF TypeOK, Left
<1>5. CASE OrphanConverts
  <2>1. /\ UNCHANGED << defines, build, run, pc, target, bins, bolted_func, func_with_addr, ELF, text >>
        /\ orphan' = [orphan EXCEPT !.fdata = 0] /\ disk' = [disk EXCEPT !.fdata = orphan.fdata]
        /\ trouble' \in {trouble, trouble \cup {"overwritten"}}
        /\ pc \in {"perf2bolt", "llvm-bolt"} => trouble' # {}
    BY <1>5 DEF OrphanConverts
  <2>2. orphan' \in Left
    BY <1>1, <2>1, DataAssumption DEF Left
  <2>3. /\ disk' \in Disk /\ disk'.bolt = disk.bolt /\ disk'.callstack = disk.callstack /\ disk'.info = disk.info
        /\ disk'.data2 = disk.data2 /\ disk'.data = disk.data /\ disk'.sites = disk.sites
    <3>1. orphan.fdata \in 0 .. MaxRuns
      BY <1>1 DEF Left
    <3> QED  BY <1>1, <2>1, <3>1 DEF Disk
  <2>4. CleanInv'
    BY <2>1, <2>3 DEF IInv, CleanInv, AfterNm, AfterBolt, AfterPause, Over, Mine
  <2>5. trouble' \subseteq {"perf", "perf2bolt", "llvm-bolt", "overwritten", "rebuilt", "extract_call_sites"}
    BY <1>1, <2>1 DEF TypeOK
  <2>6. trouble' = {} => trouble = {}
    BY <2>1
  <2> QED  BY <1>1, <2>1, <2>2, <2>3, <2>4, <2>5, <2>6, DiskStep DEF TypeOK
<1> QED  BY <1>2, <1>3, <1>4, <1>5

(* A new run starts with nothing inserted and nothing cached. *)
LEMMA StartStep == IInv /\ StartTracer => IInv'
<1> SUFFICES ASSUME IInv, StartTracer PROVE IInv'
  OBVIOUS
<1>1. /\ pc' = "perf" /\ run' \in Run /\ target' = build /\ ELF' = None /\ text' = {} /\ bolted_func' = None
      /\ trouble' = IF disk.sites = build THEN {} ELSE {"extract_call_sites"}
      /\ UNCHANGED << defines, build, disk, bins, func_with_addr, orphan >>
  BY DataAssumption DEF IInv, TypeOK, StartTracer, Run
<1>2. TypeOK'
  BY <1>1 DEF IInv, TypeOK
<1>3. ELFInv' /\ BinsInv' /\ TextInv'
  BY <1>1, DataAssumption DEF ELFInv, BinsInv, TextInv, AfterExtract, AfterRm, AfterNm, AfterBolt
<1>4. CleanInv'
  BY <1>1 DEF CleanInv, AfterNm, AfterBolt, AfterPause, Over
<1> QED  BY <1>2, <1>3, <1>4 DEF IInv

(* Every step keeps the invariant. *)
LEMMA NextIInv == IInv /\ [Next]_vars => IInv'
<1> SUFFICES ASSUME IInv, [Next]_vars PROVE IInv'
  OBVIOUS
<1>1. CASE UNCHANGED vars
  <2>1. TypeOK' /\ ELFInv' /\ CleanInv'
    BY <1>1 DEF vars, IInv, TypeOK, ELFInv, CleanInv, Mine
  <2>2. BinsInv' /\ TextInv'
    BY <1>1 DEF vars, IInv, BinsInv, TextInv, OfThisRun, Mine
  <2> QED  BY <2>1, <2>2 DEF IInv
<1> QED
  BY <1>1, PerfStep, Perf2boltStep, LlvmboltStep, NmRmStep, ExtractSteps, StopStep, PauseStep,
     CallSitesStep, InsertStep, CleanUpStep, ContOptStep, OutsideStep, StartStep DEF Next
-----------------------------------------------------------------------------
(* The invariant holds in every reachable state. *)
LEMMA Invariance == Spec => []IInv
BY InitIInv, NextIInv, PTL DEF Spec

(* Every file, cache and piece of inserted code is of its kind; in           *)
(* particular a broken BOLTed binary is never cached.                        *)
THEOREM TypeCorrect == Spec => []TypeOK
<1>1. IInv => TypeOK
  BY DEF IInv
<1> QED  BY <1>1, Invariance, PTL

(* No run inserts what an earlier one has left in the files. *)
THEOREM NoStaleCode == Spec => []NothingStaleInserted
<1>1. IInv => NothingStaleInserted
  BY DEF IInv, TextInv, OfThisRun, NothingStaleInserted
<1> QED  BY <1>1, Invariance, PTL

(* All code of one insertion is of one BOLTed binary. *)
THEOREM SameBinary == Spec => []OneBinary
<1>1. IInv => OneBinary
  BY DEF IInv, TextInv, OfThisRun, OneBinary
<1> QED  BY <1>1, Invariance, PTL

(* Without trouble the inserted code is made for the binary the target runs  *)
(* from the profile of this run.                                             *)
THEOREM RightCode == Spec => []Consistent
<1>1. IInv => Consistent
  BY DEF IInv, TextInv, OfThisRun, Consistent
<1> QED  BY <1>1, Invariance, PTL

(* Without trouble the inputs of the C1 round are there. *)
THEOREM NextRound == Spec => []ContOptInputs
<1>1. IInv => ContOptInputs
  <2> SUFFICES ASSUME IInv, pc = "ended", trouble = {}, defines = {"DEBUG_INFO", "CONT_OPT"}
               PROVE  /\ disk.data2 = run /\ disk.info = run /\ disk.callstack = run
                      /\ disk.bolt # None /\ disk.bolt.run = run
    BY DEF ContOptInputs
  <2>1. disk.data2 = run /\ disk.info = run /\ disk.callstack = run /\ disk.bolt = Mine
    BY DEF IInv, CleanInv, AfterBolt, AfterPause
  <2>2. Mine \in Binary /\ Mine.run = run
    BY DEF IInv, TypeOK, Mine, Binary
  <2> QED  BY <2>1, <2>2, DataAssumption
<1> QED  BY <1>1, Invariance, PTL

(* The extraction does not panic while the target is paused. *)
THEOREM PanicEarly == Spec => PanicsBeforePause
<1>1. IInv /\ [Next]_vars => [(pc \in Paused /\ pc' = "aborted") => disk.sites = 0]_vars
  <2> SUFFICES ASSUME IInv, Next, pc \in Paused, pc' = "aborted"
               PROVE  disk.sites = 0
    OBVIOUS
  <2>1. ~ InitPanics
    BY DEF IInv, ELFInv, AfterExtract, AfterRm, AfterNm, AfterBolt, Paused, InitPanics, Parses, init
  <2>2. ~ PopenFails
    BY DEF Paused, PopenFails
  <2>3. ArchiveThrows
    BY <2>1, <2>2 DEF Next, Paused, RunPerfRecord, RunPerf2bolt, Converts, RunLlvmbolt, RunNm, DeleteBins,
       Deletes, WriteBoltedFunctions, WriteVtable, WriteUnmovedFunctions, Extract, Pause, AppendCallSites,
       InsertMachineCode, CleanUp, Cleans, ContOpt, StartTracer, Kill, OrphanConverts, OrphanOpens,
       OrphanWrites, Rebuild, ExtractOffline, Over
  <2> QED  BY <2>3 DEF ArchiveThrows
<1> QED  BY <1>1, Invariance, PTL DEF Spec, PanicsBeforePause
=============================================================================
