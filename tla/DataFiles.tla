------------------------------ MODULE DataFiles ------------------------------
(***************************************************************************)
(* The files of tmp_data_path over several runs of the tracer: the         *)
(* profiles, the BOLTed binary, and the four files the library inserts.    *)
(* Every file is reduced to where its contents come from.  perf, perf2bolt *)
(* and llvm-bolt may fail, which the tracer does not notice; the tracer    *)
(* may be killed anywhere, and the perf2bolt or the llvm-bolt it has       *)
(* started then goes on; the target may be rebuilt.                        *)
(***************************************************************************)
EXTENDS Integers, FiniteSets

CONSTANTS
  MaxRuns,    \* how often the tracer is started
  MaxBuilds,  \* how often the target is built
  None,       \* no file, or nothing read yet
  Torn        \* a BOLTed binary that is not complete


Run   == 1 .. MaxRuns
Build == 1 .. MaxBuilds

(* A BOLTed binary: the run whose llvm-bolt wrote it, the target binary and  *)
(* the run's profile it was made from.                                       *)
Binary == [run : Run, build : Build, prof : Run]

ASSUME DataAssumption ==
  /\ MaxRuns \in Nat \ {0} /\ MaxBuilds \in Nat \ {0}
  /\ None \notin Binary /\ Torn \notin Binary /\ None # Torn

(* The records a run has written into a file: the moved functions they are   *)
(* about, the BOLTed binary the code is from, the target binary the          *)
(* addresses are from.                                                       *)
Piece == [run : Run, map : Binary \cup {None}, elf : Binary \cup {None}, build : Build \cup {None}]

Bin == {"bolted_functions", "call_sites", "v_table", "unmoved_func"}

VARIABLES
  defines,    \* the flags the tracer is compiled with
  build,      \* the target binary on the disk
  run, pc,    \* the tracer and what its main does next
  target,     \* the binary the target process runs
  disk,       \* disk[f]: where the contents of f come from; 0 or None: there is no f
  bins,       \* bins[f]: the pieces the file f holds, missing or empty alike
  bolted_func,     \* what llvm-bolt has printed; None: nothing
  func_with_addr,  \* the binary whose symbols nm has printed
  ELF,        \* the OnceCells of elf-extract
  text,       \* the pieces inserted into the target process
  orphan,     \* what the tools of killed tracers will write: a profile, a binary
  trouble     \* what has gone wrong in this run

vars == << defines, build, run, pc, target, disk, bins, bolted_func, func_with_addr, ELF, text, orphan, trouble >>

Over   == {"ended", "aborted", "killed"}
Paused == {"call_sites", "unmoved", "insert"}

Init ==
  /\ defines \in SUBSET {"DEBUG_INFO", "CONT_OPT"}
  /\ build = 1 /\ run = 1 /\ pc = "perf" /\ target = 1
  /\ disk = [data |-> 0, data2 |-> 0, fdata |-> 0, info |-> 0, callstack |-> 0, sites |-> 1, bolt |-> None]
  /\ bins = [f \in Bin |-> {}]
  /\ bolted_func = None /\ func_with_addr = 1 /\ ELF = None
  /\ text = {} /\ orphan = [fdata |-> 0, bolt |-> None] /\ trouble = {}

-----------------------------------------------------------------------------
(* run_perf_record: an older perf.data is renamed first. *)
RunPerfRecord ==
  /\ pc = "perf" /\ pc' = "perf2bolt"
  /\ \/ /\ disk' = [disk EXCEPT !.data = run]
        /\ UNCHANGED trouble
     \/ /\ disk' \in {disk, [disk EXCEPT !.data = 0]}
        /\ trouble' = trouble \cup {"perf"}
  /\ UNCHANGED << defines, build, run, target, bins, bolted_func, func_with_addr, ELF, text, orphan >>

Converts(from) ==
  /\ pc = "perf2bolt" /\ pc' = "llvm-bolt"
  /\ \/ /\ disk.data # 0
        /\ disk' = [disk EXCEPT !.fdata = from, !.info = run]
        /\ UNCHANGED trouble
     \/ /\ \E f \in {0, disk.fdata}, i \in {disk.info, run} :
             disk' = [disk EXCEPT !.fdata = f, !.info = i]
        /\ trouble' = trouble \cup {"perf2bolt"}
  /\ UNCHANGED << defines, build, run, target, bins, bolted_func, func_with_addr, ELF, text, orphan >>

(* Faulty variant: a profile that has been converted is kept. *)
RunPerf2boltOnce == Converts(IF disk.fdata = 0 THEN disk.data ELSE disk.fdata)

(* run_perf2bolt: BOLTed_bin_info.txt is written when a line with #### is    *)
(* read, which a perf2bolt that fails may have printed or not.               *)
RunPerf2bolt == Converts(disk.data)

Bolts == [run |-> run, build |-> build, prof |-> disk.fdata]

(* run_llvmbolt: the functions are those of the lines with @@@@ that are     *)
(* read; a llvm-bolt that fails may have printed them, and may leave the old *)
(* binary, none, or a part of the new one.                                   *)
RunLlvmbolt ==
  /\ pc = "llvm-bolt" /\ pc' = "nm"
  /\ \/ /\ disk.fdata # 0
        /\ disk' = [disk EXCEPT !.bolt = Bolts]
        /\ bolted_func' = Bolts
        /\ UNCHANGED trouble
     \/ /\ \E b \in {disk.bolt, None, Torn} : disk' = [disk EXCEPT !.bolt = b]
        /\ bolted_func' \in {None} \cup (IF disk.fdata # 0 THEN {Bolts} ELSE {})
        /\ trouble' = trouble \cup {"llvm-bolt"}
  /\ UNCHANGED << defines, build, run, target, bins, func_with_addr, ELF, text, orphan >>

(* get_func_with_original_addr and what is computed from it; get_v_table     *)
(* reads the BOLTed binary, but its result is not used.                      *)
RunNm ==
  /\ pc = "nm" /\ pc' = "rm"
  /\ func_with_addr' = build
  /\ UNCHANGED << defines, build, run, target, disk, bins, bolted_func, ELF, text, orphan, trouble >>

(* popen returns NULL, or system -1. *)
PopenFails ==
  /\ pc \in {"perf2bolt", "llvm-bolt", "nm", "rm"} \/ (pc = "clean_up" /\ "DEBUG_INFO" \notin defines)
  /\ pc' = "aborted"
  /\ UNCHANGED << defines, build, run, target, disk, bins, bolted_func, func_with_addr, ELF, text, orphan, trouble >>

Deletes(files) ==
  /\ pc = "rm" /\ pc' = "write_functions"
  /\ bins' = [f \in Bin |-> IF f \in files THEN {} ELSE bins[f]]
  /\ UNCHANGED << defines, build, run, target, disk, bolted_func, func_with_addr, ELF, text, orphan, trouble >>

(* Faulty variant: only the files that are opened for writing anew. *)
DeleteBinsTruncated == Deletes(Bin \ {"call_sites"})

(* rm -rf of the four files; call_sites.bin is then opened for appending. *)
DeleteBins == Deletes(Bin)

(* Faulty variant of init: the binary is read each time. *)
init_uncached == disk.bolt
init == IF ELF # None THEN ELF ELSE disk.bolt

(* Faulty variant: a file that is not complete is taken for a binary. *)
ParsesTorn(bytes) == bytes # None
Parses(bytes) == bytes \notin {None, Torn}

(* write_functions and write_vtable: File::create, and the records. *)
Extract(at, next, f, pieces) ==
  /\ pc = at /\ pc' = next
  /\ Parses(init) /\ ELF' = init
  /\ bins' = [bins EXCEPT ![f] = pieces]
  /\ UNCHANGED << defines, build, run, target, disk, bolted_func, func_with_addr, text, orphan, trouble >>

WriteBoltedFunctions ==
  Extract("write_functions", "write_vtable", "bolted_functions",
          IF bolted_func = None THEN {}
          ELSE {[run |-> run, map |-> bolted_func, elf |-> init, build |-> None]})

WriteVtable ==
  Extract("write_vtable", "pause", "v_table", {[run |-> run, map |-> None, elf |-> init, build |-> None]})

WriteUnmovedFunctions ==
  Extract("unmoved", "insert", "unmoved_func",
          {[run |-> run, map |-> bolted_func, elf |-> init, build |-> func_with_addr]})

(* fs::read or the parser fails, and unwrap panics. *)
InitPanics ==
  /\ pc \in {"write_functions", "write_vtable", "unmoved"} /\ ~ Parses(init)
  /\ pc' = "aborted"
  /\ UNCHANGED << defines, build, run, target, disk, bins, bolted_func, func_with_addr, ELF, text, orphan, trouble >>

(* The threads are paused and their stacks unwound;                          *)
(* write_func_on_call_stack_into_file.                                       *)
Pause ==
  /\ pc = "pause" /\ pc' = "call_sites"
  /\ disk' = [disk EXCEPT !.callstack = run]
  /\ UNCHANGED << defines, build, run, target, bins, bolted_func, func_with_addr, ELF, text, orphan, trouble >>

(* extract_call_sites of extract_machine_code.cpp *)
AppendCallSites ==
  /\ pc = "call_sites" /\ disk.sites # 0 /\ pc' = "unmoved"
  /\ bins' = [bins EXCEPT !["call_sites"] = @ \cup
       (IF bolted_func = None THEN {}
        ELSE {[run |-> run, map |-> bolted_func, elf |-> None, build |-> disk.sites]})]
  /\ UNCHANGED << defines, build, run, target, disk, bolted_func, func_with_addr, ELF, text, orphan, trouble >>

(* call_sites_all.bin is not there: the archive throws. *)
ArchiveThrows ==
  /\ pc = "call_sites" /\ disk.sites = 0
  /\ pc' = "aborted"
  /\ UNCHANGED << defines, build, run, target, disk, bins, bolted_func, func_with_addr, ELF, text, orphan, trouble >>

(* The library inserts the files, or some of them (CodeReplace). *)
InsertMachineCode ==
  /\ pc = "insert" /\ pc' = "clean_up"
  /\ \E opened \in SUBSET Bin : text' = UNION {bins[f] : f \in opened}
  /\ UNCHANGED << defines, build, run, target, disk, bins, bolted_func, func_with_addr, ELF, orphan, trouble >>

Cleans(clean) ==
  /\ pc = "clean_up" /\ pc' = "cont_opt"
  /\ IF clean
     THEN /\ bins' = [f \in Bin |-> {}]
          /\ disk' = [disk EXCEPT !.data = 0, !.data2 = 0, !.fdata = 0, !.info = 0]
     ELSE UNCHANGED << bins, disk >>
  /\ UNCHANGED << defines, build, run, target, bolted_func, func_with_addr, ELF, text, orphan, trouble >>

(* Faulty variant: with or without DEBUG_INFO. *)
CleanUpAlways == Cleans(TRUE)

(* clean_up: the four files, *.data, *.fdata and *.txt *)
CleanUp == Cleans("DEBUG_INFO" \notin defines)

(* The second run_perf_record, with CONT_OPT *)
ContOpt ==
  /\ pc = "cont_opt" /\ pc' = "ended"
  /\ \/ /\ "CONT_OPT" \notin defines
        /\ UNCHANGED << disk, trouble >>
     \/ /\ "CONT_OPT" \in defines
        /\ disk' = [disk EXCEPT !.data2 = run]
        /\ UNCHANGED trouble
     \/ /\ "CONT_OPT" \in defines
        /\ trouble' = trouble \cup {"perf"}
        /\ UNCHANGED disk
  /\ UNCHANGED << defines, build, run, target, bins, bolted_func, func_with_addr, ELF, text, orphan >>

-----------------------------------------------------------------------------
(* The user.                                                                 *)

(* The next run, with a target process of its own *)
StartTracer ==
  /\ pc \in Over /\ run < MaxRuns
  /\ run' = run + 1 /\ pc' = "perf" /\ target' = build
  /\ bolted_func' = None /\ ELF' = None /\ text' = {}
  /\ trouble' = IF disk.sites = build THEN {} ELSE {"extract_call_sites"}
  /\ UNCHANGED << defines, build, disk, bins, func_with_addr, orphan >>

(* The tracer is killed; a perf2bolt or llvm-bolt that it has started is not. *)
Kill ==
  /\ pc \notin Over /\ pc' = "killed"
  /\ orphan' = CASE pc = "perf2bolt" /\ disk.data # 0  -> [orphan EXCEPT !.fdata = disk.data]
                 [] pc = "llvm-bolt" /\ disk.fdata # 0 -> [orphan EXCEPT !.bolt = Bolts]
                 [] OTHER -> orphan
  /\ UNCHANGED << defines, build, run, target, disk, bins, bolted_func, func_with_addr, ELF, text, trouble >>

(* perf.fdata is written over.  That does harm while the tracer of the next  *)
(* run converts its own profile or runs llvm-bolt on it.                     *)
OrphanConverts ==
  /\ orphan.fdata # 0 /\ orphan' = [orphan EXCEPT !.fdata = 0]
  /\ disk' = [disk EXCEPT !.fdata = orphan.fdata]
  /\ trouble' = trouble \cup (IF pc \in {"perf2bolt", "llvm-bolt"} THEN {"overwritten"} ELSE {})
  /\ UNCHANGED << defines, build, run, pc, target, bins, bolted_func, func_with_addr, ELF, text >>

OrphanOpens ==
  /\ orphan.bolt # None /\ disk.bolt # Torn
  /\ disk' = [disk EXCEPT !.bolt = Torn]
  /\ trouble' = trouble \cup {"overwritten"}
  /\ UNCHANGED << defines, build, run, pc, target, bins, bolted_func, func_with_addr, ELF, text, orphan >>

OrphanWrites ==
  /\ orphan.bolt # None /\ orphan' = [orphan EXCEPT !.bolt = None]
  /\ disk' = [disk EXCEPT !.bolt = orphan.bolt]
  /\ trouble' = trouble \cup {"overwritten"}
  /\ UNCHANGED << defines, build, run, pc, target, bins, bolted_func, func_with_addr, ELF, text >>

(* make of the target *)
Rebuild ==
  /\ build < MaxBuilds /\ build' = build + 1
  /\ trouble' = trouble \cup {"rebuilt"}
  /\ UNCHANGED << defines, run, pc, target, disk, bins, bolted_func, func_with_addr, ELF, text, orphan >>

(* The program extract_call_sites is run, or its files are deleted. *)
ExtractOffline ==
  /\ pc \in Over
  /\ disk' \in {[disk EXCEPT !.sites = build], [disk EXCEPT !.sites = 0]}
  /\ UNCHANGED << defines, build, run, pc, target, bins, bolted_func, func_with_addr, ELF, text, orphan, trouble >>

Next ==
  \/ RunPerfRecord \/ RunPerf2bolt \/ RunLlvmbolt \/ RunNm \/ PopenFails \/ DeleteBins
  \/ WriteBoltedFunctions \/ WriteVtable \/ WriteUnmovedFunctions \/ InitPanics \/ Pause
  \/ AppendCallSites \/ ArchiveThrows \/ InsertMachineCode \/ CleanUp \/ ContOpt
  \/ StartTracer \/ Kill \/ OrphanConverts \/ OrphanOpens \/ OrphanWrites \/ Rebuild \/ ExtractOffline

Spec == Init /\ [][Next]_vars
-----------------------------------------------------------------------------
TypeOK ==
  /\ defines \subseteq {"DEBUG_INFO", "CONT_OPT"}
  /\ build \in Build /\ run \in Run /\ target \in Build /\ func_with_addr \in Build
  /\ pc \in Over \cup Paused \cup {"perf", "perf2bolt", "llvm-bolt", "nm", "rm", "write_functions",
                                   "write_vtable", "pause", "clean_up", "cont_opt"}
  /\ disk \in [data : 0 .. MaxRuns, data2 : 0 .. MaxRuns, fdata : 0 .. MaxRuns, info : 0 .. MaxRuns,
               callstack : 0 .. MaxRuns, sites : 0 .. MaxBuilds, bolt : Binary \cup {None, Torn}]
  /\ bins \in [Bin -> SUBSET Piece] /\ text \subseteq Piece
  /\ bolted_func \in Binary \cup {None} /\ ELF \in Binary \cup {None}
  /\ orphan \in [fdata : 0 .. MaxRuns, bolt : Binary \cup {None}]
  /\ trouble \subseteq {"perf", "perf2bolt", "llvm-bolt", "overwritten", "rebuilt", "extract_call_sites"}

(* What is inserted was written by the tracer of this very run, whatever     *)
(* earlier runs, finished or killed, have left in the files.                 *)
NothingStaleInserted == \A x \in text : x.run = run

(* The BOLTed functions, the vtables and the unmoved functions are taken     *)
(* from the same BOLTed binary, even if mysqld.bolt is overwritten between   *)
(* the extractions: it is read once.                                         *)
OneBinary == \A x, y \in text : None \notin {x.elf, y.elf} => x.elf = y.elf

(* The BOLTed binary this run should make *)
Mine == [run |-> run, build |-> target, prof |-> run]

(* If the call sites are those of the binary the target runs, no tool has    *)
(* failed in this run, the target was not rebuilt and no tool of a killed    *)
(* tracer has written mysqld.bolt, or perf.fdata when it was needed, then    *)
(* all that is inserted is about one BOLTed binary, and that was made from   *)
(* the profile of this run and from the binary the target runs.              *)
Consistent ==
  trouble = {} =>
    \A x \in text :
      /\ x.map \in {None, Mine}
      /\ x.elf \in {None, Mine}
      /\ x.build \in {None, target}

(* The panic of a missing or broken BOLTed binary never hits the tracer      *)
(* while the target is paused: only call_sites_all.bin is opened that late.  *)
PanicsBeforePause ==
  [][(pc \in Paused /\ pc' = "aborted") => disk.sites = 0]_vars

(* After a run without trouble the four inputs of the C1 round are there and *)
(* of this run, in the build that README.md describes for it (CONT_OPT, with *)
(* DEBUG_INFO as in the Makefile).                                           *)
ContOptInputs ==
  pc = "ended" /\ trouble = {} /\ defines = {"DEBUG_INFO", "CONT_OPT"} =>
    /\ disk.data2 = run /\ disk.info = run /\ disk.callstack = run
    /\ disk.bolt # None /\ disk.bolt.run = run
=============================================================================
