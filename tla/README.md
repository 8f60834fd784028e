# A TLA+ verification of Ocolos

Ocolos optimizes the code layout of a running process. A *tracer* starts a
target server, profiles it, lets BOLT produce a binary with a better layout,
pauses the target with ptrace, and makes one of its threads execute a preloaded
*library* that copies the optimized code into the process. This directory holds
TLA+ models of that replacement, of the files and tools around it and of the
build accelerator in the same repository, the TLC configurations that check them
and TLAPS proofs of their main properties.

## 1. Inventory

| Part | Source | State | Operations |
|---|---|---|---|
| tracer main | `src/src/tracer.cpp` | the maps of functions, `tids`, the data files | one sequential round: prepare files, pause, unwind, write files, inject, detach, join |
| pausing and hijacking | `src/src/ptrace_pause.cpp` | `tids`, saved registers; in the kernel: stop state, pending signals, wait status | `pause_and_get_tids`, `unwind_call_stack`, `ptrace_single_step`, `ptrace_cont` |
| function selection | `src/src/infrastructure.cpp` 376-548 | none (pure) | `get_unmoved_func`, `get_func_in_call_stack`, `get_unmoved_func_not_in_call_stack` |
| call-site extraction | `src/src/extract_call_sites.cpp` | the map of call sites, written once before the tracer runs | 16 threads of `thread_function`, merge |
| call-site patching | `src/src/extract_machine_code.cpp`, `src/src/utils.cpp` | `call_sites.bin` | `extract_call_sites`, `convert_long_2_vec_uint8` |
| ELF extraction | `src/elf-extract/src/lib.rs` | a process-wide cache of the parsed binary | `write_functions`, `write_vtable` |
| insertion library | `src/src/replace_function.cpp` | the memory of the target | `before_main`, `insert_machine_code` and its four `insert_*` |
| startup and sockets | `infrastructure.cpp` 51-161, `replace_function.cpp` 132-215 | TCP sockets on ports 8000, 9000, 18000 | address of the library to the tracer, data path to the library |
| profiling and BOLT | `infrastructure.cpp` 166-491 | the files of `tmp_data_path`, kept from run to run | runs `perf`, `perf2bolt`, `llvm-bolt`, `nm` and parses their output |
| build accelerator server | `src/build-accelerator/rca-clang/src/server` | the connection count, the flag behind the mutex, profiles, children | accept loop, BOLT thread |
| build accelerator client | `rca-clang/src/lib.rs`, `rca-clang-new/src/lib.rs`, `dummy_client` | the process that is about to become a compiler, its environment | hooks of `execve` and `execvp` |
| LLVM pass | `src/hook-function-pointers-llvm` | none | IR rewriting |

How they interact. `extract_call_sites` runs once, offline, and leaves a map of
the direct calls of the binary. The tracer forks the target with the library in
`LD_PRELOAD`; the library sends the address of `insert_machine_code` over port
8000. After profiling, the tracer writes the moved functions and vtables,
pauses the target, and decides from the stacks what may be overwritten. It
diverts `rip` of one thread to the library, which fetches the data path over
ports 9000 and 18000, copies the four files, and reports its end with
`raise(SIGSTOP)`. The tracer restores the registers and detaches.

The build accelerator is a program of its own. A preloaded library hooks the
calls that start clang and asks a server on port 8000 what to run; the server
profiles the first compilers, then makes an optimized clang in a second thread
while it goes on answering.

What is hard about it:

* The target is a running multithreaded program. It is paused thread by thread
  through a directory listing, and any thread may be anywhere: in the middle of
  a function that is going to be overwritten, asleep in the kernel, inside
  malloc, about to end, about to create another thread.
* The decision what may be overwritten is made from return addresses with a
  lookup in a symbol table that does not hold every function.
* The insertion itself is not atomic. A thread that was not paused sees it
  happen, and a signal may end it for good after any record.
* ptrace multiplexes the attach SIGSTOP, the library's SIGSTOP, the single-step
  SIGTRAP and the signals of the program over one wait status per thread.
* Displacements of patched calls are encoded by hand.
* The library maps and unprotects pages by a loop over addresses, in an address
  space where the heap grows meanwhile and two records may share a page.
* The files outlive the tracer, the tools may fail without being noticed, and an
  `perf2bolt` or `llvm-bolt` may outlive the tracer that started it.
* The accept loop, the BOLT thread and any number of compilers share a flag, a
  directory and a clock.

What makes each part correct:

* *replacement as a whole*: the program does not notice (`Transparent`);
* *insertion order*: nothing ever leads to code that is not there
  (`NoDanglingCall`);
* *selection*: no frame loses its code (`FramesResumable`), and everything that
  should be optimized is (`FinishedMeansReplaced`);
* *session*: what was seen is paused, registers come back, a claimed insertion
  has happened, the session ends and the target runs again
  (`SeenThreadsPaused`, `OnlyTidDiverted`, `ClaimedMeansInserted`,
  `SessionEnds`, `HijackEnds`, `TargetResumes`);
* *startup and sockets*: the tracer hijacks with its own target's address, nobody
  connects where nobody listens, nobody waits for ever, success means an insertion
  (`LibAddrIsTarget`, `SenderFindsLibrary`, `LibAddrArrives`, `HandshakeEnds`,
  `DoneMeansInserted`);
* *extraction*: every function is disassembled once, every call ends up under its
  callee (`EveryFunctionOnce`, `CallersComplete`, `Produces`);
* *call sites*: the recorded callee is the real one, the patched call reaches
  the moved function (`RecordsCallee`, `PatchReachesMovedFunction`);
* *pages*: no copy faults, the target loses no access, inserted code can be
  executed, and the library gives up only for a page that is in its way
  (`CopyNeverFaults`, `TargetKeepsAccess`, `BoltedExecutable`, `ExitJustified`);
* *data files*: only what this run wrote is inserted, from one binary made from
  this run's profile; a broken binary is found before the pause; the next round
  has its inputs (`NothingStaleInserted`, `OneBinary`, `Consistent`,
  `PanicsBeforePause`, `ContOptInputs`);
* *build accelerator*: nobody runs an unfinished binary, no complete profile is
  lost, no two compilers write the same profile, perf does not run perf,
  every compiler runs, the optimized one is announced (`RunsFinishedBinary`,
  `NothingFinishedLost`, `ProfilesDistinct`, `NoPerfUnderPerf`,
  `EveryCompilerRuns`, `BoltAnnounced`).

The hazards behind these are listed, with their lines, in `PROJECT.json`.

## 2. Modules

| Module | Models |
|---|---|
| `CallEncoding` | the arithmetic of `call rel32`: decoding in `extract_call_sites.cpp`, encoding in `extract_machine_code.cpp` and `utils.cpp`, the processor as reference |
| `CallSitePatch`, `MCCallSitePatch` | one call instruction from the compiler through extraction and patching to the processor |
| `BinaryLayout` | the two binaries as constants, and the tracer's pure selection functions |
| `CodeReplace`, `MCCodeReplace` | the threads of the target, the tracer and the library during one replacement |
| `Program` | the abstract specification: what the target does when nobody replaces its code |
| `PtraceSession` | the ptrace session at the level of signals, stop states and wait statuses |
| `Handshake` | the start of the target, `before_main`, the tracer's second thread and the library on the three TCP ports |
| `ExtractCallSites`, `MCExtractCallSites` | the offline program: division of the functions, disassembling threads, merge, the two files |
| `PageMap`, `MCPageMap` | the page loops of the library, page by page |
| `DataFiles` | the files of `tmp_data_path` and the steps of `main` that touch them, over several runs |
| `RcaServer`, `MCRcaServer` | the build accelerator: compilers, accept loop, BOLT thread |
| `CallEncodingProofs`, `CallSiteProofs`, `CodeReplaceProofs`, `PageMapProofs`, `DataFilesProofs`, `PtraceSessionProofs`, `HandshakeProofs`, `RcaServerProofs` | theorems; `CallSiteProofs` is about `CallSitePatch` and `ExtractCallSites` |

`CodeReplace` extends `BinaryLayout`, which extends `CallEncoding`: the address
a patched call reaches in the model is computed by the encoder that is proved
correct, and the theorem about the encoder is used in the proof about the
replacement. `CodeReplace` instantiates `Program`. `ExtractCallSites` and
`CallSitePatch` extend `CallEncoding` as well, so the callee that is recorded
there is the one the decoder computes. `PageMap` details what `CodeReplace` calls
one copied record or `PrintErrAndExit`; `DataFiles` says where the records come
from.

A definition named `...Unchecked`, `...SitesFirst` and the like, announced as a
*faulty variant*, is never part of a specification. It states a plausible bug
of the definition that follows it; with the bug in place TLC must refute the
property, which shows that the property watches that code.

### CallEncoding and CallSitePatch

Displacements are four digits in radix `Radix`. The code's radix is 256; the
operators are the same digit arithmetic in radix 16, whose words fit in TLC's
32-bit integers. `CDiv` and `CMod` are C++'s truncating operators, `uint8` the
cast. `Assemble` and `CallDest` are the compiler and the processor, which define
what is right and are not part of the repository.

### BinaryLayout

A function is its start address. The constants say where functions, calls and
vtable slots are, which functions `nm` lists as T or t (`TextSym`), which ones
BOLT moved and where (`Moved`, `MovedAddr`: the result of `run_llvmbolt`), and
which addresses have a symbol in the BOLTed binary (`BoltSym`).
`LayoutAssumption` says that functions are disjoint, calls lie inside their
functions, and BOLT's text is above the original text within reach of a positive
displacement. `SymbolsComplete` says that the BOLTed binary has a symbol for
every function BOLT reports as moved; `write_functions` would skip the others.

`FuncOfIp` is the lookup of `get_func_in_call_stack`: the symbol before
`lower_bound(ip)`. Three details matter and are in the model: an address above
the last symbol finds nothing; an address at or below the first one takes
`prev(begin())`, which is undefined, so the model chooses among what libstdc++
does; a return address that equals the start of the next function is attributed
to the caller, as it should be. `call_sites_all` leaves out a call that ends its
function, because `thread_function` needs the following line of the
disassembly.

### CodeReplace

`text[f]` is what lies at `f`'s original address, `bolted[g]` what lies at `g`'s
new one, `site[c]` and `slot[v]` where calls and vtable slots lead. A frame
remembers the code version it began executing; `Executable` says whether it can
go on. A `memcpy` is two steps, with the destination *torn* in between. The
records of a file are copied in any order (they come from unordered maps). A
file of `Unreadable` may be one that `fopen` does not open, or whose records end
early because a `fread` fails: the library goes on with the next file (`Through`).

| Code | Actions |
|---|---|
| target program | `Step`, `Call`, `VirtualCall`, `Return`, `Spawn`, `Fault` |
| `main`, files | `PrepareFiles`, `CleanUp` |
| `pause_and_get_tids` | `ScanTasks`, `Attach` |
| `unwind_call_stack` to `write_functions` | `Unwind` |
| `ptrace_single_step`, `ptrace_cont` | `SingleStepTrue`, `SingleStepFalse`, `NoThreadLeft`, `ContSigstop`, `ContOther` |
| detach, join, exits | `Detach`, `Done`, `TracerExit`, `TracerFails` |
| `insert_machine_code` | `Handshake`, `BeginX`/`EndX` per record, `NextFile`, `RaiseSigstop`, `PrintErrAndExit` |

A vtable is one record per slot. `DEBUG_INFO` is a constant because the
`Makefile` builds the tracer with it, and `clean_up` is compiled only without.

### PtraceSession

The kernel's side is explicit: `pending` signals, the wait status `report`, the
traced threads, a process-wide `groupStop`, the sleeping threads, and one lock
that stands for those of malloc and stdio. Reading `/proc/<pid>/task` is not
atomic: threads that start or end during a pass may or may not be seen. A
resumed thread takes a pending signal before it executes an instruction. A
thread that was asleep restarts its system call two bytes before the diverted
`rip`, which is how `ptrace_single_step` recognizes it. When the tracer exits,
the kernel resumes what it had stopped. Signals a thread was stopped for are
dropped, as the code passes 0 to every ptrace call that resumes.

### Handshake

A port has the set of processes that hold its listening socket and a backlog of
connections; a connection is open, written or at its end. `bind` on a taken port
fails silently and `connect` to a port without listener is refused silently, as
the code ignores both results; the write that follows raises SIGPIPE. Sockets
are inherited over `fork` and `execve`, so the target holds port 8000 for its
whole life. `accept` and the `read` after it are one step, taken when there is
something to read, except in `SenderAccept`, which reads nothing.

| Code | Actions |
|---|---|
| `main`, first half | `CreateTcpSocket`, `CreateTargetServerProcess`, `GetLibAddr`, `StartSender`, `RunBenchmark` |
| `main`, second half (in detail in `PtraceSession`) | `Hijack`, `LibraryReturned`, `Join` |
| `send_data_path` | `SenderListen`, `SenderAccept`, `SenderConnect`, `SenderWrite` |
| `before_main` | `BeforeMainConnect`, `BeforeMainWrite` |
| `insert_machine_code` | `LibListen`, `LibConnect`, `GetDataPath`, `InsertMachineCode` |
| target program and its signals | `ExecChild`, `TargetDies`, `SignalStops` |

`LibraryReturned` has the three outcomes of `ptrace_cont`: the library raised its
SIGSTOP (`"back"`), another signal stopped the traced thread (`"signalled"`,
`ptrace_pause.cpp:212-222`; the tracer reports it, restores the registers, detaches
and joins), or the target is dead and the tracer exits. `SignalStops` lets such a
signal arrive at any point of the library; `interrupted` remembers that
`ptrace_cont` has returned for one. The library's sockets stay open then.

The data path is its length. A cut path names no data directory; whether the
library can still create its log under the cut name (and so goes on to raise
SIGSTOP) or gets a SIGSEGV in `fclose(NULL)`, which stops it like any signal,
depends on the directories, and both happen in the model.
`CleanHeap` says whether the memory behind the received digits is
zero. Nothing but main's sleeps makes the second thread listen before a thread is
hijacked; the model lets it be late.

### ExtractCallSites

A binary is the list of symbols `nm` prints; a call is its address. `Chunk` is
the division, `Lines` the calls of a function that are not in the last line of
its disassembly, `Records` what one function adds. An empty line after a call
stands wherever another symbol begins. The last record of an address wins inside
a thread (`operator[]`), the first one in the merge (`insert`), which is one step
per map (`Insert`, `merged`). `call_sites_list` is
checked against `Callers`, which knows neither threads nor order.

### PageMap

A page has the accesses it allows, or is not mapped; a record is an address and a
length. `page` is the code's `offset`, counted in pages of the address space.
`insert_BOLTed_function` maps pages (`MmapPage`), the other three files go through
`insert_code_to_orig_text_sec` (`MprotectPage`); a page of `allocated_pages` is
skipped, and the set starts empty with each file. The bound of the loop is
inclusive and one page too generous, so it reaches up to two pages beyond the
record (`Near`). `mine` is what the library has mapped. `GrowHeap` is the malloc of
the library itself (the sets, the strings, stdio). `Finish` is the last loop of
`insert_machine_code`, over a set of its own that stays empty.

### DataFiles

A file is reduced to where its contents come from: a profile to the run that
recorded it, `mysqld.bolt` to the run, target binary and profile it was made
from, the four `.bin` files to a set of pieces. perf, perf2bolt and llvm-bolt may
fail in every way that leaves old, no or half results; as the code ignores their
exit codes the tracer goes on. `trouble` collects what went wrong, for the
properties only. `ELF` is the set of OnceCells of `elf-extract`; `init` reads the
disk only when they are empty. `Pause` and `InsertMachineCode` stand for what
`PtraceSession` and `CodeReplace` detail; the library inserts any subset of the
files, as it skips one it cannot open. A killed tracer leaves its perf2bolt or
llvm-bolt behind. The one overwrites `perf.fdata` at any time (`OrphanConverts`),
the other truncates and later completes `mysqld.bolt` (`OrphanOpens`,
`OrphanWrites`).

| Code | Actions |
|---|---|
| `run_perf_record`, `run_perf2bolt`, `run_llvmbolt` | `RunPerfRecord`, `RunPerf2bolt`, `RunLlvmbolt` |
| the calls of `nm` | `RunNm` |
| `rm -rf` and `fopen(..., "a")` in `main` | `DeleteBins` |
| `write_functions`, `write_vtable`, `init` | `WriteBoltedFunctions`, `WriteVtable`, `WriteUnmovedFunctions`, `InitPanics` |
| `write_func_on_call_stack_into_file`, `extract_call_sites` | `Pause`, `AppendCallSites`, `ArchiveThrows` |
| the library, `clean_up`, `CONT_OPT` | `InsertMachineCode`, `CleanUp`, `ContOpt` |
| `popen` or `system` fail | `PopenFails` |
| users | `StartTracer`, `Kill`, `Rebuild`, `ExtractOffline` |
| tools of a killed tracer | `OrphanConverts`, `OrphanOpens`, `OrphanWrites` |

### RcaServer

A client is a process from the exec call that should start clang: `image` says
what it has become. `Connect` and `Write` are two steps: a server that ends in
between makes the write fail, whose `unwrap` panics, or the read after it.
Connections wait in `backlog`; the accept loop copies the flag
under the mutex, counts, and answers (`ReplyPerf` after `StartSleep`, `ReplyPlain`,
`ReplyBolted`) once the client has written or is gone (`Reads`). The BOLT thread lists the directory (`ReadPerfDir`), starts
converters in batches (`StartPerf2bolt`, `WaitBatch`, `WaitRest`), merges, runs
llvm-bolt and sets the flag; each `expect` is `BoltPanics`. Abstractions:

* `Tick` is three seconds, the sleep of the server. A profile's name is a
  millisecond, so profiles started between the same two ticks may collide. A
  client that was told to profile starts perf before the next tick.
* The build runs at most `Jobs` compilers that matter at once.
* The directory holds profiles only: `.fdata` files of the same batch, which
  `read_dir` may list too, make a perf2bolt fail and change nothing else.
* A restarted server is a new `Init`. A clang that is not profiled is followed
  only until it is executed.

## 3. Runs

| Run | Result | What it shows |
|---|---|---|
| `call_site` | pass | 10 following addresses x 14 callees x 13 new addresses, chosen at the carries and borrows of every digit, on both sides of the calls and of the end of their reach |
| `code_replace` | pass | two threads, six functions, stacks of depth 3: all safety properties and the refinement of `Program` |
| `code_replace_escape` | pass | a thread that was never paused, signals that end the insertion and a vtable file that is skipped or cut while the next one is inserted: the insertion order still holds |
| `code_replace_last` | violation | a thread in the last function of the symbol table |
| `ptrace_session` | pass | three threads, one created late, one stray signal, libc locks: safety and liveness |
| `ptrace_session_race` | violation | a thread created after the last scan is not paused |
| `ptrace_session_lock` | violation | the library waits for a lock of a paused thread |
| `handshake` | pass | safety and liveness of the exchange: paths of 79 to 81 bytes, any port taken, two other programs, a target that dies anywhere, a late second thread, a signal that stops the library anywhere |
| `extract_call_sites` | pass | 10 symbol tables, three threads, an aliased and a nested symbol, crashes: the files are complete, and they are written |
| `page_map` | pass | 480 sets of files in three address spaces, a growing heap: safety of the page loops and what they leave to the target |
| `data_files` | pass | two runs in the same directory, two builds of the target, every tool failing, a tracer killed anywhere whose tool goes on, files the library cannot open, four sets of compiler flags |
| `rca_server` | pass | four compilers, two at a time, every hook, a killed client, a server stopped anywhere, a panicking BOLT thread: safety and liveness |

Every violation is a disagreement between the code and a sentence in its own
documentation; `PROJECT.json` quotes it under `findings`.

**Limits of the code.** Some properties hold under a condition that the code does
not establish. The condition is part of the property, or a constant
(`CleanHeap`, `Unreadable`), and the model contains the case it excludes:

| Property | Condition | Otherwise |
|---|---|---|
| `PatchReachesMovedFunction` | the moved function is above the call | `convert_long_2_vec_uint8` truncates negative digits and the call goes elsewhere |
| `DoneMeansInserted` | the data path has at most 80 bytes | the one `read` (`replace_function.cpp:157`) cuts it, no file is found, and the tracer may print that the replacement is done |
| `DoneMeansInserted` | no signal but its own stopped the library (`interrupted`) | `ptrace_cont` returns (`ptrace_pause.cpp:212-222`); if the library had asked for the path, `send_data_path` ends, the join succeeds, and the tracer prints that the replacement is done although nothing, or half, is inserted |
| `LibAddrArrives` | `bind` gave the tracer port 8000 | its result is ignored (`infrastructure.cpp:70`); as the socket is inherited, an earlier target that still runs is enough, and the tracer waits for ever |
| `HandshakeEnds` | port 9000 is listened on when the library starts, 18000 is free | the library, or both sides, wait for ever |
| `HandshakeEnds` | no signal stops the library before it has asked for the path (`NeverAsked`) | `ptrace_cont` returns, `send_data_path` stays in `accept`, and `t.join()` never returns |
| `LibAddrIsTarget` | `CleanHeap` | `get_lib_addr` converts what the buffer holds behind the digits (`infrastructure.cpp:94`) |
| `SessionEnds`, `HijackEnds`, `TargetResumes` | no paused thread holds the library's lock (`LibBlocked`) | `ptrace_session_lock` |
| `TargetResumes`, `HijackEnds` | no signal arrives during the session (`sent`) | `waitpid` after the attach does not look at the status (`ptrace_pause.cpp:40`): the SIGSTOP of the attach may stay pending and stop the target after the detach |
| `FinishedMeansReplaced` | the library has finished | a stray signal makes `ptrace_cont` return early (`ptrace_pause.cpp:212`), half of the records stay, and `main` prints that the replacement is done |
| `FinishedMeansReplaced` | the four files can be read (`Unreadable = {}`) | a file that cannot be opened is skipped without a word (`replace_function.cpp:370-385`) |
| `NoDanglingCall`, `FramesResumable`, `Transparent` | `bolted_functions.bin` can be read (`"bolted" \notin Unreadable`) | calls, slots and functions that lead to the missing code are inserted all the same |
| `ExitJustified` | the page is occupied, or the record empty | README.md:172-173 of the repository explains "mmap failed. file exists." by an overlap with the heap; a heap that ends next to the BOLTed code is enough, and a symbol of size 0 ends the target too |
| `Consistent` | no tool has failed, the target was not rebuilt, no tool of a killed tracer wrote in between (`trouble`) | exit codes are ignored (`infrastructure.cpp:333`): vtables and unmoved functions of an older `mysqld.bolt` are inserted |
| `PanicsBeforePause` | `call_sites_all.bin` exists | it is opened only after the pause (`extract_machine_code.cpp:10`); the exception leaves the round unfinished |
| `ContOptInputs` | built with `DEBUG_INFO` | `clean_up` deletes `*.txt`, `BOLTed_bin_info.txt` included (`utils.cpp:336`) |
| `ProfilesDistinct` | the compilers are started by `execve` | the `execvp` hook profiles without asking the server, whatever `NUM_PERF_DATA` says, and under a name that may be taken |
| `EveryCompilerRuns` | counts a panic or failed exec as an end | `wrap_envp` panics without `LD_PRELOAD` (`lib.rs:146`), and the `unwrap` of the write when the server has ended since the connect (`lib.rs:199`); the flag is set although llvm-bolt left no binary, and the compiler does not fall back to clang |
| `Produces` | no callee has a name of one or two letters | `substr` throws in a thread (`extract_call_sites.cpp:52`) and neither file is written |

`before_main` means to remove `LD_PRELOAD` but compares it with a value without a
directory (`replace_function.cpp:175`), so every program the target executes
loads the library and connects too (`ExecChild`); `LibAddrIsTarget` holds all the
same, because the target's own connection is the first in the backlog. The
comment in `utils.hpp:242-244` describes the digits of `convert_long_2_vec_uint8`
as highest first; the code pushes the lowest first, as the processor needs.

**Bounds.** The program of `MCCodeReplace` has a function that is kept and calls
a moved one, one whose last instruction is a call (so that its return address
is the start of the next function), two moved functions that call each other, a
weak function that `nm` lists as W, and the last function of the table. Two
threads are enough for a stack the tracer reads and one that interferes; depth 3
(`MaxDepth`) lets an outer frame return into replaced code after two calls. The
`Escape` run has one vtable slot less to keep it small, and `Unreadable` is
`{"vtable"}` there, so that a file is skipped, or cut after any record, between two
that are inserted; the other runs have `Unreadable = {}`, and the proof of
`NoDanglingCall` covers every choice without `"bolted"`. In `PtraceSession` three
threads give a thread that is tried, one after it in `tids` and one created
late; `MaxSignals = 1` is enough for each of the orders of the two signals a
thread can have.

`MCPageMap` has pages of four bytes, so that every offset of a record in its page
and every length around a page are tried; 15 pages hold text, data, a heap that
grows up to the BOLTed code (`MaxHeap = 8`) and that code at two places. In
`DataFiles`, `MaxRuns = 2` gives every file a past, `MaxBuilds = 2` every address a
wrong binary; the proofs have no bound. `MCRcaServer` has `NUM_PERF_DATA = 2` and
four clients: two profiled ones, the one that starts the BOLT thread, and one
that may take any hook and come before, during or after that thread's work; with
`NUM_PERF2BOLT_IN_PARALLEL = 2` there are full and smaller batches. `MaxPerfs`
only cuts off the runaway of a faulty variant.

`Handshake` is finite but for the programs the target executes (`MaxChild`); 79
to 81 surround the read's limit. `MCExtractCallSites` takes every prefix of one
table of nine symbols, so that the number of functions is below,
at and above the number of threads, with every remainder.

The runs check `TypeOK` where it is the base of a proof or says more than types
(`tids` of `PtraceSession` holds no thread twice); in `Handshake`,
`ExtractCallSites` and `RcaServer` it describes the state.

**Deadlock** is not checked in the concurrent modules: the target may end, and
the tracer and the extraction end.

**Fairness.** In `Handshake`, weak fairness of the two threads of the tracer and of
the library: a thread that is not blocked in `accept`, `read`, `waitpid` or
`join` goes on. Nothing makes the target die, execute programs or receive a signal. In
`ExtractCallSites`, of main and each thread, not of the failure of objdump;
`popen`, which the code repeats every second until it works, works in the end.
In `PtraceSession` (`Fairness`), weak fairness of the tracer (a
sequential process whose calls return), of the kernel's delivery of signals and
of the execution of a resumed thread by the scheduler, and strong fairness of the
library's two steps: a thread the tracer never paused may take and release the
lock of libc again and again, and a futex waiter gets it in the end. Nothing is
assumed of the program of the target: a thread may sleep, or hold a lock, for
ever. In `RcaServer`, weak fairness of each client, of the accept loop, of the
clock and of the BOLT thread with the tools it waits for; nothing makes anybody
start, kill or finish a compiler, or stop the server. The
termination of the scan rests on the finite set of threads: a target that
creates threads faster than the directory can be read would keep it going.

## 4. Proofs

Constants are arbitrary in all of them; the assumptions are `RadixAssumption`,
`LayoutAssumption`, `SymbolsComplete`, `ThreadAssumption`,
`CallSitePatchAssumption`, `ExtractAssumption`, `PageAssumption`,
`DataAssumption`, `SessionAssumption`, `HandshakeAssumption` and `RcaAssumption`,
which TLC evaluates in the runs of their modules.

* `PatchedCallReachesTarget`: for a target above the call within half a word,
  `CallDest(next, PatchedCall(next, target)) = target`, in every radix of at
  least 2, so in the code's 256. The digits are recombined by uniqueness of
  quotient and remainder (`Quotient`) and Horner's scheme (`Horner`).
  `RecordedTargetIsCallee`: the same for decoding, both directions.
* `TypeOKHolds` (`Spec => []TypeOK`). `TypeOK` alone is not inductive: that
  `stack[t]` is not empty for a started thread, that the hijacked thread exists
  while the library runs and that the record being copied belongs to the file of
  the phase are added (`StackShape`, `LibShape`; together `TypeInv`).
* `NoDanglingCallHolds` (`Spec => []NoDanglingCall`) if `bolted_functions.bin` can be
  read, without any assumption on the later files, late threads or signals. The invariant `InsertInv` follows the phases of
  `insert_machine_code`: before the second file everything is as in the original
  and no thread is in moved code; from then on every moved function is
  complete, because the first file held them all and is empty. Each pointer then
  leads to one of two good places or is the record being copied. The address a
  patched call reaches comes from `PatchedCallReachesTarget`.
* `FramesResumableHolds`: if there is no late thread, `LastSymbolIdle` holds and
  `bolted_functions.bin` can be read, then `Spec => []FramesResumable`. The invariant `FramesInv` says that while the
  tracer injects, every thread is stopped or is the hijacked one, and that no
  frame in the middle of a function lies in `funcFile` or in the function being
  copied. The key lemma `UnwindSelects` is about the lookup: every frame in the
  middle of an unmoved T function other than the last finds that function.
  The first two hypotheses are needed: the `_race` and `_last` runs are the
  counterexamples without them. The third comes with `InsertInv`.
* `FinishedMeansReplacedHolds` (`Spec => []FinishedMeansReplaced`) if the four files
  can be read. What has to be redirected is fixed only when the stacks have been
  walked, so the invariant `ReplaceInv` speaks of what is still to come: every slot
  holds the new address or is in `vtabFile` or being copied (`SlotsInv`), every call
  of an unmoved function to a moved one is patched, overwritten with its
  function, or will be by a record that is left (`CallsInv`), and a file is empty
  when the next one is begun (`PhaseInv`).
* `TransparentHolds`: if there is no late thread, `LastSymbolIdle` holds, there are
  no stray signals and `bolted_functions.bin` can be read, `CodeReplace` implements `Program` under the mapping of
  `Source` (stacks to the functions of their frames, alive or ended). The initial
  states map to initial states (`SourceInit`); a step of a thread is a call along an
  edge of the source's call graph, a return, an exit or a stutter
  (`SourceThread`); a step of the tracer or the library is a stutter
  (`SourceOthers`). The invariants used are `TypeInv`, `InsertInv` (wherever a call
  leads, it is the same function of the source), `FramesInv` (the code a frame
  returns to is there) and `QuietInv` (a function half overwritten is being copied
  at this moment, and nobody but the library runs then). Without one of the
  hypotheses a thread can crash, which is no step of `Program`.

* `PatchTypeCorrect`, `PatchRecordsCallee`, `PatchedCallArrives`: the three
  invariants of `CallSitePatch`, for every set of addresses in every radix. They
  rest on the two theorems about the encoder; the invariant adds that the patched
  bytes are those of `PatchedCall`.
* `ExtractDivides`, `ExtractComplete`: the two invariants of `ExtractCallSites`, for
  every symbol table, every set of calls and every number of threads, also more
  threads than functions. Share `i` begins at `i * (Len \div N)` (`StartOrder`,
  `SomeShare`: no function is outside all shares, by the quotient of its index).
  `ExtractInv` says that a thread at `pos[i]` has recorded just the calls of its
  first `pos[i]` functions, each with the right callee by
  `RecordedTargetIsCallee` (`FoundInv`), that a joined thread is at its end
  (`JoinedInv`), and that `call_sites` is the union of the merged maps
  (`MergedInv`). Two functions that overlap record the same call with the same
  callee, so neither the order of the threads nor who wins in `insert` matters.
* `PageMapProofs`: `TypeCorrect`, `CopySafe`, `ExitSafe`, `BoltedSafe` and the action
  property `AccessKept`, for every page size, address space, set of files and
  growth of the heap. `CopyNeverFaults` is not inductive: `LoopInv` says that the
  pages from the first one to the present are in `allocated_pages`, and that after
  the loop its condition is false; `AllocatedInv` that those pages are mapped and
  writable; `MineInv` that in the first file they are just the library's own.
  That the loop ends beyond the record is arithmetic of products with the page
  size (`MulMonotonic` and the lemmas after it).
* `DataFilesProofs`: `TypeCorrect`, `NoStaleCode`, `SameBinary`, `RightCode`,
  `NextRound` and `PanicEarly`, for any number of runs and builds. `BinsInv` follows
  the four files from the `rm` on (whatever they hold then is of this run and of
  the binary in `ELF`), `TextInv` does so for what is inserted, `ELFInv` says when the
  cells are filled, which gives `OneBinary` and, as they are filled before the
  pause, `PanicsBeforePause`; `CleanInv` follows a run without trouble step by step,
  from the profile to the inputs of the next round.

* `PtraceSessionProofs`: `SessionTypes`, `SessionPaused`, `SessionRegisters`,
  `SessionClaim`, for every set of threads and every creation, exit and stray signal
  the module allows. `SessionInv` follows the loops of the tracer by its index `i`:
  the threads already attached are traced or gone (`AttachInv`); those waited for
  stand still with no status left to report, and so do all but the one tried until
  the loop of `PTRACE_DETACH` (`QuietInv`); the last pass over the directory found
  nobody new (`ScanInv`). `DivertInv` says that only the thread being tried has the
  library's registers and that those saved are its own. `RaiseInv` is why
  `ClaimedMeansInserted` holds: after the SIGTRAP of the single step no SIGSTOP of
  `PTRACE_ATTACH` is pending, so the next one is the library's.
* `HandshakeProofs`: `WireAddress` (if `CleanHeap`), `WireConnects`, `WireDone`, for any
  length of the data path and any order of the two processes and the programs the
  target executes, and wherever a signal stops the library. `AddrInv`: while the tracer listens on 8000, the target is first
  in its backlog, so an inherited `LD_PRELOAD` in another program comes too late.
  `AskInv`: only the library, once it listens on 18000, makes the second thread
  connect there; until it has, the library waits in `accept` or was stopped by a
  signal, its socket still open. `DoneInv`: without such a signal (`interrupted`), main
  joins that thread without an insertion only when nobody has asked it and nobody
  will, so it does not return.
* `RcaServerProofs`: `RcaTypes`, `RcaBinary`, `RcaConverted`, `RcaNames`, `RcaPerf`, for
  any number of compilers, profiles and perf2bolts at once. `AnnounceInv`: the flag
  is set after llvm-bolt has ended, and whoever is told `bolted` is told so after
  the flag. `BatchInv`: a complete profile is still listed, in a perf2bolt that
  runs, or converted. `NamesInv`: after the server has slept nobody it told to
  profile has still to start, and none was started at the present second; so it
  stays until the next one has started, so no two get the same second as a name.
  `CountInv`, needed for the types, bounds the connections by the cardinality of
  the clients that have asked.

Only model-checked, because the prover handles neither fairness nor `ENABLED`: the
liveness properties (`HijackEnds`, `TargetResumes`, `SessionEnds`,
`LibAddrArrives`, `HandshakeEnds`, `Produces`, `EveryCompilerRuns`, `BoltAnnounced`).
The runs that expect a violation are counterexamples and have nothing to prove.
Every invariant of a passing run, and every action property, is a theorem.

## 5. Not modelled

* `Handshake`, `PtraceSession`, `CodeReplace`, `PageMap` and `DataFiles` are not
  composed: each has the others' part as one step that succeeds, or ends the
  process.
* The failure of `socket` and `setsockopt`, and a benchmark that cannot be executed.
* What perf, perf2bolt and llvm-bolt compute: external programs; which functions
  move is constant, which files they leave is in `DataFiles`.
* Function pointers held in registers, on stacks or in data other than vtables.
  They keep leading to the original functions, which stay callable. The LLVM pass
  `HookFunctionPointers` inserts calls for them whose bodies are not in this
  repository; the pass itself is a sequential rewriting of IR.
* The second branches of `run_perf2bolt` (`func_exec_count > 1`): `main` calls it
  once.
* Parsing, formatting and configuration (`utils.cpp`, `utils.hpp`, `nm.rs`, the C
  helpers of the build accelerator, which nobody calls), and the stack space of
  the hijacked thread.
* The DEBUG build, which stops the target for a debugger.

## 6. Plan

1. An abstract `Pause` specification that `PtraceSession` implements and whose
   steps are those of `CodeReplace`, with the refinement proved from `SessionInv`.
2. Lemmas about `BinaryLayout`'s selection functions as theorems of their own:
   `get_unmoved_func_not_in_call_stack` returns just the unmoved functions no frame
   is in, except for the last symbol.
3. Safety under which the liveness properties rest, as theorems: the scan adds
   only threads that were not there, the loops over `tids` only move forward.
