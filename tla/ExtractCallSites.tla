--------------------------- MODULE ExtractCallSites ---------------------------
(***************************************************************************)
(* The offline program extract_call_sites: it lists the functions of the   *)
(* target binary with nm, divides them among N threads that disassemble    *)
(* them, merges the calls they found and writes them, once by address and  *)
(* once by callee, for the tracer to read.  CallEncoding has the bytes the *)
(* threads decode.                                                         *)
(***************************************************************************)
EXTENDS CallEncoding, Functions

CONSTANTS
  N,              \* number of threads; 16 in the code
  Binaries,       \* symbol tables: sequences of [addr, len, type], by address
  Call,           \* addresses of the direct call instructions
  Target,         \* Target[c]: the address the compiler made c call
  Plt,            \* calls of library functions, through the plt
  ShortName,      \* calls of functions whose names have one or two letters
  ObjdumpMayFail  \* may objdump end without any output?

CallSize == 5

(* The target is linked at a fixed address, below the end of the word: the   *)
(* code keeps 32 bits of every callee.                                       *)
ASSUME ExtractAssumption ==
  /\ N \in Nat /\ N >= 1
  /\ \A nm \in Binaries : \A j \in DOMAIN nm :
       nm[j].addr \in Nat /\ nm[j].len \in Nat \ {0}
  /\ DOMAIN Target = Call
  /\ \A c \in Call : c \in Nat /\ c + CallSize < Word /\ Target[c] \in 0 .. Word - 1
  /\ Plt \subseteq Call /\ ShortName \subseteq Call
  /\ ObjdumpMayFail \in BOOLEAN

VARIABLES
  nm,                \* the symbol table of the target binary
  pc,                \* what main does next
  func_names,        \* func_names[i]: the functions of thread i
  pos,               \* pos[i]: how many of them it has disassembled
  call_sites_array,  \* call_sites_array[i]: the calls thread i has found
  joined,            \* number of threads main has joined
  merged,            \* number of maps main has inserted into call_sites
  call_sites,        \* call_sites_all.bin
  call_sites_list    \* call_sites_list.bin

vars == << nm, pc, func_names, pos, call_sites_array, joined, merged, call_sites, call_sites_list >>

Threads == 0 .. N - 1
NoSites == [c \in {} |-> 0]

(* The entries of m, and those of n under other addresses. *)
Insert(m, n) == [c \in DOMAIN m \cup DOMAIN n |-> IF c \in DOMAIN m THEN m[c] ELSE n[c]]

(* The symbols of functions, weak ones included. *)
func_name(syms) == SelectSeq(syms, LAMBDA s : s.type \in {"T", "t", "W", "w"})

(* Faulty variant: the last thread gets no more than the others. *)
ChunkEqual(fs, i) == LET size == Len(fs) \div N IN SubSeq(fs, i * size + 1, (i + 1) * size)

(* Thread i gets size functions, the last one the remainder as well. *)
Chunk(fs, i) ==
  LET size == Len(fs) \div N
  IN  SubSeq(fs, i * size + 1, IF i # N - 1 THEN (i + 1) * size ELSE Len(fs))

(* The calls of f that are not in the last line of its disassembly. *)
Lines(f) == {c \in Call : f.addr <= c /\ c + CallSize < f.addr + f.len}

(* What thread_function records of f, the target decoded from the bytes      *)
(* objdump prints.  Where another symbol follows the call, there is an empty *)
(* line and the call is skipped.                                             *)
Records(f) ==
  [c \in {d \in Lines(f) \ Plt : \A j \in DOMAIN nm : nm[j].addr # d + CallSize} |->
     [belonged_func |-> f.addr, next_addr |-> c + CallSize,
      target_func_addr |-> target_func_addr(c + CallSize, Assemble(c + CallSize, Target[c]))]]

(* The comparison with "@plt>" takes the last five letters of <name>, which  *)
(* throws when there are fewer.                                              *)
Throws(f) == Lines(f) \cap ShortName # {}

Init ==
  /\ nm \in Binaries
  /\ pc = "nm"
  /\ func_names = [i \in Threads |-> << >>]
  /\ pos = [i \in Threads |-> 0]
  /\ call_sites_array = [i \in Threads |-> NoSites]
  /\ joined = 0 /\ merged = 0
  /\ call_sites = NoSites /\ call_sites_list = NoSites

(* nm, the division of its functions, and the start of the threads *)
RunNm ==
  /\ pc = "nm"
  /\ \/ /\ pc' = "exited"
        /\ UNCHANGED func_names
     \/ /\ pc' = "threads"
        /\ func_names' = [i \in Threads |-> Chunk(func_name(nm), i)]
  /\ UNCHANGED << nm, pos, call_sites_array, joined, merged, call_sites, call_sites_list >>

Working(i) == pc = "threads" /\ pos[i] < Len(func_names[i])
Current(i) == func_names[i][pos[i] + 1]

(* Thread i disassembles its next function; popen is repeated until it works. *)
DisassembleAnd(i, done) ==
  /\ Working(i) /\ ~ Throws(Current(i))
  /\ call_sites_array' = [call_sites_array EXCEPT ![i] = Insert(Records(Current(i)), @)]
  /\ pos' = [pos EXCEPT ![i] = @ + done]
  /\ UNCHANGED << nm, pc, func_names, joined, merged, call_sites, call_sites_list >>

(* Faulty variant: a function without a recorded call is not left. *)
DisassembleStuck(i) == DisassembleAnd(i, IF DOMAIN Records(Current(i)) = {} THEN 0 ELSE 1)

Disassemble(i) == DisassembleAnd(i, 1)

(* An exception that nobody catches *)
Terminate(i) ==
  /\ Working(i) /\ Throws(Current(i))
  /\ pc' = "terminated"
  /\ UNCHANGED << nm, func_names, pos, call_sites_array, joined, merged, call_sites, call_sites_list >>

(* objdump printed nothing: assembly_lines.size()-1 is the largest number    *)
(* and assembly_lines[0] is read.                                            *)
Crash(i) ==
  /\ Working(i) /\ ObjdumpMayFail
  /\ pc' = "crashed"
  /\ UNCHANGED << nm, func_names, pos, call_sites_array, joined, merged, call_sites, call_sites_list >>

(* The threads are joined in the order of their numbers. *)
Join ==
  /\ pc = "threads" /\ joined < N /\ pos[joined] = Len(func_names[joined])
  /\ joined' = joined + 1
  /\ UNCHANGED << nm, pc, func_names, pos, call_sites_array, merged, call_sites, call_sites_list >>

(* insert keeps the entry of an address that is already there. *)
Merge ==
  /\ pc = "threads" /\ joined = N /\ merged < N
  /\ call_sites' = Insert(call_sites, call_sites_array[merged])
  /\ merged' = merged + 1
  /\ UNCHANGED << nm, pc, func_names, pos, call_sites_array, joined, call_sites_list >>

(* The callers of every target, when n maps have been merged *)
WriteListAfter(n) ==
  /\ pc = "threads" /\ joined = N /\ merged = n
  /\ call_sites_list' =
       [t \in {call_sites[c].target_func_addr : c \in DOMAIN call_sites} |->
          {c \in DOMAIN call_sites : call_sites[c].target_func_addr = t}]
  /\ pc' = "end"
  /\ UNCHANGED << nm, func_names, pos, call_sites_array, joined, merged, call_sites >>

(* Faulty variant: the last map is left out. *)
WriteListEarly == WriteListAfter(N - 1)

WriteList == WriteListAfter(N)

Next ==
  \/ RunNm \/ Join \/ Merge \/ WriteList
  \/ \E i \in Threads : Disassemble(i) \/ Terminate(i) \/ Crash(i)

Spec == Init /\ [][Next]_vars

(* Threads are scheduled, and popen fails only for so long.  Nothing makes    *)
(* objdump fail.                                                             *)
FairSpec ==
  /\ Spec
  /\ WF_vars(RunNm \/ Join \/ Merge \/ WriteList)
  /\ \A i \in Threads : WF_vars(Disassemble(i) \/ Terminate(i))
-----------------------------------------------------------------------------
TypeOK ==
  /\ nm \in Binaries
  /\ pc \in {"nm", "threads", "end", "terminated", "crashed", "exited"}
  /\ \A i \in Threads :
       /\ \A j \in DOMAIN func_names[i] : func_names[i][j].type \in {"T", "t", "W", "w"}
       /\ pos[i] \in 0 .. Len(func_names[i])
       /\ DOMAIN call_sites_array[i] \subseteq Call
  /\ joined \in 0 .. N /\ merged \in 0 .. N
  /\ DOMAIN call_sites \subseteq Call
  /\ \A t \in DOMAIN call_sites_list : call_sites_list[t] \subseteq Call

(* The division of func_name loses no function and gives none to two         *)
(* threads, however many there are: the chunks follow each other.            *)
EveryFunctionOnce ==
  pc \in {"threads", "end"} =>
    LET fs == func_name(nm)
    IN  \E start \in [0 .. N -> 0 .. Len(fs)] :
          /\ start[0] = 0 /\ start[N] = Len(fs)
          /\ \A i \in Threads :
               /\ start[i] <= start[i + 1]
               /\ func_names[i] = SubSeq(fs, start[i] + 1, start[i + 1])

(* When the program has ended, the tracer finds under every address exactly  *)
(* the calls the compiler made to it that some function of the symbol table  *)
(* contains, apart from those without a line after them, whatever thread     *)
(* found them and in whichever direction they go.                            *)
Callers(t) ==
  {c \in Call \ Plt :
     /\ Target[c] = t
     /\ \E j \in 1 .. Len(func_name(nm)) : c \in Lines(func_name(nm)[j])
     /\ \A j \in DOMAIN nm : nm[j].addr # c + CallSize}

CallersComplete ==
  pc = "end" =>
    \A t \in Range(Target) :
      Callers(t) = IF t \in DOMAIN call_sites_list THEN call_sites_list[t] ELSE {}

(* extract_call_sites comes to its end, and if nm and objdump could be run   *)
(* and no callee's name has less than three letters, it has written both     *)
(* files, also when there are fewer functions than threads.                  *)
Produces ==
  (\A j \in DOMAIN func_name(nm) : ~ Throws(func_name(nm)[j])) => <>(pc \in {"end", "exited", "crashed"})
=============================================================================
