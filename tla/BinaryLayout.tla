----------------------------- MODULE BinaryLayout -----------------------------
(***************************************************************************)
(* The target binary (C0), its BOLTed version (C1), and the tracer's pure  *)
(* functions that decide what is written into the running process.         *)
(*                                                                         *)
(* A function is named by its start address in C0, a direct call by the    *)
(* address of its instruction.                                             *)
(***************************************************************************)
EXTENDS CallEncoding

CONSTANTS
  Func,        \* start addresses of the functions of C0
  FuncSize,    \* FuncSize[f]: bytes of f
  TextSym,     \* functions `nm` lists as T or t; weak ones (W, w) are not here
  Moved,       \* functions BOLT moved: the keys of bolted_func
  MovedAddr,   \* MovedAddr[g]: where BOLT moved g
  BoltSym,     \* addresses that have a symbol in the BOLTed binary
  CallIns,     \* direct call instructions
  CallFunc,    \* CallFunc[c]: the function that contains c
  CallTarget,  \* CallTarget[c]: the function c calls in the source program
  Slot,        \* addresses of the vtable slots
  SlotTarget,  \* SlotTarget[v]: the function the source program puts in v
  SlotUser     \* SlotUser[v]: the functions that call through v

CallSize == 5   \* opcode and four bytes of displacement

(* The original text is a sequence of disjoint functions, calls lie inside   *)
(* their functions, and BOLT puts the moved functions above the whole        *)
(* original text, within reach of a positive displacement.                   *)
ASSUME LayoutAssumption ==
  /\ Func \subseteq Nat
  /\ FuncSize \in [Func -> Nat \ {0}]
  /\ \A f, g \in Func : f < g => f + FuncSize[f] <= g
  /\ TextSym \subseteq Func
  /\ Moved \subseteq Func
  /\ MovedAddr \in [Moved -> Nat]
  /\ \A g, h \in Moved : MovedAddr[g] = MovedAddr[h] => g = h
  /\ \A f \in Func, g \in Moved : f + FuncSize[f] <= MovedAddr[g]
  /\ CallIns \subseteq Nat
  /\ CallFunc \in [CallIns -> Func]
  /\ CallTarget \in [CallIns -> Func]
  /\ \A c \in CallIns : /\ CallFunc[c] <= c
                        /\ c + CallSize <= CallFunc[c] + FuncSize[CallFunc[c]]
  /\ \A c \in CallIns, g \in Moved : MovedAddr[g] - (c + CallSize) < HalfWord
  /\ Slot \subseteq Nat
  /\ SlotTarget \in [Slot -> Func]
  /\ SlotUser \in [Slot -> SUBSET Func]

(* The BOLTed binary has a symbol at every address BOLT reports a function   *)
(* moved to.                                                                 *)
ASSUME SymbolsComplete == \A g \in Moved : MovedAddr[g] \in BoltSym

-----------------------------------------------------------------------------
(* Where the optimized code calls f: its moved copy if there is one. *)
NewAddr(f) == IF f \in Moved THEN MovedAddr[f] ELSE f

(* write_functions of elf-extract: an address without a symbol is reported   *)
(* and skipped.                                                              *)
write_functions(addrs) == addrs \cap BoltSym

(* bolted_functions.bin, which the tracer writes before it pauses the target *)
bolted_functions_bin == {g \in Moved : MovedAddr[g] \in write_functions({MovedAddr[h] : h \in Moved})}

(* get_unmoved_func: the functions with a T or t symbol that BOLT kept. *)
get_unmoved_func == TextSym \ Moved

-----------------------------------------------------------------------------
(* Faulty variants: upper_bound instead of lower_bound; a map that holds the *)
(* weak functions too.                                                       *)
FuncOfIpUpperBound(ip, ub) ==
  LET above == {k \in TextSym : k > ip}
      below == {k \in TextSym : k <= ip}
  IN  IF above = {} THEN {}
      ELSE IF below = {} THEN ub
      ELSE {k \in below : \A j \in below : j <= k}

FuncOfIpWeak(ip, ub) ==
  LET above == {k \in Func : k >= ip}
      below == {k \in Func : k < ip}
  IN  IF above = {} THEN {}
      ELSE IF below = {} THEN ub
      ELSE {k \in below : \A j \in below : j <= k}

(* func_heap.lower_bound(ip) is the first symbol at or above ip; the         *)
(* function of the frame is taken to be the symbol before it.  For the first *)
(* symbol, prev(begin()) is undefined: `ub` is what the build makes of it.   *)
FuncOfIp(ip, ub) ==
  LET above == {k \in TextSym : k >= ip}
      below == {k \in TextSym : k < ip}
  IN  IF above = {} THEN {}
      ELSE IF below = {} THEN ub
      ELSE {k \in below : \A j \in below : j <= k}

(* prev(begin()) of libstdc++'s tree is end(), or the first element when the *)
(* leftmost node is the root.                                                *)
PrevOfBegin == { {}, {k \in TextSym : \A j \in TextSym : k <= j} }

get_func_in_call_stack(call_stack_ips, ub) ==
  UNION {FuncOfIp(ip, ub) : ip \in call_stack_ips}

(* Faulty variant: every unmoved function is selected. *)
get_unmoved_func_unfiltered(func_in_call_stack) == get_unmoved_func

get_unmoved_func_not_in_call_stack(func_in_call_stack) ==
  get_unmoved_func \ func_in_call_stack

(* thread_function of extract_call_sites: a call that ends its function has  *)
(* no line after it in the disassembly and is not recorded.                  *)
call_sites_all == {c \in CallIns : c + CallSize < CallFunc[c] + FuncSize[CallFunc[c]]}

(* Faulty variant: the membership test is inverted. *)
extract_call_sites_inverted(func_in_call_stack) ==
  {c \in call_sites_all : CallTarget[c] \in Moved /\ CallFunc[c] \notin func_in_call_stack}

(* extract_call_sites of the tracer: the recorded calls to moved functions   *)
(* that lie in functions on the call stack.                                  *)
extract_call_sites(func_in_call_stack) ==
  {c \in call_sites_all : CallTarget[c] \in Moved /\ CallFunc[c] \in func_in_call_stack}

(* The address the patched call instruction c reaches. *)
PatchedDest(c) ==
  CallDest(c + CallSize, PatchedCall(c + CallSize, MovedAddr[CallTarget[c]]))

(* The last symbol has no symbol above it: FuncOfIp never finds it. *)
LastTextSym == {k \in TextSym : \A j \in TextSym : j <= k}
=============================================================================
