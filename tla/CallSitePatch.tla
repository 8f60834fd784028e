---------------------------- MODULE CallSitePatch ----------------------------
(***************************************************************************)
(* One direct call instruction on its way through Ocolos: the compiler     *)
(* assembles it, extract_call_sites records its target, the tracer encodes *)
(* a call to the address BOLT moved that target to, and the processor      *)
(* executes the result.                                                    *)
(***************************************************************************)
EXTENDS CallEncoding

CONSTANTS
  NextAddr,   \* addresses an instruction that follows a call may have
  Callee,     \* addresses a called function may start at
  MovedTo     \* addresses BOLT may move a function to

ASSUME CallSitePatchAssumption ==
  /\ NextAddr \subseteq 0 .. Word - 1
  /\ Callee   \subseteq 0 .. Word - 1
  /\ MovedTo  \subseteq 0 .. Word - 1

VARIABLES
  phase,        \* "assembled", "extracted" or "patched"
  next_addr,    \* call_site_info.next_addr
  target,       \* the function the source program calls
  recorded,     \* call_site_info.target_func_addr, -1 before extraction
  moved_addr,   \* func_info.moved_addr of the target, -1 before patching
  code          \* the displacement bytes in memory

patchVars == << phase, next_addr, target, recorded, moved_addr, code >>

PatchTypeOK ==
  /\ phase \in {"assembled", "extracted", "patched"}
  /\ next_addr \in NextAddr
  /\ target \in Callee
  /\ recorded \in 0 .. Word - 1 \cup {-1}
  /\ moved_addr \in MovedTo \cup {-1}
  /\ code \in Bytes

PatchInit ==
  /\ phase = "assembled"
  /\ next_addr \in NextAddr
  /\ target \in Callee
  /\ recorded = -1
  /\ moved_addr = -1
  /\ code = Assemble(next_addr, target)

(* extract_call_sites: thread_function disassembles the call and records it. *)
ExtractCallSite ==
  /\ phase = "assembled"
  /\ phase' = "extracted"
  /\ recorded' = target_func_addr(next_addr, code)
  /\ UNCHANGED << next_addr, target, moved_addr, code >>

(* extract_call_sites() of the tracer writes the new machine code, the      *)
(* library copies it over the old one.                                      *)
PatchCallSite ==
  /\ phase = "extracted"
  /\ phase' = "patched"
  /\ \E m \in MovedTo :
       /\ moved_addr' = m
       /\ code' = PatchedCall(next_addr, m)
  /\ UNCHANGED << next_addr, target, recorded >>

(* The instruction stays as it is once it is patched. *)
Stay == phase = "patched" /\ UNCHANGED patchVars

PatchNext == ExtractCallSite \/ PatchCallSite \/ Stay

PatchSpec == PatchInit /\ [][PatchNext]_patchVars

-----------------------------------------------------------------------------
(* The target that thread_function records for a call site is the function  *)
(* the compiler made it call, for forward and backward calls: the masked    *)
(* unsigned sum undoes the two's complement displacement.                   *)
RecordsCallee == phase # "assembled" => recorded = target

(* The processor executing the patched bytes continues at the address BOLT  *)
(* moved the callee to, if that is above the call and within reach.  Below  *)
(* it, the truncated digits of convert_long_2_vec_uint8 are not the two's   *)
(* complement.                                                              *)
PatchReachesMovedFunction ==
  phase = "patched" /\ moved_addr >= next_addr /\ moved_addr - next_addr < HalfWord
    => CallDest(next_addr, code) = moved_addr
=============================================================================
