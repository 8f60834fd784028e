---------------------------- MODULE CallEncoding ----------------------------
(***************************************************************************)
(* The arithmetic of direct call instructions.  `call rel32` is one opcode *)
(* byte and a displacement of four bytes, lowest byte first, relative to   *)
(* the address of the next instruction.  extract_call_sites.cpp decodes    *)
(* the displacements of the original binary, extract_machine_code.cpp      *)
(* encodes new ones with convert_long_2_vec_uint8 of utils.cpp.            *)
(*                                                                         *)
(* The code's bytes have radix 256.  The radix is a constant because the   *)
(* operators are the same digit arithmetic in every radix, and a four      *)
(* digit word of radix 16 fits in the integers of a model checker.         *)
(***************************************************************************)
EXTENDS Integers, Sequences

CONSTANT Radix

ASSUME RadixAssumption == Radix \in Nat /\ Radix >= 2

Radix2 == Radix * Radix
Radix3 == Radix * Radix * Radix
Word   == Radix * Radix * Radix * Radix   \* 2^32 in the code
HalfWord == (Radix \div 2) * Radix3       \* 2^31: the first negative displacement

Byte  == 0 .. Radix - 1
Bytes == Byte \X Byte \X Byte \X Byte

-----------------------------------------------------------------------------
(* C++ arithmetic: division truncates towards zero, the remainder has the   *)
(* sign of the dividend, a cast to uint8_t keeps the value modulo 256.      *)
CDiv(a, b) == IF a >= 0 THEN a \div b ELSE -((-a) \div b)
CMod(a, b) == IF a >= 0 THEN a % b ELSE -((-a) % b)
uint8(x)   == x % Radix

(* convert_long_2_vec_uint8: four divisions from the highest digit down,    *)
(* collected in tmp and pushed in reverse, so the lowest digit comes first. *)
convert_long_2_vec_uint8(input) ==
  LET tmp0 == CDiv(input, Radix3)
      rem0 == CMod(input, Radix3)
      tmp1 == CDiv(rem0, Radix2)
      rem1 == CMod(rem0, Radix2)
      tmp2 == CDiv(rem1, Radix)
      tmp3 == CMod(rem1, Radix)
  IN  << uint8(tmp3), uint8(tmp2), uint8(tmp1), uint8(tmp0) >>

(* Faulty variant: the offset is taken from the call instruction itself. *)
PatchedCallFromCall(next_addr, new_target_addr) ==
  convert_long_2_vec_uint8(new_target_addr - (next_addr - 5))

(* The patched call instruction: `offset` is taken from the address of the  *)
(* instruction after the call.                                              *)
PatchedCall(next_addr, new_target_addr) ==
  convert_long_2_vec_uint8(new_target_addr - next_addr)

(* real_offset: the displacement bytes concatenated highest first and read  *)
(* as an unsigned hexadecimal number.                                       *)
real_offset(code) ==
  code[4] * Radix3 + code[3] * Radix2 + code[2] * Radix + code[1]

(* Faulty variant: the sum is not masked to 32 bits. *)
target_func_addr_unmasked(next_addr, code) == real_offset(code) + next_addr

(* target_func_addr = 0xffffffff & (real_offset + next_addr).               *)
target_func_addr(next_addr, code) == (real_offset(code) + next_addr) % Word

-----------------------------------------------------------------------------
(* The processor and the compiler, which are not part of this repository.   *)

(* Sign extension of the highest displacement byte. *)
SignedTop(b) == IF b >= Radix \div 2 THEN b - Radix ELSE b

(* Where the processor continues after executing the call. *)
CallDest(next_addr, code) ==
  next_addr + SignedTop(code[4]) * Radix3 + code[3] * Radix2
            + code[2] * Radix + code[1]

(* The two's complement displacement that an assembler emits. *)
Assemble(next_addr, target) ==
  LET d == (target - next_addr) % Word
  IN  << d % Radix, (d \div Radix) % Radix, (d \div Radix2) % Radix, d \div Radix3 >>
=============================================================================
