-------------------------- MODULE CallEncodingProofs --------------------------
(* What the encoding of patched calls and the decoding of original calls     *)
(* compute for every address, in every radix: 256 is the code's, 16 the one  *)
(* of the model checking runs.                                               *)
EXTENDS CallEncoding, TLAPS

-----------------------------------------------------------------------------
(* Division with remainder. *)

LEMMA MulMono ==
  ASSUME NEW b \in Nat, NEW x \in Nat, NEW y \in Nat, x <= y
  PROVE  b * x <= b * y
BY SMT

LEMMA DivMod ==
  ASSUME NEW b \in Nat, b > 0, NEW d \in Nat,
         NEW q, q = d \div b, NEW r, r = d % b
  PROVE  d = b * q + r /\ q \in Nat /\ r \in 0 .. b - 1
BY SMT

LEMMA QuotientLeq ==
  ASSUME NEW b \in Nat, b > 0, NEW q \in Nat, NEW r \in 0 .. b - 1,
         NEW p \in Nat, NEW s \in 0 .. b - 1, b * q + r = b * p + s
  PROVE  q <= p
<1> SUFFICES ASSUME p + 1 <= q PROVE FALSE
  BY SMT
<1>1. b * (p + 1) <= b * q
  BY MulMono
<1>2. b * (p + 1) = b * p + b
  BY SMT
<1>3. PICK u, v \in Nat : u = b * p /\ v = b * q
  BY SMT
<1> QED BY <1>1, <1>2, <1>3, SMT

(* Quotient and remainder are unique. *)
LEMMA Quotient ==
  ASSUME NEW b \in Nat, b > 0, NEW d \in Nat,
         NEW q \in Nat, NEW r \in 0 .. b - 1, d = b * q + r
  PROVE  q = d \div b
<1>1. PICK p, s : p = d \div b /\ s = d % b
  OBVIOUS
<1>2. d = b * p + s /\ p \in Nat /\ s \in 0 .. b - 1
  BY <1>1, DivMod
<1>3. q <= p /\ p <= q
  BY <1>2, QuotientLeq
<1> QED BY <1>1, <1>2, <1>3

(* A quotient below a bound. *)
LEMMA QuotientBound ==
  ASSUME NEW b \in Nat, NEW h \in Nat, NEW q \in Nat, NEW r \in Nat,
         b * q + r < h * b
  PROVE  q < h
<1> SUFFICES ASSUME h <= q PROVE FALSE
  BY SMT
<1>1. b * h <= b * q
  BY MulMono
<1>2. PICK u, v \in Nat : u = b * h /\ v = b * q
  BY SMT
<1>3. h * b = b * h
  BY SMT
<1> QED BY <1>1, <1>2, <1>3, SMT

(* Two divisions in a row are one division by the product: one step of       *)
(* Horner's scheme.                                                          *)
LEMMA Horner ==
  ASSUME NEW b \in Nat, b > 0, NEW c \in Nat, c > 0,
         NEW d \in Nat, NEW q \in Nat, NEW p \in Nat,
         NEW r \in 0 .. b - 1, NEW s \in 0 .. c - 1,
         d = b * q + r, q = c * p + s
  PROVE  /\ d = (b * c) * p + (b * s + r)
         /\ b * s + r \in 0 .. (b * c) - 1
<1>1. b * (c * p + s) = (b * c) * p + b * s
  BY SMT
<1>2. b * s <= b * (c - 1)
  BY MulMono
<1>3. b * (c - 1) = b * c - b
  BY SMT
<1>4. PICK u, v, w, z \in Nat : u = b * s /\ v = b * c /\ w = (b * c) * p /\ z = b * q
  BY SMT
<1> QED BY <1>1, <1>2, <1>3, <1>4, SMT

(* The powers of the radix. *)
LEMMA Powers ==
  /\ Radix \in Nat /\ Radix > 0
  /\ Radix2 \in Nat /\ Radix2 > 0 /\ Radix2 = Radix * Radix
  /\ Radix3 \in Nat /\ Radix3 > 0 /\ Radix3 = Radix2 * Radix
  /\ Word \in Nat /\ Word > 0
  /\ HalfWord \in Nat /\ HalfWord = (Radix \div 2) * Radix3
  /\ Radix \div 2 \in Nat /\ Radix \div 2 < Radix
<1>1. Radix \in Nat /\ Radix > 0
  BY RadixAssumption
<1>2. Radix2 \in Nat /\ Radix2 > 0 /\ Radix2 = Radix * Radix
  BY <1>1, SMT DEF Radix2
<1>3. Radix3 = Radix2 * Radix
  BY DEF Radix2, Radix3
<1>4. Radix3 \in Nat /\ Radix3 > 0
  BY <1>1, <1>2, <1>3, SMT
<1>5. Word = Radix3 * Radix
  BY DEF Word, Radix3
<1>6. Word \in Nat /\ Word > 0
  BY <1>1, <1>4, <1>5, SMT
<1>7. Radix \div 2 \in Nat /\ Radix \div 2 < Radix
  BY RadixAssumption, SMT
<1>8. HalfWord = (Radix \div 2) * Radix3
  BY DEF HalfWord
<1>9. HalfWord \in Nat
  <2>1. PICK h \in Nat : h = Radix \div 2
    BY <1>7
  <2> QED BY <1>4, <1>8, <2>1, SMT
<1> QED BY <1>1, <1>2, <1>3, <1>4, <1>6, <1>7, <1>8, <1>9

-----------------------------------------------------------------------------
(* Encoding. *)

(* convert_long_2_vec_uint8 is the little endian digits of an offset that    *)
(* fits in 31 bits.                                                          *)
LEMMA EncodeDigits ==
  ASSUME NEW off \in 0 .. HalfWord - 1
  PROVE  \E b1, b2, b3, b4 \in Byte :
           /\ convert_long_2_vec_uint8(off) = << b1, b2, b3, b4 >>
           /\ b4 < Radix \div 2
           /\ off = b4 * Radix3 + b3 * Radix2 + b2 * Radix + b1
<1>1. off \in Nat /\ off < HalfWord
  BY Powers
<1>2. PICK tmp0, rem0 : tmp0 = off \div Radix3 /\ rem0 = off % Radix3
  OBVIOUS
<1>3. off = Radix3 * tmp0 + rem0 /\ tmp0 \in Nat /\ rem0 \in 0 .. Radix3 - 1
  BY <1>1, <1>2, Powers, DivMod
<1>4. tmp0 < Radix \div 2
  <2>1. PICK h \in Nat : h = Radix \div 2
    BY Powers
  <2>2. Radix3 * tmp0 + rem0 < h * Radix3
    BY <1>1, <1>3, <2>1, Powers
  <2>3. rem0 \in Nat
    BY <1>3, Powers
  <2> QED BY <1>3, <2>1, <2>2, <2>3, Powers, QuotientBound
<1>5. PICK tmp1, rem1 : tmp1 = rem0 \div Radix2 /\ rem1 = rem0 % Radix2
  OBVIOUS
<1>6. /\ rem0 = Radix2 * tmp1 + rem1
      /\ tmp1 \in Nat /\ rem1 \in 0 .. Radix2 - 1
  <2>1. rem0 \in Nat
    BY <1>3, Powers
  <2> QED BY <1>5, <2>1, Powers, DivMod
<1>7. tmp1 < Radix
  <2>1. Radix3 = Radix * Radix2
    BY Powers, SMT
  <2>2. Radix2 * tmp1 + rem1 < Radix * Radix2
    BY <1>3, <1>6, <2>1, Powers
  <2>3. rem1 \in Nat
    BY <1>6, Powers
  <2> QED BY <1>6, <2>2, <2>3, Powers, QuotientBound
<1>8. PICK tmp2, tmp3 : tmp2 = rem1 \div Radix /\ tmp3 = rem1 % Radix
  OBVIOUS
<1>9. /\ rem1 = Radix * tmp2 + tmp3
      /\ tmp2 \in Nat /\ tmp3 \in 0 .. Radix - 1
  <2>1. rem1 \in Nat
    BY <1>6, Powers
  <2> QED BY <1>8, <2>1, Powers, DivMod
<1>10. tmp2 < Radix
  <2>1. Radix * tmp2 + tmp3 < Radix * Radix
    BY <1>6, <1>9, Powers
  <2>2. tmp3 \in Nat
    BY <1>9, Powers
  <2> QED BY <1>9, <2>1, <2>2, Powers, QuotientBound
<1>11. tmp0 \in Byte /\ tmp1 \in Byte /\ tmp2 \in Byte /\ tmp3 \in Byte
  <2>1. PICK h \in Nat : h = Radix \div 2
    BY Powers
  <2> QED BY <1>3, <1>4, <1>6, <1>7, <1>9, <1>10, <2>1, Powers DEF Byte
<1>12. \A x \in Byte : uint8(x) = x
  BY Powers, SMT DEF Byte, uint8
<1>13. /\ CDiv(off, Radix3) = tmp0 /\ CMod(off, Radix3) = rem0
       /\ CDiv(rem0, Radix2) = tmp1 /\ CMod(rem0, Radix2) = rem1
       /\ CDiv(rem1, Radix) = tmp2 /\ CMod(rem1, Radix) = tmp3
  <2>1. off >= 0 /\ rem0 >= 0 /\ rem1 >= 0
    BY <1>1, <1>3, <1>6, Powers
  <2> QED BY <1>2, <1>5, <1>8, <2>1, Zenon DEF CDiv, CMod
<1>14. convert_long_2_vec_uint8(off)
         = << uint8(tmp3), uint8(tmp2), uint8(tmp1), uint8(tmp0) >>
  BY <1>13, Zenon DEF convert_long_2_vec_uint8
<1>15. convert_long_2_vec_uint8(off) = << tmp3, tmp2, tmp1, tmp0 >>
  BY <1>11, <1>12, <1>14, Zenon
<1>16. off = tmp0 * Radix3 + tmp1 * Radix2 + tmp2 * Radix + tmp3
  <2>1. /\ Radix3 * tmp0 = tmp0 * Radix3 /\ tmp0 * Radix3 \in Nat
        /\ Radix2 * tmp1 = tmp1 * Radix2 /\ tmp1 * Radix2 \in Nat
        /\ Radix * tmp2 = tmp2 * Radix /\ tmp2 * Radix \in Nat
    BY <1>3, <1>6, <1>9, Powers, SMT
  <2>2. off = tmp0 * Radix3 + (tmp1 * Radix2 + (tmp2 * Radix + tmp3))
    BY <1>3, <1>6, <1>9, <2>1
  <2>3. PICK u, v, w \in Nat : u = tmp0 * Radix3 /\ v = tmp1 * Radix2 /\ w = tmp2 * Radix
    BY <2>1
  <2>4. tmp3 \in Nat
    BY <1>9, Powers
  <2> QED BY <2>2, <2>3, <2>4, SMT
<1> QED BY <1>4, <1>11, <1>15, <1>16, Zenon

(* A patched call reaches its new target: for every instruction address and  *)
(* every target at most 2^31 - 1 bytes above it, the processor that executes *)
(* the bytes of convert_long_2_vec_uint8 continues at that target.           *)
THEOREM PatchedCallReachesTarget ==
  ASSUME NEW next_addr \in Nat, NEW target \in Nat,
         target - next_addr \in 0 .. HalfWord - 1
  PROVE  CallDest(next_addr, PatchedCall(next_addr, target)) = target
<1>1. PICK b1, b2, b3, b4 \in Byte :
         /\ convert_long_2_vec_uint8(target - next_addr) = << b1, b2, b3, b4 >>
         /\ b4 < Radix \div 2
         /\ target - next_addr = b4 * Radix3 + b3 * Radix2 + b2 * Radix + b1
  BY EncodeDigits
<1> DEFINE code == << b1, b2, b3, b4 >>
<1>2. /\ code[1] = b1 /\ code[2] = b2 /\ code[3] = b3 /\ code[4] = b4
  OBVIOUS
<1>3. b1 \in Nat /\ b2 \in Nat /\ b3 \in Nat /\ b4 \in Nat
  BY Powers DEF Byte
<1>4. SignedTop(b4) = b4
  <2>1. PICK h \in Nat : h = Radix \div 2
    BY Powers
  <2>2. ~ (b4 >= Radix \div 2)
    BY <1>1, <1>3, <2>1
  <2> QED BY <2>2, Zenon DEF SignedTop
<1> HIDE DEF code
<1>5. CallDest(next_addr, code) = next_addr + b4 * Radix3 + b3 * Radix2 + b2 * Radix + b1
  BY <1>2, <1>4, Zenon DEF CallDest
<1>6. next_addr + b4 * Radix3 + b3 * Radix2 + b2 * Radix + b1 = target
  <2>1. PICK u, v, w \in Nat : u = b4 * Radix3 /\ v = b3 * Radix2 /\ w = b2 * Radix
    BY <1>3, Powers, SMT
  <2> QED BY <1>1, <1>3, <2>1, SMT
<1>7. PatchedCall(next_addr, target) = code
  BY <1>1 DEF PatchedCall, code
<1> QED BY <1>5, <1>6, <1>7

-----------------------------------------------------------------------------
(* Decoding. *)

(* Three divisions by the radix are the divisions by its powers, and the     *)
(* digits that the assembler takes from a word make up the word.             *)
LEMMA Digits ==
  ASSUME NEW d \in Nat
  PROVE  \E r1, r2, r3, q3 \in Nat :
           /\ r1 = d % Radix /\ r2 = (d \div Radix) % Radix
           /\ r3 = (d \div Radix2) % Radix /\ q3 = d \div Radix3
           /\ d = q3 * Radix3 + r3 * Radix2 + r2 * Radix + r1
<1>1. PICK q1, r1 : q1 = d \div Radix /\ r1 = d % Radix
  OBVIOUS
<1>2. PICK q2, r2 : q2 = q1 \div Radix /\ r2 = q1 % Radix
  OBVIOUS
<1>3. PICK q3, r3 : q3 = q2 \div Radix /\ r3 = q2 % Radix
  OBVIOUS
<1>4. d = Radix * q1 + r1 /\ q1 \in Nat /\ r1 \in 0 .. Radix - 1
  BY <1>1, Powers, DivMod
<1>5. q1 = Radix * q2 + r2 /\ q2 \in Nat /\ r2 \in 0 .. Radix - 1
  BY <1>2, <1>4, Powers, DivMod
<1>6. q2 = Radix * q3 + r3 /\ q3 \in Nat /\ r3 \in 0 .. Radix - 1
  BY <1>3, <1>5, Powers, DivMod
<1>7. d = Radix2 * q2 + (Radix * r2 + r1) /\ Radix * r2 + r1 \in 0 .. Radix2 - 1
  <2>1. /\ d = (Radix * Radix) * q2 + (Radix * r2 + r1)
        /\ Radix * r2 + r1 \in 0 .. (Radix * Radix) - 1
    BY <1>4, <1>5, Powers, Horner
  <2> QED BY <2>1, Powers, Zenon
<1>8. PICK s : s = Radix * r2 + r1
  OBVIOUS
<1>9. d = Radix3 * q3 + (Radix2 * r3 + s) /\ Radix2 * r3 + s \in 0 .. Radix3 - 1
  <2>1. d = Radix2 * q2 + s /\ s \in 0 .. Radix2 - 1
    BY <1>7, <1>8, Zenon
  <2>2. /\ d = (Radix2 * Radix) * q3 + (Radix2 * r3 + s)
        /\ Radix2 * r3 + s \in 0 .. (Radix2 * Radix) - 1
    BY <2>1, <1>5, <1>6, Powers, Horner
  <2> QED BY <2>2, Powers, Zenon
<1>10. q2 = d \div Radix2
  BY <1>5, <1>7, Powers, Quotient
<1>11. q3 = d \div Radix3
  BY <1>6, <1>9, Powers, Quotient
<1>12. r1 \in Nat /\ r2 \in Nat /\ r3 \in Nat /\ q3 \in Nat
  BY <1>4, <1>5, <1>6, Powers
<1>13. d = q3 * Radix3 + r3 * Radix2 + r2 * Radix + r1
  <2>1. /\ Radix3 * q3 = q3 * Radix3 /\ q3 * Radix3 \in Nat
        /\ Radix2 * r3 = r3 * Radix2 /\ r3 * Radix2 \in Nat
        /\ Radix * r2 = r2 * Radix /\ r2 * Radix \in Nat
    BY <1>12, Powers, SMT
  <2>2. d = q3 * Radix3 + (r3 * Radix2 + (r2 * Radix + r1))
    BY <1>8, <1>9, <2>1
  <2>3. PICK u, v, w \in Nat : u = q3 * Radix3 /\ v = r3 * Radix2 /\ w = r2 * Radix
    BY <2>1
  <2> QED BY <1>12, <2>2, <2>3, SMT
<1> QED BY <1>1, <1>2, <1>3, <1>10, <1>11, <1>12, <1>13, Zenon

(* The target extract_call_sites records is the function the assembler made  *)
(* the instruction call, for forward and backward calls anywhere in the      *)
(* 32 bit address space.                                                     *)
THEOREM RecordedTargetIsCallee ==
  ASSUME NEW next_addr \in 0 .. Word - 1, NEW target \in 0 .. Word - 1
  PROVE  target_func_addr(next_addr, Assemble(next_addr, target)) = target
<1>1. PICK d : d = (target - next_addr) % Word
  OBVIOUS
<1> DEFINE code == << d % Radix, (d \div Radix) % Radix, (d \div Radix2) % Radix, d \div Radix3 >>
<1>2. d \in Nat /\ (d + next_addr) % Word = target
  <2>1. CASE target >= next_addr
    <3>1. d = target - next_addr
      BY <1>1, <2>1, Powers, SMT
    <3> QED BY <2>1, <3>1, Powers, SMT
  <2>2. CASE target < next_addr
    <3>1. d = target - next_addr + Word
      BY <1>1, <2>2, Powers, SMT
    <3> QED BY <2>2, <3>1, Powers, SMT
  <2> QED BY <2>1, <2>2, Powers
<1>3. Assemble(next_addr, target) = code
  BY <1>1, Zenon DEF Assemble
<1>4. PICK r1, r2, r3, q3 \in Nat :
         /\ code = << r1, r2, r3, q3 >>
         /\ d = q3 * Radix3 + r3 * Radix2 + r2 * Radix + r1
  <2>1. PICK r1, r2, r3, q3 \in Nat :
           /\ r1 = d % Radix /\ r2 = (d \div Radix) % Radix
           /\ r3 = (d \div Radix2) % Radix /\ q3 = d \div Radix3
           /\ d = q3 * Radix3 + r3 * Radix2 + r2 * Radix + r1
    BY <1>2, Digits, Zenon
  <2>2. code = << r1, r2, r3, q3 >>
    BY <2>1, Zenon
  <2> HIDE DEF code
  <2> QED BY <2>1, <2>2, Zenon
<1> HIDE DEF code
<1>5. code[1] = r1 /\ code[2] = r2 /\ code[3] = r3 /\ code[4] = q3
  BY <1>4
<1>6. real_offset(code) = d
  BY <1>4, <1>5, Zenon DEF real_offset
<1> QED BY <1>2, <1>3, <1>6, Zenon DEF target_func_addr
=============================================================================
