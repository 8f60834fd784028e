---------------------------- MODULE CallSiteProofs ----------------------------
(***************************************************************************)
(* Proofs about the direct calls of the target, for every radix: how       *)
(* CallSitePatch records and redirects one of them, for all call sites,    *)
(* callees and moved addresses of a word, and how ExtractCallSites lists   *)
(* all of them, for every symbol table and every number of threads.        *)
(***************************************************************************)
EXTENDS ExtractCallSites, CallSitePatch, CallEncodingProofs, SequenceTheorems

(* Which encoding the bytes of the instruction are in each phase. *)
CodeInv ==
  /\ phase = "assembled" => code = Assemble(next_addr, target)
  /\ phase = "patched"   => moved_addr \in MovedTo /\ code = PatchedCall(next_addr, moved_addr)

PatchInv == PatchTypeOK /\ RecordsCallee /\ CodeInv
-----------------------------------------------------------------------------
(* Four remainders are bytes. *)
LEMMA Remainder ==
  ASSUME NEW b \in Nat, b > 0, NEW x \in Int
  PROVE  x % b \in 0 .. b - 1
BY SMT

(* C++ division and remainder of integers are integers. *)
LEMMA CInt ==
  ASSUME NEW a \in Int, NEW b \in Nat, b > 0
  PROVE  CDiv(a, b) \in Int /\ CMod(a, b) \in Int
<1>1. CASE a >= 0
  BY <1>1, SMT DEF CDiv, CMod
<1>2. CASE a < 0
  BY <1>2, SMT DEF CDiv, CMod
<1> QED  BY <1>1, <1>2

(* convert_long_2_vec_uint8 makes four bytes of every long, negative or not. *)
LEMMA ConvertBytes ==
  ASSUME NEW off \in Int
  PROVE  convert_long_2_vec_uint8(off) \in Bytes
<1>1. PICK t0, m0 : t0 = CDiv(off, Radix3) /\ m0 = CMod(off, Radix3)
  OBVIOUS
<1>2. t0 \in Int /\ m0 \in Int
  BY <1>1, CInt, Powers
<1>3. PICK t1, m1 : t1 = CDiv(m0, Radix2) /\ m1 = CMod(m0, Radix2)
  OBVIOUS
<1>4. t1 \in Int /\ m1 \in Int
  BY <1>2, <1>3, CInt, Powers
<1>5. PICK t2, t3 : t2 = CDiv(m1, Radix) /\ t3 = CMod(m1, Radix)
  OBVIOUS
<1>6. t2 \in Int /\ t3 \in Int
  BY <1>4, <1>5, CInt, Powers
<1>7. convert_long_2_vec_uint8(off) = << uint8(t3), uint8(t2), uint8(t1), uint8(t0) >>
  BY <1>1, <1>3, <1>5 DEF convert_long_2_vec_uint8
<1>8. uint8(t3) \in Byte /\ uint8(t2) \in Byte /\ uint8(t1) \in Byte /\ uint8(t0) \in Byte
  BY <1>2, <1>4, <1>6, Remainder, Powers DEF uint8, Byte
<1> QED  BY <1>7, <1>8 DEF Bytes

(* The assembler emits four bytes. *)
LEMMA AssembleBytes ==
  ASSUME NEW n \in 0 .. Word - 1, NEW t \in 0 .. Word - 1
  PROVE  Assemble(n, t) \in Bytes
<1>1. PICK d : d = (t - n) % Word
  OBVIOUS
<1>2. d \in 0 .. Word - 1
  BY <1>1, Remainder, Powers
<1>3. PICK r1, r2, r3, q3 \in Nat :
         /\ r1 = d % Radix /\ r2 = (d \div Radix) % Radix
         /\ r3 = (d \div Radix2) % Radix /\ q3 = d \div Radix3
         /\ d = q3 * Radix3 + r3 * Radix2 + r2 * Radix + r1
  BY <1>2, Powers, Digits
<1>4. Assemble(n, t) = << r1, r2, r3, q3 >>
  BY <1>1, <1>3 DEF Assemble
<1>5. d \div Radix \in Int /\ d \div Radix2 \in Int
  BY <1>2, Powers, DivMod
<1>6. r1 \in Byte /\ r2 \in Byte /\ r3 \in Byte
  BY <1>2, <1>3, <1>5, Remainder, Powers DEF Byte
<1>7. q3 < Radix
  <2>1. PICK r : r = d % Radix3
    OBVIOUS
  <2>2. d = Radix3 * q3 + r /\ r \in Nat
    BY <1>2, <1>3, <2>1, DivMod, Powers
  <2>3. Word = Radix * Radix3
    BY Powers DEF Word
  <2>4. Radix3 * q3 + r < Radix * Radix3
    BY <1>2, <2>2, <2>3, Powers
  <2> QED  BY <2>2, <2>4, QuotientBound, Powers
<1>8. q3 \in Byte
  BY <1>3, <1>7, Powers DEF Byte
<1> QED  BY <1>4, <1>6, <1>8 DEF Bytes
-----------------------------------------------------------------------------
(* The instruction as the compiler leaves it. *)
LEMMA InitPatchInv == PatchInit => PatchInv
<1> SUFFICES ASSUME PatchInit PROVE PatchInv
  OBVIOUS
<1>1. next_addr \in 0 .. Word - 1 /\ target \in 0 .. Word - 1
  BY CallSitePatchAssumption DEF PatchInit
<1>2. code \in Bytes
  BY <1>1, AssembleBytes DEF PatchInit
<1> QED  BY <1>2 DEF PatchInit, PatchInv, PatchTypeOK, RecordsCallee, CodeInv

(* Recording the call, patching it and leaving it alone keep the invariant. *)
LEMMA NextPatchInv == PatchInv /\ [PatchNext]_patchVars => PatchInv'
<1> SUFFICES ASSUME PatchInv, [PatchNext]_patchVars PROVE PatchInv'
  OBVIOUS
<1>1. /\ PatchTypeOK /\ RecordsCallee /\ CodeInv
      /\ next_addr \in 0 .. Word - 1 /\ target \in 0 .. Word - 1
  BY CallSitePatchAssumption DEF PatchInv, PatchTypeOK
<1>2. CASE ExtractCallSite
  <2>1. recorded' = target
    BY <1>1, <1>2, RecordedTargetIsCallee DEF ExtractCallSite, CodeInv
  <2> QED
    BY <1>1, <1>2, <2>1 DEF ExtractCallSite, PatchInv, PatchTypeOK, RecordsCallee, CodeInv
<1>3. CASE PatchCallSite
  <2>1. PICK m \in MovedTo : moved_addr' = m /\ code' = PatchedCall(next_addr, m)
    BY <1>3 DEF PatchCallSite
  <2>2. m - next_addr \in Int
    BY <1>1, Powers, CallSitePatchAssumption
  <2>3. code' \in Bytes
    BY <2>1, <2>2, ConvertBytes DEF PatchedCall
  <2>4. /\ phase = "extracted" /\ phase' = "patched"
        /\ UNCHANGED << next_addr, target, recorded >>
    BY <1>3 DEF PatchCallSite
  <2> QED
    BY <1>1, <2>1, <2>3, <2>4 DEF PatchInv, PatchTypeOK, RecordsCallee, CodeInv
<1>4. CASE UNCHANGED patchVars
  BY <1>1, <1>4 DEF patchVars, PatchInv, PatchTypeOK, RecordsCallee, CodeInv
<1> QED  BY <1>2, <1>3, <1>4 DEF PatchNext, Stay

(* The invariant holds in every reachable state. *)
LEMMA PatchInvariance == PatchSpec => []PatchInv
BY InitPatchInv, NextPatchInv, PTL DEF PatchSpec

(* The bytes of the instruction are bytes in every phase, a moved function   *)
(* below the call and out of its reach included.                             *)
THEOREM PatchTypeCorrect == PatchSpec => []PatchTypeOK
<1>1. PatchInv => PatchTypeOK
  BY DEF PatchInv
<1> QED  BY <1>1, PatchInvariance, PTL

(* thread_function records the function the compiler meant. *)
THEOREM PatchRecordsCallee == PatchSpec => []RecordsCallee
<1>1. PatchInv => RecordsCallee
  BY DEF PatchInv
<1> QED  BY <1>1, PatchInvariance, PTL

(* A patched call reaches the moved function that lies above it and within   *)
(* reach.                                                                    *)
THEOREM PatchedCallArrives == PatchSpec => []PatchReachesMovedFunction
<1>1. PatchInv => PatchReachesMovedFunction
  <2> SUFFICES ASSUME PatchInv, phase = "patched", moved_addr >= next_addr,
                      moved_addr - next_addr < HalfWord
               PROVE  CallDest(next_addr, code) = moved_addr
    BY DEF PatchReachesMovedFunction
  <2>1. next_addr \in Nat /\ moved_addr \in Nat /\ code = PatchedCall(next_addr, moved_addr)
    BY Powers, CallSitePatchAssumption DEF PatchInv, PatchTypeOK, CodeInv
  <2>2. moved_addr - next_addr \in 0 .. HalfWord - 1
    BY <2>1, Powers
  <2> QED  BY <2>1, <2>2, PatchedCallReachesTarget
<1> QED  BY <1>1, PatchInvariance, PTL

-----------------------------------------------------------------------------
(* The division of the functions among the threads. *)

(* Where the share of thread i begins; the last share ends with the list. *)
Start(fs, i) == IF i = N THEN Len(fs) ELSE i * (Len(fs) \div N)

(* The shares begin one after the other, from the first function on. *)
LEMMA StartOrder ==
  ASSUME NEW fs, Len(fs) \in Nat
  PROVE  /\ Start(fs, 0) = 0 /\ Start(fs, N) = Len(fs)
         /\ \A i \in 0 .. N : Start(fs, i) \in 0 .. Len(fs)
         /\ \A i \in Threads : Start(fs, i) <= Start(fs, i + 1)
<1>1. PICK l, z, r : l = Len(fs) /\ z = l \div N /\ r = l % N
  OBVIOUS
<1>2. N \in Nat /\ N >= 1
  BY ExtractAssumption
<1>3. l = N * z + r /\ z \in Nat /\ r \in Nat /\ l \in Nat
  <2>1. l \in Nat /\ N > 0
    BY <1>1, <1>2
  <2>2. l = N * z + r /\ z \in Nat /\ r \in 0 .. N - 1
    <3>1. z = l \div N /\ r = l % N
      BY <1>1
    <3> QED BY <1>2, <2>1, <3>1, SMT
  <2> QED BY <1>2, <2>1, <2>2
<1>4. \A i \in 0 .. N : Start(fs, i) = IF i = N THEN l ELSE i * z
  BY <1>1 DEF Start
<1>5. ASSUME NEW i \in 0 .. N PROVE i * z \in Nat /\ i * z <= l
  <2>1. z * i <= z * N
    BY <1>2, <1>3, MulMono
  <2>2. PICK u, v \in Nat : u = z * i /\ v = z * N
    BY <1>2, <1>3, SMT
  <2>3. i * z = u /\ N * z = v
    BY <1>2, <1>3, <2>2, SMT
  <2> QED BY <1>3, <2>1, <2>2, <2>3
<1>6. 0 * z = 0
  BY <1>3
<1>7. ASSUME NEW i \in Threads PROVE Start(fs, i) <= Start(fs, i + 1)
  <2>1. i \in 0 .. N /\ i + 1 \in 0 .. N /\ i # N
    BY <1>2 DEF Threads
  <2>2. CASE i + 1 = N
    BY <1>1, <1>4, <1>5, <2>1, <2>2
  <2>3. CASE i + 1 # N
    <3>1. (i + 1) * z = i * z + z
      BY <1>3, <2>1, SMT
    <3> QED BY <1>3, <1>4, <1>5, <2>1, <2>3, <3>1
  <2> QED BY <2>2, <2>3
<1>8. 0 \in 0 .. N /\ N \in 0 .. N /\ 0 # N
  BY <1>2
<1>9. Start(fs, 0) = 0 /\ Start(fs, N) = l
  BY <1>4, <1>6, <1>8
<1>10. \A i \in 0 .. N : Start(fs, i) \in 0 .. l
  BY <1>3, <1>4, <1>5
<1> QED BY <1>1, <1>7, <1>9, <1>10

(* What main gives to thread i reaches up to the start of the next share. *)
LEMMA ChunkIsShare ==
  ASSUME NEW fs, NEW i \in Threads
  PROVE  Chunk(fs, i) = SubSeq(fs, Start(fs, i) + 1, Start(fs, i + 1))
<1>1. N \in Nat /\ N >= 1 /\ i \in 0 .. N - 1
  BY ExtractAssumption DEF Threads
<1>2. i # N /\ (i + 1 = N <=> i = N - 1)
  BY <1>1
<1> QED BY <1>2 DEF Chunk, Start

(* Every function is in the share of some thread. *)
LEMMA SomeShare ==
  ASSUME NEW fs, Len(fs) \in Nat, NEW j \in 1 .. Len(fs)
  PROVE  \E i \in Threads : Start(fs, i) < j /\ j <= Start(fs, i + 1)
<1>1. PICK l, z : l = Len(fs) /\ z = l \div N
  OBVIOUS
<1>2. N \in Nat /\ N >= 1
  BY ExtractAssumption
<1>3. z \in Nat /\ l \in Nat /\ j \in Nat /\ 1 <= j /\ j <= l
  <2>1. l \in Nat /\ N > 0
    BY <1>1, <1>2
  <2>2. z \in Nat
    BY <1>1, <1>2, <2>1, DivMod
  <2> QED BY <1>1, <2>1, <2>2
<1>4. \A i \in 0 .. N : Start(fs, i) = IF i = N THEN l ELSE i * z
  BY <1>1 DEF Start
<1>5. CASE (N - 1) * z < j
  <2>1. N - 1 \in Threads /\ N - 1 \in 0 .. N /\ N - 1 # N /\ (N - 1) + 1 = N /\ N \in 0 .. N
    BY <1>2 DEF Threads
  <2> QED BY <1>3, <1>4, <1>5, <2>1
<1>6. CASE j <= (N - 1) * z
  <2>1. z > 0
    <3>1. z = 0 => (N - 1) * z = 0
      BY <1>2
    <3> QED BY <1>3, <1>6, <3>1
  <2>2. PICK q, r : q = (j - 1) \div z /\ r = (j - 1) % z
    OBVIOUS
  <2>3. j - 1 = z * q + r /\ q \in Nat /\ r \in 0 .. z - 1
    <3>1. PICK d : d = j - 1
      OBVIOUS
    <3>2. d \in Nat /\ q = d \div z /\ r = d % z
      BY <1>3, <2>2, <3>1
    <3>3. d = z * q + r /\ q \in Nat /\ r \in 0 .. z - 1
      BY <1>3, <2>1, <3>2, SMT
    <3> QED BY <3>1, <3>3
  <2>4. z * q + r < (N - 1) * z
    BY <1>2, <1>3, <1>6, <2>3
  <2>5. q < N - 1
    <3>1. N - 1 \in Nat /\ r \in Nat
      BY <1>2, <1>3, <2>3
    <3> QED BY <1>3, <2>3, <2>4, <3>1, QuotientBound
  <2>6. q \in Threads /\ q \in 0 .. N /\ q + 1 \in 0 .. N /\ q # N /\ q + 1 # N
    BY <1>2, <2>3, <2>5 DEF Threads
  <2>7. Start(fs, q) = q * z /\ Start(fs, q + 1) = (q + 1) * z
    BY <1>4, <2>6
  <2>8. q * z = z * q /\ (q + 1) * z = z * q + z
    BY <1>3, <2>3, SMT
  <2>9. PICK u \in Nat : u = z * q
    BY <1>3, <2>3, SMT
  <2>10. q * z < j /\ j <= (q + 1) * z
    BY <1>3, <2>3, <2>8, <2>9
  <2> QED BY <2>6, <2>7, <2>10
<1>7. (N - 1) * z \in Int
  BY <1>2, <1>3, SMT
<1> QED BY <1>3, <1>5, <1>6, <1>7

(* The functions of all threads are the functions of the list. *)
LEMMA ShareElements ==
  ASSUME NEW fs, Len(fs) \in Nat, NEW i \in Threads
  PROVE  /\ Len(Chunk(fs, i)) = Start(fs, i + 1) - Start(fs, i)
         /\ \A k \in 1 .. Len(Chunk(fs, i)) : Chunk(fs, i)[k] = fs[Start(fs, i) + k]
<1>1. PICK a, b : a = Start(fs, i) /\ b = Start(fs, i + 1)
  OBVIOUS
<1>2. i \in 0 .. N /\ i + 1 \in 0 .. N
  BY ExtractAssumption DEF Threads
<1>3. a \in Nat /\ b \in Nat /\ a <= b
  BY <1>1, <1>2, StartOrder
<1>4. PICK m : m = a + 1
  OBVIOUS
<1>5. m \in Int /\ b \in Int /\ \A x \in m .. b : fs[x] \in {fs[y] : y \in m .. b}
  BY <1>3, <1>4
<1>6. /\ Len(SubSeq(fs, m, b)) = IF m <= b THEN b - m + 1 ELSE 0
      /\ \A k \in 1 .. b - m + 1 : SubSeq(fs, m, b)[k] = fs[m + k - 1]
  BY <1>5, SubSeqProperties
<1>7. PICK s : s = SubSeq(fs, m, b)
  OBVIOUS
<1>8. Len(s) = b - a /\ \A k \in 1 .. b - a : s[k] = fs[a + k]
  <2>1. b - m + 1 = b - a /\ (~ m <= b => b - a = 0)
    BY <1>3, <1>4
  <2>2. \A k \in 1 .. b - a : m + k - 1 = a + k
    BY <1>3, <1>4
  <2>3. Len(s) = b - a
    BY <1>6, <1>7, <2>1
  <2>4. ASSUME NEW k \in 1 .. b - a PROVE s[k] = fs[a + k]
    <3>1. k \in 1 .. b - m + 1 /\ m + k - 1 = a + k
      BY <2>1, <2>2
    <3>2. s[k] = fs[m + k - 1]
      BY <1>6, <1>7, <3>1
    <3> QED BY <3>1, <3>2
  <2> QED BY <2>3, <2>4
<1>9. Chunk(fs, i) = s
  BY <1>1, <1>4, <1>7, ChunkIsShare
<1> QED BY <1>1, <1>8, <1>9

(* A function is in the list exactly if some thread has it. *)
LEMMA SharesCover ==
  ASSUME NEW fs, Len(fs) \in Nat
  PROVE  /\ \A i \in Threads : \A k \in 1 .. Len(Chunk(fs, i)) :
              \E j \in 1 .. Len(fs) : Chunk(fs, i)[k] = fs[j]
         /\ \A j \in 1 .. Len(fs) :
              \E i \in Threads : \E k \in 1 .. Len(Chunk(fs, i)) : Chunk(fs, i)[k] = fs[j]
<1>1. ASSUME NEW i \in Threads
      PROVE  /\ Start(fs, i) \in Nat /\ Start(fs, i + 1) \in Nat
             /\ Start(fs, i + 1) <= Len(fs)
  <2>1. i \in 0 .. N /\ i + 1 \in 0 .. N
    BY ExtractAssumption DEF Threads
  <2>2. Start(fs, i) \in 0 .. Len(fs) /\ Start(fs, i + 1) \in 0 .. Len(fs)
    BY <2>1, StartOrder
  <2> QED BY <2>2
<1>2. ASSUME NEW i \in Threads, NEW k \in 1 .. Len(Chunk(fs, i))
      PROVE  \E j \in 1 .. Len(fs) : Chunk(fs, i)[k] = fs[j]
  <2>1. PICK a, b : a = Start(fs, i) /\ b = Start(fs, i + 1)
    OBVIOUS
  <2>2. a \in Nat /\ b \in Nat /\ b <= Len(fs)
    BY <1>1, <2>1
  <2>3. Len(Chunk(fs, i)) = b - a /\ Chunk(fs, i)[k] = fs[a + k]
    BY <2>1, ShareElements
  <2>4. a + k \in 1 .. Len(fs)
    BY <2>2, <2>3
  <2> QED BY <2>3, <2>4
<1>3. ASSUME NEW j \in 1 .. Len(fs)
      PROVE  \E i \in Threads : \E k \in 1 .. Len(Chunk(fs, i)) : Chunk(fs, i)[k] = fs[j]
  <2>1. PICK i \in Threads : Start(fs, i) < j /\ j <= Start(fs, i + 1)
    BY SomeShare
  <2>2. PICK a, b : a = Start(fs, i) /\ b = Start(fs, i + 1)
    OBVIOUS
  <2>3. a \in Nat /\ b \in Nat /\ a < j /\ j <= b
    BY <1>1, <2>1, <2>2
  <2>4. /\ Len(Chunk(fs, i)) = b - a
        /\ \A k \in 1 .. Len(Chunk(fs, i)) : Chunk(fs, i)[k] = fs[a + k]
    BY <2>2, ShareElements
  <2>5. j - a \in 1 .. Len(Chunk(fs, i)) /\ a + (j - a) = j
    BY <2>3, <2>4
  <2>6. Chunk(fs, i)[j - a] = fs[j]
    BY <2>4, <2>5
  <2> QED BY <2>5, <2>6
<1> QED BY <1>2, <1>3

-----------------------------------------------------------------------------
(* What the threads record and main merges. *)

(* Len of what SelectSeq returns. *)
LEMMA FuncNameLen == Len(func_name(nm)) \in Nat
OBVIOUS

(* The addresses under which thread_function records calls of f. *)
Recorded(f) ==
  {c \in Lines(f) \ Plt : \A j \in DOMAIN nm : nm[j].addr # c + CallSize}

RightTargets(m) == \A c \in DOMAIN m : m[c].target_func_addr = Target[c]

(* The calls thread_function records of f, with the targets the compiler chose. *)
LEMMA RecordsRight ==
  ASSUME NEW f
  PROVE  DOMAIN Records(f) = Recorded(f) /\ RightTargets(Records(f))
<1>1. DOMAIN Records(f) = Recorded(f)
  BY DEF Records, Recorded
<1>2. ASSUME NEW c \in Recorded(f)
      PROVE  Records(f)[c].target_func_addr = Target[c]
  <2>1. PICK n, t : n = c + CallSize /\ t = Target[c]
    OBVIOUS
  <2>2. c \in Call
    BY DEF Recorded, Lines
  <2>3. n \in 0 .. Word - 1 /\ t \in 0 .. Word - 1
    BY <2>1, <2>2, ExtractAssumption, Powers DEF CallSize
  <2>4. target_func_addr(n, Assemble(n, t)) = t
    BY <2>3, RecordedTargetIsCallee
  <2>5. Records(f)[c].target_func_addr = target_func_addr(n, Assemble(n, t))
    BY <2>1 DEF Records, Recorded
  <2> QED BY <2>1, <2>4, <2>5
<1> QED BY <1>1, <1>2 DEF RightTargets

(* Inserting keeps every address of both maps, and right targets right. *)
LEMMA InsertRight ==
  ASSUME NEW m, NEW n, RightTargets(m), RightTargets(n)
  PROVE  DOMAIN Insert(m, n) = DOMAIN m \cup DOMAIN n /\ RightTargets(Insert(m, n))
BY DEF Insert, RightTargets

(* The inductive invariant: the shares, what a thread has found when it has  *)
(* disassembled pos[i] functions of its share, what a thread that is joined  *)
(* has left to do, and what main has merged.                                 *)
SharesInv ==
  pc \in {"threads", "end"} => func_names = [i \in Threads |-> Chunk(func_name(nm), i)]

FoundInv ==
  /\ pos \in [Threads -> Nat] /\ DOMAIN call_sites_array = Threads
  /\ pc = "nm" => \A i \in Threads : pos[i] = 0
  /\ \A i \in Threads :
       /\ DOMAIN call_sites_array[i] = UNION {Recorded(func_names[i][k]) : k \in 1 .. pos[i]}
       /\ RightTargets(call_sites_array[i])

JoinedInv ==
  /\ joined \in 0 .. N /\ merged \in 0 .. N
  /\ pc = "nm" => joined = 0
  /\ \A i \in 0 .. joined - 1 : pos[i] = Len(func_names[i])
  /\ merged > 0 => joined = N

MergedInv ==
  /\ DOMAIN call_sites = UNION {DOMAIN call_sites_array[i] : i \in 0 .. merged - 1}
  /\ RightTargets(call_sites)

ListInv ==
  pc = "end" =>
    /\ joined = N /\ merged = N
    /\ call_sites_list =
         [t \in {call_sites[c].target_func_addr : c \in DOMAIN call_sites} |->
            {c \in DOMAIN call_sites : call_sites[c].target_func_addr = t}]

ExtractInv == SharesInv /\ FoundInv /\ JoinedInv /\ MergedInv /\ ListInv

(* Each action of the program preserves the invariant. *)
LEMMA ExtractInit == Init => ExtractInv
<1> SUFFICES ASSUME Init PROVE ExtractInv
  OBVIOUS
<1>1. N \in Nat
  BY ExtractAssumption
<1>2. DOMAIN NoSites = {} /\ RightTargets(NoSites)
  BY DEF NoSites, RightTargets
<1>3. FoundInv
  BY <1>2 DEF Init, FoundInv
<1>4. JoinedInv
  BY <1>1 DEF Init, JoinedInv
<1>5. MergedInv
  BY <1>2 DEF Init, MergedInv
<1> QED BY <1>3, <1>4, <1>5 DEF Init, ExtractInv, SharesInv, ListInv

LEMMA ExtractRunNm ==
  ASSUME ExtractInv, RunNm
  PROVE  ExtractInv'
<1>1. /\ pc = "nm" /\ pc' \in {"exited", "threads"}
      /\ pc' = "threads" => func_names' = [i \in Threads |-> Chunk(func_name(nm), i)]
      /\ UNCHANGED << nm, pos, call_sites_array, joined, merged, call_sites, call_sites_list >>
  BY DEF RunNm
<1>2. SharesInv'
  BY <1>1 DEF SharesInv
<1>3. FoundInv'
  BY <1>1 DEF ExtractInv, FoundInv, RightTargets
<1>4. JoinedInv'
  BY <1>1 DEF ExtractInv, JoinedInv
<1>5. MergedInv'
  BY <1>1 DEF ExtractInv, MergedInv, RightTargets
<1> QED BY <1>1, <1>2, <1>3, <1>4, <1>5 DEF ExtractInv, ListInv

(* A thread has one more function behind it. *)
LEMMA ExtractDisassemble ==
  ASSUME ExtractInv, NEW i \in Threads, Disassemble(i)
  PROVE  ExtractInv'
<1>1. /\ pc = "threads" /\ pos[i] < Len(func_names[i])
      /\ call_sites_array' = [call_sites_array EXCEPT ![i] = Insert(Records(Current(i)), call_sites_array[i])]
      /\ pos' = [pos EXCEPT ![i] = pos[i] + 1]
      /\ UNCHANGED << nm, pc, func_names, joined, merged, call_sites, call_sites_list >>
  BY DEF Disassemble, DisassembleAnd, Working
<1>2. PICK f, m : f = Current(i) /\ m = Insert(Records(f), call_sites_array[i])
  OBVIOUS
<1>3. call_sites_array' = [call_sites_array EXCEPT ![i] = m]
  BY <1>1, <1>2
<1>4. /\ pos \in [Threads -> Nat] /\ DOMAIN call_sites_array = Threads
      /\ joined \in 0 .. N /\ N \in Nat
  BY ExtractAssumption DEF ExtractInv, FoundInv, JoinedInv
<1>5. i \notin 0 .. joined - 1
  BY <1>1 DEF ExtractInv, JoinedInv
<1>6. merged = 0
  <2>1. joined # N
    BY <1>4, <1>5 DEF Threads
  <2> QED BY <1>4, <2>1 DEF ExtractInv, JoinedInv
<1>7. FoundInv'
  <2>1. /\ pos' \in [Threads -> Nat] /\ DOMAIN call_sites_array' = Threads
        /\ pos'[i] = pos[i] + 1 /\ call_sites_array'[i] = m
        /\ \A j \in Threads : j # i => pos'[j] = pos[j] /\ call_sites_array'[j] = call_sites_array[j]
    BY <1>1, <1>3, <1>4
  <2>2. /\ DOMAIN m = Recorded(f) \cup DOMAIN call_sites_array[i]
        /\ RightTargets(m)
    <3>1. RightTargets(call_sites_array[i])
      BY DEF ExtractInv, FoundInv
    <3>2. PICK r, a : r = Records(f) /\ a = call_sites_array[i]
      OBVIOUS
    <3>3. DOMAIN r = Recorded(f) /\ RightTargets(r) /\ RightTargets(a) /\ m = Insert(r, a)
      BY <1>2, <3>1, <3>2, RecordsRight
    <3> QED BY <3>2, <3>3, InsertRight
  <2>3. f = func_names[i][pos[i] + 1]
    BY <1>2 DEF Current
  <2>4. 1 .. pos[i] + 1 = (1 .. pos[i]) \cup {pos[i] + 1}
    BY <1>4
  <2>5. DOMAIN m = UNION {Recorded(func_names[i][k]) : k \in 1 .. pos[i] + 1}
    BY <2>2, <2>3, <2>4 DEF ExtractInv, FoundInv
  <2>6. \A h : Recorded(h)' = Recorded(h)
    BY <1>1 DEF Recorded, Lines
  <2>7. ASSUME NEW j \in Threads
        PROVE  /\ DOMAIN call_sites_array'[j] = UNION {Recorded(func_names[j][k])' : k \in 1 .. pos'[j]}
               /\ RightTargets(call_sites_array'[j])
    <3>1. CASE j = i
      BY <1>1, <2>1, <2>2, <2>5, <2>6, <3>1
    <3>2. CASE j # i
      BY <1>1, <2>1, <2>6, <3>2 DEF ExtractInv, FoundInv
    <3> QED BY <3>1, <3>2
  <2> QED BY <1>1, <2>1, <2>7 DEF FoundInv, RightTargets
<1>8. JoinedInv'
  <2>1. \A j \in 0 .. joined - 1 : j \in Threads /\ j # i
    BY <1>4, <1>5 DEF Threads
  <2>2. \A j \in 0 .. joined - 1 : pos'[j] = pos[j]
    BY <1>1, <1>4, <2>1
  <2> QED BY <1>1, <2>2 DEF ExtractInv, JoinedInv
<1>9. MergedInv'
  <2>1. DOMAIN call_sites = {} /\ RightTargets(call_sites)
    BY <1>6 DEF ExtractInv, MergedInv
  <2> QED BY <1>1, <1>6, <2>1 DEF MergedInv, RightTargets
<1> QED BY <1>1, <1>7, <1>8, <1>9 DEF ExtractInv, SharesInv, ListInv

LEMMA ExtractJoin ==
  ASSUME ExtractInv, Join
  PROVE  ExtractInv'
<1>1. /\ pc = "threads" /\ joined < N /\ pos[joined] = Len(func_names[joined]) /\ joined' = joined + 1
      /\ UNCHANGED << nm, pc, func_names, pos, call_sites_array, merged, call_sites, call_sites_list >>
  BY DEF Join
<1>2. N \in Nat
  BY ExtractAssumption
<1>3. JoinedInv'
  BY <1>1, <1>2 DEF ExtractInv, JoinedInv
<1>4. FoundInv'
  BY <1>1 DEF ExtractInv, FoundInv, RightTargets, Recorded, Lines
<1>5. MergedInv'
  BY <1>1 DEF ExtractInv, MergedInv, RightTargets
<1> QED BY <1>1, <1>3, <1>4, <1>5 DEF ExtractInv, SharesInv, ListInv

(* One more map is in call_sites. *)
LEMMA ExtractMerge ==
  ASSUME ExtractInv, Merge
  PROVE  ExtractInv'
<1>1. /\ pc = "threads" /\ joined = N /\ merged < N /\ merged' = merged + 1
      /\ call_sites' = Insert(call_sites, call_sites_array[merged])
      /\ UNCHANGED << nm, pc, func_names, pos, call_sites_array, joined, call_sites_list >>
  BY DEF Merge
<1>2. N \in Nat /\ merged \in 0 .. N /\ merged \in Threads
  BY <1>1, ExtractAssumption DEF ExtractInv, JoinedInv, Threads
<1>3. JoinedInv'
  BY <1>1, <1>2 DEF ExtractInv, JoinedInv
<1>4. FoundInv'
  BY <1>1 DEF ExtractInv, FoundInv, RightTargets, Recorded, Lines
<1>5. MergedInv'
  <2>1. /\ DOMAIN call_sites' = DOMAIN call_sites \cup DOMAIN call_sites_array[merged]
        /\ RightTargets(Insert(call_sites, call_sites_array[merged]))
    BY <1>1, <1>2, InsertRight DEF ExtractInv, FoundInv, MergedInv
  <2>2. 0 .. merged' - 1 = (0 .. merged - 1) \cup {merged}
    BY <1>1, <1>2
  <2>3. DOMAIN call_sites' = UNION {DOMAIN call_sites_array[i] : i \in 0 .. merged' - 1}
    BY <2>1, <2>2 DEF ExtractInv, MergedInv
  <2>4. RightTargets(call_sites)'
    BY <1>1, <2>1 DEF RightTargets
  <2> QED BY <1>1, <2>3, <2>4 DEF MergedInv
<1> QED BY <1>1, <1>3, <1>4, <1>5 DEF ExtractInv, SharesInv, ListInv

LEMMA ExtractWriteList ==
  ASSUME ExtractInv, WriteList
  PROVE  ExtractInv'
<1>1. /\ pc = "threads" /\ joined = N /\ merged = N /\ pc' = "end"
      /\ call_sites_list' =
           [t \in {call_sites[c].target_func_addr : c \in DOMAIN call_sites} |->
              {c \in DOMAIN call_sites : call_sites[c].target_func_addr = t}]
      /\ UNCHANGED << nm, func_names, pos, call_sites_array, joined, merged, call_sites >>
  BY DEF WriteList, WriteListAfter
<1>2. JoinedInv'
  BY <1>1 DEF ExtractInv, JoinedInv
<1>3. FoundInv'
  BY <1>1 DEF ExtractInv, FoundInv, RightTargets, Recorded, Lines
<1>4. MergedInv'
  BY <1>1 DEF ExtractInv, MergedInv, RightTargets
<1>5. ListInv'
  BY <1>1 DEF ListInv
<1> QED BY <1>1, <1>2, <1>3, <1>4, <1>5 DEF ExtractInv, SharesInv

LEMMA ExtractStops ==
  ASSUME ExtractInv,
         \/ UNCHANGED vars
         \/ \E i \in Threads : Terminate(i) \/ Crash(i)
  PROVE  ExtractInv'
<1>1. /\ pc' \in {pc, "terminated", "crashed"}
      /\ UNCHANGED << nm, func_names, pos, call_sites_array, joined, merged, call_sites, call_sites_list >>
  BY DEF vars, Terminate, Crash
<1>2. JoinedInv'
  BY <1>1 DEF ExtractInv, JoinedInv
<1>3. FoundInv'
  BY <1>1 DEF ExtractInv, FoundInv, RightTargets, Recorded, Lines
<1>4. MergedInv'
  BY <1>1 DEF ExtractInv, MergedInv, RightTargets
<1> QED BY <1>1, <1>2, <1>3, <1>4 DEF ExtractInv, SharesInv, ListInv

LEMMA ExtractInvariance == Spec => []ExtractInv
<1>1. ExtractInv /\ [Next]_vars => ExtractInv'
  BY ExtractRunNm, ExtractDisassemble, ExtractJoin, ExtractMerge, ExtractWriteList, ExtractStops DEF Next
<1> QED BY <1>1, ExtractInit, PTL DEF Spec

-----------------------------------------------------------------------------
(* For every list of symbols and every number of threads, also more threads  *)
(* than functions: the shares main hands out lie behind each other in the    *)
(* list, from its first function to its last one, so that no function is     *)
(* lost or disassembled by two threads.                                      *)
THEOREM ExtractDivides == Spec => []EveryFunctionOnce
<1>1. ExtractInv => EveryFunctionOnce
  <2> SUFFICES ASSUME ExtractInv, pc \in {"threads", "end"}
               PROVE  \E start \in [0 .. N -> 0 .. Len(func_name(nm))] :
                        /\ start[0] = 0 /\ start[N] = Len(func_name(nm))
                        /\ \A i \in Threads :
                             /\ start[i] <= start[i + 1]
                             /\ func_names[i] = SubSeq(func_name(nm), start[i] + 1, start[i + 1])
    BY DEF EveryFunctionOnce
  <2>1. PICK fs : fs = func_name(nm)
    OBVIOUS
  <2>2. Len(fs) \in Nat
    BY <2>1, FuncNameLen
  <2>3. PICK start : start = [i \in 0 .. N |-> Start(fs, i)]
    OBVIOUS
  <2>4. \A i \in 0 .. N : start[i] = Start(fs, i)
    BY <2>3
  <2>5. start \in [0 .. N -> 0 .. Len(fs)]
    BY <2>2, <2>3, StartOrder
  <2>6. 0 \in 0 .. N /\ N \in 0 .. N /\ \A i \in Threads : i \in 0 .. N /\ i + 1 \in 0 .. N
    BY ExtractAssumption DEF Threads
  <2>7. start[0] = 0 /\ start[N] = Len(fs)
    BY <2>2, <2>4, <2>6, StartOrder
  <2>8. ASSUME NEW i \in Threads
        PROVE  /\ start[i] <= start[i + 1]
               /\ func_names[i] = SubSeq(fs, start[i] + 1, start[i + 1])
    <3>1. start[i] = Start(fs, i) /\ start[i + 1] = Start(fs, i + 1)
      BY <2>4, <2>6
    <3>2. func_names[i] = Chunk(fs, i)
      BY <2>1 DEF ExtractInv, SharesInv
    <3> QED BY <2>2, <3>1, <3>2, StartOrder, ChunkIsShare
  <2> QED BY <2>1, <2>5, <2>7, <2>8
<1> QED BY <1>1, ExtractInvariance, PTL

(* When the program ends, whatever the number of threads, the order in which *)
(* they run and the overlaps of their functions: call_sites_list.bin has     *)
(* under every address the calls of the source to it, and only those, that   *)
(* lie in a function of the symbol table and have a line after them.         *)
THEOREM ExtractComplete == Spec => []CallersComplete
<1>1. ExtractInv => CallersComplete
  <2> SUFFICES ASSUME ExtractInv, pc = "end", NEW t
               PROVE  Callers(t) = IF t \in DOMAIN call_sites_list THEN call_sites_list[t] ELSE {}
    BY DEF CallersComplete
  <2>1. PICK fs : fs = func_name(nm)
    OBVIOUS
  <2>2. Len(fs) \in Nat
    BY <2>1, FuncNameLen
  <2>3. \A i \in Threads : func_names[i] = Chunk(fs, i)
    BY <2>1 DEF ExtractInv, SharesInv
  <2>4. 0 .. joined - 1 = Threads /\ 0 .. merged - 1 = Threads
    BY DEF ExtractInv, ListInv, Threads
  <2>5. ASSUME NEW c
        PROVE  c \in DOMAIN call_sites <=> \E j \in 1 .. Len(fs) : c \in Recorded(fs[j])
    <3>1. c \in DOMAIN call_sites <=> \E i \in Threads : c \in DOMAIN call_sites_array[i]
      BY <2>4 DEF ExtractInv, MergedInv
    <3>2. ASSUME NEW i \in Threads
          PROVE  c \in DOMAIN call_sites_array[i] <=>
                   \E k \in 1 .. Len(Chunk(fs, i)) : c \in Recorded(Chunk(fs, i)[k])
      <4>1. pos[i] = Len(func_names[i])
        BY <2>4 DEF ExtractInv, JoinedInv
      <4>2. DOMAIN call_sites_array[i] = UNION {Recorded(func_names[i][k]) : k \in 1 .. pos[i]}
        BY DEF ExtractInv, FoundInv
      <4> QED BY <2>3, <4>1, <4>2
    <3> QED BY <2>2, <3>1, <3>2, SharesCover
  <2>6. \A c \in DOMAIN call_sites : call_sites[c].target_func_addr = Target[c]
    BY DEF ExtractInv, MergedInv, RightTargets
  <2>7. call_sites_list = [u \in {call_sites[c].target_func_addr : c \in DOMAIN call_sites} |->
            {c \in DOMAIN call_sites : call_sites[c].target_func_addr = u}]
    BY DEF ExtractInv, ListInv
  <2>8. Callers(t) = {c \in DOMAIN call_sites : Target[c] = t}
    BY <2>1, <2>5 DEF Callers, Recorded, Lines
  <2> QED BY <2>6, <2>7, <2>8
<1> QED BY <1>1, ExtractInvariance, PTL
=============================================================================
