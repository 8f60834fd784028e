---------------------------- MODULE PageMapProofs ----------------------------
(***************************************************************************)
(* For every page size, every contents of the four files and every layout  *)
(* of the target: the properties of PageMap.                               *)
(*                                                                         *)
(* The argument is the invariant IInv.  While a record is inserted, every  *)
(* page between its first one and the page the loop has come to is in      *)
(* allocated_pages (LoopInv); a page of that set stays mapped and writable *)
(* until the file ends (AllocatedInv); and while the first file is read,   *)
(* the set is exactly the pages that the library has mapped (MineInv).     *)
(***************************************************************************)
EXTENDS PageMap, TLAPS

LoopInv ==
  pc \in {"pages", "copy"} =>
    /\ page_aligned_addr(Rec) <= page
    /\ \A p \in Page : page_aligned_addr(Rec) <= p /\ p < page => p \in allocated_pages
    /\ pc = "copy" => ~ InLoop(Rec, page)

AllocatedInv == \A p \in allocated_pages : Mapped(p) /\ "w" \in access[p]

MineInv ==
  /\ file = 1 => mine = allocated_pages
  /\ \A p \in mine : Mapped(p)

IInv ==
  /\ TypeOK /\ LoopInv /\ AllocatedInv /\ MineInv /\ ExitJustified /\ BoltedExecutable
-----------------------------------------------------------------------------
(* A product with the page size is monotonic. *)
LEMMA MulMonotonic ==
  ASSUME NEW a \in Int, NEW b \in Int, NEW c \in Nat, a <= b
  PROVE  a * c <= b * c
OBVIOUS

(* The page number of an address, times the page size, is at most the        *)
(* address: what masking with ~MMAP_PAGE_OFFSET does.                        *)
LEMMA Aligned ==
  ASSUME NEW a \in Nat, NEW c \in Nat \ {0}
  PROVE  a \div c \in Nat /\ (a \div c) * c <= a
OBVIOUS

(* The accesses that mmap and mprotect are called with are accesses, and all *)
(* are weaker than PROT_READ | PROT_WRITE | PROT_EXEC.                       *)
LEMMA AccessFacts ==
  /\ RWX \in Access /\ RX \in Access /\ RW \in Access
  /\ RWX # NoPage /\ RX # NoPage /\ RW # NoPage
  /\ "w" \in RWX /\ "w" \notin RX /\ RX \subseteq RWX
  /\ \A a \in Access : a \subseteq RWX
BY DEF RWX, RX, RW, NoPage, Access

(* Every record the library reads lies within the address space, the extra   *)
(* page of the loop included.                                                *)
LEMMA RecordFacts ==
  ASSUME files \in FileSets, NEW f \in 1 .. 4, NEW k \in 1 .. Len(files[f])
  PROVE  /\ files[f][k] \in Record
         /\ files[f][k].addr + files[f][k].len + PageSize < NumPages * PageSize
<1>1. files \in [1 .. 4 -> Seq(Record)]
  BY PageAssumption
<1>2. files[f] \in Seq(Record)
  BY <1>1
<1>3. files[f][k] \in Record
  BY <1>2
<1> QED  BY <1>3, PageAssumption

(* A page that the loop of a record comes to exists and is near the record. *)
LEMMA LoopPages ==
  ASSUME NEW r \in Record, r.addr + r.len + PageSize < NumPages * PageSize,
         NEW p \in Nat, page_aligned_addr(r) <= p, InLoop(r, p)
  PROVE  p \in Page /\ p \in Near(r)
<1>1. r.addr \in Nat /\ r.len \in Nat /\ PageSize \in Nat \ {0} /\ NumPages \in Nat
  BY PageAssumption DEF Record
<1>2. p * PageSize < NumPages * PageSize
  BY <1>1 DEF InLoop
<1>3. p < NumPages
  <2>1. ASSUME NumPages <= p  PROVE FALSE
    BY <2>1, <1>1, <1>2, MulMonotonic
  <2> QED  BY <2>1, <1>1
<1>4. (p - 2) * PageSize = p * PageSize - 2 * PageSize
  BY <1>1
<1>5. (p - 2) * PageSize < r.addr + r.len
  BY <1>1, <1>4 DEF InLoop
<1> QED  BY <1>1, <1>3, <1>5 DEF Near, Page

(* The loop of a record starts at a page that exists. *)
LEMMA FirstPage ==
  ASSUME NEW r \in Record, r.addr + r.len + PageSize < NumPages * PageSize
  PROVE  page_aligned_addr(r) \in Page
<1>1. r.addr \in Nat /\ r.len \in Nat /\ PageSize \in Nat \ {0} /\ NumPages \in Nat
  BY PageAssumption DEF Record
<1>2. PICK q : q = r.addr \div PageSize
  OBVIOUS
<1>3. q \in Nat /\ q * PageSize <= r.addr
  BY <1>1, <1>2, Aligned
<1>4. q * PageSize < NumPages * PageSize
  BY <1>1, <1>3
<1>5. q < NumPages
  <2>1. ASSUME NumPages <= q  PROVE FALSE
    BY <2>1, <1>1, <1>3, <1>4, MulMonotonic
  <2> QED  BY <2>1, <1>1, <1>3
<1> QED  BY <1>1, <1>2, <1>3, <1>5 DEF page_aligned_addr, Page
-----------------------------------------------------------------------------
(* The state before anything is inserted satisfies the invariant. *)
LEMMA InitIInv == Init => IInv
<1> SUFFICES ASSUME Init PROVE IInv
  OBVIOUS
<1>1. TypeOK
  <2>1. files[1] \in Seq(Record)
    BY PageAssumption DEF Init
  <2>2. 0 \in 0 .. Len(files[1])
    BY <2>1
  <2> QED  BY <2>2, PageAssumption DEF Init, TypeOK
<1> QED  BY <1>1 DEF Init, IInv, LoopInv, AllocatedInv, MineInv, ExitJustified, BoltedExecutable
-----------------------------------------------------------------------------
(* The record that is inserted is one of the files', while there is one. *)
LEMMA CurrentRecord ==
  ASSUME TypeOK, pc \in {"pages", "copy"}
  PROVE  /\ rec \in 1 .. Len(files[file]) /\ file \in 1 .. 4 /\ Rec \in Record
         /\ Rec.addr + Rec.len + PageSize < NumPages * PageSize
<1>1. files[file] \in Seq(Record)
  BY PageAssumption DEF TypeOK
<1>2. Len(files[file]) \in Nat
  BY <1>1
<1>3. rec \in 1 .. Len(files[file]) /\ file \in 1 .. 4
  BY <1>2 DEF TypeOK
<1> QED  BY <1>3, RecordFacts DEF Rec, TypeOK

(* Where the loop of a record adds a page, the page exists, is near the      *)
(* record, and is not one of the pages mapped for the first file.            *)
LEMMA NewPageFacts ==
  ASSUME IInv, NewPage
  PROVE  page \in Page /\ page + 1 \in 0 .. NumPages /\ page \in Near(Rec) /\ rec \in 1 .. Len(files[file])
<1>1. TypeOK /\ pc = "pages" /\ InLoop(Rec, page) /\ page_aligned_addr(Rec) <= page
  BY DEF IInv, NewPage, LoopInv
<1>2. page \in Nat /\ NumPages \in Nat
  BY <1>1, PageAssumption DEF TypeOK
<1>3. page \in Page /\ page \in Near(Rec)
  BY <1>1, <1>2, CurrentRecord, LoopPages
<1> QED  BY <1>1, <1>2, <1>3, CurrentRecord DEF Page

(* Reading a record: the loop is at its first page, no page lies behind it. *)
LEMMA ReadRecordStep == IInv /\ ReadRecord => IInv'
<1> SUFFICES ASSUME IInv, ReadRecord PROVE IInv'
  OBVIOUS
<1>1. TypeOK /\ files[file] \in Seq(Record)
  BY PageAssumption DEF IInv, TypeOK
<1>2. PICK r : r = files[file][rec + 1]
  OBVIOUS
<1>3. rec + 1 \in 1 .. Len(files[file]) /\ file \in 1 .. 4
  BY <1>1 DEF TypeOK, ReadRecord, ReadRecordAt
<1>4. r \in Record /\ r.addr + r.len + PageSize < NumPages * PageSize
  BY <1>1, <1>2, <1>3, RecordFacts DEF TypeOK
<1>5. page_aligned_addr(r) \in Page
  BY <1>4, FirstPage
<1>6. /\ rec' = rec + 1 /\ page' = page_aligned_addr(r) /\ Rec' = r
      /\ pc' = IF r.len = 0 THEN "exited" ELSE "pages"
      /\ UNCHANGED << files, access, mine, heap, file, allocated_pages >>
  BY <1>2 DEF ReadRecord, ReadRecordAt, Rec
<1>7. TypeOK'
  BY <1>1, <1>3, <1>5, <1>6, PageAssumption, SMTT(30) DEF TypeOK, Page
<1>8. LoopInv'
  BY <1>5, <1>6, PageAssumption DEF LoopInv, Page
<1>9. AllocatedInv' /\ MineInv' /\ BoltedExecutable'
  BY <1>6 DEF IInv, AllocatedInv, MineInv, BoltedExecutable, Mapped
<1>10. ExitJustified'
  BY <1>6 DEF ExitJustified
<1> QED  BY <1>7, <1>8, <1>9, <1>10 DEF IInv

(* A page that is skipped is in the set, so nothing is left behind. *)
LEMMA SkipPageStep == IInv /\ SkipPage => IInv'
<1> SUFFICES ASSUME IInv, SkipPage PROVE IInv'
  OBVIOUS
<1>1. /\ pc = "pages" /\ pc' = "pages" /\ page \in allocated_pages /\ page' = page + 1
      /\ UNCHANGED << files, access, mine, heap, pc, file, rec, allocated_pages >>
  BY DEF SkipPage
<1>2. TypeOK /\ NumPages \in Nat /\ page \in Page
  BY <1>1, PageAssumption DEF IInv, TypeOK
<1>3. TypeOK'
  BY <1>1, <1>2 DEF TypeOK, Page
<1>4. Rec' = Rec /\ Rec \in Record /\ PageSize \in Nat \ {0}
  BY <1>1, <1>2, CurrentRecord, PageAssumption DEF Rec
<1>5. page_aligned_addr(Rec) \in Int
  BY <1>4, Aligned DEF page_aligned_addr, Record
<1>6. LoopInv'
  BY <1>1, <1>2, <1>4, <1>5 DEF IInv, LoopInv, Page
<1>7. AllocatedInv' /\ MineInv' /\ BoltedExecutable' /\ ExitJustified'
  BY <1>1 DEF IInv, AllocatedInv, MineInv, BoltedExecutable, ExitJustified, Mapped
<1> QED  BY <1>3, <1>6, <1>7 DEF IInv

(* A page that is added gets every access. *)
LEMMA GetsStep ==
  ASSUME IInv, NewPage, Gets(page, RWX), UNCHANGED << files, heap, pc, file, rec >>,
         \/ file = 1 /\ mine' = mine \cup {page}
         \/ file > 1 /\ mine' = mine
  PROVE  IInv'
<1>1. page \in Page /\ page + 1 \in 0 .. NumPages /\ page \in Near(Rec) /\ rec \in 1 .. Len(files[file])
  BY NewPageFacts
<1>2. /\ access' = [access EXCEPT ![page] = RWX] /\ page' = page + 1
      /\ allocated_pages' = allocated_pages \cup {page}
  BY DEF Gets
<1>3. TypeOK /\ access \in [Page -> Access \cup {NoPage}] /\ NumPages \in Nat /\ pc = "pages"
  BY PageAssumption DEF IInv, TypeOK, NewPage
<1>4. /\ access' \in [Page -> Access \cup {NoPage}]
      /\ \A p \in Page : access'[p] = IF p = page THEN RWX ELSE access[p]
  BY <1>1, <1>2, <1>3, AccessFacts
<1>5. mine' \subseteq Page /\ allocated_pages' \subseteq Page
  BY <1>1, <1>2, <1>3 DEF TypeOK
<1>6. TypeOK'
  BY <1>1, <1>2, <1>3, <1>4, <1>5 DEF TypeOK
<1>7. Rec' = Rec /\ Rec \in Record /\ PageSize \in Nat \ {0}
  BY <1>3, CurrentRecord, PageAssumption DEF Rec
<1>8. page_aligned_addr(Rec) \in Int
  BY <1>7, Aligned DEF page_aligned_addr, Record
<1>9. LoopInv'
  BY <1>1, <1>2, <1>3, <1>7, <1>8 DEF IInv, LoopInv, Page
<1>10. AllocatedInv'
  BY <1>2, <1>3, <1>4, <1>5, AccessFacts DEF IInv, AllocatedInv, Mapped, TypeOK
<1>11. MineInv'
  BY <1>2, <1>3, <1>4, <1>5, AccessFacts DEF IInv, MineInv, Mapped, TypeOK
<1>12. ExitJustified'
  BY <1>3 DEF ExitJustified
<1>13. BoltedExecutable'
  <2> SUFFICES ASSUME file > 1, NEW p \in mine
               PROVE  /\ RX \subseteq access'[p]
                      /\ "w" \in access'[p] =>
                           \E f \in 2 .. 4 : \E k \in 1 .. Len(files[f]) : p \in Near(files[f][k])
    BY <1>3 DEF BoltedExecutable, TypeOK
  <2>1. p \in Page
    BY <1>3 DEF TypeOK
  <2>2. CASE p = page
    <3>1. file \in 2 .. 4
      BY <1>3 DEF TypeOK
    <3>2. p \in Near(files[file][rec])
      BY <2>2, <1>1 DEF Rec
    <3>3. access'[p] = RWX
      BY <2>1, <2>2, <1>4
    <3> QED  BY <3>1, <3>2, <3>3, <1>1, AccessFacts
  <2>3. CASE p # page
    BY <2>1, <2>3, <1>4 DEF IInv, BoltedExecutable
  <2> QED  BY <2>2, <2>3
<1> QED  BY <1>6, <1>9, <1>10, <1>11, <1>12, <1>13 DEF IInv

(* When a page cannot be had, it is not one that the library has mapped. *)
LEMMA PageFailsStep == IInv /\ PageFails => IInv'
<1> SUFFICES ASSUME IInv, PageFails PROVE IInv'
  OBVIOUS
<1>1. /\ NewPage /\ (Mapped(page) <=> file = 1) /\ pc' = "exited"
      /\ UNCHANGED << files, access, mine, heap, file, rec, page, allocated_pages >>
  BY DEF PageFails
<1>2. page \in Near(Rec) \ mine
  BY <1>1, NewPageFacts DEF IInv, MineInv, NewPage
<1>3. ExitJustified'
  BY <1>1, <1>2 DEF ExitJustified, Rec, Mapped
<1>4. TypeOK'
  BY <1>1 DEF IInv, TypeOK
<1> QED  BY <1>1, <1>3, <1>4 DEF IInv, LoopInv, AllocatedInv, MineInv, BoltedExecutable, Mapped

(* The end of the loop, and the copy, change nothing else. *)
LEMMA LoopEndsStep == IInv /\ LoopEnds => IInv'
<1> SUFFICES ASSUME IInv, LoopEnds PROVE IInv'
  OBVIOUS
<1>1. /\ pc = "pages" /\ pc' = "copy" /\ ~ InLoop(Rec, page)
      /\ UNCHANGED << files, access, mine, heap, file, rec, page, allocated_pages >>
  BY DEF LoopEnds, LoopEndsIf
<1>2. TypeOK'
  BY <1>1 DEF IInv, TypeOK
<1>3. LoopInv'
  BY <1>1 DEF IInv, LoopInv, Rec
<1> QED  BY <1>1, <1>2, <1>3 DEF IInv, AllocatedInv, MineInv, ExitJustified, BoltedExecutable, Mapped

(* The steps that only move on: opening the files, memcpy, and the end of    *)
(* the last file, which protects nothing.                                    *)
LEMMA MoveOnStep == IInv /\ (OpenFiles \/ Copy \/ Finish) => IInv'
<1> SUFFICES ASSUME IInv, OpenFiles \/ Copy \/ Finish PROVE IInv'
  OBVIOUS
<1>1. TypeOK /\ access = [p \in Page |-> access[p]]
  BY DEF IInv, TypeOK
<1>2. access' = access
  BY <1>1 DEF OpenFiles, Copy, Finish, FinishProtecting
<1>3. /\ pc' \in {"read", "crashed", "done"}
      /\ UNCHANGED << files, mine, heap, file, rec, page, allocated_pages >>
  BY DEF OpenFiles, Copy, Finish, FinishProtecting
<1>4. TypeOK'
  BY <1>1, <1>2, <1>3 DEF TypeOK
<1> QED  BY <1>2, <1>3, <1>4 DEF IInv, LoopInv, AllocatedInv, MineInv, ExitJustified, BoltedExecutable, Mapped

(* A file that ends leaves an empty set; the first one leaves its pages      *)
(* without PROT_WRITE.                                                       *)
LEMMA FileEndsStep == IInv /\ (ProtectBolted \/ NextFile) => IInv'
<1> SUFFICES ASSUME IInv, ProtectBolted \/ NextFile PROVE IInv'
  OBVIOUS
<1>1. /\ TypeOK /\ pc = "read" /\ pc' = "read" /\ file' = file + 1 /\ file \in 1 .. 3 /\ rec' = 0
      /\ allocated_pages' = {} /\ UNCHANGED << files, mine, heap, page >>
  BY DEF IInv, ProtectBolted, ProtectThen, NextFile, FileEnds
<1>2. file' \in 2 .. 4
  BY <1>1
<1>3. /\ access' \in [Page -> Access \cup {NoPage}]
      /\ \A p \in mine : access'[p] # NoPage
      /\ file = 1 => \A p \in mine : access'[p] = RX
      /\ file # 1 => access' = access
  <2>1. CASE ProtectBolted
    <3>1. file = 1 /\ access' = [p \in Page |-> IF p \in mine THEN RX ELSE access[p]]
      BY <2>1 DEF ProtectBolted, ProtectThen, IInv, MineInv
    <3>2. access \in [Page -> Access \cup {NoPage}] /\ mine \subseteq Page
      BY <1>1 DEF TypeOK
    <3> QED  BY <3>1, <3>2, AccessFacts
  <2>2. CASE NextFile
    BY <2>2, <1>1 DEF NextFile, IInv, MineInv, Mapped, TypeOK
  <2> QED  BY <2>1, <2>2
<1>4. 0 \in 0 .. Len(files[file'])
  <2>1. files[file'] \in Seq(Record)
    BY <1>1, <1>2, PageAssumption, SMTT(30) DEF TypeOK
  <2> QED  BY <2>1
<1>5. TypeOK'
  BY <1>1, <1>2, <1>3, <1>4 DEF TypeOK
<1>6. MineInv'
  BY <1>1, <1>2, <1>3 DEF MineInv, Mapped
<1>7. BoltedExecutable'
  <2>1. CASE file = 1
    BY <2>1, <1>1, <1>3, AccessFacts DEF BoltedExecutable
  <2>2. CASE file # 1
    BY <2>2, <1>1, <1>3 DEF IInv, BoltedExecutable
  <2> QED  BY <2>1, <2>2
<1> QED  BY <1>1, <1>5, <1>6, <1>7 DEF IInv, LoopInv, AllocatedInv, ExitJustified

(* The heap takes a page that was not mapped, so none that the library has   *)
(* mapped.                                                                   *)
LEMMA GrowHeapStep == IInv /\ GrowHeap => IInv'
<1> SUFFICES ASSUME IInv, GrowHeap PROVE IInv'
  OBVIOUS
<1>1. PICK h : h = heap + 1
  OBVIOUS
<1>2. /\ pc \in {"read", "pages"} /\ heap < MaxHeap /\ ~ Mapped(h) /\ heap' = h
      /\ access' = [access EXCEPT ![h] = RW]
      /\ UNCHANGED << files, mine, pc, file, rec, page, allocated_pages >>
  BY <1>1 DEF GrowHeap
<1>3. TypeOK /\ access \in [Page -> Access \cup {NoPage}] /\ h \in Page
  BY <1>1, <1>2, PageAssumption DEF IInv, TypeOK, Page
<1>4. /\ access' \in [Page -> Access \cup {NoPage}]
      /\ \A p \in Page : p # h => access'[p] = access[p]
  BY <1>2, <1>3, AccessFacts
<1>5. h \notin mine /\ h \notin allocated_pages
  BY <1>2 DEF IInv, MineInv, AllocatedInv
<1>6. \A p \in mine \cup allocated_pages : access'[p] = access[p]
  BY <1>3, <1>4, <1>5 DEF TypeOK
<1>7. TypeOK'
  BY <1>2, <1>3, <1>4 DEF TypeOK
<1>8. AllocatedInv' /\ MineInv'
  BY <1>2, <1>6 DEF IInv, AllocatedInv, MineInv, Mapped
<1>9. LoopInv'
  BY <1>2 DEF IInv, LoopInv, Rec
<1>10. BoltedExecutable'
  BY <1>2, <1>6 DEF IInv, BoltedExecutable
<1>11. ExitJustified'
  BY <1>2 DEF ExitJustified
<1> QED  BY <1>7, <1>8, <1>9, <1>10, <1>11 DEF IInv

(* Every step keeps the invariant. *)
LEMMA NextIInv == IInv /\ [Next]_vars => IInv'
<1> SUFFICES ASSUME IInv, [Next]_vars PROVE IInv'
  OBVIOUS
<1>1. CASE MmapPage
  BY <1>1, GetsStep DEF MmapPage
<1>2. CASE MprotectPage
  BY <1>2, GetsStep DEF MprotectPage
<1>3. CASE UNCHANGED vars
  BY <1>3 DEF vars, IInv, TypeOK, LoopInv, AllocatedInv, MineInv, ExitJustified, BoltedExecutable, Mapped, Rec
<1> QED
  BY <1>1, <1>2, <1>3, ReadRecordStep, SkipPageStep, PageFailsStep, LoopEndsStep, MoveOnStep,
     FileEndsStep, GrowHeapStep DEF Next
-----------------------------------------------------------------------------
(* The invariant holds in every reachable state. *)
LEMMA Invariance == Spec => []IInv
BY InitIInv, NextIInv, PTL DEF Spec

(* The state of the library's page loops is well-typed: in particular the    *)
(* loops stay within the address space.                                      *)
THEOREM TypeCorrect == Spec => []TypeOK
<1>1. IInv => TypeOK
  BY DEF IInv
<1> QED  BY <1>1, Invariance, PTL

(* memcpy writes to mapped and writable pages only: every page the bytes of  *)
(* the record lie in has been passed by the loop.                            *)
THEOREM CopySafe == Spec => []CopyNeverFaults
<1>1. IInv => CopyNeverFaults
  <2> SUFFICES ASSUME IInv, pc = "copy", NEW p \in Covered(Rec)
               PROVE  Mapped(p) /\ "w" \in access[p]
    BY DEF CopyNeverFaults
  <2>1. TypeOK /\ Rec \in Record /\ PageSize \in Nat \ {0} /\ NumPages \in Nat
    BY CurrentRecord, PageAssumption DEF IInv
  <2>2. /\ p \in Page /\ page_aligned_addr(Rec) <= p /\ p * PageSize < Rec.addr + Rec.len
    BY DEF Covered
  <2>3. p \in Int /\ page \in Int /\ Rec.addr \in Nat /\ Rec.len \in Nat
    BY <2>1, <2>2 DEF TypeOK, Page, Record
  <2>4. page * PageSize > Rec.addr + Rec.len + PageSize
    BY <2>1, <2>3 DEF IInv, LoopInv, InLoop
  <2>5. p < page
    <3>1. ASSUME page <= p  PROVE FALSE
      <4>1. page * PageSize <= p * PageSize
        BY <3>1, <2>1, <2>3, MulMonotonic
      <4> QED  BY <4>1, <2>1, <2>2, <2>3, <2>4
    <3> QED  BY <3>1, <2>3
  <2>6. p \in allocated_pages
    BY <2>2, <2>5 DEF IInv, LoopInv
  <2> QED  BY <2>6 DEF IInv, AllocatedInv
<1> QED  BY <1>1, Invariance, PTL

(* The library ends the target only for a record without bytes or for a page *)
(* near a record that is somebody else's.                                    *)
THEOREM ExitSafe == Spec => []ExitJustified
<1>1. IInv => ExitJustified
  BY DEF IInv
<1> QED  BY <1>1, Invariance, PTL

(* The pages of the BOLTed functions are executable once the first file has  *)
(* ended, and writable only where a later page loop reaches into them.       *)
THEOREM BoltedSafe == Spec => []BoltedExecutable
<1>1. IInv => BoltedExecutable
  BY DEF IInv
<1> QED  BY <1>1, Invariance, PTL

(* No step of the library takes an access away from a page of the target.    *)
THEOREM AccessKept == Spec => TargetKeepsAccess
<1>1. IInv /\ [Next]_vars => [KeepsAccess]_vars
  <2> SUFFICES ASSUME IInv, Next, NEW p \in Page \ mine, Mapped(p)
               PROVE  access'[p] # NoPage /\ access[p] \subseteq access'[p]
    BY DEF KeepsAccess
  <2>1. access \in [Page -> Access \cup {NoPage}] /\ access[p] \in Access /\ access[p] # NoPage
    BY DEF IInv, TypeOK, Mapped
  <2>2. CASE MmapPage \/ MprotectPage
    <3>1. access' = [access EXCEPT ![page] = RWX]
      BY <2>2 DEF MmapPage, MprotectPage, Gets
    <3>2. access'[p] = IF p = page THEN RWX ELSE access[p]
      BY <2>1, <3>1
    <3> QED  BY <2>1, <3>2, AccessFacts
  <2>3. CASE ProtectBolted
    <3>1. p \notin allocated_pages
      BY <2>3 DEF IInv, MineInv, ProtectBolted, ProtectThen
    <3> QED  BY <2>1, <2>3, <3>1 DEF ProtectBolted, ProtectThen
  <2>4. CASE GrowHeap
    <3>1. access' = [access EXCEPT ![heap + 1] = RW] /\ p # heap + 1
      BY <2>4 DEF GrowHeap
    <3>2. access'[p] = access[p]
      BY <2>1, <3>1
    <3> QED  BY <2>1, <3>2
  <2>5. CASE Finish
    BY <2>1, <2>5 DEF Finish, FinishProtecting
  <2>6. CASE OpenFiles \/ ReadRecord \/ SkipPage \/ PageFails \/ LoopEnds \/ Copy \/ NextFile
    <3>1. access' = access
      BY <2>6 DEF OpenFiles, ReadRecord, ReadRecordAt, SkipPage, PageFails, LoopEnds, LoopEndsIf, Copy, NextFile
    <3> QED  BY <2>1, <3>1
  <2> QED  BY <2>2, <2>3, <2>4, <2>5, <2>6 DEF Next
<1> QED  BY <1>1, Invariance, PTL DEF Spec, TargetKeepsAccess
=============================================================================
