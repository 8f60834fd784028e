------------------------------- MODULE PageMap -------------------------------
(***************************************************************************)
(* How the library makes room in the address space of the target: the      *)
(* page loops of insert_BOLTed_function, which maps new pages, and of      *)
(* insert_code_to_orig_text_sec, which makes the pages of the target       *)
(* writable, with the permissions they leave behind.  The library's own    *)
(* allocations may extend the heap meanwhile.                              *)
(*                                                                         *)
(* The code's `offset`, a multiple of the page size counted from           *)
(* page_aligned_addr, is here the number of the page it stands for.        *)
(***************************************************************************)
EXTENDS Integers, Sequences

CONSTANTS
  PageSize,   \* MMAP_PAGE_SIZE
  NumPages,   \* size of the address space
  FileSets,   \* contents of the four files: sequences of [addr, len] records,
              \* in the order in which they are inserted
  Layouts,    \* address spaces of the target: the access each page allows,
              \* NoPage where nothing is mapped
  MaxHeap     \* how far the heap may grow

Access == SUBSET {"r", "w", "x"}
NoPage == {"unmapped"}
RWX == {"r", "w", "x"}
RX  == {"r", "x"}
RW  == {"r", "w"}

Page   == 0 .. NumPages - 1
Record == [addr : Nat, len : Nat]

(* The first page of a record, the page loop's condition, and the pages the  *)
(* bytes of the record lie in.                                               *)
page_aligned_addr(r) == r.addr \div PageSize
InLoop(r, p)  == p * PageSize <= r.addr + r.len + PageSize
Covered(r)    == {p \in Page : page_aligned_addr(r) <= p /\ p * PageSize < r.addr + r.len}

(* Those pages and the next two. *)
Near(r) ==
  {p \in Page : page_aligned_addr(r) <= p /\ (p - 2) * PageSize < r.addr + r.len}

ASSUME PageAssumption ==
  /\ PageSize \in Nat \ {0} /\ NumPages \in Nat /\ MaxHeap \in Nat /\ MaxHeap < NumPages
  /\ \A fs \in FileSets : fs \in [1 .. 4 -> Seq(Record)]
  /\ \A l \in Layouts : l \in [Page -> Access \cup {NoPage}]
  \* The address space is large enough for every page loop.
  /\ \A fs \in FileSets : \A f \in 1 .. 4 : \A k \in 1 .. Len(fs[f]) :
       fs[f][k].addr + fs[f][k].len + PageSize < NumPages * PageSize

VARIABLES
  files,      \* bolted_functions.bin, call_sites.bin, v_table.bin, unmoved_functions.bin
  access,     \* access[p], or NoPage
  mine,       \* the pages the library has mapped
  heap,       \* the last page of the heap
  pc,         \* "open", "read", "pages", "copy", "done", "exited" or "crashed"
  file, rec,  \* the record being inserted
  page,       \* the page the loop has come to
  allocated_pages

vars == << files, access, mine, heap, pc, file, rec, page, allocated_pages >>

Rec == files[file][rec]
Mapped(p) == access[p] # NoPage

Init ==
  /\ files \in FileSets
  /\ access \in Layouts
  /\ mine = {}
  /\ heap \in {p \in Page : access[p] = RW}
  /\ pc = "open" /\ file = 1 /\ rec = 0 /\ page = 0 /\ allocated_pages = {}

-----------------------------------------------------------------------------
(* Without the debug log nothing is inserted, and fclose(NULL) crashes.  A   *)
(* file that cannot be opened is like one without records.                   *)
OpenFiles ==
  /\ pc = "open"
  /\ pc' \in {"read", "crashed"}
  /\ UNCHANGED << files, access, mine, heap, file, rec, page, allocated_pages >>

ReadRecordAt(start, known) ==
  /\ pc = "read" /\ rec < Len(files[file])
  /\ rec' = rec + 1
  /\ page' = start
  /\ pc' = IF files[file][rec + 1].len = 0 THEN "exited" ELSE "pages"
  /\ allocated_pages' = known
  /\ UNCHANGED << files, access, mine, heap, file >>

(* Faulty variants: the loop starts at an address that is not aligned; the   *)
(* set is made anew for every record.                                        *)
ReadRecordUnaligned == ReadRecordAt(files[file][rec + 1].addr, allocated_pages)
ReadRecordForget == ReadRecordAt(page_aligned_addr(files[file][rec + 1]), {})

(* The fread of the next record; the one of no bytes returns 0, which counts *)
(* as an error.                                                              *)
ReadRecord == ReadRecordAt(page_aligned_addr(files[file][rec + 1]), allocated_pages)

(* A page that an earlier record of the same file has brought is skipped. *)
SkipPage ==
  /\ pc = "pages" /\ InLoop(Rec, page) /\ page \in allocated_pages
  /\ page' = page + 1
  /\ UNCHANGED << files, access, mine, heap, pc, file, rec, allocated_pages >>

NewPage == pc = "pages" /\ InLoop(Rec, page) /\ page \notin allocated_pages

Gets(p, a) ==
  /\ access' = [access EXCEPT ![p] = a]
  /\ allocated_pages' = allocated_pages \cup {p}
  /\ page' = page + 1

(* insert_BOLTed_function: mmap with MAP_FIXED_NOREPLACE *)
MmapPage ==
  /\ NewPage /\ file = 1 /\ ~ Mapped(page)
  /\ Gets(page, RWX)
  /\ mine' = mine \cup {page}
  /\ UNCHANGED << files, heap, pc, file, rec >>

(* insert_code_to_orig_text_sec: mprotect *)
MprotectPage ==
  /\ NewPage /\ file > 1 /\ Mapped(page)
  /\ Gets(page, RWX)
  /\ UNCHANGED << files, mine, heap, pc, file, rec >>

(* mmap where there is a page, or mprotect where there is none *)
PageFails ==
  /\ NewPage /\ (Mapped(page) <=> file = 1)
  /\ pc' = "exited"
  /\ UNCHANGED << files, access, mine, heap, file, rec, page, allocated_pages >>

LoopEndsIf(over) ==
  /\ pc = "pages" /\ over
  /\ pc' = "copy"
  /\ UNCHANGED << files, access, mine, heap, file, rec, page, allocated_pages >>

(* Faulty variant: the bound counts from the start of the page. *)
LoopEndsEarly == LoopEndsIf((page - page_aligned_addr(Rec)) * PageSize > Rec.len)
LoopEnds == LoopEndsIf(~ InLoop(Rec, page))

(* memcpy *)
Copy ==
  /\ pc = "copy"
  /\ pc' = "read"
  /\ UNCHANGED << files, access, mine, heap, file, rec, page, allocated_pages >>

FileEnds == pc = "read" /\ rec = Len(files[file])

ProtectThen(protected) ==
  /\ FileEnds /\ file = 1
  /\ access' = [p \in Page |-> IF p \in protected THEN RX ELSE access[p]]
  /\ file' = 2 /\ rec' = 0 /\ allocated_pages' = {}
  /\ UNCHANGED << files, mine, heap, pc, page >>

(* Faulty variant: the pages are left writable. *)
ProtectOmitted == ProtectThen({})

(* The end of insert_BOLTed_function: its pages lose PROT_WRITE. *)
ProtectBolted == ProtectThen(allocated_pages)

(* The other files leave their pages as they are. *)
NextFile ==
  /\ FileEnds /\ file \in {2, 3}
  /\ file' = file + 1 /\ rec' = 0 /\ allocated_pages' = {}
  /\ UNCHANGED << files, access, mine, heap, pc, page >>

FinishProtecting(protected) ==
  /\ FileEnds /\ file = 4
  /\ pc' = "done"
  /\ access' = [p \in Page |-> IF p \in protected THEN RX ELSE access[p]]
  /\ UNCHANGED << files, mine, heap, file, rec, page, allocated_pages >>

(* Faulty variant: the last loop of insert_machine_code runs over the pages  *)
(* that insert_code_to_orig_text_sec has changed.                            *)
FinishShared == FinishProtecting(allocated_pages)

(* That loop runs over a set of its own that nobody has put anything in. *)
Finish == FinishProtecting({})

(* The library allocates memory. *)
GrowHeap ==
  /\ pc \in {"read", "pages"} /\ heap < MaxHeap /\ ~ Mapped(heap + 1)
  /\ heap' = heap + 1
  /\ access' = [access EXCEPT ![heap + 1] = RW]
  /\ UNCHANGED << files, mine, pc, file, rec, page, allocated_pages >>

Next ==
  \/ OpenFiles \/ ReadRecord \/ SkipPage \/ MmapPage \/ MprotectPage \/ PageFails
  \/ LoopEnds \/ Copy \/ ProtectBolted \/ NextFile \/ Finish \/ GrowHeap

Spec == Init /\ [][Next]_vars
-----------------------------------------------------------------------------
TypeOK ==
  /\ files \in FileSets
  /\ access \in [Page -> Access \cup {NoPage}]
  /\ mine \subseteq Page /\ allocated_pages \subseteq Page
  /\ heap \in Page
  /\ pc \in {"open", "read", "pages", "copy", "done", "exited", "crashed"}
  /\ file \in 1 .. 4
  /\ rec \in 0 .. Len(files[file]) /\ (pc \in {"pages", "copy"} => rec > 0)
  /\ page \in 0 .. NumPages

(* memcpy never writes to a page that is not mapped or not writable, however *)
(* the record lies across the pages, and whichever earlier record or file    *)
(* has changed them.                                                         *)
CopyNeverFaults ==
  pc = "copy" => \A p \in Covered(Rec) : Mapped(p) /\ "w" \in access[p]

(* No page of the target ever loses an access it had, neither its data its   *)
(* writability nor its text its executability; and no page is unmapped.      *)
KeepsAccess ==
  \A p \in Page \ mine : Mapped(p) => access'[p] # NoPage /\ access[p] \subseteq access'[p]

TargetKeepsAccess == [][KeepsAccess]_vars

(* The library ends the target only for a record without bytes, or because   *)
(* a page of a record or one of the two pages after it is somebody else's    *)
(* (BOLTed code), or not there (the other files): never for a page that it   *)
(* has mapped itself.                                                        *)
ExitJustified ==
  pc = "exited" =>
    \/ Rec.len = 0
    \/ /\ page \in Near(Rec) \ mine
       /\ (Mapped(page) <=> file = 1)

(* Once the BOLTed functions are in place, their pages can be executed, and  *)
(* written only where the page loop of a later file reaches into them.       *)
BoltedExecutable ==
  file > 1 =>
    \A p \in mine :
      /\ RX \subseteq access[p]
      /\ "w" \in access[p] => \E f \in 2 .. 4 : \E k \in 1 .. Len(files[f]) : p \in Near(files[f][k])
=============================================================================
