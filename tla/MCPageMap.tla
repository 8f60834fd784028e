------------------------------ MODULE MCPageMap ------------------------------
(* Pages of four bytes.  Pages 1 and 2 are text, 3 is data, 5 the heap, and  *)
(* BOLT has placed its code from page 7 or 9 on.                             *)
EXTENDS PageMap

R(a, l) == [addr |-> a, len |-> l]

(* Two BOLTed functions next to each other and one in the same page as       *)
(* another; a call site across two pages or not; a vtable at the end of the  *)
(* data; a function up to the end of the text, or with a symbol without size *)
MCFileSets ==
  {<< << R(b + a, l), R(b + a + l, 3) >>, << R(c, 5) >>, << R(12, v) >>, << R(4, n), R(6, 1) >> >> :
     b \in {28, 36}, a \in 0 .. 3, l \in 1 .. 5, c \in {4, 6}, v \in {0, 3, 4}, n \in {0, 8}}

Layout(data, gap) ==
  [p \in 0 .. NumPages - 1 |->
     CASE p \in {1, 2} -> RX [] p = 3 -> data [] p = 4 -> gap [] p = 5 -> RW [] OTHER -> NoPage]

MCLayouts == {Layout(RW, NoPage), Layout(RW, {"r"}), Layout({"r"}, {"r"})}
=============================================================================
