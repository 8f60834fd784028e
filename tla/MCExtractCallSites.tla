-------------------------- MODULE MCExtractCallSites --------------------------
(* Binaries with 0 to 8 functions, so that three threads get equal shares,   *)
(* unequal ones, and nothing; 34 has a second name, 20 lies inside the       *)
(* function at 10, and the last one calls a function with a short name.      *)
EXTENDS ExtractCallSites

Sym(addr, len, type) == [addr |-> addr, len |-> len, type |-> type]

Full == << Sym(10, 24, "T"), Sym(20, 14, "t"), Sym(34, 10, "T"), Sym(34, 10, "W"),
           Sym(44, 4, "D"), Sym(50, 12, "W"), Sym(62, 10, "t"), Sym(72, 10, "T"),
           Sym(82, 10, "T") >>

MCBinaries == {SubSeq(Full, 1, n) : n \in 0 .. Len(Full)}

(* The call at 15 is followed by a symbol, those at 29, 57 end a function.   *)
MCCall   == {11, 15, 22, 29, 35, 51, 57, 63, 73, 83}
MCTarget == [c \in MCCall |-> CASE c \in {11, 35, 63} -> 50
                                [] c \in {22, 57} -> 72
                                [] OTHER -> 10]
MCPlt    == {51}
MCShort  == {83}
=============================================================================
