---------------------------- MODULE MCCodeReplace ----------------------------
(* A small program.                                                          *)
(*   A 16..25 calls C at 16 and B at 21; the second call ends A, so it is    *)
(*            not recorded and its return address is the start of B          *)
(*   B 26..33 calls C at 27                                                  *)
(*   C 34..43 BOLT moves it to 64; calls D at 35                             *)
(*   D 44..49 BOLT moves it to 80                                            *)
(*   W 50..57 a weak function, calls C at 51                                 *)
(*   Z 58..61 the last symbol of the text                                    *)
(* The vtable slot at 100 holds C, the one at 108 holds B; A calls through   *)
(* both, B through the first.                                                *)
EXTENDS CodeReplace, TLC

CONSTANTS t1, t2, t3

MCFunc       == {16, 26, 34, 44, 50, 58}
MCFuncSize   == (16 :> 10) @@ (26 :> 8) @@ (34 :> 10) @@ (44 :> 6) @@ (50 :> 8) @@ (58 :> 4)
MCTextSym    == {16, 26, 34, 44, 58}
MCMoved      == {34, 44}
MCMovedAddr  == (34 :> 64) @@ (44 :> 80)
MCBoltSym    == {16, 26, 50, 58, 64, 80}
MCCallIns    == {16, 21, 27, 35, 51}
MCCallFunc   == (16 :> 16) @@ (21 :> 16) @@ (27 :> 26) @@ (35 :> 34) @@ (51 :> 50)
MCCallTarget == (16 :> 34) @@ (21 :> 26) @@ (27 :> 34) @@ (35 :> 44) @@ (51 :> 34)
MCSlot       == {100, 108}
MCSlotTarget == (100 :> 34) @@ (108 :> 26)
MCSlotUser   == (100 :> {16, 26}) @@ (108 :> {16})

\* t1 runs A, t2 starts in the weak function.
MCRoot       == (t1 :> 16) @@ (t2 :> 50)

\* A thread created while the tracer works; one vtable slot.
MCRootLate       == (t1 :> 16) @@ (t3 :> 26)
MCSlotLate       == {100}
MCSlotTargetLate == 100 :> 34
MCSlotUserLate   == 100 :> {16, 26}

\* t2 runs the last function of the text.
MCRootLast   == (t1 :> 16) @@ (t2 :> 58)
=============================================================================
