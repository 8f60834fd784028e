------------------------------- MODULE Program -------------------------------
(***************************************************************************)
(* What the target process does when nobody replaces its code: every       *)
(* thread calls functions along the call graph of its source program and   *)
(* returns from them, threads start other threads, and the process may     *)
(* exit.  Replacing code online has to be invisible at this level.         *)
(***************************************************************************)
EXTENDS Integers, Sequences

CONSTANTS
  Thread,      \* every thread the program ever has
  FirstThread, \* the threads it starts with
  Root,        \* Root[t]: the function thread t starts in
  Edge,        \* <<f, g>>: f's source calls g, directly or through a vtable
  MaxDepth     \* bound on the depth of a call stack

VARIABLES
  calls,   \* calls[t]: the functions on t's call stack, << >> before t starts
  process  \* "alive" or "exited"

programVars == << calls, process >>

ProgramInit ==
  /\ calls = [t \in Thread |-> IF t \in FirstThread THEN << Root[t] >> ELSE << >>]
  /\ process = "alive"

ProgramCall(t, g) ==
  /\ process = "alive"
  /\ Len(calls[t]) \in 1 .. MaxDepth - 1
  /\ << calls[t][Len(calls[t])], g >> \in Edge
  /\ calls' = [calls EXCEPT ![t] = Append(@, g)]
  /\ UNCHANGED process

ProgramReturn(t) ==
  /\ process = "alive"
  /\ Len(calls[t]) > 1
  /\ calls' = [calls EXCEPT ![t] = SubSeq(@, 1, Len(@) - 1)]
  /\ UNCHANGED process

ProgramSpawn(t) ==
  /\ process = "alive"
  /\ calls[t] = << >>
  /\ calls' = [calls EXCEPT ![t] = << Root[t] >>]
  /\ UNCHANGED process

ProgramExit ==
  /\ process = "alive"
  /\ process' = "exited"
  /\ UNCHANGED calls

ProgramNext ==
  \/ \E t \in Thread :
       \/ \E e \in Edge : ProgramCall(t, e[2])
       \/ ProgramReturn(t)
       \/ ProgramSpawn(t)
  \/ ProgramExit

ProgramSpec == ProgramInit /\ [][ProgramNext]_programVars
=============================================================================
