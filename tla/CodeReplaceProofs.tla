--------------------------- MODULE CodeReplaceProofs ---------------------------
(***************************************************************************)
(* Proofs about CodeReplace for every program layout, every set of threads *)
(* and every depth of call stacks.                                         *)
(***************************************************************************)
EXTENDS CodeReplace, CallEncodingProofs, SequenceTheorems

-----------------------------------------------------------------------------
(* Call stacks as sequences: setting the last element, pushing, popping.     *)

LEMMA SetLast ==
  ASSUME NEW S, NEW s \in Seq(S), s # << >>, NEW a \in S,
         NEW r, r = [s EXCEPT ![Len(s)] = a]
  PROVE  /\ r \in Seq(S) /\ Len(r) = Len(s) /\ r # << >>
         /\ r[Len(s)] = a
         /\ \A i \in 1 .. Len(s) : i # Len(s) => r[i] = s[i]
OBVIOUS

LEMMA Push ==
  ASSUME NEW S, NEW s \in Seq(S), s # << >>, NEW a \in S, NEW b \in S,
         NEW r, r = Append([s EXCEPT ![Len(s)] = a], b)
  PROVE  /\ r \in Seq(S) /\ Len(r) = Len(s) + 1 /\ r # << >>
         /\ r[Len(s)] = a /\ r[Len(s) + 1] = b
         /\ \A i \in 1 .. Len(s) : i # Len(s) => r[i] = s[i]
<1>1. PICK q : q = [s EXCEPT ![Len(s)] = a]
  OBVIOUS
<1>2. /\ q \in Seq(S) /\ Len(q) = Len(s)
      /\ q[Len(s)] = a
      /\ \A i \in 1 .. Len(s) : i # Len(s) => q[i] = s[i]
  BY <1>1, SetLast
<1>3. r = Append(q, b)
  BY <1>1
<1>4. Len(s) \in Nat /\ Len(s) >= 1
  OBVIOUS
<1> QED BY <1>2, <1>3, <1>4

LEMMA Pop ==
  ASSUME NEW S, NEW s \in Seq(S), Len(s) > 1
  PROVE  \A r : r = SubSeq(s, 1, Len(s) - 1) =>
         /\ r \in Seq(S) /\ Len(r) = Len(s) - 1 /\ r # << >>
         /\ \A i \in 1 .. Len(r) : r[i] = s[i]
<1> TAKE r
<1> HAVE r = SubSeq(s, 1, Len(s) - 1)
<1> DEFINE n == Len(s) - 1
<1>1. Len(s) \in Nat /\ n \in Int /\ 1 <= n
  OBVIOUS
<1>2. \A i \in 1 .. n : s[i] \in S
  BY <1>1
<1> HIDE DEF n
<1>3. r = SubSeq(s, 1, n)
  BY DEF n
<1>4. /\ r \in Seq(S) /\ Len(r) = n - 1 + 1
      /\ \A i \in 1 .. n - 1 + 1 : r[i] = s[1 + i - 1]
  BY <1>1, <1>2, <1>3, SubSeqProperties
<1>5. n - 1 + 1 = n /\ \A i \in 1 .. n : 1 + i - 1 = i
  BY <1>1
<1>6. Len(r) = n /\ \A i \in 1 .. n : r[i] = s[i]
  <2>1. Len(r) = n
    BY <1>4, <1>5
  <2>2. ASSUME NEW i \in 1 .. n PROVE r[i] = s[i]
    <3>1. i \in 1 .. n - 1 + 1 /\ 1 + i - 1 = i
      BY <1>1
    <3>2. r[i] = s[1 + i - 1]
      BY <1>4, <3>1
    <3> QED BY <3>1, <3>2
  <2> QED BY <2>1, <2>2
<1>7. r # << >>
  <2>1. Len(<< >>) = 0
    BY EmptySeq
  <2>2. r = << >> => n = 0
    BY <1>6, <2>1, Zenon
  <2> QED BY <1>1, <2>2
<1> QED BY <1>4, <1>6, <1>7 DEF n

-----------------------------------------------------------------------------
(* The layout. *)

(* No moved function starts where an original function does. *)
LEMMA MovedAddrAbove ==
  ASSUME NEW g \in Moved
  PROVE  MovedAddr[g] \in Nat /\ MovedAddr[g] \notin Func
BY LayoutAssumption

(* A control transfer to the original or to the moved start of f enters f. *)
LEMMA FrameAtOriginal ==
  ASSUME NEW f \in Func
  PROVE  /\ IsEntry(f)
         /\ FrameAt(f) = [fn |-> f, moved |-> FALSE, ip |-> f, img |-> "none"]
         /\ FrameAt(f) \in Frame
BY LayoutAssumption DEF IsEntry, FrameAt, Frame

LEMMA FrameAtMoved ==
  ASSUME NEW g \in Moved
  PROVE  /\ IsEntry(MovedAddr[g])
         /\ FrameAt(MovedAddr[g]) = [fn |-> g, moved |-> TRUE, ip |-> MovedAddr[g], img |-> "none"]
         /\ FrameAt(MovedAddr[g]) \in Frame
<1>1. MovedAddr[g] \in Nat /\ MovedAddr[g] \notin Func
  BY MovedAddrAbove
<1>2. (CHOOSE h \in Moved : MovedAddr[h] = MovedAddr[g]) = g
  BY LayoutAssumption
<1>3. g \in Func
  BY LayoutAssumption
<1> QED BY <1>1, <1>2, <1>3 DEF IsEntry, FrameAt, Frame

LEMMA FrameAtEntry ==
  ASSUME NEW d, IsEntry(d)
  PROVE  /\ FrameAt(d) \in Frame
         /\ FrameAt(d).moved => FrameAt(d).fn \in Moved
         /\ FrameAt(d).img = "none"
<1>1. CASE d \in Func
  BY <1>1, FrameAtOriginal
<1>2. CASE \E g \in Moved : MovedAddr[g] = d
  <2>1. PICK g \in Moved : MovedAddr[g] = d
    BY <1>2
  <2>2. FrameAt(d) = [fn |-> g, moved |-> TRUE, ip |-> d, img |-> "none"] /\ FrameAt(d) \in Frame
    BY <2>1, FrameAtMoved
  <2> QED BY <2>2
<1> QED BY <1>1, <1>2 DEF IsEntry

(* The bytes extract_call_sites writes for call c reach the moved callee. *)
LEMMA PatchedDestIsMovedAddr ==
  ASSUME NEW c \in CallIns, CallTarget[c] \in Moved
  PROVE  PatchedDest(c) = MovedAddr[CallTarget[c]]
<1> DEFINE m == MovedAddr[CallTarget[c]]
           n == c + CallSize
<1>1. /\ n \in Nat /\ m \in Nat
      /\ m - n \in 0 .. HalfWord - 1
  <2>1. HalfWord \in Int
    BY Powers
  <2>2. /\ c \in Nat /\ CallFunc[c] \in Func /\ m \in Nat
        /\ c + CallSize <= CallFunc[c] + FuncSize[CallFunc[c]]
        /\ CallFunc[c] + FuncSize[CallFunc[c]] <= m
        /\ m - (c + CallSize) < HalfWord
        /\ CallFunc[c] \in Nat /\ FuncSize[CallFunc[c]] \in Nat
    BY LayoutAssumption
  <2> QED BY <2>1, <2>2 DEF CallSize
<1> HIDE DEF m, n
<1>2. CallDest(n, PatchedCall(n, m)) = m
  BY <1>1, PatchedCallReachesTarget
<1> QED BY <1>2 DEF PatchedDest, m, n

(* With a symbol for every moved address, every moved function is written.   *)
LEMMA AllMovedWritten == bolted_functions_bin = Moved
BY SymbolsComplete DEF bolted_functions_bin, write_functions

-----------------------------------------------------------------------------
(* The inductive invariant, first part: the types, and what an action needs  *)
(* to know to keep them.  A thread that was started has a frame; a frame is  *)
(* in a moved copy only of a moved function; the record being copied belongs *)
(* to the file being copied.                                                 *)
StackShape ==
  \A t \in Thread :
    /\ status[t] # "unborn" => stack[t] # << >>
    /\ \A i \in 1 .. Len(stack[t]) : stack[t][i].moved => stack[t][i].fn \in Moved

LibShape ==
  /\ tp \in {"prepare", "scan", "attach", "inject"} => lp = "idle"
  /\ tp = "cont" => hijack \in tids
  /\ \A t \in tids : status[t] # "unborn"
  /\ \A c \in siteFile : CallTarget[c] \in Moved
  /\ lp \in {"idle", "handshake", "finished"} => cur = None
  /\ lp = "bolted" /\ cur # None => cur \in Moved
  /\ lp = "site" /\ cur # None => cur \in call_sites_all /\ CallTarget[cur] \in Moved
  /\ lp = "vtable" /\ cur # None => cur \in Slot
  /\ lp = "func" /\ cur # None => cur \in get_unmoved_func

TypeInv == TypeOK /\ StackShape /\ LibShape

(* Second part: as long as BOLTed functions are missing nothing leads to     *)
(* them, and once something may lead to one of them all are inserted.        *)
AllBolted == \A g \in Moved : bolted[g] = "C1"

NoMovedFrame ==
  \A t \in Thread : \A i \in 1 .. Len(stack[t]) : ~ stack[t][i].moved

Pristine ==
  /\ site = CallTarget /\ slot = SlotTarget
  /\ text = [f \in Func |-> "C0"]
  /\ NoMovedFrame

EarlyPhase == {"idle", "handshake", "bolted"}

InsertInv ==
  /\ lp \in EarlyPhase => Pristine
  /\ lp \in {"site", "vtable", "func", "finished"} => AllBolted
  /\ lp = "abandoned" => Pristine \/ AllBolted
  /\ tp \in {"scan", "attach", "inject", "cont"} /\ lp \in EarlyPhase =>
       \A g \in Moved : \/ bolted[g] = "C1"
                        \/ g \in boltFile
                        \/ lp = "bolted" /\ cur = g
  /\ \A c \in CallIns : \/ site[c] = CallTarget[c]
                        \/ CallTarget[c] \in Moved /\ site[c] = MovedAddr[CallTarget[c]]
                        \/ site[c] = Torn /\ cur = c /\ lp \in {"site", "abandoned"}
  /\ \A v \in Slot : \/ slot[v] = SlotTarget[v]
                     \/ SlotTarget[v] \in Moved /\ slot[v] = MovedAddr[SlotTarget[v]]
                     \/ slot[v] = Torn /\ cur = v /\ lp \in {"vtable", "abandoned"}

-----------------------------------------------------------------------------
(* What a step of a thread does to call stacks.  Every frame is one that was *)
(* there before, the advanced top frame of the thread that steps, or a new   *)
(* frame at the start of a thread, a callee or a vtable target.              *)

LEMMA TopFrame ==
  ASSUME TypeInv, NEW t \in Thread, Executes(t)
  PROVE  /\ stack[t] \in Seq(Frame) /\ stack[t] # << >>
         /\ Len(stack[t]) \in 1 .. Len(stack[t])
         /\ Top(t) = stack[t][Len(stack[t])]
         /\ Top(t) \in Frame
         /\ Top(t).moved => Top(t).fn \in Moved
<1>1. stack[t] \in Seq(Frame) /\ stack[t] # << >>
  BY DEF TypeInv, TypeOK, StackShape, Executes
<1>2. Len(stack[t]) \in 1 .. Len(stack[t])
  BY <1>1
<1>3. Top(t) = stack[t][Len(stack[t])] /\ Top(t) \in Frame
  BY <1>1, <1>2 DEF Top
<1>4. Top(t).moved => Top(t).fn \in Moved
  BY <1>2, <1>3 DEF TypeInv, StackShape
<1> QED BY <1>1, <1>2, <1>3, <1>4

LEMMA AdvancedFrame ==
  ASSUME TypeInv, NEW t \in Thread, Executes(t), Executable(Top(t)), NEW off \in Nat
  PROVE  /\ Advanced(t, off) \in Frame
         /\ Advanced(t, off).fn = Top(t).fn
         /\ Advanced(t, off).moved = Top(t).moved
         /\ Advanced(t, off).img = CodeAt(Top(t))
         /\ Advanced(t, off).ip = Base(Top(t)) + off
         /\ CodeAt(Top(t)) \in {"C0", "C1"}
<1>1. Top(t) \in Frame /\ (Top(t).moved => Top(t).fn \in Moved)
  BY TopFrame
<1>2. Base(Top(t)) \in Nat
  BY <1>1, LayoutAssumption DEF Base, Frame
<1>3. CodeAt(Top(t)) \in {"C0", "C1"}
  BY DEF Executable
<1>4. Base(Top(t)) + off \in Nat
  BY <1>2
<1>5. PICK fr, p, c : fr = Top(t) /\ p = Base(Top(t)) + off /\ c = CodeAt(Top(t))
  OBVIOUS
<1>6. Advanced(t, off) = [fr EXCEPT !.ip = p, !.img = c]
  BY <1>5 DEF Advanced
<1>7. fr \in Frame /\ p \in Nat /\ c \in {"none", "C0", "C1"}
  BY <1>1, <1>3, <1>4, <1>5
<1>8. /\ Advanced(t, off) \in Frame
      /\ Advanced(t, off).fn = fr.fn
      /\ Advanced(t, off).moved = fr.moved
      /\ Advanced(t, off).ip = p
      /\ Advanced(t, off).img = c
  BY <1>6, <1>7 DEF Frame
<1> QED BY <1>3, <1>5, <1>8

(* The offsets at which a thread leaves a function lie behind its start and  *)
(* not behind its end.                                                       *)
LEMMA CallOffset ==
  ASSUME NEW c \in CallIns
  PROVE  c + CallSize - CallFunc[c] \in 1 .. FuncSize[CallFunc[c]]
<1>1. /\ c \in Nat /\ CallFunc[c] \in Nat /\ FuncSize[CallFunc[c]] \in Nat
      /\ CallFunc[c] <= c /\ c + CallSize <= CallFunc[c] + FuncSize[CallFunc[c]]
  BY LayoutAssumption
<1> QED BY <1>1 DEF CallSize

LEMMA FirstOffset ==
  ASSUME NEW f \in Func
  PROVE  1 \in 1 .. FuncSize[f] /\ FuncSize[f] \in Nat
BY LayoutAssumption

Kept(u, i) == i \in 1 .. Len(stack[u]) /\ stack'[u][i] = stack[u][i]

AdvancedTop(t, u, i) ==
  /\ u = t /\ i \in 1 .. Len(stack[u]) /\ Executes(t) /\ Executable(Top(t))
  /\ \E off \in 1 .. FuncSize[Top(t).fn] : stack'[u][i] = Advanced(t, off)

Entered(t, u, i) ==
  \E d : /\ IsEntry(d)
         /\ stack'[u][i] = FrameAt(d)
         /\ \/ d = Root[u]
            \/ /\ Executes(t) /\ Executable(Top(t))
               /\ \E c \in CallIns : d = DestOfCall(c, CodeAt(Top(t)))
            \/ \E v \in Slot : d = slot[v]

StackStep(t) ==
  /\ stack' \in [Thread -> Seq(Frame)]
  /\ status' \in [Thread -> {"unborn", "running", "stopped"}]
  /\ \A u \in Thread : status'[u] # "unborn" => stack'[u] # << >>
  /\ \A u \in Thread : \A i \in 1 .. Len(stack'[u]) :
       Kept(u, i) \/ AdvancedTop(t, u, i) \/ Entered(t, u, i)

(* Only t's stack changes, to a sequence r of legal frames. *)
LEMMA StackStepOf ==
  ASSUME TypeInv, NEW t \in Thread, NEW r \in Seq(Frame), r # << >>,
         stack' = [stack EXCEPT ![t] = r], status' = status,
         \A i \in 1 .. Len(r) :
            \/ i \in 1 .. Len(stack[t]) /\ r[i] = stack[t][i]
            \/ AdvancedTop(t, t, i)
            \/ Entered(t, t, i)
  PROVE  StackStep(t)
<1>1. stack \in [Thread -> Seq(Frame)] /\ status \in [Thread -> {"unborn", "running", "stopped"}]
  BY DEF TypeInv, TypeOK
<1>2. stack' \in [Thread -> Seq(Frame)] /\ stack'[t] = r /\ \A u \in Thread : u # t => stack'[u] = stack[u]
  BY <1>1
<1>3. \A u \in Thread : status'[u] # "unborn" => stack'[u] # << >>
  BY <1>2 DEF TypeInv, StackShape
<1>4. ASSUME NEW u \in Thread, NEW i \in 1 .. Len(stack'[u])
      PROVE  Kept(u, i) \/ AdvancedTop(t, u, i) \/ Entered(t, u, i)
  <2>1. CASE u = t
    BY <1>2, <2>1 DEF Kept
  <2>2. CASE u # t
    BY <1>2, <2>2 DEF Kept
  <2> QED BY <2>1, <2>2
<1> QED BY <1>1, <1>2, <1>3, <1>4 DEF StackStep

LEMMA StepStack ==
  ASSUME TypeInv, NEW t \in Thread, Step(t)
  PROVE  StackStep(t)
<1>1. Executes(t) /\ Executable(Top(t))
  BY DEF Step
<1>2. PICK s, a, r : s = stack[t] /\ a = Advanced(t, 1) /\ r = [s EXCEPT ![Len(s)] = a]
  OBVIOUS
<1>3. s \in Seq(Frame) /\ s # << >> /\ a \in Frame
  BY <1>1, <1>2, TopFrame, AdvancedFrame
<1>4. /\ r \in Seq(Frame) /\ Len(r) = Len(s) /\ r # << >>
      /\ r[Len(s)] = a
      /\ \A i \in 1 .. Len(s) : i # Len(s) => r[i] = s[i]
  BY <1>2, <1>3, SetLast
<1>5. stack' = [stack EXCEPT ![t] = r] /\ status' = status
  BY <1>2 DEF Step
<1>6. stack'[t] = r
  BY <1>5 DEF TypeInv, TypeOK
<1>7. 1 \in 1 .. FuncSize[Top(t).fn]
  BY <1>1, TopFrame, FirstOffset DEF Frame
<1>8. ASSUME NEW i \in 1 .. Len(r)
      PROVE  \/ i \in 1 .. Len(stack[t]) /\ r[i] = stack[t][i]
             \/ AdvancedTop(t, t, i)
  BY <1>1, <1>2, <1>4, <1>6, <1>7 DEF AdvancedTop
<1> QED BY <1>4, <1>5, <1>8, StackStepOf

LEMMA ReturnStack ==
  ASSUME TypeInv, NEW t \in Thread, Return(t)
  PROVE  StackStep(t)
<1>1. PICK s, r : s = stack[t] /\ r = SubSeq(s, 1, Len(s) - 1)
  OBVIOUS
<1>2. s \in Seq(Frame) /\ Len(s) > 1
  BY <1>1, TopFrame DEF Return
<1>3. /\ r \in Seq(Frame) /\ Len(r) = Len(s) - 1 /\ r # << >>
      /\ \A i \in 1 .. Len(r) : r[i] = s[i]
  <2>1. ASSUME NEW q \in Seq(Frame), Len(q) > 1
        PROVE  \A x : x = SubSeq(q, 1, Len(q) - 1) =>
                 /\ x \in Seq(Frame) /\ Len(x) = Len(q) - 1 /\ x # << >>
                 /\ \A i \in 1 .. Len(x) : x[i] = q[i]
    BY <2>1, Pop, Zenon
  <2> QED BY <1>1, <1>2, <2>1, ZenonT(30)
<1>4. stack' = [stack EXCEPT ![t] = r] /\ status' = status
  BY <1>1 DEF Return
<1>5. \A i \in 1 .. Len(r) : i \in 1 .. Len(stack[t]) /\ r[i] = stack[t][i]
  BY <1>1, <1>2, <1>3
<1> QED BY <1>3, <1>4, <1>5, StackStepOf

(* A call that lands on a function pushes a frame, any other call leaves the *)
(* stacks alone and ends the process.                                        *)
LEMMA LandStack ==
  ASSUME TypeInv, NEW t \in Thread, Executes(t), Executable(Top(t)),
         NEW off \in 1 .. FuncSize[Top(t).fn], NEW d, Land(t, off, d),
         \/ \E c \in CallIns : d = DestOfCall(c, CodeAt(Top(t)))
         \/ \E v \in Slot : d = slot[v]
  PROVE  StackStep(t)
<1>1. CASE IsEntry(d)
  <2>1. off \in Nat
    BY TopFrame, FirstOffset DEF Frame
  <2>2. PICK s, a, b, r : /\ s = stack[t] /\ a = Advanced(t, off) /\ b = FrameAt(d)
                          /\ r = Append([s EXCEPT ![Len(s)] = a], b)
    OBVIOUS
  <2>3. s \in Seq(Frame) /\ s # << >> /\ a \in Frame /\ b \in Frame
    BY <1>1, <2>1, <2>2, TopFrame, AdvancedFrame, FrameAtEntry
  <2>4. /\ r \in Seq(Frame) /\ Len(r) = Len(s) + 1 /\ r # << >>
        /\ r[Len(s)] = a /\ r[Len(s) + 1] = b
        /\ \A i \in 1 .. Len(s) : i # Len(s) => r[i] = s[i]
    BY <2>2, <2>3, Push
  <2>5. stack' = [stack EXCEPT ![t] = r] /\ status' = status
    BY <1>1, <2>2 DEF Land
  <2>6. stack'[t] = r
    BY <2>5 DEF TypeInv, TypeOK
  <2>7. ASSUME NEW i \in 1 .. Len(r)
        PROVE  \/ i \in 1 .. Len(stack[t]) /\ r[i] = stack[t][i]
               \/ AdvancedTop(t, t, i)
               \/ Entered(t, t, i)
    <3>1. Len(s) \in Nat
      BY <2>3
    <3>2. CASE i = Len(s) + 1
      BY <1>1, <2>2, <2>4, <2>6, <3>2 DEF Entered
    <3>3. CASE i = Len(s)
      BY <2>2, <2>3, <2>4, <2>6, <3>1, <3>3 DEF AdvancedTop
    <3>4. CASE i # Len(s) + 1 /\ i # Len(s)
      BY <2>2, <2>4, <3>1, <3>4
    <3> QED BY <3>2, <3>3, <3>4
  <2> QED BY <2>4, <2>5, <2>7, StackStepOf
<1>2. CASE ~ IsEntry(d)
  <2>1. stack' = stack /\ status' = status
    BY <1>2 DEF Land
  <2> QED BY <2>1 DEF StackStep, Kept, TypeInv, TypeOK, StackShape
<1> QED BY <1>1, <1>2

LEMMA SpawnStack ==
  ASSUME TypeInv, NEW t \in Thread, NEW u \in LateThread, Spawn(t, u)
  PROVE  StackStep(t)
<1>1. /\ stack \in [Thread -> Seq(Frame)]
      /\ status \in [Thread -> {"unborn", "running", "stopped"}]
      /\ u \in Thread /\ Root[u] \in Func
  BY ThreadAssumption DEF TypeInv, TypeOK
<1>2. PICK b : b = FrameAt(Root[u])
  OBVIOUS
<1>3. b \in Frame /\ IsEntry(Root[u])
  BY <1>1, <1>2, FrameAtOriginal
<1>4. /\ stack' = [stack EXCEPT ![u] = << b >>]
      /\ status' = [status EXCEPT ![u] = "running"]
  BY <1>2 DEF Spawn
<1>5. /\ << b >> \in Seq(Frame) /\ << b >> # << >>
      /\ Len(<< b >>) = 1 /\ << b >>[1] = b
  BY <1>3
<1>6. stack' \in [Thread -> Seq(Frame)] /\ status' \in [Thread -> {"unborn", "running", "stopped"}]
  BY <1>1, <1>4, <1>5
<1>7. ASSUME NEW w \in Thread
      PROVE  /\ status'[w] # "unborn" => stack'[w] # << >>
             /\ \A i \in 1 .. Len(stack'[w]) : Kept(w, i) \/ Entered(t, w, i)
  <2>1. CASE w = u
    <3>1. stack'[w] = << b >>
      BY <1>1, <1>4, <2>1
    <3> QED BY <1>2, <1>3, <1>5, <2>1, <3>1 DEF Entered
  <2>2. CASE w # u
    <3>1. stack'[w] = stack[w] /\ status'[w] = status[w]
      BY <1>1, <1>4, <2>2
    <3> QED BY <3>1 DEF Kept, TypeInv, StackShape
  <2> QED BY <2>1, <2>2
<1> QED BY <1>6, <1>7 DEF StackStep

LEMMA ThreadStep ==
  ASSUME TypeInv, NEW t \in Thread, ThreadNext(t)
  PROVE  /\ StackStep(t)
         /\ target' \in {"alive", "exited", "crashed"}
         /\ UNCHANGED << codeVars, fileVars, tracerVars, libVars >>
<1>1. CASE Step(t)
  BY <1>1, StepStack DEF Step, TypeInv, TypeOK
<1>2. CASE Return(t)
  BY <1>2, ReturnStack DEF Return, TypeInv, TypeOK
<1>3. CASE Fault(t)
  BY <1>3 DEF Fault, StackStep, Kept, TypeInv, TypeOK, StackShape
<1>4. ASSUME NEW c \in CallIns, Call(t, c)
      PROVE  StackStep(t)
  <2>1. c + CallSize - CallFunc[c] \in 1 .. FuncSize[Top(t).fn]
    BY <1>4, CallOffset DEF Call
  <2>2. PICK off, d : off = c + CallSize - CallFunc[c] /\ d = DestOfCall(c, CodeAt(Top(t)))
    OBVIOUS
  <2>3. Executes(t) /\ Executable(Top(t)) /\ Land(t, off, d)
    BY <1>4, <2>2 DEF Call
  <2> QED BY <2>1, <2>2, <2>3, LandStack
<1>5. ASSUME NEW v \in Slot, VirtualCall(t, v)
      PROVE  StackStep(t)
  <2>1. Executes(t) /\ Executable(Top(t)) /\ Land(t, 1, slot[v])
    BY <1>5 DEF VirtualCall
  <2>2. 1 \in 1 .. FuncSize[Top(t).fn]
    BY <2>1, TopFrame, FirstOffset DEF Frame
  <2> QED BY <2>1, <2>2, LandStack
<1>6. ASSUME NEW u \in LateThread, Spawn(t, u)
      PROVE  StackStep(t) /\ target' = target /\ UNCHANGED << codeVars, fileVars, tracerVars, libVars >>
  BY <1>6, SpawnStack DEF Spawn
<1>7. ASSUME NEW off, NEW d, Land(t, off, d)
      PROVE  /\ target' \in {"alive", "exited", "crashed"}
             /\ UNCHANGED << codeVars, fileVars, tracerVars, libVars >>
  BY <1>7 DEF Land, TypeInv, TypeOK
<1>8. target \in {"alive", "exited", "crashed"}
  BY DEF TypeInv, TypeOK
<1> QED
  <2>1. ASSUME NEW c \in CallIns, Call(t, c)
        PROVE  /\ target' \in {"alive", "exited", "crashed"}
               /\ UNCHANGED << codeVars, fileVars, tracerVars, libVars >>
    BY <2>1, <1>7 DEF Call
  <2>2. ASSUME NEW v \in Slot, VirtualCall(t, v)
        PROVE  /\ target' \in {"alive", "exited", "crashed"}
               /\ UNCHANGED << codeVars, fileVars, tracerVars, libVars >>
    BY <2>2, <1>7 DEF VirtualCall
  <2> QED BY <1>1, <1>2, <1>3, <1>4, <1>5, <1>6, <1>8, <2>1, <2>2 DEF ThreadNext

-----------------------------------------------------------------------------
(* Type correctness. *)

LEMMA TypeInit == Init => TypeInv
<1> SUFFICES ASSUME Init PROVE TypeInv
  OBVIOUS
<1>1. ASSUME NEW t \in Thread
      PROVE  /\ FrameAt(Root[t]) \in Frame /\ ~ FrameAt(Root[t]).moved
             /\ << FrameAt(Root[t]) >> \in Seq(Frame)
  BY FrameAtOriginal, ThreadAssumption
<1>2. stack \in [Thread -> Seq(Frame)]
  BY <1>1 DEF Init
<1>3. StackShape
  <2> SUFFICES ASSUME NEW t \in Thread
               PROVE  /\ status[t] # "unborn" => stack[t] # << >>
                      /\ \A i \in 1 .. Len(stack[t]) : ~ stack[t][i].moved
    BY DEF StackShape
  <2>1. CASE t \in LateThread
    BY <2>1 DEF Init
  <2>2. CASE t \notin LateThread
    <3>1. stack[t] = << FrameAt(Root[t]) >>
      BY <2>2 DEF Init
    <3>2. PICK b : b = FrameAt(Root[t])
      OBVIOUS
    <3>3. stack[t] = << b >> /\ ~ b.moved
      BY <3>1, <3>2, <1>1
    <3> QED BY <3>3
  <2> QED BY <2>1, <2>2
<1>4. TypeOK
  <2>1. CallTarget \in [CallIns -> Int] /\ SlotTarget \in [Slot -> Int]
    <3>1. Func \subseteq Int
      BY LayoutAssumption
    <3>2. CallTarget \in [CallIns -> Func] /\ SlotTarget \in [Slot -> Func]
      BY LayoutAssumption
    <3> QED BY <3>1, <3>2
  <2> QED BY <1>2, <2>1 DEF Init, TypeOK, LibBusy, CopyPhase
<1>5. LibShape
  BY DEF Init, LibShape
<1> QED BY <1>3, <1>4, <1>5 DEF TypeInv

LEMMA StackShapeStep ==
  ASSUME TypeInv, NEW t \in Thread, StackStep(t)
  PROVE  StackShape'
<1> SUFFICES ASSUME NEW u \in Thread, NEW i \in 1 .. Len(stack'[u]), stack'[u][i].moved
             PROVE  stack'[u][i].fn \in Moved
  BY DEF StackStep, StackShape
<1>1. CASE Kept(u, i)
  BY <1>1 DEF Kept, TypeInv, StackShape
<1>2. CASE AdvancedTop(t, u, i)
  <2>1. PICK off \in 1 .. FuncSize[Top(t).fn] : stack'[u][i] = Advanced(t, off)
    BY <1>2 DEF AdvancedTop
  <2>2. off \in Nat
    BY <1>2, TopFrame, FirstOffset DEF AdvancedTop, Frame
  <2> QED BY <1>2, <2>1, <2>2, TopFrame, AdvancedFrame DEF AdvancedTop
<1>3. CASE Entered(t, u, i)
  BY <1>3, FrameAtEntry DEF Entered
<1> QED BY <1>1, <1>2, <1>3 DEF StackStep

(* A step that leaves the stacks alone and starts no thread. *)
LEMMA StackShapeSame ==
  ASSUME TypeInv, UNCHANGED stack,
         \A t \in Thread : status[t] = "unborn" => status'[t] = "unborn"
  PROVE  StackShape'
BY DEF TypeInv, StackShape

(* What the tracer computes from the call stacks. *)
LEMMA FuncInCallStackType ==
  ASSUME NEW ips, NEW ub \in PrevOfBegin
  PROVE  get_func_in_call_stack(ips, ub) \subseteq TextSym
BY DEF get_func_in_call_stack, FuncOfIp, PrevOfBegin

LEMMA TypeStepTracer ==
  ASSUME TypeInv, TracerNext
  PROVE  TypeInv'
<1> USE DEF TypeInv
<1>1. CASE PrepareFiles
  <2>1. StackShape'
    BY <1>1, StackShapeSame DEF PrepareFiles, targetVars
  <2>2. TypeOK' /\ LibShape'
    BY <1>1, AllMovedWritten DEF PrepareFiles, TypeOK, LibShape, targetVars, codeVars, libVars
  <2> QED BY <2>1, <2>2
<1>2. CASE ScanTasks
  <2>1. StackShape'
    BY <1>2, StackShapeSame DEF ScanTasks, targetVars, TypeOK
  <2>2. TypeOK' /\ LibShape'
    BY <1>2 DEF ScanTasks, TypeOK, LibShape, targetVars, codeVars, fileVars, tracerVars, libVars, LibBusy, CopyPhase
  <2> QED BY <2>1, <2>2
<1>3. CASE Unwind
  <2>1. StackShape'
    BY <1>3, StackShapeSame DEF Unwind, targetVars
  <2>2. func_in_call_stack' \subseteq TextSym
    BY <1>3, FuncInCallStackType DEF Unwind
  <2>3. /\ siteFile' \subseteq call_sites_all /\ \A c \in siteFile' : CallTarget[c] \in Moved
        /\ funcFile' \subseteq get_unmoved_func
    BY <1>3 DEF Unwind, extract_call_sites, write_functions, get_unmoved_func_not_in_call_stack
  <2>4. TypeOK' /\ LibShape'
    BY <1>3, <2>2, <2>3 DEF Unwind, TypeOK, LibShape, targetVars, codeVars, libVars
  <2> QED BY <2>1, <2>4
<1>4. CASE NoThreadLeft
  <2>1. StackShape'
    BY <1>4, StackShapeSame DEF NoThreadLeft, targetVars, TypeOK
  <2>2. TypeOK' /\ LibShape'
    BY <1>4 DEF NoThreadLeft, TypeOK, LibShape, targetVars, codeVars, fileVars, tracerVars, libVars, LibBusy, CopyPhase
  <2> QED BY <2>1, <2>2
<1>5. CASE ContSigstop
  <2>1. StackShape'
    BY <1>5, StackShapeSame DEF ContSigstop, targetVars, TypeOK
  <2>2. TypeOK' /\ LibShape'
    BY <1>5 DEF ContSigstop, TypeOK, LibShape, targetVars, codeVars, fileVars, tracerVars, libVars, LibBusy, CopyPhase
  <2> QED BY <2>1, <2>2
<1>6. CASE ContOther
  <2>1. StackShape'
    BY <1>6, StackShapeSame DEF ContOther, targetVars, TypeOK, LibShape
  <2>2. TypeOK' /\ LibShape'
    BY <1>6 DEF ContOther, TypeOK, LibShape, targetVars, codeVars, fileVars, tracerVars, libVars, LibBusy, CopyPhase
  <2> QED BY <2>1, <2>2
<1>7. CASE CleanUp
  <2>1. StackShape'
    BY <1>7, StackShapeSame DEF CleanUp, targetVars, TypeOK
  <2>2. TypeOK' /\ LibShape'
    BY <1>7 DEF CleanUp, TypeOK, LibShape, targetVars, codeVars, fileVars, tracerVars, libVars, LibBusy, CopyPhase
  <2> QED BY <2>1, <2>2
<1>8. CASE Done
  <2>1. StackShape'
    BY <1>8, StackShapeSame DEF Done, targetVars, TypeOK
  <2>2. TypeOK' /\ LibShape'
    BY <1>8 DEF Done, TypeOK, LibShape, targetVars, codeVars, fileVars, tracerVars, libVars, LibBusy, CopyPhase
  <2> QED BY <2>1, <2>2
<1>9. CASE TracerExit
  <2>1. StackShape'
    BY <1>9, StackShapeSame DEF TracerExit, targetVars, TypeOK
  <2>2. TypeOK' /\ LibShape'
    BY <1>9 DEF TracerExit, TypeOK, LibShape, targetVars, codeVars, fileVars, tracerVars, libVars, LibBusy, CopyPhase
  <2> QED BY <2>1, <2>2
<1>10. ASSUME NEW t \in Thread, Attach(t) \/ SingleStepTrue(t) \/ SingleStepFalse(t) \/ Detach(t)
       PROVE  TypeInv'
  <2>1. StackShape'
    BY <1>10, StackShapeSame DEF Attach, SingleStepTrue, SingleStepFalse, Detach, targetVars, TypeOK, LibShape
  <2>2. CASE Attach(t)
    BY <2>1, <2>2 DEF Attach, TypeOK, LibShape, targetVars, codeVars, fileVars, tracerVars, libVars, LibBusy, CopyPhase
  <2>3. CASE SingleStepTrue(t)
    BY <2>1, <2>3 DEF SingleStepTrue, TypeOK, LibShape, targetVars, codeVars, fileVars, tracerVars, libVars, LibBusy, CopyPhase
  <2>4. CASE SingleStepFalse(t)
    BY <2>1, <2>4 DEF SingleStepFalse, TypeOK, LibShape, targetVars, codeVars, fileVars, tracerVars, libVars, LibBusy, CopyPhase
  <2>5. CASE Detach(t)
    BY <2>1, <2>5 DEF Detach, TypeOK, LibShape, targetVars, codeVars, fileVars, tracerVars, libVars, LibBusy, CopyPhase
  <2> QED BY <1>10, <2>2, <2>3, <2>4, <2>5
<1>11. CASE TracerFails
  <2>1. StackShape'
    BY <1>11, StackShapeSame DEF TracerFails, targetVars, TypeOK
  <2>2. TypeOK' /\ LibShape'
    BY <1>11 DEF TracerFails, TypeOK, LibShape, targetVars, codeVars, fileVars, tracerVars, libVars, LibBusy, CopyPhase
  <2> QED BY <2>1, <2>2
<1> QED BY <1>1, <1>2, <1>3, <1>4, <1>5, <1>6, <1>7, <1>8, <1>9, <1>10, <1>11 DEF TracerNext

LEMMA TypeStepLib ==
  ASSUME TypeInv, LibNext
  PROVE  TypeInv'
<1> USE DEF TypeInv
<1>0. /\ Moved \subseteq Func /\ get_unmoved_func \subseteq Func
      /\ call_sites_all \subseteq CallIns
  BY LayoutAssumption DEF get_unmoved_func, call_sites_all
<1>1. None \notin Func /\ None \notin CallIns /\ None \notin Slot
  BY ThreadAssumption
<1>2. CASE Handshake
  <2>1. StackShape'
    BY <1>2, StackShapeSame DEF Handshake, targetVars
  <2>2. TypeOK'
    BY <1>0, <1>1, <1>2 DEF Handshake, TypeOK, LibShape, LibRuns, targetVars, codeVars, fileVars, tracerVars, libVars, LibBusy, CopyPhase
  <2>3. LibShape'
    BY <1>0, <1>1, <1>2 DEF Handshake, TypeOK, LibShape, LibRuns, targetVars, codeVars, fileVars, tracerVars, libVars, LibBusy, CopyPhase
  <2> QED BY <2>1, <2>2, <2>3
<1>3. ASSUME NEW g \in Moved, BeginBolted(g)
      PROVE  TypeInv'
  <2>1. StackShape'
    BY <1>3, StackShapeSame DEF BeginBolted, targetVars
  <2>2. TypeOK'
    BY <1>0, <1>1, <1>3 DEF BeginBolted, TypeOK, LibShape, LibRuns, targetVars, codeVars, fileVars, tracerVars, libVars, LibBusy, CopyPhase
  <2>3. LibShape'
    BY <1>0, <1>1, <1>3 DEF BeginBolted, TypeOK, LibShape, LibRuns, targetVars, codeVars, fileVars, tracerVars, libVars, LibBusy, CopyPhase
  <2> QED BY <2>1, <2>2, <2>3
<1>4. CASE EndBolted
  <2>1. StackShape'
    BY <1>4, StackShapeSame DEF EndBolted, targetVars
  <2>2. TypeOK'
    BY <1>0, <1>1, <1>4 DEF EndBolted, TypeOK, LibShape, LibRuns, targetVars, codeVars, fileVars, tracerVars, libVars, LibBusy, CopyPhase
  <2>3. LibShape'
    BY <1>0, <1>1, <1>4 DEF EndBolted, TypeOK, LibShape, LibRuns, targetVars, codeVars, fileVars, tracerVars, libVars, LibBusy, CopyPhase
  <2> QED BY <2>1, <2>2, <2>3
<1>5. CASE \/ NextFile(boltFile, "bolted", "site")
           \/ NextFile(siteFile, "site", "vtable")
           \/ NextFile(vtabFile, "vtable", "func")
  <2>1. StackShape'
    BY <1>5, StackShapeSame DEF NextFile, targetVars
  <2>2. TypeOK'
    BY <1>0, <1>1, <1>5 DEF NextFile, Through, TypeOK, LibShape, LibRuns, targetVars, codeVars, fileVars, tracerVars, libVars, LibBusy, CopyPhase
  <2>3. LibShape'
    BY <1>0, <1>1, <1>5 DEF NextFile, Through, TypeOK, LibShape, LibRuns, targetVars, codeVars, fileVars, tracerVars, libVars, LibBusy, CopyPhase
  <2> QED BY <2>1, <2>2, <2>3
<1>6. ASSUME NEW c \in CallIns, BeginSite(c)
      PROVE  TypeInv'
  <2>1. StackShape'
    BY <1>6, StackShapeSame DEF BeginSite, Torn, targetVars
  <2>2. TypeOK'
    BY <1>0, <1>1, <1>6 DEF BeginSite, Torn, TypeOK, LibShape, LibRuns, targetVars, codeVars, fileVars, tracerVars, libVars, LibBusy, CopyPhase
  <2>3. LibShape'
    BY <1>0, <1>1, <1>6 DEF BeginSite, Torn, TypeOK, LibShape, LibRuns, targetVars, codeVars, fileVars, tracerVars, libVars, LibBusy, CopyPhase
  <2> QED BY <2>1, <2>2, <2>3
<1>7. CASE EndSite
  <2>1. StackShape'
    BY <1>7, StackShapeSame DEF EndSite, targetVars
  <2>2. PatchedDest(cur) \in Int
    <3>1. cur \in CallIns /\ CallTarget[cur] \in Moved
      BY <1>0, <1>7 DEF EndSite, LibShape
    <3> QED BY <3>1, PatchedDestIsMovedAddr, MovedAddrAbove
  <2>3. TypeOK'
    BY <1>0, <1>1, <1>7, <2>2 DEF EndSite, TypeOK, LibShape, LibRuns, targetVars, codeVars, fileVars, tracerVars, libVars, LibBusy, CopyPhase
  <2>4. LibShape'
    BY <1>0, <1>1, <1>7 DEF EndSite, TypeOK, LibShape, LibRuns, targetVars, codeVars, fileVars, tracerVars, libVars, LibBusy, CopyPhase
  <2> QED BY <2>1, <2>3, <2>4
<1>8. ASSUME NEW v \in Slot, BeginSlot(v)
      PROVE  TypeInv'
  <2>1. StackShape'
    BY <1>8, StackShapeSame DEF BeginSlot, Torn, targetVars
  <2>2. TypeOK'
    BY <1>0, <1>1, <1>8 DEF BeginSlot, Torn, TypeOK, LibShape, LibRuns, targetVars, codeVars, fileVars, tracerVars, libVars, LibBusy, CopyPhase
  <2>3. LibShape'
    BY <1>0, <1>1, <1>8 DEF BeginSlot, Torn, TypeOK, LibShape, LibRuns, targetVars, codeVars, fileVars, tracerVars, libVars, LibBusy, CopyPhase
  <2> QED BY <2>1, <2>2, <2>3
<1>9. CASE EndSlot
  <2>1. StackShape'
    BY <1>9, StackShapeSame DEF EndSlot, targetVars
  <2>2. NewAddr(SlotTarget[cur]) \in Int
    <3>1. cur \in Slot
      BY <1>9 DEF EndSlot, LibShape
    <3>2. SlotTarget[cur] \in Nat
      BY <3>1, LayoutAssumption
    <3> QED BY <3>2, MovedAddrAbove DEF NewAddr
  <2>3. TypeOK'
    BY <1>0, <1>1, <1>9, <2>2 DEF EndSlot, TypeOK, LibShape, LibRuns, targetVars, codeVars, fileVars, tracerVars, libVars, LibBusy, CopyPhase
  <2>4. LibShape'
    BY <1>0, <1>1, <1>9 DEF EndSlot, TypeOK, LibShape, LibRuns, targetVars, codeVars, fileVars, tracerVars, libVars, LibBusy, CopyPhase
  <2> QED BY <2>1, <2>3, <2>4
<1>10. ASSUME NEW f \in Func, BeginFunc(f)
      PROVE  TypeInv'
  <2>1. StackShape'
    BY <1>10, StackShapeSame DEF BeginFunc, targetVars
  <2>2. TypeOK'
    BY <1>0, <1>1, <1>10 DEF BeginFunc, TypeOK, LibShape, LibRuns, targetVars, codeVars, fileVars, tracerVars, libVars, LibBusy, CopyPhase
  <2>3. LibShape'
    BY <1>0, <1>1, <1>10 DEF BeginFunc, TypeOK, LibShape, LibRuns, targetVars, codeVars, fileVars, tracerVars, libVars, LibBusy, CopyPhase
  <2> QED BY <2>1, <2>2, <2>3
<1>11. CASE EndFunc
  <2>1. StackShape'
    BY <1>11, StackShapeSame DEF EndFunc, targetVars
  <2>2. TypeOK'
    BY <1>0, <1>1, <1>11 DEF EndFunc, TypeOK, LibShape, LibRuns, targetVars, codeVars, fileVars, tracerVars, libVars, LibBusy, CopyPhase
  <2>3. LibShape'
    BY <1>0, <1>1, <1>11 DEF EndFunc, TypeOK, LibShape, LibRuns, targetVars, codeVars, fileVars, tracerVars, libVars, LibBusy, CopyPhase
  <2> QED BY <2>1, <2>2, <2>3
<1>12. CASE RaiseSigstop
  <2>1. StackShape'
    BY <1>12, StackShapeSame DEF RaiseSigstop, targetVars, TypeOK, LibShape, LibRuns
  <2>2. TypeOK'
    BY <1>0, <1>1, <1>12 DEF RaiseSigstop, Through, TypeOK, LibShape, LibRuns, targetVars, codeVars, fileVars, tracerVars, libVars, LibBusy, CopyPhase
  <2>3. LibShape'
    BY <1>0, <1>1, <1>12 DEF RaiseSigstop, Through, TypeOK, LibShape, LibRuns, targetVars, codeVars, fileVars, tracerVars, libVars, LibBusy, CopyPhase
  <2> QED BY <2>1, <2>2, <2>3
<1>13. CASE PrintErrAndExit
  <2>1. StackShape'
    BY <1>13, StackShapeSame DEF PrintErrAndExit, targetVars
  <2>2. TypeOK'
    BY <1>0, <1>1, <1>13 DEF PrintErrAndExit, TypeOK, LibShape, LibRuns, targetVars, codeVars, fileVars, tracerVars, libVars, LibBusy, CopyPhase
  <2>3. LibShape'
    BY <1>0, <1>1, <1>13 DEF PrintErrAndExit, TypeOK, LibShape, LibRuns, targetVars, codeVars, fileVars, tracerVars, libVars, LibBusy, CopyPhase
  <2> QED BY <2>1, <2>2, <2>3
<1> QED BY <1>2, <1>3, <1>4, <1>5, <1>6, <1>7, <1>8, <1>9, <1>10, <1>11, <1>12, <1>13 DEF LibNext

LEMMA TypeStep == TypeInv /\ [Next]_vars => TypeInv'
<1> SUFFICES ASSUME TypeInv, [Next]_vars PROVE TypeInv'
  OBVIOUS
<1>1. ASSUME NEW t \in Thread, ThreadNext(t)
      PROVE  TypeInv'
  <2>1. /\ StackStep(t) /\ target' \in {"alive", "exited", "crashed"}
        /\ UNCHANGED << codeVars, fileVars, tracerVars, libVars >>
    BY <1>1, ThreadStep
  <2>2. StackShape'
    BY <2>1, StackShapeStep
  <2>3. TypeOK'
    BY <2>1 DEF TypeInv, TypeOK, StackStep, codeVars, fileVars, tracerVars, libVars
  <2>4. LibShape'
    <3>1. \A u \in tids : status'[u] # "unborn"
      <4>1. \A u \in Thread : status[u] # "unborn" => status'[u] = status[u]
        BY <1>1 DEF ThreadNext, Step, Return, Fault, Call, VirtualCall, Land, Spawn, TypeInv, TypeOK
      <4> QED BY <4>1 DEF TypeInv, TypeOK, LibShape
    <3> QED BY <2>1, <3>1 DEF TypeInv, LibShape, codeVars, fileVars, tracerVars, libVars
  <2> QED BY <2>2, <2>3, <2>4 DEF TypeInv
<1>2. CASE TracerNext
  BY <1>2, TypeStepTracer
<1>3. CASE LibNext
  BY <1>3, TypeStepLib
<1>4. CASE UNCHANGED vars
  BY <1>4 DEF TypeInv, TypeOK, StackShape, LibShape, vars, targetVars, codeVars, fileVars, tracerVars, libVars
<1> QED BY <1>1, <1>2, <1>3, <1>4 DEF Next

(* Every variable keeps its type, the record being copied belongs to the     *)
(* file being copied, and a started thread always has a frame, in every      *)
(* interleaving of threads, tracer and library.                              *)
THEOREM TypeCorrect == Spec => []TypeInv
BY TypeInit, TypeStep, PTL DEF Spec

(* The variables of target, code, files, tracer and library keep their       *)
(* types.                                                                    *)
THEOREM TypeOKHolds == Spec => []TypeOK
<1>1. TypeInv => TypeOK
  BY DEF TypeInv
<1> QED BY <1>1, TypeCorrect, PTL

-----------------------------------------------------------------------------
(* The order of the insertion. *)

LEMMA InsertInit == Init => InsertInv
<1> SUFFICES ASSUME Init PROVE InsertInv
  OBVIOUS
<1>1. NoMovedFrame
  <2> SUFFICES ASSUME NEW t \in Thread, NEW i \in 1 .. Len(stack[t])
               PROVE  ~ stack[t][i].moved
    BY DEF NoMovedFrame
  <2>1. CASE t \in LateThread
    BY <2>1 DEF Init
  <2>2. CASE t \notin LateThread
    <3>1. PICK b : b = FrameAt(Root[t])
      OBVIOUS
    <3>2. stack[t] = << b >> /\ ~ b.moved
      BY <2>2, <3>1, FrameAtOriginal, ThreadAssumption DEF Init
    <3> QED BY <3>2
  <2> QED BY <2>1, <2>2
<1> QED BY <1>1 DEF Init, InsertInv, Pristine, EarlyPhase

(* While nothing leads to moved code, a thread cannot get there. *)
LEMMA PristineThreadStep ==
  ASSUME TypeInv, Pristine, NEW t \in Thread, StackStep(t)
  PROVE  NoMovedFrame'
<1> SUFFICES ASSUME NEW u \in Thread, NEW i \in 1 .. Len(stack'[u])
             PROVE  ~ stack'[u][i].moved
  BY DEF NoMovedFrame
<1>1. CASE Kept(u, i)
  BY <1>1 DEF Kept, Pristine, NoMovedFrame
<1>2. ASSUME Executes(t) PROVE ~ Top(t).moved
  BY <1>2, TopFrame DEF Pristine, NoMovedFrame
<1>3. CASE AdvancedTop(t, u, i)
  <2>1. PICK off \in 1 .. FuncSize[Top(t).fn] : stack'[u][i] = Advanced(t, off)
    BY <1>3 DEF AdvancedTop
  <2>2. off \in Nat
    BY <1>3, TopFrame, FirstOffset DEF AdvancedTop, Frame
  <2> QED BY <1>2, <1>3, <2>1, <2>2, AdvancedFrame DEF AdvancedTop
<1>4. CASE Entered(t, u, i)
  <2>1. PICK d : /\ stack'[u][i] = FrameAt(d)
                 /\ \/ d = Root[u]
                    \/ /\ Executes(t) /\ Executable(Top(t))
                       /\ \E c \in CallIns : d = DestOfCall(c, CodeAt(Top(t)))
                    \/ \E v \in Slot : d = slot[v]
    BY <1>4 DEF Entered
  <2>2. CASE d = Root[u]
    BY <2>2, ThreadAssumption, <2>1, FrameAtOriginal
  <2>3. ASSUME Executes(t), NEW c \in CallIns, d = DestOfCall(c, CodeAt(Top(t)))
        PROVE  d \in Func
    <3>1. CodeAt(Top(t)) = "C0"
      BY <1>2, <2>3, TopFrame DEF CodeAt, Pristine, Frame
    <3>2. d = CallTarget[c]
      BY <2>3, <3>1 DEF DestOfCall, Pristine
    <3> QED BY <3>2, LayoutAssumption
  <2>4. ASSUME NEW v \in Slot, d = slot[v] PROVE d \in Func
    BY <2>4, LayoutAssumption DEF Pristine
  <2>5. ASSUME d \in Func PROVE ~ stack'[u][i].moved
    BY <2>1, <2>5, FrameAtOriginal
  <2> QED BY <2>1, <2>2, <2>3, <2>4, <2>5
<1> QED BY <1>1, <1>3, <1>4 DEF StackStep

LEMMA InsertStepThread ==
  ASSUME TypeInv, InsertInv, NEW t \in Thread, ThreadNext(t)
  PROVE  InsertInv'
<1>1. StackStep(t) /\ UNCHANGED << codeVars, fileVars, tracerVars, libVars >>
  BY ThreadStep
<1>2. Pristine => Pristine'
  BY <1>1, PristineThreadStep DEF Pristine, codeVars
<1>3. AllBolted => AllBolted'
  BY <1>1 DEF AllBolted, codeVars
<1> QED BY <1>1, <1>2, <1>3 DEF InsertInv, codeVars, fileVars, tracerVars, libVars

LEMMA InsertStepTracer ==
  ASSUME TypeInv, InsertInv, TracerNext
  PROVE  InsertInv'
<1>1. UNCHANGED << stack, codeVars, cur >>
  BY DEF TracerNext, PrepareFiles, ScanTasks, Unwind, NoThreadLeft, ContSigstop, ContOther,
         CleanUp, Done, TracerExit, TracerFails, Attach, SingleStepTrue, SingleStepFalse, Detach, targetVars, tracerVars, libVars
<1>2. (Pristine <=> Pristine') /\ (AllBolted <=> AllBolted')
  BY <1>1 DEF Pristine, NoMovedFrame, AllBolted, codeVars
<1>3. CASE PrepareFiles
  BY <1>1, <1>2, <1>3, AllMovedWritten DEF PrepareFiles, InsertInv, codeVars, libVars, EarlyPhase
<1>4. CASE ContOther
  BY <1>1, <1>2, <1>4 DEF ContOther, InsertInv, codeVars, EarlyPhase, LibBusy, CopyPhase
<1>5. CASE CleanUp
  BY <1>1, <1>2, <1>5 DEF CleanUp, InsertInv, codeVars, fileVars, libVars, EarlyPhase
<1>6. ASSUME NEW t \in Thread, SingleStepTrue(t) PROVE InsertInv'
  BY <1>1, <1>2, <1>6 DEF SingleStepTrue, InsertInv, codeVars, fileVars, EarlyPhase, TypeInv, LibShape
<1>7. CASE \/ ScanTasks \/ Unwind \/ NoThreadLeft \/ ContSigstop \/ Done \/ TracerExit \/ TracerFails
           \/ \E t \in Thread : Attach(t) \/ SingleStepFalse(t) \/ Detach(t)
  <2>1. /\ UNCHANGED << boltFile, lp >>
        /\ tp' \in {"scan", "attach", "inject", "cont"} => tp \in {"scan", "attach", "inject", "cont"}
    BY <1>7 DEF ScanTasks, Unwind, NoThreadLeft, ContSigstop, Done, TracerExit, TracerFails, Attach,
         SingleStepFalse, Detach, targetVars, fileVars, tracerVars, libVars
  <2> QED BY <1>1, <1>2, <2>1 DEF InsertInv, codeVars
<1> QED BY <1>3, <1>4, <1>5, <1>6, <1>7 DEF TracerNext

LEMMA InsertStepLib ==
  ASSUME "bolted" \notin Unreadable, TypeInv, InsertInv, LibNext
  PROVE  InsertInv'
<1>0. None \notin Func /\ None \notin CallIns /\ None \notin Slot /\ None \notin Moved
  BY ThreadAssumption, LayoutAssumption
<1>1. CASE Handshake
  BY <1>1 DEF Handshake, TypeInv, LibShape, InsertInv, Pristine, NoMovedFrame, AllBolted, EarlyPhase, targetVars, codeVars, fileVars, tracerVars, libVars
<1>2. ASSUME NEW g \in Moved, BeginBolted(g) PROVE InsertInv'
  BY <1>0, <1>2 DEF BeginBolted, TypeInv, TypeOK, LibRuns, InsertInv, Pristine, NoMovedFrame, AllBolted, EarlyPhase, targetVars, codeVars, fileVars, tracerVars, libVars
<1>3. CASE EndBolted
  BY <1>3 DEF EndBolted, TypeInv, TypeOK, LibShape, LibRuns, InsertInv, Pristine, NoMovedFrame, AllBolted, EarlyPhase, targetVars, codeVars, fileVars, tracerVars, libVars
<1>4. CASE NextFile(boltFile, "bolted", "site")
  <2>1. AllBolted
    BY <1>0, <1>4 DEF NextFile, Through, LibRuns, InsertInv, EarlyPhase, AllBolted
  <2> QED BY <1>4, <2>1 DEF NextFile, Through, InsertInv, Pristine, NoMovedFrame, AllBolted, EarlyPhase, targetVars, codeVars, fileVars, tracerVars, libVars
<1>5. CASE NextFile(siteFile, "site", "vtable") \/ NextFile(vtabFile, "vtable", "func")
  BY <1>0, <1>5 DEF NextFile, Through, InsertInv, Pristine, NoMovedFrame, AllBolted, EarlyPhase, targetVars, codeVars, fileVars, tracerVars, libVars
<1>6. ASSUME NEW c \in CallIns, BeginSite(c) PROVE InsertInv'
  BY <1>0, <1>6 DEF BeginSite, TypeInv, TypeOK, InsertInv, Pristine, NoMovedFrame, AllBolted, EarlyPhase, targetVars, codeVars, fileVars, tracerVars, libVars
<1>7. CASE EndSite
  <2>1. cur \in CallIns /\ CallTarget[cur] \in Moved
    BY <1>7 DEF EndSite, TypeInv, LibShape, call_sites_all
  <2>2. PatchedDest(cur) = MovedAddr[CallTarget[cur]]
    BY <2>1, PatchedDestIsMovedAddr
  <2> QED BY <1>7, <2>1, <2>2 DEF EndSite, TypeInv, TypeOK, InsertInv, Pristine, NoMovedFrame, AllBolted, EarlyPhase, targetVars, codeVars, fileVars, tracerVars, libVars
<1>8. ASSUME NEW v \in Slot, BeginSlot(v) PROVE InsertInv'
  BY <1>0, <1>8 DEF BeginSlot, TypeInv, TypeOK, InsertInv, Pristine, NoMovedFrame, AllBolted, EarlyPhase, targetVars, codeVars, fileVars, tracerVars, libVars
<1>9. CASE EndSlot
  <2>1. cur \in Slot
    BY <1>9 DEF EndSlot, TypeInv, LibShape
  <2> QED BY <1>9, <2>1 DEF EndSlot, NewAddr, TypeInv, TypeOK, InsertInv, Pristine, NoMovedFrame, AllBolted, EarlyPhase, targetVars, codeVars, fileVars, tracerVars, libVars
<1>10. ASSUME NEW f \in Func, BeginFunc(f) PROVE InsertInv'
  BY <1>0, <1>10 DEF BeginFunc, TypeInv, TypeOK, InsertInv, Pristine, NoMovedFrame, AllBolted, EarlyPhase, targetVars, codeVars, fileVars, tracerVars, libVars
<1>11. CASE EndFunc
  BY <1>11 DEF EndFunc, TypeInv, TypeOK, InsertInv, Pristine, NoMovedFrame, AllBolted, EarlyPhase, targetVars, codeVars, fileVars, tracerVars, libVars
<1>12. CASE RaiseSigstop
  BY <1>12 DEF RaiseSigstop, Through, InsertInv, Pristine, NoMovedFrame, AllBolted, EarlyPhase, targetVars, codeVars, fileVars, tracerVars, libVars
<1>13. CASE PrintErrAndExit
  BY <1>13 DEF PrintErrAndExit, InsertInv, Pristine, NoMovedFrame, AllBolted, EarlyPhase, targetVars, codeVars, fileVars, tracerVars, libVars
<1> QED BY <1>1, <1>2, <1>3, <1>4, <1>5, <1>6, <1>7, <1>8, <1>9, <1>10, <1>11, <1>12, <1>13 DEF LibNext

LEMMA InsertStep == "bolted" \notin Unreadable /\ TypeInv /\ InsertInv /\ [Next]_vars => InsertInv'
<1> SUFFICES ASSUME "bolted" \notin Unreadable, TypeInv, InsertInv, [Next]_vars PROVE InsertInv'
  OBVIOUS
<1>1. CASE UNCHANGED vars
  BY <1>1 DEF vars, InsertInv, Pristine, NoMovedFrame, AllBolted, EarlyPhase, targetVars, codeVars, fileVars, tracerVars, libVars
<1> QED BY <1>1, InsertStepThread, InsertStepTracer, InsertStepLib DEF Next

LEMMA InsertInvImplies == TypeInv /\ InsertInv => NoDanglingCall
<1> SUFFICES ASSUME TypeInv, InsertInv PROVE NoDanglingCall
  OBVIOUS
<1>1. Pristine \/ AllBolted
  BY DEF TypeInv, TypeOK, InsertInv, EarlyPhase, LibBusy, CopyPhase
<1>2. CASE AllBolted
  BY <1>2 DEF AllBolted, InsertInv, NoDanglingCall, Reaches, NewAddr
<1>3. CASE Pristine
  BY <1>3, LayoutAssumption DEF Pristine, NoMovedFrame, NoDanglingCall, Reaches
<1> QED BY <1>1, <1>2, <1>3

(* For every program, whatever threads escape the pause, wherever a signal   *)
(* ends the insertion and whichever later files are skipped, no call, vtable *)
(* slot or replaced function leads to a moved function that is not there, as *)
(* long as bolted_functions.bin itself can be read.                          *)
THEOREM NoDanglingCallHolds ==
  ASSUME "bolted" \notin Unreadable
  PROVE  Spec => []NoDanglingCall
<1>1. Init => TypeInv /\ InsertInv
  BY TypeInit, InsertInit
<1>2. TypeInv /\ InsertInv /\ [Next]_vars => (TypeInv /\ InsertInv)'
  BY TypeStep, InsertStep
<1>3. TypeInv /\ InsertInv => NoDanglingCall
  BY InsertInvImplies
<1> QED BY <1>1, <1>2, <1>3, PTL DEF Spec

-----------------------------------------------------------------------------
(* No function is overwritten under a frame. *)

(* get_func_in_call_stack finds the function of an instruction pointer       *)
(* inside it, also when that is the address just behind its last byte,       *)
(* unless the function is the last symbol.                                   *)
LEMMA LookupFinds ==
  ASSUME NEW f \in TextSym, f \notin LastTextSym, NEW ub,
         NEW ip \in f + 1 .. f + FuncSize[f]
  PROVE  f \in FuncOfIp(ip, ub)
<1>1. /\ TextSym \subseteq Func /\ Func \subseteq Nat /\ FuncSize[f] \in Nat
      /\ \A j \in TextSym : f < j => f + FuncSize[f] <= j
  BY LayoutAssumption
<1>2. ip \in Nat /\ f < ip /\ ip <= f + FuncSize[f]
  BY <1>1
<1>3. PICK j \in TextSym : f < j
  BY <1>1 DEF LastTextSym
<1>4. j >= ip
  BY <1>1, <1>2, <1>3
<1>5. \A k \in TextSym : k < ip => k <= f
  BY <1>1, <1>2
<1> QED BY <1>2, <1>4, <1>5 DEF FuncOfIp

(* Third part of the inductive invariant, for a target all of whose threads  *)
(* exist when it is paused.                                                  *)
FrameOK(fr) ==
  /\ fr.fn \in Callable
  /\ fr.img \in {"none", CodeAt(fr)}
  /\ fr.img # "none" /\ ~ fr.moved => fr.ip \in fr.fn + 1 .. fr.fn + FuncSize[fr.fn]

OutOfTheWay(fr) ==
  fr.img # "none" /\ ~ fr.moved => fr.fn \notin funcFile /\ ~ (lp = "func" /\ cur = fr.fn)

FramesInv ==
  /\ \A t \in Thread : status[t] # "unborn"
  /\ tp \in {"attach", "inject", "cont"} => tids = Thread
  /\ tp \in {"prepare", "scan", "attach", "inject"} => hijack = None
  /\ tp \in {"inject", "cont"} => \A t \in Thread : status[t] = "stopped" \/ t = hijack
  /\ \A t \in Thread : \A i \in 1 .. Len(stack[t]) :
       /\ FrameOK(stack[t][i])
       /\ tp \in {"inject", "cont"} => OutOfTheWay(stack[t][i])

LEMMA FramesInit == LateThread = {} /\ Init => FramesInv
<1> SUFFICES ASSUME LateThread = {}, Init PROVE FramesInv
  OBVIOUS
<1>1. ASSUME NEW t \in Thread, NEW i \in 1 .. Len(stack[t])
      PROVE  FrameOK(stack[t][i])
  <2>1. PICK b : b = FrameAt(Root[t])
    OBVIOUS
  <2>2. /\ stack[t] = << b >> /\ b.fn = Root[t] /\ b.img = "none"
    BY <2>1, FrameAtOriginal, ThreadAssumption DEF Init
  <2>3. stack[t][i] = b
    BY <2>2
  <2> QED BY <2>2, <2>3 DEF FrameOK, Callable
<1> QED BY <1>1 DEF FramesInv, Init

(* The frame a call creates belongs to the function the source calls. *)
LEMMA CalleeFrame ==
  ASSUME NEW f \in Func, NEW d, IsEntry(d),
         d = f \/ (f \in Moved /\ d = MovedAddr[f])
  PROVE  FrameAt(d).fn = f /\ FrameAt(d).img = "none"
<1>1. CASE d = f
  <2>1. FrameAt(d) = [fn |-> f, moved |-> FALSE, ip |-> f, img |-> "none"]
    BY <1>1, FrameAtOriginal
  <2> QED BY <2>1
<1>2. CASE f \in Moved /\ d = MovedAddr[f]
  <2>1. FrameAt(d) = [fn |-> f, moved |-> TRUE, ip |-> MovedAddr[f], img |-> "none"]
    BY <1>2, FrameAtMoved
  <2> QED BY <2>1
<1> QED BY <1>1, <1>2

LEMMA TornIsNoEntry == ~ IsEntry(Torn)
<1>1. \A f \in Func : f # Torn
  BY LayoutAssumption DEF Torn
<1>2. \A g \in Moved : MovedAddr[g] # Torn
  BY MovedAddrAbove DEF Torn
<1> QED BY <1>1, <1>2 DEF IsEntry

LEMMA EnteredFrame ==
  ASSUME TypeInv, InsertInv, NEW t \in Thread, NEW u \in Thread, NEW i, Entered(t, u, i)
  PROVE  stack'[u][i].fn \in Callable /\ stack'[u][i].img = "none"
<1>1. PICK d : /\ IsEntry(d)
               /\ stack'[u][i] = FrameAt(d)
               /\ \/ d = Root[u]
                  \/ \E c \in CallIns : d = DestOfCall(c, CodeAt(Top(t)))
                  \/ \E v \in Slot : d = slot[v]
  BY DEF Entered
<1>2. CASE d = Root[u]
  BY <1>1, <1>2, CalleeFrame, ThreadAssumption DEF Callable
<1>3. ASSUME NEW c \in CallIns, d = DestOfCall(c, CodeAt(Top(t)))
      PROVE  FrameAt(d).fn \in Callable /\ FrameAt(d).img = "none"
  <2>1. CallTarget[c] \in Func
    BY LayoutAssumption
  <2>2. d = CallTarget[c] \/ (CallTarget[c] \in Moved /\ d = MovedAddr[CallTarget[c]])
    BY <1>1, <1>3, TornIsNoEntry DEF DestOfCall, NewAddr, InsertInv
  <2>3. FrameAt(d).fn = CallTarget[c] /\ FrameAt(d).img = "none"
    BY <1>1, <2>1, <2>2, CalleeFrame
  <2> QED BY <2>3 DEF Callable
<1>4. ASSUME NEW v \in Slot, d = slot[v]
      PROVE  FrameAt(d).fn \in Callable /\ FrameAt(d).img = "none"
  <2>1. SlotTarget[v] \in Func
    BY LayoutAssumption
  <2>2. d = SlotTarget[v] \/ (SlotTarget[v] \in Moved /\ d = MovedAddr[SlotTarget[v]])
    BY <1>1, <1>4, TornIsNoEntry DEF InsertInv
  <2>3. FrameAt(d).fn = SlotTarget[v] /\ FrameAt(d).img = "none"
    BY <1>1, <2>1, <2>2, CalleeFrame
  <2> QED BY <2>3 DEF Callable
<1> QED BY <1>1, <1>2, <1>3, <1>4

LEMMA FramesStepThread ==
  ASSUME TypeInv, InsertInv, FramesInv, LateThread = {}, NEW t \in Thread, ThreadNext(t)
  PROVE  FramesInv'
<1>1. /\ StackStep(t)
      /\ UNCHANGED << codeVars, fileVars, tracerVars, libVars >>
  BY ThreadStep
<1>2. Executes(t) /\ status' = status
  BY DEF ThreadNext, Step, Return, Fault, Call, VirtualCall, Land
<1>3. tp \notin {"inject", "cont"}
  BY <1>2 DEF Executes, FramesInv
<1>4. ASSUME NEW u \in Thread, NEW i \in 1 .. Len(stack'[u])
      PROVE  FrameOK(stack[u][i])'
  <2>2. CASE Kept(u, i)
    <3>1. FrameOK(stack[u][i])
      BY <2>2 DEF Kept, FramesInv
    <3> QED BY <1>1, <2>2, <3>1 DEF Kept, FrameOK, CodeAt, codeVars
  <2>3. CASE AdvancedTop(t, u, i)
    <3>1. PICK off \in 1 .. FuncSize[Top(t).fn] : stack'[u][i] = Advanced(t, off)
      BY <2>3 DEF AdvancedTop
    <3>2. /\ Executable(Top(t)) /\ Top(t) \in Frame /\ FrameOK(Top(t))
      <4>1. /\ Len(stack[t]) \in 1 .. Len(stack[t]) /\ Top(t) = stack[t][Len(stack[t])]
            /\ Top(t) \in Frame
        BY <1>2, TopFrame
      <4>2. FrameOK(stack[t][Len(stack[t])])
        BY <4>1 DEF FramesInv
      <4> QED BY <2>3, <4>1, <4>2, Zenon DEF AdvancedTop
    <3>3. off \in Nat /\ FuncSize[Top(t).fn] \in Nat /\ Top(t).fn \in Nat
      <4>1. Top(t).fn \in Func
        BY <3>2 DEF Frame
      <4>2. FuncSize[Top(t).fn] \in Nat
        BY <4>1, FirstOffset
      <4>3. Top(t).fn \in Nat
        BY <4>1, LayoutAssumption
      <4> QED BY <4>2, <4>3
    <3>4. PICK a : a = stack'[u][i]
      OBVIOUS
    <3>5. /\ a.fn = Top(t).fn /\ a.moved = Top(t).moved
          /\ a.img = CodeAt(Top(t)) /\ a.ip = Base(Top(t)) + off
      BY <1>2, <3>1, <3>2, <3>3, <3>4, AdvancedFrame
    <3>6. a.img = CodeAt(a)'
      BY <1>1, <3>5 DEF CodeAt, codeVars
    <3>7. ~ a.moved => a.ip \in a.fn + 1 .. a.fn + FuncSize[a.fn]
      BY <3>1, <3>3, <3>5 DEF Base
    <3>8. a.fn \in Callable
      BY <3>2, <3>5 DEF FrameOK
    <3> QED BY <3>4, <3>6, <3>7, <3>8 DEF FrameOK
  <2>4. CASE Entered(t, u, i)
    BY <2>4, EnteredFrame DEF FrameOK
  <2> QED BY <1>1, <2>2, <2>3, <2>4 DEF StackStep
<1>5. /\ \A u \in Thread : status'[u] # "unborn"
      /\ tp' \in {"attach", "inject", "cont"} => tids' = Thread
      /\ tp' \in {"prepare", "scan", "attach", "inject"} => hijack' = None
      /\ tp' \notin {"inject", "cont"}
  BY <1>1, <1>2, <1>3 DEF FramesInv, tracerVars, libVars
<1> QED BY <1>4, <1>5 DEF FramesInv
(* A step of the tracer leaves frames and code alone. *)
LEMMA FrameOKSame ==
  ASSUME FramesInv, UNCHANGED << stack, text, bolted >>
  PROVE  \A t \in Thread : \A i \in 1 .. Len(stack'[t]) : FrameOK(stack[t][i])'
BY DEF FramesInv, FrameOK, CodeAt

(* The functions selected for overwriting are those no thread is inside. *)
LEMMA UnwindSelects ==
  ASSUME TypeInv, FramesInv, LastSymbolIdle, Unwind,
         NEW t \in Thread, NEW i \in 1 .. Len(stack[t]),
         stack[t][i].img # "none", ~ stack[t][i].moved
  PROVE  stack[t][i].fn \notin funcFile'
<1> DEFINE f == stack[t][i].fn
           p == stack[t][i].ip
<1>1. f \in Callable /\ p \in f + 1 .. f + FuncSize[f] /\ t \in tids
  BY DEF FramesInv, FrameOK, Unwind
<1>2. p \in CallStackIps
  BY <1>1 DEF CallStackIps
<1> HIDE DEF f, p
<1>3. PICK ub \in PrevOfBegin :
         func_in_call_stack' = get_func_in_call_stack(CallStackIps, ub)
  BY DEF Unwind
<1>4. funcFile' = write_functions(get_unmoved_func_not_in_call_stack(func_in_call_stack'))
  BY DEF Unwind
<1>5. CASE f \in TextSym /\ f \notin LastTextSym
  <2>1. f \in FuncOfIp(p, ub)
    BY <1>1, <1>5, LookupFinds
  <2>2. f \in func_in_call_stack'
    BY <1>2, <1>3, <2>1 DEF get_func_in_call_stack
  <2> QED BY <1>4, <2>2 DEF write_functions, get_unmoved_func_not_in_call_stack, f
<1>6. CASE f \notin TextSym \/ f \in Moved
  BY <1>4, <1>6 DEF write_functions, get_unmoved_func_not_in_call_stack, get_unmoved_func, f
<1> QED BY <1>1, <1>5, <1>6 DEF LastSymbolIdle

LEMMA FramesStepTracer ==
  ASSUME TypeInv, FramesInv, LastSymbolIdle, TracerNext
  PROVE  FramesInv'
<1>1. UNCHANGED << stack, text, bolted, cur >>
  BY DEF TracerNext, PrepareFiles, ScanTasks, Unwind, NoThreadLeft, ContSigstop, ContOther,
         CleanUp, Done, TracerExit, TracerFails, Attach, SingleStepTrue, SingleStepFalse, Detach,
         targetVars, codeVars, tracerVars, libVars
<1>2. \A t \in Thread : \A i \in 1 .. Len(stack'[t]) : FrameOK(stack[t][i])'
  BY <1>1, FrameOKSame
<1>3. CASE Unwind
  <2>1. ASSUME NEW t \in Thread, NEW i \in 1 .. Len(stack'[t])
        PROVE  OutOfTheWay(stack[t][i])'
    <3>1. lp' = "idle" /\ stack' = stack
      BY <1>3 DEF Unwind, TypeInv, LibShape, targetVars, libVars
    <3> QED BY <1>3, <3>1, UnwindSelects DEF OutOfTheWay
  <2>2. /\ tids' = tids /\ status' = status /\ hijack' = hijack /\ tp = "attach"
        /\ \A t \in tids : status[t] = "stopped"
    BY <1>3 DEF Unwind, targetVars, libVars
  <2> QED BY <1>2, <2>1, <2>2 DEF FramesInv
<1>4. ASSUME NEW t \in Thread, SingleStepTrue(t) PROVE FramesInv'
  <2>1. ASSUME NEW u \in Thread, NEW i \in 1 .. Len(stack'[u])
        PROVE  OutOfTheWay(stack[u][i])'
    <3>1. lp' = "handshake" /\ UNCHANGED << stack, funcFile >> /\ tp = "inject"
      BY <1>4 DEF SingleStepTrue, fileVars
    <3> QED BY <3>1 DEF OutOfTheWay, FramesInv
  <2>2. /\ tids' = tids /\ hijack' = t /\ tp = "inject" /\ tp' = "cont"
        /\ status' = [status EXCEPT ![t] = "running"]
    BY <1>4 DEF SingleStepTrue
  <2>3. \A u \in Thread : status'[u] = "stopped" \/ u = t
    <3>1. \A u \in Thread : status[u] = "stopped"
      BY <2>2, ThreadAssumption DEF FramesInv
    <3> QED BY <2>2, <3>1 DEF TypeInv, TypeOK
  <2>4. \A u \in Thread : status'[u] # "unborn"
    BY <2>2 DEF FramesInv, TypeInv, TypeOK
  <2> QED BY <1>2, <2>1, <2>2, <2>3, <2>4 DEF FramesInv
<1>5. ASSUME NEW t \in Thread, SingleStepFalse(t) PROVE FramesInv'
  <2>1. UNCHANGED << tp, tids, status, hijack, stack, funcFile, lp, cur >>
    BY <1>5 DEF SingleStepFalse, targetVars, fileVars, libVars
  <2> QED BY <1>2, <2>1 DEF FramesInv, OutOfTheWay
<1>6. CASE \/ PrepareFiles \/ NoThreadLeft \/ ContSigstop \/ ContOther \/ CleanUp \/ Done
           \/ TracerExit \/ TracerFails \/ ScanTasks
           \/ \E t \in Thread : Attach(t) \/ Detach(t)
  <2>1. tp' \notin {"inject", "cont"}
    BY <1>6 DEF PrepareFiles, NoThreadLeft, ContSigstop, ContOther, CleanUp, Done, TracerExit, TracerFails,
         ScanTasks, Attach, Detach, tracerVars
  <2>2. \A t \in Thread : status'[t] # "unborn"
    BY <1>6 DEF FramesInv, TypeInv, TypeOK, PrepareFiles, NoThreadLeft, ContSigstop, ContOther, CleanUp,
         Done, TracerExit, TracerFails, ScanTasks, Attach, Detach, targetVars
  <2>3. tp' \in {"prepare", "scan", "attach", "inject"} => hijack' = None
    BY <1>6 DEF FramesInv, PrepareFiles, NoThreadLeft, ContSigstop, ContOther, CleanUp,
         Done, TracerExit, TracerFails, ScanTasks, Attach, Detach, tracerVars, libVars
  <2>4. tp' = "attach" => tids' = Thread
    <3>1. CASE ScanTasks
      BY <3>1 DEF ScanTasks, FramesInv, TypeInv, TypeOK
    <3>2. CASE ~ ScanTasks
      BY <1>6, <3>2 DEF FramesInv, PrepareFiles, NoThreadLeft, ContSigstop, ContOther, CleanUp,
         Done, TracerExit, TracerFails, Attach, Detach, tracerVars
    <3> QED BY <3>1, <3>2
  <2> QED BY <1>2, <2>1, <2>2, <2>3, <2>4 DEF FramesInv
<1> QED BY <1>3, <1>4, <1>5, <1>6 DEF TracerNext

(* The library copies only over functions no thread is inside. *)
LEMMA FramesStepLib ==
  ASSUME TypeInv, InsertInv, FramesInv, LibNext
  PROVE  FramesInv'
<1>1. LibRuns /\ tp = "cont" /\ UNCHANGED << stack, tp, tids, hijack >>
  BY DEF LibNext, Handshake, BeginBolted, EndBolted, NextFile, BeginSite, EndSite, BeginSlot,
         EndSlot, BeginFunc, EndFunc, RaiseSigstop, PrintErrAndExit, LibRuns, targetVars, tracerVars, libVars
<1>2. /\ \A t \in Thread : status'[t] # "unborn"
      /\ \A t \in Thread : status'[t] = "stopped" \/ t = hijack
  <2>1. status' = status \/ status' = [status EXCEPT ![hijack] = "stopped"]
    BY DEF LibNext, Handshake, BeginBolted, EndBolted, NextFile, BeginSite, EndSite, BeginSlot,
         EndSlot, BeginFunc, EndFunc, RaiseSigstop, PrintErrAndExit, targetVars
  <2> QED BY <1>1, <2>1 DEF FramesInv, TypeInv, TypeOK
<1>3. ASSUME NEW t \in Thread, NEW i \in 1 .. Len(stack[t])
      PROVE  FrameOK(stack[t][i])' /\ OutOfTheWay(stack[t][i])'
  <2> DEFINE fr == stack[t][i]
  <2>1. FrameOK(fr) /\ OutOfTheWay(fr)
    BY <1>1 DEF FramesInv
  <2>0. stack[t][i] \in Frame
    <3>1. stack[t] \in Seq(Frame)
      BY DEF TypeInv, TypeOK
    <3> QED BY <3>1, ElementOfSeq
  <2>a. fr.fn \in Func
    BY <2>0 DEF Frame
  <2>2. fr.fn # None
    BY <2>a, ThreadAssumption
  <2>3. CASE (\E g \in Moved : BeginBolted(g)) \/ EndBolted
    <3>1. lp = "bolted" /\ lp' = lp /\ UNCHANGED << text, funcFile >>
      BY <2>3 DEF BeginBolted, EndBolted, fileVars
    <3>2. ~ fr.moved
      BY <3>1 DEF InsertInv, EarlyPhase, Pristine, NoMovedFrame
    <3> QED BY <1>1, <2>1, <3>1, <3>2 DEF FrameOK, OutOfTheWay, CodeAt
  <2>4. CASE (\E f \in Func : BeginFunc(f)) \/ EndFunc
    <3>1. PICK f : /\ \/ f \in funcFile /\ cur' = f
                      \/ lp = "func" /\ cur = f /\ cur' = None
                   /\ funcFile' \subseteq funcFile
                   /\ \A h \in Func : h # f => text'[h] = text[h]
                   /\ UNCHANGED bolted
      BY <2>4 DEF BeginFunc, EndFunc, fileVars, TypeInv, TypeOK
    <3>2. fr.img # "none" /\ ~ fr.moved => fr.fn # f
      BY <2>1, <3>1 DEF OutOfTheWay
    <3>4. fr.img # "none" => CodeAt(fr)' = CodeAt(fr)
      BY <1>1, <2>a, <3>1, <3>2 DEF CodeAt
    <3>5. FrameOK(stack[t][i])'
      BY <1>1, <2>1, <3>4 DEF FrameOK
    <3> QED BY <1>1, <2>1, <2>2, <3>1, <3>2, <3>5 DEF OutOfTheWay
  <2>5. CASE Handshake \/ RaiseSigstop \/ PrintErrAndExit
             \/ NextFile(boltFile, "bolted", "site") \/ NextFile(siteFile, "site", "vtable")
             \/ NextFile(vtabFile, "vtable", "func")
    <3>1. UNCHANGED << text, bolted, funcFile, cur >> /\ (lp' = "func" => cur = None \/ lp = "func")
      BY <2>5 DEF Handshake, RaiseSigstop, PrintErrAndExit, NextFile, Through, codeVars, fileVars, libVars
    <3> QED BY <1>1, <2>1, <2>2, <3>1 DEF FrameOK, OutOfTheWay, CodeAt
  <2>6. CASE \/ \E c \in CallIns : BeginSite(c)
             \/ EndSite
             \/ \E v \in Slot : BeginSlot(v)
             \/ EndSlot
    <3>1. UNCHANGED << text, bolted, funcFile, lp >> /\ lp # "func"
      BY <2>6 DEF BeginSite, EndSite, BeginSlot, EndSlot, fileVars
    <3> QED BY <1>1, <2>1, <3>1 DEF FrameOK, OutOfTheWay, CodeAt
  <2> QED BY <2>3, <2>4, <2>5, <2>6 DEF LibNext
<1> QED BY <1>1, <1>2, <1>3 DEF FramesInv

LEMMA FramesStep ==
  ASSUME LateThread = {}, LastSymbolIdle
  PROVE  TypeInv /\ InsertInv /\ FramesInv /\ [Next]_vars => FramesInv'
<1> SUFFICES ASSUME TypeInv, InsertInv, FramesInv, [Next]_vars PROVE FramesInv'
  OBVIOUS
<1>1. CASE UNCHANGED vars
  BY <1>1 DEF FramesInv, FrameOK, OutOfTheWay, CodeAt, vars, targetVars, codeVars, fileVars, tracerVars, libVars
<1> QED BY <1>1, FramesStepThread, FramesStepTracer, FramesStepLib DEF Next

(* For every program in which the last symbol is idle, with all threads      *)
(* present when they are paused and bolted_functions.bin read, and wherever  *)
(* the insertion is cut short: no code is overwritten that a frame of any    *)
(* thread is in the middle of.                                               *)
THEOREM FramesResumableHolds ==
  ASSUME LateThread = {}, LastSymbolIdle, "bolted" \notin Unreadable
  PROVE  Spec => []FramesResumable
<1> DEFINE Inv == TypeInv /\ InsertInv /\ FramesInv
<1>1. Init => Inv
  BY TypeInit, InsertInit, FramesInit
<1>2. Inv /\ [Next]_vars => Inv'
  BY TypeStep, InsertStep, FramesStep
<1>3. Inv => FramesResumable
  BY DEF FramesInv, FrameOK, FramesResumable
<1> QED BY <1>1, <1>2, <1>3, PTL DEF Spec
-----------------------------------------------------------------------------
(* What the insertion achieves. *)

(* The calls a finished insertion has redirected: those recorded, to a moved *)
(* function, in a function that BOLT kept and that has symbols in both       *)
(* binaries.                                                                 *)
ToRedirect ==
  {c \in call_sites_all : CallFunc[c] \in get_unmoved_func \cap BoltSym /\ CallTarget[c] \in Moved}

(* A record that is still in its file or being copied. *)
SlotPending(v) == v \in vtabFile \/ (lp = "vtable" /\ cur = v)

CallPending(c) ==
  \/ c \in siteFile \/ (lp = "site" /\ cur = c)
  \/ CallFunc[c] \in funcFile \/ (lp = "func" /\ cur = CallFunc[c])

(* Fourth part of the inductive invariant: what is not redirected yet is     *)
(* still to be copied, and a phase begins with the earlier files empty.      *)
SlotsInv ==
  tp \in {"scan", "attach", "inject", "cont"} =>
    \A v \in Slot : slot[v] = NewAddr(SlotTarget[v]) \/ SlotPending(v)

CallsInv ==
  tp \in {"inject", "cont"} =>
    \A c \in ToRedirect : \/ site[c] = MovedAddr[CallTarget[c]]
                          \/ text[CallFunc[c]] = "C1"
                          \/ CallPending(c)

PhaseInv ==
  /\ lp \in {"vtable", "func"} => siteFile = {}
  /\ lp = "func" => vtabFile = {}
  /\ lp = "finished" => Replaced

ReplaceInv == SlotsInv /\ CallsInv /\ PhaseInv

LEMMA ReplaceInit == Init => ReplaceInv
BY DEF Init, ReplaceInv, SlotsInv, CallsInv, PhaseInv

(* A step that changes neither code nor files nor the phase of the library,  *)
(* and does not bring the tracer to an earlier point.                        *)
LEMMA ReplaceSame ==
  ASSUME ReplaceInv, UNCHANGED << codeVars, fileVars, lp, cur >>,
         tp' \in {"scan", "attach", "inject", "cont"} => tp \in {"scan", "attach", "inject", "cont"},
         tp' \in {"inject", "cont"} => tp \in {"inject", "cont"}
  PROVE  ReplaceInv'
<1>1. SlotsInv'
  BY DEF ReplaceInv, SlotsInv, SlotPending, codeVars, fileVars
<1>2. CallsInv'
  BY DEF ReplaceInv, CallsInv, CallPending, codeVars, fileVars
<1>3. PhaseInv'
  BY DEF ReplaceInv, PhaseInv, Replaced, codeVars, fileVars
<1> QED BY <1>1, <1>2, <1>3 DEF ReplaceInv

(* Unwind puts every call to redirect into one of the two files. *)
LEMMA UnwindCovers ==
  ASSUME Unwind, NEW c \in ToRedirect
  PROVE  c \in siteFile' \/ CallFunc[c] \in funcFile'
<1>1. /\ siteFile' = extract_call_sites(func_in_call_stack')
      /\ funcFile' = write_functions(get_unmoved_func_not_in_call_stack(func_in_call_stack'))
  BY DEF Unwind
<1>2. /\ c \in call_sites_all /\ CallTarget[c] \in Moved
      /\ CallFunc[c] \in get_unmoved_func /\ CallFunc[c] \in BoltSym
  BY DEF ToRedirect
<1>3. CASE CallFunc[c] \in func_in_call_stack'
  BY <1>1, <1>2, <1>3 DEF extract_call_sites
<1>4. CASE CallFunc[c] \notin func_in_call_stack'
  BY <1>1, <1>2, <1>4 DEF write_functions, get_unmoved_func_not_in_call_stack
<1> QED BY <1>3, <1>4

LEMMA ReplaceStepTracer ==
  ASSUME TypeInv, ReplaceInv, TracerNext
  PROVE  ReplaceInv'
<1>1. CASE PrepareFiles
  <2>1. /\ vtabFile' = Slot /\ tp' = "scan" /\ lp' = "idle"
    BY <1>1 DEF PrepareFiles, TypeInv, LibShape, libVars
  <2> QED BY <2>1 DEF ReplaceInv, SlotsInv, SlotPending, CallsInv, PhaseInv
<1>2. CASE Unwind
  <2>1. /\ tp = "attach" /\ tp' = "inject" /\ lp = "idle" /\ lp' = lp /\ cur' = cur
        /\ UNCHANGED << codeVars, vtabFile >>
    BY <1>2 DEF Unwind, TypeInv, LibShape, libVars
  <2>2. SlotsInv'
    BY <2>1 DEF ReplaceInv, SlotsInv, SlotPending, codeVars
  <2>3. CallsInv'
    BY <1>2, UnwindCovers DEF CallsInv, CallPending
  <2> QED BY <2>1, <2>2, <2>3 DEF ReplaceInv, PhaseInv
<1>3. CASE ContOther
  <2>1. tp' = "detach" /\ lp' = "abandoned"
    BY <1>3 DEF ContOther
  <2> QED BY <2>1 DEF ReplaceInv, SlotsInv, CallsInv, PhaseInv
<1>4. CASE CleanUp
  <2>1. /\ tp' = "join" /\ UNCHANGED << codeVars, lp >>
        /\ siteFile = {} => siteFile' = {}
        /\ vtabFile = {} => vtabFile' = {}
    BY <1>4 DEF CleanUp, fileVars, libVars
  <2>2. PhaseInv'
    BY <2>1 DEF ReplaceInv, PhaseInv, Replaced, codeVars
  <2> QED BY <2>1, <2>2 DEF ReplaceInv, SlotsInv, CallsInv
<1>5. ASSUME NEW t \in Thread, SingleStepTrue(t) PROVE ReplaceInv'
  <2>1. /\ tp = "inject" /\ tp' = "cont" /\ lp = "idle" /\ lp' = "handshake"
        /\ UNCHANGED << codeVars, fileVars, cur >>
    BY <1>5 DEF SingleStepTrue, TypeInv, LibShape
  <2>2. SlotsInv'
    BY <2>1 DEF ReplaceInv, SlotsInv, SlotPending, codeVars, fileVars
  <2>3. CallsInv'
    BY <2>1 DEF ReplaceInv, CallsInv, CallPending, codeVars, fileVars
  <2> QED BY <2>1, <2>2, <2>3 DEF ReplaceInv, PhaseInv
<1>6. CASE \/ ScanTasks \/ NoThreadLeft \/ ContSigstop \/ Done \/ TracerExit \/ TracerFails
           \/ \E t \in Thread : Attach(t) \/ SingleStepFalse(t) \/ Detach(t)
  <2>1. /\ UNCHANGED << codeVars, fileVars, lp, cur >>
        /\ tp' \in {"scan", "attach", "inject", "cont"} => tp \in {"scan", "attach", "inject", "cont"}
        /\ tp' \in {"inject", "cont"} => tp \in {"inject", "cont"}
    BY <1>6 DEF ScanTasks, NoThreadLeft, ContSigstop, Done, TracerExit, TracerFails, Attach,
         SingleStepFalse, Detach, tracerVars, libVars
  <2> QED BY <2>1, ReplaceSame
<1> QED BY <1>1, <1>2, <1>3, <1>4, <1>5, <1>6 DEF TracerNext

LEMMA ReplaceStepLib ==
  ASSUME Unreadable = {}, TypeInv, InsertInv, ReplaceInv, LibNext
  PROVE  ReplaceInv'
<1>0. None \notin Func /\ None \notin CallIns /\ None \notin Slot
  BY ThreadAssumption
<1>1. tp = "cont" /\ tp' = tp
  BY DEF LibNext, Handshake, BeginBolted, EndBolted, NextFile, BeginSite, EndSite, BeginSlot,
         EndSlot, BeginFunc, EndFunc, RaiseSigstop, PrintErrAndExit, LibRuns, tracerVars
<1>2. CASE \/ Handshake \/ EndBolted \/ NextFile(boltFile, "bolted", "site")
           \/ \E g \in Moved : BeginBolted(g)
  <2>1. /\ lp \in {"handshake", "bolted"} /\ lp' \in {"bolted", "site"}
        /\ UNCHANGED << text, site, slot, siteFile, vtabFile, funcFile >>
    BY <1>2 DEF Handshake, EndBolted, NextFile, BeginBolted, codeVars, fileVars
  <2>2. SlotsInv'
    BY <1>1, <2>1 DEF ReplaceInv, SlotsInv, SlotPending
  <2>3. CallsInv'
    BY <1>1, <2>1 DEF ReplaceInv, CallsInv, CallPending
  <2> QED BY <2>1, <2>2, <2>3 DEF ReplaceInv, PhaseInv
<1>3. CASE NextFile(siteFile, "site", "vtable") \/ NextFile(vtabFile, "vtable", "func")
  <2>1. /\ cur = None /\ cur' = None /\ lp \in {"site", "vtable"} /\ lp' \in {"vtable", "func"}
        /\ siteFile = {} /\ (lp' = "func" => vtabFile = {})
        /\ UNCHANGED << codeVars, fileVars >>
    BY <1>3 DEF NextFile, Through, ReplaceInv, PhaseInv
  <2>2. SlotsInv'
    BY <1>0, <1>1, <2>1 DEF ReplaceInv, SlotsInv, SlotPending, codeVars, fileVars
  <2>3. CallsInv'
    BY <1>0, <1>1, <2>1 DEF ReplaceInv, CallsInv, CallPending, ToRedirect, call_sites_all, codeVars, fileVars
  <2> QED BY <2>1, <2>2, <2>3 DEF ReplaceInv, PhaseInv, fileVars
<1>4. ASSUME NEW c \in CallIns, BeginSite(c) PROVE ReplaceInv'
  <2>1. /\ lp = "site" /\ lp' = lp /\ cur' = c /\ cur = None /\ siteFile' = siteFile \ {c}
        /\ site' = [site EXCEPT ![c] = Torn]
        /\ UNCHANGED << text, slot, vtabFile, funcFile >>
    BY <1>4 DEF BeginSite
  <2>2. SlotsInv'
    BY <1>1, <2>1 DEF ReplaceInv, SlotsInv, SlotPending
  <2>3. \A e \in CallIns : e # c => site'[e] = site[e]
    BY <2>1 DEF TypeInv, TypeOK
  <2>4. CallsInv'
    BY <1>0, <1>1, <2>1, <2>3 DEF ReplaceInv, CallsInv, CallPending, ToRedirect, call_sites_all
  <2> QED BY <2>1, <2>2, <2>4 DEF ReplaceInv, PhaseInv
<1>5. CASE EndSite
  <2>1. /\ lp = "site" /\ lp' = lp /\ cur' = None
        /\ site' = [site EXCEPT ![cur] = PatchedDest(cur)]
        /\ UNCHANGED << text, slot, fileVars >>
    BY <1>5 DEF EndSite
  <2>2. cur \in CallIns /\ PatchedDest(cur) = MovedAddr[CallTarget[cur]]
    BY <1>5, PatchedDestIsMovedAddr DEF EndSite, TypeInv, LibShape, call_sites_all
  <2>3. /\ site'[cur] = MovedAddr[CallTarget[cur]]
        /\ \A e \in CallIns : e # cur => site'[e] = site[e]
    BY <2>1, <2>2 DEF TypeInv, TypeOK
  <2>4. SlotsInv'
    BY <1>1, <2>1 DEF ReplaceInv, SlotsInv, SlotPending, fileVars
  <2>5. CallsInv'
    BY <1>1, <2>1, <2>3 DEF ReplaceInv, CallsInv, CallPending, ToRedirect, call_sites_all, fileVars
  <2> QED BY <2>1, <2>4, <2>5 DEF ReplaceInv, PhaseInv
<1>6. ASSUME NEW v \in Slot, BeginSlot(v) PROVE ReplaceInv'
  <2>1. /\ lp = "vtable" /\ lp' = lp /\ cur' = v /\ cur = None /\ vtabFile' = vtabFile \ {v}
        /\ slot' = [slot EXCEPT ![v] = Torn]
        /\ UNCHANGED << text, site, siteFile, funcFile >>
    BY <1>6 DEF BeginSlot
  <2>2. \A w \in Slot : w # v => slot'[w] = slot[w]
    BY <2>1 DEF TypeInv, TypeOK
  <2>3. SlotsInv'
    BY <1>0, <1>1, <2>1, <2>2 DEF ReplaceInv, SlotsInv, SlotPending
  <2>4. CallsInv'
    BY <1>1, <2>1 DEF ReplaceInv, CallsInv, CallPending
  <2> QED BY <2>1, <2>3, <2>4 DEF ReplaceInv, PhaseInv
<1>7. CASE EndSlot
  <2>1. /\ lp = "vtable" /\ lp' = lp /\ cur' = None /\ cur \in Slot
        /\ slot' = [slot EXCEPT ![cur] = NewAddr(SlotTarget[cur])]
        /\ UNCHANGED << text, site, fileVars >>
    BY <1>7 DEF EndSlot, TypeInv, LibShape
  <2>2. /\ slot'[cur] = NewAddr(SlotTarget[cur])
        /\ \A w \in Slot : w # cur => slot'[w] = slot[w]
    BY <2>1 DEF TypeInv, TypeOK
  <2>3. SlotsInv'
    BY <1>1, <2>1, <2>2 DEF ReplaceInv, SlotsInv, SlotPending, fileVars
  <2>4. CallsInv'
    BY <1>1, <2>1 DEF ReplaceInv, CallsInv, CallPending, fileVars
  <2> QED BY <2>1, <2>3, <2>4 DEF ReplaceInv, PhaseInv, fileVars
<1>8. ASSUME NEW f \in Func, BeginFunc(f) PROVE ReplaceInv'
  <2>1. /\ lp = "func" /\ lp' = lp /\ cur' = f /\ cur = None /\ funcFile' = funcFile \ {f}
        /\ text' = [text EXCEPT ![f] = "torn"]
        /\ UNCHANGED << site, slot, siteFile, vtabFile >>
    BY <1>8 DEF BeginFunc
  <2>2. \A h \in Func : h # f => text'[h] = text[h]
    BY <2>1 DEF TypeInv, TypeOK
  <2>3. SlotsInv'
    BY <1>1, <2>1 DEF ReplaceInv, SlotsInv, SlotPending
  <2>4. \A c \in ToRedirect : CallFunc[c] \in Func
    BY LayoutAssumption DEF ToRedirect, call_sites_all
  <2>5. CallsInv'
    BY <1>0, <1>1, <2>1, <2>2, <2>4 DEF ReplaceInv, CallsInv, CallPending
  <2> QED BY <2>1, <2>3, <2>5 DEF ReplaceInv, PhaseInv
<1>9. CASE EndFunc
  <2>1. /\ lp = "func" /\ lp' = lp /\ cur' = None
        /\ text' = [text EXCEPT ![cur] = "C1"]
        /\ UNCHANGED << site, slot, fileVars >>
    BY <1>9 DEF EndFunc
  <2>2. \A h \in Func : text'[h] = IF h = cur THEN "C1" ELSE text[h]
    BY <2>1 DEF TypeInv, TypeOK
  <2>3. SlotsInv'
    BY <1>1, <2>1 DEF ReplaceInv, SlotsInv, SlotPending, fileVars
  <2>4. \A c \in ToRedirect : CallFunc[c] \in Func
    BY LayoutAssumption DEF ToRedirect, call_sites_all
  <2>5. CallsInv'
    BY <1>1, <2>1, <2>2, <2>4 DEF ReplaceInv, CallsInv, CallPending, fileVars
  <2> QED BY <2>1, <2>3, <2>5 DEF ReplaceInv, PhaseInv, fileVars
<1>10. CASE RaiseSigstop
  <2>1. /\ lp = "func" /\ lp' = "finished" /\ funcFile = {} /\ cur = None
        /\ UNCHANGED << codeVars, fileVars, cur >>
    BY <1>10, Unreadable = {} DEF RaiseSigstop, Through
  <2>2. siteFile = {} /\ vtabFile = {}
    BY <2>1 DEF ReplaceInv, PhaseInv
  <2>3. AllBolted
    BY <2>1 DEF InsertInv
  <2>4. \A v \in Slot : slot[v] = NewAddr(SlotTarget[v])
    BY <1>1, <2>1, <2>2 DEF ReplaceInv, SlotsInv, SlotPending
  <2>5. \A c \in ToRedirect : site[c] = MovedAddr[CallTarget[c]] \/ text[CallFunc[c]] = "C1"
    <3>1. \A c \in ToRedirect : CallFunc[c] # None
      BY <1>0, LayoutAssumption DEF ToRedirect, call_sites_all
    <3> QED BY <1>1, <2>1, <2>2, <3>1 DEF ReplaceInv, CallsInv, CallPending
  <2>6. Replaced
    BY <2>3, <2>4, <2>5 DEF Replaced, AllBolted, ToRedirect
  <2>7. Replaced'
    BY <2>1, <2>6 DEF Replaced, codeVars
  <2>8. SlotsInv'
    BY <2>1, <2>4 DEF SlotsInv, codeVars
  <2>9. CallsInv'
    BY <2>1, <2>5 DEF CallsInv, codeVars
  <2> QED BY <2>1, <2>7, <2>8, <2>9 DEF ReplaceInv, PhaseInv
<1>11. CASE PrintErrAndExit
  BY <1>1, <1>11, ReplaceSame DEF PrintErrAndExit, libVars
<1> QED BY <1>2, <1>3, <1>4, <1>5, <1>6, <1>7, <1>8, <1>9, <1>10, <1>11 DEF LibNext

LEMMA ReplaceStep ==
  Unreadable = {} /\ TypeInv /\ InsertInv /\ ReplaceInv /\ [Next]_vars => ReplaceInv'
<1> SUFFICES ASSUME Unreadable = {}, TypeInv, InsertInv, ReplaceInv, [Next]_vars PROVE ReplaceInv'
  OBVIOUS
<1>1. ASSUME NEW t \in Thread, ThreadNext(t) PROVE ReplaceInv'
  <2>1. UNCHANGED << codeVars, fileVars, tracerVars, libVars >>
    BY <1>1, ThreadStep
  <2> QED BY <2>1, ReplaceSame DEF tracerVars, libVars
<1>2. CASE UNCHANGED vars
  BY <1>2, ReplaceSame DEF vars, tracerVars, libVars
<1> QED BY <1>1, <1>2, ReplaceStepTracer, ReplaceStepLib DEF Next

(* For every program, whatever functions the unwinding finds on the stacks   *)
(* and whatever threads escape it, if the four files can be read: when       *)
(* insert_machine_code raises SIGSTOP, every moved function is in place,     *)
(* every vtable slot holds the new address, and each recorded call to a      *)
(* moved function was either patched or overwritten with its function.       *)
THEOREM FinishedMeansReplacedHolds ==
  ASSUME Unreadable = {}
  PROVE  Spec => []FinishedMeansReplaced
<1> DEFINE Inv == TypeInv /\ InsertInv /\ ReplaceInv
<1>1. Init => Inv
  BY TypeInit, InsertInit, ReplaceInit
<1>2. Inv /\ [Next]_vars => Inv'
  BY TypeStep, InsertStep, ReplaceStep
<1>3. Inv => FinishedMeansReplaced
  BY DEF ReplaceInv, PhaseInv, FinishedMeansReplaced
<1> QED BY <1>1, <1>2, <1>3, PTL DEF Spec

-----------------------------------------------------------------------------
(* Replacing code is invisible to the source program. *)

(* The functions on a stack of frames: what a debugger would call the        *)
(* backtrace, whichever copy of a function each frame executes.              *)
Backtrace(s) == [i \in 1 .. Len(s) |-> s[i].fn]

LEMMA BacktraceSeq ==
  ASSUME NEW s \in Seq(Frame)
  PROVE  /\ Backtrace(s) \in Seq(Func)
         /\ Len(Backtrace(s)) = Len(s)
         /\ \A i \in 1 .. Len(s) : Backtrace(s)[i] = s[i].fn
<1>1. Len(s) \in Nat /\ \A i \in 1 .. Len(s) : s[i].fn \in Func
  <2>1. \A i \in 1 .. Len(s) : s[i] \in Frame
    BY ElementOfSeq
  <2> QED BY <2>1, LenProperties DEF Frame
<1> QED BY <1>1 DEF Backtrace

LEMMA BacktraceSetLast ==
  ASSUME NEW s \in Seq(Frame), NEW r \in Seq(Frame), Len(r) = Len(s),
         r[Len(s)].fn = s[Len(s)].fn,
         \A i \in 1 .. Len(s) : i # Len(s) => r[i] = s[i]
  PROVE  Backtrace(r) = Backtrace(s)
BY DEF Backtrace

LEMMA BacktracePush ==
  ASSUME NEW s \in Seq(Frame), s # << >>, NEW r \in Seq(Frame), Len(r) = Len(s) + 1,
         r[Len(s)].fn = s[Len(s)].fn,
         \A i \in 1 .. Len(s) : i # Len(s) => r[i] = s[i]
  PROVE  Backtrace(r) = Append(Backtrace(s), r[Len(s) + 1].fn)
<1>1. PICK p, q, f : p = Backtrace(s) /\ q = Backtrace(r) /\ f = r[Len(s) + 1].fn
  OBVIOUS
<1>2. Len(s) \in Nat
  OBVIOUS
<1>3. /\ p \in Seq(Func) /\ Len(p) = Len(s)
      /\ \A i \in 1 .. Len(s) : p[i] = s[i].fn
  BY <1>1, BacktraceSeq
<1>4. /\ q \in Seq(Func) /\ Len(q) = Len(s) + 1
      /\ \A i \in 1 .. Len(s) + 1 : q[i] = r[i].fn
  BY <1>1, BacktraceSeq
<1>5. Len(s) + 1 \in 1 .. Len(s) + 1
  BY <1>2
<1>6. f \in Func /\ q[Len(s) + 1] = f
  BY <1>1, <1>4, <1>5, ElementOfSeq
<1>7. \A i \in 1 .. Len(s) : q[i] = p[i]
  BY <1>2, <1>3, <1>4
<1>8. q = Append(p, f)
  BY <1>2, <1>3, <1>4, <1>6, <1>7
<1> QED BY <1>1, <1>8

LEMMA BacktracePop ==
  ASSUME NEW s \in Seq(Frame), Len(s) > 1, NEW r \in Seq(Frame), Len(r) = Len(s) - 1,
         \A i \in 1 .. Len(r) : r[i] = s[i]
  PROVE  Backtrace(r) = SubSeq(Backtrace(s), 1, Len(Backtrace(s)) - 1)
<1>1. PICK p, q, w : p = Backtrace(s) /\ q = Backtrace(r) /\ w = SubSeq(p, 1, Len(p) - 1)
  OBVIOUS
<1>2. /\ p \in Seq(Func) /\ Len(p) = Len(s)
      /\ \A i \in 1 .. Len(s) : p[i] = s[i].fn
  BY <1>1, BacktraceSeq
<1>3. /\ q \in Seq(Func) /\ Len(q) = Len(r)
      /\ \A i \in 1 .. Len(r) : q[i] = r[i].fn
  BY <1>1, BacktraceSeq
<1>4. /\ w \in Seq(Func) /\ Len(w) = Len(p) - 1
      /\ \A i \in 1 .. Len(w) : w[i] = p[i]
  <2>1. Len(p) > 1
    BY <1>2
  <2>2. ASSUME NEW x \in Seq(Func), Len(x) > 1
        PROVE  \A y : y = SubSeq(x, 1, Len(x) - 1) =>
                 /\ y \in Seq(Func) /\ Len(y) = Len(x) - 1 /\ y # << >>
                 /\ \A i \in 1 .. Len(y) : y[i] = x[i]
    BY <2>2, Pop, Zenon
  <2> QED BY <1>1, <1>2, <2>1, <2>2, ZenonT(30)
<1>5. Len(s) \in Nat /\ Len(w) = Len(q) /\ \A i \in 1 .. Len(w) : w[i] = q[i]
  BY <1>2, <1>3, <1>4
<1>6. w = q
  BY <1>3, <1>4, <1>5, SeqEqual
<1> QED BY <1>1, <1>6

(* The refinement mapping, as one function of the stacks. *)
Backtraces == [t \in Thread |-> Backtrace(stack[t])]

LEMMA MapsToBacktraces ==
  /\ Source!programVars = << Backtraces, target >>
  /\ Source!ProgramInit <=>
       /\ Backtraces = [t \in Thread |-> IF t \in Thread \ LateThread THEN << Root[t] >> ELSE << >>]
       /\ target = "alive"
BY DEF Source!programVars, Source!ProgramInit, Backtraces, Backtrace

LEMMA SourceInit == Init => Source!ProgramInit
<1> SUFFICES ASSUME Init PROVE Source!ProgramInit
  OBVIOUS
<1>1. ASSUME NEW t \in Thread
      PROVE  Backtrace(stack[t]) = IF t \in Thread \ LateThread THEN << Root[t] >> ELSE << >>
  <2>1. CASE t \in LateThread
    <3>1. stack[t] = << >>
      BY <2>1 DEF Init
    <3> QED BY <2>1, <3>1 DEF Backtrace
  <2>2. CASE t \notin LateThread
    <3>1. PICK b : b = FrameAt(Root[t])
      OBVIOUS
    <3>2. stack[t] = << b >> /\ b.fn = Root[t]
      BY <2>2, <3>1, FrameAtOriginal, ThreadAssumption DEF Init
    <3> QED BY <2>2, <3>2 DEF Backtrace
  <2> QED BY <2>1, <2>2
<1>2. target = "alive"
  BY DEF Init
<1> QED BY <1>1, <1>2, MapsToBacktraces DEF Backtraces

(* Fifth part of the inductive invariant, when no stray signal can cut the   *)
(* insertion short: something is half written only while the tracer waits    *)
(* for the hijacked thread and every other thread is stopped.                *)
QuietInv ==
  /\ lp # "abandoned"
  /\ target = "alive" /\ cur # None => tp = "cont"
  /\ \A f \in Func : text[f] = "torn" => lp = "func" /\ cur = f

LEMMA QuietInit == Init => QuietInv
BY DEF Init, QuietInv

LEMMA QuietStepTracer ==
  ASSUME ~ StraySignals, TypeInv, QuietInv, TracerNext
  PROVE  QuietInv'
<1>1. CASE \E t \in Thread : SingleStepTrue(t)
  BY <1>1 DEF SingleStepTrue, QuietInv, TypeInv, LibShape, codeVars
<1>2. CASE ContSigstop
  BY <1>2 DEF ContSigstop, QuietInv, TypeInv, LibShape, targetVars, codeVars
<1>3. CASE TracerExit \/ CleanUp \/ Done
  BY <1>3 DEF TracerExit, CleanUp, Done, QuietInv, targetVars, codeVars, libVars
<1>4. CASE PrepareFiles \/ ScanTasks \/ Unwind \/ NoThreadLeft \/ TracerFails
  BY <1>4 DEF PrepareFiles, ScanTasks, Unwind, NoThreadLeft, TracerFails, QuietInv,
              TypeInv, LibShape, targetVars, codeVars, libVars
<1>5. ASSUME NEW t \in Thread, Attach(t) \/ SingleStepFalse(t) \/ Detach(t)
      PROVE  QuietInv'
  BY <1>5 DEF Attach, SingleStepFalse, Detach, QuietInv, targetVars, codeVars, tracerVars, libVars
<1>6. ~ ContOther
  BY DEF ContOther
<1> QED BY <1>1, <1>2, <1>3, <1>4, <1>5, <1>6 DEF TracerNext

LEMMA QuietStepLib ==
  ASSUME TypeInv, InsertInv, QuietInv, LibNext
  PROVE  QuietInv'
<1>1. tp = "cont" /\ tp' = tp
  BY DEF LibNext, Handshake, BeginBolted, EndBolted, NextFile, BeginSite, EndSite, BeginSlot,
         EndSlot, BeginFunc, EndFunc, RaiseSigstop, PrintErrAndExit, LibRuns, tracerVars
<1>2. lp' # "abandoned"
  BY DEF QuietInv, LibNext, Handshake, BeginBolted, EndBolted, NextFile, BeginSite, EndSite, BeginSlot,
         EndSlot, BeginFunc, EndFunc, RaiseSigstop, PrintErrAndExit, libVars
<1>3. ASSUME NEW f \in Func, text'[f] = "torn" PROVE lp' = "func" /\ cur' = f
  <2>1. ASSUME NEW h \in Func, BeginFunc(h) PROVE lp' = "func" /\ cur' = f
    <3>1. cur = None /\ cur' = h /\ lp' = "func" /\ text' = [text EXCEPT ![h] = "torn"]
      BY <2>1 DEF BeginFunc
    <3>2. None \notin Func
      BY ThreadAssumption
    <3>3. f # h => text'[f] = text[f]
      BY <3>1 DEF TypeInv, TypeOK
    <3> QED BY <1>3, <3>1, <3>2, <3>3 DEF QuietInv
  <2>2. CASE EndFunc
    <3>1. text' = [text EXCEPT ![cur] = "C1"]
      BY <2>2 DEF EndFunc
    <3>2. f # cur /\ text'[f] = text[f]
      BY <1>3, <3>1 DEF TypeInv, TypeOK
    <3> QED BY <1>3, <3>2 DEF QuietInv
  <2>3. ASSUME ~ EndFunc, \A h \in Func : ~ BeginFunc(h)
        PROVE  lp' = "func" /\ cur' = f
    <3>1. UNCHANGED text
      BY <2>3 DEF LibNext, Handshake, BeginBolted, EndBolted, NextFile, BeginSite, EndSite,
         BeginSlot, EndSlot, RaiseSigstop, PrintErrAndExit, codeVars
    <3>2. lp = "func" /\ cur = f /\ f # None
      BY <1>3, <3>1, ThreadAssumption DEF QuietInv
    <3>3. UNCHANGED << lp, cur >>
      BY <2>3, <3>2 DEF LibNext, Handshake, BeginBolted, EndBolted, NextFile, Through, BeginSite, EndSite,
         BeginSlot, EndSlot, RaiseSigstop, PrintErrAndExit, libVars
    <3> QED BY <3>2, <3>3
  <2> QED BY <2>1, <2>2, <2>3
<1> QED BY <1>1, <1>2, <1>3 DEF QuietInv

LEMMA QuietStep == ~ StraySignals /\ TypeInv /\ InsertInv /\ QuietInv /\ [Next]_vars => QuietInv'
<1> SUFFICES ASSUME ~ StraySignals, TypeInv, InsertInv, QuietInv, [Next]_vars PROVE QuietInv'
  OBVIOUS
<1>1. ASSUME NEW t \in Thread, ThreadNext(t) PROVE QuietInv'
  <2>1. UNCHANGED << codeVars, fileVars, tracerVars, libVars >>
    BY <1>1, ThreadStep
  <2>2. target = "alive"
    BY <1>1 DEF ThreadNext, Step, Return, Fault, Call, VirtualCall, Spawn, Executes
  <2> QED BY <2>1, <2>2 DEF QuietInv, codeVars, tracerVars, libVars
<1>2. CASE UNCHANGED vars
  BY <1>2 DEF QuietInv, vars, targetVars, codeVars, tracerVars, libVars
<1> QED BY <1>1, <1>2, QuietStepTracer, QuietStepLib DEF Next

(* A thread that executes finds complete code, complete calls and complete   *)
(* vtable slots.                                                             *)
LEMMA RunningFindsCode ==
  ASSUME TypeInv, InsertInv, FramesInv, QuietInv, NEW t \in Thread, Executes(t)
  PROVE  /\ Executable(Top(t))
         /\ \A c \in CallIns : \/ site[c] = CallTarget[c]
                               \/ CallTarget[c] \in Moved /\ site[c] = MovedAddr[CallTarget[c]]
         /\ \A v \in Slot : \/ slot[v] = SlotTarget[v]
                            \/ SlotTarget[v] \in Moved /\ slot[v] = MovedAddr[SlotTarget[v]]
<1>1. target = "alive" /\ tp # "cont"
  BY DEF Executes, FramesInv
<1>2. cur = None
  BY <1>1 DEF QuietInv
<1>3. None \notin Func /\ None \notin CallIns /\ None \notin Slot
  BY ThreadAssumption
<1>4. /\ Top(t) \in Frame /\ (Top(t).moved => Top(t).fn \in Moved)
      /\ Len(stack[t]) \in 1 .. Len(stack[t]) /\ Top(t) = stack[t][Len(stack[t])]
  BY TopFrame
<1>5. CodeAt(Top(t)) \in {"C0", "C1"}
  <2>1. CASE Top(t).moved
    <3>1. AllBolted
      BY <1>4, <2>1 DEF InsertInv, Pristine, NoMovedFrame, TypeInv, TypeOK, EarlyPhase, LibBusy, CopyPhase
    <3> QED BY <1>4, <2>1, <3>1 DEF CodeAt, AllBolted
  <2>2. CASE ~ Top(t).moved
    <3>1. Top(t).fn \in Func
      BY <1>4 DEF Frame
    <3>2. text[Top(t).fn] \in {"C0", "C1", "torn"} /\ text[Top(t).fn] # "torn"
      BY <1>2, <1>3, <3>1 DEF QuietInv, TypeInv, TypeOK
    <3> QED BY <2>2, <3>2 DEF CodeAt
  <2> QED BY <2>1, <2>2
<1>6. FrameOK(Top(t))
  BY <1>4 DEF FramesInv
<1>7. Executable(Top(t))
  BY <1>5, <1>6 DEF Executable, FrameOK
<1>8. /\ \A c \in CallIns : cur # c
      /\ \A v \in Slot : cur # v
  BY <1>2, <1>3
<1> QED BY <1>7, <1>8 DEF InsertInv

(* Only t's stack changes. *)
LEMMA BacktracesOf ==
  ASSUME TypeInv, NEW t \in Thread, NEW r, stack' = [stack EXCEPT ![t] = r]
  PROVE  Backtraces' = [Backtraces EXCEPT ![t] = Backtrace(r)]
<1>1. stack'[t] = r /\ \A u \in Thread : u # t => stack'[u] = stack[u]
  BY DEF TypeInv, TypeOK
<1>2. \A u \in Thread : Backtraces'[u] = Backtrace(stack'[u]) /\ Backtraces[u] = Backtrace(stack[u])
  BY DEF Backtraces, Backtrace
<1>3. Backtraces'[t] = Backtrace(r) /\ \A u \in Thread : u # t => Backtraces'[u] = Backtraces[u]
  BY <1>1, <1>2
<1>4. /\ Backtraces = [u \in Thread |-> Backtraces[u]]
      /\ Backtraces' = [u \in Thread |-> Backtraces'[u]]
  BY DEF Backtraces
<1>5. PICK p, q, b : p = Backtraces /\ q = Backtraces' /\ b = Backtrace(r)
  OBVIOUS
<1>6. /\ p = [u \in Thread |-> p[u]] /\ q = [u \in Thread |-> q[u]]
      /\ q[t] = b /\ \A u \in Thread : u # t => q[u] = p[u]
  BY <1>3, <1>4, <1>5
<1>7. q = [p EXCEPT ![t] = b]
  BY <1>6
<1> QED BY <1>5, <1>7

LEMMA SourceAdvance ==
  ASSUME TypeInv, NEW t \in Thread, Step(t)
  PROVE  Backtraces' = Backtraces /\ target' = target
<1>1. Executes(t) /\ Executable(Top(t))
  BY DEF Step
<1>2. PICK s, a, r : s = stack[t] /\ a = Advanced(t, 1) /\ r = [s EXCEPT ![Len(s)] = a]
  OBVIOUS
<1>3. s \in Seq(Frame) /\ s # << >> /\ a \in Frame /\ a.fn = s[Len(s)].fn
  BY <1>1, <1>2, TopFrame, AdvancedFrame
<1>4. /\ r \in Seq(Frame) /\ Len(r) = Len(s) /\ r[Len(s)] = a
      /\ \A i \in 1 .. Len(s) : i # Len(s) => r[i] = s[i]
  BY <1>2, <1>3, SetLast
<1>5. Backtrace(r) = Backtrace(s)
  BY <1>3, <1>4, BacktraceSetLast
<1>6. stack' = [stack EXCEPT ![t] = r] /\ target' = target
  BY <1>2 DEF Step
<1>7. Backtraces' = [Backtraces EXCEPT ![t] = Backtrace(r)]
  BY <1>6, BacktracesOf
<1>8. Backtraces[t] = Backtrace(r)
  BY <1>2, <1>5 DEF Backtraces
<1> QED BY <1>6, <1>7, <1>8 DEF Backtraces

LEMMA SourceReturn ==
  ASSUME TypeInv, NEW t \in Thread, Return(t)
  PROVE  /\ target = "alive" /\ target' = target
         /\ Len(Backtraces[t]) > 1
         /\ Backtraces' = [Backtraces EXCEPT ![t] = SubSeq(@, 1, Len(@) - 1)]
<1>1. PICK s, r : s = stack[t] /\ r = SubSeq(s, 1, Len(s) - 1)
  OBVIOUS
<1>2. s \in Seq(Frame) /\ Len(s) > 1
  BY <1>1, TopFrame DEF Return
<1>3. /\ r \in Seq(Frame) /\ Len(r) = Len(s) - 1
      /\ \A i \in 1 .. Len(r) : r[i] = s[i]
  <2>1. ASSUME NEW q \in Seq(Frame), Len(q) > 1
        PROVE  \A x : x = SubSeq(q, 1, Len(q) - 1) =>
                 /\ x \in Seq(Frame) /\ Len(x) = Len(q) - 1 /\ x # << >>
                 /\ \A i \in 1 .. Len(x) : x[i] = q[i]
    BY <2>1, Pop, Zenon
  <2> QED BY <1>1, <1>2, <2>1, ZenonT(30)
<1>4. Backtrace(r) = SubSeq(Backtrace(s), 1, Len(Backtrace(s)) - 1)
  BY <1>2, <1>3, BacktracePop
<1>5. stack' = [stack EXCEPT ![t] = r] /\ target' = target /\ target = "alive"
  BY <1>1 DEF Return, Executes
<1>6. Backtraces' = [Backtraces EXCEPT ![t] = Backtrace(r)]
  BY <1>5, BacktracesOf
<1>7. Backtraces[t] = Backtrace(s) /\ t \in DOMAIN Backtraces
  BY <1>1 DEF Backtraces
<1>8. Len(Backtrace(s)) > 1
  BY <1>2, BacktraceSeq
<1> QED BY <1>4, <1>5, <1>6, <1>7, <1>8

(* A call that reaches the original or the moved copy of g pushes g. *)
LEMMA SourceLand ==
  ASSUME TypeInv, NEW t \in Thread, Executes(t), Executable(Top(t)),
         NEW off \in Nat, NEW d, Land(t, off, d),
         NEW g \in Func, d = g \/ (g \in Moved /\ d = MovedAddr[g])
  PROVE  /\ target = "alive" /\ target' = target
         /\ Len(Backtraces[t]) \in 1 .. MaxDepth - 1
         /\ Backtraces[t][Len(Backtraces[t])] = Top(t).fn
         /\ Backtraces' = [Backtraces EXCEPT ![t] = Append(@, g)]
<1>1. IsEntry(d)
  BY FrameAtOriginal, FrameAtMoved
<1>2. PICK s, a, b, r : /\ s = stack[t] /\ a = Advanced(t, off) /\ b = FrameAt(d)
                        /\ r = Append([s EXCEPT ![Len(s)] = a], b)
  OBVIOUS
<1>3. /\ s \in Seq(Frame) /\ s # << >> /\ a \in Frame /\ b \in Frame
      /\ a.fn = s[Len(s)].fn /\ Top(t) = s[Len(s)]
  BY <1>1, <1>2, TopFrame, AdvancedFrame, FrameAtEntry
<1>4. b.fn = g
  BY <1>1, <1>2, CalleeFrame
<1>5. /\ r \in Seq(Frame) /\ Len(r) = Len(s) + 1
      /\ r[Len(s)] = a /\ r[Len(s) + 1] = b
      /\ \A i \in 1 .. Len(s) : i # Len(s) => r[i] = s[i]
  BY <1>2, <1>3, Push
<1>6. Backtrace(r) = Append(Backtrace(s), g)
  BY <1>3, <1>4, <1>5, BacktracePush
<1>7. /\ stack' = [stack EXCEPT ![t] = r] /\ target' = target /\ target = "alive"
      /\ Len(s) < MaxDepth
  BY <1>1, <1>2 DEF Land, Executes
<1>8. Backtraces' = [Backtraces EXCEPT ![t] = Backtrace(r)]
  BY <1>7, BacktracesOf
<1>9. Backtraces[t] = Backtrace(s) /\ t \in DOMAIN Backtraces
  BY <1>2 DEF Backtraces
<1>10. Len(s) \in 1 .. Len(s) /\ Len(s) \in 1 .. MaxDepth - 1
  BY <1>3, <1>7, ThreadAssumption
<1>11. Len(Backtrace(s)) = Len(s) /\ Backtrace(s)[Len(s)] = Top(t).fn
  BY <1>3, <1>10, BacktraceSeq
<1> QED BY <1>6, <1>7, <1>8, <1>9, <1>10, <1>11

(* The same facts as an action of Program. *)
LEMMA SourceCall ==
  ASSUME NEW t \in Thread, NEW g, << Backtraces[t][Len(Backtraces[t])], g >> \in Edge,
         target = "alive", target' = target,
         Len(Backtraces[t]) \in 1 .. MaxDepth - 1,
         Backtraces' = [Backtraces EXCEPT ![t] = Append(@, g)]
  PROVE  Source!ProgramNext
<1>1. Source!ProgramCall(t, g)
  BY DEF Source!ProgramCall, Backtraces, Backtrace
<1>2. PICK e \in Edge : e[2] = g
  OBVIOUS
<1> QED BY <1>1, <1>2 DEF Source!ProgramNext

LEMMA SourceThread ==
  ASSUME TypeInv, InsertInv, FramesInv, QuietInv, LateThread = {}, NEW t \in Thread, ThreadNext(t)
  PROVE  Source!ProgramNext \/ UNCHANGED Source!programVars
<1>1. Executes(t)
  BY DEF ThreadNext, Step, Return, Fault, Call, VirtualCall, Spawn
<1>2. /\ Executable(Top(t))
      /\ \A c \in CallIns : \/ site[c] = CallTarget[c]
                            \/ CallTarget[c] \in Moved /\ site[c] = MovedAddr[CallTarget[c]]
      /\ \A v \in Slot : \/ slot[v] = SlotTarget[v]
                         \/ SlotTarget[v] \in Moved /\ slot[v] = MovedAddr[SlotTarget[v]]
  BY <1>1, RunningFindsCode
<1>3. CASE Step(t)
  <2>1. Backtraces' = Backtraces /\ target' = target
    BY <1>3, SourceAdvance
  <2> QED BY <2>1 DEF Source!programVars, Backtraces, Backtrace
<1>4. CASE Return(t)
  <2>1. /\ target = "alive" /\ target' = target
        /\ Len(Backtraces[t]) > 1
        /\ Backtraces' = [Backtraces EXCEPT ![t] = SubSeq(@, 1, Len(@) - 1)]
    BY <1>4, SourceReturn
  <2>2. Source!ProgramReturn(t)
    BY <2>1 DEF Source!ProgramReturn, Backtraces, Backtrace
  <2> QED BY <2>2 DEF Source!ProgramNext
<1>5. CASE Fault(t)
  BY <1>2, <1>5 DEF Fault
<1>6. ASSUME NEW c \in CallIns, Call(t, c) PROVE Source!ProgramNext
  <2>1. PICK off, d : off = c + CallSize - CallFunc[c] /\ d = DestOfCall(c, CodeAt(Top(t)))
    OBVIOUS
  <2>2. Land(t, off, d) /\ CallFunc[c] = Top(t).fn
    BY <1>6, <2>1 DEF Call
  <2>3. off \in Nat
    <3>1. c + CallSize - CallFunc[c] \in 1 .. FuncSize[CallFunc[c]] /\ CallFunc[c] \in Func
      BY CallOffset, LayoutAssumption
    <3>2. FuncSize[CallFunc[c]] \in Nat
      BY <3>1, FirstOffset
    <3> QED BY <2>1, <3>1, <3>2
  <2>4. /\ CallTarget[c] \in Func
        /\ d = CallTarget[c] \/ (CallTarget[c] \in Moved /\ d = MovedAddr[CallTarget[c]])
    BY <1>2, <2>1, LayoutAssumption DEF DestOfCall, NewAddr
  <2>5. /\ target = "alive" /\ target' = target
        /\ Len(Backtraces[t]) \in 1 .. MaxDepth - 1
        /\ Backtraces[t][Len(Backtraces[t])] = Top(t).fn
        /\ Backtraces' = [Backtraces EXCEPT ![t] = Append(@, CallTarget[c])]
    BY <1>1, <1>2, <2>2, <2>3, <2>4, SourceLand
  <2>6. << Backtraces[t][Len(Backtraces[t])], CallTarget[c] >> \in Edge
    BY <2>2, <2>5 DEF Edge
  <2> QED BY <2>5, <2>6, SourceCall
<1>7. ASSUME NEW v \in Slot, VirtualCall(t, v) PROVE Source!ProgramNext
  <2>1. Land(t, 1, slot[v]) /\ Top(t).fn \in SlotUser[v]
    BY <1>7 DEF VirtualCall
  <2>2. SlotTarget[v] \in Func
    BY LayoutAssumption
  <2>3. /\ target = "alive" /\ target' = target
        /\ Len(Backtraces[t]) \in 1 .. MaxDepth - 1
        /\ Backtraces[t][Len(Backtraces[t])] = Top(t).fn
        /\ Backtraces' = [Backtraces EXCEPT ![t] = Append(@, SlotTarget[v])]
    BY <1>1, <1>2, <2>1, <2>2, SourceLand
  <2>4. << Backtraces[t][Len(Backtraces[t])], SlotTarget[v] >> \in Edge
    BY <2>1, <2>3 DEF Edge
  <2> QED BY <2>3, <2>4, SourceCall
<1> QED BY <1>3, <1>4, <1>5, <1>6, <1>7 DEF ThreadNext

(* The tracer and the library are invisible, but for print_err_and_exit. *)
LEMMA SourceOthers ==
  ASSUME TracerNext \/ LibNext
  PROVE  Source!ProgramNext \/ UNCHANGED Source!programVars
<1>1. stack' = stack
  BY DEF TracerNext, PrepareFiles, ScanTasks, Unwind, NoThreadLeft, ContSigstop, ContOther,
         CleanUp, Done, TracerExit, TracerFails, Attach, SingleStepTrue, SingleStepFalse, Detach,
         LibNext, Handshake, BeginBolted, EndBolted, NextFile, BeginSite, EndSite, BeginSlot,
         EndSlot, BeginFunc, EndFunc, RaiseSigstop, PrintErrAndExit, targetVars
<1>2. CASE PrintErrAndExit
  <2>1. target = "alive" /\ target' = "exited"
    BY <1>2 DEF PrintErrAndExit, LibRuns
  <2>2. Source!ProgramExit
    BY <1>1, <2>1 DEF Source!ProgramExit
  <2> QED BY <2>2 DEF Source!ProgramNext
<1>3. CASE ~ PrintErrAndExit
  <2>1. target' = target
    BY <1>3 DEF TracerNext, PrepareFiles, ScanTasks, Unwind, NoThreadLeft, ContSigstop, ContOther,
         CleanUp, Done, TracerExit, TracerFails, Attach, SingleStepTrue, SingleStepFalse, Detach,
         LibNext, Handshake, BeginBolted, EndBolted, NextFile, BeginSite, EndSite, BeginSlot,
         EndSlot, BeginFunc, EndFunc, RaiseSigstop, targetVars
  <2> QED BY <1>1, <2>1 DEF Source!programVars
<1> QED BY <1>2, <1>3

(* Online code replacement is invisible to the program: for every program    *)
(* in which the last symbol is idle, with all threads present when they are  *)
(* paused, no stray signal during the insertion and bolted_functions.bin     *)
(* read, whichever of the other files are skipped: each step of the target,  *)
(* the tracer and the library is a call along an edge of the source's call   *)
(* graph, a return or an exit of the program, or changes nothing it can see. *)
(* In particular no thread ever crashes.                                     *)
THEOREM TransparentHolds ==
  ASSUME LateThread = {}, LastSymbolIdle, ~ StraySignals, "bolted" \notin Unreadable
  PROVE  Spec => Transparent
<1> DEFINE Inv == TypeInv /\ InsertInv /\ FramesInv /\ QuietInv
<1>1. Init => Inv
  BY TypeInit, InsertInit, FramesInit, QuietInit
<1>2. Inv /\ [Next]_vars => Inv'
  BY TypeStep, InsertStep, FramesStep, QuietStep
<1>3. Init => Source!ProgramInit
  BY SourceInit
<1>4. Inv /\ [Next]_vars => [Source!ProgramNext]_(Source!programVars)
  <2> SUFFICES ASSUME Inv, [Next]_vars
               PROVE  Source!ProgramNext \/ UNCHANGED Source!programVars
    OBVIOUS
  <2>1. CASE UNCHANGED vars
    BY <2>1 DEF vars, targetVars, Source!programVars
  <2> QED BY <2>1, SourceThread, SourceOthers DEF Next
<1> QED BY <1>1, <1>2, <1>3, <1>4, PTL DEF Spec, Transparent, Source!ProgramSpec
=============================================================================
