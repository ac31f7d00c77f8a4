--------------------------------- MODULE Callee ---------------------------------
(***************************************************************************)
(* What unwinding has to undo: a function that saves registers, moves its    *)
(* stack pointer and loses the old values, together with the unwind          *)
(* information a compiler writes for it.  The machine is ARM, with           *)
(* instructions of two bytes; its state before each instruction is known, so *)
(* that the caller's registers are known without any unwinding.              *)
(***************************************************************************)
EXTENDS Integers, Sequences, FiniteSets, SequencesExt

Ascending(set) == SetToSortSeq(set, <)
Lowered(s, n) == [s EXCEPT !.regs[13] = @ - n]

\* push, sub sp, mov r7 sp, any change of a register, a copy of one, vpush, a
\* call, and what the end of a function does.  "mark" and "back" stand around an early return.
PushRegs(set) == [op |-> "push", set |-> set]
Sub(n) == [op |-> "sub", n |-> n]
Vpush(n) == [op |-> "vpush", n |-> n]
SetFp == [op |-> "fp"]
Lose(r) == [op |-> "lose", r |-> r]
SpFromFp == [op |-> "sp"]
AddSp(n) == [op |-> "add", n |-> n]
PopRegs(set) == [op |-> "pop", set |-> set]
Move(r, to) == [op |-> "move", r |-> r, to |-> to]
Call == [op |-> "call"]
Mark == [op |-> "mark"]
Back == [op |-> "back"]

Size(i) == CASE i.op \in {"mark", "back"} -> 0 [] i.op = "call" -> 4 [] OTHER -> 2
Bytes(code) == FoldLeft(LAMBDA n, i : n + Size(i), 0, code)

\* One instruction of the machine.
Execute(s, i) ==
  CASE i.op = "push" ->
         LET t == Lowered(s, 4 * Cardinality(i.set))
             order == Ascending(i.set)
             slot(k) == t.regs[13] + 4 * (k - 1)
             stored == {slot(k) : k \in DOMAIN order}
         IN  [t EXCEPT !.mem = [a \in DOMAIN s.mem \cup stored |->
                IF a \in stored THEN s.regs[order[(a - t.regs[13]) \div 4 + 1]] ELSE s.mem[a]]]
    [] i.op = "sub"      -> Lowered(s, 4 * i.n)
    [] i.op = "vpush"    -> Lowered(s, 8 * i.n)
    [] i.op = "fp"       -> [s EXCEPT !.regs[7] = s.regs[13]]
    [] i.op = "lose"     -> [s EXCEPT !.regs[i.r] = 1]
    [] i.op = "move"     -> [s EXCEPT !.regs[i.to] = s.regs[i.r]]
    [] i.op = "call"     -> [s EXCEPT !.regs[14] = 1]
    [] i.op = "sp"       -> [s EXCEPT !.regs[13] = s.regs[7]]
    [] i.op = "add"      -> Lowered(s, -4 * i.n)
    [] i.op = "pop"      ->
         LET order == Ascending(i.set)
             at(r) == s.regs[13] + 4 * (Cardinality({q \in i.set : q < r}))
         IN  Lowered([s EXCEPT !.regs = [r \in DOMAIN @ |-> IF r \in i.set THEN s.mem[at(r)] ELSE @[r]]],
                     -4 * Cardinality(i.set))
    [] i.op = "mark"     -> [s EXCEPT !.saved = s.regs]
    [] i.op = "back"     -> [s EXCEPT !.regs = s.saved]

StateBefore(code, n, entry) == FoldLeft(Execute, entry, SubSeq(code, 1, n - 1))

-----------------------------------------------------------------------------
(* Call frame instructions, one row after each instruction.  base and depth  *)
(* say where the canonical frame address is.                                 *)

Op(name) == [op |-> name]
Cfi(c, i) ==
  LET n == CASE i.op = "push" -> 4 * Cardinality(i.set)
             [] i.op = "pop" -> -4 * Cardinality(i.set)
             [] i.op = "sub" -> 4 * i.n
             [] i.op = "vpush" -> 8 * i.n
             [] i.op = "add" -> -4 * i.n
             [] i.op = "sp" -> c.fpDepth - c.depth
             [] OTHER -> 0
      depth == c.depth + n
      moved == IF c.base = 13 /\ n # 0 THEN <<[op |-> "def_cfa_offset", arg |-> depth]>> ELSE <<>>
      order == IF i.op \in {"push", "pop"} THEN Ascending(i.set) ELSE <<>>
      slots == IF i.op = "push"
               THEN [k \in DOMAIN order |-> [op |-> "offset", reg |-> order[k], arg |-> depth \div 4 - (k - 1)]]
               ELSE [k \in DOMAIN order |-> [op |-> "restore", reg |-> order[k]]]
      copied == <<[op |-> "register", reg |-> i.r, arg |-> i.to]>>
      step(more) == c.prog \o <<[op |-> "advance_loc", arg |-> Size(i) \div 2]>> \o more
  IN CASE i.op \in {"push", "pop", "sub", "vpush", "add", "lose", "call"} ->
            [c EXCEPT !.prog = step(moved \o slots), !.depth = depth]
       [] i.op = "move" -> [c EXCEPT !.prog = step(copied)]
       [] i.op = "fp" -> [c EXCEPT !.prog = step(<<[op |-> "def_cfa_register", reg |-> 7]>>),
                                   !.base = 7, !.fpDepth = c.depth]
       [] i.op = "sp" -> [c EXCEPT !.prog = step(<<[op |-> "def_cfa", reg |-> 13, arg |-> depth]>>),
                                   !.base = 13, !.depth = depth]
       [] i.op = "mark" -> [c EXCEPT !.prog = @ \o <<Op("remember_state")>>, !.saved = <<c.base, c.depth>>]
       [] i.op = "back" -> [c EXCEPT !.prog = @ \o <<Op("restore_state")>>,
                                     !.base = c.saved[1], !.depth = c.saved[2]]

CfiProgram(code) ==
  FoldLeft(Cfi, [prog |-> <<>>, base |-> 13, depth |-> 0, fpDepth |-> 0, saved |-> <<13, 0>>], code).prog

-----------------------------------------------------------------------------
(* Unwind instructions of the ARM exception handling ABI: the prologue       *)
(* backwards, from the frame pointer if there is one.  They hold between the *)
(* prologue and the end of the function.                                     *)

Positions(code, ops) == {k \in DOMAIN code : code[k].op \in ops}
Latest(set) == CHOOSE k \in set \cup {0} : \A h \in set : h <= k
PrologueOps == {"push", "sub", "vpush", "fp"}
Prologue(code) ==
  LET fps == Positions(code, {"fp"})
  IN  SubSeq(code, 1, Latest(IF fps = {} THEN Positions(code, PrologueOps) ELSE fps))

Settled(code, n) ==
  LET left == {k \in Positions(code, {"sp", "add", "pop"}) : k < n}
      back == {k \in Positions(code, {"back"}) : k < n}
  IN  n > Latest(Positions(code, PrologueOps)) /\ Latest(left) <= Latest(back)

MaskBytes(set) ==
  LET mask == FoldLeft(LAMBDA n, r : n + 2^(r - 4), 0, Ascending(set))
  IN  <<128 + mask \div 256, mask % 256>>

Unwinding(i) ==
  CASE i.op = "push" /\ i.set \subseteq 0 .. 3 ->
         <<177, FoldLeft(LAMBDA n, r : n + 2^r, 0, Ascending(i.set))>>
    [] i.op = "push" /\ i.set \ {14} \in {4 .. 4 + n : n \in 0 .. 7} ->
         <<160 + Cardinality(i.set \ {14}) - 1 + (IF 14 \in i.set THEN 8 ELSE 0)>>
    [] i.op = "push" -> MaskBytes(i.set)
    [] i.op = "sub" /\ i.n <= 64 -> <<i.n - 1>>
    [] i.op = "sub" -> <<178, i.n - 129>>
    [] i.op = "vpush" -> <<208 + i.n - 1>>
    [] i.op = "fp" -> <<151>>
    [] OTHER -> <<>>

ExidxBytes(code) ==
  FoldLeft(LAMBDA acc, i : Unwinding(i) \o acc, <<>>, Prologue(code))
==============================================================================
