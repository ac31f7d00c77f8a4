------------------------------- MODULE DwarfExpr -------------------------------
(***************************************************************************)
(* tacd_dwarf_eval_expression: the stack machine of DWARF expressions.  An   *)
(* operation is a record, its place counts operations and not bytes; what    *)
(* lies before the first or inside another is out of the model ("outside").  *)
(* Undefined results are sets, so a program has a set of outcomes.           *)
(***************************************************************************)
EXTENDS Integers, Sequences

CONSTANTS
  MachineRegs,  \* the registers below TACD_REGS_MACHINE_NUM
  WordBits,     \* bits of uintptr_t
  WordBytes,    \* sizeof(uintptr_t)
  StackMax,     \* 64
  OpsMax        \* 1000

ASSUME ExprAssumption == StackMax \in Nat \ {0} /\ OpsMax \in Nat

Word == 0 .. 2^WordBits - 1
ToWord(n) == n % 2^WordBits
SignedWord(w) == IF w >= 2^(WordBits - 1) THEN w - 2^WordBits ELSE w
Flag(b) == IF b THEN 1 ELSE 0

\* tacd_dwarf_op_table: the legal operations and the stack elements they need.
ConstOps == {"addr", "const", "lit"}
Unary == {"neg", "not", "abs", "plus_uconst"}
Binary == {"and", "or", "xor", "plus", "minus", "mul", "div", "mod", "shl", "shr", "shra",
           "eq", "ne", "lt", "le", "gt", "ge"}
RequiredStackValues(op) ==
  CASE op \in ConstOps \cup {"pick", "skip", "breg", "nop"}                   -> 0
    [] op \in Unary \cup {"dup", "drop", "deref", "deref_size", "bra"}        -> 1
    [] op \in Binary \cup {"over", "swap"}                                    -> 2
    [] op = "rot"                                                             -> 3
LegalOps == ConstOps \cup Unary \cup Binary \cup
  {"pick", "skip", "breg", "nop", "dup", "drop", "deref", "deref_size", "bra", "over", "swap", "rot"}

\* A shift by the width or more is undefined: processors mask or drop.
ShiftCounts(n) == IF n < WordBits THEN {n} ELSE {WordBits, n % WordBits}

\* The quotient that does not fit wraps, as on ARM; on x86 it traps.
QuotientOf(a, b) ==
  LET q == (IF a < 0 THEN -a ELSE a) \div (IF b < 0 THEN -b ELSE b)
  IN  IF (a < 0) = (b < 0) THEN q ELSE -q

\* A logical operation, given by what it makes of two bits.
BitOp(bit_op, a, b) ==
  LET upto[k \in 0 .. WordBits] ==
        IF k = 0 THEN 0
        ELSE upto[k - 1] + 2^(k - 1) * bit_op[(a \div 2^(k - 1)) % 2, (b \div 2^(k - 1)) % 2]
  IN  upto[WordBits]

\* Results of a binary operation on the second and the top element; none when
\* dividing by zero.
BinaryResults(op, v2, v1) ==
  LET s2 == SignedWord(v2)
      s1 == SignedWord(v1)
  IN CASE op = "and"   -> {BitOp([x, y \in 0 .. 1 |-> x * y], v2, v1)}
       [] op = "or"    -> {BitOp([x, y \in 0 .. 1 |-> x + y - x * y], v2, v1)}
       [] op = "xor"   -> {BitOp([x, y \in 0 .. 1 |-> (x + y) % 2], v2, v1)}
       [] op = "plus"  -> {ToWord(v2 + v1)}
       [] op = "minus" -> {ToWord(v2 - v1)}
       [] op = "mul"   -> {ToWord(v2 * v1)}
       [] op = "div"   -> IF v1 = 0 THEN {} ELSE {ToWord(QuotientOf(s2, s1))}
       [] op = "mod"   -> IF v1 = 0 THEN {} ELSE {v2 % v1}
       [] op = "shl"   -> {ToWord(v2 * 2^n) : n \in ShiftCounts(v1)}
       [] op = "shr"   -> {v2 \div 2^n : n \in ShiftCounts(v1)}
       [] op = "shra"  -> {ToWord(s2 \div 2^n) : n \in ShiftCounts(v1)}
       [] op = "eq"    -> {Flag(s1 = s2)}
       [] op = "ne"    -> {Flag(s1 # s2)}
       [] op = "lt"    -> {Flag(s2 < s1)}
       [] op = "le"    -> {Flag(s2 <= s1)}
       [] op = "gt"    -> {Flag(s2 > s1)}
       [] op = "ge"    -> {Flag(s2 >= s1)}

UnaryResult(i, v) ==
  CASE i.op = "neg"         -> ToWord(-v)
    [] i.op = "not"         -> ToWord(-v - 1)
    [] i.op = "abs"         -> IF SignedWord(v) < 0 THEN ToWord(-v) ELSE v
    [] i.op = "plus_uconst" -> ToWord(v + i.arg)

-----------------------------------------------------------------------------

\* at: the next operation; count: operations so far; out: "run", the error of
\* a return, or "ok".
EvalInit == [at |-> 1, stack |-> <<>>, count |-> 0, out |-> "run", value |-> 0]

FailEval(s, e) == [s EXCEPT !.out = e]

\* Mutant: no look at the end of the stack.
PushUnchecked(s, below, v) == [s EXCEPT !.stack = Append(below, v)]

\* push, with what is left of the stack below.
Push(s, below, v) ==
  IF Len(below) >= StackMax THEN FailEval(s, "no space")
  ELSE [s EXCEPT !.stack = Append(below, v)]

\* One operation whose stack elements are there.
Operate(s, i, regs, mem) ==
  LET n == Len(s.stack)
      v(k) == s.stack[n + 1 - k]
      Below(k) == SubSeq(s.stack, 1, n - k)
  IN CASE i.op \in ConstOps -> {Push(s, s.stack, ToWord(i.arg))}
       [] i.op = "nop"      -> {s}
       [] i.op \in Unary    -> {Push(s, Below(1), UnaryResult(i, v(1)))}
       [] i.op \in Binary   ->
            LET results == BinaryResults(i.op, v(2), v(1))
            IN  IF results = {} THEN {FailEval(s, "format")}
                ELSE {Push(s, Below(2), w) : w \in results}
       [] i.op = "dup"      -> {Push(s, s.stack, v(1))}
       [] i.op = "drop"     -> {[s EXCEPT !.stack = Below(1)]}
       [] i.op = "over"     -> {Push(s, s.stack, v(2))}
       [] i.op = "pick"     -> {IF i.arg >= n THEN FailEval(s, "format")
                                ELSE Push(s, s.stack, v(i.arg + 1))}
       [] i.op = "swap"     -> {[s EXCEPT !.stack = Below(2) \o <<v(1), v(2)>>]}
       [] i.op = "rot"      -> {[s EXCEPT !.stack = Below(3) \o <<v(1), v(3), v(2)>>]}
       [] i.op = "deref"    -> {IF v(1) \notin DOMAIN mem THEN FailEval(s, "missing")
                                ELSE Push(s, Below(1), mem[v(1)])}
       \* Only the low bytes of vup1 are written.
       [] i.op = "deref_size" ->
            IF i.arg \notin 1 .. WordBytes THEN {FailEval(s, "format")}
            ELSE IF v(1) \notin DOMAIN mem THEN {FailEval(s, "missing")}
            ELSE LET low == 2^((WordBits \div WordBytes) * i.arg)
                 IN  {Push(s, Below(1), w) : w \in {x \in Word : x % low = mem[v(1)] % low}}
       [] i.op = "breg"     -> {IF i.reg \notin MachineRegs THEN FailEval(s, "format")
                                ELSE Push(s, s.stack, ToWord(regs[i.reg] + i.arg))}
       [] i.op = "skip"     -> {[s EXCEPT !.at = @ + i.arg]}
       \* A branch that is not taken goes back by its operand.
       [] i.op = "bra"      -> {[s EXCEPT !.stack = Below(1),
                                          !.at = IF v(1) # 0 THEN @ + i.arg ELSE @ - i.arg]}

\* One turn of the loop.
EvalTurn(prog, regs, mem, s) ==
  IF s.out # "run" THEN {s}
  ELSE IF s.at > Len(prog)
       THEN {IF s.stack = <<>> THEN FailEval(s, "format")
             ELSE [s EXCEPT !.out = "ok", !.value = s.stack[Len(s.stack)]]}
  ELSE IF s.count > OpsMax THEN {FailEval(s, "range")}
  ELSE IF s.at < 1 THEN {FailEval(s, "outside")}
  ELSE IF prog[s.at].op \notin LegalOps THEN {FailEval(s, "illegal")}
  ELSE IF RequiredStackValues(prog[s.at].op) > Len(s.stack) THEN {FailEval(s, "missing")}
  ELSE Operate([s EXCEPT !.count = @ + 1, !.at = @ + 1], prog[s.at], regs, mem)

\* Every way the evaluation can end: OpsMax + 1 operations and the end.
EvalExpression(prog, regs, mem) ==
  LET after[n \in 0 .. OpsMax + 2] ==
        IF n = 0 THEN {EvalInit}
        ELSE UNION {EvalTurn(prog, regs, mem, s) : s \in after[n - 1]}
  IN  after[OpsMax + 2]
==============================================================================
