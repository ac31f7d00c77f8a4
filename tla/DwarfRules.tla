------------------------------ MODULE DwarfRules ------------------------------
(***************************************************************************)
(* tacd_dwarf_get_loc and tacd_dwarf_eval: the row of register rules that    *)
(* the call frame instructions of a CIE and an FDE give a pc, and the        *)
(* registers of the caller from it.  An instruction is a record; an          *)
(* expression is the program it holds.                                       *)
(***************************************************************************)
EXTENDS DwarfExpr, SequencesExt

CONSTANTS
  SpReg,      \* TACD_REGS_SP
  PcReg,      \* TACD_REGS_PC
  RuleRegs,   \* the registers below TACD_DWARF_REG_NUM that instructions name
  RegOrder    \* the machine registers in the order of their numbers

\* A rule keeps the operands of an earlier one that it does not set; the
\* second operand of an expression is the offset of its end.
NoRule == [type |-> "invalid", a |-> 0, b |-> 0]
NoRow == [cfa |-> NoRule, regs |-> [r \in RuleRegs |-> NoRule]]

\* The location after an instruction that sets the rule of one register:
\* the type and, if there is one, the first operand.
RegisterOps == {"offset", "offset_extended", "offset_extended_sf", "negative_offset_extended",
                "val_offset", "register", "undefined", "same_value",
                "expression", "val_expression"}
RegisterRule(cie, old, i) ==
  LET Factored == ToWord(i.arg * cie.data)
  IN CASE i.op \in {"offset", "offset_extended_sf"} -> [old EXCEPT !.type = "offset", !.a = Factored]
       [] i.op = "offset_extended"          -> [old EXCEPT !.type = "offset", !.a = ToWord(i.arg)]
       [] i.op = "negative_offset_extended" -> [old EXCEPT !.type = "offset", !.a = ToWord(-i.arg)]
       [] i.op = "val_offset"               -> [old EXCEPT !.type = "val_offset", !.a = Factored]
       [] i.op = "register"                 -> [old EXCEPT !.type = "register", !.a = i.arg]
       [] i.op = "undefined"                -> [old EXCEPT !.type = "undefined"]
       [] i.op = "same_value"               -> [old EXCEPT !.type = "invalid"]
       [] i.op = "expression"               -> [type |-> "expression", a |-> i.arg, b |-> i.end]
       [] i.op = "val_expression"           -> [type |-> "val_expression", a |-> i.arg, b |-> i.end]

CfaOps == {"def_cfa", "def_cfa_sf", "def_cfa_register", "def_cfa_offset", "def_cfa_offset_sf",
           "def_cfa_expression"}
CfaRule(cie, old, i) ==
  CASE i.op = "def_cfa"            -> [type |-> "register", a |-> i.reg, b |-> ToWord(i.arg)]
    [] i.op = "def_cfa_sf"         -> [type |-> "register", a |-> i.reg, b |-> ToWord(i.arg * cie.data)]
    [] i.op = "def_cfa_register"   -> [old EXCEPT !.a = i.reg]
    [] i.op = "def_cfa_offset"     -> [old EXCEPT !.b = ToWord(i.arg)]
    [] i.op = "def_cfa_offset_sf"  -> [old EXCEPT !.b = ToWord(i.arg * cie.data)]
    [] i.op = "def_cfa_expression" -> [type |-> "val_expression", a |-> i.arg, b |-> i.end]

\* These change a rule and need one with a register.
NeedsRegisterRule(op) == op \in {"def_cfa_register", "def_cfa_offset", "def_cfa_offset_sf"}

-----------------------------------------------------------------------------

\* initial: the location that restore takes a rule from.  While the CIE runs
\* it is the location itself.
LocInit(fde) == [pc |-> fde.start, loc |-> NoRow, stack |-> <<>>, ok |-> TRUE]

Interpret(cie, initial, s, i) ==
  CASE i.op = "advance_loc" -> [s EXCEPT !.pc = @ + i.arg * cie.code]
    [] i.op = "set_loc"     -> [s EXCEPT !.pc = i.arg]
    [] i.op \in {"nop", "args_size"} -> s
    [] i.op \in RegisterOps ->
         IF i.reg \in RuleRegs
         THEN [s EXCEPT !.loc.regs[i.reg] = RegisterRule(cie, @, i)] ELSE [s EXCEPT !.ok = FALSE]
    [] i.op = "restore" ->
         IF i.reg \in RuleRegs
         THEN [s EXCEPT !.loc.regs[i.reg] = initial.regs[i.reg]] ELSE [s EXCEPT !.ok = FALSE]
    [] i.op = "remember_state" -> [s EXCEPT !.stack = <<s.loc>> \o @]
    [] i.op = "restore_state"  -> IF s.stack = <<>> THEN s
                                  ELSE [s EXCEPT !.loc = Head(s.stack), !.stack = Tail(@)]
    [] i.op \in CfaOps ->
         IF NeedsRegisterRule(i.op) /\ s.loc.cfa.type # "register" THEN [s EXCEPT !.ok = FALSE]
         ELSE [s EXCEPT !.loc.cfa = CfaRule(cie, @, i)]
    [] OTHER -> [s EXCEPT !.ok = FALSE]

\* No instruction counts once the location is past the pc.
InterpretUntil(cie, initial, pc, s, i) ==
  IF s.pc > pc \/ ~s.ok THEN s ELSE Interpret(cie, initial, s, i)

\* After the CIE the end of the FDE is not looked at before its first
\* instruction: a FDE without any runs the one that follows it.
FdeInstructions(fde) == IF fde.instrs = <<>> THEN <<fde.next>> ELSE fde.instrs

GetLoc(fde, pc) ==
  LET Cie(s, i) == InterpretUntil(fde.cie, s.loc, pc, s, i)
      init == FoldLeft(Cie, LocInit(fde), fde.cie.instrs)
      Fde(s, i) == InterpretUntil(fde.cie, init.loc, pc, s, i)
  IN  FoldLeft(Fde, init, FdeInstructions(fde))

-----------------------------------------------------------------------------

\* An expression that is evaluated for its value: errors are outcomes too.
Values(prog, regs, mem) == EvalExpression(prog, regs, mem)

CfaValues(row, regs, mem) ==
  CASE row.cfa.type = "register" ->
         IF row.cfa.a \in MachineRegs
         THEN {[out |-> "ok", value |-> ToWord(regs[row.cfa.a] + row.cfa.b)]} ELSE {[out |-> "range"]}
    [] row.cfa.type = "val_expression" -> Values(row.cfa.a, regs, mem)
    [] OTHER -> {[out |-> "illegal"]}

ReadWord(mem, a) ==
  IF a \in DOMAIN mem THEN {[out |-> "ok", value |-> mem[a]]} ELSE {[out |-> "missing"]}

\* What the rule of a register gives; the registers before the step count.
RegValues(rule, r, cfa, regs, mem) ==
  CASE rule.type = "offset"     -> ReadWord(mem, ToWord(cfa + rule.a))
    [] rule.type = "val_offset" -> {[out |-> "ok", value |-> ToWord(cfa + rule.a)]}
    [] rule.type = "register"   ->
         IF rule.a \in MachineRegs
         THEN {[out |-> "ok", value |-> ToWord(regs[rule.a] + rule.b)]} ELSE {[out |-> "range"]}
    [] rule.type = "val_expression" -> Values(rule.a, regs, mem)
    [] rule.type = "expression" ->
         UNION {IF v.out = "ok" THEN ReadWord(mem, v.value) ELSE {v} : v \in Values(rule.a, regs, mem)}
    [] OTHER -> {[out |-> "ok", value |-> regs[r]]}

\* Registers are written in their order; an error leaves those before it.
SetRegister(s, r, v) ==
  IF s.out # "ok" THEN s
  ELSE IF v.out # "ok" THEN [s EXCEPT !.out = v.out]
  ELSE [s EXCEPT !.regs[r] = v.value]

\* tacd_dwarf_eval.
Eval(fde, row, regs, mem) ==
  LET Registers(cfa) ==
        FoldLeft(LAMBDA acc, r : {SetRegister(s, r, v) :
                   s \in acc, v \in RegValues(row.regs[r], r, cfa, regs, mem)},
                 {[out |-> "ok", regs |-> regs]}, RegOrder)
      ra == fde.cie.ra
      Finish(cfa, s) ==
        LET pc == IF row.regs[ra].type = "undefined" THEN 0 ELSE s.regs[ra]
        IN  IF s.out # "ok" THEN [out |-> s.out, regs |-> s.regs, finished |-> FALSE]
            ELSE [out |-> "ok", regs |-> [s.regs EXCEPT ![PcReg] = pc, ![SpReg] = cfa],
                  finished |-> pc = 0]
  IN  UNION {IF c.out = "ok" THEN {Finish(c.value, s) : s \in Registers(c.value)}
             ELSE {[out |-> c.out, regs |-> regs, finished |-> FALSE]} :
             c \in CfaValues(row, regs, mem)}

\* tacd_dwarf_step with the FDE that covers the pc.
DwarfUnwind(fde, pc, regs, mem) ==
  LET s == GetLoc(fde, pc)
  IN  IF ~s.ok THEN {[out |-> "not found", regs |-> regs, finished |-> FALSE]}
      ELSE Eval(fde, s.loc, regs, mem)
==============================================================================
