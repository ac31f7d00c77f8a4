------------------------------- MODULE ArmExidx -------------------------------
(***************************************************************************)
(* tacd_arm_exidx.c: the unwind instructions of an entry of .ARM.exidx, and  *)
(* what they do to the registers.  Instructions are bytes; a register is     *)
(* 0 .. 15, an address a multiple of four below 2^31.                        *)
(***************************************************************************)
EXTENDS Integers, Sequences, SequencesExt

FinishOp == 176   \* 0xb0
EntryMax == 32
SP == 13
LR == 14
PC == 15

Bit(byte, n) == (byte \div 2^n) % 2 = 1
Low(byte, n) == byte % 2^n

-----------------------------------------------------------------------------
(* tacd_arm_exidx_get_entry.  An entry is [kind, index, words, bytes]: it    *)
(* refuses, holds three bytes itself ("inline"), or points to a table that   *)
(* is compact or has a personality routine of its own ("generic"); words is  *)
(* the count the table gives.                                                *)

\* The bytes that the words of the model hold.
FirstBytes(e) == IF e.kind = "compact" /\ e.index \in {1, 2} THEN 2 ELSE 3

WordsOf(e) == IF e.kind = "inline" \/ (e.kind = "compact" /\ e.index = 0) THEN 0 ELSE e.words

WellFormed(e) ==
  /\ e.kind = "inline" => e.index = 0
  /\ e.kind = "compact" => e.index \in 0 .. 2
  /\ WordsOf(e) <= 5

\* The instructions, ended in any case.
Instructions(e) ==
  LET bytes == SubSeq(e.bytes, 1, FirstBytes(e) + 4 * WordsOf(e))
  IN  IF bytes[Len(bytes)] = FinishOp THEN bytes ELSE Append(bytes, FinishOp)

-----------------------------------------------------------------------------
(* Decoding.  out: "go", or the return value that ends the loop.             *)

DecodeInit(bytes, regs) ==
  [rest |-> bytes, regs |-> regs, vsp |-> regs[SP], pcSet |-> FALSE, out |-> "go"]

StopDecode(s, why) == [s EXCEPT !.out = why]

\* Pop one register: what was popped before an unreadable word stays.
PopRegister(mem, s, r) ==
  IF s.out # "go" THEN s
  ELSE IF s.vsp \notin DOMAIN mem THEN StopDecode(s, "mem")
  ELSE [s EXCEPT !.regs[r] = mem[s.vsp], !.vsp = @ + 4]

PopRegisters(mem, s, set) ==
  FoldLeft(LAMBDA acc, r : PopRegister(mem, acc, r), s, SetToSortSeq(set, <))

\* An instruction of two bytes; Do gets the second.
WithByte(s, Do(_, _)) ==
  IF s.rest = <<>> THEN StopDecode(s, "not found")
  ELSE Do([s EXCEPT !.rest = Tail(@)], Head(s.rest))

AddVsp(s, n) == [s EXCEPT !.vsp = @ + n]

\* 1000iiii iiiiiiii.  Registers pop in ascending order; a popped sp is the
\* new vsp.
PopMask(mem, s, high, low) ==
  LET mask == Low(high, 4) * 256 + low
      set == {r \in 4 .. 15 : Bit(mask, r - 4)}
      popped == PopRegisters(mem, s, set)
  IN  IF mask = 0 THEN StopDecode(s, "refuse")
      ELSE IF popped.out # "go" THEN popped
      ELSE [popped EXCEPT !.vsp = IF SP \in set THEN popped.regs[SP] ELSE @,
                          !.pcSet = @ \/ PC \in set]

\* 1001nnnn.
SetVsp(s, byte) ==
  IF Low(byte, 4) \in {SP, PC} THEN StopDecode(s, "format")
  ELSE [s EXCEPT !.vsp = s.regs[Low(byte, 4)]]

\* 1010lnnn.
PopRange(mem, s, byte) ==
  PopRegisters(mem, s, 4 .. 4 + Low(byte, 3) \cup (IF Bit(byte, 3) THEN {LR} ELSE {}))

\* 10110001 0000iiii.
PopScratch(mem, s, byte) ==
  IF byte \notin 1 .. 15 THEN StopDecode(s, "format")
  ELSE PopRegisters(mem, s, {r \in 0 .. 3 : Bit(byte, r)})

\* 10110010 uleb128.
Uleb(bytes) ==
  LET last == CHOOSE n \in 0 .. Len(bytes) :
                /\ \A k \in 1 .. n - 1 : bytes[k] >= 128
                /\ n = 0 => \A k \in 1 .. Len(bytes) : bytes[k] >= 128
                /\ n > 0 => bytes[n] < 128
  IN  [length |-> last,
       value |-> FoldLeft(LAMBDA acc, k : acc + Low(bytes[k], 7) * 2^(7 * (k - 1)), 0,
                          [k \in 1 .. last |-> k])]
AddUleb(s) ==
  LET u == Uleb(s.rest)
  IN  IF u.length = 0 THEN StopDecode([s EXCEPT !.rest = <<>>], "not found")
      ELSE [s EXCEPT !.rest = SubSeq(@, u.length + 1, Len(@)), !.vsp = @ + 516 + 4 * u.value]

\* The bit count of a byte that is not zero and uses the low four bits only.
PopCgr(s, byte) ==
  IF byte \notin 1 .. 15 THEN StopDecode(s, "format")
  ELSE AddVsp(s, 4 * Cardinality({k \in 0 .. 3 : Bit(byte, k)}))

\* 10xxxxxx.
Decode10(mem, s, byte) ==
  CASE Low(byte, 6) \div 16 = 0 -> WithByte(s, LAMBDA t, low : PopMask(mem, t, byte, low))
    [] Low(byte, 6) \div 16 = 1 -> SetVsp(s, byte)
    [] Low(byte, 6) \div 16 = 2 -> PopRange(mem, s, byte)
    [] byte = FinishOp          -> StopDecode(s, "finish")
    [] byte = 177               -> WithByte(s, LAMBDA t, low : PopScratch(mem, t, low))
    [] byte = 178               -> AddUleb(s)
    [] byte = 179               -> WithByte(s, LAMBDA t, low : AddVsp(t, (Low(low, 4) + 1) * 8 + 4))
    [] byte \in 184 .. 191      -> AddVsp(s, (Low(byte, 3) + 1) * 8 + 4)
    [] OTHER                    -> StopDecode(s, "format")

\* 11xxxxxx.
Decode11(s, byte) ==
  CASE byte \in {198, 200, 201}            -> WithByte(s, LAMBDA t, low : AddVsp(t, (Low(low, 4) + 1) * 8))
    [] byte = 199                          -> WithByte(s, PopCgr)
    [] byte \in 192 .. 197 \cup 208 .. 215 -> AddVsp(s, (Low(byte, 3) + 1) * 8)
    [] OTHER                               -> StopDecode(s, "format")

DecodeEntry(mem, s) ==
  WithByte(s, LAMBDA t, byte :
    CASE byte \div 64 = 0 -> AddVsp(t, Low(byte, 6) * 4 + 4)
      [] byte \div 64 = 1 -> AddVsp(t, -(Low(byte, 6) * 4 + 4))
      [] byte \div 64 = 2 -> Decode10(mem, t, byte)
      [] byte \div 64 = 3 -> Decode11(t, byte))

\* The loop ends with the bytes at the latest.
DecodeAll(mem, bytes, regs) ==
  LET after[n \in 0 .. EntryMax + 1] ==
        IF n = 0 THEN DecodeInit(bytes, regs)
        ELSE LET s == after[n - 1] IN IF s.out = "go" THEN DecodeEntry(mem, s) ELSE s
  IN  after[EntryMax + 1]

\* tacd_arm_exidx_step with the entry of the pc.  A link register that equals
\* the pc is no caller: tacd_regs_set_pc_from_lr fails and the pc stays.
ExidxUnwind(e, regs, mem) ==
  LET s == DecodeAll(mem, Instructions(e), regs)
      pc == IF s.pcSet THEN s.regs[PC] ELSE s.regs[LR]
  IN  CASE e.kind = "cantunwind" -> [out |-> "ok", regs |-> regs, finished |-> TRUE]
        [] e.kind # "cantunwind" /\ ~WellFormed(e) -> [out |-> "format", regs |-> regs, finished |-> FALSE]
        [] e.kind # "cantunwind" /\ WellFormed(e) ->
             CASE s.out = "refuse" -> [out |-> "ok", regs |-> s.regs, finished |-> TRUE]
               [] s.out = "finish" -> [out |-> "ok", finished |-> pc = 0,
                                       regs |-> [s.regs EXCEPT ![PC] = pc, ![SP] = s.vsp]]
               [] OTHER            -> [out |-> "unknown", regs |-> s.regs, finished |-> FALSE]
==============================================================================
