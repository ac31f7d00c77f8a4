------------------------------- MODULE PureCalls -------------------------------
(***************************************************************************)
(* The parts of the native code that keep nothing between two calls: texts   *)
(* and times without the C library, the lengths in the emergency buffer,     *)
(* reading memory of the process and DWARF expressions.  A behaviour is one  *)
(* call, from its arguments to its result.                                   *)
(***************************************************************************)
EXTENDS SafeText, Emergency, PtraceRead, DwarfExpr, FiniteSets

CONSTANT Calls   \* the calls that are made: records of arguments

\* tac_fallback_get_emergency reports at least the frame of the crash when the
\* system's unwinder gives nothing.
EmergencyCall ==
  [kind : {"emergency"}, header : Nat, thread : Nat, signal : Nat, registers : Nat,
   system : Seq(Nat), clang : Seq(Nat) \ {<<>>}]

\* The dumper reads something, by way of either reader or the first time.
Readers == {"none", "process_vm_readv", "ptrace"}
ReadCall ==
  [kind : {"read"}, reader : Readers, readable : SUBSET Nat, addr : Nat, len : Nat \ {0}]

\* A thousand years around the epoch.
YearsMax == 1000
TimeCall(c) ==
  /\ c.time \in Int /\ c.gmtoff \in Int
  /\ -SecsPerDay <= c.gmtoff /\ c.gmtoff <= SecsPerDay
  /\ -365 * YearsMax <= CDiv(c.time, SecsPerDay) /\ CDiv(c.time, SecsPerDay) <= 365 * YearsMax

\* A number that the buffer holds in octal, behind the two characters of %p:
\* 29 digits, where 64 bits need 22.
FitsBuffer(n) ==
  LET rest[k \in 0 .. NumberBuffer - 3] == IF k = 0 THEN n ELSE rest[k - 1] \div 8
  IN  rest[NumberBuffer - 3] = 0
Item(i) ==
  \/ i.conv = "unsupported"
  \/ i.conv = "text" /\ i.arg \in Seq(Nat)
  \/ /\ i.width \in Int /\ i.zero \in BOOLEAN /\ i.left \in BOOLEAN
     /\ \/ i.conv = "%"
        \/ i.conv \in {"s", "c"} /\ i.arg \in Seq(Nat)
        \/ i.conv \in {"u", "x", "p"} /\ i.arg \in Nat /\ FitsBuffer(i.arg)
        \/ i.conv \in {"d", "o"} /\ i.arg \in Int /\ FitsBuffer(IF i.arg < 0 THEN -i.arg ELSE i.arg)
FormatCall(c) ==
  /\ c.avail \in Nat
  /\ Len(c.format) \in Nat /\ DOMAIN c.format = 1 .. Len(c.format)
  /\ \A k \in DOMAIN c.format : Item(c.format[k])

ASSUME CallAssumption ==
  \A c \in Calls :
    \/ c.kind = "emergency" /\ c \in EmergencyCall
    \/ c.kind = "read" /\ c \in ReadCall
    \/ c.kind = "time" /\ TimeCall(c)
    \/ c.kind = "format" /\ FormatCall(c)
    \/ c.kind = "expr"

VARIABLE call   \* the arguments, and the result once it is there

\* The results that a call can have: more than one where the code's behaviour
\* is undefined.
Results(c) ==
  CASE c.kind = "format"    -> {Vsnprintf(c.avail, c.format)}
    [] c.kind = "time"      -> {LocalTime(c.time, c.gmtoff)}
    [] c.kind = "emergency" -> {GetEmergency(c.header, c.thread, c.signal, c.registers, c.system, c.clang)}
    [] c.kind = "read"      -> {PtraceRead(c.reader, c.readable, c.addr, c.len)}
    [] c.kind = "expr"      -> EvalExpression(c.prog, c.regs, c.mem)

CallInit == \E c \in Calls : call = [of |-> c, done |-> FALSE]
CallReturns ==
  /\ ~call.done
  /\ \E r \in Results(call.of) : call' = [of |-> call.of, done |-> TRUE, result |-> r]
CallOver == call.done /\ UNCHANGED call
CallNext == CallReturns \/ CallOver
CallSpec == CallInit /\ [][CallNext]_call

Returned(kind) == call.done /\ call.of.kind = kind

-----------------------------------------------------------------------------
(* Texts.                                                                    *)

\* The numeral of a number in a base.
Numeral(n, base) ==
  LET digits[m \in 0 .. n] ==
        IF m < base THEN <<m>> ELSE Append(digits[m \div base], m % base)
  IN  digits[n]
Number(i, base) == IF i.arg < 0 THEN <<Minus>> \o Numeral(-i.arg, base) ELSE Numeral(i.arg, base)
Body(i) ==
  CASE i.conv \in {"text", "s", "c"} -> i.arg
    [] i.conv \in {"d", "u"} -> Number(i, 10)
    [] i.conv = "x" -> Number(i, 16)
    [] i.conv = "o" -> Number(i, 8)
    [] i.conv = "p" -> <<0, LetterX>> \o Number(i, 16)
    [] i.conv = "%" -> <<Percent>>
FullItem(i) ==
  LET missing == IF i.conv = "text" THEN 0 ELSE i.width - Len(Body(i))
      pads == [k \in 1 .. missing |-> IF i.zero THEN 0 ELSE Blank]
  IN  IF missing <= 0 THEN Body(i) ELSE IF i.left THEN Body(i) \o pads ELSE pads \o Body(i)
FullText(format) ==
  LET text[k \in 0 .. Used(format)] == IF k = 0 THEN <<>> ELSE text[k - 1] \o FullItem(format[k])
  IN  text[Used(format)]

\* tacc_fmt_snprintf: whatever the size of the buffer, it holds the beginning
\* of the text and its NUL, and the length returned is that of the whole.
FormatFits ==
  Returned("format") =>
    LET full == FullText(call.of.format)
        room == IF call.of.avail = 0 THEN 0 ELSE call.of.avail - 1
    IN  /\ call.result.total = Len(full)
        /\ call.result.out = SubSeq(full, 1, IF room < Len(full) THEN room ELSE Len(full))

-----------------------------------------------------------------------------
(* Times.                                                                    *)

\* The calendar: days from the epoch to a year, and from there to a month.
LeapYears(from, to) == {y \in from .. to : IsLeap(y)}
YearStart(y) ==
  IF y >= 1970 THEN 365 * (y - 1970) + Cardinality(LeapYears(1970, y - 1))
  ELSE -(365 * (1970 - y) + Cardinality(LeapYears(y, 1969)))
MonthLength(y) == <<31, IF IsLeap(y) THEN 29 ELSE 28, 31, 30, 31, 30, 31, 31, 30, 31, 30, 31>>
MonthStart(y, month) ==
  LET upto[k \in 0 .. 11] == IF k = 0 THEN 0 ELSE upto[k - 1] + MonthLength(y)[k]
  IN  upto[month]

\* tacc_libc_support_localtime_r: the date is one of the calendar and its
\* seconds since 1970 are those of the argument, also before local 1970, around
\* leap days and where the zone moves it into another year.
LocalTimeRight ==
  Returned("time") =>
    LET t == call.result
        yday == MonthStart(t.year, t.mon) + t.mday - 1
        day == YearStart(t.year) + yday
    IN  /\ t.mon \in 0 .. 11 /\ t.mday \in 1 .. MonthLength(t.year)[t.mon + 1] /\ t.yday = yday
        /\ t.hour \in 0 .. 23 /\ t.min \in 0 .. 59 /\ t.sec \in 0 .. 59
        /\ t.wday = (4 + day) % 7
        /\ (day - (call.of.time \div SecsPerDay)) * SecsPerDay + t.hour * 3600 + t.min * 60 + t.sec
             = (call.of.time % SecsPerDay) + call.of.gmtoff

-----------------------------------------------------------------------------
(* The emergency buffer.                                                     *)

HeadLen == call.of.header + call.of.thread + call.of.signal + call.of.registers

\* tac_fallback_get_backtrace and the unwinders: where the head has left room
\* for the title of the backtrace, no number of frames of whatever length is
\* written past the buffer, and the NUL that ends the report is in it.
BacktraceStaysInside ==
  Returned("emergency") /\ HeadLen + TitleLen <= EmergencyLen =>
    call.result.top <= EmergencyLen /\ call.result.place < EmergencyLen

\* tacc_unwind_clang.c, "check remaining space length in the buffer": the same
\* of every report.
EmergencyInside == Returned("emergency") => call.result.top <= EmergencyLen

-----------------------------------------------------------------------------
(* Memory of the process, and expressions.                                   *)

\* A read that claims its whole length has every byte in its place, and one
\* whose pages can be read gets all of it unless it ends within the last pages
\* of the address space.
ReadExact ==
  Returned("read") =>
    LET c == call.of
        whole == {c.addr + k : k \in 0 .. c.len - 1}
    IN  /\ Len(call.result.buf) <= c.len
        /\ Len(call.result.buf) = c.len => call.result.buf = [k \in 1 .. c.len |-> c.addr + k - 1]
        /\ (/\ \A a \in whole : a \div PageSize \in c.readable
            /\ c.addr + c.len + PageSize * IovecsMax < AddressEnd) => Len(call.result.buf) = c.len

\* No program makes the evaluation run on, read below its stack or write
\* past it.
ExpressionEnds ==
  Returned("expr") => call.result.out # "run" /\ Len(call.result.stack) <= StackMax
==============================================================================
