------------------------------- MODULE SafeText -------------------------------
(***************************************************************************)
(* The async-signal-safe stand-ins for snprintf and localtime_r: tacc_fmt    *)
(* and tacc_libc_support.  A character is a number: a digit is itself, then  *)
(* the few others that numbers need, and literal text is what it is given.   *)
(***************************************************************************)
EXTENDS Integers, Sequences

CONSTANT NumberBuffer   \* sizeof(buffer) of tacc_fmt_stream_vformat

ASSUME NumberAssumption == NumberBuffer \in Nat /\ NumberBuffer >= 4

Minus == 16
Blank == 17
Percent == 18
LetterX == 19
PadSize == 8

-----------------------------------------------------------------------------
(* tacc_fmt_stream_t.                                                        *)

StreamInit(avail) == [out |-> <<>>, total |-> 0, avail |-> avail]

\* Mutant: a full stream no longer counts.
SendUncounted(s, text) ==
  IF s.avail <= 1 THEN s
  ELSE LET n == IF Len(text) >= s.avail THEN s.avail - 1 ELSE Len(text)
       IN  [out |-> s.out \o SubSeq(text, 1, n), total |-> s.total + Len(text), avail |-> s.avail - n]

\* What does not fit is counted and dropped; the last byte is for the NUL.
Send(s, text) ==
  LET room == IF s.avail <= 1 THEN 0 ELSE s.avail - 1
      n == IF Len(text) < room THEN Len(text) ELSE room
  IN  [out |-> s.out \o SubSeq(text, 1, n), total |-> s.total + Len(text), avail |-> s.avail - n]

\* Padding goes out in pieces of eight.
SendRepeat(s, ch, count) ==
  LET pieces == (count + (PadSize - 1)) \div PadSize
      Piece(k) == IF count - PadSize * (k - 1) < PadSize THEN count - PadSize * (k - 1) ELSE PadSize
      sent[k \in 0 .. pieces] ==
        IF k = 0 THEN s ELSE Send(sent[k - 1], [i \in 1 .. Piece(k) |-> ch])
  IN  sent[pieces]

\* tacc_fmt_format_unsigned: the digits come out last first, and when the
\* buffer is full the first ones are the ones that are missing.
NextDigit(t, base) ==
  IF t.value = 0 THEN t
  ELSE [value |-> t.value \div base, text |-> <<t.value % base>> \o t.text]
FormatUnsigned(room, value, base) ==
  LET turn[k \in 0 .. room - 1] ==
        IF k = 0 THEN [value |-> value, text |-> <<>>] ELSE NextDigit(turn[k - 1], base)
  IN  IF value = 0 THEN <<0>> ELSE turn[room - 1].text

\* tacc_fmt_format_integer for a value that is read with its sign.
FormatInteger(room, conv, value) ==
  LET base == CASE conv = "x" -> 16 [] conv = "o" -> 8 [] conv \in {"d", "u"} -> 10
  IN  IF value < 0 THEN <<Minus>> \o FormatUnsigned(room - 1, -value, base)
      ELSE FormatUnsigned(room, value, base)

\* The text of one conversion.
Converted(i) ==
  CASE i.conv \in {"s", "c"}           -> i.arg
    [] i.conv = "p"                    -> <<0, LetterX>> \o FormatInteger(NumberBuffer - 2, "x", i.arg)
    [] i.conv = "%"                    -> <<Percent>>
    [] i.conv \in {"d", "o", "u", "x"} -> FormatInteger(NumberBuffer, i.conv, i.arg)

\* "unsupported" stands for a sign, a precision or a conversion that the
\* formatter does not know: it stops there.
Unsupported(i) == i.conv = "unsupported"

\* Zeros go before the sign and, with `left`, behind the number.
Field(s, i) ==
  LET text == Converted(i)
      pad == IF i.zero THEN 0 ELSE Blank
      missing == i.width - Len(text)
  IN  IF missing <= 0 THEN Send(s, text)
      ELSE IF i.left THEN SendRepeat(Send(s, text), pad, missing)
      ELSE Send(SendRepeat(s, pad, missing), text)

\* The items that are worked off.
Used(format) ==
  LET stops == {k \in DOMAIN format : Unsupported(format[k])}
  IN  IF stops = {} THEN Len(format) ELSE (CHOOSE k \in stops : \A m \in stops : k <= m) - 1

\* tacc_fmt_vsnprintf of a format: literal texts and conversions.
Vsnprintf(avail, format) ==
  LET sent[k \in 0 .. Used(format)] ==
        IF k = 0 THEN StreamInit(avail)
        ELSE IF format[k].conv = "text" THEN Send(sent[k - 1], format[k].arg)
        ELSE Field(sent[k - 1], format[k])
  IN  sent[Used(format)]

-----------------------------------------------------------------------------
(* tacc_libc_support_localtime_r.                                            *)

SecsPerDay == 86400

\* C's division and remainder.
CDiv(a, b) == IF a >= 0 THEN a \div b ELSE -((-a) \div b)
CMod(a, b) == a - b * CDiv(a, b)
Div(a, b) == CDiv(a, b) - (IF CMod(a, b) < 0 THEN 1 ELSE 0)

IsLeap(y) == y % 4 = 0 /\ (y % 100 # 0 \/ y % 400 = 0)
LeapsThruEndOf(y) == Div(y, 4) - Div(y, 100) + Div(y, 400)
MonYday(leap) ==
  IF leap THEN <<0, 31, 60, 91, 121, 152, 182, 213, 244, 274, 305, 335, 366>>
  ELSE <<0, 31, 59, 90, 120, 151, 181, 212, 243, 273, 304, 334, 365>>

\* Mutant: the leap day of the guessed year is counted too.
GuessYearThrough(g) ==
  LET yg == g.y + CDiv(g.days, 365) - (IF CMod(g.days, 365) < 0 THEN 1 ELSE 0)
  IN  [y |-> yg, days |-> g.days - ((yg - g.y) * 365 + LeapsThruEndOf(yg) - LeapsThruEndOf(g.y - 1))]

\* One turn of the loop over the year.
GuessYear(g) ==
  LET yg == g.y + CDiv(g.days, 365) - (IF CMod(g.days, 365) < 0 THEN 1 ELSE 0)
  IN  [y |-> yg, days |-> g.days - ((yg - g.y) * 365 + LeapsThruEndOf(yg - 1) - LeapsThruEndOf(g.y - 1))]

YearFound(g) == g.days >= 0 /\ g.days < (IF IsLeap(g.y) THEN 366 ELSE 365)

\* The loop ends within GuessesMax turns for every time of this epoch.
GuessesMax == 4
YearOf(days) ==
  LET guess[n \in 0 .. GuessesMax] ==
        IF n = 0 THEN [y |-> 1970, days |-> days]
        ELSE IF YearFound(guess[n - 1]) THEN guess[n - 1] ELSE GuessYear(guess[n - 1])
  IN  guess[GuessesMax]

LocalTime(time, gmtoff) ==
  LET rem == CMod(time, SecsPerDay) + gmtoff
      days == CDiv(time, SecsPerDay) + rem \div SecsPerDay
      sec == rem % SecsPerDay
      year == YearOf(days)
      starts == MonYday(IsLeap(year.y))
      mon == CHOOSE k \in 0 .. 11 : starts[k + 1] <= year.days /\ year.days < starts[k + 2]
  IN  [year |-> year.y, mon |-> mon, mday |-> year.days - starts[mon + 1] + 1, yday |-> year.days,
       wday |-> (4 + days) % 7,
       hour |-> sec \div 3600, min |-> (sec % 3600) \div 60, sec |-> sec % 60]
==============================================================================
