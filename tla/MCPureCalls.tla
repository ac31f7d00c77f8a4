------------------------------ MODULE MCPureCalls ------------------------------
(* Arguments at which the code branches: buffers that end anywhere in a text, *)
(* days around leap days and the turn of the year, reads over pages of which  *)
(* some are missing, all expressions of four operations of eight.             *)
EXTENDS PureCalls

Text(n) == [k \in 1 .. n |-> 100 + k]
Fld(c, a, w, z, l) == [conv |-> c, arg |-> a, width |-> w, zero |-> z, left |-> l]
Items ==
  {[conv |-> "text", arg |-> Text(3)], [conv |-> "unsupported"],
   Fld("s", Text(5), 0, FALSE, FALSE), Fld("s", Text(2), 12, FALSE, TRUE),
   Fld("d", 0, 2, TRUE, FALSE), Fld("d", -205, 6, FALSE, FALSE), Fld("u", 1024, 0, FALSE, FALSE),
   Fld("x", 65243, 16, TRUE, FALSE), Fld("x", 16777215, 0, FALSE, FALSE),
   Fld("o", 420, 0, FALSE, FALSE), Fld("p", 4096, 0, FALSE, FALSE), Fld("%", 0, 0, FALSE, FALSE)}

FormatCalls ==
  [kind : {"format"}, avail : {0, 1, 2, 6, 9, 10, 16, 17, 30, 60},
   format : UNION {[1 .. n -> Items] : n \in 1 .. 2}]

\* About the beginning and the end of years and of February, in zones up to
\* the ends of the earth, and the unset clock of a device in 1970.
Days == UNION {{YearStart(y) + d : d \in {0, 1, 57, 58, 59, 60, 181, 364, 365}} :
                 y \in {1970, 1971, 1972, 1999, 2000, 2001, 2022, 2023, 2024, 2036, 2037}}
TimeCalls ==
  [kind : {"time"}, time : {SecsPerDay * d + s : d \in Days, s \in {0, 3599, 45296, 86399}},
   gmtoff : {-43200, -12600, -1, 0, 3600, 19800, 50400}]

\* On arm the head may end anywhere; on arm64 its registers alone take 754.
Header(registers) ==
  IF registers = 237 THEN {EmergencyLen - 337 - k : k \in {-20, 200} \cup -2 .. 45} ELSE {383, 446}
EmergencyCalls ==
  UNION {[kind : {"emergency"}, header : Header(r), thread : {40}, signal : {60}, registers : {r},
          system : {<<>>, <<60, 60>>, <<23, 30, 23>>},
          clang : UNION {[1 .. n -> {23, 28, 29, 30, 60}] : n \in 1 .. 2} \cup {[k \in 1 .. 70 |-> 60]}] :
           r \in {237, 754}}

ReadCalls ==
  [kind : {"read"}, reader : Readers, readable : {0 .. 11, (0 .. 11) \ {5}, {1, 3}}, addr : 0 .. 20, len : 1 .. 24]

Ops == {[op |-> "lit", arg |-> 1], [op |-> "dup"], [op |-> "bra", arg |-> -2], [op |-> "skip", arg |-> -3],
        [op |-> "plus"], [op |-> "rot"], [op |-> "pick", arg |-> 1], [op |-> "deref"]}
ExprCalls ==
  {[kind |-> "expr", prog |-> p, regs |-> [r \in MachineRegs |-> 100 + r], mem |-> [a \in {} |-> 0]] :
     p \in [1 .. 4 -> Ops]}

MCCalls == FormatCalls \cup TimeCalls \cup EmergencyCalls \cup ReadCalls \cup ExprCalls
==============================================================================
