------------------------------ MODULE PtraceRead ------------------------------
(***************************************************************************)
(* tacd_util_ptrace_read: how the dumper copies memory of the crashed        *)
(* process.  What a read gives is the sequence of source addresses whose     *)
(* bytes it has put into the buffer, so that a byte in a wrong place shows.  *)
(***************************************************************************)
EXTENDS Integers, Sequences

CONSTANTS
  PageSize,    \* _SC_PAGE_SIZE
  IovecsMax,   \* 64
  LongSize,    \* sizeof(long), a divisor of PageSize
  AddressEnd   \* one more than the largest address

ASSUME ReadAssumption ==
  /\ {PageSize, IovecsMax, LongSize} \subseteq Nat \ {0}
  /\ PageSize % LongSize = 0
  /\ AddressEnd \in Nat

Address == 0 .. AddressEnd - 1

\* Mutant: the next element a whole page on.
IovecByPages(a, rest) ==
  LET toEnd == PageSize - (a % PageSize)
  IN  [base |-> a, len |-> IF toEnd > rest /\ rest >= 0 THEN rest ELSE toEnd,
       next |-> a + PageSize, rest |-> rest - toEnd]

\* The elements of src_iovs from an address on: up to the end of each page,
\* and one byte count for all.  The count is unsigned and the whole last page
\* is taken from it: below zero stands for the huge number it then is, so that
\* the array fills with whole pages.
Iovec(a, rest) ==
  LET toEnd == PageSize - (a % PageSize)
  IN  [base |-> a, len |-> IF toEnd > rest /\ rest >= 0 THEN rest ELSE toEnd,
       next |-> a + toEnd, rest |-> rest - toEnd]

\* [iovs, next, rest, over]: over when an address does not fit.
Fill(a, rest) ==
  LET fill[n \in 0 .. IovecsMax] ==
        IF n = 0 THEN [iovs |-> <<>>, next |-> a, rest |-> rest, over |-> FALSE]
        ELSE LET s == fill[n - 1]
                 v == Iovec(s.next, s.rest)
             IN  IF s.over \/ s.rest = 0 THEN s
                 ELSE [iovs |-> Append(s.iovs, v), next |-> v.next, rest |-> v.rest,
                       over |-> v.next >= AddressEnd]
  IN  fill[IovecsMax]

\* The bytes that the elements name, in their order.
Source(iovs) ==
  LET upto[n \in 0 .. Len(iovs)] ==
        IF n = 0 THEN <<>>
        ELSE upto[n - 1] \o [k \in 1 .. iovs[n].len |-> iovs[n].base + k - 1]
  IN  upto[Len(iovs)]

\* process_vm_readv: the bytes of the source in their order, up to the length
\* of the destination and to the first page that cannot be read; an error
\* when there is none, and for a length beyond SSIZE_MAX.
Readv(readable, dstLen, iovs) ==
  LET source == Source(iovs)
      stop == {k \in 1 .. Len(source) : (source[k] \div PageSize) \notin readable}
      good == IF stop = {} THEN Len(source) ELSE (CHOOSE k \in stop : \A h \in stop : k <= h) - 1
  IN  IF dstLen < 0 THEN <<>> ELSE SubSeq(source, 1, IF good < dstLen THEN good ELSE dstLen)

\* tacd_util_process_vm_readv: chunks of IovecsMax elements.  After a chunk
\* that came out short the next one goes on behind it in the source and
\* directly after the bytes that were read in the buffer.  Each turn takes at
\* least one byte off the count, so that there are at most len and one more.
ProcessVmReadv(readable, addr, len) ==
  LET turns[n \in 0 .. len + 1] ==
        IF n = 0 THEN [next |-> addr, rest |-> len, buf |-> <<>>, done |-> len = 0]
        ELSE LET s == turns[n - 1]
                 f == Fill(s.next, s.rest)
                 got == Readv(readable, s.rest, f.iovs)
             IN  IF s.done THEN s
                 ELSE IF f.over \/ got = <<>> THEN [s EXCEPT !.done = TRUE]
                 ELSE [next |-> f.next, rest |-> f.rest, buf |-> s.buf \o got, done |-> f.rest = 0]
  IN  turns[len + 1].buf

-----------------------------------------------------------------------------
(* tacd_util_original_ptrace: whole words by PTRACE_PEEKTEXT.               *)

LongReadable(readable, a) == (a \div PageSize) \in readable

\* The pieces of the range by words: the first word from its middle on, whole
\* words, and the beginning of the last one.
Pieces(addr, len) ==
  LET first == addr - (addr % LongSize)
      words == {first + LongSize * k : k \in 0 .. (len + LongSize) \div LongSize}
  IN  {w \in words : w < addr + len}

OriginalPtrace(readable, addr, len) ==
  LET failed == {w \in Pieces(addr, len) : ~LongReadable(readable, w)}
      end == IF failed = {} THEN addr + len ELSE CHOOSE w \in failed : \A v \in failed : w <= v
  IN  IF addr + len >= AddressEnd THEN <<>>
      ELSE [k \in 1 .. (IF end > addr THEN end - addr ELSE 0) |-> addr + k - 1]

\* tacd_util_ptrace_read: the first call that reads anything decides which of
\* the two is used from then on.
PtraceRead(reader, readable, addr, len) ==
  LET vm == ProcessVmReadv(readable, addr, len)
      word == OriginalPtrace(readable, addr, len)
  IN  CASE reader = "process_vm_readv" -> [reader |-> reader, buf |-> vm]
        [] reader = "ptrace"           -> [reader |-> reader, buf |-> word]
        [] reader = "none" /\ vm # <<>> -> [reader |-> "process_vm_readv", buf |-> vm]
        [] reader = "none" /\ vm = <<>> /\ word # <<>> -> [reader |-> "ptrace", buf |-> word]
        [] reader = "none" /\ vm = <<>> /\ word = <<>> -> [reader |-> reader, buf |-> <<>>]
==============================================================================
