--------------------------- MODULE PureCallProofs ---------------------------
(***************************************************************************)
(* What the calls of PureCalls return, for all arguments: the emergency     *)
(* buffer, DWARF expressions, local times, reads of memory and texts.  The  *)
(* loops of the code are recursive functions; what they compute is proved   *)
(* by induction over the number of their turns, SetInduction below.         *)
(***************************************************************************)
EXTENDS PureCalls, FiniteSetTheorems, SequenceTheorems, WellFoundedInduction, TLAPS

\* Induction, for a set of numbers instead of a predicate.
LEMMA SetInduction ==
  ASSUME NEW S \in SUBSET Nat, 0 \in S, \A n \in S : n + 1 \in S
  PROVE  S = Nat
<1> SUFFICES ASSUME S # Nat PROVE FALSE
  OBVIOUS
<1> DEFINE Below(n) == 0 .. n - 1
           T == {Below(n) : n \in Nat \ S}
<1>1. T \subseteq FiniteSubsetsOf(Nat) /\ T # {}
  <2>1. ASSUME NEW n \in Nat \ S PROVE Below(n) \in FiniteSubsetsOf(Nat)
    <3>1. IsFiniteSet(0 .. n - 1)
      BY FS_Interval
    <3> QED  BY <3>1 DEF FiniteSubsetsOf
  <2>2. \E n \in Nat : n \notin S
    OBVIOUS
  <2> QED  BY <2>1, <2>2
<1>2. IsWellFoundedOn(StrictSubsetOrdering(Nat), FiniteSubsetsOf(Nat))
  BY FS_StrictSubsetOrderingWellFounded
<1> HIDE DEF T
<1>3. PICK x \in T : \A y \in T : ~(<<y, x>> \in StrictSubsetOrdering(Nat))
  BY <1>1, <1>2, WFMin
<1>4. PICK n \in Nat \ S : x = Below(n)
  BY DEF T
<1>5. n # 0 /\ n - 1 \in Nat /\ n - 1 \notin S
  <2>1. n # 0 /\ n - 1 \in Nat /\ (n - 1) + 1 = n
    BY <1>4
  <2> QED  BY <1>4, <2>1
<1>6. Below(n - 1) \in T
  BY <1>5 DEF T
<1>7. <<Below(n - 1), Below(n)>> \in StrictSubsetOrdering(Nat)
  <2>1. Below(n - 1) \subseteq Below(n) /\ n - 1 \in Below(n) /\ n - 1 \notin Below(n - 1)
    BY <1>5
  <2>2. Below(n - 1) \in SUBSET Nat /\ Below(n) \in SUBSET Nat
    BY <1>4, <1>5
  <2>3. Below(n - 1) # Below(n)
    BY <2>1
  <2> HIDE DEF Below
  <2> QED  BY <2>1, <2>2, <2>3 DEF StrictSubsetOrdering
<1> QED  BY <1>3, <1>4, <1>6, <1>7

\* g is the function with g[0] = c and g[n] = step of g[n - 1] and n.
Recursion(g, V, c, N, step) ==
  /\ g \in [0 .. N -> V]
  /\ g[0] = c
  /\ \A n \in 1 .. N : g[n] = step[<<g[n - 1], n>>]

\* Definition by recursion up to a number, with values in a set: there is such
\* a function.  A recursive function of the model is the CHOOSE of its equation.
LEMMA RecursionExists ==
  ASSUME NEW V, NEW c \in V, NEW N \in Nat, NEW step \in [V \X (1 .. N) -> V]
  PROVE  \E g : Recursion(g, V, c, N, step)
<1> DEFINE Upto(m) == \E g : Recursion(g, V, c, m, step)
           S == {m \in Nat : m <= N => Upto(m)}
<1>1. 0 \in S
  <2> DEFINE g == [i \in 0 .. 0 |-> c]
  <2>1. g \in [0 .. 0 -> V] /\ g[0] = c
    OBVIOUS
  <2>2. \A n \in 1 .. 0 : g[n] = step[<<g[n - 1], n>>]
    OBVIOUS
  <2> HIDE DEF g
  <2>3. Upto(0)
    BY <2>1, <2>2 DEF Recursion
  <2> QED  BY <2>3
<1>2. ASSUME NEW m \in S PROVE m + 1 \in S
  <2> SUFFICES ASSUME m + 1 <= N PROVE Upto(m + 1)
    OBVIOUS
  <2>1. PICK g : Recursion(g, V, c, m, step)
    OBVIOUS
  <2> DEFINE h == [i \in 0 .. m + 1 |-> IF i = m + 1 THEN step[<<g[m], m + 1>>] ELSE g[i]]
  <2>2. step[<<g[m], m + 1>>] \in V
    <3>1. g[m] \in V /\ m + 1 \in 1 .. N
      BY <2>1 DEF Recursion
    <3>2. <<g[m], m + 1>> \in V \X (1 .. N)
      BY <3>1
    <3> QED  BY <3>2
  <2>3. h \in [0 .. m + 1 -> V]
    BY <2>1, <2>2 DEF Recursion
  <2>4. h[0] = c
    BY <2>1 DEF Recursion
  <2>5. ASSUME NEW n \in 1 .. m + 1 PROVE h[n] = step[<<h[n - 1], n>>]
    <3>1. CASE n = m + 1
      <4>1. n \in 0 .. m + 1 /\ n - 1 = m /\ m \in 0 .. m + 1 /\ m # m + 1
        BY <3>1
      <4>2. h[n] = step[<<g[m], m + 1>>] /\ h[m] = g[m]
        BY <3>1, <4>1
      <4> HIDE DEF h
      <4> QED  BY <3>1, <4>1, <4>2
    <3>2. CASE n \in 1 .. m
      <4>1. n \in 0 .. m + 1 /\ n - 1 \in 0 .. m + 1 /\ n # m + 1 /\ n - 1 # m + 1
        BY <3>2
      <4>2. h[n] = g[n] /\ h[n - 1] = g[n - 1]
        BY <4>1
      <4> QED  BY <2>1, <3>2, <4>2 DEF Recursion
    <3> QED  BY <3>1, <3>2
  <2> HIDE DEF h
  <2> QED  BY <2>3, <2>4, <2>5 DEF Recursion
<1>3. S = Nat
  <2> HIDE DEF S
  <2>1. S \in SUBSET Nat
    BY DEF S
  <2> QED  BY <1>1, <1>2, <2>1, SetInduction
<1> QED  BY <1>3

-----------------------------------------------------------------------------
(* The length of the emergency report.                                      *)

\* A place in the emergency buffer: where the text goes on and how far it has
\* been written.
Place == [place : Nat, top : Nat]

\* A number below the modulus is its own remainder.
LEMMA ModSmall == \A d \in Nat, m \in Nat : d < m => d % m = d
OBVIOUS

\* While the text is inside the buffer, the length handed to the formatter is
\* the room that is left: it has not wrapped around.
LEMMA RestIs ==
  ASSUME NEW s \in Place, s.place <= EmergencyLen
  PROVE  Rest(s) = EmergencyLen - s.place
<1>2. s.place \in Nat /\ EmergencyLen \in Nat /\ SizeEnd \in Nat /\ EmergencyLen < SizeEnd
  BY BufferAssumption DEF Place
<1>3. EmergencyLen - s.place \in Nat /\ EmergencyLen - s.place < SizeEnd
  BY <1>2
<1> QED  BY <1>2, <1>3, ModSmall DEF Rest

\* tacc_fmt_snprintf: a text that fits is appended and stays inside.
LEMMA SnprintfInside ==
  ASSUME NEW s \in Place, NEW total \in Nat, s.place + total <= EmergencyLen, s.top <= EmergencyLen
  PROVE  /\ Snprintf(s, total) \in Place
         /\ Snprintf(s, total).place = s.place + total
         /\ Snprintf(s, total).top <= EmergencyLen
<1>1. Rest(s) = EmergencyLen - s.place
  BY RestIs, BufferAssumption DEF Place
<1>2. s.place \in Nat /\ s.top \in Nat /\ EmergencyLen \in Nat
  BY BufferAssumption DEF Place
<1> DEFINE fits == IF total < Rest(s) THEN total ELSE Rest(s) - 1
           top == IF Rest(s) = 0 THEN s.top ELSE Reach(s, s.place + fits + 1)
<1>3. Snprintf(s, total) = [place |-> s.place + total, top |-> top]
  BY DEF Snprintf
<1>4. top \in Nat /\ top <= EmergencyLen
  BY <1>1, <1>2 DEF Reach
<1> HIDE DEF top
<1> QED  BY <1>2, <1>3, <1>4 DEF Place

\* The unwinders cut a line that does not fit: whatever its length, the text
\* stays inside and keeps a byte for the NUL.
LEMMA FrameLineInside ==
  ASSUME NEW s \in Place, NEW total \in Nat, s.place <= EmergencyLen, s.top <= EmergencyLen,
         EmergencyLen > 0
  PROVE  /\ FrameLine(s, total) \in Place
         /\ FrameLine(s, total).place < EmergencyLen
         /\ FrameLine(s, total).top <= EmergencyLen
<1>1. Rest(s) = EmergencyLen - s.place
  BY RestIs, BufferAssumption DEF Place
<1>2. s.place \in Nat /\ s.top \in Nat /\ EmergencyLen \in Nat
  BY BufferAssumption DEF Place
<1>3. CASE total >= Rest(s)
  <2> DEFINE fits == Rest(s) - 1
             top == IF Rest(s) = 0 THEN s.top ELSE Reach(s, s.place + fits + 1)
  <2>1. Snprintf(s, total) = [place |-> s.place + total, top |-> top]
    BY <1>1, <1>2, <1>3 DEF Snprintf
  <2>2. top \in Nat /\ top <= EmergencyLen
    BY <1>1, <1>2 DEF Reach
  <2> HIDE DEF top
  <2>3. Reach(Snprintf(s, total), EmergencyLen) = EmergencyLen
    BY <1>2, <2>1, <2>2 DEF Reach
  <2>4. FrameLine(s, total) = [place |-> EmergencyLen - 1, top |-> EmergencyLen]
    BY <1>3, <2>3 DEF FrameLine
  <2> QED  BY <1>2, <2>4 DEF Place
<1>4. CASE ~(total >= Rest(s))
  <2>1. FrameLine(s, total) = Snprintf(s, total)
    BY <1>4 DEF FrameLine
  <2>2. s.place + total < EmergencyLen
    BY <1>1, <1>2, <1>4
  <2> QED  BY <2>1, <2>2, <1>2, SnprintfInside
<1> QED  BY <1>3, <1>4

\* tacc_unwind_*_record: by induction over the frames, no number of lines is
\* written past the buffer.
LEMMA UnwindInside ==
  ASSUME NEW s \in Place, NEW lines \in Seq(Nat), lines # <<>>,
         s.place <= EmergencyLen, s.top <= EmergencyLen, EmergencyLen > 0
  PROVE  /\ Unwind(s, lines) \in Place
         /\ Unwind(s, lines).place < EmergencyLen
         /\ Unwind(s, lines).top <= EmergencyLen
<1> DEFINE V == [text : {p \in Place : p.place <= EmergencyLen /\ p.top <= EmergencyLen}, stop : BOOLEAN]
           c == [text |-> s, stop |-> FALSE]
           N == Len(lines)
           Next1(before, n) ==
             LET after == FrameLine(before.text, lines[n])
             IN  IF before.stop THEN before
                 ELSE [text |-> after, stop |-> Rest(after) < FrameMin \/ n >= MaxFrames]
           step == [p \in V \X (1 .. N) |-> Next1(p[1], p[2])]
           Eq(r) == r = [n \in 0 .. N |-> IF n = 0 THEN c ELSE Next1(r[n - 1], n)]
           record == CHOOSE r : Eq(r)
<1>1. N \in Nat \ {0} /\ \A n \in 1 .. N : lines[n] \in Nat
  OBVIOUS
<1>2. c \in V
  OBVIOUS
<1>3. ASSUME NEW v \in V, NEW n \in 1 .. N
      PROVE  /\ Next1(v, n) \in V
             /\ ~v.stop => Next1(v, n).text.place < EmergencyLen
             /\ v.stop => Next1(v, n) = v
  <2>1. /\ FrameLine(v.text, lines[n]) \in Place
        /\ FrameLine(v.text, lines[n]).place < EmergencyLen
        /\ FrameLine(v.text, lines[n]).top <= EmergencyLen
    BY <1>1, FrameLineInside
  <2> DEFINE after == FrameLine(v.text, lines[n])
  <2>2. (Rest(after) < FrameMin \/ n >= MaxFrames) \in BOOLEAN
    OBVIOUS
  <2>3. after \in {p \in Place : p.place <= EmergencyLen /\ p.top <= EmergencyLen}
    BY <2>1, BufferAssumption DEF Place
  <2>4. Next1(v, n) = IF v.stop THEN v
                      ELSE [text |-> after, stop |-> Rest(after) < FrameMin \/ n >= MaxFrames]
    OBVIOUS
  <2> HIDE DEF after, Next1
  <2>5. CASE v.stop
    BY <2>4, <2>5
  <2>6. CASE ~v.stop
    <3>1. Next1(v, n) = [text |-> after, stop |-> Rest(after) < FrameMin \/ n >= MaxFrames]
      BY <2>4, <2>6
    <3> QED  BY <2>1, <2>2, <2>3, <2>6, <3>1 DEF after
  <2> QED  BY <2>5, <2>6
<1>4. \E r : Eq(r)
  <2> HIDE DEF V, c, Next1, N
  <2>1. step \in [V \X (1 .. N) -> V]
    BY <1>3
  <2>2. PICK g : Recursion(g, V, c, N, step)
    <3> HIDE DEF step
    <3>1. N \in Nat
      BY <1>1
    <3> QED  BY <1>2, <2>1, <3>1, RecursionExists
  <2>3. ASSUME NEW n \in 0 .. N PROVE g[n] = IF n = 0 THEN c ELSE Next1(g[n - 1], n)
    <3>1. CASE n = 0
      BY <2>2, <3>1 DEF Recursion
    <3>2. CASE n # 0
      <4>1. n \in 1 .. N /\ n - 1 \in 0 .. N
        BY <1>1, <3>2
      <4>2. <<g[n - 1], n>> \in V \X (1 .. N)
        BY <2>2, <4>1 DEF Recursion
      <4> QED  BY <2>2, <3>2, <4>1, <4>2 DEF Recursion
    <3> QED  BY <3>1, <3>2
  <2>4. Eq(g)
    BY <2>2, <2>3 DEF Recursion
  <2> QED  BY <2>4
<1>5. Eq(record)
  <2> HIDE DEF Eq
  <2> QED  BY <1>4
<1>6. Unwind(s, lines) = record[N].text
  BY Zenon DEF Unwind
<1> HIDE DEF record, V, c
<1>7. /\ record[0] = c
      /\ \A n \in 1 .. N : record[n] = Next1(record[n - 1], n)
  <2> HIDE DEF Next1
  <2>1. record[0] = c
    BY <1>1, <1>5
  <2>2. ASSUME NEW n \in 1 .. N PROVE record[n] = Next1(record[n - 1], n)
    <3>1. n \in 0 .. N /\ n # 0
      BY <1>1
    <3> QED  BY <1>5, <3>1
  <2> QED  BY <2>1, <2>2
<1> HIDE DEF Next1, Eq
<1> DEFINE S == {m \in Nat : m <= N => /\ record[m] \in V
                                       /\ record[m].stop => m > 0
                                       /\ m > 0 => record[m].text.place < EmergencyLen}
<1>8. 0 \in S
  BY <1>2, <1>7 DEF c
<1>9. ASSUME NEW m \in S PROVE m + 1 \in S
  <2> SUFFICES ASSUME m + 1 <= N
               PROVE  record[m + 1] \in V /\ record[m + 1].text.place < EmergencyLen
    OBVIOUS
  <2>1. m + 1 \in 1 .. N /\ (m + 1) - 1 = m /\ m <= N
    BY <1>1
  <2>2. record[m + 1] = Next1(record[m], m + 1)
    BY <1>7, <2>1
  <2>3. record[m] \in V /\ (record[m].stop => record[m].text.place < EmergencyLen)
    BY <2>1
  <2> QED  BY <1>3, <2>1, <2>2, <2>3
<1>10. S = Nat
  <2>1. S \in SUBSET Nat
    OBVIOUS
  <2> HIDE DEF S
  <2> QED  BY <1>8, <1>9, <2>1, SetInduction
<1>11. record[N] \in V /\ record[N].text.place < EmergencyLen
  BY <1>1, <1>10
<1> QED  BY <1>6, <1>11 DEF V

\* tac_fallback_get_backtrace: the title, the frames and the newline that
\* closes them stay inside.
LEMMA BacktraceInside ==
  ASSUME NEW s \in Place, s.place + TitleLen <= EmergencyLen, s.top <= EmergencyLen,
         NEW system \in Seq(Nat), NEW clang \in Seq(Nat) \ {<<>>}
  PROVE  Backtrace(s, system, clang).place < EmergencyLen /\ Backtrace(s, system, clang).top <= EmergencyLen
<1> DEFINE title == Snprintf(s, TitleLen)
           frames == UnwindGet(title, system, clang)
<1>1. s.place \in Nat /\ s.top \in Nat /\ EmergencyLen \in Nat /\ EmergencyLen > 0
  BY BufferAssumption DEF Place, TitleLen
<1>2. title \in Place /\ title.place <= EmergencyLen /\ title.top <= EmergencyLen
  BY SnprintfInside DEF TitleLen
<1>3. frames \in Place /\ frames.place < EmergencyLen /\ frames.top <= EmergencyLen
  <2> HIDE DEF title
  <2>1. CASE system # <<>>
    BY <1>1, <1>2, <2>1, UnwindInside DEF UnwindGet
  <2>2. CASE system = <<>>
    BY <1>1, <1>2, <2>2, UnwindInside DEF UnwindGet
  <2> QED  BY <2>1, <2>2
<1> DEFINE used == frames.place - s.place
           cut == used >= (Rest(s) - 1) % SizeEnd
           end == IF cut THEN [place |-> EmergencyLen - 2, top |-> Reach(frames, EmergencyLen - 1)]
                  ELSE frames
<1>4. Backtrace(s, system, clang) = Snprintf(end, 1)
  BY DEF Backtrace
<1> HIDE DEF frames
<1>5. cut <=> frames.place >= EmergencyLen - 1
  <2>2. Rest(s) = EmergencyLen - s.place
    BY <1>1, RestIs DEF TitleLen
  <2>3. Rest(s) - 1 \in Nat /\ SizeEnd \in Nat /\ Rest(s) - 1 < SizeEnd
    BY <1>1, <2>2, BufferAssumption DEF TitleLen
  <2>4. (Rest(s) - 1) % SizeEnd = EmergencyLen - s.place - 1
    BY <2>2, <2>3, ModSmall
  <2>5. frames.place \in Nat
    BY <1>3 DEF Place
  <2> QED  BY <1>1, <2>4, <2>5
<1>6. end \in Place /\ end.place + 1 < EmergencyLen /\ end.top <= EmergencyLen
  <2>1. CASE cut
    <3>1. Reach(frames, EmergencyLen - 1) \in Nat /\ Reach(frames, EmergencyLen - 1) <= EmergencyLen
      BY <1>1, <1>3 DEF Reach, Place
    <3>2. EmergencyLen - 2 \in Nat
      BY <1>1 DEF TitleLen
    <3>3. end = [place |-> EmergencyLen - 2, top |-> Reach(frames, EmergencyLen - 1)]
      BY <2>1
    <3> HIDE DEF end
    <3> QED  BY <1>1, <3>1, <3>2, <3>3 DEF Place
  <2>2. CASE ~cut
    <3>1. end = frames
      BY <2>2
    <3>2. frames.place \in Nat /\ ~(frames.place >= EmergencyLen - 1)
      BY <1>3, <1>5, <2>2 DEF Place
    <3> HIDE DEF end, cut
    <3> QED  BY <1>1, <1>3, <3>1, <3>2
  <2> QED  BY <2>1, <2>2
<1>7. 1 \in Nat /\ end.place + 1 <= EmergencyLen /\ end.place \in Nat
  BY <1>1, <1>6 DEF Place
<1> HIDE DEF end
<1> QED  BY <1>4, <1>6, <1>7, SnprintfInside

\* tac_fallback_get_emergency: four texts that leave room for the title, then
\* the backtrace.
LEMMA EmergencyStaysInside ==
  ASSUME NEW header \in Nat, NEW thread \in Nat, NEW signal \in Nat, NEW registers \in Nat,
         header + thread + signal + registers + TitleLen <= EmergencyLen,
         NEW system \in Seq(Nat), NEW clang \in Seq(Nat) \ {<<>>}
  PROVE  /\ GetEmergency(header, thread, signal, registers, system, clang).place < EmergencyLen
         /\ GetEmergency(header, thread, signal, registers, system, clang).top <= EmergencyLen
<1> DEFINE s1 == Snprintf(EmergencyInit, header)
           s2 == Snprintf(s1, thread)
           s3 == Snprintf(s2, signal)
           s4 == Snprintf(s3, registers)
<1>1. EmergencyInit \in Place /\ EmergencyInit.place = 0 /\ EmergencyInit.top <= EmergencyLen /\ EmergencyLen \in Nat
  BY BufferAssumption DEF EmergencyInit, Place
<1>2. s1 \in Place /\ s1.place = header /\ s1.top <= EmergencyLen
  <2>1. EmergencyInit.place + header <= EmergencyLen
    BY <1>1 DEF TitleLen
  <2> QED  BY <1>1, <2>1, SnprintfInside
<1> HIDE DEF s1
<1>3. s2 \in Place /\ s2.place = header + thread /\ s2.top <= EmergencyLen
  <2>1. s1.place + thread <= EmergencyLen
    BY <1>1, <1>2 DEF TitleLen
  <2> QED  BY <1>2, <2>1, SnprintfInside
<1> HIDE DEF s2
<1>4. s3 \in Place /\ s3.place = header + thread + signal /\ s3.top <= EmergencyLen
  <2>1. s2.place + signal <= EmergencyLen
    BY <1>1, <1>3 DEF TitleLen
  <2> QED  BY <1>3, <2>1, SnprintfInside
<1> HIDE DEF s3
<1>5. s4 \in Place /\ s4.place = header + thread + signal + registers /\ s4.top <= EmergencyLen
  <2>1. s3.place + registers <= EmergencyLen
    BY <1>1, <1>4 DEF TitleLen
  <2> QED  BY <1>4, <2>1, SnprintfInside
<1>6. GetEmergency(header, thread, signal, registers, system, clang) = Backtrace(s4, system, clang)
  BY DEF GetEmergency, s1, s2, s3
<1> HIDE DEF s4
<1> QED  BY <1>5, <1>6, BacktraceInside

\* The invariant of every call: before it returns the arguments, after that one
\* of its results.
CallInv ==
  \/ \E c \in Calls : call = [of |-> c, done |-> FALSE]
  \/ \E c \in Calls : \E r \in Results(c) : call = [of |-> c, done |-> TRUE, result |-> r]

\* The invariant holds of every call.
LEMMA ResultOfACall == CallSpec => []CallInv
<1>1. CallInit => CallInv
  BY DEF CallInit, CallInv
<1>2. CallInv /\ [CallNext]_call => CallInv'
  <2> SUFFICES ASSUME CallInv, [CallNext]_call PROVE CallInv'
    OBVIOUS
  <2>1. CASE CallReturns
    <3>1. PICK c \in Calls : call = [of |-> c, done |-> FALSE]
      BY <2>1 DEF CallInv, CallReturns
    <3>2. call.of = c
      BY <3>1
    <3>3. PICK r \in Results(c) : call' = [of |-> c, done |-> TRUE, result |-> r]
      BY <2>1, <3>2 DEF CallReturns
    <3> QED  BY <3>3 DEF CallInv
  <2>2. CASE UNCHANGED call
    BY <2>2 DEF CallInv
  <2> QED  BY <2>1, <2>2 DEF CallNext, CallOver
<1> QED  BY <1>1, <1>2, PTL DEF CallSpec

\* What has been returned is a result of the arguments.
LEMMA Back ==
  ASSUME CallInv, NEW kind, Returned(kind)
  PROVE  call.of \in Calls /\ call.of.kind = kind /\ call.result \in Results(call.of)
BY DEF CallInv, Returned

\* The report in the emergency buffer never leaves it, for every length of the
\* texts, the lines and the buffer (tac_fallback_get_emergency,
\* tacc_unwind_get).
THEOREM EmergencyBuffer == CallSpec => []BacktraceStaysInside
<1>1. CallInv => BacktraceStaysInside
  <2> SUFFICES ASSUME CallInv, Returned("emergency"), HeadLen + TitleLen <= EmergencyLen
               PROVE  call.result.top <= EmergencyLen /\ call.result.place < EmergencyLen
    BY DEF BacktraceStaysInside
  <2> DEFINE c == call.of
  <2>1. c \in Calls /\ c.kind = "emergency" /\ call.result \in Results(c)
    BY Back
  <2>2. c \in EmergencyCall
    BY <2>1, CallAssumption
  <2>3. call.result = GetEmergency(c.header, c.thread, c.signal, c.registers, c.system, c.clang)
    BY <2>1 DEF Results
  <2>4. /\ c.header \in Nat /\ c.thread \in Nat /\ c.signal \in Nat /\ c.registers \in Nat
        /\ c.system \in Seq(Nat) /\ c.clang \in Seq(Nat) \ {<<>>}
    BY <2>2 DEF EmergencyCall
  <2> QED  BY <2>3, <2>4, EmergencyStaysInside DEF HeadLen
<1> QED  BY <1>1, ResultOfACall, PTL

-----------------------------------------------------------------------------
(* DWARF expressions.                                                       *)

\* A state of the evaluation: whatever is on the stack, there is room for it.
EvalState(s) ==
  /\ \E at, stack, count, out, value :
       s = [at |-> at, stack |-> stack, count |-> count, out |-> out, value |-> value]
  /\ s.count \in Nat
  /\ \E V : s.stack \in Seq(V)
  /\ Len(s.stack) <= StackMax

\* A step that only changes the stack, or only the place in the program.
WithStack(s, stack) == [s EXCEPT !.stack = stack]
WithPlace(s, at) == [s EXCEPT !.at = at]

\* A failed evaluation is a state of the evaluation.
LEMMA FailKeeps ==
  ASSUME NEW s, EvalState(s), NEW e
  PROVE  EvalState(FailEval(s, e)) /\ FailEval(s, e).count = s.count /\ FailEval(s, e).out = e
<1>1. PICK at, stack, count, out, value :
        s = [at |-> at, stack |-> stack, count |-> count, out |-> out, value |-> value]
  BY DEF EvalState
<1> DEFINE t == FailEval(s, e)
<1>2. t = [at |-> at, stack |-> stack, count |-> count, out |-> e, value |-> value]
  BY <1>1 DEF FailEval
<1>3. t.stack = s.stack /\ t.count = s.count /\ t.out = e
  BY <1>1, <1>2
<1> HIDE DEF t
<1>4. EvalState(t)
  BY <1>2, <1>3 DEF EvalState
<1> QED  BY <1>3, <1>4 DEF t

\* A stack with room can replace the stack.
LEMMA StackKeeps ==
  ASSUME NEW s, EvalState(s), NEW V, NEW stack \in Seq(V), Len(stack) <= StackMax
  PROVE  EvalState(WithStack(s, stack)) /\ WithStack(s, stack).count = s.count
<1>1. PICK at, old, count, out, value :
        s = [at |-> at, stack |-> old, count |-> count, out |-> out, value |-> value]
  BY DEF EvalState
<1> DEFINE t == WithStack(s, stack)
<1>2. t = [at |-> at, stack |-> stack, count |-> count, out |-> out, value |-> value]
  BY <1>1 DEF WithStack
<1>3. t.stack = stack /\ t.count = s.count
  BY <1>1, <1>2
<1> HIDE DEF t
<1>4. EvalState(t)
  <2>1. \E W : t.stack \in Seq(W)
    BY <1>3
  <2>2. Len(t.stack) <= StackMax
    BY <1>3
  <2> QED  BY <1>2, <1>3, <2>1, <2>2 DEF EvalState
<1> QED  BY <1>3, <1>4 DEF t

\* So can any place in the program.
LEMMA PlaceKeeps ==
  ASSUME NEW s, EvalState(s), NEW at
  PROVE  EvalState(WithPlace(s, at)) /\ WithPlace(s, at).count = s.count
<1>1. PICK old, stack, count, out, value :
        s = [at |-> old, stack |-> stack, count |-> count, out |-> out, value |-> value]
  BY DEF EvalState
<1> DEFINE t == WithPlace(s, at)
<1>2. t = [at |-> at, stack |-> stack, count |-> count, out |-> out, value |-> value]
  BY <1>1 DEF WithPlace
<1>3. t.stack = s.stack /\ t.count = s.count
  BY <1>1, <1>2
<1> HIDE DEF t
<1>4. EvalState(t)
  BY <1>2, <1>3 DEF EvalState
<1> QED  BY <1>3, <1>4 DEF t

\* Pushing checks that there is room.
LEMMA PushKeeps ==
  ASSUME NEW s, EvalState(s), NEW V, NEW below \in Seq(V), Len(below) <= StackMax, NEW v
  PROVE  EvalState(Push(s, below, v)) /\ Push(s, below, v).count = s.count
<1>1. CASE Len(below) >= StackMax
  BY <1>1, FailKeeps DEF Push
<1>2. CASE ~(Len(below) >= StackMax)
  <2>1. below \in Seq(V \cup {v}) /\ Append(below, v) \in Seq(V \cup {v}) /\ Len(Append(below, v)) = Len(below) + 1
    OBVIOUS
  <2>2. Len(Append(below, v)) <= StackMax
    BY <1>2, <2>1, ExprAssumption
  <2>3. Push(s, below, v) = WithStack(s, Append(below, v))
    BY <1>2 DEF Push, WithStack
  <2> QED  BY <2>1, <2>2, <2>3, StackKeeps
<1> QED  BY <1>1, <1>2

\* Every operation finds the values it requires, and leaves a stack with room;
\* none counts a turn.
LEMMA OperateKeeps ==
  ASSUME NEW s, EvalState(s), NEW i, NEW regs, NEW mem,
         i.op \in LegalOps, RequiredStackValues(i.op) <= Len(s.stack),
         NEW r \in Operate(s, i, regs, mem)
  PROVE  EvalState(r) /\ r.count = s.count
<1> DEFINE n == Len(s.stack)
           v(k) == s.stack[n + 1 - k]
           Below(k) == SubSeq(s.stack, 1, n - k)
<1>1. PICK V : s.stack \in Seq(V)
  BY DEF EvalState
<1>2. n \in Nat /\ n <= StackMax /\ StackMax \in Nat
  BY <1>1, ExprAssumption DEF EvalState
<1>3. ASSUME NEW k \in 0 .. n PROVE Below(k) \in Seq(V) /\ Len(Below(k)) = n - k /\ Len(Below(k)) <= StackMax
  BY <1>1, <1>2
<1>4. CASE i.op \in ConstOps
  <2>1. Operate(s, i, regs, mem) = {Push(s, s.stack, ToWord(i.arg))}
    BY <1>4 DEF Operate, ConstOps, Unary, Binary
  <2> QED  BY <1>1, <1>2, <2>1, PushKeeps
<1>5. CASE i.op = "nop"
  <2>1. Operate(s, i, regs, mem) = {s}
    BY <1>5 DEF Operate, ConstOps, Unary, Binary
  <2> QED  BY <2>1
<1>6. CASE i.op \in Unary
  <2>1. Operate(s, i, regs, mem) = {Push(s, Below(1), UnaryResult(i, v(1)))}
    BY <1>6 DEF Operate, ConstOps, Unary, Binary
  <2>2. 1 \in 0 .. n
    BY <1>2, <1>6 DEF RequiredStackValues, ConstOps, Unary, Binary
  <2> HIDE DEF Below
  <2> QED  BY <1>3, <2>1, <2>2, PushKeeps
<1>7. CASE i.op \in Binary
  <2> DEFINE results == BinaryResults(i.op, v(2), v(1))
  <2>1. Operate(s, i, regs, mem) = IF results = {} THEN {FailEval(s, "format")}
                                   ELSE {Push(s, Below(2), w) : w \in results}
    BY <1>7 DEF Operate, ConstOps, Unary, Binary
  <2>2. 2 \in 0 .. n
    BY <1>2, <1>7 DEF RequiredStackValues, ConstOps, Unary, Binary
  <2> HIDE DEF Below, results
  <2>3. ASSUME NEW w PROVE EvalState(Push(s, Below(2), w)) /\ Push(s, Below(2), w).count = s.count
    BY <1>3, <2>2, PushKeeps
  <2>4. r = FailEval(s, "format") \/ \E w \in results : r = Push(s, Below(2), w)
    BY <2>1
  <2> QED  BY <2>3, <2>4, FailKeeps
<1>8. CASE i.op = "dup"
  <2>1. Operate(s, i, regs, mem) = {Push(s, s.stack, v(1))}
    BY <1>8 DEF Operate, ConstOps, Unary, Binary
  <2> QED  BY <1>1, <1>2, <2>1, PushKeeps
<1>9. CASE i.op = "drop"
  <2>1. Operate(s, i, regs, mem) = {WithStack(s, Below(1))}
    BY <1>9 DEF Operate, ConstOps, Unary, Binary, WithStack, WithPlace
  <2>2. 1 \in 0 .. n
    BY <1>2, <1>9 DEF RequiredStackValues, ConstOps, Unary, Binary
  <2> HIDE DEF Below
  <2> QED  BY <1>3, <2>1, <2>2, StackKeeps
<1>10. CASE i.op = "over"
  <2>1. Operate(s, i, regs, mem) = {Push(s, s.stack, v(2))}
    BY <1>10 DEF Operate, ConstOps, Unary, Binary
  <2> QED  BY <1>1, <1>2, <2>1, PushKeeps
<1>11. CASE i.op = "pick"
  <2>1. Operate(s, i, regs, mem) = {IF i.arg >= n THEN FailEval(s, "format") ELSE Push(s, s.stack, v(i.arg + 1))}
    BY <1>11 DEF Operate, ConstOps, Unary, Binary
  <2>2. r = FailEval(s, "format") \/ r = Push(s, s.stack, v(i.arg + 1))
    BY <2>1
  <2> QED  BY <1>1, <1>2, <2>2, PushKeeps, FailKeeps
<1>12. CASE i.op = "swap"
  <2> DEFINE new == Below(2) \o <<v(1), v(2)>>
  <2>1. Operate(s, i, regs, mem) = {WithStack(s, new)}
    BY <1>12 DEF Operate, ConstOps, Unary, Binary, WithStack, WithPlace
  <2>2. 2 \in 0 .. n
    BY <1>2, <1>12 DEF RequiredStackValues, ConstOps, Unary, Binary
  <2>3. v(1) \in V /\ v(2) \in V
    BY <1>1, <2>2
  <2> HIDE DEF Below, v
  <2>4. <<v(1), v(2)>> \in Seq(V) /\ Len(<<v(1), v(2)>>) = 2
    BY <2>3
  <2>5. new \in Seq(V) /\ Len(new) = n - 2 + 2
    BY <1>3, <2>2, <2>4
  <2>6. Len(new) <= StackMax
    BY <1>2, <2>5
  <2> QED  BY <2>1, <2>5, <2>6, StackKeeps
<1>13. CASE i.op = "rot"
  <2> DEFINE new == Below(3) \o <<v(1), v(3), v(2)>>
  <2>1. Operate(s, i, regs, mem) = {WithStack(s, new)}
    BY <1>13 DEF Operate, ConstOps, Unary, Binary, WithStack, WithPlace
  <2>2. 3 \in 0 .. n
    BY <1>2, <1>13 DEF RequiredStackValues, ConstOps, Unary, Binary
  <2>3. v(1) \in V /\ v(2) \in V /\ v(3) \in V
    BY <1>1, <2>2
  <2> HIDE DEF Below, v
  <2>4. <<v(1), v(3), v(2)>> \in Seq(V) /\ Len(<<v(1), v(3), v(2)>>) = 3
    BY <2>3
  <2>5. new \in Seq(V) /\ Len(new) = n - 3 + 3
    BY <1>3, <2>2, <2>4
  <2>6. Len(new) <= StackMax
    BY <1>2, <2>5
  <2> QED  BY <2>1, <2>5, <2>6, StackKeeps
<1>14. CASE i.op = "deref"
  <2>1. Operate(s, i, regs, mem) = {IF v(1) \notin DOMAIN mem THEN FailEval(s, "missing")
                                    ELSE Push(s, Below(1), mem[v(1)])}
    BY <1>14 DEF Operate, ConstOps, Unary, Binary
  <2>2. 1 \in 0 .. n
    BY <1>2, <1>14 DEF RequiredStackValues, ConstOps, Unary, Binary
  <2> HIDE DEF Below
  <2>3. r = FailEval(s, "missing") \/ r = Push(s, Below(1), mem[v(1)])
    BY <2>1
  <2> QED  BY <1>3, <2>2, <2>3, PushKeeps, FailKeeps
<1>15. CASE i.op = "deref_size"
  <2> DEFINE low == 2^((WordBits \div WordBytes) * i.arg)
             some == {x \in Word : x % low = mem[v(1)] % low}
  <2>1. Operate(s, i, regs, mem) =
          IF i.arg \notin 1 .. WordBytes THEN {FailEval(s, "format")}
          ELSE IF v(1) \notin DOMAIN mem THEN {FailEval(s, "missing")}
          ELSE {Push(s, Below(1), w) : w \in some}
    BY <1>15 DEF Operate, ConstOps, Unary, Binary
  <2>2. 1 \in 0 .. n
    BY <1>2, <1>15 DEF RequiredStackValues, ConstOps, Unary, Binary
  <2> HIDE DEF Below, some, v
  <2>3. r = FailEval(s, "format") \/ r = FailEval(s, "missing") \/ \E w \in some : r = Push(s, Below(1), w)
    BY <2>1
  <2>4. ASSUME NEW w PROVE EvalState(Push(s, Below(1), w)) /\ Push(s, Below(1), w).count = s.count
    BY <1>3, <2>2, PushKeeps
  <2> QED  BY <2>3, <2>4, FailKeeps
<1>16. CASE i.op = "breg"
  <2>1. Operate(s, i, regs, mem) = {IF i.reg \notin MachineRegs THEN FailEval(s, "format")
                                    ELSE Push(s, s.stack, ToWord(regs[i.reg] + i.arg))}
    BY <1>16 DEF Operate, ConstOps, Unary, Binary
  <2>2. r = FailEval(s, "format") \/ r = Push(s, s.stack, ToWord(regs[i.reg] + i.arg))
    BY <2>1
  <2> QED  BY <1>1, <1>2, <2>2, PushKeeps, FailKeeps
<1>17. CASE i.op = "skip"
  <2>1. Operate(s, i, regs, mem) = {WithPlace(s, s.at + i.arg)}
    BY <1>17 DEF Operate, ConstOps, Unary, Binary, WithStack, WithPlace
  <2> QED  BY <2>1, PlaceKeeps
<1>18. CASE i.op = "bra"
  <2> DEFINE t == WithStack(s, Below(1))
             at == IF v(1) # 0 THEN s.at + i.arg ELSE s.at - i.arg
  <2>1. Operate(s, i, regs, mem) = {WithPlace(t, at)}
    <3>1. Operate(s, i, regs, mem) = {[s EXCEPT !.stack = Below(1), !.at = at]}
      BY <1>18 DEF Operate, ConstOps, Unary, Binary
    <3>2. \E a, b, count, out, value :
            s = [at |-> a, stack |-> b, count |-> count, out |-> out, value |-> value]
      BY DEF EvalState
    <3> HIDE DEF Below, at
    <3>3. [s EXCEPT !.stack = Below(1), !.at = at] = WithPlace(t, at)
      BY <3>2 DEF WithStack, WithPlace
    <3> QED  BY <3>1, <3>3
  <2>2. 1 \in 0 .. n
    BY <1>2, <1>18 DEF RequiredStackValues, ConstOps, Unary, Binary
  <2> HIDE DEF Below, v, at
  <2>3. EvalState(t) /\ t.count = s.count
    BY <1>3, <2>2, StackKeeps
  <2>4. r = WithPlace(t, at)
    BY <2>1
  <2> HIDE DEF t
  <2> QED  BY <2>3, <2>4, PlaceKeeps
<1> QED
  BY <1>4, <1>5, <1>6, <1>7, <1>8, <1>9, <1>10, <1>11, <1>12, <1>13, <1>14, <1>15, <1>16, <1>17, <1>18 DEF LegalOps

\* What is true of a state after n turns.
EvalAfter(s, n) == EvalState(s) /\ (s.out = "run" => s.count = n /\ n <= OpsMax + 1)

\* A turn counts itself while the evaluation runs.
LEMMA TurnKeeps ==
  ASSUME NEW n \in Nat, NEW s, EvalAfter(s, n), NEW prog, NEW regs, NEW mem,
         NEW r \in EvalTurn(prog, regs, mem, s)
  PROVE  EvalAfter(r, n + 1)
<1>1. EvalState(s) /\ OpsMax \in Nat
  BY ExprAssumption DEF EvalAfter
<1>2. CASE s.out # "run"
  BY <1>2 DEF EvalTurn, EvalAfter
<1>3. CASE s.out = "run" /\ \E e : e # "run" /\ r = FailEval(s, e)
  BY <1>1, <1>3, FailKeeps DEF EvalAfter
<1>4. CASE s.out = "run" /\ s.at > Len(prog) /\ s.stack # <<>>
  <2>1. r = [s EXCEPT !.out = "ok", !.value = s.stack[Len(s.stack)]]
    BY <1>4 DEF EvalTurn
  <2>2. PICK at, stack, count, out, value :
          s = [at |-> at, stack |-> stack, count |-> count, out |-> out, value |-> value]
    BY <1>1 DEF EvalState
  <2>3. r = [at |-> at, stack |-> stack, count |-> count, out |-> "ok", value |-> stack[Len(stack)]]
    BY <2>1, <2>2
  <2>4. r.stack = s.stack /\ r.count = s.count /\ r.out = "ok"
    BY <2>2, <2>3
  <2>5. EvalState(r)
    BY <1>1, <2>3, <2>4 DEF EvalState
  <2> QED  BY <2>4, <2>5 DEF EvalAfter
<1>5. CASE /\ s.out = "run" /\ ~(s.at > Len(prog)) /\ ~(s.count > OpsMax) /\ ~(s.at < 1)
           /\ prog[s.at].op \in LegalOps /\ ~(RequiredStackValues(prog[s.at].op) > Len(s.stack))
  <2> DEFINE more == s.count + 1
             next == s.at + 1
             t == [s EXCEPT !.count = more, !.at = next]
             i == prog[s.at]
  <2>1. r \in Operate(t, i, regs, mem)
    BY <1>5 DEF EvalTurn
  <2>2. PICK at, stack, count, out, value :
          s = [at |-> at, stack |-> stack, count |-> count, out |-> out, value |-> value]
    BY <1>1 DEF EvalState
  <2>3. t = [at |-> next, stack |-> stack, count |-> more, out |-> out, value |-> value]
    <3> DEFINE u == [s EXCEPT !.count = more]
    <3>1. t = [u EXCEPT !.at = next]
      OBVIOUS
    <3> HIDE DEF more, next, t
    <3>2. u = [at |-> at, stack |-> stack, count |-> more, out |-> out, value |-> value]
      BY <2>2
    <3> HIDE DEF u
    <3> QED  BY <3>1, <3>2
  <2>4. t.stack = s.stack /\ t.count = s.count + 1 /\ s.count = n
    BY <1>5, <2>2, <2>3 DEF EvalAfter
  <2> HIDE DEF t
  <2>5. EvalState(t)
    <3>1. t.count \in Nat
      BY <2>4
    <3>2. (\E V : t.stack \in Seq(V)) /\ Len(t.stack) <= StackMax
      BY <1>1, <2>4 DEF EvalState
    <3> QED  BY <2>3, <3>1, <3>2 DEF EvalState
  <2>6. RequiredStackValues(i.op) \in Nat /\ Len(t.stack) \in Nat
    <3>1. RequiredStackValues(i.op) \in Nat
      BY <1>5 DEF RequiredStackValues, LegalOps, ConstOps, Unary, Binary
    <3>2. Len(t.stack) \in Nat
      BY <2>5 DEF EvalState
    <3> QED  BY <3>1, <3>2
  <2>7. RequiredStackValues(i.op) <= Len(t.stack)
    BY <1>5, <2>4, <2>6
  <2>8. EvalState(r) /\ r.count = n + 1
    BY <1>5, <2>1, <2>4, <2>5, <2>7, OperateKeeps
  <2> QED  BY <1>1, <1>5, <2>4, <2>8 DEF EvalAfter
<1> QED
  <2>1. \/ s.out # "run"
        \/ \E e \in {"format", "range", "outside", "illegal", "missing"} : r = FailEval(s, e)
        \/ s.at > Len(prog) /\ s.stack # <<>>
        \/ /\ ~(s.at > Len(prog)) /\ ~(s.count > OpsMax) /\ ~(s.at < 1)
           /\ prog[s.at].op \in LegalOps /\ ~(RequiredStackValues(prog[s.at].op) > Len(s.stack))
    BY DEF EvalTurn
  <2> QED  BY <1>2, <1>3, <1>4, <1>5, <2>1

\* The turns of a program, for any number of them.
Turns(g, prog, regs, mem, m) ==
  g = [n \in 0 .. m |-> IF n = 0 THEN {EvalInit}
                        ELSE UNION {EvalTurn(prog, regs, mem, s) : s \in g[n - 1]}]

\* There is a function of the turns: the one that EvalExpression chooses.
LEMMA TurnsExist ==
  ASSUME NEW prog, NEW regs, NEW mem
  PROVE  \A m \in Nat : \E g : Turns(g, prog, regs, mem, m)
<1> DEFINE T(X) == UNION {EvalTurn(prog, regs, mem, s) : s \in X}
           S == {m \in Nat : \E g : Turns(g, prog, regs, mem, m)}
<1>1. 0 \in S
  <2> DEFINE g == [n \in 0 .. 0 |-> {EvalInit}]
  <2>1. \A n \in 0 .. 0 : n = 0
    OBVIOUS
  <2>2. Turns(g, prog, regs, mem, 0)
    BY <2>1 DEF Turns
  <2> QED  BY <2>2
<1>2. ASSUME NEW m \in S PROVE m + 1 \in S
  <2>1. PICK g : Turns(g, prog, regs, mem, m)
    OBVIOUS
  <2> HIDE DEF T
  <2>2. g = [n \in 0 .. m |-> IF n = 0 THEN {EvalInit} ELSE T(g[n - 1])]
    BY <2>1 DEF Turns, T
  <2> DEFINE h == [n \in 0 .. m + 1 |-> IF n = m + 1 THEN T(g[m]) ELSE g[n]]
  <2>3. ASSUME NEW n \in 0 .. m + 1
        PROVE  h[n] = IF n = 0 THEN {EvalInit} ELSE T(h[n - 1])
    <3>1. CASE n = m + 1
      <4>1. n # 0 /\ n - 1 = m /\ m \in 0 .. m + 1 /\ m # m + 1
        BY <3>1
      <4>2. h[n] = T(g[m]) /\ h[m] = g[m]
        BY <3>1, <4>1
      <4> HIDE DEF h
      <4> QED  BY <4>1, <4>2
    <3>2. CASE n \in 0 .. m
      <4>1. n # m + 1 /\ h[n] = g[n]
        BY <3>2
      <4>2. n = 0 => h[n] = {EvalInit}
        BY <2>2, <3>2, <4>1
      <4>3. ASSUME n # 0 PROVE h[n] = T(h[n - 1])
        <5>1. n - 1 \in 0 .. m + 1 /\ n - 1 # m + 1 /\ n - 1 \in 0 .. m
          BY <3>2, <4>3
        <5>2. h[n - 1] = g[n - 1]
          BY <5>1
        <5>3. g[n] = T(g[n - 1])
          BY <2>2, <3>2, <4>3
        <5> QED  BY <4>1, <5>2, <5>3
      <4> QED  BY <4>2, <4>3
    <3> QED  BY <3>1, <3>2
  <2>4. h = [n \in 0 .. m + 1 |-> IF n = 0 THEN {EvalInit} ELSE T(h[n - 1])]
    BY <2>3
  <2> HIDE DEF h
  <2>5. Turns(h, prog, regs, mem, m + 1)
    BY <2>4 DEF Turns, T
  <2> QED  BY <2>5
<1>3. S = Nat
  <2> HIDE DEF S
  <2>1. S \in SUBSET Nat
    BY DEF S
  <2> QED  BY <1>1, <1>2, <2>1, SetInduction
<1> QED  BY <1>3

\* After OpsMax + 2 turns no evaluation runs any more.
LEMMA EvaluationEnds ==
  ASSUME NEW prog, NEW regs, NEW mem, NEW r \in EvalExpression(prog, regs, mem)
  PROVE  r.out # "run" /\ Len(r.stack) <= StackMax
<1> DEFINE M == OpsMax + 2
           after == CHOOSE g : Turns(g, prog, regs, mem, M)
<1>1. M \in Nat /\ OpsMax \in Nat
  BY ExprAssumption
<1>2. EvalExpression(prog, regs, mem) = after[M]
  BY Zenon DEF EvalExpression, Turns
<1>3. Turns(after, prog, regs, mem, M)
  <2> HIDE DEF M
  <2> QED  BY <1>1, TurnsExist
<1> HIDE DEF after
<1>4. /\ after[0] = {EvalInit}
      /\ \A n \in 1 .. M : after[n] = UNION {EvalTurn(prog, regs, mem, s) : s \in after[n - 1]}
  <2> HIDE DEF M
  <2>1. after[0] = {EvalInit}
    BY <1>1, <1>3 DEF Turns
  <2>2. ASSUME NEW n \in 1 .. M
        PROVE  after[n] = UNION {EvalTurn(prog, regs, mem, s) : s \in after[n - 1]}
    <3>1. n \in 0 .. M /\ n # 0
      BY <1>1
    <3> QED  BY <1>3, <3>1 DEF Turns
  <2> QED  BY <2>1, <2>2
<1> DEFINE S == {m \in Nat : m <= M => \A s \in after[m] : EvalAfter(s, m)}
<1>5. 0 \in S
  <2>1. EvalInit.stack = <<>> /\ EvalInit.count = 0
    BY DEF EvalInit
  <2>2. EvalInit.stack \in Seq({}) /\ Len(EvalInit.stack) <= StackMax
    BY <2>1, ExprAssumption
  <2>3. EvalState(EvalInit)
    <3>1. \E at, stack, count, out, value :
            EvalInit = [at |-> at, stack |-> stack, count |-> count, out |-> out, value |-> value]
      BY DEF EvalInit
    <3>2. \E V : EvalInit.stack \in Seq(V)
      BY <2>2
    <3>3. EvalInit.count \in Nat
      BY <2>1
    <3> QED  BY Zenon, <2>2, <3>1, <3>2, <3>3 DEF EvalState
  <2>4. EvalAfter(EvalInit, 0)
    BY <1>1, <2>1, <2>3 DEF EvalAfter
  <2> QED  BY <1>4, <2>4
<1>6. ASSUME NEW m \in S PROVE m + 1 \in S
  <2> SUFFICES ASSUME m + 1 <= M, NEW s \in after[m + 1] PROVE EvalAfter(s, m + 1)
    OBVIOUS
  <2>1. m \in Nat /\ m <= M /\ m + 1 \in 1 .. M /\ (m + 1) - 1 = m
    BY <1>1
  <2>2. PICK t \in after[m] : s \in EvalTurn(prog, regs, mem, t)
    BY <1>4, <2>1
  <2>3. EvalAfter(t, m)
    BY <2>1, <2>2
  <2> QED  BY <2>1, <2>2, <2>3, TurnKeeps
<1>7. S = Nat
  <2> HIDE DEF S
  <2>1. S \in SUBSET Nat
    BY DEF S
  <2> QED  BY <1>5, <1>6, <2>1, SetInduction
<1>8. EvalAfter(r, M)
  BY <1>1, <1>2, <1>7
<1> QED  BY <1>1, <1>8 DEF EvalAfter, EvalState

\* No DWARF expression runs on, reads below its stack or writes past it, for
\* every program and every limit (tacd_dwarf_eval_expression).
THEOREM Expressions == CallSpec => []ExpressionEnds
<1>1. CallInv => ExpressionEnds
  <2> SUFFICES ASSUME CallInv, Returned("expr")
               PROVE  call.result.out # "run" /\ Len(call.result.stack) <= StackMax
    BY DEF ExpressionEnds
  <2>1. call.of.kind = "expr" /\ call.result \in Results(call.of)
    BY Back
  <2>2. call.result \in EvalExpression(call.of.prog, call.of.regs, call.of.mem)
    BY <2>1 DEF Results
  <2> QED  BY <2>2, EvaluationEnds
<1> QED  BY <1>1, ResultOfACall, PTL

-----------------------------------------------------------------------------
(* The calendar.                                                            *)

\* The code's division rounds down, as TLA+'s does.
LEMMA DivIsFloor ==
  \A a \in Nat : Div(a, 4) = a \div 4 /\ Div(a, 100) = a \div 100 /\ Div(a, 400) = a \div 400
BY DEF Div, CDiv, CMod

\* The leap years up to a year are a number.
LEMMA LeapsInteger == \A y \in Int : LeapsThruEndOf(y) \in Int
<1> TAKE y \in Int
<1>1. Div(y, 4) \in Int /\ Div(y, 100) \in Int /\ Div(y, 400) \in Int
  BY DEF Div, CDiv, CMod
<1> QED  BY <1>1 DEF LeapsThruEndOf

\* From the year 0 on they are those of the Gregorian rule.
LEMMA LeapsOf ==
  ASSUME NEW y \in Nat
  PROVE  LeapsThruEndOf(y) = (y \div 4) - (y \div 100) + (y \div 400)
BY DivIsFloor DEF LeapsThruEndOf

\* A leap year adds one.
LEMMA OneMoreLeap ==
  ASSUME NEW y \in Nat \ {0}
  PROVE  LeapsThruEndOf(y) - LeapsThruEndOf(y - 1) = IF IsLeap(y) THEN 1 ELSE 0
<1>1. LeapsThruEndOf(y - 1) = ((y - 1) \div 4) - ((y - 1) \div 100) + ((y - 1) \div 400)
  <2>1. y - 1 \in Nat
    OBVIOUS
  <2> QED  BY <2>1, LeapsOf
<1>2. LeapsThruEndOf(y) = (y \div 4) - (y \div 100) + (y \div 400)
  BY LeapsOf
<1>3. (y \div 4) - ((y - 1) \div 4) = IF y % 4 = 0 THEN 1 ELSE 0
  OBVIOUS
<1>4. (y \div 100) - ((y - 1) \div 100) = IF y % 100 = 0 THEN 1 ELSE 0
  OBVIOUS
<1>5. (y \div 400) - ((y - 1) \div 400) = IF y % 400 = 0 THEN 1 ELSE 0
  OBVIOUS
<1>6. (y % 400 = 0 => y % 100 = 0) /\ (y % 100 = 0 => y % 4 = 0)
  OBVIOUS
<1>7. /\ y \div 4 \in Int /\ y \div 100 \in Int /\ y \div 400 \in Int
      /\ (y - 1) \div 4 \in Int /\ (y - 1) \div 100 \in Int /\ (y - 1) \div 400 \in Int
  OBVIOUS
<1> QED  BY <1>1, <1>2, <1>3, <1>4, <1>5, <1>6, <1>7 DEF IsLeap

\* The difference of two counts is the number of leap years between them.
LEMMA LeapYearsCounted ==
  ASSUME NEW a \in Nat \ {0}
  PROVE  \A n \in Nat : Cardinality(LeapYears(a, a + n - 1)) = LeapsThruEndOf(a + n - 1) - LeapsThruEndOf(a - 1)
<1> DEFINE L(n) == LeapYears(a, a + n - 1)
           S == {n \in Nat : IsFiniteSet(L(n)) /\ Cardinality(L(n)) = LeapsThruEndOf(a + n - 1) - LeapsThruEndOf(a - 1)}
<1>1. 0 \in S
  <2>1. L(0) = {}
    BY DEF LeapYears
  <2>2. IsFiniteSet({}) /\ Cardinality({}) = 0
    BY FS_EmptySet
  <2>3. LeapsThruEndOf(a + 0 - 1) - LeapsThruEndOf(a - 1) = 0
    <3>1. a + 0 - 1 = a - 1 /\ LeapsThruEndOf(a - 1) \in Int
      BY LeapsInteger
    <3> QED  BY <3>1
  <2> HIDE DEF L
  <2> QED  BY <2>1, <2>2, <2>3
<1>2. ASSUME NEW n \in S PROVE n + 1 \in S
  <2> DEFINE y == a + n
  <2>1. y \in Nat \ {0} /\ a + (n + 1) - 1 = y /\ a + n - 1 = y - 1
    OBVIOUS
  <2>2. L(n + 1) = IF IsLeap(y) THEN L(n) \cup {y} ELSE L(n)
    <3>1. a .. y = (a .. (y - 1)) \cup {y}
      OBVIOUS
    <3> QED  BY <2>1, <3>1 DEF LeapYears
  <2>3. y \notin L(n)
    BY <2>1 DEF LeapYears
  <2>4. LeapsThruEndOf(y) - LeapsThruEndOf(y - 1) = IF IsLeap(y) THEN 1 ELSE 0
    BY <2>1, OneMoreLeap
  <2>5. LeapsThruEndOf(y) \in Int /\ LeapsThruEndOf(y - 1) \in Int /\ LeapsThruEndOf(a - 1) \in Int
    BY <2>1, LeapsInteger
  <2>6. IsFiniteSet(L(n)) /\ Cardinality(L(n)) = LeapsThruEndOf(y - 1) - LeapsThruEndOf(a - 1)
    BY <2>1
  <2> HIDE DEF L, y
  <2>7. IsFiniteSet(L(n) \cup {y}) /\ Cardinality(L(n) \cup {y}) = Cardinality(L(n)) + 1
    BY <2>3, <2>6, FS_AddElement
  <2>8. IsFiniteSet(L(n + 1)) /\ Cardinality(L(n + 1)) = LeapsThruEndOf(y) - LeapsThruEndOf(a - 1)
    BY <2>2, <2>4, <2>5, <2>6, <2>7
  <2> QED  BY <2>1, <2>8
<1>3. S = Nat
  <2> HIDE DEF S
  <2>1. S \in SUBSET Nat
    BY DEF S
  <2> QED  BY <1>1, <1>2, <2>1, SetInduction
<1> QED  BY <1>3

\* The first day of a year, by the code's count.
LEMMA YearStartIs ==
  ASSUME NEW y \in Nat \ {0}
  PROVE  YearStart(y) = 365 * (y - 1970) + LeapsThruEndOf(y - 1) - LeapsThruEndOf(1969)
<1>1. LeapsThruEndOf(y - 1) \in Int /\ LeapsThruEndOf(1969) \in Int
  BY LeapsInteger
<1>2. CASE y >= 1970
  <2> DEFINE n == y - 1970
  <2>1. n \in Nat /\ 1970 + n - 1 = y - 1 /\ 1970 - 1 = 1969
    BY <1>2
  <2>2. 1970 \in Nat \ {0}
    OBVIOUS
  <2> HIDE DEF n
  <2>3. Cardinality(LeapYears(1970, 1970 + n - 1)) = LeapsThruEndOf(1970 + n - 1) - LeapsThruEndOf(1970 - 1)
    BY <2>1, <2>2, LeapYearsCounted
  <2>4. Cardinality(LeapYears(1970, y - 1)) = LeapsThruEndOf(y - 1) - LeapsThruEndOf(1969)
    BY <2>1, <2>3
  <2> QED  BY <1>1, <1>2, <2>4 DEF YearStart
<1>3. CASE ~(y >= 1970)
  <2> DEFINE n == 1970 - y
  <2>1. n \in Nat /\ y + n - 1 = 1969
    BY <1>3
  <2> HIDE DEF n
  <2>2. \A m \in Nat : Cardinality(LeapYears(y, y + m - 1)) = LeapsThruEndOf(y + m - 1) - LeapsThruEndOf(y - 1)
    BY LeapYearsCounted
  <2>3. Cardinality(LeapYears(y, 1969)) = LeapsThruEndOf(1969) - LeapsThruEndOf(y - 1)
    BY <2>1, <2>2
  <2> QED  BY <1>1, <1>3, <2>3 DEF YearStart
<1> QED  BY <1>2, <1>3

\* The day that a guess stands for.
DayOf(g) == 365 * (g.y - 1970) + LeapsThruEndOf(g.y - 1) - LeapsThruEndOf(1969) + g.days

\* A guess of the year and the days that remain.
Guess == [y : Int, days : Int]

\* GuessYear goes on by whole years of 365 days and corrects by the leap days.
LEMMA GuessIs ==
  ASSUME NEW g \in Guess
  PROVE  /\ GuessYear(g).y = g.y + (g.days \div 365)
         /\ GuessYear(g).days = (g.days % 365) - (LeapsThruEndOf(GuessYear(g).y - 1) - LeapsThruEndOf(g.y - 1))
         /\ GuessYear(g) \in Guess
         /\ DayOf(GuessYear(g)) = DayOf(g)
<1>1. g.y \in Int /\ g.days \in Int
  BY DEF Guess
<1> DEFINE k == g.days \div 365
           yg == g.y + k
<1>2. k \in Int
  BY <1>1
<1>3. g.days = 365 * k + (g.days % 365) /\ g.days % 365 \in 0 .. 364
  BY <1>1
<1>4. CDiv(g.days, 365) - (IF CMod(g.days, 365) < 0 THEN 1 ELSE 0) = k
  BY <1>1 DEF CDiv, CMod
<1>5. CDiv(g.days, 365) \in Int /\ CMod(g.days, 365) \in Int
  BY <1>1 DEF CDiv, CMod
<1>6. g.y + CDiv(g.days, 365) - (IF CMod(g.days, 365) < 0 THEN 1 ELSE 0) = yg
  BY <1>1, <1>4, <1>5
<1> HIDE DEF k
<1>7. yg \in Int /\ yg - g.y = k
  BY <1>1, <1>2
<1>8. GuessYear(g) = [y |-> yg, days |-> g.days - ((yg - g.y) * 365 + LeapsThruEndOf(yg - 1) - LeapsThruEndOf(g.y - 1))]
  BY <1>6 DEF GuessYear
<1>80. LeapsThruEndOf(yg - 1) \in Int /\ LeapsThruEndOf(g.y - 1) \in Int /\ LeapsThruEndOf(1969) \in Int
  <2>1. yg - 1 \in Int /\ g.y - 1 \in Int /\ 1969 \in Int
    BY <1>1, <1>7
  <2> HIDE DEF yg
  <2> QED  BY <2>1, LeapsInteger
<1>9. g.days - ((yg - g.y) * 365 + LeapsThruEndOf(yg - 1) - LeapsThruEndOf(g.y - 1))
        = (g.days % 365) - (LeapsThruEndOf(yg - 1) - LeapsThruEndOf(g.y - 1))
  BY <1>1, <1>2, <1>3, <1>7, <1>80
<1> DEFINE days == (g.days % 365) - (LeapsThruEndOf(yg - 1) - LeapsThruEndOf(g.y - 1))
<1>10. days \in Int
  BY <1>3, <1>80
<1>11. GuessYear(g) = [y |-> yg, days |-> days]
  BY <1>8, <1>9
<1>12. 365 * (yg - 1970) + LeapsThruEndOf(yg - 1) - LeapsThruEndOf(1969) + days
        = 365 * (g.y - 1970) + LeapsThruEndOf(g.y - 1) - LeapsThruEndOf(1969) + g.days
  BY <1>1, <1>2, <1>3, <1>7, <1>80
<1>13. GuessYear(g).y = yg /\ GuessYear(g).days = days
  BY <1>11
<1>14. GuessYear(g) \in Guess
  <2> HIDE DEF yg, days
  <2> QED  BY <1>7, <1>10, <1>11 DEF Guess
<1>15. DayOf(GuessYear(g)) = DayOf(g)
  BY <1>12, <1>13 DEF DayOf
<1> QED  BY <1>13, <1>14, <1>15 DEF k

\* A guess that is at most a year late is right after one more turn.
LEMMA GuessBack ==
  ASSUME NEW g \in Guess, g.y - 1 \in Nat \ {0}, -365 <= g.days, g.days < 0
  PROVE  YearFound(GuessYear(g)) /\ GuessYear(g).y = g.y - 1
<1> DEFINE y == g.y - 1
<1>1. g.y \in Int /\ g.days \in Int
  BY DEF Guess
<1>2. g.days \div 365 = -1 /\ g.days % 365 = g.days + 365
  BY <1>1, SMT
<1>3. GuessYear(g).y = y
  BY <1>1, <1>2, GuessIs
<1>6. LeapsThruEndOf(y) \in Int /\ LeapsThruEndOf(y - 1) \in Int
  <2>1. y \in Int /\ y - 1 \in Int
    OBVIOUS
  <2> QED  BY <2>1, LeapsInteger
<1>4. GuessYear(g).days = g.days + 365 - (LeapsThruEndOf(y - 1) - LeapsThruEndOf(y))
  <2> DEFINE h == GuessYear(g)
  <2>1. h.days = (g.days % 365) - (LeapsThruEndOf(h.y - 1) - LeapsThruEndOf(g.y - 1))
    BY GuessIs
  <2>2. g.y - 1 = y /\ h.y = y
    BY <1>3
  <2> HIDE DEF y, h
  <2>3. LeapsThruEndOf(h.y - 1) = LeapsThruEndOf(y - 1)
    BY <2>2
  <2>4. LeapsThruEndOf(g.y - 1) = LeapsThruEndOf(y)
    BY <2>2
  <2>5. h.days = g.days + 365 - (LeapsThruEndOf(y - 1) - LeapsThruEndOf(y))
    BY <1>1, <1>2, <1>6, <2>1, <2>3, <2>4
  <2> QED  BY <2>5 DEF h
<1>5. LeapsThruEndOf(y) - LeapsThruEndOf(y - 1) = IF IsLeap(y) THEN 1 ELSE 0
  BY OneMoreLeap
<1> HIDE DEF y
<1>7. GuessYear(g).days \in 0 .. (IF IsLeap(y) THEN 365 ELSE 364)
  BY <1>1, <1>4, <1>5, <1>6
<1> QED  BY <1>3, <1>7 DEF YearFound, y

\* So is one that is at most a year early.
LEMMA GuessOn ==
  ASSUME NEW g \in Guess, g.y \in Nat \ {0}, 365 <= g.days, g.days < 730, ~YearFound(g)
  PROVE  YearFound(GuessYear(g)) /\ GuessYear(g).y = g.y + 1
<1> DEFINE y == g.y
<1>1. y \in Int /\ g.days \in Int
  BY DEF Guess
<1>2. g.days \div 365 = 1 /\ g.days % 365 = g.days - 365
  BY <1>1, SMT
<1>3. GuessYear(g).y = y + 1
  BY <1>1, <1>2, GuessIs
<1>4. GuessYear(g).days = g.days - 365 - (LeapsThruEndOf(y) - LeapsThruEndOf(y - 1))
  <2>1. GuessYear(g).days = (g.days % 365) - (LeapsThruEndOf(GuessYear(g).y - 1) - LeapsThruEndOf(g.y - 1))
    BY GuessIs
  <2>2. GuessYear(g).y - 1 = y
    BY <1>1, <1>3
  <2> QED  BY <1>2, <2>1, <2>2
<1>5. LeapsThruEndOf(y) - LeapsThruEndOf(y - 1) = IF IsLeap(y) THEN 1 ELSE 0
  BY OneMoreLeap
<1>6. LeapsThruEndOf(y) \in Int /\ LeapsThruEndOf(y - 1) \in Int
  <2>1. y \in Int /\ y - 1 \in Int
    BY <1>1
  <2> QED  BY <2>1, LeapsInteger
<1>7. g.days >= IF IsLeap(y) THEN 366 ELSE 365
  BY <1>1 DEF YearFound
<1> HIDE DEF y
<1>8. GuessYear(g).days \in 0 .. 364
  BY <1>1, <1>4, <1>5, <1>6, <1>7
<1> QED  BY <1>3, <1>8 DEF YearFound, y

\* The leap days of a thousand years are less than a year.
LEMMA FewLeaps ==
  ASSUME NEW y \in Int, 968 <= y, y <= 2971
  PROVE  LET leaps == LeapsThruEndOf(y) - LeapsThruEndOf(1969)
         IN  leaps \in Int /\ -300 <= leaps /\ leaps <= 300 /\ (y >= 1969 => leaps >= 0) /\ (y <= 1969 => leaps <= 0)
<1>1. y \in Nat
  BY SMT
<1>2. LeapsThruEndOf(y) = (y \div 4) - (y \div 100) + (y \div 400)
  BY <1>1, LeapsOf
<1>3. LeapsThruEndOf(1969) = (1969 \div 4) - (1969 \div 100) + (1969 \div 400)
  BY LeapsOf
<1>4. LeapsThruEndOf(1969) = 477
  BY SMT, <1>3
<1>5. /\ y \div 4 \in Int /\ y \div 100 \in Int /\ y \div 400 \in Int
      /\ 4 * (y \div 4) <= y /\ y < 4 * (y \div 4) + 4
      /\ 100 * (y \div 100) <= y /\ y < 100 * (y \div 100) + 100
      /\ 400 * (y \div 400) <= y /\ y < 400 * (y \div 400) + 400
  BY SMT
<1> QED  BY SMT, <1>2, <1>4, <1>5

\* Two guesses are enough for a thousand years on both sides of 1970.
LEMMA TwoGuesses ==
  ASSUME NEW days \in Int, -365 * 1001 <= days, days <= 365 * 1001,
         NEW g0, g0 = [y |-> 1970, days |-> days],
         NEW g1, g1 = IF YearFound(g0) THEN g0 ELSE GuessYear(g0),
         NEW g2, g2 = IF YearFound(g1) THEN g1 ELSE GuessYear(g1)
  PROVE  YearFound(g2) /\ g2 \in Guess /\ 968 <= g2.y /\ DayOf(g2) = days
<1>1. g0 \in Guess /\ g0.y = 1970 /\ g0.days = days
  BY DEF Guess
<1>2. DayOf(g0) = days
  <2>1. 1970 - 1 = 1969 /\ LeapsThruEndOf(1969) \in Int
    BY LeapsInteger
  <2> QED  BY <1>1, <2>1 DEF DayOf
<1>3. CASE YearFound(g0)
  <2>1. g2 = g0
    BY <1>3
  <2> QED  BY SMT, <1>1, <1>2, <1>3, <2>1
<1>4. CASE ~YearFound(g0)
  <2> DEFINE k == days \div 365
             y == 1970 + k
             leaps == LeapsThruEndOf(y - 1) - LeapsThruEndOf(1969)
  <2>1. k \in Int /\ -1001 <= k /\ k <= 1001
    BY SMT
  <2>2. days % 365 \in Int /\ 0 <= days % 365 /\ days % 365 < 365
    BY SMT
  <2>3. g1 \in Guess /\ g1.y = y /\ g1.days = (days % 365) - leaps /\ DayOf(g1) = days
    <3>1. g1 = GuessYear(g0)
      BY <1>4
    <3>2. 1970 - 1 = 1969
      OBVIOUS
    <3>3. g1 \in Guess /\ DayOf(g1) = days
      BY <1>1, <1>2, <3>1, GuessIs
    <3>4. g1.y = y
      BY <1>1, <3>1, GuessIs
    <3>5. g1.days = (g0.days % 365) - (LeapsThruEndOf(g1.y - 1) - LeapsThruEndOf(g0.y - 1))
      BY <1>1, <3>1, GuessIs
    <3> QED  BY <1>1, <3>2, <3>3, <3>4, <3>5
  <2>4. y \in Int /\ 969 <= y /\ y <= 2971
    BY SMT, <2>1
  <2>5. leaps \in Int /\ -300 <= leaps /\ leaps <= 300 /\ (y >= 1970 => leaps >= 0) /\ (y < 1970 => leaps <= 0)
    <3> HIDE DEF y
    <3>1. y - 1 \in Int /\ 968 <= y - 1 /\ y - 1 <= 2971 /\ (y >= 1970 => y - 1 >= 1969) /\ (y < 1970 => y - 1 <= 1969)
      BY SMT, <2>4
    <3> QED  BY <3>1, FewLeaps
  <2> HIDE DEF leaps, y, k
  <2>6. CASE YearFound(g1)
    <3>1. g2 = g1
      BY <2>6
    <3> QED  BY SMT, <2>3, <2>4, <2>6, <3>1
  <2>7. CASE ~YearFound(g1) /\ y >= 1970
    <3>1. g1.days \in Int /\ g1.days < 365 /\ -365 <= g1.days
      BY SMT, <2>2, <2>3, <2>5, <2>7
    <3>2. g1.days < 0
      BY SMT, <2>7, <3>1 DEF YearFound
    <3>3. g1.y - 1 \in Nat \ {0}
      BY SMT, <2>3, <2>4
    <3>4. g2 = GuessYear(g1)
      BY <2>7
    <3>5. YearFound(g2) /\ g2.y = g1.y - 1
      BY <2>3, <3>1, <3>2, <3>3, <3>4, GuessBack
    <3>6. 968 <= g2.y
      BY SMT, <2>3, <2>4, <3>5
    <3> QED  BY <2>3, <3>4, <3>5, <3>6, GuessIs
  <2>8. CASE ~YearFound(g1) /\ y < 1970
    <3>1. g1.days \in Int /\ g1.days < 730 /\ 0 <= g1.days
      BY SMT, <2>2, <2>3, <2>5, <2>8
    <3>2. 365 <= g1.days
      BY SMT, <2>8, <3>1 DEF YearFound
    <3>3. g1.y \in Nat \ {0}
      BY SMT, <2>3, <2>4
    <3>4. g2 = GuessYear(g1)
      BY <2>8
    <3>5. YearFound(g2) /\ g2.y = g1.y + 1
      BY <2>3, <2>8, <3>1, <3>2, <3>3, <3>4, GuessOn
    <3>6. 968 <= g2.y
      BY SMT, <2>3, <2>4, <3>5
    <3> QED  BY <2>3, <3>4, <3>5, <3>6, GuessIs
  <2> QED  BY SMT, <2>4, <2>6, <2>7, <2>8
<1> QED  BY <1>3, <1>4

\* The year that the code finds is the year of the day.
LEMMA YearOfRight ==
  ASSUME NEW days \in Int, -365 * 1001 <= days, days <= 365 * 1001
  PROVE  LET g == YearOf(days) IN YearFound(g) /\ g \in Guess /\ 968 <= g.y /\ DayOf(g) = days
<1> DEFINE V == Guess
           c == [y |-> 1970, days |-> days]
           Turn(g) == IF YearFound(g) THEN g ELSE GuessYear(g)
           step == [p \in V \X (1 .. GuessesMax) |-> Turn(p[1])]
           Eq(g) == g = [n \in 0 .. GuessesMax |-> IF n = 0 THEN c ELSE Turn(g[n - 1])]
           guess == CHOOSE g : Eq(g)
<1>1. c \in V /\ GuessesMax \in Nat /\ GuessesMax = 4
  BY DEF Guess, GuessesMax
<1>2. ASSUME NEW v \in V PROVE Turn(v) \in V
  BY GuessIs
<1>3. \E g : Eq(g)
  <2> HIDE DEF V, c, Turn
  <2>1. step \in [V \X (1 .. GuessesMax) -> V]
    BY <1>2
  <2>2. PICK g : Recursion(g, V, c, GuessesMax, step)
    <3> HIDE DEF step
    <3> QED  BY <1>1, <2>1, RecursionExists
  <2>3. ASSUME NEW n \in 0 .. GuessesMax PROVE g[n] = IF n = 0 THEN c ELSE Turn(g[n - 1])
    <3>1. CASE n = 0
      BY <2>2, <3>1 DEF Recursion
    <3>2. CASE n # 0
      <4>1. n \in 1 .. GuessesMax /\ n - 1 \in 0 .. GuessesMax
        BY <1>1, <3>2
      <4>2. <<g[n - 1], n>> \in V \X (1 .. GuessesMax)
        BY <2>2, <4>1 DEF Recursion
      <4> QED  BY <2>2, <3>2, <4>1, <4>2 DEF Recursion
    <3> QED  BY <3>1, <3>2
  <2>4. Eq(g)
    BY <2>2, <2>3 DEF Recursion
  <2> QED  BY <2>4
<1>4. Eq(guess)
  <2> HIDE DEF Eq
  <2> QED  BY <1>3
<1>5. YearOf(days) = guess[GuessesMax]
  BY Zenon DEF YearOf
<1> HIDE DEF guess
<1>6. guess[0] = c /\ \A n \in 1 .. 4 : guess[n] = Turn(guess[n - 1])
  <2> HIDE DEF Turn, c
  <2>1. guess[0] = c
    BY <1>1, <1>4
  <2>2. ASSUME NEW n \in 1 .. 4 PROVE guess[n] = Turn(guess[n - 1])
    <3>1. n \in 0 .. GuessesMax /\ n # 0
      BY <1>1
    <3> QED  BY <1>4, <3>1
  <2> QED  BY <2>1, <2>2
<1> HIDE DEF Turn, Eq, c, V
<1>7. guess[1] = Turn(guess[0]) /\ guess[2] = Turn(guess[1]) /\ guess[3] = Turn(guess[2]) /\ guess[4] = Turn(guess[3])
  <2>1. 1 \in 1 .. 4 /\ 2 \in 1 .. 4 /\ 3 \in 1 .. 4 /\ 4 \in 1 .. 4 /\ 1 - 1 = 0 /\ 2 - 1 = 1 /\ 3 - 1 = 2 /\ 4 - 1 = 3
    OBVIOUS
  <2> QED  BY <1>6, <2>1
<1>8. YearFound(guess[2]) /\ guess[2] \in Guess /\ 968 <= guess[2].y /\ DayOf(guess[2]) = days
  <2>1. guess[0] = [y |-> 1970, days |-> days]
    BY <1>6 DEF c
  <2>2. guess[1] = (IF YearFound(guess[0]) THEN guess[0] ELSE GuessYear(guess[0]))
    BY <1>7 DEF Turn
  <2>3. guess[2] = (IF YearFound(guess[1]) THEN guess[1] ELSE GuessYear(guess[1]))
    BY <1>7 DEF Turn
  <2> QED  BY <2>1, <2>2, <2>3, TwoGuesses
<1>9. guess[4] = guess[2]
  BY <1>7, <1>8 DEF Turn
<1> QED  BY <1>1, <1>5, <1>8, <1>9

-----------------------------------------------------------------------------

\* The table of the code is the sum of the months.
LEMMA MonthStartIs ==
  ASSUME NEW y
  PROVE  \A month \in 0 .. 11 : MonthStart(y, month) = MonYday(IsLeap(y))[month + 1]
<1> DEFINE L == MonthLength(y)
           step == [p \in Int \X (1 .. 11) |-> p[1] + L[p[2]]]
           Eq(g) == g = [k \in 0 .. 11 |-> IF k = 0 THEN 0 ELSE g[k - 1] + L[k]]
           upto == CHOOSE g : Eq(g)
<1>1. \A k \in 1 .. 11 : L[k] \in Int
  BY DEF MonthLength
<1>2. \E g : Eq(g)
  <2> HIDE DEF L
  <2>1. step \in [Int \X (1 .. 11) -> Int]
    BY <1>1
  <2>2. PICK g : Recursion(g, Int, 0, 11, step)
    <3> HIDE DEF step
    <3>1. 0 \in Int /\ 11 \in Nat
      OBVIOUS
    <3> QED  BY <2>1, <3>1, RecursionExists
  <2>3. ASSUME NEW n \in 0 .. 11 PROVE g[n] = IF n = 0 THEN 0 ELSE g[n - 1] + L[n]
    <3>1. CASE n = 0
      BY <2>2, <3>1 DEF Recursion
    <3>2. CASE n # 0
      <4>1. n \in 1 .. 11 /\ n - 1 \in 0 .. 11
        BY <3>2
      <4>2. <<g[n - 1], n>> \in Int \X (1 .. 11)
        BY <2>2, <4>1 DEF Recursion
      <4>3. g[n] = step[<<g[n - 1], n>>]
        BY <2>2, <4>1 DEF Recursion
      <4> QED  BY <3>2, <4>2, <4>3
    <3> QED  BY <3>1, <3>2
  <2>4. Eq(g)
    BY <2>2, <2>3 DEF Recursion
  <2> QED  BY <2>4
<1>3. Eq(upto)
  <2> HIDE DEF Eq
  <2> QED  BY <1>2
<1>4. \A month : MonthStart(y, month) = upto[month]
  BY Zenon DEF MonthStart
<1> HIDE DEF upto
<1>5. upto[0] = 0 /\ \A k \in 1 .. 11 : upto[k] = upto[k - 1] + L[k]
  <2> HIDE DEF L
  <2>1. upto[0] = 0
    BY <1>3
  <2>2. ASSUME NEW k \in 1 .. 11 PROVE upto[k] = upto[k - 1] + L[k]
    <3>1. k \in 0 .. 11 /\ k # 0
      OBVIOUS
    <3> QED  BY <1>3, <3>1
  <2> QED  BY <2>1, <2>2
<1> DEFINE feb == IF IsLeap(y) THEN 29 ELSE 28
<1>6. /\ L[1] = 31 /\ L[2] = feb /\ L[3] = 31 /\ L[4] = 30 /\ L[5] = 31 /\ L[6] = 30
      /\ L[7] = 31 /\ L[8] = 31 /\ L[9] = 30 /\ L[10] = 31 /\ L[11] = 30
  BY DEF MonthLength
<1>7. feb \in {28, 29} /\ (IsLeap(y) <=> feb = 29)
  OBVIOUS
<1> HIDE DEF L, Eq, feb
<1>8. /\ upto[1] = 31 /\ upto[2] = 31 + feb /\ upto[3] = 62 + feb /\ upto[4] = 92 + feb /\ upto[5] = 123 + feb
      /\ upto[6] = 153 + feb
  <2>1. upto[1] = upto[0] + L[1]
    BY <1>5
  <2>2. upto[2] = upto[1] + L[2]
    BY <1>5
  <2>3. upto[3] = upto[2] + L[3]
    BY <1>5
  <2>4. upto[4] = upto[3] + L[4]
    BY <1>5
  <2>5. upto[5] = upto[4] + L[5]
    BY <1>5
  <2>6. upto[6] = upto[5] + L[6]
    BY <1>5
  <2> QED  BY <1>5, <1>6, <1>7, <2>1, <2>2, <2>3, <2>4, <2>5, <2>6
<1>9. /\ upto[7] = 184 + feb /\ upto[8] = 215 + feb /\ upto[9] = 245 + feb /\ upto[10] = 276 + feb
      /\ upto[11] = 306 + feb
  <2>1. upto[7] = upto[6] + L[7]
    BY <1>5
  <2>2. upto[8] = upto[7] + L[8]
    BY <1>5
  <2>3. upto[9] = upto[8] + L[9]
    BY <1>5
  <2>4. upto[10] = upto[9] + L[10]
    BY <1>5
  <2>5. upto[11] = upto[10] + L[11]
    BY <1>5
  <2> QED  BY <1>6, <1>7, <1>8, <2>1, <2>2, <2>3, <2>4, <2>5
<1>10. ASSUME NEW month \in 0 .. 11 PROVE upto[month] = MonYday(IsLeap(y))[month + 1]
  <2> DEFINE starts == MonYday(IsLeap(y))
  <2>1. /\ starts[1] = 0 /\ starts[2] = 31 /\ starts[3] = 31 + feb /\ starts[4] = 62 + feb /\ starts[5] = 92 + feb
        /\ starts[6] = 123 + feb
    BY <1>7 DEF MonYday
  <2>2. /\ starts[7] = 153 + feb /\ starts[8] = 184 + feb /\ starts[9] = 215 + feb /\ starts[10] = 245 + feb
        /\ starts[11] = 276 + feb /\ starts[12] = 306 + feb
    BY <1>7 DEF MonYday
  <2>3. \/ month = 0 \/ month = 1 \/ month = 2 \/ month = 3 \/ month = 4 \/ month = 5 \/ month = 6
        \/ month = 7 \/ month = 8 \/ month = 9 \/ month = 10 \/ month = 11
    OBVIOUS
  <2> HIDE DEF starts
  <2>4. upto[month] = starts[month + 1]
    BY <1>5, <1>8, <1>9, <2>1, <2>2, <2>3
  <2> QED  BY <2>4 DEF starts
<1> QED  BY <1>4, <1>10

\* A day of a year has a month, and the table gives it its length.
LEMMA MonthOf ==
  ASSUME NEW y, NEW days \in Nat, days < (IF IsLeap(y) THEN 366 ELSE 365)
  PROVE  LET starts == MonYday(IsLeap(y))
         IN  /\ \E k \in 0 .. 11 : starts[k + 1] <= days /\ days < starts[k + 2]
             /\ \A k \in 0 .. 11 : /\ starts[k + 1] \in Nat
                                   /\ starts[k + 2] - starts[k + 1] = MonthLength(y)[k + 1]
<1> DEFINE starts == MonYday(IsLeap(y))
           feb == IF IsLeap(y) THEN 29 ELSE 28
           L == MonthLength(y)
<1>1. feb \in {28, 29} /\ (IsLeap(y) <=> feb = 29) /\ days < 337 + feb
  OBVIOUS
<1>2. /\ L[1] = 31 /\ L[2] = feb /\ L[3] = 31 /\ L[4] = 30 /\ L[5] = 31 /\ L[6] = 30
      /\ L[7] = 31 /\ L[8] = 31 /\ L[9] = 30 /\ L[10] = 31 /\ L[11] = 30 /\ L[12] = 31
  BY DEF MonthLength
<1> HIDE DEF feb
<1>3. /\ starts[1] = 0 /\ starts[2] = 31 /\ starts[3] = 31 + feb /\ starts[4] = 62 + feb /\ starts[5] = 92 + feb
      /\ starts[6] = 123 + feb
  BY <1>1 DEF MonYday
<1>4. /\ starts[7] = 153 + feb /\ starts[8] = 184 + feb /\ starts[9] = 215 + feb /\ starts[10] = 245 + feb
      /\ starts[11] = 276 + feb /\ starts[12] = 306 + feb /\ starts[13] = 337 + feb
  BY <1>1 DEF MonYday
<1> HIDE DEF starts, L
<1>5. \E k \in 0 .. 11 : starts[k + 1] <= days /\ days < starts[k + 2]
  <2> DEFINE In(k) == starts[k + 1] <= days /\ days < starts[k + 2]
  <2>1. (In(0) \/ In(1) \/ In(2) \/ In(3) \/ In(4) \/ In(5)) \/ (In(6) \/ In(7) \/ In(8) \/ In(9) \/ In(10) \/ In(11))
    BY <1>1, <1>3, <1>4
  <2> HIDE DEF In
  <2>2. \E k \in 0 .. 11 : In(k)
    BY <2>1
  <2> QED  BY <2>2 DEF In
<1>6. ASSUME NEW k \in 0 .. 11
      PROVE  starts[k + 1] \in Nat /\ starts[k + 2] - starts[k + 1] = L[k + 1]
  <2>1. \/ k = 0 \/ k = 1 \/ k = 2 \/ k = 3 \/ k = 4 \/ k = 5 \/ k = 6
        \/ k = 7 \/ k = 8 \/ k = 9 \/ k = 10 \/ k = 11
    OBVIOUS
  <2> QED  BY <1>1, <1>2, <1>3, <1>4, <2>1
<1> QED  BY <1>5, <1>6 DEF starts, L

\* The seconds of a day as hours, minutes and seconds.
LEMMA ClockOf ==
  ASSUME NEW sec \in Int, 0 <= sec, sec < 86400
  PROVE  /\ sec \div 3600 \in 0 .. 23 /\ (sec % 3600) \div 60 \in 0 .. 59 /\ sec % 60 \in 0 .. 59
         /\ (sec \div 3600) * 3600 + ((sec % 3600) \div 60) * 60 + (sec % 60) = sec
<1> DEFINE hours == sec \div 3600
           rest == sec % 3600
           minutes == rest \div 60
<1>1. hours \in Int /\ rest \in Int /\ 0 <= rest /\ rest < 3600 /\ sec = hours * 3600 + rest
  BY SMT
<1>2. sec % 60 = rest % 60
  BY SMT
<1> HIDE DEF hours, rest
<1>3. 0 <= hours /\ hours < 24
  BY SMT, <1>1
<1>4. minutes \in Int /\ rest % 60 \in Int /\ 0 <= rest % 60 /\ rest % 60 < 60 /\ rest = minutes * 60 + (rest % 60)
  BY SMT, <1>1
<1> HIDE DEF minutes
<1>5. 0 <= minutes /\ minutes < 60
  BY SMT, <1>1, <1>4
<1>6. hours \in 0 .. 23 /\ minutes \in 0 .. 59 /\ rest % 60 \in 0 .. 59
  BY SMT, <1>1, <1>3, <1>4, <1>5
<1>7. hours * 3600 + minutes * 60 + (rest % 60) = sec
  BY SMT, <1>1, <1>4
<1> QED  BY <1>2, <1>6, <1>7 DEF hours, minutes, rest

\* Whatever C's division does with a time before 1970, days and seconds add up
\* to the time.
LEMMA DaysAndSeconds ==
  ASSUME NEW time \in Int, NEW gmtoff \in Int, -86400 <= gmtoff, gmtoff <= 86400,
         -365 * 1000 <= CDiv(time, 86400), CDiv(time, 86400) <= 365 * 1000
  PROVE  LET rem == CMod(time, 86400) + gmtoff
             day == CDiv(time, 86400) + rem \div 86400
             sec == rem % 86400
         IN  /\ day \in Int /\ -365 * 1001 <= day /\ day <= 365 * 1001
             /\ sec \in Int /\ 0 <= sec /\ sec < 86400
             /\ (day - (time \div 86400)) * 86400 + sec = (time % 86400) + gmtoff
<1> DEFINE q == CDiv(time, 86400)
           rem == CMod(time, 86400) + gmtoff
<1>1. q \in Int
  BY SMT DEF CDiv
<1>2. CMod(time, 86400) = time - 86400 * q
  BY DEF CMod
<1>3. -86400 < time - 86400 * q /\ time - 86400 * q < 86400
  BY SMT DEF CDiv
<1> HIDE DEF q
<1>4. rem \in Int /\ -2 * 86400 < rem /\ rem < 2 * 86400 /\ rem = time - 86400 * q + gmtoff
  BY SMT, <1>1, <1>2, <1>3
<1> HIDE DEF rem
<1>5. /\ rem \div 86400 \in Int /\ -2 <= rem \div 86400 /\ rem \div 86400 <= 1
      /\ rem = 86400 * (rem \div 86400) + (rem % 86400)
      /\ rem % 86400 \in Int /\ 0 <= rem % 86400 /\ rem % 86400 < 86400
  BY SMT, <1>4
<1>6. time \div 86400 \in Int /\ time % 86400 \in Int /\ time = 86400 * (time \div 86400) + (time % 86400)
  BY SMT
<1>7. -365 * 1000 <= q /\ q <= 365 * 1000
  BY DEF q
<1> DEFINE day == q + rem \div 86400
<1>8. day \in Int /\ -365 * 1001 <= day /\ day <= 365 * 1001
  BY SMT, <1>1, <1>5, <1>7
<1>9. (day - (time \div 86400)) * 86400 + (rem % 86400) = (time % 86400) + gmtoff
  BY SMT, <1>1, <1>4, <1>5, <1>6
<1> QED  BY <1>5, <1>8, <1>9 DEF q, rem

\* The date of every time within a thousand years of the epoch, in every zone,
\* is one of the calendar and stands for that time
\* (tacc_libc_support_localtime_r).
THEOREM LocalTimes == CallSpec => []LocalTimeRight
<1>1. CallInv => LocalTimeRight
  <2> SUFFICES ASSUME CallInv, Returned("time") PROVE LocalTimeRight
    BY DEF LocalTimeRight
  <2> DEFINE c == call.of
             t == call.result
             rem == CMod(c.time, SecsPerDay) + c.gmtoff
             days == CDiv(c.time, SecsPerDay) + rem \div SecsPerDay
             sec == rem % SecsPerDay
             year == YearOf(days)
             starts == MonYday(IsLeap(year.y))
             In(k) == starts[k + 1] <= year.days /\ year.days < starts[k + 2]
             mon == CHOOSE k \in 0 .. 11 : In(k)
  <2>1. c \in Calls /\ c.kind = "time" /\ t \in Results(c)
    BY Back
  <2>2. t = LocalTime(c.time, c.gmtoff)
    BY <2>1 DEF Results
  <2>3. /\ c.time \in Int /\ c.gmtoff \in Int /\ -SecsPerDay <= c.gmtoff /\ c.gmtoff <= SecsPerDay
        /\ -365 * 1000 <= CDiv(c.time, SecsPerDay) /\ CDiv(c.time, SecsPerDay) <= 365 * 1000
    <3>1. TimeCall(c)
      BY <2>1, CallAssumption DEF EmergencyCall, ReadCall
    <3> QED  BY Zenon, <3>1 DEF TimeCall, YearsMax
  <2>4. t = [year |-> year.y, mon |-> mon, mday |-> year.days - starts[mon + 1] + 1, yday |-> year.days,
             wday |-> (4 + days) % 7,
             hour |-> sec \div 3600, min |-> (sec % 3600) \div 60, sec |-> sec % 60]
    BY Zenon, <2>2 DEF LocalTime
  <2>5. /\ days \in Int /\ -365 * 1001 <= days /\ days <= 365 * 1001
        /\ sec \in Int /\ 0 <= sec /\ sec < SecsPerDay
        /\ (days - (c.time \div SecsPerDay)) * SecsPerDay + sec = (c.time % SecsPerDay) + c.gmtoff
    <3> HIDE DEF c
    <3> QED  BY <2>3, DaysAndSeconds DEF SecsPerDay
  <2> HIDE DEF c, t, days, sec
  <2>6. YearFound(year) /\ year \in Guess /\ 968 <= year.y /\ DayOf(year) = days
    BY <2>5, YearOfRight
  <2> HIDE DEF year
  <2>7. year.y \in Nat \ {0} /\ year.days \in Nat /\ year.days < (IF IsLeap(year.y) THEN 366 ELSE 365)
    BY SMT, <2>6 DEF YearFound, Guess
  <2>8. /\ \E k \in 0 .. 11 : In(k)
        /\ \A k \in 0 .. 11 : /\ starts[k + 1] \in Nat
                              /\ starts[k + 2] - starts[k + 1] = MonthLength(year.y)[k + 1]
    BY <2>7, MonthOf
  <2> HIDE DEF In
  <2>9. mon \in 0 .. 11 /\ In(mon)
    BY <2>8
  <2> HIDE DEF mon, starts
  <2>10. t.mon = mon /\ t.year = year.y /\ t.mday = year.days - starts[mon + 1] + 1 /\ t.yday = year.days
    BY <2>4
  <2>11. /\ t.wday = (4 + days) % 7 /\ t.hour = sec \div 3600 /\ t.min = (sec % 3600) \div 60 /\ t.sec = sec % 60
    BY <2>4
  <2>12. MonthStart(year.y, mon) = starts[mon + 1]
    BY <2>9, MonthStartIs DEF starts
  <2>13. starts[mon + 1] \in Nat /\ starts[mon + 2] - starts[mon + 1] = MonthLength(year.y)[mon + 1]
    BY <2>8, <2>9
  <2>14. starts[mon + 1] <= year.days /\ year.days < starts[mon + 2]
    BY <2>9 DEF In
  <2> DEFINE yday == MonthStart(t.year, t.mon) + t.mday - 1
             day == YearStart(t.year) + yday
  <2>15. yday = year.days
    BY <2>7, <2>10, <2>12, <2>13
  <2>16. day = days
    <3>1. YearStart(year.y) = 365 * (year.y - 1970) + LeapsThruEndOf(year.y - 1) - LeapsThruEndOf(1969)
      BY <2>7, YearStartIs
    <3> QED  BY <2>6, <2>10, <2>15, <3>1 DEF DayOf
  <2>17. t.mon \in 0 .. 11 /\ t.mday \in 1 .. MonthLength(t.year)[t.mon + 1] /\ t.yday = yday
    <3>1. starts[mon + 2] \in Int
      <4>1. mon + 1 \in 0 .. 11 \/ mon = 11
        BY <2>9
      <4>2. mon = 11 => starts[mon + 2] \in Int
        BY DEF starts, MonYday
      <4>3. mon + 1 \in 0 .. 11 => starts[(mon + 1) + 1] \in Nat
        BY <2>8
      <4>4. mon + 1 + 1 = mon + 2
        BY <2>9
      <4> QED  BY <4>1, <4>2, <4>3, <4>4
    <3>2. t.mday \in 1 .. MonthLength(year.y)[mon + 1]
      BY <2>7, <2>10, <2>13, <2>14, <3>1
    <3> QED  BY <2>9, <2>10, <2>15, <3>2
  <2>18. t.hour \in 0 .. 23 /\ t.min \in 0 .. 59 /\ t.sec \in 0 .. 59
         /\ t.hour * 3600 + t.min * 60 + t.sec = sec
    <3>1. sec \in Int /\ 0 <= sec /\ sec < 86400
      BY <2>5 DEF SecsPerDay
    <3> QED  BY <2>11, <3>1, ClockOf
  <2>19. (day - (c.time \div SecsPerDay)) * SecsPerDay + t.hour * 3600 + t.min * 60 + t.sec
           = (c.time % SecsPerDay) + c.gmtoff
    <3> DEFINE a == (days - (c.time \div SecsPerDay)) * SecsPerDay
    <3>1. a \in Int
      BY SMT, <2>3, <2>5 DEF SecsPerDay
    <3>2. t.hour \in Int /\ t.min \in Int /\ t.sec \in Int
      BY <2>18
    <3>3. a + sec = (c.time % SecsPerDay) + c.gmtoff
      BY <2>5
    <3> HIDE DEF a, day
    <3>4. a + t.hour * 3600 + t.min * 60 + t.sec = a + sec
      BY SMT, <2>18, <3>1, <3>2
    <3> QED  BY <2>16, <3>3, <3>4 DEF a
  <2>20. t.wday = (4 + day) % 7
    BY <2>11, <2>16
  <2> QED  BY <2>17, <2>18, <2>19, <2>20 DEF LocalTimeRight, c, t
<1> QED  BY <1>1, ResultOfACall, PTL

-----------------------------------------------------------------------------
(* Memory of the process.                                                   *)

\* A set of numbers has a least one.
LEMMA LeastExists ==
  ASSUME NEW S \in SUBSET Nat, S # {}
  PROVE  \E k \in S : \A h \in S : k <= h
<1> SUFFICES ASSUME \A k \in S : \E h \in S : h < k PROVE FALSE
  OBVIOUS
<1> DEFINE T == {n \in Nat : \A m \in 0 .. n : m \notin S}
<1>1. 0 \in T
  OBVIOUS
<1>2. ASSUME NEW n \in T PROVE n + 1 \in T
  <2>1. n + 1 \notin S
    <3> SUFFICES ASSUME n + 1 \in S PROVE FALSE
      OBVIOUS
    <3>1. PICK h \in S : h < n + 1
      OBVIOUS
    <3>2. h \in 0 .. n
      BY <3>1
    <3> QED  BY <3>2
  <2>2. ASSUME NEW m \in 0 .. n + 1 PROVE m \notin S
    <3>1. m \in 0 .. n \/ m = n + 1
      OBVIOUS
    <3> QED  BY <2>1, <3>1
  <2> QED  BY <2>2
<1>3. T = Nat
  <2> HIDE DEF T
  <2>1. T \in SUBSET Nat
    BY DEF T
  <2> QED  BY <1>1, <1>2, <2>1, SetInduction
<1>4. \A n \in Nat : n \notin S
  BY <1>3
<1> QED  BY <1>4

\* Quotient and remainder are unique.
LEMMA DivUnique ==
  ASSUME NEW m \in Nat \ {0}, NEW q \in Int, NEW r \in Int, 0 <= r, r < m
  PROVE  (m * q + r) \div m = q /\ (m * q + r) % m = r
<1> DEFINE a == m * q + r
           p == a \div m
           s == a % m
<1>1. a \in Int /\ p \in Int /\ s \in Int /\ a = m * p + s /\ 0 <= s /\ s < m
  OBVIOUS
<1>2. m * (p - q) = r - s
  BY <1>1
<1> HIDE DEF a, p, s
<1>3. p = q
  <2>1. CASE p > q
    <3>1. m * (p - q) >= m
      BY <1>1, <2>1
    <3> QED  BY <1>1, <1>2, <3>1
  <2>2. CASE p < q
    <3>1. m * (p - q) <= -m
      BY <1>1, <2>2
    <3> QED  BY <1>1, <1>2, <3>1
  <2> QED  BY <1>1, <2>1, <2>2
<1>4. r = s
  BY <1>1, <1>2, <1>3
<1> QED  BY <1>3, <1>4 DEF a, p, s

-----------------------------------------------------------------------------

\* The elements of src_iovs, and the bytes that one of them names.
Elem == [base : Nat, len : Nat, next : Nat, rest : Int]

\* The addresses that an element of an I/O vector names.
Bytes(v) == [k \in 1 .. v.len |-> v.base + k - 1]

\* They are as many as it says.
LEMMA BytesAreAddresses == ASSUME NEW v \in Elem PROVE Bytes(v) \in Seq(Nat) /\ Len(Bytes(v)) = v.len
<1>1. v.len \in Nat /\ v.base \in Nat
  BY DEF Elem
<1>2. \A k \in 1 .. v.len : v.base + k - 1 \in Nat
  BY <1>1
<1> QED  BY <1>1, <1>2 DEF Bytes

\* The addresses of the first elements, for any number of them: the function
\* that Source chooses.
Upto(iovs) ==
  CHOOSE g : g = [n \in 0 .. Len(iovs) |->
                    IF n = 0 THEN <<>>
                    ELSE g[n - 1] \o [k \in 1 .. iovs[n].len |-> iovs[n].base + k - 1]]

\* That function exists and is what its equation says.
LEMMA UptoIs ==
  ASSUME NEW iovs \in Seq(Elem)
  PROVE  /\ Source(iovs) = Upto(iovs)[Len(iovs)]
         /\ Upto(iovs)[0] = <<>>
         /\ \A n \in 1 .. Len(iovs) : Upto(iovs)[n] = Upto(iovs)[n - 1] \o Bytes(iovs[n])
         /\ \A n \in 0 .. Len(iovs) : Upto(iovs)[n] \in Seq(Nat)
<1> DEFINE N == Len(iovs)
           V == Seq(Nat)
           step == [p \in V \X (1 .. N) |-> p[1] \o Bytes(iovs[p[2]])]
           Eq(g) == g = [n \in 0 .. N |-> IF n = 0 THEN <<>> ELSE g[n - 1] \o Bytes(iovs[n])]
<1>1. N \in Nat /\ \A n \in 1 .. N : iovs[n] \in Elem
  OBVIOUS
<1>2. \A n \in 1 .. N : Bytes(iovs[n]) \in V
  BY <1>1, BytesAreAddresses
<1>3. PICK g : g \in [0 .. N -> V] /\ Eq(g)
  <2> HIDE DEF N
  <2>1. step \in [V \X (1 .. N) -> V]
    BY <1>2
  <2>2. PICK g : Recursion(g, V, <<>>, N, step)
    <3>1. <<>> \in V
      OBVIOUS
    <3> HIDE DEF step, V
    <3> QED  BY <1>1, <2>1, <3>1, RecursionExists
  <2>3. ASSUME NEW n \in 0 .. N PROVE g[n] = IF n = 0 THEN <<>> ELSE g[n - 1] \o Bytes(iovs[n])
    <3> HIDE DEF V
    <3>1. CASE n = 0
      BY <2>2, <3>1 DEF Recursion
    <3>2. CASE n # 0
      <4>1. n \in 1 .. N /\ n - 1 \in 0 .. N
        BY <1>1, <3>2
      <4>2. <<g[n - 1], n>> \in V \X (1 .. N)
        BY <2>2, <4>1 DEF Recursion
      <4>3. g[n] = step[<<g[n - 1], n>>]
        BY <2>2, <4>1 DEF Recursion
      <4> QED  BY <3>2, <4>2, <4>3
    <3> QED  BY <3>1, <3>2
  <2>4. g \in [0 .. N -> V]
    BY <2>2 DEF Recursion
  <2> HIDE DEF V
  <2>5. Eq(g)
    BY <2>3, <2>4
  <2> QED  BY <2>4, <2>5
<1>4. Upto(iovs) = CHOOSE h : Eq(h)
  BY Zenon DEF Upto, Bytes
<1> DEFINE u == CHOOSE h : Eq(h)
<1>5. Eq(u)
  <2> HIDE DEF Eq
  <2> QED  BY <1>3
<1> HIDE DEF u
<1>6. Source(iovs) = Upto(iovs)[N]
  BY Zenon DEF Source, Upto
<1> HIDE DEF V, N
<1>7. u[0] = <<>> /\ \A n \in 1 .. N : u[n] = u[n - 1] \o Bytes(iovs[n])
  <2>1. u[0] = <<>>
    BY <1>1, <1>5
  <2>2. ASSUME NEW n \in 1 .. N PROVE u[n] = u[n - 1] \o Bytes(iovs[n])
    <3>1. n \in 0 .. N /\ n # 0
      BY <1>1
    <3> QED  BY <1>5, <3>1
  <2> QED  BY <2>1, <2>2
<1> HIDE DEF Eq
<1> DEFINE S == {m \in Nat : m <= N => u[m] \in V}
<1>8. 0 \in S
  <2>1. <<>> \in V
    BY DEF V
  <2> QED  BY <1>7, <2>1
<1>9. ASSUME NEW m \in S PROVE m + 1 \in S
  <2> SUFFICES ASSUME m + 1 <= N PROVE u[m + 1] \in V
    OBVIOUS
  <2>1. m + 1 \in 1 .. N /\ (m + 1) - 1 = m /\ u[m] \in V
    BY <1>1
  <2>2. u[m + 1] = u[m] \o Bytes(iovs[m + 1])
    BY <1>7, <2>1
  <2> QED  BY <1>2, <2>1, <2>2 DEF V
<1>10. S = Nat
  <2> HIDE DEF S
  <2>1. S \in SUBSET Nat
    BY DEF S
  <2> QED  BY <1>8, <1>9, <2>1, SetInduction
<1>11. \A n \in 0 .. N : u[n] \in V
  BY <1>1, <1>10
<1> QED  BY <1>4, <1>6, <1>7, <1>11 DEF u, N, V

\* An element that is added to a vector adds its addresses.
LEMMA SourceIs ==
  ASSUME NEW iovs \in Seq(Elem)
  PROVE  /\ Source(iovs) \in Seq(Nat)
         /\ iovs = <<>> => Source(iovs) = <<>>
         /\ \A v \in Elem : Source(Append(iovs, v)) = Source(iovs) \o Bytes(v)
<1>1. Len(iovs) \in Nat
  OBVIOUS
<1>2. Source(iovs) \in Seq(Nat)
  <2>1. Len(iovs) \in 0 .. Len(iovs)
    BY <1>1
  <2> QED  BY <2>1, UptoIs
<1>3. iovs = <<>> => Source(iovs) = <<>>
  <2>1. iovs = <<>> => Len(iovs) = 0
    OBVIOUS
  <2> QED  BY <2>1, UptoIs
<1>4. ASSUME NEW v \in Elem PROVE Source(Append(iovs, v)) = Source(iovs) \o Bytes(v)
  <2> DEFINE more == Append(iovs, v)
             N == Len(iovs)
             u == Upto(iovs)
             w == Upto(more)
  <2>1. /\ more \in Seq(Elem) /\ Len(more) = N + 1 /\ more[N + 1] = v
        /\ \A n \in 1 .. N : more[n] = iovs[n]
    OBVIOUS
  <2> HIDE DEF more
  <2>2. /\ Source(more) = w[N + 1] /\ w[0] = <<>>
        /\ \A n \in 1 .. N + 1 : w[n] = w[n - 1] \o Bytes(more[n])
    BY <2>1, UptoIs
  <2>3. /\ Source(iovs) = u[N] /\ u[0] = <<>>
        /\ \A n \in 1 .. N : u[n] = u[n - 1] \o Bytes(iovs[n])
    BY UptoIs
  <2> HIDE DEF u, w, N
  <2> DEFINE S == {m \in Nat : m <= N => u[m] = w[m]}
  <2>4. N \in Nat
    BY <1>1 DEF N
  <2>5. 0 \in S
    BY <2>2, <2>3
  <2>6. ASSUME NEW m \in S PROVE m + 1 \in S
    <3> SUFFICES ASSUME m + 1 <= N PROVE u[m + 1] = w[m + 1]
      OBVIOUS
    <3>1. m + 1 \in 1 .. N /\ m + 1 \in 1 .. N + 1 /\ (m + 1) - 1 = m /\ u[m] = w[m]
      BY <2>4
    <3>2. u[m + 1] = u[m] \o Bytes(iovs[m + 1])
      BY <2>3, <3>1
    <3>3. w[m + 1] = w[m] \o Bytes(more[m + 1])
      BY <2>2, <3>1
    <3> QED  BY <2>1, <3>1, <3>2, <3>3
  <2>7. S = Nat
    <3> HIDE DEF S
    <3>1. S \in SUBSET Nat
      BY DEF S
    <3> QED  BY <2>5, <2>6, <3>1, SetInduction
  <2>8. u[N] = w[N]
    BY <2>4, <2>7
  <2>9. w[N + 1] = w[N] \o Bytes(v)
    <3>1. N + 1 \in 1 .. N + 1 /\ (N + 1) - 1 = N
      BY <2>4
    <3> QED  BY <2>1, <2>2, <3>1
  <2> QED  BY <2>2, <2>3, <2>8, <2>9 DEF more
<1> QED  BY <1>2, <1>3, <1>4

\* One element: up to the end of its page, or what is left.
LEMMA IovecIs ==
  ASSUME NEW a \in Nat, NEW rest \in Int
  PROVE  LET v == Iovec(a, rest)
         IN  /\ v \in Elem /\ v.base = a /\ v.rest < rest /\ v.next <= a + PageSize
             /\ rest >= 0 /\ v.rest >= 0 => v.len = rest - v.rest /\ v.next = a + v.len
             /\ rest >= 0 /\ v.rest < 0 => v.len = rest
<1> DEFINE toEnd == PageSize - (a % PageSize)
           len == IF toEnd > rest /\ rest >= 0 THEN rest ELSE toEnd
<1>1. PageSize \in Nat \ {0}
  BY ReadAssumption
<1>2. a % PageSize \in Nat /\ a % PageSize < PageSize
  BY <1>1
<1>3. toEnd \in Nat /\ toEnd > 0 /\ toEnd <= PageSize
  BY <1>1, <1>2
<1>4. Iovec(a, rest) = [base |-> a, len |-> len, next |-> a + toEnd, rest |-> rest - toEnd]
  BY DEF Iovec
<1> HIDE DEF toEnd
<1>5. /\ len \in Nat /\ a + toEnd \in Nat /\ rest - toEnd \in Int
      /\ rest - toEnd < rest /\ a + toEnd <= a + PageSize
      /\ rest >= 0 /\ rest - toEnd >= 0 => len = rest - (rest - toEnd) /\ a + toEnd = a + len
      /\ rest >= 0 /\ rest - toEnd < 0 => len = rest
  BY <1>1, <1>3
<1> HIDE DEF len
<1> DEFINE next == a + toEnd
           left == rest - toEnd
<1>6. Iovec(a, rest) = [base |-> a, len |-> len, next |-> next, rest |-> left]
  BY <1>4
<1>7. /\ len \in Nat /\ next \in Nat /\ left \in Int
      /\ left < rest /\ next <= a + PageSize
      /\ rest >= 0 /\ left >= 0 => len = rest - left /\ next = a + len
      /\ rest >= 0 /\ left < 0 => len = rest
  BY <1>5
<1> HIDE DEF next, left
<1> DEFINE v == Iovec(a, rest)
<1>8. v \in Elem
  BY <1>6, <1>7 DEF Elem
<1>9. v.base = a /\ v.len = len /\ v.next = next /\ v.rest = left
  BY <1>6
<1> HIDE DEF v
<1>10. /\ v \in Elem /\ v.base = a /\ v.rest < rest /\ v.next <= a + PageSize
       /\ rest >= 0 /\ v.rest >= 0 => v.len = rest - v.rest /\ v.next = a + v.len
       /\ rest >= 0 /\ v.rest < 0 => v.len = rest
  BY <1>7, <1>8, <1>9
<1> QED  BY <1>10 DEF v

\* The state of a chunk that is filled.
Chunk == [iovs : Seq(Elem), next : Nat, rest : Int, over : BOOLEAN]

\* What the elements so far name: bytes in their order, all of them that were
\* asked for as soon as the count is below zero.
Named(t, rest) == IF t.rest >= 0 THEN rest - t.rest ELSE rest

\* A chunk names the addresses from a place on in order, as many of them as the
\* length it was filled for has lost.
InOrder(t, a, rest) ==
  /\ t.rest <= rest
  /\ Len(Source(t.iovs)) >= Named(t, rest)
  /\ \A k \in 1 .. Named(t, rest) : Source(t.iovs)[k] = a + k - 1
  /\ t.rest >= 0 => Len(Source(t.iovs)) = Named(t, rest) /\ t.next = a + Named(t, rest)

\* A chunk with one element more, unless there is nothing left to add.
Filled(t) ==
  LET v == Iovec(t.next, t.rest)
  IN  IF t.over \/ t.rest = 0 THEN t
      ELSE [iovs |-> Append(t.iovs, v), next |-> v.next, rest |-> v.rest, over |-> v.next >= AddressEnd]

\* One element more names the next addresses.
LEMMA FilledIs ==
  ASSUME NEW t \in Chunk
  PROVE  /\ Filled(t) \in Chunk
         /\ ~t.over /\ t.rest # 0 => Filled(t).rest < t.rest
         /\ Filled(t).rest <= t.rest
         /\ Filled(t).next <= t.next + PageSize
         /\ (t.over => t.next >= AddressEnd) => (Filled(t).over => Filled(t).next >= AddressEnd)
         /\ \A a \in Nat, rest \in Nat : InOrder(t, a, rest) => InOrder(Filled(t), a, rest)
<1>1. t.next \in Nat /\ t.rest \in Int /\ t.iovs \in Seq(Elem) /\ PageSize \in Nat /\ AddressEnd \in Nat
  BY ReadAssumption DEF Chunk
<1>2. CASE t.over \/ t.rest = 0
  <2>1. Filled(t) = t
    BY <1>2 DEF Filled
  <2> QED  BY <1>1, <1>2, <2>1
<1>3. CASE ~t.over /\ t.rest # 0
  <2> DEFINE v == Iovec(t.next, t.rest)
             f == Filled(t)
  <2>1. f = [iovs |-> Append(t.iovs, v), next |-> v.next, rest |-> v.rest, over |-> v.next >= AddressEnd]
    BY <1>3 DEF Filled
  <2>2. /\ v \in Elem /\ v.base = t.next /\ v.rest < t.rest /\ v.next <= t.next + PageSize
        /\ t.rest >= 0 /\ v.rest >= 0 => v.len = t.rest - v.rest /\ v.next = t.next + v.len
        /\ t.rest >= 0 /\ v.rest < 0 => v.len = t.rest
    BY <1>1, IovecIs
  <2> HIDE DEF v
  <2>3. f.iovs = Append(t.iovs, v) /\ f.next = v.next /\ f.rest = v.rest /\ f.over = (v.next >= AddressEnd)
    BY <2>1
  <2>4. v.next \in Nat /\ v.rest \in Int /\ v.len \in Nat
    BY <2>2 DEF Elem
  <2>5. Append(t.iovs, v) \in Seq(Elem)
    BY <1>1, <2>2
  <2>6. f \in Chunk
    <3>1. (v.next >= AddressEnd) \in BOOLEAN
      OBVIOUS
    <3> QED  BY <2>1, <2>4, <2>5, <3>1 DEF Chunk
  <2> HIDE DEF f
  <2>7. ASSUME NEW a \in Nat, NEW rest \in Nat, InOrder(t, a, rest)
        PROVE  InOrder(f, a, rest)
    <3> DEFINE src == Source(t.iovs)
               m == Named(t, rest)
               more == Source(f.iovs)
               m2 == Named(f, rest)
    <3>1. more = src \o Bytes(v) /\ src \in Seq(Nat)
      BY <1>1, <2>2, <2>3, SourceIs
    <3>2. Bytes(v) \in Seq(Nat) /\ Len(Bytes(v)) = v.len /\ \A k \in 1 .. v.len : Bytes(v)[k] = t.next + k - 1
      <4>1. \A k \in 1 .. v.len : Bytes(v)[k] = v.base + k - 1
        BY DEF Bytes
      <4> QED  BY <2>2, <4>1, BytesAreAddresses
    <3>3. /\ t.rest <= rest /\ Len(src) >= m
          /\ \A k \in 1 .. m : src[k] = a + k - 1
          /\ t.rest >= 0 => Len(src) = m /\ t.next = a + m
      BY <2>7 DEF InOrder
    <3>4. m = (IF t.rest >= 0 THEN rest - t.rest ELSE rest) /\ m2 = (IF v.rest >= 0 THEN rest - v.rest ELSE rest)
      BY <2>3 DEF Named
    <3> HIDE DEF src, more, m, m2
    <3>5. Len(src) \in Nat /\ Len(more) = Len(src) + v.len
      <4>1. Len(src) \in Nat
        BY <3>1
      <4>2. Len(src \o Bytes(v)) = Len(src) + Len(Bytes(v))
        BY <3>1, <3>2
      <4> QED  BY <3>1, <3>2, <4>1, <4>2
    <3>6. /\ \A k \in 1 .. Len(src) : more[k] = src[k]
          /\ \A k \in Len(src) + 1 .. Len(src) + v.len : more[k] = Bytes(v)[k - Len(src)]
      BY <2>4, <3>1, <3>2
    <3>7. m \in Nat /\ m2 \in Nat /\ f.rest <= rest
      <4>1. v.rest <= rest /\ t.rest <= rest /\ v.rest \in Int /\ t.rest \in Int
        BY <1>1, <2>2, <2>4, <3>3
      <4>2. m \in Nat
        BY <3>4, <4>1
      <4>3. m2 \in Nat
        BY <3>4, <4>1
      <4> QED  BY <2>3, <4>1, <4>2, <4>3
    <3>8. CASE t.rest < 0
      <4>1. m = rest /\ m2 = rest /\ ~(f.rest >= 0)
        BY <1>1, <2>2, <2>3, <2>4, <3>4, <3>8
      <4>2. \A k \in 1 .. m2 : more[k] = a + k - 1
        BY <3>3, <3>5, <3>6, <3>7, <4>1
      <4>3. Len(more) >= m2
        BY <2>4, <3>3, <3>5, <3>7, <4>1
      <4> QED  BY <3>7, <4>1, <4>2, <4>3 DEF InOrder, more, m2
    <3>9. CASE t.rest >= 0
      <4>1. Len(src) = m /\ t.next = a + m
        BY <3>3, <3>9
      <4>2. m2 = m + v.len /\ (f.rest >= 0 => f.next = a + m2)
        <5>1. m = rest - t.rest /\ t.rest \in Int /\ v.rest \in Int /\ v.len \in Nat
          BY <1>1, <2>4, <3>4, <3>9
        <5>2. CASE v.rest >= 0
          <6>1. m2 = rest - v.rest /\ v.len = t.rest - v.rest /\ f.next = t.next + v.len
            BY <2>2, <2>3, <3>4, <3>9, <5>2
          <6>2. m2 = m + v.len
            BY <5>1, <6>1
          <6>3. f.next = (a + m) + v.len
            BY <4>1, <6>1
          <6>4. (a + m) + v.len = a + (m + v.len)
            <7>1. a \in Int /\ m \in Int /\ v.len \in Int
              BY <3>7, <5>1
            <7> QED  BY <7>1
          <6>5. f.next = a + m2
            BY <6>2, <6>3, <6>4
          <6> QED  BY <6>2, <6>5
        <5>3. CASE v.rest < 0
          <6>1. m2 = rest /\ v.len = t.rest /\ ~(f.rest >= 0)
            BY <2>2, <2>3, <3>4, <3>9, <5>1, <5>3
          <6> QED  BY <5>1, <6>1
        <5> QED  BY <5>1, <5>2, <5>3
      <4>3. Len(more) = m2
        BY <3>5, <4>1, <4>2
      <4>4. ASSUME NEW k \in 1 .. m2 PROVE more[k] = a + k - 1
        <5>1. CASE k <= m
          <6>1. k \in 1 .. m /\ k \in 1 .. Len(src)
            BY <3>7, <4>1, <5>1
          <6> QED  BY <3>3, <3>6, <6>1
        <5>2. CASE k > m
          <6>1. k \in Len(src) + 1 .. Len(src) + v.len /\ k - m \in 1 .. v.len
            BY <2>4, <3>7, <4>1, <4>2, <5>2
          <6>2. more[k] = Bytes(v)[k - m]
            BY <3>6, <4>1, <6>1
          <6>3. Bytes(v)[k - m] = t.next + (k - m) - 1
            BY <3>2, <6>1
          <6> QED  BY <3>7, <4>1, <6>1, <6>2, <6>3
        <5> QED  BY <3>7, <5>1, <5>2
      <4> QED  BY <3>7, <4>2, <4>3, <4>4 DEF InOrder, more, m2
    <3> QED  BY <1>1, <3>8, <3>9
  <2>8. f.rest < t.rest /\ f.rest <= t.rest /\ f.next <= t.next + PageSize
    BY <1>1, <2>2, <2>3, <2>4
  <2>9. f.over => f.next >= AddressEnd
    BY <2>3
  <2> QED  BY <2>6, <2>7, <2>8, <2>9 DEF f
<1> QED  BY <1>2, <1>3

\* The code's chunk of at most IovecsMax elements names its addresses in order.
LEMMA FillIs ==
  ASSUME NEW a \in Nat, NEW rest \in Int
  PROVE  LET f == Fill(a, rest)
         IN  /\ f \in Chunk
             /\ rest \in Nat => InOrder(f, a, rest)
             /\ rest # 0 => f.rest < rest
             /\ f.over => a + PageSize * IovecsMax >= AddressEnd
<1> DEFINE c == [iovs |-> <<>>, next |-> a, rest |-> rest, over |-> FALSE]
           V == Chunk
           N == IovecsMax
           step == [p \in V \X (1 .. N) |-> Filled(p[1])]
           Eq(g) == g = [n \in 0 .. N |-> IF n = 0 THEN c ELSE Filled(g[n - 1])]
           fill == CHOOSE g : Eq(g)
<1>1. N \in Nat \ {0} /\ PageSize \in Nat /\ AddressEnd \in Nat
  BY ReadAssumption
<1>2. c \in V
  <2>1. <<>> \in Seq(Elem)
    OBVIOUS
  <2> QED  BY <2>1 DEF Chunk
<1>3. c.iovs = <<>> /\ c.next = a /\ c.rest = rest /\ c.over = FALSE
  OBVIOUS
<1>4. \A t \in V : Filled(t) \in V
  BY FilledIs
<1>5. \E g : Eq(g)
  <2> HIDE DEF V, c, N
  <2>1. step \in [V \X (1 .. N) -> V]
    BY <1>4
  <2>2. PICK g : Recursion(g, V, c, N, step)
    <3>1. N \in Nat
      BY <1>1
    <3> HIDE DEF step
    <3> QED  BY <1>2, <2>1, <3>1, RecursionExists
  <2>3. ASSUME NEW n \in 0 .. N PROVE g[n] = IF n = 0 THEN c ELSE Filled(g[n - 1])
    <3>1. CASE n = 0
      BY <2>2, <3>1 DEF Recursion
    <3>2. CASE n # 0
      <4>1. n \in 1 .. N /\ n - 1 \in 0 .. N
        BY <1>1, <3>2
      <4>2. <<g[n - 1], n>> \in V \X (1 .. N)
        BY <2>2, <4>1 DEF Recursion
      <4> QED  BY <2>2, <3>2, <4>1, <4>2 DEF Recursion
    <3> QED  BY <3>1, <3>2
  <2>4. Eq(g)
    BY <2>2, <2>3 DEF Recursion
  <2> QED  BY <2>4
<1>6. Eq(fill)
  <2> HIDE DEF Eq
  <2> QED  BY <1>5
<1>7. Fill(a, rest) = fill[N]
  BY Zenon DEF Fill, Filled
<1> HIDE DEF fill, V, c, N
<1>8. fill[0] = c /\ \A n \in 1 .. N : fill[n] = Filled(fill[n - 1])
  <2>1. fill[0] = c
    BY <1>1, <1>6
  <2>2. ASSUME NEW n \in 1 .. N PROVE fill[n] = Filled(fill[n - 1])
    <3>1. n \in 0 .. N /\ n # 0
      BY <1>1
    <3> QED  BY <1>6, <3>1
  <2> QED  BY <2>1, <2>2
<1> HIDE DEF Eq
<1> DEFINE Good(t, n) == /\ t \in Chunk
                         /\ rest \in Nat => InOrder(t, a, rest)
                         /\ t.rest <= rest
                         /\ n > 0 /\ rest # 0 => t.rest < rest
                         /\ t.next <= a + PageSize * n
                         /\ t.over => n > 0 /\ t.next >= AddressEnd
           S == {m \in Nat : m <= N => Good(fill[m], m)}
<1>9. 0 \in S
  <2>1. rest \in Nat => InOrder(c, a, rest)
    <3> SUFFICES ASSUME rest \in Nat PROVE InOrder(c, a, rest)
      OBVIOUS
    <3>1. <<>> \in Seq(Elem)
      OBVIOUS
    <3>2. Source(c.iovs) = <<>>
      BY <1>3, <3>1, SourceIs
    <3>3. Named(c, rest) = 0
      BY <1>3 DEF Named
    <3> QED  BY <1>3, <3>2, <3>3 DEF InOrder
  <2>2. c \in Chunk
    BY <1>2 DEF V
  <2>3. a <= a + PageSize * 0 /\ rest <= rest /\ ~(0 > 0)
    BY <1>1
  <2>4. Good(c, 0)
    BY <1>3, <2>1, <2>2, <2>3
  <2> QED  BY <1>8, <2>4
<1>10. ASSUME NEW m \in S PROVE m + 1 \in S
  <2> SUFFICES ASSUME m + 1 <= N PROVE Good(fill[m + 1], m + 1)
    OBVIOUS
  <2>1. m \in Nat /\ m + 1 \in 1 .. N /\ (m + 1) - 1 = m /\ m <= N
    BY <1>1
  <2> DEFINE t == fill[m]
             f == fill[m + 1]
  <2>2. f = Filled(t)
    BY <1>8, <2>1
  <2>3. Good(t, m)
    BY <2>1
  <2> HIDE DEF t, f
  <2>4. /\ f \in Chunk
        /\ ~t.over /\ t.rest # 0 => f.rest < t.rest
        /\ f.rest <= t.rest
        /\ f.next <= t.next + PageSize
        /\ (t.over => t.next >= AddressEnd) => (f.over => f.next >= AddressEnd)
        /\ rest \in Nat => (InOrder(t, a, rest) => InOrder(f, a, rest))
    BY <2>2, <2>3, FilledIs
  <2>5. t.rest \in Int /\ f.rest \in Int /\ t.next \in Nat /\ f.next \in Nat
    BY <2>3, <2>4 DEF Chunk
  <2>6. f.rest <= rest
    BY <2>3, <2>4, <2>5
  <2>7. rest # 0 => f.rest < rest
    <3>1. CASE m > 0
      BY <2>3, <2>4, <2>5, <3>1
    <3>2. CASE m = 0
      <4>1. t.rest = rest /\ ~t.over
        BY <1>3, <1>8, <3>2 DEF t
      <4> QED  BY <2>4, <4>1
    <3> QED  BY <2>1, <3>1, <3>2
  <2>8. f.next <= a + PageSize * (m + 1)
    <3>1. PageSize * (m + 1) = PageSize * m + PageSize /\ PageSize * m \in Nat
      BY <1>1, <2>1
    <3>2. t.next <= a + PageSize * m /\ f.next <= t.next + PageSize
      BY <2>3, <2>4
    <3> QED  BY <1>1, <2>5, <3>1, <3>2
  <2>9. f.over => m + 1 > 0 /\ f.next >= AddressEnd
    BY <2>1, <2>3, <2>4
  <2> QED  BY <2>3, <2>4, <2>6, <2>7, <2>8, <2>9 DEF f
<1>11. S = Nat
  <2> HIDE DEF S
  <2>1. S \in SUBSET Nat
    BY DEF S
  <2> QED  BY <1>9, <1>10, <2>1, SetInduction
<1> DEFINE f == fill[N]
<1>12. Good(f, N) /\ N > 0
  BY <1>1, <1>11
<1> HIDE DEF f
<1>13. f.over => a + PageSize * N >= AddressEnd
  <2>1. f.next \in Nat /\ PageSize * N \in Nat
    BY <1>1, <1>12 DEF Chunk
  <2> QED  BY <1>1, <1>12, <2>1
<1> QED  BY <1>7, <1>12, <1>13 DEF f, N

-----------------------------------------------------------------------------

\* process_vm_readv gives a prefix of the addresses, and all of them when their
\* pages can be read.
LEMMA ReadvIs ==
  ASSUME NEW readable, NEW dst \in Int, NEW iovs \in Seq(Elem)
  PROVE  LET got == Readv(readable, dst, iovs)
             src == Source(iovs)
         IN  /\ got \in Seq(Nat) /\ Len(got) <= Len(src)
             /\ got # <<>> => Len(got) <= dst /\ dst > 0
             /\ dst >= 0 => Len(got) <= dst
             /\ \A k \in 1 .. Len(got) : got[k] = src[k]
             /\ \A m \in Nat : /\ m <= Len(src) /\ m <= dst
                               /\ \A k \in 1 .. m : src[k] \div PageSize \in readable
                               => Len(got) >= m
<1> DEFINE src == Source(iovs)
           stop == {k \in 1 .. Len(src) : (src[k] \div PageSize) \notin readable}
           Least(k) == k \in stop /\ \A h \in stop : k <= h
           good == IF stop = {} THEN Len(src) ELSE (CHOOSE k \in stop : \A h \in stop : k <= h) - 1
           n == IF good < dst THEN good ELSE dst
           got == Readv(readable, dst, iovs)
<1>1. src \in Seq(Nat) /\ Len(src) \in Nat
  BY SourceIs
<1>2. got = IF dst < 0 THEN <<>> ELSE SubSeq(src, 1, n)
  BY DEF Readv
<1> HIDE DEF src
<1>3. good \in 0 .. Len(src) /\ \A k \in 1 .. good : src[k] \div PageSize \in readable
  <2>1. CASE stop = {}
    <3>1. good = Len(src)
      BY <2>1
    <3> QED  BY <1>1, <2>1, <3>1
  <2>2. CASE stop # {}
    <3> DEFINE least == CHOOSE k \in stop : \A h \in stop : k <= h
    <3>1. stop \in SUBSET Nat
      OBVIOUS
    <3> HIDE DEF stop
    <3>2. \E k \in stop : \A h \in stop : k <= h
      BY <2>2, <3>1, LeastExists
    <3>3. least \in stop /\ \A h \in stop : least <= h
      BY <3>2
    <3>4. good = least - 1
      BY <2>2
    <3> HIDE DEF least, good
    <3>5. least \in 1 .. Len(src)
      BY <3>3 DEF stop
    <3>6. ASSUME NEW k \in 1 .. good PROVE src[k] \div PageSize \in readable
      <4>1. k \in 1 .. Len(src) /\ ~(least <= k)
        BY <1>1, <3>4, <3>5
      <4>2. k \notin stop
        BY <3>3, <4>1
      <4> QED  BY <4>1, <4>2 DEF stop
    <3> QED  BY <1>1, <3>4, <3>5, <3>6
  <2> QED  BY <2>1, <2>2
<1>30. \A m \in Nat : /\ m <= Len(src)
                      /\ \A k \in 1 .. m : src[k] \div PageSize \in readable
                      => good >= m
  <2> SUFFICES ASSUME NEW m \in Nat, m <= Len(src), \A k \in 1 .. m : src[k] \div PageSize \in readable
               PROVE  good >= m
    OBVIOUS
  <2>1. CASE stop = {}
    BY <1>1, <2>1
  <2>2. CASE stop # {}
    <3> DEFINE least == CHOOSE k \in stop : \A h \in stop : k <= h
    <3>1. stop \in SUBSET Nat
      OBVIOUS
    <3> HIDE DEF stop
    <3>2. \E k \in stop : \A h \in stop : k <= h
      BY <2>2, <3>1, LeastExists
    <3>3. least \in stop
      BY <3>2
    <3>4. good = least - 1
      BY <2>2
    <3> HIDE DEF least, good
    <3>5. least \in 1 .. Len(src) /\ (src[least] \div PageSize) \notin readable
      BY <3>3 DEF stop
    <3>6. least \notin 1 .. m
      BY <3>5
    <3> QED  BY <1>1, <3>4, <3>5, <3>6
  <2> QED  BY <2>1, <2>2
<1> HIDE DEF good, got, stop
<1>4. CASE dst < 0
  <2>1. got = <<>> /\ Len(got) = 0 /\ got \in Seq(Nat)
    BY <1>2, <1>4
  <2>2. \A m \in Nat : ~(m <= dst)
    BY <1>4
  <2> QED  BY <1>1, <1>4, <2>1, <2>2 DEF got, src
<1>5. CASE dst >= 0
  <2>1. n \in 0 .. Len(src) /\ n <= dst /\ n <= good /\ (n = good \/ n = dst)
    BY <1>1, <1>3, <1>5
  <2>2. got = SubSeq(src, 1, n)
    <3>1. ~(dst < 0)
      BY <1>5
    <3> HIDE DEF n
    <3> QED  BY <1>2, <3>1
  <2> HIDE DEF n
  <2>3. got \in Seq(Nat) /\ Len(got) = n /\ \A k \in 1 .. n : got[k] = src[k]
    BY <1>1, <2>1, <2>2
  <2>4. got # <<>> => n > 0
    BY <2>1, <2>3
  <2>5. \A m \in Nat : /\ m <= Len(src) /\ m <= dst
                       /\ \A k \in 1 .. m : src[k] \div PageSize \in readable
                       => Len(got) >= m
    <3> SUFFICES ASSUME NEW m \in Nat, m <= Len(src), m <= dst,
                        \A k \in 1 .. m : src[k] \div PageSize \in readable
                 PROVE  Len(got) >= m
      OBVIOUS
    <3>1. good >= m
      BY <1>30
    <3> QED  BY <2>1, <2>3, <3>1
  <2>6. Len(got) <= Len(src) /\ Len(got) <= dst /\ (got # <<>> => dst > 0)
    BY <1>1, <2>1, <2>3, <2>4
  <2> QED  BY <2>3, <2>5, <2>6 DEF got, src
<1> QED  BY <1>4, <1>5

\* The state between two turns of tacd_util_process_vm_readv.
Copy == [next : Nat, rest : Int, buf : Seq(Nat), done : BOOLEAN]

\* One turn of the loop around process_vm_readv.
Copied(readable, s) ==
  LET f == Fill(s.next, s.rest)
      got == Readv(readable, s.rest, f.iovs)
  IN  IF s.done THEN s
      ELSE IF f.over \/ got = <<>> THEN [s EXCEPT !.done = TRUE]
      ELSE [next |-> f.next, rest |-> f.rest, buf |-> s.buf \o got, done |-> f.rest = 0]

\* What is in the buffer and what is still asked for is never more than was
\* asked for, and when it is as much every byte is in its place.
Left(s) == IF s.rest >= 0 THEN s.rest ELSE 0

\* A copy that has lost nothing so far has every byte in its place.
Exact(s, addr, len) ==
  /\ Len(s.buf) + Left(s) <= len
  /\ Len(s.buf) + Left(s) = len =>
       /\ \A k \in 1 .. Len(s.buf) : s.buf[k] = addr + k - 1
       /\ s.rest >= 0 => s.next = addr + Len(s.buf)

\* Nothing is missing, and there are turns enough for the rest.
Complete(s, len, n) ==
  /\ Len(s.buf) + Left(s) = len
  /\ s.rest <= len - n \/ s.rest <= 0
  /\ s.done => s.rest <= 0

\* Every page of a read can be read, and it does not end within the last pages
\* of the address space.
WholeReadable(readable, addr, len) ==
  /\ \A a \in {addr + k : k \in 0 .. len - 1} : a \div PageSize \in readable
  /\ addr + len + PageSize * IovecsMax < AddressEnd

\* A turn of the loop keeps a copy exact, and a complete copy complete.
LEMMA CopiedIs ==
  ASSUME NEW readable, NEW s \in Copy, NEW addr \in Nat, NEW len \in Nat, Exact(s, addr, len)
  PROVE  /\ Copied(readable, s) \in Copy
         /\ Exact(Copied(readable, s), addr, len)
         /\ WholeReadable(readable, addr, len) =>
              \A n \in Nat : Complete(s, len, n) => Complete(Copied(readable, s), len, n + 1)
<1>1. s.next \in Nat /\ s.rest \in Int /\ s.buf \in Seq(Nat) /\ s.done \in BOOLEAN /\ Len(s.buf) \in Nat
  BY DEF Copy
<1>2. CASE s.done
  <2>1. Copied(readable, s) = s
    BY <1>2 DEF Copied
  <2>2. \A n \in Nat : Complete(s, len, n) => Complete(s, len, n + 1)
    BY <1>1, <1>2 DEF Complete
  <2> QED  BY <2>1, <2>2
<1>3. CASE ~s.done
  <2> DEFINE f == Fill(s.next, s.rest)
             got == Readv(readable, s.rest, f.iovs)
             src == Source(f.iovs)
             r == Copied(readable, s)
             b == Len(s.buf)
  <2>1. r = IF f.over \/ got = <<>> THEN [s EXCEPT !.done = TRUE]
            ELSE [next |-> f.next, rest |-> f.rest, buf |-> s.buf \o got, done |-> f.rest = 0]
    BY <1>3 DEF Copied
  <2>2. /\ f \in Chunk
        /\ s.rest \in Nat => InOrder(f, s.next, s.rest)
        /\ s.rest # 0 => f.rest < s.rest
        /\ f.over => s.next + PageSize * IovecsMax >= AddressEnd
    BY <1>1, FillIs
  <2>3. f.iovs \in Seq(Elem) /\ f.next \in Nat /\ f.rest \in Int
    BY <2>2 DEF Chunk
  <2>4. src \in Seq(Nat) /\ Len(src) \in Nat
    BY <2>3, SourceIs
  <2>5. /\ got \in Seq(Nat) /\ Len(got) <= Len(src)
        /\ got # <<>> => Len(got) <= s.rest /\ s.rest > 0
        /\ \A k \in 1 .. Len(got) : got[k] = src[k]
        /\ \A m \in Nat : /\ m <= Len(src) /\ m <= s.rest
                          /\ \A k \in 1 .. m : src[k] \div PageSize \in readable
                          => Len(got) >= m
    BY <1>1, <2>3, ReadvIs
  <2> HIDE DEF f, got, src, r
  <2>6. Len(got) \in Nat /\ b \in Nat
    BY <1>1, <2>5
  <2>7. CASE f.over \/ got = <<>>
    <3>1. r = [s EXCEPT !.done = TRUE]
      BY <2>1, <2>7
    <3>2. r \in Copy
      BY <3>1 DEF Copy
    <3>3. r.next = s.next /\ r.rest = s.rest /\ r.buf = s.buf
      BY <3>1 DEF Copy
    <3>4. Exact(r, addr, len)
      BY <3>3 DEF Exact, Left
    <3>5. ASSUME WholeReadable(readable, addr, len), NEW n \in Nat, Complete(s, len, n)
          PROVE  Complete(r, len, n + 1)
      <4>1. s.rest <= 0
        <5> SUFFICES ASSUME s.rest > 0 PROVE FALSE
          BY <1>1
        <5>1. b + s.rest = len /\ s.rest \in Nat
          BY <1>1, <3>5 DEF Complete, Left
        <5>2. s.next = addr + b
          BY <1>1, <5>1 DEF Exact, Left
        <5>3. s.next <= addr + len
          BY <2>6, <5>1, <5>2
        <5>4. ~f.over
          <6>1. PageSize * IovecsMax \in Nat /\ AddressEnd \in Nat
            BY ReadAssumption
          <6>2. addr + len + PageSize * IovecsMax < AddressEnd
            BY <3>5 DEF WholeReadable
          <6> QED  BY <1>1, <2>2, <5>3, <6>1, <6>2
        <5>5. got = <<>>
          BY <2>7, <5>4
        <5>6. InOrder(f, s.next, s.rest) /\ f.rest < s.rest
          BY <2>2, <5>1
        <5>7. Len(src) >= 1 /\ src[1] = s.next
          <6>1. Named(f, s.rest) \in Nat \ {0}
            BY <2>3, <5>1, <5>6 DEF Named
          <6>2. Len(src) >= Named(f, s.rest) /\ src[1] = s.next + 1 - 1
            BY <5>6, <6>1 DEF InOrder, src
          <6> QED  BY <1>1, <2>4, <6>1, <6>2
        <5>8. s.next \div PageSize \in readable
          <6>1. b \in 0 .. len - 1
            BY <2>6, <5>1
          <6> QED  BY <3>5, <5>2, <6>1 DEF WholeReadable
        <5>9. Len(got) >= 1
          <6>1. 1 \in Nat /\ 1 <= Len(src) /\ 1 <= s.rest
            BY <5>1, <5>7
          <6>2. \A k \in 1 .. 1 : src[k] \div PageSize \in readable
            BY <5>7, <5>8
          <6> QED  BY <2>5, <6>1, <6>2
        <5> QED  BY <5>5, <5>9
      <4> QED  BY <3>3, <3>5, <4>1 DEF Complete, Left
    <3> QED  BY <3>2, <3>4, <3>5 DEF r
  <2>8. CASE ~f.over /\ got # <<>>
    <3>1. r = [next |-> f.next, rest |-> f.rest, buf |-> s.buf \o got, done |-> f.rest = 0]
      BY <2>1, <2>8
    <3>2. s.buf \o got \in Seq(Nat) /\ Len(s.buf \o got) = b + Len(got)
          /\ (\A k \in 1 .. b : (s.buf \o got)[k] = s.buf[k])
          /\ (\A k \in b + 1 .. b + Len(got) : (s.buf \o got)[k] = got[k - b])
      BY <1>1, <2>5
    <3>3. r \in Copy
      <4>1. (f.rest = 0) \in BOOLEAN
        OBVIOUS
      <4> QED  BY <2>3, <3>1, <3>2, <4>1 DEF Copy
    <3>4. r.next = f.next /\ r.rest = f.rest /\ r.buf = s.buf \o got /\ r.done = (f.rest = 0)
      BY <3>1
    <3>5. s.rest \in Nat /\ s.rest > 0 /\ Len(got) <= s.rest /\ InOrder(f, s.next, s.rest) /\ f.rest < s.rest
      BY <1>1, <2>2, <2>5, <2>8
    <3> DEFINE m == Named(f, s.rest)
    <3>6. /\ m \in Nat /\ m > 0 /\ m <= s.rest /\ m = (IF f.rest >= 0 THEN s.rest - f.rest ELSE s.rest)
          /\ Len(src) >= m
          /\ \A k \in 1 .. m : src[k] = s.next + k - 1
          /\ f.rest >= 0 => Len(src) = m /\ f.next = s.next + m
      BY <2>3, <3>5 DEF Named, InOrder, src
    <3> HIDE DEF m
    <3>7. Left(s) = s.rest /\ m + Left(r) = s.rest
      BY <2>3, <3>4, <3>5, <3>6 DEF Left
    <3>8. Len(got) <= m
      BY <2>3, <2>4, <2>5, <2>6, <3>5, <3>6
    <3>9. Left(r) \in Nat
      BY <2>3, <3>4 DEF Left
    <3>10. Len(r.buf) = b + Len(got)
      BY <3>2, <3>4
    <3>11. Len(r.buf) + Left(r) <= len
      <4>1. b + s.rest <= len
        BY <3>7 DEF Exact
      <4>2. b + Len(got) + Left(r) <= len
        <5> HIDE DEF b
        <5>2. m \in Nat /\ s.rest \in Nat /\ Len(got) \in Nat /\ b \in Nat /\ Left(r) \in Nat
          BY <2>6, <3>5, <3>6, <3>9
        <5> DEFINE x == Left(r)
                   y == Len(got)
                   z == s.rest
        <5>3. /\ m \in Nat /\ x \in Nat /\ y \in Nat /\ z \in Nat /\ b \in Nat
              /\ m + x = z /\ b + z <= len /\ y <= m
          BY <3>7, <3>8, <4>1, <5>2
        <5> HIDE DEF x, y, z
        <5>4. b + y + x <= len
          BY <5>3
        <5> QED  BY <5>4 DEF x, y
      <4> QED  BY <3>10, <4>2
    <3>12. ASSUME Len(r.buf) + Left(r) = len
           PROVE  /\ \A k \in 1 .. Len(r.buf) : r.buf[k] = addr + k - 1
                  /\ r.rest >= 0 => r.next = addr + Len(r.buf)
      <4>1. b + s.rest <= len
        BY <3>7 DEF Exact
      <4>2. Len(got) = m /\ b + s.rest = len
        <5>1. b + Len(got) + Left(r) = len
          BY <3>10, <3>12
        <5> HIDE DEF b
        <5>2. m \in Nat /\ s.rest \in Nat /\ Len(got) \in Nat /\ b \in Nat /\ Left(r) \in Nat
          BY <2>6, <3>5, <3>6, <3>9
        <5> DEFINE x == Left(r)
                   y == Len(got)
                   z == s.rest
        <5>3. /\ m \in Nat /\ x \in Nat /\ y \in Nat /\ z \in Nat /\ b \in Nat
              /\ m + x = z /\ b + z <= len /\ y <= m /\ b + y + x = len
          BY <3>7, <3>8, <4>1, <5>1, <5>2
        <5> HIDE DEF x, y, z
        <5>4. y = m /\ b + z = len
          BY <5>3
        <5> QED  BY <5>4 DEF y, z
      <4>3. (\A k \in 1 .. b : s.buf[k] = addr + k - 1) /\ s.next = addr + b
        BY <3>5, <3>7, <4>2 DEF Exact
      <4>4. ASSUME NEW k \in 1 .. Len(r.buf) PROVE r.buf[k] = addr + k - 1
        <5>1. CASE k <= b
          <6>1. k \in 1 .. b
            BY <2>6, <3>10, <5>1
          <6> QED  BY <3>2, <3>4, <4>3, <6>1
        <5>2. CASE k > b
          <6>1. k \in b + 1 .. b + Len(got) /\ k - b \in 1 .. m /\ k - b \in 1 .. Len(got)
            BY <2>6, <3>6, <3>10, <4>2, <5>2
          <6>2. r.buf[k] = got[k - b] /\ got[k - b] = src[k - b]
            BY <2>5, <3>2, <3>4, <6>1
          <6>3. src[k - b] = s.next + (k - b) - 1
            BY <3>6, <6>1
          <6> HIDE DEF b
          <6>4. s.next + (k - b) - 1 = addr + k - 1
            BY <2>6, <4>3, <6>1
          <6> QED  BY <6>2, <6>3, <6>4
        <5> QED  BY <2>6, <5>1, <5>2
      <4>5. r.rest >= 0 => r.next = addr + Len(r.buf)
        BY <2>6, <3>4, <3>6, <3>10, <4>2, <4>3
      <4> QED  BY <4>4, <4>5
    <3>13. Exact(r, addr, len)
      BY <3>11, <3>12 DEF Exact
    <3>14. ASSUME WholeReadable(readable, addr, len), NEW n \in Nat, Complete(s, len, n)
           PROVE  Complete(r, len, n + 1)
      <4>1. b + s.rest = len /\ s.rest <= len - n
        BY <3>5, <3>7, <3>14 DEF Complete
      <4>2. s.next = addr + b
        BY <3>5, <3>7, <4>1 DEF Exact
      <4>3. \A k \in 1 .. m : src[k] \div PageSize \in readable
        <5> TAKE k \in 1 .. m
        <5>1. b + k - 1 \in 0 .. len - 1
          <6>1. k \in Nat /\ k >= 1 /\ k <= s.rest
            BY <3>5, <3>6
          <6> HIDE DEF b
          <6> QED  BY <2>6, <3>5, <4>1, <6>1
        <5>2. src[k] = addr + (b + k - 1)
          BY <2>6, <3>6, <4>2
        <5> QED  BY <3>14, <5>1, <5>2 DEF WholeReadable
      <4>4. Len(got) = m
        <5>1. Len(got) >= m
          BY <2>5, <3>6, <4>3
        <5> QED  BY <2>6, <3>6, <3>8, <5>1
      <4>5. Len(r.buf) + Left(r) = len
        BY <2>6, <3>5, <3>6, <3>7, <3>9, <3>10, <4>1, <4>4
      <4>6. r.rest <= len - (n + 1) \/ r.rest <= 0
        BY <2>3, <3>4, <3>5, <4>1
      <4>7. r.done => r.rest <= 0
        <5>1. r.done => f.rest = 0
          BY Zenon, <3>4
        <5>2. f.rest = 0 => r.rest <= 0
          BY <3>4
        <5> QED  BY <5>1, <5>2
      <4> QED  BY <4>5, <4>6, <4>7 DEF Complete
    <3> QED  BY <3>3, <3>13, <3>14 DEF r
  <2> QED  BY <2>7, <2>8
<1> QED  BY <1>1, <1>2, <1>3

\* What a reader promises of its result.
Promise(buf, readable, addr, len) ==
  /\ Len(buf) \in Nat /\ Len(buf) <= len
  /\ Len(buf) = len => buf = [k \in 1 .. len |-> addr + k - 1]
  /\ WholeReadable(readable, addr, len) => Len(buf) = len

\* The reader by process_vm_readv keeps the promise: the loop ends before its
\* bound with every byte in its place.
LEMMA ProcessVmReadvIs ==
  ASSUME NEW readable, NEW addr \in Nat, NEW len \in Nat \ {0}
  PROVE  Promise(ProcessVmReadv(readable, addr, len), readable, addr, len)
<1> DEFINE c == [next |-> addr, rest |-> len, buf |-> <<>>, done |-> len = 0]
           V == {s \in Copy : Exact(s, addr, len)}
           N == len + 1
           step == [p \in V \X (1 .. N) |-> Copied(readable, p[1])]
           Eq(g) == g = [n \in 0 .. N |-> IF n = 0 THEN c ELSE Copied(readable, g[n - 1])]
           turns == CHOOSE g : Eq(g)
<1>1. N \in Nat
  OBVIOUS
<1>2. c.next = addr /\ c.rest = len /\ c.buf = <<>> /\ ~c.done
  OBVIOUS
<1>3. c \in V
  <2>1. c \in Copy
    <3>1. <<>> \in Seq(Nat) /\ (len = 0) \in BOOLEAN
      OBVIOUS
    <3> QED  BY <3>1 DEF Copy
  <2> HIDE DEF c
  <2>2. Len(c.buf) = 0 /\ Left(c) = len
    BY <1>2 DEF Left
  <2>3. Exact(c, addr, len)
    BY <1>2, <2>2 DEF Exact
  <2> QED  BY <2>1, <2>3
<1>4. \A s \in V : Copied(readable, s) \in V
  BY CopiedIs
<1>5. \E g : Eq(g)
  <2> HIDE DEF V, c, N
  <2>1. step \in [V \X (1 .. N) -> V]
    BY <1>4
  <2>2. PICK g : Recursion(g, V, c, N, step)
    <3> HIDE DEF step
    <3> QED  BY <1>1, <1>3, <2>1, RecursionExists
  <2>3. ASSUME NEW n \in 0 .. N PROVE g[n] = IF n = 0 THEN c ELSE Copied(readable, g[n - 1])
    <3>1. CASE n = 0
      BY <2>2, <3>1 DEF Recursion
    <3>2. CASE n # 0
      <4>1. n \in 1 .. N /\ n - 1 \in 0 .. N
        BY <1>1, <3>2
      <4>2. <<g[n - 1], n>> \in V \X (1 .. N)
        BY <2>2, <4>1 DEF Recursion
      <4> QED  BY <2>2, <3>2, <4>1, <4>2 DEF Recursion
    <3> QED  BY <3>1, <3>2
  <2>4. Eq(g)
    BY <2>2, <2>3 DEF Recursion
  <2> QED  BY <2>4
<1>6. Eq(turns)
  <2> HIDE DEF Eq
  <2> QED  BY <1>5
<1>7. ProcessVmReadv(readable, addr, len) = turns[N].buf
  BY Zenon DEF ProcessVmReadv, Copied
<1> HIDE DEF turns, c, N
<1>8. turns[0] = c /\ \A n \in 1 .. N : turns[n] = Copied(readable, turns[n - 1])
  <2> HIDE DEF V
  <2>1. turns[0] = c
    BY <1>1, <1>6
  <2>2. ASSUME NEW n \in 1 .. N PROVE turns[n] = Copied(readable, turns[n - 1])
    <3>1. n \in 0 .. N /\ n # 0
      BY <1>1
    <3> QED  BY <1>6, <3>1
  <2> QED  BY <2>1, <2>2
<1> HIDE DEF Eq
<1> DEFINE S == {m \in Nat : m <= N => /\ turns[m] \in V
                                       /\ WholeReadable(readable, addr, len) => Complete(turns[m], len, m)}
<1>9. 0 \in S
  <2>1. Len(c.buf) = 0 /\ Left(c) = len
    BY <1>2 DEF Left
  <2>2. Complete(c, len, 0)
    BY <1>2, <2>1 DEF Complete
  <2> QED  BY <1>3, <1>8, <2>2
<1>10. ASSUME NEW m \in S PROVE m + 1 \in S
  <2> SUFFICES ASSUME m + 1 <= N
               PROVE  /\ turns[m + 1] \in V
                      /\ WholeReadable(readable, addr, len) => Complete(turns[m + 1], len, m + 1)
    OBVIOUS
  <2>1. m \in Nat /\ m + 1 \in 1 .. N /\ (m + 1) - 1 = m /\ m <= N
    BY <1>1
  <2>2. turns[m + 1] = Copied(readable, turns[m])
    BY <1>8, <2>1
  <2>3. turns[m] \in V /\ (WholeReadable(readable, addr, len) => Complete(turns[m], len, m))
    BY <2>1
  <2> QED  BY <2>1, <2>2, <2>3, CopiedIs
<1>11. S = Nat
  <2> HIDE DEF S
  <2>1. S \in SUBSET Nat
    BY DEF S
  <2> QED  BY <1>9, <1>10, <2>1, SetInduction
<1> DEFINE s == turns[N]
<1>12. s \in V /\ (WholeReadable(readable, addr, len) => Complete(s, len, N))
  BY <1>1, <1>11
<1> HIDE DEF s
<1>13. s.buf \in Seq(Nat) /\ Len(s.buf) \in Nat /\ s.rest \in Int /\ Exact(s, addr, len)
  BY <1>12 DEF Copy
<1>14. Left(s) \in Nat
  BY <1>13 DEF Left
<1>15. Len(s.buf) <= len
  <2>1. Len(s.buf) + Left(s) <= len
    BY <1>13 DEF Exact
  <2> QED  BY <1>13, <1>14, <2>1
<1>16. ASSUME Len(s.buf) = len PROVE s.buf = [k \in 1 .. len |-> addr + k - 1]
  <2>1. Len(s.buf) + Left(s) = len
    <3>1. Len(s.buf) + Left(s) <= len
      BY <1>13 DEF Exact
    <3> QED  BY <1>13, <1>14, <1>16, <3>1
  <2>2. \A k \in 1 .. len : s.buf[k] = addr + k - 1
    BY <1>13, <1>16, <2>1 DEF Exact
  <2> QED  BY <1>13, <1>16, <2>2
<1>17. ASSUME WholeReadable(readable, addr, len) PROVE Len(s.buf) = len
  <2>1. Len(s.buf) + Left(s) = len /\ (s.rest <= len - N \/ s.rest <= 0)
    BY <1>12, <1>17 DEF Complete
  <2>2. s.rest <= 0
    BY <1>13, <2>1 DEF N
  <2>3. Left(s) = 0
    BY <1>13, <2>2 DEF Left
  <2> QED  BY <1>13, <2>1, <2>3
<1> QED  BY <1>7, <1>13, <1>15, <1>16, <1>17 DEF Promise, s

\* An address and the word it is in are on the same page.
LEMMA SamePage ==
  ASSUME NEW a \in Nat
  PROVE  (a - (a % LongSize)) \div PageSize = a \div PageSize
<1> DEFINE l == LongSize
           t == PageSize \div LongSize
           q == a \div PageSize
           r == a % PageSize
           u == r \div LongSize
           v == r % LongSize
<1>1. l \in Nat \ {0} /\ PageSize \in Nat \ {0} /\ PageSize % LongSize = 0
  BY ReadAssumption
<1>2. t \in Nat /\ PageSize = l * t
  BY <1>1
<1>3. q \in Nat /\ r \in Nat /\ a = PageSize * q + r /\ r < PageSize
  BY <1>1
<1>4. u \in Nat /\ v \in Nat /\ r = l * u + v /\ v < l
  BY <1>1, <1>3
<1> HIDE DEF t, q, r, u, v
<1>5. a = l * (t * q + u) + v
  <2>1. PageSize * q = l * (t * q)
    BY <1>1, <1>2, <1>3
  <2>2. l * (t * q + u) = l * (t * q) + l * u
    BY <1>1, <1>2, <1>3, <1>4
  <2>3. /\ l * (t * q) \in Int /\ l * u \in Int /\ v \in Int
    BY <1>1, <1>2, <1>3, <1>4
  <2> QED  BY <1>3, <1>4, <2>1, <2>2, <2>3
<1>6. a % l = v
  <2>1. t * q + u \in Int /\ v \in Int /\ 0 <= v
    BY <1>2, <1>3, <1>4
  <2> QED  BY <1>1, <1>4, <1>5, <2>1, DivUnique
<1>7. l * u \in Nat /\ a - v = PageSize * q + l * u /\ l * u < PageSize
  <2>1. l * u \in Nat /\ PageSize * q \in Nat
    BY <1>1, <1>3, <1>4
  <2> QED  BY <1>1, <1>3, <1>4, <2>1
<1>8. (PageSize * q + l * u) \div PageSize = q
  <2>1. q \in Int /\ l * u \in Int /\ 0 <= l * u
    BY <1>3, <1>7
  <2> QED  BY <1>1, <1>7, <2>1, DivUnique
<1> QED  BY <1>6, <1>7, <1>8 DEF q

\* The reader by ptrace, word by word, keeps the same promise.
LEMMA OriginalPtraceIs ==
  ASSUME NEW readable, NEW addr \in Nat, NEW len \in Nat \ {0}
  PROVE  Promise(OriginalPtrace(readable, addr, len), readable, addr, len)
<1> DEFINE first == addr - (addr % LongSize)
           words == {first + LongSize * k : k \in 0 .. (len + LongSize) \div LongSize}
           failed == {w \in Pieces(addr, len) : ~LongReadable(readable, w)}
           least == CHOOSE w \in failed : \A v \in failed : w <= v
           end == IF failed = {} THEN addr + len ELSE least
           size == IF end > addr THEN end - addr ELSE 0
           buf == OriginalPtrace(readable, addr, len)
<1>1. LongSize \in Nat \ {0} /\ PageSize \in Nat \ {0} /\ AddressEnd \in Nat
  BY ReadAssumption
<1>2. addr % LongSize \in Nat /\ addr % LongSize < LongSize /\ addr % LongSize <= addr
  <2>1. /\ addr % LongSize \in Nat /\ addr % LongSize < LongSize /\ addr \div LongSize \in Nat
        /\ addr = LongSize * (addr \div LongSize) + (addr % LongSize)
    BY <1>1
  <2>2. LongSize * (addr \div LongSize) \in Nat
    BY <1>1, <2>1
  <2> QED  BY <2>1, <2>2
<1>3. first \in Nat /\ first <= addr /\ addr < first + LongSize
  BY <1>1, <1>2
<1>4. ASSUME NEW w \in Pieces(addr, len)
      PROVE  w \in Nat /\ w < addr + len /\ (w = first \/ w > addr)
  <2> HIDE DEF first
  <2>1. PICK k \in 0 .. (len + LongSize) \div LongSize : w = first + LongSize * k
    BY DEF Pieces, first
  <2>2. w < addr + len
    BY DEF Pieces
  <2>3. (len + LongSize) \div LongSize \in Int /\ k \in Nat
    BY <1>1
  <2>4. LongSize * k \in Nat /\ (k = 0 => LongSize * k = 0) /\ (k >= 1 => LongSize * k >= LongSize)
    BY <1>1, <2>3
  <2> QED  BY <1>1, <1>3, <2>1, <2>2, <2>3, <2>4
<1> HIDE DEF first, failed
<1>5. end \in Nat /\ end <= addr + len
  <2>1. CASE failed = {}
    BY <2>1
  <2>2. CASE failed # {}
    <3>1. failed \in SUBSET Nat
      BY <1>4 DEF failed
    <3>2. \E w \in failed : \A v \in failed : w <= v
      BY <2>2, <3>1, LeastExists
    <3>3. least \in failed
      BY <3>2
    <3>4. end = least
      BY <2>2
    <3> HIDE DEF least, end
    <3>5. least \in Nat /\ least < addr + len
      BY <1>4, <3>3 DEF failed
    <3> QED  BY <3>4, <3>5
  <2> QED  BY <2>1, <2>2
<1>6. WholeReadable(readable, addr, len) => failed = {}
  <2> SUFFICES ASSUME WholeReadable(readable, addr, len), NEW w \in Pieces(addr, len)
               PROVE  LongReadable(readable, w)
    BY DEF failed
  <2>1. w \in Nat /\ w < addr + len /\ (w = first \/ w > addr)
    BY <1>4
  <2>2. \A k \in 0 .. len - 1 : (addr + k) \div PageSize \in readable
    BY DEF WholeReadable
  <2>3. CASE w = first
    <3>1. w \div PageSize = addr \div PageSize
      BY <2>3, SamePage DEF first
    <3>2. 0 \in 0 .. len - 1 /\ addr + 0 = addr
      OBVIOUS
    <3> QED  BY <2>2, <3>1, <3>2 DEF LongReadable
  <2>4. CASE w > addr
    <3>1. w - addr \in 0 .. len - 1 /\ addr + (w - addr) = w
      BY <2>1, <2>4
    <3> QED  BY <2>2, <3>1 DEF LongReadable
  <2> QED  BY <2>1, <2>3, <2>4
<1>7. WholeReadable(readable, addr, len) => ~(addr + len >= AddressEnd)
  <2>1. PageSize * IovecsMax \in Nat
    BY ReadAssumption
  <2> QED  BY <1>1, <2>1 DEF WholeReadable
<1>8. buf = IF addr + len >= AddressEnd THEN <<>> ELSE [k \in 1 .. size |-> addr + k - 1]
  BY DEF OriginalPtrace, failed
<1>9. failed = {} => end = addr + len
  OBVIOUS
<1> HIDE DEF end, buf
<1>10. size \in Nat /\ size <= len
  BY <1>5
<1>11. (failed = {} => size = len)
  BY <1>9
<1> HIDE DEF size
<1>12. CASE addr + len >= AddressEnd
  <2>1. buf = <<>> /\ Len(buf) = 0 /\ 0 # len /\ ~WholeReadable(readable, addr, len)
    BY <1>7, <1>8, <1>12
  <2> QED  BY <2>1 DEF Promise, buf
<1>13. CASE ~(addr + len >= AddressEnd)
  <2>1. buf = [k \in 1 .. size |-> addr + k - 1] /\ Len(buf) = size
    BY <1>8, <1>10, <1>13
  <2>2. size = len => buf = [k \in 1 .. len |-> addr + k - 1]
    BY <2>1
  <2> QED  BY <1>6, <1>10, <1>11, <2>1, <2>2 DEF Promise, buf
<1> QED  BY <1>12, <1>13

\* A read of the dumper that claims its whole length has every byte in its
\* place, and one whose pages can be read gets all of it, for every reader,
\* address and length (tacd_util_ptrace_read, tacd_util.c).
THEOREM Reads == CallSpec => []ReadExact
<1>1. CallInv => ReadExact
  <2> SUFFICES ASSUME CallInv, Returned("read") PROVE ReadExact
    BY DEF ReadExact
  <2> DEFINE c == call.of
             vm == ProcessVmReadv(c.readable, c.addr, c.len)
             word == OriginalPtrace(c.readable, c.addr, c.len)
             buf == call.result.buf
  <2>1. c \in Calls /\ c.kind = "read" /\ call.result \in Results(c)
    BY Back
  <2>2. c \in ReadCall
    BY <2>1, CallAssumption
  <2>3. call.result = PtraceRead(c.reader, c.readable, c.addr, c.len)
    BY <2>1 DEF Results
  <2>4. c.reader \in Readers /\ c.addr \in Nat /\ c.len \in Nat \ {0}
    BY <2>2 DEF ReadCall
  <2>5. Promise(vm, c.readable, c.addr, c.len) /\ Promise(word, c.readable, c.addr, c.len)
    BY <2>4, ProcessVmReadvIs, OriginalPtraceIs
  <2>6. buf = vm \/ buf = word \/ (vm = <<>> /\ buf = <<>>)
    <3> HIDE DEF vm, word, c
    <3>1. call.result = CASE c.reader = "process_vm_readv" -> [reader |-> c.reader, buf |-> vm]
                          [] c.reader = "ptrace"           -> [reader |-> c.reader, buf |-> word]
                          [] c.reader = "none" /\ vm # <<>> -> [reader |-> "process_vm_readv", buf |-> vm]
                          [] c.reader = "none" /\ vm = <<>> /\ word # <<>> -> [reader |-> "ptrace", buf |-> word]
                          [] c.reader = "none" /\ vm = <<>> /\ word = <<>> -> [reader |-> c.reader, buf |-> <<>>]
      BY <2>3 DEF PtraceRead, vm, word
    <3>2. c.reader = "none" \/ c.reader = "process_vm_readv" \/ c.reader = "ptrace"
      BY <2>4 DEF Readers
    <3> QED  BY <3>1, <3>2
  <2> HIDE DEF vm, word, buf, c
  <2>7. Promise(buf, c.readable, c.addr, c.len)
    BY <2>5, <2>6
  <2>8. buf = call.result.buf /\ c = call.of
    BY DEF buf, c
  <2>9. /\ Len(buf) <= c.len
        /\ Len(buf) = c.len => buf = [k \in 1 .. c.len |-> c.addr + k - 1]
        /\ (/\ \A a \in {c.addr + k : k \in 0 .. c.len - 1} : a \div PageSize \in c.readable
            /\ c.addr + c.len + PageSize * IovecsMax < AddressEnd) => Len(buf) = c.len
    BY <2>7 DEF Promise, WholeReadable
  <2> QED  BY <2>8, <2>9 DEF ReadExact
<1> QED  BY <1>1, ResultOfACall, PTL

-----------------------------------------------------------------------------
(* Texts.                                                                   *)

\* A stream of tacc_fmt, in any state.
Stream == [out : Seq(Nat), total : Nat, avail : Nat]

\* What is left of the buffer for text.
Room(s) == IF s.avail <= 1 THEN 0 ELSE s.avail - 1

LEMMA SendIs ==
  ASSUME NEW s \in Stream, NEW text \in Seq(Nat)
  PROVE  LET n == IF Len(text) < Room(s) THEN Len(text) ELSE Room(s)
         IN  /\ n \in Nat /\ n <= Len(text) /\ n <= Room(s)
             /\ Send(s, text) \in Stream
             /\ Send(s, text).out = s.out \o SubSeq(text, 1, n)
             /\ Send(s, text).total = s.total + Len(text)
             /\ Send(s, text).avail = s.avail - n
             /\ Room(Send(s, text)) = Room(s) - n
<1> DEFINE room == Room(s)
           n == IF Len(text) < room THEN Len(text) ELSE room
           t == Send(s, text)
<1>1. /\ s.out \in Seq(Nat) /\ s.total \in Nat /\ s.avail \in Nat /\ Len(text) \in Nat
  BY DEF Stream
<1>2. room \in Nat /\ n \in Nat /\ n <= Len(text) /\ n <= room /\ s.avail - n \in Nat
  BY <1>1 DEF Room
<1>3. t = [out |-> s.out \o SubSeq(text, 1, n), total |-> s.total + Len(text), avail |-> s.avail - n]
  BY DEF Send, Room
<1>4. room = (IF s.avail <= 1 THEN 0 ELSE s.avail - 1)
  BY DEF Room
<1> HIDE DEF n, t, room
<1>5. SubSeq(text, 1, n) \in Seq(Nat)
  BY <1>1, <1>2
<1>6. s.out \o SubSeq(text, 1, n) \in Seq(Nat) /\ s.total + Len(text) \in Nat
  BY <1>1, <1>5
<1>7. t \in Stream
  BY <1>2, <1>3, <1>6 DEF Stream
<1>8. t.out = s.out \o SubSeq(text, 1, n) /\ t.total = s.total + Len(text) /\ t.avail = s.avail - n
  BY <1>3
<1>9. Room(t) = room - n
  BY <1>1, <1>2, <1>4, <1>8 DEF Room
<1> QED  BY <1>2, <1>7, <1>8, <1>9 DEF n, t, room

\* A stream is its three fields.
LEMMA SameStream ==
  ASSUME NEW s \in Stream, NEW t \in Stream, s.out = t.out, s.total = t.total, s.avail = t.avail
  PROVE  s = t
BY DEF Stream

\* Of three texts in a row it does not matter which two are joined first.
LEMMA JoinAssociative ==
  ASSUME NEW p \in Seq(Nat), NEW q \in Seq(Nat), NEW r \in Seq(Nat)
  PROVE  (p \o q) \o r = p \o (q \o r)
BY SMTT(60)

\* The beginning of two texts that are sent one after the other.
LEMMA TwoBeginnings ==
  ASSUME NEW a \in Seq(Nat), NEW b \in Seq(Nat), NEW m \in Nat, NEW n \in Nat,
         m <= Len(a), n <= Len(b), n = 0 \/ m = Len(a)
  PROVE  SubSeq(a, 1, m) \o SubSeq(b, 1, n) = SubSeq(a \o b, 1, m + n)
<1> DEFINE x == SubSeq(a, 1, m)
           y == SubSeq(b, 1, n)
           z == SubSeq(a \o b, 1, m + n)
<1>1. x \in Seq(Nat) /\ Len(x) = m /\ \A k \in 1 .. m : x[k] = a[k]
  OBVIOUS
<1>2. y \in Seq(Nat) /\ Len(y) = n /\ \A k \in 1 .. n : y[k] = b[k]
  OBVIOUS
<1>3. /\ a \o b \in Seq(Nat) /\ Len(a \o b) = Len(a) + Len(b)
      /\ \A k \in 1 .. Len(a) : (a \o b)[k] = a[k]
      /\ \A k \in Len(a) + 1 .. Len(a) + Len(b) : (a \o b)[k] = b[k - Len(a)]
  OBVIOUS
<1>4. Len(a) \in Nat /\ Len(b) \in Nat
  OBVIOUS
<1>5. z \in Seq(Nat) /\ Len(z) = m + n /\ \A k \in 1 .. m + n : z[k] = (a \o b)[k]
  <2> DEFINE c == a \o b
  <2>1. c \in Seq(Nat) /\ m + n \in Nat /\ m + n <= Len(c)
    BY <1>3, <1>4
  <2> HIDE DEF c
  <2>2. SubSeq(c, 1, m + n) \in Seq(Nat) /\ Len(SubSeq(c, 1, m + n)) = m + n
        /\ \A k \in 1 .. m + n : SubSeq(c, 1, m + n)[k] = c[k]
    BY <2>1
  <2> QED  BY <2>2 DEF c
<1> HIDE DEF x, y, z
<1>6. /\ x \o y \in Seq(Nat) /\ Len(x \o y) = m + n
      /\ \A k \in 1 .. m : (x \o y)[k] = x[k]
      /\ \A k \in m + 1 .. m + n : (x \o y)[k] = y[k - m]
  <2>1. /\ x \o y \in Seq(Nat) /\ Len(x \o y) = Len(x) + Len(y)
        /\ \A k \in 1 .. Len(x) + Len(y) : (x \o y)[k] = IF k <= Len(x) THEN x[k] ELSE y[k - Len(x)]
    <3>1. x \in Seq(Nat) /\ y \in Seq(Nat)
      BY <1>1, <1>2
    <3> QED  BY <3>1, ConcatProperties, Zenon
  <2>2. /\ \A k \in 1 .. m : k \in 1 .. m + n /\ k <= m
        /\ \A k \in m + 1 .. m + n : k \in 1 .. m + n /\ ~(k <= m)
    OBVIOUS
  <2> QED  BY <1>1, <1>2, <2>1, <2>2
<1>7. ASSUME NEW k \in 1 .. m + n PROVE (x \o y)[k] = z[k]
  <2>1. CASE k <= m
    <3>1. k \in 1 .. m /\ k \in 1 .. Len(a)
      BY <1>4, <2>1
    <3> QED  BY <1>1, <1>3, <1>5, <1>6, <3>1
  <2>2. CASE k > m
    <3>1. m = Len(a) /\ k \in m + 1 .. m + n /\ k - m \in 1 .. n /\ k \in Len(a) + 1 .. Len(a) + Len(b)
      BY <1>4, <2>2
    <3>2. (x \o y)[k] = b[k - m] /\ (a \o b)[k] = b[k - m]
      BY <1>2, <1>3, <1>6, <3>1
    <3> DEFINE u == x \o y
               v == a \o b
    <3>3. u[k] = v[k] /\ z[k] = v[k]
      BY <1>5, <3>2
    <3> HIDE DEF u, v
    <3>4. u[k] = z[k]
      BY <3>3
    <3> QED  BY <3>4 DEF u
  <2>3. k <= m \/ k > m
    OBVIOUS
  <2> QED  BY <2>1, <2>2, <2>3, Zenon
<1>8. x \o y = z
  <2>1. \A k \in 1 .. Len(x \o y) : (x \o y)[k] = z[k]
    BY <1>6, <1>7
  <2>2. Len(x \o y) = Len(z)
    BY <1>5, <1>6
  <2> QED  BY <1>5, <1>6, <2>1, <2>2, SeqEqual
<1> QED  BY <1>8 DEF x, y, z

\* Two texts sent one after the other are one text that is sent.
LEMMA SendTwice ==
  ASSUME NEW s \in Stream, NEW a \in Seq(Nat), NEW b \in Seq(Nat)
  PROVE  Send(Send(s, a), b) = Send(s, a \o b)
<1> DEFINE t == Send(s, a)
           u == Send(t, b)
           w == Send(s, a \o b)
           m == IF Len(a) < Room(s) THEN Len(a) ELSE Room(s)
           n == IF Len(b) < Room(t) THEN Len(b) ELSE Room(t)
           l == IF Len(a \o b) < Room(s) THEN Len(a \o b) ELSE Room(s)
<1>1. /\ m \in Nat /\ m <= Len(a) /\ t \in Stream /\ t.out = s.out \o SubSeq(a, 1, m)
      /\ t.total = s.total + Len(a) /\ t.avail = s.avail - m /\ Room(t) = Room(s) - m
  BY SendIs
<1>2. a \o b \in Seq(Nat) /\ Len(a \o b) = Len(a) + Len(b) /\ Len(a) \in Nat /\ Len(b) \in Nat
  OBVIOUS
<1>3. Room(s) \in Nat /\ s.total \in Nat /\ s.avail \in Nat /\ s.out \in Seq(Nat)
  BY DEF Stream, Room
<1> HIDE DEF t
<1>4. /\ n \in Nat /\ n <= Len(b) /\ u \in Stream /\ u.out = t.out \o SubSeq(b, 1, n)
      /\ u.total = t.total + Len(b) /\ u.avail = t.avail - n
  BY <1>1, SendIs
<1>5. /\ l \in Nat /\ w \in Stream /\ w.out = s.out \o SubSeq(a \o b, 1, l)
      /\ w.total = s.total + Len(a \o b) /\ w.avail = s.avail - l
  BY <1>2, SendIs
<1>6. l = m + n /\ (n = 0 \/ m = Len(a))
  <2> DEFINE la == Len(a)
             lb == Len(b)
             lc == Len(a \o b)
             r == Room(s)
             q == Room(t)
  <2>1. /\ la \in Nat /\ lb \in Nat /\ lc = la + lb /\ r \in Nat /\ q = r - m
        /\ m = (IF la < r THEN la ELSE r) /\ n = (IF lb < q THEN lb ELSE q) /\ l = (IF lc < r THEN lc ELSE r)
    BY <1>1, <1>2, <1>3
  <2> HIDE DEF la, lb, lc, r, q, m, n, l
  <2>2. l = m + n /\ (n = 0 \/ m = la)
    BY SMT, <2>1
  <2> QED  BY <2>2 DEF la
<1> HIDE DEF m, n, l, u, w
<1>7. SubSeq(a, 1, m) \o SubSeq(b, 1, n) = SubSeq(a \o b, 1, l)
  BY <1>1, <1>4, <1>6, TwoBeginnings
<1>8. (s.out \o SubSeq(a, 1, m)) \o SubSeq(b, 1, n) = s.out \o (SubSeq(a, 1, m) \o SubSeq(b, 1, n))
  <2>1. SubSeq(a, 1, m) \in Seq(Nat) /\ SubSeq(b, 1, n) \in Seq(Nat)
    BY <1>1, <1>4
  <2> DEFINE p == s.out
             q == SubSeq(a, 1, m)
             r == SubSeq(b, 1, n)
  <2>2. p \in Seq(Nat) /\ q \in Seq(Nat) /\ r \in Seq(Nat)
    BY <1>3, <2>1
  <2> HIDE DEF p, q, r
  <2>3. (p \o q) \o r = p \o (q \o r)
    BY <2>2, JoinAssociative, Zenon
  <2> QED  BY <2>3 DEF p, q, r
<1>9. u.out = w.out /\ u.total = w.total /\ u.avail = w.avail
  <2>1. s.total + Len(a) + Len(b) = s.total + (Len(a) + Len(b)) /\ s.avail - m - n = s.avail - (m + n)
    BY <1>1, <1>2, <1>3, <1>4
  <2> QED  BY <1>1, <1>2, <1>4, <1>5, <1>6, <1>7, <1>8, <2>1
<1> QED  BY <1>4, <1>5, <1>9, SameStream DEF t, u, w

\* Nothing sent changes nothing.
LEMMA SendNothing ==
  ASSUME NEW s \in Stream
  PROVE  Send(s, <<>>) = s
<1>1. s.out \in Seq(Nat) /\ s.total \in Nat /\ s.avail \in Nat
  BY DEF Stream
<1>2. <<>> \in Seq(Nat) /\ Len(<<>>) = 0
  OBVIOUS
<1>3. /\ Send(s, <<>>) \in Stream
      /\ Send(s, <<>>).total = s.total + 0
  BY <1>2, SendIs
<1>4. Room(s) \in Nat
  BY <1>1 DEF Room
<1>5. (IF Len(<<>>) < Room(s) THEN Len(<<>>) ELSE Room(s)) = 0
  BY <1>2, <1>4
<1>6. Send(s, <<>>).out = s.out \o SubSeq(<<>>, 1, 0) /\ Send(s, <<>>).avail = s.avail - 0
  BY <1>2, <1>5, SendIs
<1>7. s.out \o SubSeq(<<>>, 1, 0) = s.out
  <2>1. SubSeq(<<>>, 1, 0) = <<>> /\ s.out \o <<>> = s.out
    BY <1>1, SubSeqEmpty, ConcatEmptySeq
  <2> QED  BY <1>1, <2>1
<1>8. s.total + 0 = s.total /\ s.avail - 0 = s.avail
  BY <1>1
<1>9. Send(s, <<>>).out = s.out /\ Send(s, <<>>).total = s.total /\ Send(s, <<>>).avail = s.avail
  BY <1>3, <1>6, <1>7, <1>8
<1> QED  BY <1>3, <1>9, SameStream

\* So many times the same character.
Pads(ch, n) == [i \in 1 .. n |-> ch]

LEMMA PadsAre ==
  ASSUME NEW ch \in Nat, NEW n \in Nat
  PROVE  Pads(ch, n) \in Seq(Nat) /\ Len(Pads(ch, n)) = n /\ \A i \in 1 .. n : Pads(ch, n)[i] = ch
BY DEF Pads

LEMMA PadsTwice ==
  ASSUME NEW ch \in Nat, NEW m \in Nat, NEW n \in Nat
  PROVE  Pads(ch, m) \o Pads(ch, n) = Pads(ch, m + n)
<1> DEFINE x == Pads(ch, m)
           y == Pads(ch, n)
           z == Pads(ch, m + n)
<1>1. /\ x \in Seq(Nat) /\ Len(x) = m /\ \A i \in 1 .. m : x[i] = ch
      /\ y \in Seq(Nat) /\ Len(y) = n /\ \A i \in 1 .. n : y[i] = ch
  BY PadsAre
<1>2. z \in Seq(Nat) /\ Len(z) = m + n /\ \A i \in 1 .. m + n : z[i] = ch
  <2>1. m + n \in Nat
    OBVIOUS
  <2> QED  BY <2>1, PadsAre
<1> HIDE DEF x, y, z
<1>3. /\ x \o y \in Seq(Nat) /\ Len(x \o y) = Len(x) + Len(y)
      /\ \A k \in 1 .. Len(x) + Len(y) : (x \o y)[k] = IF k <= Len(x) THEN x[k] ELSE y[k - Len(x)]
  BY <1>1, ConcatProperties, Zenon
<1>4. ASSUME NEW k \in 1 .. m + n PROVE (x \o y)[k] = z[k]
  <2>1. (x \o y)[k] = IF k <= m THEN x[k] ELSE y[k - m]
    BY <1>1, <1>3, Zenon
  <2>2. (k <= m => k \in 1 .. m) /\ (~(k <= m) => k - m \in 1 .. n)
    OBVIOUS
  <2>3. (x \o y)[k] = ch
    BY <1>1, <2>1, <2>2, Zenon
  <2> QED  BY <1>2, <2>3, Zenon
<1>5. x \o y = z
  <2>1. \A k \in 1 .. Len(x \o y) : (x \o y)[k] = z[k]
    BY <1>1, <1>3, <1>4, Zenon
  <2>2. Len(x \o y) = Len(z)
    BY <1>1, <1>2, <1>3, Zenon
  <2> QED  BY <1>2, <1>3, <2>1, <2>2, SeqEqual
<1> QED  BY <1>5 DEF x, y, z

\* Pieces of eight are the whole padding (tacc_fmt_stream_repeat).
LEMMA RepeatIs ==
  ASSUME NEW s \in Stream, NEW ch \in Nat, NEW count \in Nat
  PROVE  SendRepeat(s, ch, count) = Send(s, Pads(ch, count))
<1> DEFINE pieces == (count + (PadSize - 1)) \div PadSize
           Piece(k) == IF count - PadSize * (k - 1) < PadSize THEN count - PadSize * (k - 1) ELSE PadSize
           Eq(g) == g = [k \in 0 .. pieces |->
                           IF k = 0 THEN s ELSE Send(g[k - 1], [i \in 1 .. Piece(k) |-> ch])]
           sent == CHOOSE g : Eq(g)
           Done(k) == IF 8 * k < count THEN 8 * k ELSE count
<1>1. pieces \in Nat /\ 8 * pieces <= count + 7 /\ count <= 8 * pieces
  BY SMT DEF PadSize
<1>2. ASSUME NEW k \in 1 .. pieces PROVE Piece(k) \in Nat /\ Done(k - 1) + Piece(k) = Done(k) /\ Done(k - 1) \in Nat
  <2>1. 8 * k <= 8 * pieces /\ k - 1 \in Nat /\ 8 * (k - 1) = 8 * k - 8
    BY SMT, <1>1
  <2> HIDE DEF pieces
  <2> QED  BY SMT, <1>1, <2>1 DEF PadSize
<1>3. Done(0) = 0 /\ Done(pieces) = count
  BY SMT, <1>1
<1> HIDE DEF Piece, Done, pieces
<1>4. \E g : Eq(g)
  <2> DEFINE step == [p \in Stream \X (1 .. pieces) |-> Send(p[1], [i \in 1 .. Piece(p[2]) |-> ch])]
  <2>1. ASSUME NEW p \in Stream \X (1 .. pieces) PROVE Send(p[1], [i \in 1 .. Piece(p[2]) |-> ch]) \in Stream
    <3>1. p[1] \in Stream /\ Piece(p[2]) \in Nat
      BY <1>2
    <3>2. Pads(ch, Piece(p[2])) \in Seq(Nat)
      BY <3>1, PadsAre
    <3>3. Send(p[1], Pads(ch, Piece(p[2]))) \in Stream
      BY <3>1, <3>2, SendIs
    <3> QED  BY <3>3 DEF Pads
  <2>2. step \in [Stream \X (1 .. pieces) -> Stream]
    BY <2>1
  <2>3. PICK g : Recursion(g, Stream, s, pieces, step)
    <3> HIDE DEF step
    <3> QED  BY <1>1, <2>2, RecursionExists
  <2>4. ASSUME NEW n \in 0 .. pieces
        PROVE  g[n] = IF n = 0 THEN s ELSE Send(g[n - 1], [i \in 1 .. Piece(n) |-> ch])
    <3>1. CASE n = 0
      BY <2>3, <3>1 DEF Recursion
    <3>2. CASE n # 0
      <4>1. n \in 1 .. pieces /\ n - 1 \in 0 .. pieces
        BY <1>1, <3>2
      <4>2. <<g[n - 1], n>> \in Stream \X (1 .. pieces)
        BY <2>3, <4>1 DEF Recursion
      <4> QED  BY <2>3, <3>2, <4>1, <4>2 DEF Recursion
    <3> QED  BY <3>1, <3>2
  <2>5. Eq(g)
    BY <2>3, <2>4 DEF Recursion
  <2> QED  BY <2>5
<1>5. Eq(sent)
  <2> HIDE DEF Eq
  <2> QED  BY <1>4
<1>6. SendRepeat(s, ch, count) = sent[pieces]
  BY Zenon DEF SendRepeat, pieces, Piece
<1> HIDE DEF sent
<1>7. sent[0] = s /\ \A k \in 1 .. pieces : sent[k] = Send(sent[k - 1], Pads(ch, Piece(k)))
  <2>1. 0 \in 0 .. pieces /\ \A k \in 1 .. pieces : k \in 0 .. pieces /\ k # 0
    BY <1>1
  <2> QED  BY <1>5, <2>1 DEF Pads
<1> HIDE DEF Eq
<1> DEFINE S == {k \in Nat : k <= pieces => sent[k] = Send(s, Pads(ch, Done(k)))}
<1>8. 0 \in S
  <2>1. Pads(ch, 0) = <<>>
    BY DEF Pads
  <2>2. Send(s, Pads(ch, 0)) = s
    BY <2>1, SendNothing
  <2> QED  BY <1>3, <1>7, <2>2
<1>9. ASSUME NEW k \in S PROVE k + 1 \in S
  <2> SUFFICES ASSUME k + 1 <= pieces PROVE sent[k + 1] = Send(s, Pads(ch, Done(k + 1)))
    OBVIOUS
  <2>1. k + 1 \in 1 .. pieces /\ (k + 1) - 1 = k /\ k <= pieces
    BY <1>1
  <2>2. sent[k + 1] = Send(sent[k], Pads(ch, Piece(k + 1))) /\ sent[k] = Send(s, Pads(ch, Done(k)))
    BY <1>7, <2>1
  <2>3. Piece(k + 1) \in Nat /\ Done(k) + Piece(k + 1) = Done(k + 1) /\ Done(k) \in Nat
    BY <1>2, <2>1
  <2>4. Pads(ch, Done(k)) \in Seq(Nat) /\ Pads(ch, Piece(k + 1)) \in Seq(Nat)
    BY <2>3, PadsAre
  <2>5. Send(Send(s, Pads(ch, Done(k))), Pads(ch, Piece(k + 1))) = Send(s, Pads(ch, Done(k)) \o Pads(ch, Piece(k + 1)))
    BY <2>4, SendTwice
  <2>6. Pads(ch, Done(k)) \o Pads(ch, Piece(k + 1)) = Pads(ch, Done(k + 1))
    <3>1. Pads(ch, Done(k)) \o Pads(ch, Piece(k + 1)) = Pads(ch, Done(k) + Piece(k + 1))
      BY <2>3, PadsTwice, Zenon
    <3> QED  BY <2>3, <3>1, Zenon
  <2> QED  BY <2>2, <2>5, <2>6
<1>10. S = Nat
  <2> HIDE DEF S
  <2>1. S \in SUBSET Nat
    BY DEF S
  <2> QED  BY <1>8, <1>9, <2>1, SetInduction
<1>11. sent[pieces] = Send(s, Pads(ch, Done(pieces)))
  BY <1>1, <1>10
<1> QED  BY <1>3, <1>6, <1>11

Bases == {8, 10, 16}

\* What a digit leaves.
LEMMA Divided ==
  ASSUME NEW base \in Bases, NEW m \in Nat
  PROVE  /\ m \div base \in Nat /\ m % base \in Nat /\ m \div base <= m
         /\ m >= base => m \div base < m /\ m \div base # 0
         /\ m < base => m \div base = 0 /\ m % base = m
         /\ \A c \in Nat : m <= c => m \div base <= c \div 8
<1>1. base = 8 \/ base = 10 \/ base = 16
  BY DEF Bases
<1>2. CASE base = 8
  BY SMT, <1>2
<1>3. CASE base = 10
  BY SMT, <1>3
<1>4. CASE base = 16
  BY SMT, <1>4
<1> QED  BY <1>1, <1>2, <1>3, <1>4

\* The equation of a numeral, for all numbers up to one.
Numerals(d, N, base) ==
  d = [m \in 0 .. N |-> IF m < base THEN <<m>> ELSE Append(d[m \div base], m % base)]

LEMMA NumeralsExist ==
  ASSUME NEW base \in Bases, NEW n \in Nat
  PROVE  \E d : Numerals(d, n, base)
<1> DEFINE S == {N \in Nat : \E d : Numerals(d, N, base)}
<1>1. base \in Nat /\ 0 < base
  BY DEF Bases
<1>2. 0 \in S
  <2> DEFINE d == [m \in 0 .. 0 |-> <<m>>]
  <2>1. d = [m \in 0 .. 0 |-> IF m < base THEN <<m>> ELSE Append(d[m \div base], m % base)]
    BY <1>1
  <2> HIDE DEF d
  <2>2. Numerals(d, 0, base)
    BY <2>1 DEF Numerals
  <2> QED  BY <2>2
<1>3. ASSUME NEW N \in S PROVE N + 1 \in S
  <2>1. PICK d : Numerals(d, N, base)
    OBVIOUS
  <2> DEFINE Value(f, m) == IF m < base THEN <<m>> ELSE Append(f[m \div base], m % base)
             e == [m \in 0 .. N + 1 |-> IF m = N + 1 THEN Value(d, m) ELSE d[m]]
  <2>2. ASSUME NEW m \in 0 .. N + 1 PROVE Value(e, m) = Value(d, m)
    <3>1. CASE m < base
      BY <3>1
    <3>2. CASE ~(m < base)
      <4>1. m \in Nat /\ m >= base
        BY <1>1, <3>2
      <4>2. m \div base \in Nat /\ m \div base < m
        BY <4>1, Divided
      <4>3. m \div base \in 0 .. N + 1 /\ m \div base # N + 1
        BY <4>1, <4>2
      <4>4. e[m \div base] = d[m \div base]
        BY <4>3
      <4> HIDE DEF e
      <4> QED  BY <4>4
    <3> QED  BY <3>1, <3>2
  <2>3. ASSUME NEW m \in 0 .. N + 1 PROVE e[m] = Value(d, m)
    <3>1. CASE m = N + 1
      BY <3>1
    <3>2. CASE m # N + 1
      <4>1. m \in 0 .. N
        BY <3>2
      <4>2. d[m] = Value(d, m)
        BY <2>1, <4>1 DEF Numerals
      <4> HIDE DEF Value
      <4> QED  BY <3>2, <4>2
    <3> QED  BY <3>1, <3>2
  <2>4. DOMAIN e = 0 .. N + 1 /\ e = [m \in 0 .. N + 1 |-> e[m]]
    BY Zenon
  <2> HIDE DEF e, Value
  <2>5. e = [m \in 0 .. N + 1 |-> Value(e, m)]
    BY <2>2, <2>3, <2>4, Zenon
  <2>6. Numerals(e, N + 1, base)
    BY <2>5 DEF Numerals, Value
  <2> QED  BY <2>6
<1>4. S = Nat
  <2> HIDE DEF S
  <2>1. S \in SUBSET Nat
    BY DEF S
  <2> QED  BY <1>2, <1>3, <2>1, SetInduction
<1> QED  BY <1>4

\* The numerals of the numbers up to one.
NumeralsUpTo(d, n, base) ==
  \A m \in 0 .. n : /\ d[m] \in Seq(Nat)
                    /\ d[m] = IF m < base THEN <<m>> ELSE Append(d[m \div base], m % base)

LEMMA NumeralIs ==
  ASSUME NEW base \in Bases, NEW n \in Nat
  PROVE  \E d : Numeral(n, base) = d[n] /\ NumeralsUpTo(d, n, base)
<1> DEFINE d == CHOOSE g : Numerals(g, n, base)
           S == {N \in Nat : \A m \in 0 .. N : m <= n => d[m] \in Seq(Nat)}
<1>1. Numerals(d, n, base)
  BY NumeralsExist
<1>2. Numeral(n, base) = d[n]
  BY Zenon DEF Numeral, Numerals
<1> HIDE DEF d
<1>3. ASSUME NEW m \in 0 .. n
      PROVE  d[m] = IF m < base THEN <<m>> ELSE Append(d[m \div base], m % base)
  BY <1>1 DEF Numerals
<1>4. base \in Nat /\ 0 < base
  BY DEF Bases
<1>5. 0 \in S
  <2>1. 0 \in 0 .. n /\ \A m \in 0 .. 0 : m = 0
    OBVIOUS
  <2>2. d[0] = <<0>>
    BY <1>3, <1>4, <2>1, Zenon
  <2>3. <<0>> \in Seq(Nat)
    OBVIOUS
  <2> QED  BY <2>1, <2>2, <2>3, Zenon
<1>6. ASSUME NEW N \in S PROVE N + 1 \in S
  <2> SUFFICES ASSUME N + 1 <= n PROVE d[N + 1] \in Seq(Nat)
    OBVIOUS
  <2>1. N + 1 \in 0 .. n /\ N + 1 \in Nat
    OBVIOUS
  <2>2. CASE N + 1 < base
    <3>1. d[N + 1] = <<N + 1>>
      BY <1>3, <2>1, <2>2
    <3> QED  BY <2>1, <3>1
  <2>3. CASE ~(N + 1 < base)
    <3>1. (N + 1) \div base \in Nat /\ (N + 1) \div base < N + 1 /\ (N + 1) % base \in Nat
      <4> DEFINE m == N + 1
      <4>1. m \in Nat /\ m >= base
        BY <1>4, <2>1, <2>3
      <4> HIDE DEF m
      <4>2. m \div base \in Nat /\ m \div base < m /\ m % base \in Nat
        BY <4>1, Divided
      <4> QED  BY <4>2 DEF m
    <3>2. (N + 1) \div base \in 0 .. N /\ (N + 1) \div base <= n
      BY <2>1, <3>1
    <3>3. d[(N + 1) \div base] \in Seq(Nat)
      BY <3>2
    <3>4. d[N + 1] = Append(d[(N + 1) \div base], (N + 1) % base)
      BY <1>3, <2>1, <2>3
    <3> HIDE DEF S
    <3> QED  BY <3>1, <3>3, <3>4, AppendProperties, Zenon
  <2> QED  BY <2>2, <2>3
<1>7. S = Nat
  <2> HIDE DEF S
  <2>1. S \in SUBSET Nat
    BY DEF S
  <2> QED  BY <1>5, <1>6, <2>1, SetInduction
<1>8. \A m \in 0 .. n : d[m] \in Seq(Nat)
  BY <1>7
<1> QED  BY <1>2, <1>3, <1>8 DEF NumeralsUpTo

\* A number that fits is used up by as many divisions as there is room for.
LEMMA FitsIs ==
  ASSUME NEW n \in Nat, FitsBuffer(n)
  PROVE  \E rest : /\ rest[0] = n /\ rest[NumberBuffer - 3] = 0
                   /\ \A k \in 0 .. NumberBuffer - 3 : rest[k] \in Nat
                   /\ \A k \in 1 .. NumberBuffer - 3 : rest[k] = rest[k - 1] \div 8
<1> DEFINE last == NumberBuffer - 3
           Eq(g) == g = [k \in 0 .. last |-> IF k = 0 THEN n ELSE g[k - 1] \div 8]
           rest == CHOOSE g : Eq(g)
           S == {k \in Nat : k <= last => rest[k] \in Nat}
<1>1. last \in Nat
  BY NumberAssumption
<1>2. rest[last] = 0
  BY Zenon DEF FitsBuffer
<1> HIDE DEF last
<1>3. \E g : Eq(g)
  <2> DEFINE step == [p \in Nat \X (1 .. last) |-> p[1] \div 8]
  <2>1. step \in [Nat \X (1 .. last) -> Nat]
    <3>1. \A p \in Nat \X (1 .. last) : p[1] \in Nat
      OBVIOUS
    <3>2. \A m \in Nat : m \div 8 \in Nat
      BY SMT
    <3> QED  BY <3>1, <3>2
  <2>2. PICK g : Recursion(g, Nat, n, last, step)
    <3> HIDE DEF step
    <3> QED  BY <1>1, <2>1, RecursionExists
  <2>3. ASSUME NEW k \in 0 .. last PROVE g[k] = IF k = 0 THEN n ELSE g[k - 1] \div 8
    <3>1. CASE k = 0
      BY <2>2, <3>1 DEF Recursion
    <3>2. CASE k # 0
      <4>1. k \in 1 .. last /\ k - 1 \in 0 .. last
        BY <1>1, <3>2
      <4>2. <<g[k - 1], k>> \in Nat \X (1 .. last)
        BY <2>2, <4>1 DEF Recursion
      <4> QED  BY <2>2, <3>2, <4>1, <4>2 DEF Recursion
    <3> QED  BY <3>1, <3>2
  <2>4. Eq(g)
    BY <2>2, <2>3 DEF Recursion
  <2> QED  BY <2>4
<1>4. Eq(rest)
  <2> HIDE DEF Eq
  <2> QED  BY <1>3
<1> HIDE DEF rest
<1>5. rest[0] = n /\ \A k \in 1 .. last : rest[k] = rest[k - 1] \div 8
  <2>1. 0 \in 0 .. last /\ \A k \in 1 .. last : k \in 0 .. last /\ k # 0
    BY <1>1
  <2> QED  BY <1>4, <2>1
<1> HIDE DEF Eq
<1>6. 0 \in S
  BY <1>5
<1>7. ASSUME NEW k \in S PROVE k + 1 \in S
  <2> SUFFICES ASSUME k + 1 <= last PROVE rest[k + 1] \in Nat
    OBVIOUS
  <2>1. k + 1 \in 1 .. last /\ (k + 1) - 1 = k /\ rest[k] \in Nat
    BY <1>1
  <2>2. rest[k + 1] = rest[k] \div 8
    BY <1>5, <2>1
  <2> QED  BY SMT, <2>1, <2>2
<1>8. S = Nat
  <2> HIDE DEF S
  <2>1. S \in SUBSET Nat
    BY DEF S
  <2> QED  BY <1>6, <1>7, <2>1, SetInduction
<1>9. \A k \in 0 .. last : rest[k] \in Nat
  BY <1>1, <1>8
<1> QED  BY <1>2, <1>5, <1>9 DEF last

\* What is left of a number, and the digits that are out.
DigitTurns == [value : Nat, text : Seq(Nat)]

LEMMA NextDigitIs ==
  ASSUME NEW base \in Bases, NEW t \in DigitTurns
  PROVE  /\ NextDigit(t, base) \in DigitTurns
         /\ NextDigit(t, base).value = (IF t.value = 0 THEN 0 ELSE t.value \div base)
         /\ NextDigit(t, base).text = (IF t.value = 0 THEN t.text ELSE <<t.value % base>> \o t.text)
<1>1. t.value \in Nat /\ t.text \in Seq(Nat)
  BY DEF DigitTurns
<1>2. CASE t.value = 0
  BY <1>2 DEF NextDigit
<1>3. CASE t.value # 0
  <2>1. t.value \div base \in Nat /\ t.value % base \in Nat
    BY <1>1, Divided
  <2>2. <<t.value % base>> \in Seq(Nat)
    BY <2>1
  <2>3. <<t.value % base>> \o t.text \in Seq(Nat)
    BY <1>1, <2>2, ConcatProperties, Zenon
  <2>4. NextDigit(t, base) = [value |-> t.value \div base, text |-> <<t.value % base>> \o t.text]
    BY <1>3 DEF NextDigit
  <2> QED  BY <1>3, <2>1, <2>3, <2>4 DEF DigitTurns
<1> QED  BY <1>2, <1>3

\* The turns of tacc_fmt_format_unsigned.
LEMMA TurnsAre ==
  ASSUME NEW room \in Nat \ {0}, NEW n \in Nat \ {0}, NEW base \in Bases
  PROVE  \E turn : /\ FormatUnsigned(room, n, base) = turn[room - 1].text
                   /\ turn[0] = [value |-> n, text |-> <<>>]
                   /\ \A k \in 0 .. room - 1 : turn[k] \in DigitTurns
                   /\ \A k \in 1 .. room - 1 : turn[k] = NextDigit(turn[k - 1], base)
<1> DEFINE last == room - 1
           c == [value |-> n, text |-> <<>>]
           Eq(g) == g = [k \in 0 .. last |-> IF k = 0 THEN c ELSE NextDigit(g[k - 1], base)]
           turn == CHOOSE g : Eq(g)
           S == {k \in Nat : k <= last => turn[k] \in DigitTurns}
<1>1. last \in Nat
  OBVIOUS
<1>2. FormatUnsigned(room, n, base) = turn[last].text
  <2>1. n # 0
    OBVIOUS
  <2> QED  BY <2>1, Zenon DEF FormatUnsigned
<1>3. c \in DigitTurns
  BY DEF DigitTurns
<1> HIDE DEF last, c
<1>4. \E g : Eq(g)
  <2> DEFINE step == [p \in DigitTurns \X (1 .. last) |-> NextDigit(p[1], base)]
  <2>1. step \in [DigitTurns \X (1 .. last) -> DigitTurns]
    BY NextDigitIs
  <2>2. PICK g : Recursion(g, DigitTurns, c, last, step)
    <3> HIDE DEF step
    <3> QED  BY <1>1, <1>3, <2>1, RecursionExists
  <2>3. ASSUME NEW k \in 0 .. last PROVE g[k] = IF k = 0 THEN c ELSE NextDigit(g[k - 1], base)
    <3>1. CASE k = 0
      BY <2>2, <3>1 DEF Recursion
    <3>2. CASE k # 0
      <4>1. k \in 1 .. last /\ k - 1 \in 0 .. last
        BY <1>1, <3>2
      <4>2. <<g[k - 1], k>> \in DigitTurns \X (1 .. last)
        BY <2>2, <4>1 DEF Recursion
      <4> QED  BY <2>2, <3>2, <4>1, <4>2 DEF Recursion
    <3> QED  BY <3>1, <3>2
  <2>4. Eq(g)
    BY <2>2, <2>3 DEF Recursion
  <2> QED  BY <2>4
<1>5. Eq(turn)
  <2> HIDE DEF Eq
  <2> QED  BY <1>4
<1> HIDE DEF turn
<1>6. turn[0] = c /\ \A k \in 1 .. last : turn[k] = NextDigit(turn[k - 1], base)
  <2>1. 0 \in 0 .. last /\ \A k \in 1 .. last : k \in 0 .. last /\ k # 0
    BY <1>1
  <2> QED  BY <1>5, <2>1
<1> HIDE DEF Eq
<1>7. 0 \in S
  BY <1>3, <1>6
<1>8. ASSUME NEW k \in S PROVE k + 1 \in S
  <2> SUFFICES ASSUME k + 1 <= last PROVE turn[k + 1] \in DigitTurns
    OBVIOUS
  <2>1. k + 1 \in 1 .. last /\ (k + 1) - 1 = k /\ turn[k] \in DigitTurns
    BY <1>1
  <2>2. turn[k + 1] = NextDigit(turn[k], base)
    BY <1>6, <2>1
  <2> QED  BY <2>1, <2>2, NextDigitIs
<1>9. S = Nat
  <2> HIDE DEF S
  <2>1. S \in SUBSET Nat
    BY DEF S
  <2> QED  BY <1>7, <1>8, <2>1, SetInduction
<1>10. \A k \in 0 .. last : turn[k] \in DigitTurns
  BY <1>1, <1>9
<1> QED  BY <1>2, <1>6, <1>10 DEF last, c

\* The digits that are out are the end of the numeral, and what is left of the
\* number is its beginning.
Splits(t, d, n, whole) ==
  t.value <= n /\ whole = IF t.value = 0 THEN t.text ELSE d[t.value] \o t.text

LEMMA DigitKeeps ==
  ASSUME NEW base \in Bases, NEW t \in DigitTurns, NEW n \in Nat, NEW d, NEW whole,
         NumeralsUpTo(d, n, base), Splits(t, d, n, whole)
  PROVE  Splits(NextDigit(t, base), d, n, whole)
<1> DEFINE u == NextDigit(t, base)
           v == t.value
           rest == v \div base
           digit == v % base
<1>1. /\ u \in DigitTurns /\ u.value = (IF v = 0 THEN 0 ELSE rest)
      /\ u.text = (IF v = 0 THEN t.text ELSE <<digit>> \o t.text)
  BY NextDigitIs
<1>2. v \in Nat /\ t.text \in Seq(Nat) /\ base \in Nat
  BY DEF DigitTurns, Bases
<1> HIDE DEF u
<1>3. v <= n /\ whole = IF v = 0 THEN t.text ELSE d[v] \o t.text
  BY DEF Splits
<1>4. CASE v = 0
  <2> HIDE DEF v
  <2>1. u.value = 0 /\ u.text = t.text /\ whole = t.text /\ u.value <= n
    BY <1>1, <1>3, <1>4
  <2> QED  BY <2>1 DEF Splits, u
<1>5. CASE v # 0
  <2>1. /\ rest \in Nat /\ digit \in Nat /\ rest <= v
        /\ v >= base => rest # 0
        /\ v < base => rest = 0 /\ digit = v
    BY <1>2, Divided
  <2>2. v \in 0 .. n /\ rest \in 0 .. n
    BY <1>2, <1>3, <2>1
  <2>3. u.value = rest /\ u.text = <<digit>> \o t.text /\ whole = d[v] \o t.text /\ rest <= n
    <3> HIDE DEF v, rest, digit
    <3>1. u.value = rest /\ u.text = <<digit>> \o t.text
      BY <1>1, <1>5, Zenon
    <3>2. whole = d[v] \o t.text
      BY <1>3, <1>5, Zenon
    <3> QED  BY <2>2, <3>1, <3>2
  <2> HIDE DEF v, rest, digit
  <2>4. CASE v < base
    <3>1. d[v] = <<digit>>
      BY <2>1, <2>2, <2>4 DEF rest, digit, NumeralsUpTo
    <3> QED  BY <2>1, <2>3, <2>4, <3>1 DEF Splits, u
  <2>5. CASE ~(v < base)
    <3>1. v >= base
      BY <1>2, <2>5 DEF v
    <3>2. d[v] = Append(d[rest], digit) /\ d[rest] \in Seq(Nat)
      BY <2>2, <2>5 DEF rest, digit, NumeralsUpTo
    <3>3. d[v] = d[rest] \o <<digit>>
      BY <2>1, <3>2, AppendIsConcat, Zenon
    <3> DEFINE p == d[rest]
               q == <<digit>>
               r == t.text
    <3>4. p \in Seq(Nat) /\ q \in Seq(Nat) /\ r \in Seq(Nat)
      BY <1>2, <2>1, <3>2
    <3> HIDE DEF p, q, r
    <3>5. (p \o q) \o r = p \o (q \o r)
      BY <3>4, JoinAssociative, Zenon
    <3>6. whole = d[rest] \o u.text
      BY <2>3, <3>3, <3>5 DEF p, q, r
    <3> QED  BY <2>1, <2>3, <3>1, <3>6 DEF Splits, u
  <2> QED  BY <2>4, <2>5
<1> QED  BY <1>4, <1>5

\* tacc_fmt_format_unsigned writes the numeral, where the buffer has the room
\* of its octal digits.
LEMMA UnsignedIs ==
  ASSUME NEW base \in Bases, NEW n \in Nat, FitsBuffer(n),
         NEW room \in Nat, room >= NumberBuffer - 2
  PROVE  FormatUnsigned(room, n, base) = Numeral(n, base) /\ Numeral(n, base) \in Seq(Nat)
<1>1. PICK d : Numeral(n, base) = d[n] /\ NumeralsUpTo(d, n, base)
  BY NumeralIs
<1>2. n \in 0 .. n /\ base \in Nat /\ 0 < base
  BY DEF Bases
<1>3. d[n] \in Seq(Nat)
  BY <1>1, <1>2 DEF NumeralsUpTo
<1>4. CASE n = 0
  <2>1. d[n] = <<n>>
    BY <1>1, <1>2, <1>4 DEF NumeralsUpTo
  <2>2. FormatUnsigned(room, n, base) = <<0>>
    BY <1>4 DEF FormatUnsigned
  <2> QED  BY <1>1, <1>3, <1>4, <2>1, <2>2
<1>5. CASE n # 0
  <2>1. n \in Nat \ {0} /\ room \in Nat \ {0} /\ NumberBuffer - 3 \in Nat /\ NumberBuffer - 3 <= room - 1
        /\ room - 1 \in Nat
    BY <1>5, NumberAssumption
  <2>2. PICK turn : /\ FormatUnsigned(room, n, base) = turn[room - 1].text
                    /\ turn[0] = [value |-> n, text |-> <<>>]
                    /\ \A k \in 0 .. room - 1 : turn[k] \in DigitTurns
                    /\ \A k \in 1 .. room - 1 : turn[k] = NextDigit(turn[k - 1], base)
    BY <2>1, TurnsAre
  <2>3. PICK rest : /\ rest[0] = n /\ rest[NumberBuffer - 3] = 0
                    /\ \A k \in 0 .. NumberBuffer - 3 : rest[k] \in Nat
                    /\ \A k \in 1 .. NumberBuffer - 3 : rest[k] = rest[k - 1] \div 8
    BY FitsIs
  <2> DEFINE last == room - 1
             full == NumberBuffer - 3
             Holds(k) == /\ Splits(turn[k], d, n, d[n])
                         /\ k <= full => turn[k].value <= rest[k]
                         /\ full <= k => turn[k].value = 0
             S == {k \in Nat : k <= last => Holds(k)}
  <2>4. last \in Nat /\ full \in Nat /\ full <= last
    BY <2>1
  <2>5. /\ turn[0] = [value |-> n, text |-> <<>>]
        /\ \A k \in 0 .. last : turn[k] \in DigitTurns
        /\ \A k \in 1 .. last : turn[k] = NextDigit(turn[k - 1], base)
        /\ rest[0] = n /\ rest[full] = 0
        /\ \A k \in 0 .. full : rest[k] \in Nat
        /\ \A k \in 1 .. full : rest[k] = rest[k - 1] \div 8
    BY <2>2, <2>3
  <2> HIDE DEF last, full
  <2>6. 0 \in S
    <3>1. turn[0].value = n /\ turn[0].text = <<>>
      BY <2>5
    <3>2. d[n] \o <<>> = d[n]
      BY <1>3, ConcatEmptySeq
    <3>3. full <= 0 => full = 0
      BY <2>4
    <3>4. Holds(0)
      BY <1>5, <2>5, <3>1, <3>2, <3>3 DEF Splits
    <3> QED  BY <3>4
  <2>7. ASSUME NEW k \in S PROVE k + 1 \in S
    <3> SUFFICES ASSUME k + 1 <= last PROVE Holds(k + 1)
      OBVIOUS
    <3>1. k \in Nat /\ k + 1 \in 1 .. last /\ (k + 1) - 1 = k /\ k \in 0 .. last /\ k + 1 \in 0 .. last /\ k <= last
      BY <2>4
    <3> DEFINE t == turn[k]
               u == turn[k + 1]
    <3>2. Holds(k) /\ u = NextDigit(t, base) /\ t \in DigitTurns /\ u \in DigitTurns
      BY <2>5, <3>1
    <3> HIDE DEF S
    <3>3. Splits(u, d, n, d[n])
      BY <1>1, <3>2, DigitKeeps
    <3>4. u.value = (IF t.value = 0 THEN 0 ELSE t.value \div base) /\ t.value \in Nat /\ u.value \in Nat
      <4>1. NextDigit(t, base).value = (IF t.value = 0 THEN 0 ELSE t.value \div base)
        BY <3>2, NextDigitIs
      <4> QED  BY <3>2, <4>1 DEF DigitTurns
    <3>5. k + 1 <= full => u.value <= rest[k + 1]
      <4> SUFFICES ASSUME k + 1 <= full PROVE u.value <= rest[k + 1]
        OBVIOUS
      <4>1. k + 1 \in 1 .. full /\ k \in 0 .. full /\ k + 1 \in 0 .. full /\ k <= full
        BY <2>4, <3>1
      <4>2. rest[k + 1] = rest[k] \div 8 /\ rest[k] \in Nat /\ rest[k + 1] \in Nat /\ t.value <= rest[k]
        BY <2>5, <3>1, <3>2, <4>1
      <4>3. t.value \div base <= rest[k] \div 8
        BY <3>4, <4>2, Divided
      <4> HIDE DEF t, u
      <4> QED  BY <3>4, <4>2, <4>3
    <3>6. full <= k + 1 => u.value = 0
      <4> SUFFICES ASSUME full <= k + 1 PROVE u.value = 0
        OBVIOUS
      <4>1. CASE full <= k
        BY <3>2, <3>4, <4>1
      <4>2. CASE ~(full <= k)
        <5>1. k + 1 = full
          BY <2>4, <3>1, <4>2
        <5>2. u.value <= 0
          BY <2>4, <2>5, <3>1, <3>5, <5>1
        <5> HIDE DEF u
        <5> QED  BY <3>4, <5>2
      <4> QED  BY <4>1, <4>2
    <3> QED  BY <3>3, <3>5, <3>6
  <2>8. S = Nat
    <3> HIDE DEF S
    <3>1. S \in SUBSET Nat
      BY DEF S
    <3> QED  BY <2>6, <2>7, <3>1, SetInduction
  <2>9. Holds(last)
    <3>1. last \in S
      BY <2>4, <2>8
    <3> QED  BY <2>4, <3>1
  <2>10. d[n] = turn[last].text
    BY <2>4, <2>9 DEF Splits
  <2> QED  BY <1>1, <1>3, <2>2, <2>10 DEF last
<1> QED  BY <1>4, <1>5

\* tacc_fmt_format_integer writes the number with its sign.
LEMMA IntegerIs ==
  ASSUME NEW conv \in {"d", "u", "o", "x"}, NEW i, i.arg \in Int, NEW base,
         base = (CASE conv = "x" -> 16 [] conv = "o" -> 8 [] conv \in {"d", "u"} -> 10),
         FitsBuffer(IF i.arg < 0 THEN -i.arg ELSE i.arg),
         NEW room \in Nat, room >= NumberBuffer - 2, i.arg < 0 => room - 1 >= NumberBuffer - 2
  PROVE  FormatInteger(room, conv, i.arg) = Number(i, base) /\ Number(i, base) \in Seq(Nat)
<1>1. base \in Bases
  BY DEF Bases
<1>2. FormatInteger(room, conv, i.arg) =
        IF i.arg < 0 THEN <<Minus>> \o FormatUnsigned(room - 1, -i.arg, base) ELSE FormatUnsigned(room, i.arg, base)
  BY DEF FormatInteger
<1>3. CASE i.arg < 0
  <2>1. -i.arg \in Nat /\ FitsBuffer(-i.arg) /\ room - 1 \in Nat /\ room - 1 >= NumberBuffer - 2
    BY <1>3, NumberAssumption
  <2>2. FormatUnsigned(room - 1, -i.arg, base) = Numeral(-i.arg, base) /\ Numeral(-i.arg, base) \in Seq(Nat)
    <3> DEFINE n == -i.arg
               less == room - 1
    <3>1. n \in Nat /\ FitsBuffer(n) /\ less \in Nat /\ less >= NumberBuffer - 2
      BY <2>1
    <3> HIDE DEF n, less
    <3>2. FormatUnsigned(less, n, base) = Numeral(n, base) /\ Numeral(n, base) \in Seq(Nat)
      BY <1>1, <3>1, UnsignedIs
    <3> QED  BY <3>2 DEF n, less
  <2>3. <<Minus>> \in Seq(Nat)
    BY DEF Minus
  <2>4. <<Minus>> \o Numeral(-i.arg, base) \in Seq(Nat)
    BY <2>2, <2>3, ConcatProperties, Zenon
  <2> QED  BY <1>2, <1>3, <2>2, <2>4 DEF Number
<1>4. CASE ~(i.arg < 0)
  <2>1. i.arg \in Nat /\ FitsBuffer(i.arg)
    BY <1>4
  <2>2. FormatUnsigned(room, i.arg, base) = Numeral(i.arg, base) /\ Numeral(i.arg, base) \in Seq(Nat)
    BY <1>1, <2>1, UnsignedIs
  <2> QED  BY <1>2, <1>4, <2>2 DEF Number
<1> QED  BY <1>3, <1>4

\* The text of a conversion is that of the C library.
LEMMA ConvertedIs ==
  ASSUME NEW i, Item(i), i.conv # "text", i.conv # "unsupported"
  PROVE  Converted(i) = Body(i) /\ Body(i) \in Seq(Nat) /\ i.width \in Int /\ i.zero \in BOOLEAN /\ i.left \in BOOLEAN
<1>1. /\ i.width \in Int /\ i.zero \in BOOLEAN /\ i.left \in BOOLEAN
      /\ \/ i.conv = "%"
         \/ i.conv \in {"s", "c"} /\ i.arg \in Seq(Nat)
         \/ i.conv \in {"u", "x", "p"} /\ i.arg \in Nat /\ FitsBuffer(i.arg)
         \/ i.conv \in {"d", "o"} /\ i.arg \in Int /\ FitsBuffer(IF i.arg < 0 THEN -i.arg ELSE i.arg)
  BY DEF Item
<1>2. NumberBuffer \in Nat /\ NumberBuffer - 2 \in Nat /\ NumberBuffer >= NumberBuffer - 2
      /\ NumberBuffer - 1 >= NumberBuffer - 2
  BY NumberAssumption
<1>3. ASSUME i.conv \in {"u", "x", "p"}, i.arg \in Nat, FitsBuffer(i.arg)
      PROVE  i.arg \in Int /\ ~(i.arg < 0) /\ FitsBuffer(IF i.arg < 0 THEN -i.arg ELSE i.arg)
  BY <1>3
<1>4. CASE i.conv = "%"
  <2>1. Converted(i) = <<Percent>> /\ Body(i) = <<Percent>>
    BY <1>4 DEF Converted, Body
  <2> QED  BY <1>1, <2>1 DEF Percent
<1>5. CASE i.conv \in {"s", "c"} /\ i.arg \in Seq(Nat)
  <2>1. Converted(i) = i.arg /\ Body(i) = i.arg
    BY <1>5 DEF Converted, Body
  <2> QED  BY <1>1, <1>5, <2>1
<1>6. CASE i.conv = "p" /\ i.arg \in Nat /\ FitsBuffer(i.arg)
  <2>1. FormatInteger(NumberBuffer - 2, "x", i.arg) = Number(i, 16) /\ Number(i, 16) \in Seq(Nat)
    BY <1>2, <1>3, <1>6, IntegerIs
  <2>2. <<0, LetterX>> \in Seq(Nat)
    BY DEF LetterX
  <2>3. <<0, LetterX>> \o Number(i, 16) \in Seq(Nat)
    BY <2>1, <2>2, ConcatProperties, Zenon
  <2>4. Converted(i) = <<0, LetterX>> \o Number(i, 16) /\ Body(i) = <<0, LetterX>> \o Number(i, 16)
    BY <1>6, <2>1 DEF Converted, Body
  <2> QED  BY <1>1, <2>3, <2>4, Zenon
<1>7. CASE i.conv \in {"u", "d"} /\ i.arg \in Int /\ FitsBuffer(IF i.arg < 0 THEN -i.arg ELSE i.arg)
  <2>1. FormatInteger(NumberBuffer, i.conv, i.arg) = Number(i, 10) /\ Number(i, 10) \in Seq(Nat)
    BY <1>2, <1>7, IntegerIs
  <2>2. Converted(i) = Number(i, 10) /\ Body(i) = Number(i, 10)
    BY <1>7, <2>1 DEF Converted, Body
  <2> QED  BY <1>1, <2>1, <2>2, Zenon
<1>8. CASE i.conv = "x" /\ i.arg \in Int /\ FitsBuffer(IF i.arg < 0 THEN -i.arg ELSE i.arg)
  <2>1. FormatInteger(NumberBuffer, i.conv, i.arg) = Number(i, 16) /\ Number(i, 16) \in Seq(Nat)
    BY <1>2, <1>8, IntegerIs
  <2>2. Converted(i) = Number(i, 16) /\ Body(i) = Number(i, 16)
    BY <1>8, <2>1 DEF Converted, Body
  <2> QED  BY <1>1, <2>1, <2>2, Zenon
<1>9. CASE i.conv = "o" /\ i.arg \in Int /\ FitsBuffer(IF i.arg < 0 THEN -i.arg ELSE i.arg)
  <2>1. FormatInteger(NumberBuffer, i.conv, i.arg) = Number(i, 8) /\ Number(i, 8) \in Seq(Nat)
    BY <1>2, <1>9, IntegerIs
  <2>2. Converted(i) = Number(i, 8) /\ Body(i) = Number(i, 8)
    BY <1>9, <2>1 DEF Converted, Body
  <2> QED  BY <1>1, <2>1, <2>2, Zenon
<1> QED  BY <1>1, <1>3, <1>4, <1>5, <1>6, <1>7, <1>8, <1>9

\* One item is sent as a whole.
LEMMA FieldIs ==
  ASSUME NEW s \in Stream, NEW i, Item(i), i.conv # "text", i.conv # "unsupported"
  PROVE  FullItem(i) \in Seq(Nat) /\ Field(s, i) = Send(s, FullItem(i))
<1> DEFINE text == Body(i)
           pad == IF i.zero THEN 0 ELSE Blank
           missing == i.width - Len(text)
           pads == Pads(pad, missing)
<1>1. Converted(i) = text /\ text \in Seq(Nat) /\ i.width \in Int /\ i.zero \in BOOLEAN /\ i.left \in BOOLEAN
  BY ConvertedIs
<1>2. Len(text) \in Nat /\ missing \in Int /\ pad \in Nat
  BY <1>1 DEF Blank
<1>3. Field(s, i) = IF missing <= 0 THEN Send(s, text)
                    ELSE IF i.left THEN SendRepeat(Send(s, text), pad, missing)
                    ELSE Send(SendRepeat(s, pad, missing), text)
  BY <1>1 DEF Field
<1>4. FullItem(i) = IF missing <= 0 THEN text ELSE IF i.left THEN text \o pads ELSE pads \o text
  BY DEF FullItem, Pads
<1> HIDE DEF text, pad, missing, pads
<1>5. CASE missing <= 0
  BY <1>1, <1>3, <1>4, <1>5
<1>6. CASE ~(missing <= 0)
  <2>1. missing \in Nat
    BY <1>2, <1>6
  <2>2. pads \in Seq(Nat)
    BY <1>2, <2>1, PadsAre DEF pads
  <2>3. CASE i.left
    <3>1. Send(s, text) \in Stream
      BY <1>1, SendIs
    <3>2. SendRepeat(Send(s, text), pad, missing) = Send(Send(s, text), pads)
      BY <1>2, <2>1, <3>1, RepeatIs DEF pads
    <3>3. Send(Send(s, text), pads) = Send(s, text \o pads)
      BY <1>1, <2>2, SendTwice
    <3>4. text \o pads \in Seq(Nat)
      BY <1>1, <2>2, ConcatProperties, Zenon
    <3> QED  BY <1>3, <1>4, <1>6, <2>3, <3>2, <3>3, <3>4, Zenon
  <2>4. CASE ~i.left
    <3>1. SendRepeat(s, pad, missing) = Send(s, pads)
      BY <1>2, <2>1, RepeatIs DEF pads
    <3>2. Send(Send(s, pads), text) = Send(s, pads \o text)
      BY <1>1, <2>2, SendTwice
    <3>3. pads \o text \in Seq(Nat)
      BY <1>1, <2>2, ConcatProperties, Zenon
    <3> QED  BY <1>3, <1>4, <1>6, <2>4, <3>1, <3>2, <3>3, Zenon
  <2> QED  BY <2>3, <2>4
<1> QED  BY <1>5, <1>6

\* The items that are worked off are all before the first that is unsupported.
LEMMA UsedIs ==
  ASSUME NEW format, Len(format) \in Nat, DOMAIN format = 1 .. Len(format)
  PROVE  /\ Used(format) \in Nat
         /\ \A k \in 1 .. Used(format) : k \in DOMAIN format /\ format[k].conv # "unsupported"
<1> DEFINE stops == {k \in DOMAIN format : Unsupported(format[k])}
           Least(k) == k \in stops /\ \A m \in stops : k <= m
           least == CHOOSE k \in stops : \A m \in stops : k <= m
<1>1. Used(format) = IF stops = {} THEN Len(format) ELSE least - 1
  BY DEF Used
<1>2. \A k \in DOMAIN format : k \in stops <=> format[k].conv = "unsupported"
  BY DEF Unsupported
<1>3. CASE stops = {}
  BY <1>1, <1>2, <1>3
<1>4. CASE stops # {}
  <2>1. stops \in SUBSET Nat
    OBVIOUS
  <2>2. \E k \in stops : \A m \in stops : k <= m
    <3> HIDE DEF stops
    <3> QED  BY <1>4, <2>1, LeastExists
  <2>3. least \in stops /\ \A m \in stops : least <= m
    <3> HIDE DEF stops
    <3> QED  BY <2>2
  <2> HIDE DEF least
  <2>4. least \in 1 .. Len(format)
    BY <2>3
  <2>5. Used(format) = least - 1
    BY <1>1, <1>4
  <2>6. ASSUME NEW k \in 1 .. Used(format) PROVE k \in DOMAIN format /\ format[k].conv # "unsupported"
    <3>1. k \in 1 .. Len(format) /\ ~(least <= k)
      BY <2>4, <2>5
    <3>2. k \in DOMAIN format /\ k \notin stops
      BY <2>3, <3>1
    <3> HIDE DEF stops
    <3> QED  BY <1>2, <3>2
  <2> QED  BY <2>4, <2>5, <2>6
<1> QED  BY <1>3, <1>4

\* What an item sends, and what it stands for.
ItemSent(s, i) == IF i.conv = "text" THEN Send(s, i.arg) ELSE Field(s, i)

LEMMA ItemSentIs ==
  ASSUME NEW s \in Stream, NEW i, Item(i), i.conv # "unsupported"
  PROVE  FullItem(i) \in Seq(Nat) /\ ItemSent(s, i) = Send(s, FullItem(i)) /\ ItemSent(s, i) \in Stream
<1>1. FullItem(i) \in Seq(Nat) /\ ItemSent(s, i) = Send(s, FullItem(i))
  <2>1. CASE i.conv = "text"
    <3>1. i.arg \in Seq(Nat)
      BY <2>1 DEF Item
    <3>2. FullItem(i) = i.arg
      BY <2>1 DEF FullItem, Body
    <3> QED  BY <2>1, <3>1, <3>2 DEF ItemSent
  <2>2. CASE i.conv # "text"
    BY <2>2, FieldIs DEF ItemSent
  <2> QED  BY <2>1, <2>2
<1>2. Send(s, FullItem(i)) \in Stream
  BY <1>1, SendIs
<1> QED  BY <1>1, <1>2

\* The text of the items up to one.
LEMMA TextsUpto ==
  ASSUME NEW format, Len(format) \in Nat, DOMAIN format = 1 .. Len(format),
         \A k \in DOMAIN format : Item(format[k])
  PROVE  \E text : /\ FullText(format) = text[Used(format)] /\ text[0] = <<>>
                   /\ \A k \in 0 .. Used(format) : text[k] \in Seq(Nat)
                   /\ \A k \in 1 .. Used(format) : text[k] = text[k - 1] \o FullItem(format[k])
<1> DEFINE last == Used(format)
           Eq(g) == g = [k \in 0 .. last |-> IF k = 0 THEN <<>> ELSE g[k - 1] \o FullItem(format[k])]
           text == CHOOSE g : Eq(g)
           S == {k \in Nat : k <= last => text[k] \in Seq(Nat)}
<1>1. last \in Nat
  BY UsedIs
<1>2. ASSUME NEW k \in 1 .. last PROVE FullItem(format[k]) \in Seq(Nat)
  <2>1. k \in DOMAIN format /\ format[k].conv # "unsupported" /\ Item(format[k])
    BY UsedIs
  <2>2. [out |-> <<>>, total |-> 0, avail |-> 0] \in Stream
    BY DEF Stream
  <2> QED  BY <2>1, <2>2, ItemSentIs
<1>3. FullText(format) = text[last]
  BY Zenon DEF FullText
<1> HIDE DEF last
<1>4. ASSUME NEW t \in Seq(Nat), NEW k \in 1 .. last PROVE t \o FullItem(format[k]) \in Seq(Nat)
  BY <1>2, ConcatProperties, Zenon
<1>5. <<>> \in Seq(Nat)
  OBVIOUS
<1>6. \E g : Eq(g)
  <2> DEFINE step == [p \in Seq(Nat) \X (1 .. last) |-> p[1] \o FullItem(format[p[2]])]
  <2>1. step \in [Seq(Nat) \X (1 .. last) -> Seq(Nat)]
    <3>1. ASSUME NEW p \in Seq(Nat) \X (1 .. last) PROVE p[1] \o FullItem(format[p[2]]) \in Seq(Nat)
      <4>1. p[1] \in Seq(Nat) /\ p[2] \in 1 .. last
        OBVIOUS
      <4> QED  BY <1>4, <4>1, Zenon
    <3> QED  BY <3>1, Zenon
  <2>2. PICK g : Recursion(g, Seq(Nat), <<>>, last, step)
    <3> HIDE DEF step
    <3> QED  BY <1>1, <1>5, <2>1, RecursionExists
  <2>3. ASSUME NEW k \in 0 .. last PROVE g[k] = IF k = 0 THEN <<>> ELSE g[k - 1] \o FullItem(format[k])
    <3>1. CASE k = 0
      BY <2>2, <3>1 DEF Recursion
    <3>2. CASE k # 0
      <4>1. k \in 1 .. last /\ k - 1 \in 0 .. last
        BY <1>1, <3>2
      <4>2. <<g[k - 1], k>> \in Seq(Nat) \X (1 .. last)
        BY <2>2, <4>1 DEF Recursion
      <4>3. step[<<g[k - 1], k>>] = g[k - 1] \o FullItem(format[k])
        BY <4>2
      <4>4. g[k] = step[<<g[k - 1], k>>]
        <5> HIDE DEF step
        <5> QED  BY <2>2, <4>1 DEF Recursion
      <4> QED  BY <3>2, <4>3, <4>4, Zenon
    <3> QED  BY <3>1, <3>2
  <2>4. Eq(g)
    <3> HIDE DEF step
    <3> QED  BY <2>2, <2>3 DEF Recursion
  <2> QED  BY <2>4
<1>7. Eq(text)
  <2> HIDE DEF Eq
  <2> QED  BY <1>6
<1> HIDE DEF text
<1>8. text[0] = <<>> /\ \A k \in 1 .. last : text[k] = text[k - 1] \o FullItem(format[k])
  <2>1. 0 \in 0 .. last /\ \A k \in 1 .. last : k \in 0 .. last /\ k # 0
    BY <1>1
  <2> QED  BY <1>7, <2>1
<1> HIDE DEF Eq
<1>9. 0 \in S
  BY <1>5, <1>8
<1>10. ASSUME NEW k \in S PROVE k + 1 \in S
  <2> SUFFICES ASSUME k + 1 <= last PROVE text[k + 1] \in Seq(Nat)
    OBVIOUS
  <2>1. k + 1 \in 1 .. last /\ (k + 1) - 1 = k /\ text[k] \in Seq(Nat)
    BY <1>1
  <2>2. text[k + 1] = text[k] \o FullItem(format[k + 1])
    BY <1>8, <2>1
  <2> QED  BY <1>4, <2>1, <2>2, Zenon
<1>11. S = Nat
  <2> HIDE DEF S
  <2>1. S \in SUBSET Nat
    BY DEF S
  <2> QED  BY <1>9, <1>10, <2>1, SetInduction
<1>12. \A k \in 0 .. last : text[k] \in Seq(Nat)
  BY <1>1, <1>11
<1> QED  BY <1>3, <1>8, <1>12 DEF last

\* tacc_fmt_vsnprintf sends the whole text.
LEMMA VsnprintfIs ==
  ASSUME NEW format, Len(format) \in Nat, DOMAIN format = 1 .. Len(format),
         \A k \in DOMAIN format : Item(format[k]), NEW avail \in Nat
  PROVE  FullText(format) \in Seq(Nat) /\ Vsnprintf(avail, format) = Send(StreamInit(avail), FullText(format))
<1> DEFINE last == Used(format)
           s == StreamInit(avail)
           Eq(g) == g = [k \in 0 .. last |-> IF k = 0 THEN s
                                             ELSE IF format[k].conv = "text" THEN Send(g[k - 1], format[k].arg)
                                             ELSE Field(g[k - 1], format[k])]
           sent == CHOOSE g : Eq(g)
<1>1. last \in Nat
  BY UsedIs
<1>2. ASSUME NEW k \in 1 .. last PROVE Item(format[k]) /\ format[k].conv # "unsupported"
  BY UsedIs
<1>3. Vsnprintf(avail, format) = sent[last]
  BY Zenon DEF Vsnprintf
<1>4. s \in Stream
  BY DEF StreamInit, Stream
<1>5. PICK text : /\ FullText(format) = text[last] /\ text[0] = <<>>
                  /\ \A k \in 0 .. last : text[k] \in Seq(Nat)
                  /\ \A k \in 1 .. last : text[k] = text[k - 1] \o FullItem(format[k])
  BY TextsUpto
<1> HIDE DEF last, s
<1>6. \E g : Eq(g)
  <2> DEFINE step == [p \in Stream \X (1 .. last) |-> ItemSent(p[1], format[p[2]])]
  <2>1. step \in [Stream \X (1 .. last) -> Stream]
    BY <1>2, ItemSentIs
  <2>2. PICK g : Recursion(g, Stream, s, last, step)
    <3> HIDE DEF step
    <3> QED  BY <1>1, <1>4, <2>1, RecursionExists
  <2>3. ASSUME NEW k \in 0 .. last PROVE g[k] = IF k = 0 THEN s ELSE ItemSent(g[k - 1], format[k])
    <3>1. CASE k = 0
      BY <2>2, <3>1 DEF Recursion
    <3>2. CASE k # 0
      <4>1. k \in 1 .. last /\ k - 1 \in 0 .. last
        BY <1>1, <3>2
      <4>2. <<g[k - 1], k>> \in Stream \X (1 .. last)
        BY <2>2, <4>1 DEF Recursion
      <4> QED  BY <2>2, <3>2, <4>1, <4>2 DEF Recursion
    <3> QED  BY <3>1, <3>2
  <2>4. Eq(g)
    <3> HIDE DEF step
    <3> QED  BY <2>2, <2>3, Zenon DEF Recursion, ItemSent
  <2> QED  BY <2>4
<1>7. Eq(sent)
  <2> HIDE DEF Eq
  <2> QED  BY <1>6
<1> HIDE DEF sent
<1>8. sent[0] = s /\ \A k \in 1 .. last : sent[k] = ItemSent(sent[k - 1], format[k])
  <2>1. 0 \in 0 .. last /\ \A k \in 1 .. last : k \in 0 .. last /\ k # 0
    BY <1>1
  <2> QED  BY <1>7, <2>1 DEF ItemSent
<1> HIDE DEF Eq
<1> DEFINE S == {k \in Nat : k <= last => sent[k] = Send(s, text[k])}
<1>9. 0 \in S
  BY <1>4, <1>5, <1>8, SendNothing
<1>10. ASSUME NEW k \in S PROVE k + 1 \in S
  <2> SUFFICES ASSUME k + 1 <= last PROVE sent[k + 1] = Send(s, text[k + 1])
    OBVIOUS
  <2>1. k + 1 \in 1 .. last /\ (k + 1) - 1 = k /\ k \in 0 .. last /\ sent[k] = Send(s, text[k])
    BY <1>1
  <2> DEFINE i == format[k + 1]
             full == FullItem(i)
             t == text[k]
  <2>2. Item(i) /\ i.conv # "unsupported"
    BY <1>2, <2>1
  <2>3. sent[k + 1] = ItemSent(Send(s, t), i) /\ text[k + 1] = t \o full /\ t \in Seq(Nat)
    BY <1>5, <1>8, <2>1
  <2> HIDE DEF i, t
  <2>4. Send(s, t) \in Stream
    BY <1>4, <2>3, SendIs
  <2>5. full \in Seq(Nat) /\ ItemSent(Send(s, t), i) = Send(Send(s, t), full)
    BY <2>2, <2>4, ItemSentIs
  <2>6. Send(Send(s, t), full) = Send(s, t \o full)
    BY <1>4, <2>3, <2>5, SendTwice
  <2> QED  BY <2>3, <2>5, <2>6, Zenon
<1>11. S = Nat
  <2> HIDE DEF S
  <2>1. S \in SUBSET Nat
    BY DEF S
  <2> QED  BY <1>9, <1>10, <2>1, SetInduction
<1>12. sent[last] = Send(s, text[last]) /\ text[last] \in Seq(Nat)
  <2>1. last \in S /\ last \in 0 .. last /\ last <= last
    BY <1>1, <1>11
  <2> QED  BY <1>5, <2>1
<1> QED  BY <1>3, <1>5, <1>12 DEF s

\* Whatever the size of the buffer, it holds the beginning of the text, and the
\* length returned is that of the whole (tacc_fmt_vsnprintf, tacc_fmt_snprintf).
THEOREM TextsFit == CallSpec => []FormatFits
<1>1. CallInv => FormatFits
  <2> SUFFICES ASSUME CallInv, Returned("format") PROVE FormatFits
    BY DEF FormatFits
  <2> DEFINE c == call.of
             full == FullText(c.format)
             s == StreamInit(c.avail)
             room == IF c.avail = 0 THEN 0 ELSE c.avail - 1
  <2>1. c \in Calls /\ c.kind = "format" /\ call.result \in Results(c)
    BY Back
  <2>2. FormatCall(c)
    BY <2>1, CallAssumption
  <2>3. call.result = Vsnprintf(c.avail, c.format)
    BY <2>1 DEF Results
  <2>4. c.avail \in Nat /\ full \in Seq(Nat) /\ call.result = Send(s, full)
    BY <2>2, <2>3, VsnprintfIs DEF FormatCall
  <2>5. s \in Stream /\ s.out = <<>> /\ s.total = 0 /\ Room(s) = room /\ room \in Nat
    BY <2>4 DEF StreamInit, Stream, Room
  <2> HIDE DEF s, full, room
  <2> DEFINE n == IF Len(full) < Room(s) THEN Len(full) ELSE Room(s)
  <2>6. call.result.out = <<>> \o SubSeq(full, 1, n) /\ call.result.total = 0 + Len(full) /\ n \in Nat /\ n <= Len(full)
    BY <2>4, <2>5, SendIs
  <2>7. n = (IF room < Len(full) THEN room ELSE Len(full)) /\ 0 + Len(full) = Len(full)
    BY <2>4, <2>5
  <2>8. SubSeq(full, 1, n) \in Seq(Nat)
    BY <2>4, <2>6
  <2>9. <<>> \o SubSeq(full, 1, n) = SubSeq(full, 1, n)
    BY <2>8, ConcatEmptySeq
  <2> HIDE DEF n
  <2>10. call.result.out = SubSeq(full, 1, n) /\ call.result.total = Len(full)
    BY <2>6, <2>7, <2>9
  <2> QED  BY <2>7, <2>10 DEF FormatFits, full, room
<1> QED  BY <1>1, ResultOfACall, PTL
==============================================================================
