------------------------------- MODULE Emergency -------------------------------
(***************************************************************************)
(* tac_fallback_get_emergency: the report that is built in the crashed       *)
(* process, in one buffer and by calls of tacc_fmt_snprintf that each get    *)
(* "the rest" of it.  Only lengths matter.  Every length is a size_t and     *)
(* every pointer is the buffer plus what is used so far, so that one place   *)
(* stands for buf + used in whichever function it is.                        *)
(***************************************************************************)
EXTENDS Integers, Sequences

CONSTANTS
  EmergencyLen,  \* TAC_CRASH_EMERGENCY_BUF_LEN
  SizeEnd,       \* one more than SIZE_MAX
  MaxFrames      \* MAX_FRAMES of the unwinders

ASSUME BufferAssumption ==
  /\ EmergencyLen \in Nat /\ SizeEnd \in Nat /\ EmergencyLen < SizeEnd
  /\ MaxFrames \in Nat

TitleLen == 11   \* "backtrace:\n"
FrameMin == 20   \* an unwinder stops with less space

\* place: buf + used; top: one more than the last byte written.
EmergencyInit == [place |-> 0, top |-> 0]

\* len - used, as the unsigned number it is.
Rest(s) == (EmergencyLen - s.place) % SizeEnd

Reach(s, end) == IF end > s.top THEN end ELSE s.top

\* used += tacc_fmt_snprintf(buf + used, len - used, ...): writes what fits
\* and a NUL, and returns the length of the whole text.
Snprintf(s, total) ==
  LET fits == IF total < Rest(s) THEN total ELSE Rest(s) - 1
  IN  [place |-> s.place + total,
       top |-> IF Rest(s) = 0 THEN s.top ELSE Reach(s, s.place + fits + 1)]

\* Mutant: a line that does not fit is not cut.
FrameLineUncut(s, total) == Snprintf(s, total)

\* A frame's line in any of the three unwinders, with "truncated?": the text
\* ends with the last byte of the buffer.
FrameLine(s, total) ==
  IF total >= Rest(s) THEN [place |-> EmergencyLen - 1, top |-> Reach(Snprintf(s, total), EmergencyLen)]
  ELSE Snprintf(s, total)

\* tacc_unwind_*_record with the lengths of the lines it would write.
Unwind(s, lines) ==
  LET record[n \in 0 .. Len(lines)] ==
        IF n = 0 THEN [text |-> s, stop |-> FALSE]
        ELSE LET before == record[n - 1]
                 after == FrameLine(before.text, lines[n])
             IN  IF before.stop THEN before
                 ELSE [text |-> after, stop |-> Rest(after) < FrameMin \/ n >= MaxFrames]
  IN  record[Len(lines)].text

\* tacc_unwind_get: when the system's unwinder gives nothing, the compiler's
\* is asked, and records at least the frame of the crash.
UnwindGet(s, system, clang) ==
  IF system # <<>> THEN Unwind(s, system) ELSE Unwind(s, clang)

\* tac_fallback_get_backtrace.
Backtrace(s, system, clang) ==
  LET frames == UnwindGet(Snprintf(s, TitleLen), system, clang)
      used == frames.place - s.place
      cut == used >= (Rest(s) - 1) % SizeEnd
  IN  Snprintf(IF cut THEN [place |-> EmergencyLen - 2, top |-> Reach(frames, EmergencyLen - 1)]
            ELSE frames, 1)

\* tac_fallback_get_emergency, with the lengths of its first four texts.
GetEmergency(header, thread, signal, registers, system, clang) ==
  LET head == Snprintf(Snprintf(EmergencyInit, header), thread)
  IN  Backtrace(Snprintf(Snprintf(head, signal), registers), system, clang)
==============================================================================
