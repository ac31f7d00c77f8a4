------------------------------- MODULE LogNames -------------------------------
(***************************************************************************)
(* How the native layer recognises its own files in the log directory: the  *)
(* suffix comparison of tac_trace_logs_filter and the length and suffix     *)
(* comparison for placeholders in tac_common_open_log, as the byte          *)
(* comparisons they are.                                                    *)
(***************************************************************************)
EXTENDS Naturals, Sequences

\* TAC_COMMON_LOG_SUFFIX_TRACE and TAC_COMMON_LOG_SUFFIX_TRACE_LEN.
TraceSuffix == <<".", "t", "r", "a", "c", "e", ".", "t", "a", "c", "r", "a", "s", "h">>
TraceSuffixLen == 13

\* TAC_COMMON_PLACEHOLDER_SUFFIX, and the lengths tac_common_open_log expects.
CleanSuffix == <<".", "c", "l", "e", "a", "n", ".", "t", "a", "c", "r", "a", "s", "h">>
PlaceholderNameLen == 45
PlaceholderStemLen == 32   \* "placeholder_" and 20 digits

\* memcmp(name + at, what, n) == 0, with offsets from 0 as in C.
SameBytes(name, at, what, n) ==
  /\ at + n <= Len(name)
  /\ SubSeq(name, at + 1, at + n) = SubSeq(what, 1, n)

\* tac_trace_logs_filter for a name that ends in `suffix`.  The name is one that
\* this library gave, so its prefix fits, and version and process name together
\* have the 7 characters that the minimum length asks for: the end decides.
TraceFilter(suffix) ==
  SameBytes(suffix, Len(suffix) - TraceSuffixLen, TraceSuffix, TraceSuffixLen)

\* The test of tac_common_open_log on "placeholder_<20 digits>" with `suffix`.
PlaceholderFilter(suffix) ==
  /\ PlaceholderStemLen + Len(suffix) = PlaceholderNameLen
  /\ SameBytes(suffix, 0, CleanSuffix, 13)
==============================================================================
