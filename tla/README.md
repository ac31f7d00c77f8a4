# TDCrash in TLA+

A verification project for TDCrash, an Android library that records Java
crashes, native crashes and ANRs of the application it is linked into. The
recording code runs where tests seldom go: inside a signal handler of a dying
process, on several threads at once, next to a thread that is dumping the Java
VM, and with a helper process that stops the threads of its parent one by one.

Paths below are relative to `src/taCrashLib/src/main/`.

## 1. The system

### Inventory

| Component | Code | State it keeps | Operations | Made correct by |
|---|---|---|---|---|
| native crash handler | `cpp/tacrash/tac_crash.c`, `cpp/common/tacc_signal.c` | mutex, `tac_common_native_crashed`, log descriptor, process attributes (dumpable, ptracer), emergency buffer, callback notifier | signal handler, clone and wait for the dumper, fallback, Java stack, callback thread | one report per process; it reaches Java complete and once; the process ends, or lives on with nobody in the handler |
| trace dumper | `cpp/tacrash/tac_trace.c` | eventfd, `dump_status`, `jmpenv`, descriptor 2, trace logs | SIGQUIT handler, loop of the trace thread, rethrow to ART | no trace of a crashed process beyond one; every SIGQUIT taken up; no SIGQUIT invented; descriptor 2 comes back |
| log files | `cpp/tacrash/tac_common.c` | two reserve descriptors, log directory | `tac_common_open_log`, `close_log`, name tests | a log can be opened when descriptors have run out |
| dumper process | `cpp/tacrash_dumper/tacd_core.c`, `tacd_process.c`, `tacd_thread.c` | list of threads with their status | args, attach, wait, registers, record, resume | it does what the handler waits for; nothing stays stopped |
| unwinder | `cpp/tacrash_dumper/` `tacd_frames.c`, `tacd_elf*.c`, `tacd_dwarf.c`, `tacd_arm_exidx.c`, `tacd_map*.c`, `tacd_memory*.c`, `tacd_regs_*.c`, `tacd_util.c` | registers of the frame in hand, list of frames, ELF of a map | walk over the frames; from a pc to the caller's registers; reading memory of the process | the caller's registers come back; a guessed frame is confirmed or dropped; the walk ends; a read is whole and in place |
| native initialisation | `cpp/tacrash/tac_jni.c`, `tac_common_init`, `tac_crash_init`, `tac_trace_init`, `NativeHandler.java`, `TACrash.java` | init flags, signal actions, thread | `nativeInit`, called again by the application | success means armed; a failure leaves nothing half done |
| Java crash handler | `JavaCrashHandler.java`, `Utils.createFile` | default handler, one log per crash | `uncaughtException` | reports do not mix; a report is in one place; the process ends |
| ANR observer (before ART) | `AnrHandler.java`, `Utils.checkProcessAnrState` | `lastTime`, file observer | `onEvent`, `notifyJavaCrashed` | rate limit; after a crash only what was under way |
| fallback and in-process unwinding | `tac_fallback.c`, `tacc_unwind*.c` | what is used of the emergency buffer | text of the emergency buffer | what is written stays in the buffer |
| helpers | `tacc_fmt.c`, `tacc_libc_support.c`, `tacc_util.c`, `tacc_b64.c`, `dl/tac_dl.c` | none | formatting, local time, reading and writing, symbol lookup | text is cut at the buffer and its whole length returned; a time is the calendar's |
| system information, Java constants and logger, vendored LZMA, bridge library, demo | | none | | not modelled |

How they interact:

- The crash handler and the trace dumper share `tac_common_native_crashed`,
  `tac_trace_dump_status`, `jmpenv` (the handler may `siglongjmp` into the trace
  thread's frame) and descriptor 2.
- The crash handler clones the dumper and waits for it; the log file is written
  by both, one after the other.
- The handler wakes the callback thread through an eventfd and joins it; that
  thread calls `NativeHandler.crashCallback`, which calls the application.
- A Java crash tells `AnrHandler` and then `NativeHandler`; the latter sets
  `tac_common_java_crashed`, which the trace thread reads.

What is hard: any thread may crash at any step of another one; every system call
may fail; the dumper may hang or be killed; `siglongjmp` leaves a locked mutex;
flags are read without locks; the application can call `init` again.

### Divergences met while modelling

Four are shown by runs that must find a violation:

| Run | The code says | What happens |
|---|---|---|
| `dumper_alarm` | `tacd_core.c:131` "don't leave a zombie process" | SIGALRM is blocked by the mask inherited from the handler (`sigfillset`), so `alarm(30)` ends nothing. With `InheritedMask` set to FALSE the same run finds no violation |
| `anr_caught` | `AnrHandler.java:23` "Used to catch ANR exceptions." | the verdict of `checkProcessAnrState` is used the wrong way round |
| `notice` | `tac_trace.c:290` "check if process already crashed", `JavaCrashHandler.java:126` "notify crash" | `NativeHandler.notifyJavaCrashed` (`NativeHandler.java:254`) passes the notice on only after `nativeInit` has returned success for both of its halves: a notice during the call, or after `tac_crash_init` alone has failed, never reaches the trace thread, which runs |
| `emergency` | `tacc_unwind_clang.c:93, 101` "truncated?", "check remaining space length in the buffer" | lengths of whole texts are added up, and on arm64 the registers alone exceed the 1024 bytes of `tac_crash.c:51`: `emergency_len - used` wraps (`tac_fallback.c:214`) and the backtrace goes behind the buffer |

The models contain these as well, without a run of their own:

- `tac_crash.c:388` "restore the original/default signal handler": a second
  crashing thread that waits for the mutex gets it at line 546 and calls
  `_exit(1)` before the first one has returned to take its signal again (`Lock`,
  `ExitProcess`, `Reraise`): the earlier action may never see the crash.
- `tac_crash.c:401` "meet error sig(%d) while calling ART dump trace":
  `dump_status` is `ON_GOING` from before `sigsetjmp` until the end of the turn
  or, after a `continue`, longer, so that crashes outside the dump are thrown away
  as well (`JumpToTraceDumper`). `LostOnlyToATrace` states what does hold.
- `tac_crash.c:256` "everything seems OK, do not dump java stacktrace again on the
  java layer": the trace thread may have redirected descriptor 2 in the meantime
  (`DumpJavaStack`), and the stack is in no crash log. `StderrComesBack` states
  what does hold.
- `tacd_dwarf.c:1381-1387`: `DW_OP_bra` that is not taken jumps back by its operand
  (`EvalTurn`); the limit on turns still ends every expression (`ExpressionEnds`).
- `tacd_dwarf.c:1005-1019`: for an FDE with an empty program one instruction of
  what follows it in the section is executed (`FdeInstructions`).
- `tacd_dwarf.c:1532-1564`: registers are changed in place, so a method that fails
  leaves half of them changed for the next one (`MethodFails` of `FrameWalk`).
- `tacd_util.c:56`: a page is subtracted from an unsigned count of bytes; in a last,
  partial page it wraps, and up to 64 pages more are asked for (`Iovec`). Reads
  near the end of the address space fail for it, which `ReadExact` excuses.
- `tacc_fmt.c:148-162`: zero padding goes before the sign (`Field`: `%05d` of -3 is
  `000-3`), and `tacc_util.c:518` prints the minutes of
  a time zone as the seconds that remain of the hour.
- `tac_common.h:24` counts 13 bytes for the 14 of `.trace.tacrash`:
  `tac_trace_logs_filter` never matches, "Keep only one current trace."
  (`tac_trace.c:297`) removes nothing (`TraceFilter`, `LogsClean`).
- `tac_common.c:258` asks for 45 characters of placeholder names that have 46:
  no placeholder is ever used (`PlaceholderFilter`, `Scan`), so
  `tac_common_seek_to_content_end` is unreachable and is left out.
- The `continue`s of the trace loop (`tac_trace.c:298, 301, 350, 351`) skip the
  rethrow of SIGQUIT and the reset of `dump_status` (`OpenTraceLog`, `CallJava`).
- `tac_common_open_log` returns -1 with its reserve closed (`CreateFails`).
- `tac_jni_init_status` is set before any work: after a failed first call all
  later ones are refused (`NativeInitEntry`).
- `AttachCurrentThread` may fail in the new trace thread (`tac_trace.c:283`), also
  after `nativeInit` has reported success: the thread gives up the notifier and ends,
  SIGQUIT stays with a handler that nobody reads, and ART gets no SIGQUIT any more
  (`TraceThreadAttach`, `ThreadGone`). `SuccessMeansArmed` and `TraceAllOrNothing` name
  this case. `tac_trace_init` says nothing of it.
- `tacc_signal.c:92-101`: only SIGABRT and what somebody sent is queued again.
  A SIGSYS of seccomp (line 38), a SIGTRAP or a fault whose cause has gone does not come
  again when the handler returns: the thread goes on in the program, with the crash
  flags set and the earlier actions restored (`GoesOn`).
- `stopWatching` (`AnrHandler.java:130`) removes the watch, not what is queued: events
  under way are delivered and reported after the notice of a crash, several of them
  if they are `anrTimeoutMs` apart. `LateAnrsEnd` states what does hold.
- `tacd_memory_file.c:184`: the ELF of a larger file in two maps is recognised by where
  its section headers end, so that of a stripped one is not found (`Located`).
- `tacd_elf_interface.c:213-227`: section headers behind the end of the map are not read;
  `.debug_frame`, `.eh_frame` and `.gnu_debugdata` are then missing (`Described`) and the
  bias of `.eh_frame` is taken for zero (362-370), with which `.eh_frame_hdr` of a file with
  a segment for read-only data may name another function (`Shifted`).
- The handler that `tacd_core.c:140` registers "for catching self-crashing"
  cannot run: its signals are blocked by the inherited mask (`SelfCrash`).
- A thread started after `/proc/<pid>/task` was read is not suspended, against
  "suspend all threads in the process" (`tacd_core.c:151`); `ListedThreadsHeld`
  states what does hold.

## 2. Modules

| Module | Models |
|---|---|
| `TACCommon` | threads, globals and descriptor 2 that both native components share |
| `DumperContract` | what the crash handler may rely on of its child |
| `CrashContract` | the abstract promise of the native capture to the application |
| `CrashHandler` | `tac_crash.c`: handler, callback thread, fork and wait |
| `LogNames` | the byte comparisons on file names |
| `TraceDumper` | `tac_trace.c` |
| `NativeCapture` | `CrashHandler` and `TraceDumper` together |
| `Dumper` | the dumper process against the threads of the crashed one |
| `LogOpen` | `tac_common_open_log` with its reserves, one open(2) or close(2) a step |
| `SafeText` | `tacc_fmt_vsnprintf` and `tacc_libc_support_localtime_r` |
| `PureCalls` | the calls that keep no state, with what is expected of each: texts, times, lengths in the emergency buffer, reads, expressions |
| `Emergency` | the lengths that `tac_fallback_get_emergency` and the unwinding below it write |
| `FrameWalk` | `tacd_frames_load` and the order of methods in `tacd_elf_step`, on any memory map |
| `ElfUnwind` | one step of the unwinder: a pc to its ELF, section, entry and the caller's registers |
| `ElfFile` | `tacd_memory_create`, `tacd_memory_file_create`, load bias, relative and absolute pc |
| `TableSearch` | the binary search that `.eh_frame_hdr` and `.ARM.exidx` share |
| `DwarfRules` | the call frame instructions and their rules: `tacd_dwarf_get_loc`, `tacd_dwarf_eval` |
| `DwarfExpr` | `tacd_dwarf_eval_expression` |
| `ArmExidx` | entries of `.ARM.exidx` and their bytes: `tacd_arm_exidx_decode_*` |
| `PtraceRead` | `tacd_util_ptrace_read` with both readers |
| `Callee` | the machine that unwinding has to undo, with the unwind information compilers write: the reference of run `unwind`, not code of the repository |
| `JavaCrash` | `JavaCrashHandler` on any number of threads |
| `NativeInit` | `initNativeCrashHandler` down to the two native init functions |
| `AnrObserver` | `AnrHandler` |
| `AnrDetectors` | `NativeInit` and `AnrObserver` together, and the notice of a Java crash |
| `*Proofs` | theorems |
| `MC*` | instances for TLC |

How state and actions correspond to the code:

- `CrashHandler.pc[t]` is the place of thread `t` in `tac_crash_signal_handler`;
  every action is one stretch of the function between two points where another
  thread, the dumper or a failure can matter. `Fault` is the delivery of the
  signal, `Lock` the mutex, `JumpToTraceDumper` lines 398-403, `Fallback` all of
  the code at label `end`, `QueueAndReturn` the raise and the unlock. After the return
  the signal comes again and ends the process (`Reraise`), or it does not and the
  thread is back in the program (`GoesOn`, place "resumed"; `InProgram` are the places
  outside of the handler). `Wild` is a thread that `siglongjmp`
  put on a foreign stack: anything may follow, of which the end of the process
  and standing still are kept.
- `TraceDumper.tpc` is the place in the loop of `tac_trace_dumper`. `quits` is the
  eventfd counter. `AttachThread` is `AttachCurrentThread`; when it fails the place is
  "unattached" and what was counted since `sigaction` stays where it is. `JumpTarget` is
  where `siglongjmp` lands.
- In `NativeCapture` the trace thread is one of the threads that may crash.
- `Dumper.target` is what each thread of the crashed process does, `status` is
  `tacd_thread_t.status`. `Released` is what the kernel does when a tracer ends:
  stopped threads run on, a SIGSTOP under way stops the whole process.
- `LogOpen.free` counts descriptors; `excuse` (history) holds the openers whose
  directory vanished, who began without a reserve, or from whom another open took
  the descriptor they had given up. `prepared`, `dir_fds` and `log_fds` say who holds
  which kind of descriptor, `opc[o]` where each opener is in `tac_common_open_log`.
- `JavaCrash.content[s]` holds whose report is in the file named after
  millisecond `s`.
- `NativeInit.npc` is the place of the initialising call; every failing branch is
  a disjunct. `trace_thread` is the thread that the call creates, "starting" until it is
  attached to the VM: it runs beside the rest of the call and may end before that
  returns. `dead` is the abort of the allocator when `tac_common_init` frees
  the literal `"unknown"`.

- `AnrObserver.queued` counts the events between the kernel and `onEvent`; `backlog`
  (history) how many were queued or in hand when the observer was told to stop, `late`
  the reports begun since.
- `FrameWalk.at` is the place in the loop of `tacd_frames_load`; `method` is the next
  method of `tacd_elf_step`, `guessed` is `return_address_attempt`, `gnu` says
  whether the ELF of `.gnu_debugdata` has been made. What a step does to the
  registers is any result, also for a step that fails: the other modules say
  what it is.
- `ElfUnwind.phase` goes from the place of the pc through the sections in the order of
  the code, a search in each (`TableSearch` is a part of its state, one comparison
  a step), to the registers of the caller. The decoders are operators: they are
  loops without anything beside them.
- `PureCalls.call` is one call of a function without state, its arguments and then
  its result. A property of it states the result without the code's way to it:
  a calendar instead of guesses, whole texts instead of a stream that is cut.
- `MCUnwind` links each function of `Callee` between two others, puts the file into
  the process in one of ten ways and asks for every instruction at which a thread
  may stand. A behaviour of it is one such step or one walk of `FrameWalk`.

Definitions marked "Mutant" are plausible bugs. Nothing uses them; each one names
what it breaks, and a property is worth stating when it fails with such a
definition in place of the real one.

### What is abstracted

- Text, formats, symbols and stack contents. A section of the crash log is there
  or not; for the crash handler the emergency buffer is empty or not, its bytes
  are counted in `Emergency`.
- DWARF and EXIDX entries are records, not bytes: reading an encoded header,
  LEB128 and CIE augmentations is left out, except in `ArmExidx`, where the bytes
  are the instructions. Unpacking `.gnu_debugdata` is an input.
- Addresses are small; words of expressions have `WordBits` bits. Signal frames are
  an outcome in `FrameWalk`, no code is read to find them.
- Lengths in `Emergency` are those of the formats with the smallest and the largest
  arguments, on arm64.
- The action that was installed before the library's ends the process by the
  signal or returns (`GoesOn`); the earlier Java handler ends the process.
- Faults inside the handler (all signals are blocked) are `Killed`.
- `gettimeofday` succeeds; a reading of `/proc/<pid>/task` is one step; memory is
  read only of threads that are held; `stopWatching` succeeds.
- An `open` in `LogOpen` fails for want of a descriptor or of the directory only.
- The traces file of `AnrHandler` has a fitting block or not.
- i386, where the child is forked and waits on a pipe, differs in how the dumper
  begins, not in what follows.

## 3. Runs

All runs use every interleaving; none uses symmetry, since nearly all check
liveness or refinement as well.

| Run | Instance and bounds | Shows |
|---|---|---|
| `crash` | two application threads, trace thread, callback thread, `Rethrow` TRUE | safety, `CrashEnds`, refinement of `CrashContract` |
| `trace` | three SIGQUITs, a trace log of an earlier run or none | safety of the trace thread and `QuitsTakenUp` |
| `capture` | one application thread, trace and callback thread, one SIGQUIT, `Rethrow` FALSE | refinement of both specifications, `StderrComesBack`, `LostOnlyToATrace` |
| `dumper` | the crashed thread and two more, each there from the start, later or never | five properties of the dumper |
| `dumper_alarm` | the same | violation |
| `log` | four descriptors: two reserves, one log, one for the rest | `FailsOnlyWithExcuse`, `DescriptorsAccounted` |
| `log`, beginning with a call | formats of up to two items in ten sizes of buffer; times around the turns of years and of February; heads that end around the end of the buffer; reads of up to 24 bytes over pages of 4; all expressions of four operations of eight | `FormatFits`, `LocalTimeRight`, `BacktraceStaysInside`, `ReadExact`, `ExpressionEnds` |
| `emergency` | the same calls | violation |
| `unwind`, a step | eight functions, a PLT slot, the outermost function and gaps; seven ways to describe them, ten to map them | `FoundLastBefore`, `LinkedAddress`, `CallerRestored` |
| `unwind`, a walk | four pcs, one for each kind of place, two stacks, three architectures, four frames | `FramesLinked`, `GuessesConfirmed`, `WalkEnds` |
| `java` | three threads, two milliseconds, an earlier handler, no rethrow | files, report, end of the process |
| `detectors` | every API level, every argument, every failing step; timeout of two ticks, four ticks to go, two queued events | `HandlerFindsData`, `SuccessMeansArmed`, `TraceAllOrNothing`, `ReportsApart`, `LateAnrsEnd` |
| `notice` | the same | violation |
| `anr_caught` | the same | violation |

Why these bounds are enough. In `crash` a second application thread is what it
takes to have one thread recording and another waiting for the mutex, while the
trace thread and the callback thread crash too; further threads only wait at the
same lock, and the theorems cover every number. In `trace` three SIGQUITs give one
turn in hand, one that merges and one that comes late. In `capture` one SIGQUIT is
enough to get the trace thread into its turn while another thread crashes; the
components alone are checked with more, and `capture` shows that they keep within
what was checked alone. In `java` two of the three threads share a millisecond. In
`log` two descriptors are the reserves and two more let the application and one
opener compete. In `detectors`
the clock allows two reports and an event between, and two events in the queue with one
in hand make more than one report after a notice possible.

In a walk of `unwind` a guess needs a frame before it, and two after it to be confirmed or
dropped; every kind of place has an address, so every order of places occurs. In
`unwind` the functions differ in what a rule can depend on: pushed, copied and
unsaved registers, a frame pointer, early return, floating-point registers, a call that
does not return. The layouts are those the code tells apart: a file
of its own, part of a larger one, or memory without a file; one map or two; with the
section headers in the map and the file, or without. In two maps the read-only
data has addresses of its own, so that the biases differ. A layout with `.ARM.exidx`
relative to another bias than that of the text is not among them.

`CallerRestored` asks for the caller in every layout but those in which the code cannot
have it, and there for a step that fails: `Located` (the ELF is found) and `Described`
(the section is). Of one combination it says nothing, `Shifted`, where the code may find
the wrong function; all three are among the divergences.

The limits of the code are scaled down together
(`StackMax` 4 for 64, `OpsMax` 10 for 1000, `IovecsMax` 3 for 64, `PageSize` 4), so that
each of them is reached.

The named bounds are `MaxQuit` (SIGQUITs), `OldLogs` (trace logs of an earlier run),
`MaxTime` (clock), `MaxQueued` (events of the observer), `MaxFd`
(descriptors), `FramesMax` (frames; the code's own limit), `StackMax`, `OpsMax`,
`PageSize`, `IovecsMax`, `LongSize`, `AddressEnd` and `WordBits` (the unwinder,
above), `EmergencyLen` and `SizeEnd` (the buffer, and the end of `size_t`),
`MaxFrames` (frames that the system's unwinder reports), `YearsMax` (years around
1970 of which a time is asked) and the sets of threads.

`CHECK_DEADLOCK FALSE` appears where the process, the dumper or the clock comes to
its end; `log` and `unwind` are checked for deadlock (a call, a walk and
an unwinding step go on stuttering at their end).

The types of `CrashHandler` are proved (`TypesHold`) and not asked of TLC again. A
behaviour of run `log` is either one of `LogOpen` or one of `PureCalls`, one of `unwind`
either a step or a walk, which takes the outcome of its steps from nowhere: nothing of
the one reaches the other.

### Fairness

- `FairCrashSpec`: threads in the handler are scheduled (`OwnStep`), and the callback
  thread up to its call into Java. ART's dump of the Java stack, the dumper and the
  application's callback get none, so `CrashEnds` names them among the ways to hang, with
  the abandoned mutex and a callback thread that stands in the handler itself. No
  fairness says that a signal which was not queued comes again: the process ends or
  lives on (`LivesOn`), and then with nobody in the handler.
- `FairTraceSpec`: the trace thread is scheduled; neither ART's `AttachCurrentThread` and
  dump nor the Java callback, which may wait for the system for 15 or 30 seconds
  and calls the application, is promised to return. `QuitsTakenUp` names these, the
  crash and end of the process, and the thread that could not attach.
- `FairDumpSpec`: the dumper is scheduled, its timer runs, and the crashed thread,
  which sits in `waitpid`, takes its SIGSTOP. Any other thread may be in an
  uninterruptible sleep.
- `FairJavaSpec`: threads in the handler are scheduled; the listener need not
  return and an `Error` may leave the handler.
- `WalkSpec`, as part of `UnwinderSpec`: the loop over the frames runs in the dumper's only thread and waits for
  nothing.

No strong fairness is assumed.

## 4. Proofs

For every set of threads, both values of the options and every number of SIGQUITs:

- `CrashHandlerProofs`: `CrashInv` is inductive, and from it follow the types, one
  report, `CallbackCarriesReport`, `NothingTwice`, `TraceableOnlyWhileRecording`,
  `StderrOnlyForJavaStack` (needed by the composition, no run lists it) and the
  refinement `HandlerKeepsContract`. None of these
  is inductive alone. The strengthening says that the mutex is held by every
  thread past the lock (`HoldsMutex`), that the crash flag is set by the first one
  and before anything is opened (`CrashMarked`, `NotYetOpened`), that from label
  `end` on the report is in the log or in the buffer (`ReportSaved`), that what the
  handler adds did not exist before it got there (`NothingAhead`, `OnePlaceOnly`),
  and that an abandoned capture is never handed over (`HandsOverLast`).
  `HandlerAdvances` is the safety half of `CrashEnds`: a thread goes through the handler
  once and in the order of its code; one that `siglongjmp` took out, or to which the signal
  did not come again, cannot come back in, because the earlier action was put back before. So the process stays alive only
  in a step that waits.
- `NativeCaptureProofs`, first part, the trace dumper alone: `TraceInv`. `NoInventedSigquit` needs that a turn, and a dump
  that is still `ON_GOING` after a `continue`, has a SIGQUIT in hand that is not
  forwarded; `AtMostOneLateTrace` that the flags are read between two opens.
- `NativeCaptureProofs`, second part: every step of the composition is a step or a stutter of
  each component, so both sets of invariants hold in the whole, `StderrComesBack`
  holds, and the whole native layer keeps `CrashContract`. `LostOnlyToATrace` rests on
  `DumpNeedsLog` (a dump is begun, or `ON_GOING`, only after a log was opened) and on
  `OnlyJumpAbandons`: no other exit of the handler leaves the mutex locked.
- `DumperProofs`: the dumper keeps `DumperContract`'s promise (`DumperPromise`), for
  any set of threads, which is what `CrashHandler` assumes of its child. The
  invariant `DumpInv` says that only the thread that is waited for has a SIGSTOP
  under way (`SigstopInHand`), that the list is done before anything is read
  (`ListDone`) and that a thread which was dealt with and has a good status is held,
  gone or waited for (`GoodMeansHeld`). From it follow that nothing stays stopped
  when the dumper ends (`NothingStaysStopped`), that what is recorded is held
  (`ListedThreadsHeld`) and that frames come from a held thread
  (`FramesOfHeldThread`). `RegisterSelfCrash` and `AlarmExpires` enter with the
  mask the dumper inherits, in which every signal is blocked. `DumperShrinks` is the safety
  half of `DumperEndsOrWaits`: every step of `main` leaves fewer steps to go, two for
  each thread still in the list and a constant, and nothing the process does adds any.

- `UnwinderProofs`, the walk: for any memory map, any code and stack addresses and any limit on
  the frames, each frame comes from the one before in exactly one way
  (`WalkLinked`) and a guess that stays is confirmed (`WalkConfirms`). The
  strengthening `LastFrame` says how the last frame of the list, the guess flag and
  the place in the loop belong together: in particular that a frame which was
  walked from is never the last one while the loop goes on. `WalkShrinks` is the safety
  half of `WalkEnds`: each step, also of a failed method or of a guess, leaves fewer steps
  to go, of which there are at most seven for each frame of `FramesMax` and one more.
- `UnwinderProofs`, the search: for a sorted table of any length `SearchInv` (entries
  before `first` start at or before the pc, those from `last` on behind it) is
  inductive, `FoundLastBefore` follows (`SearchCorrect`), and every comparison shortens
  ends the search or leaves at most half of the entries, and fewer than before
  (`SearchShrinks`), which is what bounds the search.
- `UnwinderProofs`, the maps: in all branches of `tacd_memory_file_create` the start of
  the view in the file and the offset of the map in the ELF add up to the offset of the
  map (`FileCreateIs`), so that the byte read for an address is the one that is mapped
  there, for every list of maps and every set of files (`LinkedByteIsMapped`).
- `UnwinderProofs`, the step: `LinkedAddress` and `FoundLastBefore` for every job that
  keeps `JobAssumption` (`StepPcLinked`, `StepFindsEntry`), by the invariant `UnwindIInv`,
  which says of each phase what is located by then. The ELF that is found begins where
  the assumption speaks of it (`BeginningIs`), the shift of its map is therefore the base
  of the process, the adjustment of a pc behind a call is never so large that it leaves
  the call nor so small that it stays behind it (`AdjustedPc`, every width and instruction
  set), the adjusted address is in the map of the unadjusted one (`MapFound`), and
  there `LinkedByteIsMapped` applies. Each search begins in a sorted table, whichever
  section it is in (`BeginSearchInv`).
- `LogProofs`: for any number of descriptors and any interference. `OpenInv` is the
  account of the descriptors (`DescriptorsAccounted`: free ones and held ones are all
  there are, and at each step of an opener it is known which it holds), what an opener
  without excuse needs to go on (`StillEntitled`: its reserve, or the directory it has
  opened in its place, or the descriptor it gave up is still free) and that a second
  attempt is made without the reserve (`AgainWithout`). `FailsOnlyWithExcuse` follows:
  the code that fails needs a missing directory or a table that is full, and neither is
  possible for an opener that is still entitled.
- `PureCallProofs`: what the functions without state return, for all arguments. Their
  loops are recursive functions in the models; that such a function exists is
  `RecursionExists`, and facts about all of its turns come from `SetInduction`, which is
  the well-foundedness of finite sets said of a set of numbers, so that no operator
  has to be substituted.
  - `EmergencyBuffer`: while the text is inside the buffer the room that is left has not
    wrapped (`RestIs`); each line is cut at it (`FrameLineInside`), hence any number of
    lines (`UnwindInside`), the title before them and the newline behind them
    (`BacktraceInside`), and the four texts of the head (`EmergencyStaysInside`).
  - `Expressions`: every operation finds the values it needs and leaves a stack with
    room (`OperateKeeps`), every turn counts itself (`TurnKeeps`), so after
    `OpsMax + 2` turns none runs (`EvaluationEnds`), the jump backwards of `DW_OP_bra`
    included.
  - `LocalTimes`: a guess of the year keeps the day it stands for (`GuessIs`). In a
    thousand years there are fewer leap days than a year has days (`FewLeaps`), so the
    second guess is at most a year off and is put right by one more
    (`GuessBack`, `GuessOn`, `TwoGuesses`); the count of leap years by divisions
    is that of the calendar (`LeapYearsCounted`).
  - `Reads`: a chunk names the addresses from its start on in order (`FillIs`), also
    where the count has wrapped, the kernel gives a prefix of them (`ReadvIs`), and a
    copy that has lost nothing so far stays exact from chunk to chunk (`CopiedIs`: bytes
    copied and bytes wanted never add up to more than the length, and when they add up
    to it each byte is in its place). The other reader goes word by word, which never
    leaves a page (`SamePage`, `OriginalPtraceIs`).
  - `TextsFit`: `tacc_fmt` writes the text of any format with any texts, numbers, widths
    and paddings, cut at the end of the buffer, and counts all of it. What is sent piece
    by piece is the text that is sent at once (`SendTwice`, `RepeatIs`), the digits that
    are out are the end of the numeral (`NumeralIs`, `UnsignedIs`), a field is its text
    padded to its width (`FieldIs`), and the items follow each other (`VsnprintfIs`).
- `AnrDetectorsProofs`: for any timeout and any clock. `InitInv` says that only the
  first call of the initialisation works (`OneCallWorks`) and finds nothing touched
  (`Untouched`), that what is requested has not failed so far (`Requested`), how far
  `tac_trace_init` is (`TraceProgress`) and what its thread may have done meanwhile
  (`ThreadGoesItsWay`, in steps of its own: it may be attached, refused or ended
  before the call returns), and that no call follows a success (`SuccessIsLast`);
  `AnrInv` that reports lie in the past (`ReportsPast`), that after a notice the watch
  is gone unless it was set again (`WatchKnown`), and that every report after it has
  used up one of the events under way then (`EventsCounted`: reports since, event in
  hand and events queued are together at most the backlog). All five invariants of run
  `detectors` follow (`SuccessIsArmed`, `TraceNothingHalf`, `LateReportsEnd` among them).
- `JavaCrashProofs`: for any number of threads and any clock. A name has one owner
  (`FileOwner`), which is what an atomic `createNewFile` buys; only the owner writes,
  once (`OwnerWrites`); and the report is kept until it is written (`BuiltIsKept`).
  `ReportsNeverMix` and `ReportNeverLost` follow.

The assumptions are `HandlerAssumption`, `ThreadAssumption`, `TraceAssumption` and
`TidAssumption`: distinct thread identities and Boolean options, and `WalkAssumption`:
every address has a place and the limit is positive; `ObserverAssumption` and
`JavaAssumption`: the clock and the timeout are natural numbers, the options Boolean;
`DescriptorAssumption`: the application starts with room for the two reserves;
`BufferAssumption`: the buffer is shorter than `size_t` counts; `ReadAssumption`: a page
holds whole words, and sizes are positive; `ExprAssumption`: the limits of an expression
are numbers; `NumberAssumption`: the buffer for a number has room for the prefix of a
pointer; `CallAssumption`: lengths are natural numbers, the in-process unwinder
reports at least the frame of the crash, a read is not empty, a time lies within
`YearsMax` years of 1970 in a zone of at most a day (the code stops guessing
after four turns in the model, without limit in the source), and a number has no more
octal digits than the buffer for it holds (in the source 22 are the most a number of 64
bits has). `JobAssumption` is what linkers, loaders and the kernel promise of the input of
an unwinding step: maps do not overlap; an ELF file whose beginning lies where the code
looks for one is loaded at the base of the job; a thread stands in its instruction, or
behind a call of two or four bytes that lies in the map of the return address;
tables are sorted. TLC evaluates it on every job of run `unwind`.

Only model-checked: all liveness (the prover has no reasoning about fairness and
ENABLED here; the three measures above are what it leaves to prove), and
`CallerRestored`, which compares the decoders of `DwarfRules` and `ArmExidx`, folds of
operators over a program, with the machine of `Callee` and so speaks of the functions of
the run.

## 5. Not modelled

- The vendored LZMA SDK (`cpp/lzma`, 25 765 of the 38 804 lines of implementation):
  third-party code behind one call, `xz` unpacking of `.gnu_debugdata`, whose result
  is an input of `ElfUnwind`. It is why the lines that the models stand for are a
  small share of all lines.
- The byte formats of ELF and DWARF headers, symbol names, build ids and the text of
  frames, maps and registers (`tacd_elf_interface.c`, `tacd_dwarf.c`, `tacd_regs_*.c` in
  part): parsing without state. The unwinding of one step is instantiated for ARM,
  where all kinds of sections occur; the walk for all architectures.
- `tac_common_seek_to_content_end`: unreachable, see the divergences.
- `tacd_sys.c`, `tac_dl.c`, the wrappers around read(2) and write(2) in `tacc_util.c`
  and `tacd_util.c`: formatting, symbol lookup whose result is an input, no state.
- `tacc_b64.c`: called from nowhere.
- `TACrashLogger.java`, `TAConstants.java`, the bridge library, the demo and
  `tac_test.c`: constants, formatting, examples.

## 6. Plan

1. Done: `CrashHandler`, `TraceDumper`, `NativeCapture` and `Dumper` with proofs;
   so are `JavaCrash`, `NativeInit`, `AnrObserver`, `AnrDetectors` and `LogOpen`; the
   unwinder, with proofs of its walk, its search, its maps, the address it goes by, its
   reads and its expressions; time, text and the emergency buffer, with proofs.
2. Next: `CrashHandler` with `Dumper` and `LogOpen` in place of their contracts; the
   Java callbacks of `NativeHandler` with the append to the native log; `x86` signal
   frames and header parsing of the unwinder.
3. Proofs: the decoders of `DwarfRules` and `ArmExidx` as recursive functions, by the
   induction of `PureCallProofs`, up to `CallerRestored` for any function.
