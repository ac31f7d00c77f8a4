------------------------------- MODULE FrameWalk -------------------------------
(***************************************************************************)
(* tacd_frames_load and tacd_elf_step: how the dumper walks from the crashed *)
(* frame to its callers.  An address is its place in the memory map; what a  *)
(* step computes is in ArmExidx, DwarfRules and DwarfExpr, so that here it   *)
(* is any register content, also when the step fails half way.               *)
(***************************************************************************)
EXTENDS Naturals, Sequences

CONSTANTS
  Pcs,          \* code addresses
  Sps,          \* stack addresses
  Place,        \* what tacd_maps_find_map and tacd_map_get_elf find for a pc
  DeviceSps,    \* stack addresses in the map of a device
  FramesMax     \* TACD_FRAMES_MAX

Places == {"unmapped", "device", "no elf", "elf"}

ASSUME WalkAssumption ==
  /\ Place \in [Pcs -> Places]
  /\ FramesMax \in Nat \ {0}

VARIABLES
  arch,       \* the build, which never changes
  at,         \* where the loop is
  regs,       \* regs_copy
  cur,        \* cur_pc and cur_sp
  frames,     \* self->frames
  guessed,    \* return_address_attempt
  gnu,        \* gnu_interface and gnu_interface_created
  method,     \* the next method of tacd_elf_step
  stepped     \* stepped

walkVars == <<arch, at, regs, cur, frames, guessed, gnu, method, stepped>>

Regs == [pc : Pcs, sp : Sps, lr : Pcs]

\* The fields guess and walked are history: the pc was taken from the link
\* register after a failed step, and a step from this frame succeeded.
Frame == [pc : Pcs, adjusted : BOOLEAN, sigreturn : BOOLEAN,
          guess : BOOLEAN, walked : BOOLEAN]

Methods == <<"sigreturn", "dwarf", "gnu dwarf", "exidx">>

Depth == Len(frames)
CurPlace == Place[cur.pc]

\* The walk starts from the context the signal handler saved.
WalkInit ==
  /\ arch \in {"arm", "arm64", "x86"}
  /\ at = "frame"
  /\ regs \in Regs
  /\ cur = [pc |-> regs.pc, sp |-> regs.sp]
  /\ frames = <<>>
  /\ guessed = FALSE
  /\ gnu = "untried"
  /\ method = 1
  /\ stepped = FALSE

-----------------------------------------------------------------------------
(* One turn of the loop in tacd_frames_load.                                *)

\* The loop condition.
Room == Depth < FramesMax

Full ==
  /\ at = "frame"
  /\ ~Room
  /\ at' = "done"
  /\ UNCHANGED <<arch, regs, cur, frames, guessed, gnu, method, stepped>>

\* tacd_elf_step is reached only with an ELF file and no device involved.
CanStep(r) == Place[r.pc] = "elf" /\ r.sp \notin DeviceSps
InDevice == Place[cur.pc] = "device" \/ (Place[cur.pc] # "unmapped" /\ cur.sp \in DeviceSps)

\* Every pc but the first is taken for a return address and moved back into
\* the call.  Looking the function up may unpack .gnu_debugdata.
NewFrame ==
  /\ at = "frame"
  /\ Room
  /\ cur' = [pc |-> regs.pc, sp |-> regs.sp]
  /\ frames' = Append(frames,
       [pc |-> regs.pc, adjusted |-> Depth > 0 /\ Place[regs.pc] # "unmapped",
        sigreturn |-> FALSE, guess |-> guessed, walked |-> FALSE])
  /\ gnu' \in IF Place[regs.pc] = "elf" /\ gnu = "untried"
              THEN {"untried", "absent", "there"} ELSE {gnu}
  /\ stepped' = FALSE
  /\ method' = 1
  /\ at' = IF CanStep(regs) THEN "step" ELSE "settle"
  /\ UNCHANGED <<arch, regs, guessed>>

\* malloc fails.
NoFrame ==
  /\ at = "frame"
  /\ Room
  /\ at' = "done"
  /\ UNCHANGED <<arch, regs, cur, frames, guessed, gnu, method, stepped>>

-----------------------------------------------------------------------------
(* tacd_elf_step.                                                           *)

Trying(m) == at = "step" /\ Methods[method] = m

\* The .gnu_debugdata interface is created at most once, before its turn.
GnuTried ==
  gnu' \in IF gnu = "untried" /\ Methods[method] = "gnu dwarf"
           THEN {"absent", "there"} ELSE {gnu}

Applies ==
  CASE Methods[method] = "gnu dwarf" -> gnu' = "there"
    [] Methods[method] = "exidx"     -> arch = "arm"
    [] OTHER                         -> TRUE

\* A signal frame: the trampoline was not called, its pc is exact.
StepSigreturn ==
  /\ Trying("sigreturn")
  /\ regs' \in Regs
  /\ frames' = [frames EXCEPT ![Depth].sigreturn = TRUE, ![Depth].adjusted = FALSE,
                              ![Depth].walked = TRUE]
  /\ stepped' = TRUE
  /\ at' = "settle"
  /\ UNCHANGED <<arch, cur, guessed, gnu, method>>

\* A step that is finished has reached the outermost frame.
StepUnwinds ==
  /\ at = "step"
  /\ method > 1
  /\ GnuTried
  /\ Applies
  /\ regs' \in Regs
  /\ frames' = [frames EXCEPT ![Depth].walked = TRUE]
  /\ stepped' = TRUE
  /\ at' \in {"settle", "done"}
  /\ UNCHANGED <<arch, cur, guessed, method>>

\* A method that does not apply leaves the registers alone; one that fails in
\* the middle leaves what it has restored so far.
MethodFails ==
  /\ at = "step"
  /\ GnuTried
  /\ regs' = regs \/ (Applies /\ regs' \in Regs)
  /\ at' = IF method = Len(Methods) THEN "settle" ELSE "step"
  /\ method' = IF method = Len(Methods) THEN method ELSE method + 1
  /\ UNCHANGED <<arch, cur, frames, guessed, stepped>>

-----------------------------------------------------------------------------
(* The end of the turn.                                                     *)

Unchanged(r) == r.pc = cur.pc /\ r.sp = cur.sp

SettleStep ==
  /\ at = "settle"
  /\ stepped
  /\ guessed' = FALSE
  /\ at' = IF Unchanged(regs) THEN "done" ELSE "frame"
  /\ UNCHANGED <<arch, regs, cur, frames, gnu, method, stepped>>

\* Mutant: only the first frame counts.
DubiousIfMapped == Place[frames[1].pc] # "unmapped"

\* A frame from a guess that leads nowhere goes, unless it is all there is
\* to show for a jump into nowhere.
Dubious == Depth > 2 \/ (Depth > 0 /\ Place[frames[1].pc] # "unmapped")

\* Mutant: the attempt is forgotten and the walk goes on.
DropGuessGoOn ==
  /\ at = "settle"
  /\ ~stepped
  /\ guessed
  /\ frames' = IF Dubious THEN SubSeq(frames, 1, Depth - 1) ELSE frames
  /\ at' = "frame"
  /\ UNCHANGED <<arch, regs, cur, guessed, gnu, method, stepped>>

DropGuess ==
  /\ at = "settle"
  /\ ~stepped
  /\ guessed
  /\ frames' = IF Dubious THEN SubSeq(frames, 1, Depth - 1) ELSE frames
  /\ at' = "done"
  /\ UNCHANGED <<arch, regs, cur, guessed, gnu, method, stepped>>

DeviceEnds ==
  /\ at = "settle"
  /\ ~stepped
  /\ ~guessed
  /\ InDevice
  /\ at' = "done"
  /\ UNCHANGED <<arch, regs, cur, frames, guessed, gnu, method, stepped>>

\* tacd_regs_set_pc_from_lr: the link register, or on x86 the word on top of
\* the stack, which may be unreadable.
ReturnPcs == IF arch # "x86" THEN {regs.lr} \ {regs.pc} ELSE Pcs \ {regs.pc}

GuessCaller ==
  /\ at = "settle"
  /\ ~stepped
  /\ ~guessed
  /\ ~InDevice
  /\ \E pc \in ReturnPcs :
       /\ regs' = [regs EXCEPT !.pc = pc]
       /\ at' = IF Unchanged(regs') THEN "done" ELSE "frame"
  /\ guessed' = TRUE
  /\ UNCHANGED <<arch, cur, frames, gnu, method, stepped>>

NoCaller ==
  /\ at = "settle"
  /\ ~stepped
  /\ ~guessed
  /\ ~InDevice
  /\ arch # "x86" => regs.lr = regs.pc
  /\ at' = "done"
  /\ UNCHANGED <<arch, regs, cur, frames, guessed, gnu, method, stepped>>

Walked == at = "done" /\ UNCHANGED walkVars

WalkStep ==
  \/ Full \/ NewFrame \/ NoFrame
  \/ StepSigreturn \/ StepUnwinds \/ MethodFails
  \/ SettleStep \/ DropGuess \/ DeviceEnds \/ GuessCaller \/ NoCaller

WalkNext == WalkStep \/ Walked

\* The loop runs in the only thread of the dumper and waits for nothing.
WalkSpec == WalkInit /\ [][WalkNext]_walkVars /\ WF_walkVars(WalkStep)

-----------------------------------------------------------------------------

\* Type invariant of the walk, with the bound on the list of frames.
WalkTypeOK ==
  /\ arch \in {"arm", "arm64", "x86"}
  /\ at \in {"frame", "step", "settle", "done"}
  /\ regs \in Regs
  /\ cur \in [pc : Pcs, sp : Sps]
  /\ frames \in Seq(Frame)
  /\ Depth <= FramesMax
  /\ guessed \in BOOLEAN
  /\ gnu \in {"untried", "absent", "there"}
  /\ method \in 1 .. Len(Methods)
  /\ stepped \in BOOLEAN

\* One way leads from a frame to the next: either a step from it succeeded
\* or the next one is a guess, never both, and there are no two guesses in a
\* row, whatever the failed methods left in the registers.
FramesLinked ==
  \A i \in 1 .. Depth - 1 :
    /\ frames[i].walked <=> ~frames[i + 1].guess
    /\ frames[i + 1].guess => ~frames[i].guess

\* A guessed frame stays in the report only if a step from it succeeded, or if
\* it is the second and the first lies outside every map (the call through a
\* bad pointer, where the caller is all there is to see).
GuessesConfirmed ==
  at = "done" =>
    \A i \in 1 .. Depth :
      frames[i].guess /\ ~frames[i].walked =>
        i = 2 /\ Depth = 2 /\ Place[frames[1].pc] = "unmapped"

\* Whatever the stack of the crashed thread holds, the walk comes to an end.
WalkEnds == <>(at = "done")
==============================================================================
