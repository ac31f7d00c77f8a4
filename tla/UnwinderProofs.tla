---------------------------- MODULE UnwinderProofs ----------------------------
(***************************************************************************)
(* The unwinder: the loop over the frames, for every memory map and any      *)
(* number of frames, the binary search in a sorted table of any length, what *)
(* a map of a file says of the addresses in it, and the step from a pc       *)
(* to the entry of the unwind tables that covers it.                         *)
(***************************************************************************)
EXTENDS FrameWalk, ElfUnwind, TLAPS

-----------------------------------------------------------------------------
(* The loop over the frames.                                                *)

\* How the loop's flags describe the last frame at each point of a turn.
LastFrame ==
  /\ at = "frame" /\ Depth = 0 => ~guessed
  /\ at = "frame" /\ Depth > 0 =>
       /\ frames[Depth].walked <=> ~guessed
       /\ guessed => ~frames[Depth].guess
  /\ at \in {"step", "settle"} =>
       /\ Depth > 0
       /\ frames[Depth].guess <=> guessed
       /\ frames[Depth].walked <=> stepped
  /\ at = "step" => ~stepped
  /\ Depth > 0 => ~frames[1].guess

WalkInv == WalkTypeOK /\ FramesLinked /\ LastFrame /\ GuessesConfirmed

\* tacd_elf_step has four ways to step.
LEMMA MethodsLen == Len(Methods) = 4
BY DEF Methods

\* The state after WalkInit satisfies the invariant.
LEMMA WalkInitInv == ASSUME WalkInit PROVE WalkInv
<1>1. frames = <<>> /\ Depth = 0
  BY DEF WalkInit, Depth
<1>2. regs \in Regs /\ cur \in [pc : Pcs, sp : Sps]
  BY DEF WalkInit, Regs
<1>3. WalkTypeOK
  <2>1. Depth <= FramesMax /\ frames \in Seq(Frame)
    BY <1>1, WalkAssumption
  <2>2. method \in 1 .. Len(Methods)
    BY DEF WalkInit, Methods
  <2> QED BY <1>2, <2>1, <2>2 DEF WalkInit, WalkTypeOK
<1> QED BY <1>1, <1>3 DEF WalkInit, WalkInv, FramesLinked, LastFrame, GuessesConfirmed

\* In a linked list of frames every guess before the last one is confirmed.
LEMMA EarlierGuesses ==
  ASSUME WalkTypeOK, FramesLinked
  PROVE  \A i \in 1 .. Depth - 1 : frames[i].guess => frames[i].walked
<1> SUFFICES ASSUME NEW i \in 1 .. Depth - 1, frames[i].guess
             PROVE  frames[i].walked
  OBVIOUS
<1>1. Depth \in Nat /\ i + 1 \in 1 .. Depth
  BY DEF WalkTypeOK, Depth
<1>2. ~frames[i + 1].guess
  BY DEF FramesLinked
<1> QED BY <1>2 DEF FramesLinked

\* Recording a field of the last frame leaves a list of frames.
LEMMA LastFrameSet ==
  ASSUME frames \in Seq(Frame), Depth > 0, NEW f \in Frame
  PROVE  LET g == [frames EXCEPT ![Depth] = f]
         IN  g \in Seq(Frame) /\ Len(g) = Depth
BY DEF Depth

\* A new frame is linked to the one before it.
LEMMA NewFrameInv ==
  ASSUME WalkInv, NewFrame
  PROVE  WalkInv'
<1> DEFINE f == [pc |-> regs.pc, adjusted |-> Depth > 0 /\ Place[regs.pc] # "unmapped",
                 sigreturn |-> FALSE, guess |-> guessed, walked |-> FALSE]
<1>1. f \in Frame /\ regs.pc \in Pcs /\ regs.sp \in Sps
  BY DEF WalkInv, WalkTypeOK, Regs, Frame
<1>2. /\ frames' = Append(frames, f)
      /\ frames' \in Seq(Frame) /\ Len(frames') = Len(frames) + 1
      /\ frames'[Len(frames) + 1] = f
      /\ \A i \in 1 .. Len(frames) : frames'[i] = frames[i]
  <2>1. frames \in Seq(Frame) /\ frames' = Append(frames, f)
    BY DEF NewFrame, WalkInv, WalkTypeOK
  <2>2. QED BY <1>1, <2>1
<1>3. WalkTypeOK'
  <2>1. Len(frames) \in Nat /\ Len(frames) < FramesMax
    BY DEF NewFrame, Room, Depth, WalkInv, WalkTypeOK
  <2>2. Len(frames)' <= FramesMax
    BY <1>2, <2>1, WalkAssumption
  <2>3. at' \in {"step", "settle"} /\ cur' \in [pc : Pcs, sp : Sps]
    BY <1>1 DEF NewFrame
  <2>4. gnu' \in {"untried", "absent", "there"}
    BY DEF NewFrame, WalkInv, WalkTypeOK
  <2>5. method' \in 1 .. Len(Methods)
    <3>1. method' = 1
      BY DEF NewFrame
    <3> QED BY <3>1, MethodsLen
  <2>6. arch' = arch /\ regs' = regs /\ guessed' = guessed /\ WalkTypeOK
    BY DEF NewFrame, WalkInv
  <2>7. stepped' \in BOOLEAN
    BY DEF NewFrame
  <2> HIDE DEF f
  <2> QED BY <1>2, <2>2, <2>3, <2>4, <2>5, <2>6, <2>7 DEF WalkTypeOK, Depth
<1>4. Depth \in Nat /\ Depth' = Depth + 1 /\ at = "frame"
  BY <1>2 DEF NewFrame, Depth, WalkInv, WalkTypeOK
<1>5. FramesLinked'
  <2> SUFFICES ASSUME NEW i \in 1 .. Depth
               PROVE  /\ frames'[i].walked <=> ~frames'[i + 1].guess
                      /\ frames'[i + 1].guess => ~frames'[i].guess
    BY <1>4 DEF FramesLinked
  <2>1. CASE i = Depth
    <3>1. frames'[i] = frames[Depth] /\ frames'[i + 1] = f
      BY <1>2, <1>4, <2>1 DEF Depth
    <3>2. f.guess = guessed
      OBVIOUS
    <3> QED BY <1>4, <2>1, <3>1, <3>2 DEF WalkInv, LastFrame
  <2>2. CASE i # Depth
    <3>1. i \in 1 .. Depth - 1 /\ i + 1 \in 1 .. Depth
      BY <1>4, <2>2
    <3>2. frames'[i] = frames[i] /\ frames'[i + 1] = frames[i + 1]
      BY <1>2, <3>1 DEF Depth
    <3> QED BY <3>1, <3>2 DEF WalkInv, FramesLinked
  <2> QED BY <2>1, <2>2
<1>6. at' \in {"step", "settle"} /\ guessed' = guessed /\ stepped' = FALSE
  BY DEF NewFrame
<1>7. LastFrame'
  <2>1. frames'[Depth'] = f
    BY <1>2, <1>4 DEF Depth
  <2>2. ~frames'[1].guess
    <3>1. CASE Depth = 0
      <4>1. ~guessed /\ frames'[1] = f
        BY <1>4, <2>1, <3>1 DEF WalkInv, LastFrame
      <4> QED BY <4>1 DEF WalkInv, WalkTypeOK
    <3>2. CASE Depth > 0
      <4>1. 1 \in 1 .. Len(frames) /\ ~frames[1].guess
        BY <1>4, <3>2 DEF WalkInv, LastFrame, Depth
      <4>2. frames'[1] = frames[1] /\ frames[1] \in Frame
        BY <1>2, <4>1 DEF WalkInv, WalkTypeOK
      <4> QED BY <4>1, <4>2 DEF Frame
    <3> QED BY <1>4, <3>1, <3>2
  <2>3. (f.guess <=> guessed) /\ ~f.walked
    OBVIOUS
  <2>4. (frames'[Depth'].guess <=> guessed') /\ (frames'[Depth'].walked <=> stepped')
    BY <1>6, <2>1, <2>3
  <2>5. Depth' > 0 /\ at' # "frame"
    BY <1>4, <1>6
  <2> HIDE DEF f
  <2> QED BY <1>6, <2>2, <2>4, <2>5 DEF LastFrame
<1> QED BY <1>3, <1>5, <1>6, <1>7 DEF WalkInv, GuessesConfirmed

\* Steps that leave the list of frames alone and do not end the walk.
LEMMA KeepsFrames ==
  ASSUME WalkInv, frames' = frames
  PROVE  /\ FramesLinked'
         /\ Depth' = Depth
         /\ \A i \in 1 .. Depth - 1 : frames[i].guess => frames[i].walked
<1>1. Depth' = Depth
  BY DEF Depth
<1> QED BY <1>1, EarlierGuesses DEF WalkInv, FramesLinked

\* A method that succeeds marks the last frame as walked.
LEMMA MarkedInv ==
  ASSUME WalkInv, at = "step", at' \in {"settle", "done"}, stepped' = TRUE,
         guessed' = guessed, arch' = arch, regs' \in Regs, cur' = cur, method' = method,
         gnu' \in {"untried", "absent", "there"},
         NEW f \in Frame, f.walked, f.guess <=> frames[Depth].guess,
         frames' = [frames EXCEPT ![Depth] = f]
  PROVE  WalkInv'
<1>1. /\ Depth \in Nat /\ Depth > 0 /\ frames \in Seq(Frame)
      /\ frames[Depth].guess <=> guessed
      /\ ~frames[1].guess
  BY DEF WalkInv, WalkTypeOK, LastFrame, Depth
<1>2. /\ frames' \in Seq(Frame) /\ Depth' = Depth
      /\ frames'[Depth] = f
      /\ \A i \in 1 .. Depth - 1 : frames'[i] = frames[i]
  BY <1>1, LastFrameSet DEF Depth
<1>3. WalkTypeOK'
  BY <1>2 DEF WalkInv, WalkTypeOK
<1>4. FramesLinked'
  <2> SUFFICES ASSUME NEW i \in 1 .. Depth - 1
               PROVE  /\ frames'[i].walked <=> ~frames'[i + 1].guess
                      /\ frames'[i + 1].guess => ~frames'[i].guess
    BY <1>2 DEF FramesLinked
  <2>1. /\ frames[i].walked <=> ~frames[i + 1].guess
        /\ frames[i + 1].guess => ~frames[i].guess
    BY DEF WalkInv, FramesLinked
  <2>2. frames'[i] = frames[i]
    BY <1>2
  <2>3. CASE i + 1 = Depth
    BY <1>2, <2>1, <2>2, <2>3
  <2>4. CASE i + 1 # Depth
    <3>1. i + 1 \in 1 .. Depth - 1
      BY <1>1, <2>4
    <3>2. frames'[i + 1] = frames[i + 1]
      BY <1>2, <3>1
    <3> QED BY <2>1, <2>2, <3>2
  <2> QED BY <2>3, <2>4
<1>5. ~frames'[1].guess
  <2>1. CASE Depth = 1
    BY <1>1, <1>2, <2>1
  <2>2. CASE Depth # 1
    <3>1. 1 \in 1 .. Depth - 1
      BY <1>1, <2>2
    <3> QED BY <1>1, <1>2, <3>1
  <2> QED BY <2>1, <2>2
<1>6. LastFrame'
  BY <1>1, <1>2, <1>5 DEF LastFrame
<1>7. GuessesConfirmed'
  <2> SUFFICES ASSUME NEW i \in 1 .. Depth PROVE frames'[i].guess => frames'[i].walked
    BY <1>2 DEF GuessesConfirmed
  <2>1. CASE i = Depth
    BY <1>2, <2>1
  <2>2. CASE i # Depth
    <3>1. i \in 1 .. Depth - 1
      BY <1>1, <2>2
    <3> QED BY <1>2, <3>1, EarlierGuesses DEF WalkInv
  <2> QED BY <2>1, <2>2
<1> QED BY <1>3, <1>4, <1>6, <1>7 DEF WalkInv

\* A signal frame.
LEMMA SigreturnInv == ASSUME WalkInv, StepSigreturn PROVE WalkInv'
<1> DEFINE f == [frames[Depth] EXCEPT !.sigreturn = TRUE, !.adjusted = FALSE, !.walked = TRUE]
<1>1. at = "step" /\ Depth \in 1 .. Len(frames) /\ frames \in Seq(Frame)
  BY DEF StepSigreturn, Trying, WalkInv, WalkTypeOK, LastFrame, Depth
<1>2. frames[Depth] \in Frame
  BY <1>1
<1>3. f \in Frame /\ f.walked /\ (f.guess <=> frames[Depth].guess)
  BY <1>2 DEF Frame
<1>4. frames' = [frames EXCEPT ![Depth] = f]
  BY <1>1, <1>2 DEF StepSigreturn, Frame
<1>5. gnu' \in {"untried", "absent", "there"}
  BY DEF StepSigreturn, WalkInv, WalkTypeOK
<1> HIDE DEF f
<1> QED BY <1>1, <1>3, <1>4, <1>5, MarkedInv DEF StepSigreturn

\* Every other method that succeeds.
LEMMA UnwindsInv == ASSUME WalkInv, StepUnwinds PROVE WalkInv'
<1> DEFINE f == [frames[Depth] EXCEPT !.walked = TRUE]
<1>1. at = "step" /\ Depth \in 1 .. Len(frames) /\ frames \in Seq(Frame)
  BY DEF StepUnwinds, WalkInv, WalkTypeOK, LastFrame, Depth
<1>2. frames[Depth] \in Frame
  BY <1>1
<1>3. f \in Frame /\ f.walked /\ (f.guess <=> frames[Depth].guess)
  BY <1>2 DEF Frame
<1>4. frames' = [frames EXCEPT ![Depth] = f]
  BY <1>1, <1>2 DEF StepUnwinds
<1>5. gnu' \in {"untried", "absent", "there"}
  BY DEF StepUnwinds, GnuTried, WalkInv, WalkTypeOK
<1> HIDE DEF f
<1> QED BY <1>1, <1>3, <1>4, <1>5, MarkedInv DEF StepUnwinds

\* A method that fails.
LEMMA FailsInv == ASSUME WalkInv, MethodFails PROVE WalkInv'
<1>1. /\ frames' = frames /\ at = "step" /\ at' \in {"step", "settle"}
      /\ guessed' = guessed /\ stepped' = stepped /\ arch' = arch /\ cur' = cur
  BY DEF MethodFails
<1>2. regs' \in Regs /\ gnu' \in {"untried", "absent", "there"}
  BY DEF MethodFails, GnuTried, WalkInv, WalkTypeOK
<1>3. method' \in 1 .. Len(Methods)
  BY MethodsLen DEF MethodFails, WalkInv, WalkTypeOK
<1>4. WalkTypeOK'
  BY <1>1, <1>2, <1>3 DEF WalkInv, WalkTypeOK, Depth
<1>5. LastFrame'
  BY <1>1, KeepsFrames DEF WalkInv, LastFrame
<1> QED BY <1>1, <1>4, <1>5, KeepsFrames DEF WalkInv, GuessesConfirmed

\* The walk goes on after a step, or with a guess.
LEMMA GoesOnInv ==
  ASSUME WalkInv, SettleStep \/ GuessCaller
  PROVE  WalkInv'
<1>1. /\ frames' = frames /\ at = "settle" /\ at' \in {"frame", "done"}
      /\ stepped' = stepped /\ arch' = arch /\ cur' = cur /\ gnu' = gnu /\ method' = method
      /\ stepped <=> ~guessed'
      /\ guessed' \in BOOLEAN
      /\ stepped \/ ~guessed
  BY DEF SettleStep, GuessCaller
<1>2. regs' \in Regs
  <2>1. CASE SettleStep
    BY <2>1 DEF SettleStep, WalkInv, WalkTypeOK
  <2>2. CASE GuessCaller
    <3>1. PICK pc \in ReturnPcs : regs' = [regs EXCEPT !.pc = pc]
      BY <2>2 DEF GuessCaller
    <3>2. pc \in Pcs /\ regs \in Regs
      BY DEF ReturnPcs, WalkInv, WalkTypeOK, Regs
    <3> QED BY <3>1, <3>2 DEF Regs
  <2> QED BY <2>1, <2>2
<1>3. WalkTypeOK'
  BY <1>1, <1>2 DEF WalkInv, WalkTypeOK, Depth
<1>4. Depth' = Depth /\ Depth > 0 /\ ~frames[1].guess /\ (frames[Depth].walked <=> stepped)
      /\ (frames[Depth].guess <=> guessed)
  BY <1>1, KeepsFrames DEF WalkInv, LastFrame
<1>5. LastFrame'
  BY <1>1, <1>4 DEF LastFrame
<1>6. GuessesConfirmed'
  <2> SUFFICES ASSUME NEW i \in 1 .. Depth PROVE frames[i].guess => frames[i].walked
    BY <1>1, <1>4 DEF GuessesConfirmed
  <2>1. CASE i = Depth
    BY <1>1, <1>4, <2>1
  <2>2. CASE i # Depth
    BY <1>4, <2>2, KeepsFrames, <1>1 DEF WalkInv, WalkTypeOK, Depth
  <2> QED BY <2>1, <2>2
<1> QED BY <1>1, <1>3, <1>5, <1>6, KeepsFrames DEF WalkInv

\* The walk ends without touching the list.
LEMMA StopsInv ==
  ASSUME WalkInv, Full \/ NoFrame \/ DeviceEnds \/ NoCaller \/ UNCHANGED walkVars
  PROVE  WalkInv'
<1>1. CASE UNCHANGED walkVars
  BY <1>1 DEF walkVars, WalkInv, WalkTypeOK, FramesLinked, LastFrame, GuessesConfirmed, Depth
<1>2. CASE Full \/ NoFrame \/ DeviceEnds \/ NoCaller
  <2>1. /\ frames' = frames /\ at' = "done" /\ at \in {"frame", "settle"}
        /\ guessed' = guessed /\ stepped' = stepped /\ arch' = arch /\ cur' = cur
        /\ gnu' = gnu /\ method' = method /\ regs' = regs
        /\ at = "settle" => ~guessed
    BY <1>2 DEF Full, NoFrame, DeviceEnds, NoCaller
  <2>2. WalkTypeOK' /\ LastFrame'
    BY <2>1, KeepsFrames DEF WalkInv, WalkTypeOK, LastFrame, Depth
  <2>3. GuessesConfirmed'
    <3> SUFFICES ASSUME NEW i \in 1 .. Depth PROVE frames[i].guess => frames[i].walked
      BY <2>1, KeepsFrames DEF GuessesConfirmed
    <3>1. CASE i = Depth
      <4>1. Depth > 0
        BY DEF WalkInv, WalkTypeOK, Depth
      <4> QED BY <2>1, <3>1, <4>1 DEF WalkInv, LastFrame
    <3>2. CASE i # Depth
      <4>1. i \in 1 .. Depth - 1
        BY <3>2 DEF WalkInv, WalkTypeOK, Depth
      <4> QED BY <2>1, <4>1, KeepsFrames
    <3> QED BY <3>1, <3>2
  <2> QED BY <2>1, <2>2, <2>3, KeepsFrames DEF WalkInv
<1> QED BY <1>1, <1>2

\* The guess that led nowhere.
LEMMA DropInv == ASSUME WalkInv, DropGuess PROVE WalkInv'
<1>1. /\ at = "settle" /\ at' = "done" /\ guessed /\ ~stepped
      /\ guessed' = guessed /\ stepped' = stepped /\ arch' = arch /\ cur' = cur
      /\ gnu' = gnu /\ method' = method /\ regs' = regs
  BY DEF DropGuess
<1>2. /\ Depth \in Nat /\ Depth > 0 /\ frames \in Seq(Frame)
      /\ frames[Depth].guess /\ ~frames[Depth].walked /\ ~frames[1].guess
  BY <1>1 DEF WalkInv, WalkTypeOK, LastFrame, Depth
<1>3. \A i \in 1 .. Depth - 1 : frames[i].guess => frames[i].walked
  BY EarlierGuesses DEF WalkInv
<1>4. CASE Dubious
  <2>1. frames' = SubSeq(frames, 1, Depth - 1)
    BY <1>4 DEF DropGuess
  <2>2. /\ frames' \in Seq(Frame) /\ Depth' = Depth - 1
        /\ \A i \in 1 .. Depth - 1 : frames'[i] = frames[i]
    BY <1>2, <2>1 DEF Depth
  <2>3. WalkTypeOK'
    <3>1. Depth' <= FramesMax
      BY <1>2, <2>2, WalkAssumption DEF WalkInv, WalkTypeOK
    <3> QED BY <1>1, <2>2, <3>1 DEF WalkInv, WalkTypeOK
  <2>4. FramesLinked'
    <3> SUFFICES ASSUME NEW i \in 1 .. Depth - 2
                 PROVE  /\ frames'[i].walked <=> ~frames'[i + 1].guess
                        /\ frames'[i + 1].guess => ~frames'[i].guess
      BY <1>2, <2>2 DEF FramesLinked
    <3>1. i \in 1 .. Depth - 1 /\ i + 1 \in 1 .. Depth - 1
      BY <1>2
    <3>2. frames'[i] = frames[i] /\ frames'[i + 1] = frames[i + 1]
      BY <2>2, <3>1
    <3> QED BY <3>1, <3>2 DEF WalkInv, FramesLinked
  <2>5. LastFrame'
    <3>1. Depth' > 0 => ~frames'[1].guess
      <4> SUFFICES ASSUME Depth' > 0 PROVE ~frames'[1].guess
        OBVIOUS
      <4>1. 1 \in 1 .. Depth - 1
        BY <1>2, <2>2
      <4> QED BY <1>2, <2>2, <4>1
    <3> QED BY <1>1, <3>1 DEF LastFrame
  <2>6. GuessesConfirmed'
    BY <1>3, <2>2 DEF GuessesConfirmed
  <2> QED BY <2>3, <2>4, <2>5, <2>6 DEF WalkInv
<1>5. CASE ~Dubious
  <2>1. frames' = frames
    BY <1>5 DEF DropGuess
  <2>2. Depth' = Depth /\ WalkTypeOK' /\ LastFrame'
    BY <1>1, <2>1, KeepsFrames DEF WalkInv, WalkTypeOK, LastFrame, Depth
  <2>3. GuessesConfirmed'
    <3> SUFFICES ASSUME NEW i \in 1 .. Depth, frames[i].guess, ~frames[i].walked
                 PROVE  i = 2 /\ Depth = 2 /\ Place[frames[1].pc] = "unmapped"
      BY <2>1, <2>2 DEF GuessesConfirmed
    <3>1. Depth <= 2 /\ Place[frames[1].pc] = "unmapped"
      BY <1>2, <1>5 DEF Dubious
    <3>2. i = Depth
      BY <1>2, <1>3
    <3>3. i # 1
      BY <1>2
    <3> QED BY <1>2, <3>1, <3>2, <3>3
  <2> QED BY <2>1, <2>2, <2>3, KeepsFrames DEF WalkInv
<1> QED BY <1>4, <1>5

\* The invariant is inductive: one case for each action of the walk.
LEMMA WalkNextInv == ASSUME WalkInv, [WalkNext]_walkVars PROVE WalkInv'
<1>1. CASE NewFrame        BY <1>1, NewFrameInv
<1>2. CASE StepSigreturn   BY <1>2, SigreturnInv
<1>3. CASE StepUnwinds     BY <1>3, UnwindsInv
<1>4. CASE MethodFails     BY <1>4, FailsInv
<1>5. CASE SettleStep \/ GuessCaller  BY <1>5, GoesOnInv
<1>6. CASE DropGuess       BY <1>6, DropInv
<1>7. CASE Full \/ NoFrame \/ DeviceEnds \/ NoCaller \/ UNCHANGED walkVars
  BY <1>7, StopsInv
<1> QED BY <1>1, <1>2, <1>3, <1>4, <1>5, <1>6, <1>7 DEF WalkNext, WalkStep, Walked

\* The strengthened invariant holds in every state of the walk.
THEOREM WalkInvariant == WalkSpec => []WalkInv
<1>1. WalkInit => WalkInv
  BY WalkInitInv
<1>2. WalkInv /\ [WalkNext]_walkVars => WalkInv'
  BY WalkNextInv
<1> QED BY <1>1, <1>2, PTL DEF WalkSpec

\* The walk has its types and never more than FramesMax frames.
THEOREM WalkTyped == WalkSpec => []WalkTypeOK
BY WalkInvariant, PTL DEF WalkInv

\* Between two frames there is a step or a guess, and no two guesses follow
\* each other.
THEOREM WalkLinked == WalkSpec => []FramesLinked
BY WalkInvariant, PTL DEF WalkInv

\* No unconfirmed guess stays behind a frame whose code is mapped.
THEOREM WalkConfirms == WalkSpec => []GuessesConfirmed
BY WalkInvariant, PTL DEF WalkInv

\* What is left of the walk: at most seven steps for every frame there is room
\* for, and what is left of the turn.
StepsLeft ==
  IF at = "done" THEN 0
  ELSE 7 * (FramesMax - Depth)
         + (CASE at = "step" -> 7 - method [] at = "settle" -> 2 [] at = "frame" -> 1)

\* No step of the walk leaves as many steps to go as there were.
LEMMA WalkStepShrinks ==
  ASSUME WalkInv, WalkStep
  PROVE  StepsLeft' \in Nat /\ StepsLeft \in Nat /\ StepsLeft' < StepsLeft
<1> DEFINE ofTurn == CASE at = "step" -> 7 - method [] at = "settle" -> 2 [] at = "frame" -> 1
           room == FramesMax - Depth
<1>1. Depth \in Nat /\ FramesMax \in Nat /\ room \in Nat /\ method \in 1 .. 4
  BY WalkAssumption, MethodsLen DEF WalkInv, WalkTypeOK, Depth
<1>2. at # "done"
  BY DEF WalkStep, Full, NewFrame, NoFrame, StepSigreturn, Trying, StepUnwinds, MethodFails,
         SettleStep, DropGuess, DeviceEnds, GuessCaller, NoCaller
<1>3. at \in {"frame", "step", "settle"}
  BY <1>2 DEF WalkInv, WalkTypeOK
<1>4. ofTurn \in 1 .. 6 /\ StepsLeft = 7 * room + ofTurn
  BY <1>1, <1>2, <1>3 DEF StepsLeft
<1>5. StepsLeft \in Nat /\ StepsLeft > 0
  <2> HIDE DEF room, ofTurn
  <2> QED  BY <1>1, <1>4
<1>6. CASE at' = "done"
  BY <1>5, <1>6 DEF StepsLeft
<1>7. CASE NewFrame
  <2>1. at = "frame" /\ Depth < FramesMax /\ at' \in {"step", "settle"} /\ method' = 1
    BY <1>7 DEF NewFrame, Room
  <2>2. Depth' = Depth + 1
    BY <1>7 DEF NewFrame, Depth, WalkInv, WalkTypeOK
  <2>3. FramesMax - Depth' = room - 1 /\ room - 1 \in Nat
    BY <1>1, <2>1, <2>2
  <2>4. StepsLeft' = 7 * (room - 1) + 6 \/ StepsLeft' = 7 * (room - 1) + 2
    BY <2>1, <2>3 DEF StepsLeft
  <2>5. ofTurn = 1
    BY <2>1
  <2> HIDE DEF room, ofTurn
  <2> QED  BY <1>1, <1>4, <2>3, <2>4, <2>5
<1>8. CASE StepSigreturn \/ StepUnwinds \/ MethodFails
  <2>1. Depth' = Depth
    <3>1. CASE MethodFails
      BY <3>1 DEF MethodFails, Depth
    <3>2. CASE StepSigreturn \/ StepUnwinds
      <4>1. frames \in Seq(Frame)
        BY DEF WalkInv, WalkTypeOK
      <4> QED  BY <3>2, <4>1 DEF StepSigreturn, StepUnwinds, Depth
    <3> QED  BY <1>8, <3>1, <3>2
  <2>2. at = "step" /\ at' \in {"step", "settle", "done"} /\ (at' = "step" => method' = method + 1 /\ method < 4)
    BY <1>1, <1>8, MethodsLen DEF StepSigreturn, Trying, StepUnwinds, MethodFails
  <2>3. CASE at' = "step"
    BY <1>1, <1>4, <2>1, <2>2, <2>3 DEF StepsLeft
  <2>4. CASE at' = "settle"
    BY <1>1, <1>4, <2>1, <2>2, <2>4 DEF StepsLeft
  <2> QED  BY <1>6, <2>2, <2>3, <2>4
<1>9. CASE SettleStep \/ GuessCaller
  <2>1. at = "settle" /\ at' \in {"frame", "done"} /\ Depth' = Depth
    BY <1>9 DEF SettleStep, GuessCaller, Depth
  <2>2. CASE at' = "frame"
    BY <1>1, <1>4, <2>1, <2>2 DEF StepsLeft
  <2> QED  BY <1>6, <2>1, <2>2
<1>10. CASE Full \/ NoFrame \/ DropGuess \/ DeviceEnds \/ NoCaller
  <2>1. at' = "done"
    BY <1>10 DEF Full, NoFrame, DropGuess, DeviceEnds, NoCaller
  <2> QED  BY <1>6, <2>1
<1> QED  BY <1>7, <1>8, <1>9, <1>10 DEF WalkStep

\* What is on the stack of the crashed thread cannot make the walk go round:
\* every step of the loop, also of a failed method or of a guess, leaves fewer
\* steps to go, of which there are never more than seven for each frame of
\* TACD_FRAMES_MAX and one more.
THEOREM WalkShrinks ==
  WalkSpec => /\ [](StepsLeft \in 0 .. 7 * FramesMax + 1)
              /\ [][StepsLeft' < StepsLeft]_walkVars
<1>1. WalkInv => StepsLeft \in 0 .. 7 * FramesMax + 1
  <2> SUFFICES ASSUME WalkInv PROVE StepsLeft \in 0 .. 7 * FramesMax + 1
    OBVIOUS
  <2>1. Depth \in Nat /\ FramesMax \in Nat /\ Depth <= FramesMax /\ method \in 1 .. 4
    BY WalkAssumption, MethodsLen DEF WalkInv, WalkTypeOK, Depth
  <2>2. at \in {"frame", "step", "settle", "done"}
    BY DEF WalkInv, WalkTypeOK
  <2>3. at \in {"step", "settle"} => Depth > 0
    BY DEF WalkInv, LastFrame
  <2> QED  BY <2>1, <2>2, <2>3 DEF StepsLeft
<1>2. WalkInv /\ [WalkNext]_walkVars => [StepsLeft' < StepsLeft]_walkVars
  BY WalkStepShrinks DEF WalkNext, Walked
<1> QED  BY <1>1, <1>2, WalkInvariant, PTL DEF WalkSpec

-----------------------------------------------------------------------------
(* The binary search.                                                       *)

SearchIInv ==
  /\ table \in Seq(Int)
  /\ Sorted(table)
  /\ key \in Int
  /\ hit \in Int
  /\ SearchInv
  /\ FoundLastBefore

\* The middle lies in what is left to search.
LEMMA MiddleInside ==
  ASSUME NEW a \in Nat, NEW b \in Nat, a < b
  PROVE  (a + b) \div 2 \in a .. b - 1
  OBVIOUS

\* Every entry up to one that does not start behind the pc does not either,
\* and every entry from one that does on does as well.
LEMMA SortedSplits ==
  ASSUME NEW t \in Seq(Int), Sorted(t), NEW pc \in Int, NEW n \in 1 .. Len(t)
  PROVE  /\ t[n] <= pc => \A i \in 1 .. n : t[i] <= pc
         /\ pc < t[n] => \A i \in n .. Len(t) : pc < t[i]
         /\ pc = t[n] => \A i \in n + 1 .. Len(t) : pc < t[i]
  BY DEF Sorted

\* Of each step the search stays inside the table and what it leaves out is
\* on the right side of the pc.
LEMMA SearchStepKeeps == SearchIInv /\ [SearchStep]_searchVars => SearchIInv'
<1> SUFFICES ASSUME SearchIInv, [SearchStep]_searchVars PROVE SearchIInv'
  OBVIOUS
<1> USE DEF SearchIInv, SearchInv, FoundLastBefore
<1>1. ASSUME Searching
      PROVE  /\ Cur \in first .. last - 1
             /\ Entry(Cur) <= key => \A i \in 1 .. Cur + 1 : table[i] <= key
             /\ key < Entry(Cur) => \A i \in Cur + 1 .. Len(table) : key < table[i]
             /\ key = Entry(Cur) => \A i \in Cur + 2 .. Len(table) : key < table[i]
             /\ Entry(Cur) \in Int
  <2>1. Cur \in first .. last - 1
    BY <1>1, MiddleInside DEF Searching, Cur
  <2> DEFINE n == Cur + 1
  <2>2. n \in 1 .. Len(table) /\ n + 1 = Cur + 2
    BY <2>1
  <2> HIDE DEF n
  <2>3. /\ table[n] <= key => \A i \in 1 .. n : table[i] <= key
        /\ key < table[n] => \A i \in n .. Len(table) : key < table[i]
        /\ key = table[n] => \A i \in n + 1 .. Len(table) : key < table[i]
    BY <2>2, SortedSplits
  <2>4. table[n] \in Int
    BY <2>2
  <2>5. Entry(Cur) = table[n]
    BY DEF Entry, n
  <2> QED  BY <2>1, <2>2, <2>3, <2>4, <2>5 DEF n
<1>2. CASE SearchExact
  <2>1. Searching /\ key = Entry(Cur) /\ hit' = Cur + 1 /\ UNCHANGED <<table, key, first, last>>
    BY <1>2 DEF SearchExact
  <2>2. Cur \in first .. last - 1
    BY <1>1, <2>1
  <2> DEFINE n == Cur + 1
  <2>3. /\ \A i \in 1 .. n : table[i] <= key
        /\ \A i \in n + 1 .. Len(table) : key < table[i]
    BY <1>1, <2>1, <2>2
  <2>4. n \in 1 .. Len(table) /\ hit' = n
    BY <2>1, <2>2
  <2> HIDE DEF n
  <2>5. \A i \in DOMAIN table : table[i] <= key <=> i <= n
    BY <2>3, <2>4
  <2> QED  BY <2>1, <2>4, <2>5
<1>3. CASE SearchLower
  <2>1. Searching /\ key < Entry(Cur) /\ last' = Cur /\ UNCHANGED <<table, key, first, hit>>
    BY <1>3 DEF SearchLower
  <2>2. /\ Cur \in first .. last - 1
        /\ \A i \in Cur + 1 .. Len(table) : key < table[i]
    BY <1>1, <2>1
  <2> QED  BY <2>1, <2>2 DEF Searching
<1>4. CASE SearchUpper
  <2>1. Searching /\ key > Entry(Cur) /\ first' = Cur + 1 /\ UNCHANGED <<table, key, last, hit>>
    BY <1>4 DEF SearchUpper
  <2>2. /\ Cur \in first .. last - 1
        /\ \A i \in 1 .. Cur + 1 : table[i] <= key
    BY <1>1, <2>1
  <2> QED  BY <2>1, <2>2 DEF Searching
<1>5. CASE SearchEnds
  <2>1. first = last
    BY <1>5 DEF SearchEnds
  <2>2. \A i \in DOMAIN table : table[i] <= key <=> i <= last
    BY <1>5, <2>1 DEF SearchEnds
  <2> QED  BY <1>5, <2>1, <2>2 DEF SearchEnds
<1>6. CASE UNCHANGED searchVars
  BY <1>6 DEF searchVars
<1> QED  BY <1>2, <1>3, <1>4, <1>5, <1>6 DEF SearchStep

\* Whatever the table and the pc, the search of the two unwind tables ends
\* with the last entry that does not start behind the pc and with no other.
THEOREM SearchCorrect ==
  ASSUME NEW t \in Seq(Int), Sorted(t), NEW pc \in Int
  PROVE  SearchInit(t, pc) /\ [][SearchStep]_searchVars => []FoundLastBefore
<1>1. SearchInit(t, pc) => SearchIInv
  BY DEF SearchInit, SearchIInv, SearchInv, FoundLastBefore
<1>2. SearchIInv => FoundLastBefore
  BY DEF SearchIInv
<1> QED  BY <1>1, <1>2, SearchStepKeeps, PTL

\* Half of what is left to search lies on either side of the middle.
LEMMA MiddleHalves ==
  ASSUME NEW a \in Nat, NEW b \in Nat, a < b
  PROVE  /\ 2 * ((a + b) \div 2 - a) <= b - a
         /\ 2 * (b - ((a + b) \div 2 + 1)) <= b - a
  OBVIOUS

\* Every step of the search ends it or leaves at most half of the entries to
\* search, so that a table of any length is searched to the end, and in as many
\* steps as its length has binary digits.
THEOREM SearchShrinks ==
  ASSUME SearchIInv, SearchStep
  PROVE  \/ hit' # -1
         \/ /\ last' - first' \in Nat
            /\ last' - first' < last - first
            /\ 2 * (last' - first') <= last - first
<1>1. CASE SearchLower
  BY <1>1, MiddleInside, MiddleHalves DEF SearchIInv, SearchInv, SearchLower, Searching, Cur
<1>2. CASE SearchUpper
  BY <1>2, MiddleInside, MiddleHalves DEF SearchIInv, SearchInv, SearchUpper, Searching, Cur
<1>3. CASE SearchExact
  <2>1. Cur \in first .. last - 1
    BY <1>3, MiddleInside DEF SearchIInv, SearchInv, SearchExact, Searching, Cur
  <2> QED  BY <1>3, <2>1 DEF SearchIInv, SearchInv, SearchExact
<1>4. CASE SearchEnds
  BY <1>4 DEF SearchIInv, SearchInv, SearchEnds
<1> QED  BY <1>1, <1>2, <1>3, <1>4 DEF SearchStep

-----------------------------------------------------------------------------
(* Maps and the ELF files in them.                                          *)

\* The maps are a list of ranges, with places in their files.
MapNumbers(image) ==
  /\ \E n \in Nat : DOMAIN image.maps = 1 .. n
  /\ \A k \in DOMAIN image.maps : image.maps[k].start \in Nat /\ image.maps[k].offset \in Nat

\* A view that a map has on its file: it begins where the code looks, and the
\* place in it of an offset in the ELF is that of the map.
ViewOfMap(image, k, m) ==
  m.view # NoView => /\ m.view.of = "file"
                     /\ m.view.name = image.maps[k].name
                     /\ m.view.name \in DOMAIN image.files
                     /\ m.view.start \in Offsets(image, k)
                     /\ m.view.start \in Nat /\ m.elfOffset \in Int
                     /\ m.view.start + m.elfOffset = image.maps[k].offset

\* A view on a file starts where it was asked to.
LEMMA FileViewIs ==
  ASSUME NEW image, NEW name, NEW size, NEW offset
  PROVE  LET view == FileView(image, name, size, offset)
         IN  view # NoView => view.of = "file" /\ view.name = name /\ view.start = offset
BY DEF FileView

\* Nothing is an ELF in no view.
LEMMA NoElfInNoView == \A image : ~ElfIsValid(image, NoView)
BY DEF ElfIsValid, ElfAt, NoView

\* tacd_memory_file_create: in all of its cases, where the ELF starts in the
\* file and how far the map is behind that fit together.
LEMMA FileCreateIs ==
  ASSUME NEW image, MapNumbers(image), NEW k \in DOMAIN image.maps
  PROVE  ViewOfMap(image, k, FileCreate(image, k))
<1> DEFINE map == image.maps[k]
           prev == image.maps[k - 1]
           inMap == FileView(image, map.name, MapSize(map), map.offset)
           whole == FileView(image, map.name, Unlimited, 0)
           View(m) == ViewOfMap(image, k, m)
<1>1. map.offset \in Nat /\ map.offset \in Offsets(image, k) /\ 0 \in Offsets(image, k)
  BY DEF MapNumbers, Offsets
<1>2. View(NotFound)
  BY DEF ViewOfMap, NotFound, Found
<1> SUFFICES ASSUME map.name \in DOMAIN image.files PROVE View(FileCreate(image, k))
  <2>1. CASE map.name \notin DOMAIN image.files
    BY <1>2, <2>1 DEF FileCreate
  <2> QED  BY <2>1
<1>3. ASSUME map.offset = 0 PROVE View(WholeFile(image, map))
  <2>1. View(Found(whole, 0, 0))
    BY <1>1, <1>3, FileViewIs DEF ViewOfMap, Found
  <2> QED  BY <1>2, <2>1 DEF WholeFile
<1>4. View(ElfInMap(image, map, inMap))
  <2> DEFINE larger == FileView(image, map.name, GetMaxSize(image, inMap), map.offset)
  <2>1. View(Found(larger, 0, map.offset)) /\ View(Found(inMap, 0, map.offset))
    BY <1>1, FileViewIs DEF ViewOfMap, Found
  <2> HIDE DEF map, inMap, View
  <2> QED  BY <2>1 DEF ElfInMap
<1>5. View(Found(whole, map.offset, 0))
  BY <1>1, FileViewIs DEF ViewOfMap, Found
<1>6. ASSUME k - 1 # 0 PROVE View(ElfFromPrevMap(image, map, prev))
  <2> DEFINE beginning == FileView(image, map.name, MapSize(prev), prev.offset)
             larger == FileView(image, map.name, GetMaxSize(image, beginning), prev.offset)
  <2>1. prev.offset \in Nat /\ prev.offset \in Offsets(image, k)
    <3>1. k - 1 \in DOMAIN image.maps
      BY <1>6 DEF MapNumbers
    <3>2. prev.offset \in Nat
      BY <3>1 DEF MapNumbers
    <3>3. prev.offset \in Offsets(image, k)
      BY <1>6 DEF Offsets, PrevMap
    <3> QED  BY <3>2, <3>3
  <2>2. View(Found(larger, map.offset - prev.offset, prev.offset))
    BY <1>1, <2>1, FileViewIs DEF ViewOfMap, Found
  <2> HIDE DEF map, prev, View
  <2> QED  BY <1>2, <2>2 DEF ElfFromPrevMap, OffsetInElf
<1> HIDE DEF inMap, whole, map, prev, View
<1> QED
  BY Zenon, <1>2, <1>3, <1>4, <1>5, <1>6 DEF FileCreate, PrevMap, inMap, whole, map, prev

\* The memory object of a map with an ELF in it: a view on the file, or on the
\* memory of the process.
LEMMA ElfOfMap ==
  ASSUME NEW image, MapNumbers(image), NEW k \in DOMAIN image.maps, NEW file \in GetElf(image, k)
  PROVE  LET m == MemoryCreate(image, k)
         IN  /\ file.view = m.view /\ file.elf = (CHOOSE e \in ElfAt(image, m.view) : TRUE)
             /\ ElfAt(image, m.view) # {}
             /\ \/ m.view # NoView /\ m.view.of = "file" /\ ViewOfMap(image, k, m)
                \/ m = Found(RemoteView(image.maps[k]), 0, 0)
             /\ Shift(image, k) = image.maps[k].start - m.elfOffset - LoadBias(file.elf)
<1> DEFINE map == image.maps[k]
           m == MemoryCreate(image, k)
<1>1. file.view = m.view /\ file.elf = (CHOOSE e \in ElfAt(image, m.view) : TRUE) /\ ElfAt(image, m.view) # {}
  BY DEF GetElf
<1>2. m.view # NoView
  BY <1>1 DEF ElfAt, NoView
<1>3. \/ m.view # NoView /\ m.view.of = "file" /\ ViewOfMap(image, k, m)
      \/ m = Found(RemoteView(map), 0, 0)
  <2>1. m = NotFound \/ m = FileCreate(image, k) \/ m = Found(RemoteView(map), 0, 0)
    BY DEF MemoryCreate
  <2>2. NotFound.view = NoView
    BY DEF NotFound, Found
  <2> HIDE DEF m, map
  <2> QED  BY <1>2, <2>1, <2>2, FileCreateIs DEF ViewOfMap, map
<1>4. Shift(image, k) = map.start - m.elfOffset - LoadBias(file.elf)
  <2>1. \A e \in GetElf(image, k) : e = file
    BY DEF GetElf
  <2>2. (CHOOSE e \in GetElf(image, k) : TRUE) = file /\ GetElf(image, k) # {}
    BY <2>1
  <2> QED  BY <2>2 DEF Shift
<1> QED  BY <1>1, <1>3, <1>4

\* tacd_memory_create and tacd_map_get_rel_pc: the byte read for an address of
\* a map, at its linked address without the load bias, is the one that the
\* process has there, whether it is read from the file or from the process, and
\* the way back from the linked address ends at the address.
THEOREM LinkedByteIsMapped ==
  ASSUME NEW image, MapNumbers(image), NEW k \in DOMAIN image.maps, NEW pc \in Int,
         NEW file \in GetElf(image, k),
         LoadBias(file.elf) \in Int
  PROVE  LET map == image.maps[k]
             relPc == RelPc(image, k, pc)
         IN  /\ AbsPc(image, k, relPc) = pc
             /\ PlaceRead(file.view, relPc - LoadBias(file.elf)) \in
                  {[of |-> "file", name |-> map.name, at |-> map.offset + (pc - map.start)],
                   [of |-> "process", name |-> NoFile, at |-> pc]}
<1> DEFINE map == image.maps[k]
           m == MemoryCreate(image, k)
           bias == LoadBias(file.elf)
<1>1. map.start \in Nat /\ map.offset \in Nat
  BY DEF MapNumbers
<1>2. file.view = m.view
  BY ElfOfMap
<1>3. \/ m.view # NoView /\ m.view.of = "file" /\ ViewOfMap(image, k, m)
      \/ m = Found(RemoteView(map), 0, 0)
  BY ElfOfMap
<1>4. Shift(image, k) = map.start - m.elfOffset - bias
  BY ElfOfMap
<1> DEFINE place == PlaceRead(file.view, RelPc(image, k, pc) - bias)
<1>7. RelPc(image, k, pc) = pc - (map.start - m.elfOffset - bias)
  BY <1>4 DEF RelPc
<1>8. place = [of |-> m.view.of, name |-> m.view.name, at |-> m.view.start + (RelPc(image, k, pc) - bias)]
  BY <1>2 DEF PlaceRead
<1>9. bias \in Int
  OBVIOUS
<1> HIDE DEF m, map, bias, place
<1>10. CASE m.view # NoView /\ m.view.of = "file" /\ ViewOfMap(image, k, m)
  <2>1. /\ m.view.name = map.name /\ m.view.start \in Nat /\ m.elfOffset \in Int
        /\ m.view.start + m.elfOffset = map.offset
    BY <1>10 DEF ViewOfMap, map
  <2>2. m.view.start + (RelPc(image, k, pc) - bias) = map.offset + (pc - map.start)
    BY <1>1, <1>7, <1>9, <2>1
  <2>3. AbsPc(image, k, RelPc(image, k, pc)) = pc
    BY <1>1, <1>4, <1>7, <1>9, <2>1 DEF AbsPc
  <2> QED  BY <1>8, <1>10, <2>1, <2>2, <2>3 DEF place, map, bias
<1>11. CASE m = Found(RemoteView(map), 0, 0)
  <2>1. m.view.of = "process" /\ m.view.name = NoFile /\ m.view.start = map.start /\ m.elfOffset = 0
    BY <1>11 DEF Found, RemoteView
  <2>2. m.view.start + (RelPc(image, k, pc) - bias) = pc
    BY <1>1, <1>7, <1>9, <2>1
  <2>3. AbsPc(image, k, RelPc(image, k, pc)) = pc
    BY <1>1, <1>4, <1>7, <1>9, <2>1 DEF AbsPc
  <2> QED  BY <1>8, <2>1, <2>2, <2>3 DEF place, map, bias
<1> QED  BY <1>3, <1>10, <1>11

\* The ELF of a map is one that begins where the code looks for a beginning.
LEMMA BeginningIs ==
  ASSUME NEW image, MapNumbers(image), NEW k \in DOMAIN image.maps, NEW file \in GetElf(image, k)
  PROVE  \E b \in Beginnings(image, k) :
           /\ b.elf = file.elf
           /\ Shift(image, k) = image.maps[k].start - b.before - LoadBias(b.elf)
<1> DEFINE map == image.maps[k]
           m == MemoryCreate(image, k)
           elfs == IF map.name \in DOMAIN image.files THEN image.files[map.name].elfs ELSE <<>>
           Of(e, before) == [elf |-> e, before |-> before]
<1>1. /\ file.elf = (CHOOSE e \in ElfAt(image, m.view) : TRUE)
      /\ ElfAt(image, m.view) # {}
      /\ Shift(image, k) = map.start - m.elfOffset - LoadBias(file.elf)
  BY ElfOfMap
<1>2. CASE m.view # NoView /\ m.view.of = "file" /\ ViewOfMap(image, k, m)
  <2>1. /\ m.view.name = map.name /\ map.name \in DOMAIN image.files
        /\ m.view.start \in Offsets(image, k)
        /\ m.view.start \in Nat /\ m.elfOffset \in Int /\ m.view.start + m.elfOffset = map.offset
    BY <1>2 DEF ViewOfMap
  <2>2. elfs = image.files[map.name].elfs
    BY <2>1
  <2>3. ElfAt(image, m.view) = IF m.view.start \in DOMAIN elfs THEN {elfs[m.view.start]} ELSE {}
    BY <1>2, <2>1, <2>2 DEF ElfAt
  <2>4. m.view.start \in DOMAIN elfs /\ file.elf = elfs[m.view.start]
    BY <1>1, <2>3
  <2>5. map.offset \in Nat
    BY DEF MapNumbers
  <2>6. m.elfOffset = map.offset - m.view.start
    BY <2>1, <2>5
  <2>7. Of(elfs[m.view.start], map.offset - m.view.start) \in Beginnings(image, k)
    BY <2>1, <2>4 DEF Beginnings
  <2>8. Of(elfs[m.view.start], map.offset - m.view.start) = Of(file.elf, m.elfOffset)
    BY <2>4, <2>6
  <2> HIDE DEF m, elfs
  <2>9. Of(file.elf, m.elfOffset).elf = file.elf /\ Of(file.elf, m.elfOffset).before = m.elfOffset
    OBVIOUS
  <2> HIDE DEF Of
  <2> QED  BY Zenon, <1>1, <2>7, <2>8, <2>9
<1>3. CASE m = Found(RemoteView(map), 0, 0)
  <2>1. m.view.of = "process" /\ m.view.start = map.start /\ m.elfOffset = 0
    BY <1>3 DEF Found, RemoteView
  <2>2. map.start \in DOMAIN image.memory /\ file.elf = image.memory[map.start]
    BY <1>1, <2>1 DEF ElfAt
  <2>3. Of(image.memory[map.start], 0) \in Beginnings(image, k)
    BY <2>2 DEF Beginnings
  <2>4. Of(file.elf, 0) \in Beginnings(image, k)
    BY <2>2, <2>3
  <2> HIDE DEF m
  <2>5. Of(file.elf, 0).elf = file.elf /\ Of(file.elf, 0).before = 0
    OBVIOUS
  <2> HIDE DEF Of
  <2> QED  BY Zenon, <1>1, <2>1, <2>4, <2>5
<1> QED  BY <1>2, <1>3, ElfOfMap

\* The map found for an address is the one that it lies in.
LEMMA MapFound ==
  ASSUME NEW image, MapsApart(image), NEW pc \in Int
  PROVE  /\ FindMap(image, pc) # 0 => FindMap(image, pc) \in DOMAIN image.maps
         /\ \A k \in DOMAIN image.maps :
              image.maps[k].start <= pc /\ pc < image.maps[k].end => FindMap(image, pc) = k
<1> DEFINE hits == {k \in DOMAIN image.maps : pc >= image.maps[k].start /\ pc < image.maps[k].end}
<1>1. \A k \in DOMAIN image.maps : k \in Nat /\ image.maps[k].start \in Nat /\ image.maps[k].end \in Nat
  BY DEF MapsApart
<1>2. \A k, h \in hits : k = h
  <2> SUFFICES ASSUME NEW k \in hits, NEW h \in hits, k # h PROVE FALSE
    OBVIOUS
  <2>1. image.maps[h].end <= image.maps[k].start \/ image.maps[k].end <= image.maps[h].start
    BY DEF MapsApart
  <2> QED  BY <1>1, <2>1
<1>3. \A k \in hits : hits = {k} /\ k <= k
  BY <1>1, <1>2
<1>4. \A k \in hits : (CHOOSE n \in hits : \A h \in hits : n <= h) = k
  BY <1>3
<1>5. FindMap(image, pc) = IF hits = {} THEN 0 ELSE CHOOSE n \in hits : \A h \in hits : n <= h
  BY DEF FindMap
<1>6. \A k \in hits : FindMap(image, pc) = k
  BY <1>4, <1>5
<1>7. ASSUME NEW k \in DOMAIN image.maps, image.maps[k].start <= pc /\ pc < image.maps[k].end
      PROVE  k \in hits
  BY <1>1, <1>7
<1>8. hits \subseteq DOMAIN image.maps /\ (hits = {} => FindMap(image, pc) = 0)
  BY <1>5
<1> HIDE DEF hits
<1> QED  BY <1>6, <1>7, <1>8

\* The numbers of maps that are apart.
LEMMA ApartNumbers == ASSUME NEW image, MapsApart(image) PROVE MapNumbers(image)
BY DEF MapsApart, MapNumbers

\* tacd_regs_get_adjust_pc: the pc of a frame that has called goes back into
\* the instruction of the call.
LEMMA AdjustedPc ==
  ASSUME NEW j, j.pc \in Int, j.base \in Int, j.later, NEW e, LoadBias(e) \in Nat, StandsIn(j, e)
  PROVE  /\ PcAdjustment(e, j.pc - j.base) \in Int
         /\ j.pc - PcAdjustment(e, j.pc - j.base) \in j.bytes
<1> DEFINE bias == LoadBias(e)
           relPc == j.pc - j.base
           place == relPc - bias
           adjustment == PcAdjustment(e, relPc)
<1>1. PICK width \in {2, 4}, thumb \in {0, 1} :
        LET address == j.pc - thumb - width
            callee == address - j.base - LoadBias(e)
        IN  /\ j.bytes = {address + n : n \in 0 .. width - 1}
            /\ callee \in Nat /\ callee % 2 = 0
            /\ thumb = 0 => width = 4
            /\ thumb = 1 => IF width = 4 THEN callee \in e.wide ELSE callee - 2 \notin e.wide
  BY DEF StandsIn
<1> DEFINE callee == j.pc - thumb - width - j.base - bias
<1>2. callee \in Nat /\ callee % 2 = 0 /\ bias \in Nat /\ relPc \in Int /\ place \in Int
  BY <1>1
<1>3. place = callee + thumb + width /\ relPc = place + bias
  BY <1>2
<1>4. adjustment =
        CASE relPc < 2 \/ place \in 0 .. 1 -> 0
          [] relPc >= 2 /\ (place < 0 \/ place \in 2 .. 4) -> 2
          [] relPc >= 2 /\ place > 4 -> IF place % 2 = 1 /\ place - 5 \notin e.wide THEN 2 ELSE 4
  BY DEF PcAdjustment
<1>5. j.bytes = {j.pc - thumb - width + n : n \in 0 .. width - 1}
  BY <1>1
<1>6. /\ thumb = 0 => width = 4
      /\ thumb = 1 /\ width = 4 => callee \in e.wide
      /\ thumb = 1 /\ width = 2 => callee - 2 \notin e.wide
  BY <1>1
<1> HIDE DEF bias, relPc, place, callee, adjustment
<1>7. relPc >= 2 /\ place >= 3
  BY <1>2, <1>3, <1>6
<1>8. CASE thumb = 0
  <2>1. width = 4 /\ place = callee + 4
    BY <1>2, <1>3, <1>6, <1>8
  <2>2. place % 2 = 0
    BY <1>2, <2>1
  <2>3. adjustment \in {2, 4}
    BY <1>2, <1>4, <1>7, <2>2
  <2>4. j.pc - adjustment = j.pc - thumb - width + (4 - adjustment) /\ 4 - adjustment \in 0 .. width - 1
    BY <1>8, <2>1, <2>3
  <2> QED  BY <1>5, <2>3, <2>4 DEF adjustment, relPc
<1>9. CASE thumb = 1 /\ width = 4
  <2>1. place = callee + 5
    BY <1>2, <1>3, <1>9
  <2>2. place > 4 /\ place - 5 = callee
    BY <1>2, <2>1
  <2>3. adjustment = 4
    BY <1>2, <1>4, <1>6, <1>7, <1>9, <2>2
  <2>4. j.pc - adjustment = j.pc - thumb - width + 1 /\ 1 \in 0 .. width - 1
    BY <1>9, <2>3
  <2> QED  BY <1>5, <2>3, <2>4 DEF adjustment, relPc
<1>10. CASE thumb = 1 /\ width = 2
  <2>1. place = callee + 3
    BY <1>2, <1>3, <1>10
  <2>2. place % 2 = 1 /\ place - 5 = callee - 2
    BY <1>2, <2>1
  <2>3. adjustment = 2
    BY <1>2, <1>4, <1>6, <1>7, <1>10, <2>2
  <2>4. j.pc - adjustment = j.pc - thumb - width + 1 /\ 1 \in 0 .. width - 1
    BY <1>10, <2>3
  <2> QED  BY <1>5, <2>3, <2>4 DEF adjustment, relPc
<1> QED  BY <1>8, <1>9, <1>10

-----------------------------------------------------------------------------
(* The step from a pc to the frame of its caller.                            *)

\* What a search goes by, and what it has found so far.
UnwindIInv ==
  /\ job \in Jobs
  /\ phase = "locate" => elf = {}
  /\ phase \in {"section", "search", "apply"} => elf # {}
  /\ elf # {} => stepPc \in Int /\ LoadBias(Elf) \in Nat /\ SortedTables(Elf, job.arm)
  /\ section \in Nat \ {0}
  /\ LinkedAddress
  /\ SearchIInv

\* tacd_frames_load: the ELF and the pc that a step begins with.
LEMMA LocateLinks ==
  ASSUME job \in Jobs, Locate, elf' # {}
  PROVE  /\ stepPc' \in Int /\ LoadBias(Elf)' \in Nat /\ SortedTables(Elf', job.arm)
         /\ LinkedAddress'
<1> DEFINE image == job.image
           k == FindMap(image, job.pc)
           relPc == RelPc(image, k, job.pc)
           map == image.maps[k]
<1>1. /\ job' = job
      /\ elf' = IF k = 0 THEN {} ELSE GetElf(image, k)
      /\ stepPc' = CASE k = 0               -> job.pc
                     [] k > 0 /\ ~job.later -> relPc
                     [] k > 0 /\ job.later /\ elf' = {} -> relPc - 2
                     [] k > 0 /\ job.later /\ elf' # {} -> relPc - PcAdjustment(OneOf(elf').elf, relPc)
  BY DEF Locate
<1>2. k # 0 /\ elf' = GetElf(image, k)
  BY <1>1
<1>3. job.pc \in Int /\ job.base \in Int /\ job.later \in BOOLEAN /\ MapsApart(image)
  BY JobAssumption
<1>4. MapNumbers(image) /\ k \in DOMAIN image.maps /\ k > 0
  <2>1. k \in DOMAIN image.maps
    BY <1>2, <1>3, MapFound
  <2>2. DOMAIN image.maps = 1 .. Len(image.maps) /\ Len(image.maps) \in Nat
    BY <1>3 DEF MapsApart
  <2>3. MapNumbers(image)
    BY <1>3, ApartNumbers
  <2> HIDE DEF k, image
  <2> QED  BY <2>1, <2>2, <2>3
<1>5. /\ \A a \in job.bytes : map.start <= a /\ a < map.end
      /\ \A b \in Beginnings(image, k) :
           LoadedAt(b, map, job.base) /\ StandsIn(job, b.elf) /\ SortedTables(b.elf, job.arm)
  BY <1>2, JobAssumption
<1> DEFINE one == OneOf(elf')
<1>6. one \in GetElf(image, k)
  BY <1>2 DEF OneOf
<1>7. PICK b \in Beginnings(image, k) : b.elf = one.elf /\ Shift(image, k) = map.start - b.before - LoadBias(b.elf)
  BY <1>4, <1>6, BeginningIs
<1>8. /\ LoadBias(one.elf) \in Nat /\ StandsIn(job, one.elf) /\ SortedTables(one.elf, job.arm)
      /\ Shift(image, k) = job.base
  BY <1>5, <1>7 DEF LoadedAt
<1>9. relPc = job.pc - job.base
  BY <1>8 DEF RelPc
<1>10. stepPc' \in Int /\ stepPc' + job.base \in job.bytes
  <2>1. CASE ~job.later
    <3>1. stepPc' = job.pc - job.base
      BY <1>1, <1>4, <1>9, <2>1
    <3>2. job.pc \in job.bytes
      BY <1>8, <2>1 DEF StandsIn
    <3>3. stepPc' \in Int /\ stepPc' + job.base = job.pc
      BY <1>3, <3>1
    <3> QED  BY <3>2, <3>3
  <2>2. CASE job.later
    <3> DEFINE adjustment == PcAdjustment(one.elf, job.pc - job.base)
    <3>1. stepPc' = job.pc - job.base - adjustment
      BY <1>1, <1>4, <1>9, <2>2
    <3>2. adjustment \in Int /\ job.pc - adjustment \in job.bytes
      BY <1>3, <1>8, <2>2, AdjustedPc
    <3> HIDE DEF adjustment
    <3>3. stepPc' \in Int /\ stepPc' + job.base = job.pc - adjustment
      BY <1>3, <3>1, <3>2
    <3> QED  BY <3>2, <3>3
  <2> QED  BY <1>3, <2>1, <2>2
<1> DEFINE address == stepPc' + job.base
<1>11. address \in Int /\ map.start <= address /\ address < map.end
  BY <1>3, <1>5, <1>10
<1>12. FindMap(image, address) = k
  BY <1>3, <1>4, <1>11, MapFound
<1>13. stepPc' = RelPc(image, k, address)
  BY <1>3, <1>8, <1>10 DEF RelPc
<1>14. PlaceRead(one.view, stepPc' - LoadBias(one.elf)) \in PlacesMapped(image, address)
  <2>1. PlaceRead(one.view, RelPc(image, k, address) - LoadBias(one.elf)) \in
          {[of |-> "file", name |-> map.name, at |-> map.offset + (address - map.start)],
           [of |-> "process", name |-> NoFile, at |-> address]}
    BY <1>4, <1>6, <1>8, <1>11, LinkedByteIsMapped
  <2> QED  BY <1>12, <1>13, <2>1 DEF PlacesMapped
<1> QED  BY <1>1, <1>8, <1>10, <1>14 DEF Elf, LinkedAddress

\* The sections to try are a sequence, whatever could be read of the headers.
LEMMA SectionsAreSequence ==
  ASSUME NEW e, NEW headers, NEW arm
  PROVE  /\ Len(Sections(e, headers, arm)) \in Nat
         /\ DOMAIN Sections(e, headers, arm) = 1 .. Len(Sections(e, headers, arm))
<1> DEFINE info == IF headers THEN e.info ELSE FromSegments(e.info)
           S == {OneOf(info.debugFrame), OneOf(EhFrame(info)), OneOf(e.gnu.debugFrame),
                 OneOf(EhFrame(e.gnu)), OneOf(e.exidx)}
           own == DwarfSections(info)
           mini == IF headers THEN DwarfSections(e.gnu) ELSE <<>>
           exidx == ExidxSections(e, arm)
<1>1. ASSUME NEW set, OneOf(set) \in S PROVE AsSequence(set) \in Seq(S)
  <2> HIDE DEF S
  <2>1. <<>> \in Seq(S) /\ <<OneOf(set)>> \in Seq(S)
    BY <1>1
  <2> QED  BY <2>1 DEF AsSequence
<1>2. /\ AsSequence(info.debugFrame) \in Seq(S) /\ AsSequence(EhFrame(info)) \in Seq(S)
      /\ AsSequence(e.gnu.debugFrame) \in Seq(S) /\ AsSequence(EhFrame(e.gnu)) \in Seq(S)
      /\ AsSequence(e.exidx) \in Seq(S) /\ <<>> \in Seq(S)
  BY <1>1
<1>3. Sections(e, headers, arm) = own \o mini \o exidx
  BY DEF Sections
<1> HIDE DEF S, info
<1>4. own \in Seq(S) /\ DwarfSections(e.gnu) \in Seq(S) /\ exidx \in Seq(S)
  BY <1>2 DEF DwarfSections, ExidxSections
<1>5. mini \in Seq(S)
  BY <1>2, <1>4
<1> HIDE DEF own, mini, exidx
<1>6. own \o mini \in Seq(S)
  BY <1>4, <1>5
<1>7. own \o mini \o exidx \in Seq(S)
  BY <1>4, <1>6
<1> QED  BY <1>3, <1>7

\* A search begins in a sorted table, with all of it left to search.
LEMMA BeginSearchInv ==
  ASSUME UnwindIInv, BeginSearch
  PROVE  SearchIInv'
<1> DEFINE s == ThisSection
           headers == HeadersRead(OneOf(elf))
<1>1. /\ headers \in BOOLEAN
      /\ section \in DOMAIN Sections(Elf, headers, job.arm) /\ s.type \in {"eh_frame_hdr", "exidx"}
      /\ elf # {} /\ s = Sections(Elf, headers, job.arm)[section]
  <2>1. /\ section <= Len(ElfSections) /\ s.type \in {"eh_frame_hdr", "exidx"}
        /\ elf # {} /\ section \in Nat \ {0}
    BY DEF UnwindIInv, BeginSearch
  <2>2. headers \in BOOLEAN
    BY DEF HeadersRead
  <2> QED  BY <2>1, <2>2, SectionsAreSequence DEF ThisSection, ElfSections
<1> HIDE DEF headers
<1>2. Starts(s) \in Seq(Int) /\ Sorted(Starts(s))
  BY <1>1 DEF UnwindIInv, SortedTables
<1>3. key' \in Int
  BY <1>1 DEF BeginSearch, UnwindIInv, ExidxPc
<1>4. table' = Starts(s) /\ first' = 0 /\ last' = Len(Starts(s)) /\ hit' = -1
  BY DEF BeginSearch
<1> HIDE DEF s
<1> QED  BY <1>2, <1>3, <1>4 DEF SearchIInv, SearchInv, FoundLastBefore

\* Of the other actions none disturbs what a search goes by.
LEMMA UnwindNextInv ==
  ASSUME UnwindIInv, [UnwindNext]_unwindVars
  PROVE  UnwindIInv'
<1>1. CASE Locate
  <2>1. /\ job' = job /\ section' = section /\ UNCHANGED searchVars
        /\ phase' = IF elf' = {} THEN "done" ELSE "section"
    BY <1>1 DEF Locate
  <2>2. SearchIInv'
    BY <2>1, SearchStepKeeps DEF UnwindIInv
  <2>3. elf' = {} => LinkedAddress'
    BY DEF LinkedAddress
  <2>4. elf' # {} => /\ stepPc' \in Int /\ LoadBias(Elf)' \in Nat /\ SortedTables(Elf', job.arm)
                     /\ LinkedAddress'
    BY <1>1, LocateLinks DEF UnwindIInv
  <2> QED  BY <2>1, <2>2, <2>3, <2>4 DEF UnwindIInv
<1> DEFINE Kept == /\ job' = job /\ elf' = elf /\ stepPc' = stepPc
                   /\ section' \in Nat \ {0}
                   /\ \/ phase' = phase \/ phase' = "done"
                      \/ {phase, phase'} \subseteq {"section", "search", "apply"}
<1>2. ASSUME Kept, SearchIInv' PROVE UnwindIInv'
  <2>1. LinkedAddress' <=> LinkedAddress
    BY <1>2 DEF LinkedAddress, Elf
  <2>2. (phase' = "locate" => elf' = {}) /\ (phase' \in {"section", "search", "apply"} => elf' # {})
    BY <1>2 DEF UnwindIInv
  <2> QED  BY <1>2, <2>1, <2>2 DEF UnwindIInv, Elf
<1>3. CASE BeginSearch
  <2>1. Kept
    BY <1>3 DEF BeginSearch, UnwindIInv
  <2> QED  BY <1>2, <1>3, <2>1, BeginSearchInv
<1>4. CASE Search
  <2>1. Kept
    BY <1>4 DEF Search, UnwindIInv
  <2>2. SearchStep /\ SearchIInv
    BY <1>4 DEF Search, UnwindIInv
  <2> HIDE DEF Kept
  <2> QED  BY <1>2, <2>1, <2>2, SearchStepKeeps
<1>5. CASE NoSection \/ FindFde \/ Apply \/ UNCHANGED unwindVars
  <2>1. UNCHANGED searchVars
    BY <1>5 DEF NoSection, FindFde, Apply, unwindVars
  <2>2. SearchIInv'
    BY <2>1, SearchStepKeeps DEF UnwindIInv
  <2>3. section' \in Nat \ {0}
    <3>1. section' = section \/ section' = section + 1
      BY <1>5 DEF NoSection, FindFde, Apply, unwindVars
    <3> QED  BY <3>1 DEF UnwindIInv
  <2>4. CASE NoSection
    BY <1>2, <2>2, <2>3, <2>4 DEF NoSection
  <2>5. CASE FindFde
    BY <1>2, <2>2, <2>3, <2>5 DEF FindFde
  <2>6. CASE Apply
    <3>1. /\ job' = job /\ elf' = elf /\ stepPc' = stepPc
          /\ phase = "apply" /\ phase' \in {"done", "section"}
      BY <2>6 DEF Apply
    <3> QED  BY <1>2, <2>2, <2>3, <3>1
  <2>7. CASE UNCHANGED unwindVars
    BY <1>2, <2>2, <2>3, <2>7 DEF unwindVars
  <2> QED  BY <1>5, <2>4, <2>5, <2>6, <2>7
<1> QED  BY <1>1, <1>3, <1>4, <1>5 DEF UnwindNext, Unwound

\* The strengthened invariant holds in every state of a step.
THEOREM UnwindInvariant == UnwindSpec => []UnwindIInv
<1>1. UnwindInit => UnwindIInv
  <2> SUFFICES ASSUME UnwindInit PROVE UnwindIInv
    OBVIOUS
  <2>1. table = <<>> /\ key = 0 /\ first = 0 /\ last = 0 /\ hit = -1
    BY DEF UnwindInit, SearchInit
  <2>2. table \in Seq(Int) /\ Sorted(table)
    BY <2>1 DEF Sorted
  <2>3. SearchIInv
    BY <2>1, <2>2 DEF SearchIInv, SearchInv, FoundLastBefore
  <2>4. job \in Jobs /\ phase = "locate" /\ elf = {} /\ section = 1
    BY DEF UnwindInit
  <2> QED  BY <2>3, <2>4 DEF UnwindIInv, LinkedAddress
<1>2. UnwindIInv /\ [UnwindNext]_unwindVars => UnwindIInv'
  BY UnwindNextInv
<1> QED  BY <1>1, <1>2, PTL DEF UnwindSpec

\* However a file is linked, cut into segments and mapped, alone or in another
\* file, the pc of a frame becomes the address that the linker gave to the
\* instruction the thread is in, or has called from, and what is read from the
\* ELF for it is what the process has mapped there.
THEOREM StepPcLinked == UnwindSpec => []LinkedAddress
BY UnwindInvariant, PTL DEF UnwindIInv

\* Every search of a step ends with the last entry that does not start behind
\* the pc, in the table of whichever section is tried.
THEOREM StepFindsEntry == UnwindSpec => []FoundLastBefore
BY UnwindInvariant, PTL DEF UnwindIInv, SearchIInv
=============================================================================
