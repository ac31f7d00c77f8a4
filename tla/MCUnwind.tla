-------------------------------- MODULE MCUnwind --------------------------------
(***************************************************************************)
(* The unwinder against functions whose caller is known.  A function is      *)
(* linked between two others, with a gap before it, put into an ELF file     *)
(* with some unwind section, and mapped in one of the ways a process does.   *)
(* Every place of it where a thread may stand is one job.  Beside these steps *)
(* the walks over a whole stack, where a step finds anything.                *)
(***************************************************************************)
EXTENDS ElfUnwind, FrameWalk, Callee, TLC

-----------------------------------------------------------------------------
(* The functions.                                                            *)

Neighbour == <<PushRegs({4, 5}), Sub(3), Lose(4), Lose(5), Lose(0), Lose(14), AddSp(3), PopRegs({4, 5})>>

Functions == [
  leaf    |-> <<Lose(0)>>,
  plain   |-> <<PushRegs({4, 14}), Lose(4), Call, PopRegs({4, 15})>>,
  noreturn |-> <<PushRegs({4, 5, 14}), Lose(5), Lose(4), Call>>,
  frame   |-> <<PushRegs({4, 5, 7, 14}), SetFp, Sub(130), Lose(4), Call, SpFromFp, PopRegs({4, 5, 7, 15})>>,
  vector  |-> <<PushRegs({4, 14}), Vpush(2), Sub(133), Call, Lose(4), AddSp(137), PopRegs({4, 15})>>,
  scratch |-> <<PushRegs({0}), PushRegs({7, 14}), Lose(7), Sub(2), Call, AddSp(2), PopRegs({7, 15})>>,
  moved   |-> <<Move(14, 0), Lose(14), PushRegs({4}), Call, PopRegs({4})>>,
  early   |-> <<PushRegs({4, 7, 14}), Lose(4), Mark, PopRegs({4, 7, 15}), Back, Lose(7), Call, PopRegs({4, 7, 15})>> ]

Return == 3001
\* The frame of the caller has words of its own, which are no one's registers.
CallerFrame == {3000 + 4 * n : n \in 0 .. 9}
Entry0 == [regs |-> [r \in MachineRegs |-> IF r = 13 THEN 3000 ELSE IF r = 14 THEN Return ELSE 100 + r],
           mem |-> [a \in CallerFrame |-> 1], saved |-> <<>>]
Saved == {4, 5, 7}
CallerRegs == [r \in Saved \cup {13, 15} |-> IF r = 15 THEN Return ELSE Entry0.regs[r]]
Caller == [out |-> "ok", regs |-> CallerRegs]
EndOfStack == [out |-> "finished", regs |-> <<>>]
NoneThere == [out |-> "failed", regs |-> <<>>]

\* A slot of a procedure linkage table: the words on the stack are told apart
\* by the pc, with an expression, and the return address is on the stack.
PltAt(pc) == [regs |-> [Entry0.regs EXCEPT ![13] = IF pc % 16 >= 11 THEN 2992 ELSE 2996],
              mem |-> [a \in {2992, 2996} \cup CallerFrame |-> IF a = 2996 THEN Return ELSE 1]]
PltCfa == <<[op |-> "breg", reg |-> 13, arg |-> 4], [op |-> "breg", reg |-> 15, arg |-> 0],
            [op |-> "lit", arg |-> 15], [op |-> "and"], [op |-> "lit", arg |-> 11], [op |-> "ge"],
            [op |-> "lit", arg |-> 2], [op |-> "shl"], [op |-> "plus"]>>

-----------------------------------------------------------------------------
(* Linking.  Text starts at a place of the file; bias is what its addresses  *)
(* are above that.                                                           *)

TextPlace == 64
GapPlace == TextPlace + 16
Start == TextPlace + 32      \* of the function, in the file
CieArm == [instrs |-> <<[op |-> "def_cfa", reg |-> 13, arg |-> 0]>>, code |-> 2, data |-> -4, ra |-> 14]
CiePlt == [instrs |-> <<[op |-> "def_cfa", reg |-> 13, arg |-> 4], [op |-> "offset", reg |-> 15, arg |-> 1]>>,
           code |-> 1, data |-> -4, ra |-> 15]

\* The same rules in the signed instructions.
Signed(cfi) ==
  [k \in DOMAIN cfi |->
    CASE cfi[k].op = "offset" -> [cfi[k] EXCEPT !.op = "offset_extended_sf"]
      [] cfi[k].op = "def_cfa_offset" -> [op |-> "def_cfa_offset_sf", arg |-> -(cfi[k].arg \div 4)]
      [] cfi[k].op = "def_cfa" -> [cfi[k] EXCEPT !.op = "def_cfa_sf", !.arg = -(@ \div 4)]
      [] OTHER -> cfi[k]]

\* What is linked: place, size, and its unwind information.
Item(place, size, cie, cfi, exidx) == [place |-> place, size |-> size, cie |-> cie, cfi |-> cfi, exidx |-> exidx]
CodeItem(place, code) == Item(place, Bytes(code), CieArm, CfiProgram(code), ExidxBytes(code))
CantUnwind == <<256>>   \* no byte: the word that refuses to unwind
Plt == Item(Start, 16, CiePlt, <<[op |-> "def_cfa_expression", arg |-> PltCfa, end |-> 0]>>, <<>>)
Outermost == Item(Start, 4, CieArm, <<[op |-> "undefined", reg |-> 14]>>, CantUnwind)
Items(name) ==
  LET item == CASE name = "plt" -> Plt
                [] name = "outermost" -> Outermost
                [] OTHER -> CodeItem(Start, Functions[name])
  IN  <<CodeItem(TextPlace, Neighbour), item, CodeItem(Start + item.size, Neighbour)>>

SectionPlace == 320
Field(n) == SectionPlace + 64 + 32 * n
RawFde(item, encoding, bias, rbias, n) ==
  [encoding |-> encoding, field |-> Field(n), range |-> item.size, cie |-> item.cie, instrs |-> item.cfi,
   next |-> [op |-> "nop"], start |-> 0,
   stored |-> item.place + bias - (IF encoding = "pcrel" THEN Field(n) + rbias ELSE 0)]
Fdes(items, encoding, bias, rbias) == [n \in DOMAIN items |-> RawFde(items[n], encoding, bias, rbias, n)]
Section(type, bias, hdrBias, starts, fdes) ==
  [type |-> type, offset |-> SectionPlace, bias |-> bias, hdrBias |-> hdrBias, table |-> starts, fdes |-> fdes]

DebugFrame(items, bias) == {Section("debug_frame", 0, 0, <<>>, Fdes(items, "absptr", bias, 0))}

\* With a segment of its own the read-only data has addresses of its own.
RoBias(bias) == IF bias = 0 THEN 0 ELSE 8
EhFrameOf(items, bias) ==
  {Section("eh_frame", RoBias(bias), 0, <<>>, Fdes(items, "pcrel", bias, RoBias(bias)))}
EhFrameHdrOf(items, bias) ==
  {Section("eh_frame_hdr", RoBias(bias), RoBias(bias),
           [n \in DOMAIN items |-> items[n].place + bias - (SectionPlace + RoBias(bias))],
           Fdes(items, "pcrel", bias, RoBias(bias)))}

ExidxEntry(bytes) ==
  LET words == (Len(bytes) + 1) \div 4
      padded(n) == bytes \o [k \in 1 .. n - Len(bytes) |-> FinishOp]
  IN  IF bytes = CantUnwind THEN [kind |-> "cantunwind", index |-> 0, words |-> 0, bytes |-> <<>>]
      ELSE IF Len(bytes) <= 3 THEN [kind |-> "inline", index |-> 0, words |-> 0, bytes |-> padded(3)]
      ELSE [kind |-> "compact", index |-> 1, words |-> words, bytes |-> padded(2 + 4 * words)]
ExidxOf(items) ==
  {[type |-> "exidx", offset |-> SectionPlace,
    entries |-> [n \in DOMAIN items |->
      ExidxEntry(items[n].exidx) @@ [stored |-> items[n].place - (SectionPlace + 8 * (n - 1))]]]}

SectionsEnd == 600
Vias == {"debug", "signed", "hdr", "linear", "gnu", "exidx", "last"}

\* Where the four bytes of a call are.
Calls(name) ==
  IF name \notin DOMAIN Functions THEN {}
  ELSE {Start + Bytes(SubSeq(Functions[name], 1, n - 1)) : n \in Positions(Functions[name], {"call"})}

Linked(items, calls, via, bias) ==
  LET others == <<items[1], items[3]>>
  IN  [segments |-> IF bias = 0 THEN <<[flags |-> {"r", "x"}, vaddr |-> 0, offset |-> 0]>>
                    ELSE <<[flags |-> {"r"}, vaddr |-> 0, offset |-> 0],
                           [flags |-> {"r", "x"}, vaddr |-> TextPlace + bias, offset |-> TextPlace]>>,
       sections |-> SectionsEnd,
       wide |-> calls,
       info |-> [debugFrame |-> CASE via = "debug" -> DebugFrame(items, bias)
                                  [] via = "signed" -> DebugFrame([n \in DOMAIN items |->
                                       [items[n] EXCEPT !.cfi = Signed(@)]], bias)
                                  [] via \in {"gnu", "last"} -> DebugFrame(others, bias)
                                  [] OTHER -> {},
                 ehFrameHdr |-> CASE via = "hdr" -> EhFrameHdrOf(items, bias)
                                  [] via = "last" -> EhFrameHdrOf(others, bias)
                                  [] OTHER -> {},
                 ehFrame |-> CASE via = "linear" -> EhFrameOf(items, bias)
                               [] via = "hdr" -> EhFrameOf(items, bias)
                               [] OTHER -> {}],
       gnu |-> IF via = "gnu" THEN [NoInfo EXCEPT !.debugFrame = DebugFrame(items, bias)] ELSE NoInfo,
       exidx |-> IF via \in {"exidx", "last"} THEN ExidxOf(items) ELSE {}]

-----------------------------------------------------------------------------
(* Mapping: a file of its own, part of a larger one or memory of the process  *)
(* only; in one map or, with a segment of read-only data, in two; with the    *)
(* section headers in it or without: stripped, or not loaded.                 *)

Base == 512
Layouts == [kind : {"own", "apk"}, split : BOOLEAN, headers : BOOLEAN]
             \cup [kind : {"memory"}, split : {FALSE}, headers : BOOLEAN]
BiasOf(layout) == IF layout.split THEN 64 ELSE 0
Map(start, end, offset, flags, name) ==
  [start |-> start, end |-> end, offset |-> offset, flags |-> flags, name |-> name, device |-> FALSE]
Inside == 128   \* where the ELF starts in a larger file

Image(e, layout) ==
  LET bias == BiasOf(layout)
      inMemory == layout.kind = "memory"
      offset == IF layout.kind = "apk" THEN Inside ELSE 0
      name == IF inMemory THEN "[vdso]" ELSE "lib"
      text == Base + TextPlace + bias
      put == IF layout.headers THEN e ELSE [e EXCEPT !.sections = 0]
      end == Base + (IF inMemory /\ layout.headers THEN SectionsEnd ELSE SectionsEnd - 40)
      other == Map(0, Base - 64, 0, {"r"}, "other")
  IN  [maps |-> IF ~layout.split THEN <<other, Map(Base, end, offset, {"r", "x"}, name)>>
                ELSE <<other, Map(Base, Base + TextPlace, offset, {"r"}, name),
                       Map(text, text + 128, offset + TextPlace, {"r", "x"}, name)>>,
       files |-> [f \in {"lib"} |-> [size |-> 1024, elfs |-> offset :> put]],
       memory |-> IF inMemory THEN Base :> e ELSE [a \in {} |-> e]]

-----------------------------------------------------------------------------

\* A place where a thread may stand: the function, what describes and what maps
\* it, the place in the file, the state there, whether the frame was called from,
\* and what is expected.
StandAt(name, via, layout, place, later, width, state, want) ==
  [name |-> name, via |-> via, layout |-> layout, place |-> place, later |-> later,
   width |-> width, state |-> state, want |-> want]

Stands == [name : DOMAIN Functions, via : Vias, layout : Layouts, n : 1 .. 8, later : BOOLEAN]
\* ARM ELF files of two segments have .ARM.exidx beside the text.
Real(j, code) ==
  /\ j.n \in DOMAIN code
  /\ Size(code[j.n]) > 0
  /\ j.later => code[j.n].op = "call"
  /\ j.via \in {"exidx", "last"} => j.name # "moved" /\ Settled(code, j.n)
CodeStand(j, code, before) ==
  StandAt(j.name, j.via, j.layout, Start + Bytes(SubSeq(code, 1, j.n - 1)), j.later, Size(code[j.n]),
         IF j.later THEN Execute(before, Call) ELSE before, Caller)
CodePlaces ==
  {CodeStand(j, Functions[j.name], StateBefore(Functions[j.name], j.n, Entry0)) :
     j \in {i \in Stands : Real(i, Functions[i.name])}}
PltPlaces ==
  {StandAt("plt", via, layout, Start + k, FALSE, 1, PltAt(k), Caller) :
     via \in {"debug", "hdr", "linear", "gnu"}, layout \in Layouts, k \in {0, 6, 11}}
GapPlaces ==
  {StandAt("plain", via, layout, place, FALSE, 2, Entry0, NoneThere) :
     via \in {"debug", "hdr", "linear", "gnu"}, layout \in Layouts, place \in {GapPlace, TextPlace - 2}}
LastPlaces ==
  {StandAt("outermost", via, layout, Start, FALSE, 2, Entry0, EndOfStack) : via \in Vias, layout \in Layouts}

Job(p, items, bias) ==
  LET pc == Base + bias + p.place
  IN  [image |-> Image(Linked(items, Calls(p.name), p.via, bias), p.layout),
       pc |-> pc + (IF p.later THEN p.width + 1 ELSE 0), later |-> p.later,
       regs |-> [p.state.regs EXCEPT ![15] = pc + (IF p.later THEN p.width + 1 ELSE 0)],
       mem |-> p.state.mem, arm |-> TRUE, base |-> Base, bytes |-> {pc + k : k \in 0 .. p.width - 1},
       via |-> p.via, layout |-> p.layout, want |-> p.want]
MCJobs ==
  {Job(p, Items(p.name), BiasOf(p.layout)) : p \in CodePlaces \cup PltPlaces \cup GapPlaces \cup LastPlaces}

MCRegOrder == <<0, 4, 5, 7, 13, 14, 15>>

-----------------------------------------------------------------------------
(* A step or a walk.  Of the walk: an address of each place, a stack in       *)
(* memory and one in a device, and room for two confirmed frames after a      *)
(* guess.                                                                     *)

MCPlace == [pc \in Pcs |-> <<"elf", "unmapped", "device", "no elf">>[pc]]

\* There is no walk.
Standing ==
  /\ arch = "none"
  /\ at = "done"
  /\ regs = [pc |-> 1, sp |-> 5, lr |-> 1]
  /\ cur = [pc |-> 1, sp |-> 5]
  /\ frames = <<>>
  /\ guessed = FALSE
  /\ gnu = "untried"
  /\ method = 1
  /\ stepped = FALSE

\* There is no step: one job that nobody begins.
Idle ==
  /\ job.via = "debug" /\ job.want = EndOfStack
  /\ job.layout = [kind |-> "own", split |-> FALSE, headers |-> TRUE]

UnwinderInit == UnwindInit /\ (Standing \/ (Idle /\ WalkInit))
UnwinderNext ==
  \/ arch = "none" /\ UnwindNext /\ UNCHANGED walkVars
  \/ arch # "none" /\ WalkNext /\ UNCHANGED unwindVars
UnwinderSpec ==
  /\ UnwinderInit /\ [][UnwinderNext]_<<unwindVars, walkVars>>
  /\ WF_walkVars(WalkStep)

-----------------------------------------------------------------------------

\* The ELF behind a map is found.  That of a larger file in two maps is found by
\* where its section headers end, the one way in which the code cannot do
\* without them.
Located(j) == j.layout.kind = "apk" /\ j.layout.split => j.layout.headers

\* What describes the function is found: .eh_frame_hdr and .ARM.exidx by the
\* program headers, everything else by the section headers.
Described(j) == j.layout.headers \/ j.via \in {"hdr", "exidx", "last"}

\* The load bias of .eh_frame is in the section headers only: without them it is
\* taken for zero, also where it is not, and the wrong function may be found.
Shifted(j) == ~j.layout.headers /\ j.via = "hdr" /\ RoBias(BiasOf(j.layout)) # 0

\* Whatever section the unwind information is in and however the file is
\* mapped, the caller gets back the registers a function must preserve, its
\* stack pointer and its return address; the outermost function ends the walk and an
\* address outside of every function has no caller.  Excepted are the files that
\* the code cannot unwind: without a place for the ELF or the section the step
\* fails, no caller rather than a wrong one; of Shifted nothing is said.
CallerRestored ==
  phase = "done" =>
    /\ Located(job) /\ Described(job) /\ ~Shifted(job) =>
         /\ out = job.want.out
         /\ \A r \in DOMAIN job.want.regs : regsCopy[r] = job.want.regs[r]
    /\ ~Located(job) \/ ~Described(job) => out = "failed"
==============================================================================
