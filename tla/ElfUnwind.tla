------------------------------- MODULE ElfUnwind -------------------------------
(***************************************************************************)
(* tacd_elf_step without the signal frames: from a pc and the registers of   *)
(* a thread to those of the caller.  The pc is located in an ELF file, its   *)
(* unwind sections are tried in a fixed order, each is searched for what     *)
(* covers the pc, and that is applied.                                       *)
(***************************************************************************)
EXTENDS TableSearch, DwarfRules, ArmExidx, ElfFile

\* What the dumper is given, [image, pc, later, regs, mem, arm], and what it has
\* to find out: base, where the process would have the linker's address zero,
\* and bytes, the instruction that the thread is in or has called from.
CONSTANT Jobs

VARIABLES
  job,      \* the input, which never changes
  phase,    \* "locate", "section", "search", "apply" or "done"
  elf,      \* the ELF file of the pc, as a set with at most one element
  stepPc,   \* step_pc
  section,  \* the next of the sections to try
  found,    \* the entry of it that was found, 0 for none
  regsCopy, \* regs_copy
  out       \* "", "ok", "finished" or "failed"

unwindVars == <<searchVars, job, phase, elf, stepPc, section, found, regsCopy, out>>

-----------------------------------------------------------------------------
(* A section with call frame information is [type, offset, bias, hdrBias,    *)
(* table, fdes].  The encodings that linkers use are modelled.               *)

\* tacd_dwarf_read_encoded, after the value itself.
Encoded(encoding, value, pcOffset, dataOffset) ==
  CASE encoding = "absptr"  -> value
    [] encoding = "pcrel"   -> value + pcOffset
    [] encoding = "datarel" -> value + dataOffset

\* tacd_dwarf_adjust_pc_from_fde, and the range, which is absolute.
FdeStart(s, fde) ==
  Encoded(fde.encoding, fde.stored, s.bias, s.offset)
    + (IF s.type = "debug_frame" THEN 0 ELSE fde.field)
FdeEnd(s, fde) == FdeStart(s, fde) + Encoded(fde.encoding, fde.range, 0, s.offset)
Covers(s, fde, pc) == FdeStart(s, fde) <= pc /\ pc < FdeEnd(s, fde)

\* What a header table says of the start of an entry.
HdrStart(s, entry) == Encoded("datarel", entry, 0, s.offset) + s.hdrBias

\* tacd_arm_exidx_prel31_addr: relative to the place of the entry in the file.
ExidxStart(s, n) == s.offset + 8 * (n - 1) + s.entries[n].stored

\* tacd_elf_interface_create: the header table is preferred to the linear
\* section when both are there.
EhFrame(info) ==
  IF info.ehFrameHdr # {} THEN info.ehFrameHdr ELSE info.ehFrame

\* The start addresses of a sorted table.
Starts(s) ==
  IF s.type = "exidx" THEN [n \in DOMAIN s.entries |-> ExidxStart(s, n)]
  ELSE [n \in DOMAIN s.table |-> HdrStart(s, s.table[n])]

OneOf(set) == CHOOSE x \in set : TRUE
AsSequence(set) == IF set = {} THEN <<>> ELSE <<OneOf(set)>>

\* tacd_elf_interface_read_section_headers, through the memory object: there are
\* some, and they do not end behind it.  Linkers put them last, so that what
\* they name is in reach as well.  f is the ELF with its memory object.
HeadersRead(f) == f.elf.sections > 0 /\ ReadsAt(f.view, 0, f.elf.sections)

NoInfo == [debugFrame |-> {}, ehFrameHdr |-> {}, ehFrame |-> {}]

\* What the program headers alone tell: where .eh_frame_hdr is, but not what the
\* addresses of .eh_frame are above its places.
FromSegments(info) == [NoInfo EXCEPT !.ehFrameHdr = {[s EXCEPT !.bias = 0] : s \in info.ehFrameHdr}]

\* The two sections of an interface, in the order they are tried.
DwarfSections(info) == AsSequence(info.debugFrame) \o AsSequence(EhFrame(info))

\* .ARM.exidx is found by the program headers.
ExidxSections(e, arm) == IF arm THEN AsSequence(e.exidx) ELSE <<>>

\* Mutant: the sections of .gnu_debugdata are left out.
SectionsWithoutGnu(e, headers, arm) ==
  DwarfSections(IF headers THEN e.info ELSE FromSegments(e.info)) \o ExidxSections(e, arm)

\* tacd_elf_step and tacd_elf_interface_dwarf_step: .debug_frame, .eh_frame,
\* both again in .gnu_debugdata, .ARM.exidx.
Sections(e, headers, arm) ==
  DwarfSections(IF headers THEN e.info ELSE FromSegments(e.info))
    \o (IF headers THEN DwarfSections(e.gnu) ELSE <<>>)
    \o ExidxSections(e, arm)

-----------------------------------------------------------------------------

\* tacd_regs_get_adjust_pc of ARM: from a return address back into the call.
\* A Thumb address is odd; elf.wide has the places of the calls of four bytes.
\* (Bytes before the file do not look like one.)
PcAdjustment(e, relPc) ==
  LET place == relPc - LoadBias(e)
  IN  CASE relPc < 2 \/ place \in 0 .. 1 -> 0
        [] relPc >= 2 /\ (place < 0 \/ place \in 2 .. 4) -> 2
        [] relPc >= 2 /\ place > 4 -> IF place % 2 = 1 /\ place - 5 \notin e.wide THEN 2 ELSE 4

-----------------------------------------------------------------------------
(* What linkers, loaders and the kernel promise of a job.                    *)

\* The ELF files that may begin where the code looks for the beginning of that
\* of a map, and how much of the file lies between it and the map.
Offsets(image, k) == {0, image.maps[k].offset} \cup {image.maps[h].offset : h \in {PrevMap(k)} \ {0}}
Beginnings(image, k) ==
  LET map == image.maps[k]
      elfs == IF map.name \in DOMAIN image.files THEN image.files[map.name].elfs ELSE <<>>
  IN  {[elf |-> elfs[a], before |-> map.offset - a] : a \in Offsets(image, k) \cap DOMAIN elfs}
        \cup {[elf |-> image.memory[a], before |-> 0] : a \in {map.start} \cap DOMAIN image.memory}

\* The maps are ranges that do not overlap, with places in their files.
MapsApart(image) ==
  /\ Len(image.maps) \in Nat /\ DOMAIN image.maps = 1 .. Len(image.maps)
  /\ \A k \in DOMAIN image.maps :
       /\ {image.maps[k].start, image.maps[k].end, image.maps[k].offset} \subseteq Nat
       /\ \A h \in DOMAIN image.maps \ {k} :
            image.maps[h].end <= image.maps[k].start \/ image.maps[k].end <= image.maps[h].start

\* The addresses of an ELF file count from a base.
LoadedAt(b, map, base) == LoadBias(b.elf) \in Nat /\ map.start - b.before - LoadBias(b.elf) = base

\* The thread is in its instruction, or behind a call of two or four bytes in
\* the file.
StandsIn(j, e) ==
  IF ~j.later THEN j.pc \in j.bytes
  ELSE \E width \in {2, 4}, thumb \in {0, 1} :
         LET address == j.pc - thumb - width
             place == address - j.base - LoadBias(e)
         IN  /\ j.bytes = {address + n : n \in 0 .. width - 1}
             /\ place \in Nat /\ place % 2 = 0
             /\ thumb = 0 => width = 4
             /\ thumb = 1 => IF width = 4 THEN place \in e.wide ELSE place - 2 \notin e.wide

SortedTables(e, arm) ==
  \A headers \in BOOLEAN : \A n \in DOMAIN Sections(e, headers, arm) :
    LET s == Sections(e, headers, arm)[n]
    IN  s.type \in {"eh_frame_hdr", "exidx"} => Starts(s) \in Seq(Int) /\ Sorted(Starts(s))

ASSUME JobAssumption ==
  \A j \in Jobs :
    /\ j.pc \in Int /\ j.base \in Int /\ j.later \in BOOLEAN
    /\ MapsApart(j.image)
    /\ \A k \in {FindMap(j.image, j.pc)} \ {0} :
         /\ \A a \in j.bytes : j.image.maps[k].start <= a /\ a < j.image.maps[k].end
         /\ \A b \in Beginnings(j.image, k) :
              /\ LoadedAt(b, j.image.maps[k], j.base)
              /\ StandsIn(j, b.elf)
              /\ SortedTables(b.elf, j.arm)

-----------------------------------------------------------------------------

UnwindInit ==
  /\ job \in Jobs
  /\ phase = "locate"
  /\ elf = {}
  /\ stepPc = 0
  /\ section = 1
  /\ found = 0
  /\ regsCopy = job.regs
  /\ out = ""
  /\ SearchInit(<<>>, 0)

\* tacd_frames_load asks for the map and the ELF of a pc.
Locate ==
  LET k == FindMap(job.image, job.pc)
      relPc == RelPc(job.image, k, job.pc)
  IN  /\ phase = "locate"
      /\ elf' = IF k = 0 THEN {} ELSE GetElf(job.image, k)
      /\ stepPc' = CASE k = 0               -> job.pc
                     [] k > 0 /\ ~job.later -> relPc
                     [] k > 0 /\ job.later /\ elf' = {} -> relPc - 2
                     [] k > 0 /\ job.later /\ elf' # {} -> relPc - PcAdjustment(OneOf(elf').elf, relPc)
      /\ phase' = IF elf' = {} THEN "done" ELSE "section"
      /\ out' = IF elf' = {} THEN "failed" ELSE ""
      /\ UNCHANGED <<searchVars, job, section, found, regsCopy>>

Elf == OneOf(elf).elf
ElfSections == Sections(Elf, HeadersRead(OneOf(elf)), job.arm)
ThisSection == ElfSections[section]

NoSection ==
  /\ phase = "section"
  /\ section > Len(ElfSections)
  /\ out' = "failed"
  /\ phase' = "done"
  /\ UNCHANGED <<searchVars, job, elf, stepPc, section, found, regsCopy>>

\* .debug_frame, and .eh_frame without a header, entry by entry.
FindFde ==
  LET s == ThisSection
      covering == {n \in DOMAIN s.fdes : Covers(s, s.fdes[n], stepPc)}
  IN  /\ phase = "section"
      /\ section <= Len(ElfSections)
      /\ s.type \in {"debug_frame", "eh_frame"}
      /\ found' = IF covering = {} THEN 0 ELSE CHOOSE n \in covering : \A m \in covering : n <= m
      /\ phase' = "apply"
      /\ UNCHANGED <<searchVars, job, elf, stepPc, section, regsCopy, out>>

\* The two sections with a sorted table.  .ARM.exidx works with places in the
\* file, for which the load bias of the ELF is taken off the pc.
ExidxPc == stepPc - LoadBias(Elf)
BeginSearch ==
  LET s == ThisSection
  IN  /\ phase = "section"
      /\ section <= Len(ElfSections)
      /\ s.type \in {"eh_frame_hdr", "exidx"}
      /\ table' = Starts(s)
      /\ key' = IF s.type = "exidx" THEN ExidxPc ELSE stepPc
      /\ first' = 0
      /\ last' = Len(Starts(s))
      /\ hit' = -1
      /\ phase' = "search"
      /\ UNCHANGED <<job, elf, stepPc, section, found, regsCopy, out>>

Search ==
  /\ phase = "search"
  /\ SearchStep
  /\ phase' = IF hit' = -1 THEN "search" ELSE "apply"
  /\ found' = hit'
  /\ UNCHANGED <<job, elf, stepPc, section, regsCopy, out>>

\* What the entry that was found makes of the registers.
Nothing == {[out |-> "not found", regs |-> regsCopy, finished |-> FALSE]}
Outcomes(s) ==
  IF found = 0 THEN Nothing
  ELSE IF s.type = "exidx" THEN {ExidxUnwind(s.entries[found], regsCopy, job.mem)}
  ELSE IF ~Covers(s, s.fdes[found], stepPc) THEN Nothing
  ELSE DwarfUnwind([s.fdes[found] EXCEPT !.start = FdeStart(s, s.fdes[found])], stepPc, regsCopy, job.mem)

\* The next section goes on with the registers a failed one leaves.
Apply ==
  /\ phase = "apply"
  /\ \E o \in Outcomes(ThisSection) :
       /\ regsCopy' = o.regs
       /\ out' = IF o.out # "ok" THEN "" ELSE IF o.finished THEN "finished" ELSE "ok"
       /\ phase' = IF o.out = "ok" THEN "done" ELSE "section"
       /\ section' = IF o.out = "ok" THEN section ELSE section + 1
  /\ UNCHANGED <<searchVars, job, elf, stepPc, found>>

Unwound == phase = "done" /\ UNCHANGED unwindVars

UnwindNext == Locate \/ NoSection \/ FindFde \/ BeginSearch \/ Search \/ Apply \/ Unwound
UnwindSpec == UnwindInit /\ [][UnwindNext]_unwindVars

-----------------------------------------------------------------------------

\* What the process has at an address: its byte, which is that of a file when
\* the map is one of a file.
PlacesMapped(image, address) ==
  LET map == image.maps[FindMap(image, address)]
  IN  {[of |-> "process", name |-> NoFile, at |-> address],
       [of |-> "file", name |-> map.name, at |-> map.offset + (address - map.start)]}

\* tacd_map_get_rel_pc, tacd_memory_file_create, tacd_regs_get_adjust_pc: the pc
\* becomes the address that the linker gave it, in a frame that was called from
\* one inside the call and not behind it, and what is read from the ELF for that
\* address is what the process has mapped there.
LinkedAddress ==
  elf # {} =>
    /\ stepPc + job.base \in job.bytes
    /\ PlaceRead(OneOf(elf).view, stepPc - LoadBias(Elf)) \in PlacesMapped(job.image, stepPc + job.base)
==============================================================================
