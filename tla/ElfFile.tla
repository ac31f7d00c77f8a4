-------------------------------- MODULE ElfFile --------------------------------
(***************************************************************************)
(* tacd_maps, tacd_map, tacd_memory and what tacd_elf_interface reads from   *)
(* the headers: from an address of the process to the ELF file it lies in,   *)
(* and to the address the linker gave it.  An image is what the dumper sees  *)
(* of the process: the list of its maps and the files it can open.  mmap and *)
(* malloc succeed.                                                           *)
(***************************************************************************)
EXTENDS Integers, Sequences, FiniteSets

CONSTANT HeaderSize   \* sizeof(ElfW(Ehdr))

NoFile == ""

\* image.files maps a name to [size, elfs], elfs an offset to the ELF file
\* that starts there: its segments, and where its section headers end (0
\* without any).  image.memory maps the start of a map to the ELF whose
\* header the process has there.

\* tacd_maps_find_map, tacd_maps_get_prev_map: indices of image.maps, 0 for none.
FindMap(image, pc) ==
  LET hits == {k \in DOMAIN image.maps : pc >= image.maps[k].start /\ pc < image.maps[k].end}
  IN  IF hits = {} THEN 0 ELSE CHOOSE k \in hits : \A h \in hits : k <= h
PrevMap(k) == k - 1

MapSize(map) == map.end - map.start

-----------------------------------------------------------------------------
(* A memory object: a view on a file, on the process or on a buffer.         *)

NoView == [of |-> "none", name |-> NoFile, start |-> 0, size |-> 0]
Unlimited == -1   \* SIZE_MAX

\* tacd_memory_file_init: the part of a file that is mapped, cut at its end.
FileView(image, name, size, offset) ==
  LET fileSize == image.files[name].size
      left == fileSize - offset
  IN  IF offset >= fileSize THEN NoView
      ELSE [of |-> "file", name |-> name, start |-> offset,
            size |-> IF size = Unlimited \/ left < size THEN left ELSE size]

RemoteView(map) == [of |-> "process", name |-> NoFile, start |-> map.start, size |-> MapSize(map)]

\* What a read of n bytes at an offset of the view finds: a place, or nothing
\* when it does not fit.
ReadsAt(view, addr, n) == addr >= 0 /\ addr + n <= view.size
PlaceRead(view, addr) == [of |-> view.of, name |-> view.name, at |-> view.start + addr]

\* tacd_elf_is_valid reads the first five bytes, the rest of the code the header.
ElfAt(image, view) ==
  CASE view.of = "file"    -> IF view.start \in DOMAIN image.files[view.name].elfs
                              THEN {image.files[view.name].elfs[view.start]} ELSE {}
    [] view.of = "process" -> IF view.start \in DOMAIN image.memory
                              THEN {image.memory[view.start]} ELSE {}
    [] view.of = "none"    -> {}
ElfIsValid(image, view) == ElfAt(image, view) # {} /\ ReadsAt(view, 0, 1)
GetMaxSize(image, view) ==
  IF ReadsAt(view, 0, HeaderSize) THEN (CHOOSE e \in ElfAt(image, view) : TRUE).sections ELSE 0

-----------------------------------------------------------------------------
(* tacd_memory_file_create: where the ELF file around a map starts.          *)

Found(view, elfOffset, elfStart) == [view |-> view, elfOffset |-> elfOffset, elfStart |-> elfStart]
NotFound == Found(NoView, 0, 0)

\* CASE 1: the offset is zero, the whole file must be an ELF.
WholeFile(image, map) ==
  LET view == FileView(image, map.name, Unlimited, 0)
  IN  IF ElfIsValid(image, view) THEN Found(view, 0, 0) ELSE NotFound

\* CASE 2: the map starts with an ELF header; its section headers may lie
\* behind the map.
ElfInMap(image, map, view) ==
  LET larger == FileView(image, map.name, GetMaxSize(image, view), map.offset)
  IN  Found(IF GetMaxSize(image, view) > MapSize(map) /\ larger # NoView THEN larger ELSE view,
            0, map.offset)

\* CASE 4: the previous map is the read-only beginning of the same ELF.
PrevIsBeginning(map, prev) ==
  prev.flags = {"r"} /\ map.offset > prev.offset /\ prev.name # NoFile /\ prev.name = map.name

\* Mutant: the offset in the file instead of the one in the ELF.
OffsetInFile(map, prev) == map.offset

OffsetInElf(map, prev) == map.offset - prev.offset

ElfFromPrevMap(image, map, prev) ==
  LET view == FileView(image, map.name, MapSize(prev), prev.offset)
      larger == FileView(image, map.name, GetMaxSize(image, view), prev.offset)
  IN  IF /\ PrevIsBeginning(map, prev)
         /\ ElfIsValid(image, view)
         /\ GetMaxSize(image, view) > MapSize(prev)
      THEN Found(larger, OffsetInElf(map, prev), prev.offset)
      ELSE NotFound

FileCreate(image, k) ==
  LET map == image.maps[k]
      inMap == FileView(image, map.name, MapSize(map), map.offset)
      whole == FileView(image, map.name, Unlimited, 0)
  IN  IF map.name \notin DOMAIN image.files THEN NotFound
      ELSE IF map.offset = 0 THEN WholeFile(image, map)
      ELSE IF inMap = NoView THEN NotFound
      ELSE IF ElfIsValid(image, inMap) THEN ElfInMap(image, map, inMap)
      \* CASE 3: the map is a later part of a file that is an ELF.
      ELSE IF ElfIsValid(image, whole) THEN Found(whole, map.offset, 0)
      ELSE IF PrevMap(k) = 0 THEN NotFound
      ELSE ElfFromPrevMap(image, map, image.maps[PrevMap(k)])

\* tacd_memory_create: the file, or else the memory of the process.
MemoryCreate(image, k) ==
  LET map == image.maps[k]
      file == FileCreate(image, k)
  IN  IF map.end <= map.start \/ map.device THEN NotFound
      ELSE IF file.view # NoView THEN file
      ELSE IF "r" \in map.flags THEN Found(RemoteView(map), 0, 0)
      ELSE NotFound

-----------------------------------------------------------------------------

\* tacd_elf_interface_read_program_headers: the first executable segment
\* that is loaded decides, when it lies behind its place in the file.
LoadBias(elf) ==
  LET loads == {k \in DOMAIN elf.segments : "x" \in elf.segments[k].flags}
      first == elf.segments[CHOOSE k \in loads : \A h \in loads : k <= h]
  IN  IF loads # {} /\ first.vaddr > first.offset THEN first.vaddr - first.offset ELSE 0

\* tacd_map_get_elf: the memory object with the ELF in it, when the header is
\* that of an ELF file.
GetElf(image, k) ==
  LET m == MemoryCreate(image, k)
  IN  IF ElfAt(image, m.view) # {} /\ ReadsAt(m.view, 0, HeaderSize)
      THEN {[view |-> m.view, elfOffset |-> m.elfOffset, elfStart |-> m.elfStart,
             elf |-> CHOOSE e \in ElfAt(image, m.view) : TRUE]}
      ELSE {}

\* tacd_map_get_rel_pc, tacd_map_get_abs_pc.  elf_offset stays with the map
\* when the ELF itself cannot be created.
Shift(image, k) ==
  LET elfs == GetElf(image, k)
  IN  image.maps[k].start - MemoryCreate(image, k).elfOffset
        - (IF elfs = {} THEN 0 ELSE LoadBias((CHOOSE e \in elfs : TRUE).elf))
RelPc(image, k, pc) == pc - Shift(image, k)
AbsPc(image, k, relPc) == Shift(image, k) + relPc
==============================================================================
