------------------------------ MODULE CpmBios ------------------------------
(***************************************************************************)
(* The BIOS behind the CP/M of z80orig (bios.c): drives that are files of  *)
(* the host, the selected drive, track, sector and DMA address, and files  *)
(* of the host that a program reads and writes by their FCBs.  Each        *)
(* function is an action; module CpmMachine says when it is called.        *)
(*                                                                         *)
(* A drive's file and the memory at the DMA address are sequences of       *)
(* units, SectorSize of them to a sector, so that a sector can be torn.    *)
(* What fwrite accepts stays in stdio's buffer until the next fseek or     *)
(* fclose of the file puts it there; what one that fails has not put       *)
(* there is lost.                                                          *)
(***************************************************************************)
EXTENDS Integers, SequencesExt

CONSTANTS
  HardDiscs,       \* the drives below NUMHDISCS
  Floppies,        \* the others, up to MAXDISCS
  HardSectors,     \* HDSECTORSPERTRACK
  sectorxlat,      \* the skew of a floppy: logical sector 0, 1, ... -> sector
  StrayBytes,      \* what may lie in memory behind sectorxlat
  HeaderAt,        \* where the drives' headers are in memory
  SectorSize,      \* SECTORSIZE, in units
  Openable,        \* the drives whose file can be opened or created
  Written,         \* units that programs write
  DmaAddr,         \* the DMA addresses in use, the default one among them
  DefaultDma,      \* 0x0080
  HostFails,       \* whether writes to the host's files may fail
  Addresses,       \* pointers that fopen may return
  IntRange,        \* the numbers of an int, four bytes
  WordRange,       \* and of a pointer
  UnixNames, UnixFiles   \* names of files of the host, and those that exist

Drives == HardDiscs \union Floppies

ASSUME BiosAssumption ==
  /\ HardDiscs \intersect Floppies = {}
  /\ Drives \subseteq Nat /\ 0 \in Drives
  /\ Openable \subseteq Drives
  /\ DefaultDma \in DmaAddr
  /\ SectorSize \in Nat \ {0} /\ HardSectors \in Nat \ {0} /\ HeaderAt \in Nat \ {0}
  /\ StrayBytes \subseteq Nat
  /\ Addresses \subseteq Nat \ {0}
  /\ {IntRange, WordRange} \subseteq Nat \ {0} /\ WordRange % IntRange = 0
  /\ DOMAIN UnixFiles \subseteq UnixNames
  \* The skew visits every sector of a track once.
  /\ sectorxlat \in Seq(Nat)
  /\ Range(sectorxlat) = 1 .. Len(sectorxlat)

Units  == 0 .. 255 \* what a unit of a file or of the memory holds
Filler == 229      \* 0xE5
CtrlZ  == 26
Fill(n) == [i \in 1 .. n |-> Filler]
Blank   == Fill(SectorSize)

VARIABLES
  file,            \* the drives' files; <<>> is also a file that is not there
  held,            \* what stdio holds for them: units, and where they go
  drives,          \* the drives whose file is open
  drivelen,        \* what is known of their lengths
  drive, track, sector, dma,
  mem,             \* what is in memory at the DMA addresses
  a, bc, hl,       \* registers; hl also stands for the header that seldisc returns
  unix,            \* the host's other files
  fds,             \* the open ones: name and what is held, behind each file pointer
  fcb              \* the FCB at DE: file pointer, block and size

discState == <<file, held, drives, drivelen>>
selection == <<drive, track, sector, dma>>
unixState == <<unix, fds, fcb>>

\* What write(2) makes of a file: it overwrites, appends and leaves a hole of
\* zeros behind the file's end.
Stored(s, at, data) ==
  LET size == IF data # <<>> /\ at + Len(data) > Len(s) THEN at + Len(data) ELSE Len(s)
  IN  [i \in 1 .. size |-> IF i \in at + 1 .. at + Len(data) THEN data[i - at]
                           ELSE IF i <= Len(s) THEN s[i] ELSE 0]

Nothing == [at |-> 0, data |-> <<>>]

\* A flush puts all that is held into the file, or fails after n units of it.
Put(s, h, n)  == Stored(s, h.at, SubSeq(h.data, 1, n))
Behind(s, h)  == Stored(s, h.at, h.data)
Reach(h)      == IF HostFails THEN 0 .. Len(h.data) ELSE {Len(h.data)}
Failing(h, n) == n < Len(h.data)

\* What fwrite may have left of data when it reports fewer units.
Torn(data) == {SubSeq(data, 1, n) : n \in IF HostFails THEN 0 .. Len(data) - 1 ELSE {}}

\* fread at a position, of a sector that may end with the file.
Got(s, at)     == SubSeq(s, at + 1, IF at + SectorSize < Len(s) THEN at + SectorSize ELSE Len(s))
Over(got, old) == [i \in 1 .. SectorSize |-> IF i \in DOMAIN got THEN got[i] ELSE old[i]]

-----------------------------------------------------------------------------
(* Selecting a drive and a place on it.                                    *)

SectorsPerTrack(d) == IF d \in HardDiscs THEN HardSectors ELSE Len(sectorxlat)

NoHeader  == 0
Header(c) == HeaderAt + c

\* The whole sectors of a file, in units.
WholeSectors(s) == (Len(s) \div SectorSize) * SectorSize

Selects(c) == drive' = c /\ hl' = Header(c) /\ track' = 0 /\ sector' = 1

\* The drive does not exist, or its file cannot be opened, created or begun:
\* the selection stays as it is, old.
NotSelected(old) ==
  /\ hl' = NoHeader
  /\ drive' = old.drive /\ track' = old.track /\ sector' = old.sector
  /\ drives' = old.drives /\ held' = old.held
  /\ UNCHANGED drivelen

SelOpened(c, old) ==
  /\ c \in old.drives
  /\ Selects(c)
  /\ drives' = old.drives /\ file' = old.file /\ held' = old.held /\ UNCHANGED drivelen

SelRefused_Unchecked(c, old) ==
  /\ c \notin old.drives \union Openable
  /\ Selects(c)
  /\ drives' = old.drives /\ file' = old.file /\ held' = old.held /\ UNCHANGED drivelen

SelRefused(c, old) ==
  /\ c \notin old.drives \union Openable
  /\ NotSelected(old) /\ file' = old.file

SelOpens(c, old) ==
  /\ c \in Openable \ old.drives
  /\ WholeSectors(old.file[c]) # 0
  /\ file' = old.file /\ held' = old.held
  /\ drives' = old.drives \union {c}
  /\ drivelen' = [drivelen EXCEPT ![c] = WholeSectors(old.file[c])]
  /\ Selects(c)

\* A file without a whole sector gets its first one.
SelBegins(c, old) ==
  /\ c \in Openable \ old.drives
  /\ WholeSectors(old.file[c]) = 0
  /\ file' = old.file /\ held' = [old.held EXCEPT ![c] = [at |-> 0, data |-> Blank]]
  /\ drives' = old.drives \union {c}
  /\ drivelen' = [drivelen EXCEPT ![c] = SectorSize]
  /\ Selects(c)

SelUncreated(c, old) ==
  /\ c \in Openable \ old.drives
  /\ WholeSectors(old.file[c]) = 0
  /\ \E begun \in Torn(Blank) : file' = [old.file EXCEPT ![c] = Stored(@, 0, begun)]
  /\ NotSelected(old)

SelectDisc(c, old) ==
  \/ SelOpened(c, old) \/ SelRefused(c, old)
  \/ SelOpens(c, old) \/ SelBegins(c, old) \/ SelUncreated(c, old)

seldisc ==
  /\ SelectDisc(bc, [drive |-> drive, track |-> track, sector |-> sector,
                     drives |-> drives, file |-> file, held |-> held])
  /\ UNCHANGED <<dma, mem, a, bc, unixState>>

home ==
  /\ track' = 0 /\ sector' = 1
  /\ UNCHANGED <<discState, drive, dma, mem, a, bc, hl, unixState>>

\* A place that the drive does not have is reported on the host's console and
\* taken all the same.
settrack ==
  /\ track' = bc
  /\ UNCHANGED <<discState, drive, sector, dma, mem, a, bc, hl, unixState>>

setsector ==
  /\ sector' = bc
  /\ UNCHANGED <<discState, drive, track, dma, mem, a, bc, hl, unixState>>

setdma ==
  /\ dma' = bc
  /\ UNCHANGED <<discState, drive, track, sector, mem, a, bc, hl, unixState>>

\* Hard discs have no skew.  The table is read beyond its end for a sector
\* that a floppy does not have.
Translated_One(d, logical) == {logical + 1}
Translated(d, logical) ==
  IF d \in HardDiscs THEN {logical + 1}
  ELSE IF logical < Len(sectorxlat) THEN {sectorxlat[logical + 1]} ELSE StrayBytes

secttran ==
  /\ hl' \in Translated(drive, bc)
  /\ UNCHANGED <<discState, selection, mem, a, bc, unixState>>

-----------------------------------------------------------------------------
(* Transfers.  An fseek puts what is held for the drive into its file, and *)
(* fails if that fails.  At a negative offset, that of sector 0 of track   *)
(* 0, it does the one and fails all the same.                              *)

Place(d, t, s) == s - 1 + SectorsPerTrack(d) * t
Offset == SectorSize * Place(drive, track, sector)

Flushes(n) ==
  /\ file' = [file EXCEPT ![drive] = Put(@, held[drive], n)]
  /\ held' = [held EXCEPT ![drive] = Nothing]

SeekFails ==
  /\ drive \in drives
  /\ \E n \in Reach(held[drive]) :
       /\ Failing(held[drive], n) \/ Offset < 0
       /\ Flushes(n)
  /\ a' = 1
  /\ UNCHANGED <<drives, drivelen>>

NotOpen ==
  /\ drive \notin drives
  /\ a' = 1
  /\ UNCHANGED discState

\* Beyond the end the disc is unwritten.
ReadBeyond ==
  /\ drive \in drives /\ Offset >= drivelen[drive]
  /\ mem' = [mem EXCEPT ![dma] = Blank]
  /\ a' = 0
  /\ UNCHANGED discState

\* Within it the sector is there, unless a write before it was lost.
ReadWithin ==
  LET now == Behind(file[drive], held[drive])
      got == Got(now, Offset)
  IN  /\ drive \in drives /\ Offset >= 0 /\ Offset < drivelen[drive]
      /\ file' = [file EXCEPT ![drive] = now]
      /\ held' = [held EXCEPT ![drive] = Nothing]
      /\ mem' = [mem EXCEPT ![dma] = Over(got, @)]
      /\ a' = IF Len(got) = SectorSize THEN 0 ELSE 1
      /\ UNCHANGED <<drives, drivelen>>

rdsector ==
  /\ \/ NotOpen /\ UNCHANGED mem
     \/ Offset < drivelen[drive] /\ SeekFails /\ UNCHANGED mem
     \/ ReadBeyond
     \/ ReadWithin
  /\ UNCHANGED <<selection, bc, hl, unixState>>

\* The sectors between the end and the one that is written.
Gap_Zero(len) == [i \in 1 .. (IF Offset > len THEN Offset - len ELSE 0) |-> 0]
Gap(len)      == Fill(IF Offset > len THEN Offset - len ELSE 0)

\* The host's disc is full before the sector is reached: n units of the gap
\* are stored, and k of its sectors were accepted and count.
WriteGapFails ==
  LET len == drivelen[drive]
      gap == Gap(len)
  IN  /\ drive \in drives /\ HostFails
      /\ \E n \in 0 .. Len(gap) - 1 :
           /\ file' = [file EXCEPT ![drive] =
                         Stored(Behind(@, held[drive]), len, SubSeq(gap, 1, n))]
           /\ \E k \in n \div SectorSize .. Len(gap) \div SectorSize :
                drivelen' = [drivelen EXCEPT ![drive] = len + k * SectorSize]
      /\ held' = [held EXCEPT ![drive] = Nothing]
      /\ a' = 1
      /\ UNCHANGED drives

Longer_Always(old, new) == new
Longer(old, new)        == IF new > old THEN new ELSE old

Filled == Stored(Behind(file[drive], held[drive]), drivelen[drive], Gap(drivelen[drive]))

\* Or in the sector itself.
WriteFails ==
  /\ drive \in drives /\ Offset >= 0
  /\ \E part \in Torn(mem[dma]) : file' = [file EXCEPT ![drive] = Stored(Filled, Offset, part)]
  /\ held' = [held EXCEPT ![drive] = Nothing]
  /\ drivelen' = [drivelen EXCEPT ![drive] = Longer(@, Offset)]
  /\ a' = 1
  /\ UNCHANGED drives

\* The sector is accepted, and counts from now on.
WriteDone ==
  /\ drive \in drives /\ Offset >= 0
  /\ file' = [file EXCEPT ![drive] = Filled]
  /\ held' = [held EXCEPT ![drive] = [at |-> Offset, data |-> mem[dma]]]
  /\ drivelen' = [drivelen EXCEPT ![drive] = Longer(@, Offset + SectorSize)]
  /\ a' = 0
  /\ UNCHANGED drives

wrsector ==
  /\ NotOpen \/ SeekFails \/ WriteGapFails \/ WriteFails \/ WriteDone
  /\ UNCHANGED <<selection, mem, bc, hl, unixState>>

-----------------------------------------------------------------------------
(* Starting.  The drives' files are closed, whether that fails or not, and *)
(* what is known of their lengths is found anew when they are selected.    *)
(* The memory that is written is CP/M's own.                               *)

StartFrom(d) ==
  /\ \E cut \in [Drives -> 0 .. SectorSize] :
       /\ \A c \in Drives : cut[c] \in Reach(held[c])
       /\ SelectDisc(d, [drive |-> d, track |-> 0, sector |-> 1, drives |-> {},
                         file |-> [c \in Drives |-> Put(file[c], held[c], cut[c])],
                         held |-> [c \in Drives |-> Nothing]])
  /\ dma' = DefaultDma
  /\ bc' = d
  /\ UNCHANGED <<mem, a, unixState>>

warmboot == StartFrom(drive)
boot     == StartFrom(0)

-----------------------------------------------------------------------------
(* Files of the host.  An open one is known by the pointer that its FCB    *)
(* holds in four bytes.                                                    *)

\* What int2addr and addr2int leave of a pointer: its low bytes, as an int.
Restored(p) ==
  LET low == p % IntRange
  IN  IF low < IntRange \div 2 THEN low ELSE WordRange - IntRange + low

\* The file is opened at its beginning.
Opens(files) ==
  /\ unix' = files
  /\ \E p \in Addresses \ DOMAIN fds :
       /\ fds' = [q \in DOMAIN fds \union {p} |->
                    IF q = p THEN [name |-> fcb.name, held |-> Nothing] ELSE fds[q]]
       /\ fcb' = [fcb EXCEPT !.fd = Restored(p), !.blk = 0, !.size = 0]
  /\ a' = 0

Refuses_Zero == a' = 0 /\ UNCHANGED unixState
Refuses      == a' = 255 /\ UNCHANGED unixState

openunix ==
  /\ \/ fcb.name \in DOMAIN unix /\ Opens(unix)
     \/ (fcb.name \in DOMAIN unix => HostFails) /\ Refuses
  /\ UNCHANGED <<discState, selection, mem, bc, hl>>

createunix ==
  /\ \/ Opens([n \in DOMAIN unix \union {fcb.name} |-> IF n = fcb.name THEN <<>> ELSE unix[n]])
     \/ HostFails /\ Refuses
  /\ UNCHANGED <<discState, selection, mem, bc, hl>>

\* A file pointer that fopen returned and fclose did not take back.
Open(fd) == fd \in DOMAIN fds

Name      == fds[fcb.fd].name
Unsaved   == fds[fcb.fd].held
Holds(h)  == fds' = [fds EXCEPT ![fcb.fd].held = h]
Holding   == Behind(unix[Name], Unsaved)
Block     == fcb.blk * SectorSize

\* The fseek before a transfer fails, as it cannot put what is held into the file.
BlockFails ==
  /\ \E n \in Reach(Unsaved) :
       /\ Failing(Unsaved, n)
       /\ unix' = [unix EXCEPT ![Name] = Put(@, Unsaved, n)]
  /\ Holds(Nothing)
  /\ a' = 255
  /\ UNCHANGED <<mem, fcb>>

NextBlock(f, n) == [f EXCEPT !.blk = @ + 1, !.size = n]

\* The last record is filled up with ^Z.
RecordRead ==
  LET record == Got(Holding, Block)
  IN  /\ unix' = [unix EXCEPT ![Name] = Holding]
      /\ Holds(Nothing)
      /\ IF record = <<>>
           THEN a' = 255 /\ UNCHANGED <<mem, fcb>>
           ELSE /\ mem' = [mem EXCEPT ![dma] = Over(record, [i \in 1 .. SectorSize |-> CtrlZ])]
                /\ fcb' = NextBlock(fcb, Len(record))
                /\ a' = 0

rdunix ==
  /\ Open(fcb.fd)
  /\ BlockFails \/ RecordRead
  /\ UNCHANGED <<discState, selection, bc, hl>>

RecordWritten ==
  /\ unix' = [unix EXCEPT ![Name] = Holding]
  /\ Holds([at |-> Block, data |-> mem[dma]])
  /\ fcb' = NextBlock(fcb, SectorSize)
  /\ a' = 0
  /\ UNCHANGED mem

RecordFails ==
  /\ \E part \in Torn(mem[dma]) : unix' = [unix EXCEPT ![Name] = Stored(Holding, Block, part)]
  /\ Holds(Nothing)
  /\ a' = 255
  /\ UNCHANGED <<mem, fcb>>

wrunix ==
  /\ Open(fcb.fd)
  /\ BlockFails \/ RecordWritten \/ RecordFails
  /\ UNCHANGED <<discState, selection, bc, hl>>

\* fclose puts what is held into the file, and may fail in that or behind it.
CloseAnswer_Unchecked(h, n) == {0}
CloseAnswer(h, n) ==
  IF Failing(h, n) THEN {255} ELSE IF HostFails THEN {0, 255} ELSE {0}

closeunix ==
  /\ Open(fcb.fd)
  /\ \E n \in Reach(Unsaved) :
       /\ unix' = [unix EXCEPT ![Name] = Put(@, Unsaved, n)]
       /\ a' \in CloseAnswer(Unsaved, n)
  /\ fds' = [p \in DOMAIN fds \ {fcb.fd} |-> fds[p]]
  /\ UNCHANGED <<discState, selection, mem, bc, hl, fcb>>

-----------------------------------------------------------------------------
biosVars == <<discState, selection, mem, a, bc, hl, unixState>>

\* The function that a call asks for.
bios(fn) ==
  \/ fn = "boot" /\ boot
  \/ fn = "warmboot" /\ warmboot
  \/ fn = "home" /\ home
  \/ fn = "seldisc" /\ seldisc
  \/ fn = "settrack" /\ settrack
  \/ fn = "setsector" /\ setsector
  \/ fn = "setdma" /\ setdma
  \/ fn = "secttran" /\ secttran
  \/ fn = "rdsector" /\ rdsector
  \/ fn = "wrsector" /\ wrsector
  \/ fn = "openunix" /\ openunix
  \/ fn = "createunix" /\ createunix
  \/ fn = "rdunix" /\ rdunix
  \/ fn = "wrunix" /\ wrunix
  \/ fn = "closeunix" /\ closeunix

\* makedisc's image of a floppy whose logical sectors, track by track, are
\* content: each goes where the skew says.
MadeDisc(tracks, content) ==
  LET spt == Len(sectorxlat)
      logical(p) == CHOOSE l \in 0 .. spt - 1 : sectorxlat[l + 1] - 1 = (p % spt)
      at(p) == spt * (p \div spt) + logical(p)
  IN  [i \in 1 .. tracks * spt * SectorSize |->
         content[at((i - 1) \div SectorSize) + 1][((i - 1) % SectorSize) + 1]]

BiosInit(files) ==
  /\ file = files /\ held = [d \in Drives |-> Nothing]
  /\ drives = {} /\ drivelen = [d \in Drives |-> 0]
  /\ drive = 0 /\ track = 0 /\ sector = 1 /\ dma = DefaultDma
  /\ mem = [m \in DmaAddr |-> [i \in 1 .. SectorSize |-> 0]]
  /\ a = 0 /\ bc = 0 /\ hl = 0
  /\ unix = UnixFiles /\ fds = [p \in {} |-> 0]
  /\ fcb = [name |-> CHOOSE n \in UnixNames : TRUE, fd |-> 0, blk |-> 0, size |-> 0]
=============================================================================
