----------------------------- MODULE CpmMachine -----------------------------
(***************************************************************************)
(* A program under CP/M, the emulator that runs it and the user of its     *)
(* debugger.  A call of the BIOS is an OUT that asks the emulator to stop  *)
(* before the next instruction (main.c, output), where haltcpu serves it   *)
(* after what else it has to do: a signal, the trace, the prompt of a      *)
(* single step.                                                            *)
(*                                                                         *)
(* The programs are those of the repository: disc accesses in the order in *)
(* which BDOS makes them, GETUNIX and PUTUNIX (utils).  An instruction     *)
(* that is not an OUT to the BIOS or its RET is left out.                  *)
(***************************************************************************)
EXTENDS CpmBios

CONSTANTS
  Selected,        \* the drive numbers that programs select
  Tracks, Logicals,\* the tracks and logical sectors they use
  RawSectors,      \* sectors that are set without a translation
  Records,         \* what PUTUNIX copies: sequences of records
  MadeTracks, Made,\* a floppy that makedisc wrote: its tracks and logical sectors
  HardFiles,       \* what the files of hard discs hold at first
  MaxPlace,        \* the last place on a disc that is looked at
  MaxPrograms,     \* bound: programs that run
  CopyWeight,      \* and for how many of them one counts that copies a file
  MaxBreaks        \* bound: SIGINTs

(* A drive number, a track, a sector and an address are what BC holds, and *)
(* a boot leaves 0 there, which a call that waits meanwhile is then served *)
(* with.                                                                   *)
ASSUME CpmAssumption ==
  /\ Selected \union Tracks \union Logicals \union RawSectors \union DmaAddr \subseteq Nat
  /\ 0 \in DmaAddr
  /\ Written \subseteq Units
  /\ UnixNames # {}
  /\ UnixFiles \in [DOMAIN UnixFiles -> Seq(Units)]
  /\ Records \subseteq Seq([1 .. SectorSize -> Units])
  /\ HardFiles \subseteq Seq(Units)
  /\ MadeTracks \in Nat /\ Made \in Seq([1 .. SectorSize -> Units])
  /\ Len(Made) = MadeTracks * Len(sectorxlat)

\* The sectors that a program may select on a drive: those it sets, those that a
\* boot or a translation leaves, and the header in HL when a translation is lost.
Reached(d) ==
  {0, 1, NoHeader, Header(d)} \union RawSectors \union UNION {Translated(d, l) : l \in Logicals \union {0}}

\* No place behind the last one that is looked at is selected.
ASSUME PlaceAssumption ==
  /\ MaxPlace \in Nat
  /\ \A d \in Drives, t \in Tracks \union {0} : \A s \in Reached(d) : Place(d, t, s) <= MaxPlace

VARIABLES
  event,           \* event and halt of z80info, which are set together here
  sig, trace, step, syscall, biosfn,
  phase,           \* where the emulator is: at the "start", "top" of its loop, "serve" and "prompt"
                   \* in haltcpu, "exec"uting an instruction, or "crashed"
  resume,          \* where it is after the prompt
  pc,              \* the program is before an OUT or the "ret" that follows
  todo,            \* the calls that the program has before it
  plan,            \* the disc access it is making
  copied,          \* what GETUNIX wrote into CP/M's file, or PUTUNIX read from it
  programs, breaks,\* counted up to the bounds
  broke,           \* a SIGINT came since the call was made
  failed           \* auxiliary: the drives of which a transfer failed since CP/M was started

emulator == <<event, sig, trace, step, syscall, biosfn, phase, resume>>
program  == <<pc, todo, plan, copied, programs>>
history  == <<breaks, broke, failed>>
vars == <<biosVars, emulator, program, history>>

Call(f, x) == [fn |-> f, arg |-> x]

\* -1 is no drive.
NoPlan == [drive |-> -1, track |-> 0, logical |-> 0]

-----------------------------------------------------------------------------
(* The emulator's loop (z80.c) and haltcpu (main.c).                       *)

\* No event, and the next instruction runs.
Execute ==
  /\ phase = "top" /\ ~event
  /\ phase' = "exec"
  /\ UNCHANGED <<event, sig, trace, step, syscall, biosfn, resume, biosVars, program, history>>

\* A signal comes before everything else and ends haltcpu when the user has
\* left the prompt.
SignalStops ==
  /\ phase = "top" /\ event /\ sig
  /\ event' = FALSE /\ sig' = FALSE
  /\ phase' = "prompt" /\ resume' = "exec"
  /\ UNCHANGED <<trace, step, syscall, biosfn, biosVars, program, history>>

\* A traced instruction, and the prompt of a single step.
Traced_StepReturns ==
  /\ phase = "top" /\ event /\ ~sig
  /\ event' = trace
  /\ phase' = IF trace /\ step THEN "prompt" ELSE "serve"
  /\ resume' = "exec"
  /\ UNCHANGED <<sig, trace, step, syscall, biosfn, biosVars, program, history>>

Traced ==
  /\ phase = "top" /\ event /\ ~sig
  /\ event' = trace
  /\ phase' = IF trace /\ step THEN "prompt" ELSE "serve"
  /\ resume' = "serve"
  /\ UNCHANGED <<sig, trace, step, syscall, biosfn, biosVars, program, history>>

NothingToServe ==
  /\ phase = "serve" /\ ~syscall
  /\ phase' = "exec"
  /\ UNCHANGED <<event, sig, trace, step, syscall, biosfn, resume, biosVars, program, history>>

\* What is remembered of a call whose answer is the new value of a.
Remembers(fn) ==
  /\ failed' = CASE fn \in {"boot", "warmboot"} -> {}
                 [] fn \in {"rdsector", "wrsector"} /\ a' = 1 -> failed \union {drive}
                 [] OTHER -> failed
  /\ UNCHANGED <<breaks, broke>>

\* A system reset loads CP/M anew, and with it the command processor.
Restarts(fn) ==
  IF fn \in {"boot", "warmboot"}
    THEN pc' = "out" /\ todo' = <<>> /\ plan' = NoPlan /\ UNCHANGED <<copied, programs>>
    ELSE UNCHANGED program

UsesFile(fn) == fn \in {"rdunix", "wrunix", "closeunix"}

Serve ==
  /\ phase = "serve" /\ syscall
  /\ syscall' = FALSE
  /\ bios(biosfn)
  /\ Restarts(biosfn) /\ Remembers(biosfn)
  /\ phase' = "exec"
  /\ UNCHANGED <<event, sig, trace, step, biosfn, resume>>

\* The FCB does not hold a pointer to an open file, and is used as if it did.
WildFile ==
  /\ phase = "serve" /\ syscall
  /\ UsesFile(biosfn) /\ ~Open(fcb.fd)
  /\ phase' = "crashed"
  /\ UNCHANGED <<event, sig, trace, step, syscall, biosfn, resume, biosVars, program, history>>

\* ^C at the host's terminal.
Break ==
  /\ phase # "crashed" /\ breaks < MaxBreaks
  /\ event' = TRUE /\ sig' = TRUE
  /\ breaks' = breaks + 1 /\ broke' = TRUE
  /\ UNCHANGED <<failed, trace, step, syscall, biosfn, phase, resume, biosVars, program>>

\* main, started as "cpm".
PowerOn ==
  /\ phase = "start"
  /\ boot /\ Remembers("boot")
  /\ phase' = "top"
  /\ UNCHANGED <<event, sig, trace, step, syscall, biosfn, resume, program>>

-----------------------------------------------------------------------------
(* The prompt.                                                             *)

\* b: CP/M is booted, and the emulator goes on where the prompt was.
PromptBoot ==
  /\ phase = "prompt"
  /\ boot /\ Restarts("boot") /\ Remembers("boot")
  /\ phase' = resume
  /\ UNCHANGED <<event, sig, trace, step, syscall, biosfn, resume>>

PromptTrace ==
  /\ phase = "prompt"
  /\ trace' = ~trace
  /\ UNCHANGED <<event, sig, step, syscall, biosfn, phase, resume, biosVars, program, history>>

PromptStep ==
  /\ phase = "prompt"
  /\ step' = ~step
  /\ UNCHANGED <<event, sig, trace, syscall, biosfn, phase, resume, biosVars, program, history>>

\* g and c.
PromptGo ==
  /\ phase = "prompt"
  /\ event' = (event \/ trace)
  /\ phase' = resume
  /\ UNCHANGED <<sig, trace, step, syscall, biosfn, resume, biosVars, program, history>>

-----------------------------------------------------------------------------
(* The program.                                                            *)

InHL == -1     \* what secttran returned

Access(d, t, l, last) ==
  <<Call("seldisc", d), Call("settrack", t), Call("secttran", l), Call("setsector", InHL), last>>

Sector(w) == [i \in 1 .. SectorSize |-> w]

Transfers == {Call("rdsector", 0)} \union {Call("wrsector", Sector(w)) : w \in Written}

Logical(d) == {l \in Logicals : l < SectorsPerTrack(d)}

Weight(calls) == IF Head(calls).fn \in {"openunix", "createunix"} THEN CopyWeight ELSE 1

Starts(calls) ==
  /\ phase = "exec" /\ pc = "out" /\ todo = <<>>
  /\ programs + Weight(calls) <= MaxPrograms
  /\ todo' = calls
  /\ programs' = programs + Weight(calls)
  /\ copied' = <<>>
  /\ phase' = "top"
  /\ UNCHANGED <<pc, event, sig, trace, step, syscall, biosfn, resume, biosVars, history>>

StartAccess ==
  \E d \in Selected, t \in Tracks :
    \E l \in IF d \in Drives THEN Logical(d) ELSE {0} :
      /\ \E last \in Transfers : Starts(Access(d, t, l, last))
      /\ plan' = [drive |-> d, track |-> t, logical |-> l]

\* A program that asks the BIOS for a place of its own, and for home.
StartRaw ==
  /\ \E s \in RawSectors, last \in Transfers :
       Starts(<<Call("home", 0), Call("setsector", s), last>>)
  /\ plan' = NoPlan

StartRestart ==
  /\ \E fn \in {"boot", "warmboot"} : Starts(<<Call(fn, 0)>>)
  /\ plan' = NoPlan

StartGetunix ==
  /\ \E n \in UnixNames : Starts(<<Call("openunix", n), Call("setdma", DefaultDma),
                                   Call("rdunix", 0), Call("closeunix", 0)>>)
  /\ plan' = NoPlan

StartPutunix ==
  /\ \E n \in UnixNames, records \in Records :
       Starts(<<Call("createunix", n), Call("setdma", DefaultDma)>>
                \o [i \in 1 .. Len(records) |-> Call("wrunix", records[i])]
                \o <<Call("closeunix", 0)>>)
  /\ plan' = NoPlan

\* What the program loads before its OUT.
Arguments(c) ==
  /\ bc' = CASE c.fn \in {"seldisc", "settrack", "setdma", "secttran"} -> c.arg
             [] c.fn = "setsector" -> IF c.arg = InHL THEN hl ELSE c.arg
             [] OTHER -> bc
  /\ mem' = IF c.fn \in {"wrsector", "wrunix"} THEN [mem EXCEPT ![dma] = c.arg] ELSE mem
  /\ fcb' = IF c.fn \in {"openunix", "createunix"}
              THEN [name |-> c.arg, fd |-> 0, blk |-> 0, size |-> 0] ELSE fcb

GuestCall ==
  /\ phase = "exec" /\ pc = "out" /\ todo # <<>>
  /\ Arguments(Head(todo))
  /\ event' = TRUE /\ syscall' = TRUE /\ biosfn' = Head(todo).fn
  /\ pc' = "ret" /\ phase' = "top"
  /\ broke' = sig
  /\ UNCHANGED <<sig, trace, step, resume, todo, plan, copied, programs, breaks, failed>>
  /\ UNCHANGED <<discState, selection, a, hl, unix, fds>>

\* What the program does next: BDOS gives up a drive that cannot be selected
\* and reboots, and the utilities end with an error, or when all is read.
Continued(c, rest) ==
  CASE c.fn = "seldisc" /\ hl = NoHeader -> <<Call("warmboot", 0)>>
    [] c.fn \in {"openunix", "createunix", "wrunix"} /\ a # 0 -> <<>>
    [] c.fn = "rdunix" /\ a = 0 -> todo
    [] OTHER -> rest

GuestReturn ==
  /\ phase = "exec" /\ pc = "ret"
  /\ pc' = "out" /\ phase' = "top"
  /\ todo' = Continued(Head(todo), Tail(todo))
  /\ copied' = CASE Head(todo).fn = "rdunix" /\ a = 0 -> Append(copied, mem[dma])
                 [] Head(todo).fn = "wrunix" -> Append(copied, Head(todo).arg)
                 [] OTHER -> copied
  /\ UNCHANGED <<event, sig, trace, step, syscall, biosfn, resume, biosVars>>
  /\ UNCHANGED <<plan, programs, history>>

-----------------------------------------------------------------------------
Emulator == PowerOn \/ Execute \/ SignalStops \/ Traced \/ NothingToServe \/ Serve \/ WildFile
User     == Break \/ PromptBoot \/ PromptTrace \/ PromptStep \/ PromptGo
Program  == \/ StartAccess \/ StartRaw \/ StartRestart \/ StartGetunix \/ StartPutunix
            \/ GuestCall \/ GuestReturn

MadeFile == MadeDisc(MadeTracks, Made)

\* The drives' files may be there.
Init ==
  /\ \E files \in {[d \in Drives |-> IF d \in HardDiscs THEN h ELSE f] :
                     h \in HardFiles, f \in {<<>>, MadeFile}} : BiosInit(files)
  /\ event = FALSE /\ sig = FALSE /\ trace = FALSE /\ step = FALSE
  /\ syscall = FALSE /\ biosfn = "boot"
  /\ phase = "start" /\ resume = "exec"
  /\ pc = "out" /\ todo = <<>> /\ plan = NoPlan /\ copied = <<>>
  /\ programs = 0 /\ breaks = 0 /\ broke = FALSE /\ failed = {}

Next == Emulator \/ User \/ Program

Spec == Init /\ [][Next]_vars

-----------------------------------------------------------------------------
(* Properties                                                              *)

\* Types: the emulator and the program are in one of their places, the drives
\* are known ones, and no more than a sector is held for an open one.
CpmTypeOK ==
  /\ drives \subseteq Openable /\ drive \in Drives
  /\ track \in Nat /\ sector \in Nat /\ dma \in DmaAddr
  /\ \A m \in DmaAddr : mem[m] \in [1 .. SectorSize -> Units]
  /\ a \in 0 .. 255
  /\ phase \in {"start", "top", "serve", "prompt", "exec", "crashed"} /\ resume \in {"exec", "serve"}
  /\ {event, sig, trace, step, syscall, broke} \subseteq BOOLEAN
  /\ DOMAIN fds \subseteq Addresses /\ fcb.fd \in Nat
  /\ \A d \in Drives : held[d] # Nothing => d \in drives /\ Len(held[d].data) = SectorSize

\* A drive's file as it is once what is held for it is put there.
Shown(d) == Behind(file[d], held[d])

\* The length that is kept for an open drive counts every whole sector of its
\* file, with what stdio holds for it, whichever calls fail and are lost, and
\* no other one as long as no transfer has failed: rdsector would hide written
\* sectors behind a shorter one, and wrsector fill them anew (bios.c, seldisc,
\* rdsector, wrsector).
LengthAgrees ==
  \A d \in drives : /\ WholeSectors(Shown(d)) <= drivelen[d]
                    /\ d \notin failed => WholeSectors(Shown(d)) = drivelen[d]

\* What a place of a drive holds for CP/M: what is beyond the length that is
\* kept is unwritten, and what is not in the file though it counts is lost.
Missing == <<>>
Image == [d \in Drives |-> LET shown == Shown(d) IN
  [p \in 0 .. MaxPlace |->
     IF (p + 1) * SectorSize <= Len(shown)
       THEN SubSeq(shown, p * SectorSize + 1, (p + 1) * SectorSize)
       ELSE IF d \in drives /\ p * SectorSize < drivelen[d] THEN Missing ELSE Blank]]

\* The places that what is held goes to: its sector, and those between the
\* file's whole sectors and it.
UnsavedPlaces == [d \in Drives |-> {p \in 0 .. MaxPlace :
  /\ held[d] # Nothing /\ p * SectorSize <= held[d].at
  /\ p * SectorSize = held[d].at \/ (p + 1) * SectorSize > Len(file[d])}]

\* What the drives are asked for: at the prompt a boot, maybe.
Request ==
  CASE phase = "serve" /\ syscall -> biosfn
    [] phase \in {"start", "prompt"} -> "boot"
    [] OTHER -> "other"

Disc == INSTANCE SectorDisc WITH
          Drives <- Drives, Places <- 0 .. MaxPlace, Contents <- [1 .. SectorSize -> Units],
          Blank <- Blank, Lost <- Missing,
          image <- Image, unsaved <- UnsavedPlaces, asked <- Request,
          drive <- drive, place <- Place(drive, track, sector), data <- mem[dma], status <- a

\* The drives are discs of sectors: a read that succeeds gives what the
\* selected sector was last written with, a write puts what is in memory there
\* and nowhere else, and what the host refuses later, at a seek or at a boot,
\* was written last or lay in between; a file may be filled up on the way,
\* closed and opened again (bios.c, closeall, seldisc to wrsector).
ImplementsDisc == Disc!Spec

\* A floppy that makedisc wrote is read as it was written, or not at all: the
\* skew of secttran and the place of rdsector undo those of writesector, and a
\* track beyond the file is unwritten (makedisc.c, writesector; bios.c,
\* secttran, rdsector).
MadeDiscReads ==
  [][Serve /\ biosfn = "rdsector" /\ breaks = 0 /\ a' = 0
       /\ plan.drive \in Floppies /\ Shown(plan.drive) = MadeFile
       => mem'[dma] = IF plan.track < MadeTracks
                        THEN Made[Len(sectorxlat) * plan.track + plan.logical + 1] ELSE Blank]_vars

\* The pointers of the open files are those that their FCBs give back.
PointersFit == \A p \in DOMAIN fds : Restored(p) = p

\* What a program that was not interrupted has copied when closeunix reports
\* no error is whole: with GETUNIX the host's file, its last record filled up
\* with ^Z, and with PUTUNIX all of CP/M's file is in the host's (bios.c,
\* openunix to closeunix; utils/getunix.mac and putunix.mac).
Padded(s) == s \o [i \in 1 .. (SectorSize - (Len(s) % SectorSize)) % SectorSize |-> CtrlZ]

CopiesWhole ==
  [][Serve /\ biosfn = "closeunix" /\ breaks = 0 /\ PointersFit /\ a' = 0
       => FlattenSeq(copied) = Padded(unix'[fcb.name])]_vars

\* The program goes on after a call that was not served only if a SIGINT
\* came in between, and no trace or single step makes it so (main.c, haltcpu;
\* "done here so tracing still works").
ServedUnlessBroken == [][GuestReturn => ~syscall \/ broke]_vars

\* The emulator uses a file pointer that the program does not have only after
\* a SIGINT took the call that opens it, or when one was cut to fit into its
\* FCB (bios.c, openunix to closeunix).
WildOnlyAfterBreak == phase = "crashed" => breaks > 0 \/ ~PointersFit

\* What output says of a BIOS call: it interrupts the z80 before the next
\* instruction (main.c:986).
CallServedFirst == [][GuestReturn => ~syscall]_vars
=============================================================================
