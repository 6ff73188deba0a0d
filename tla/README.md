# A verification project for z80-machine

TLA+ models of the z80-machine emulator (the `z80orig` CPU core, the machines
built on it in `rc2014`, `rc2014SB`, `rc2014LL`, `Llichen80` and `z80base`, and
the code they share in `Common`), the TLC configurations that check them, and
proofs for TLAPS.  Paths below are relative to the repository.

## 1. The system

One thread runs `z80_emulator()` for ever: poll the machine, look at what
interrupts it, run one instruction.  Everything else is called from it
(memory, ports, console, debugger, mass storage) or is a Unix signal handler
that writes into the same structure.  There are no other threads, so what is
hard is the order of small steps: signal handlers between two statements of
the loop, a guest program with its own interrupt routine on top of a throttled
console, buffers at their end, switches made of several stores.

| Component | State | Operations | Talks to | Hard | Correct when |
|---|---|---|---|---|---|
| Console buffer and throttle (`Common/src/mc6850_console.c`) | array, start and end index, time of next byte, burst counter | queue a key, dequeue, poll, read data, read status | host console below, the guest's `IN` above | full and drained buffer, throttle racing the reads | a FIFO; rate bounded; nothing stays for ever |
| Host console (`Common/src/host.c`) | socket, stdio's buffer | key hit, get, put, clock | console buffer | stdio reads ahead of `select`, end of file, lost connections | what arrives is delivered |
| Event loop (`z80orig/src/z80.c`, `haltcpu` and handlers in `main.c`) | EVENT, HALT, RESET, NMI, INTR, IFF, IFF2, IMODE, trace, step, sig, PC | poll, dispatch of lines, fetch, EI/DI/IM/HALT/RETN, prompt, SIGINT, SIGUSR1 | all | signal handlers at any statement, competing lines | no line, break or trace request forgotten |
| Instruction set (`z80.c`) | registers, flags | about 700 opcodes | memory, ports | flags at the boundaries, repeated block instructions | agrees with the Z80 |
| Disassembler (`disassem.c`) | | list one instruction | debugger | decodes the opcodes a second time | lines as long as instructions |
| Debugger (`main.c`) | breakpoints, their count, `z80->mem` | reset, trace, step, go, registers, poke, load, breakpoints | loop, memory | a second copy of memory, a separate count | shows and changes the machine |
| Memory and bank switching (`memregion.c`, `*/src/system.c`) | regions, active flags, the last byte of the port | read, write, port write, reset handler, reload | loop, debugger, SIGUSR1 | overlapping regions, switches of several stores | a flat RAM under a ROM |
| I/O ports (`ioports.c`) | handler tables | register, read, write | machines | tables of 255 entries for 256 ports | right handler called |
| BASIC's serial driver (`Z80asm/basic.32/int32K.asm`, `Z80asm/basic/sbcinit.asm`) | ring, two pointers, a counter | interrupt routine, RXA, TXA | ACIA, interrupts | both sides change the counter; nested interrupts | a FIFO |
| Console filter, storage commands (`filter.c`, `filter_storage.c` of Llichen80 and rc2014LL) | two line buffers, escape states, save state | bytes to console and to remote, load, save, catalog | console buffer, host files | shared parse state, commands matched by prefix | a command is run once, data passes unchanged |
| Mass storage (`xstorage.c`) | queues, open file, line | read, write, status, close | port handlers | partial reads, refill of the queue | file bytes in order |
| CP/M BIOS and discs (`z80orig/src/bios.c`, `makedisc.c`) | drive, track, sector, DMA, open files and their lengths, files of the host | select, set, read, write, translate, boots, host files | `haltcpu` between signals and prompt | state kept over boots, short writes, a length kept twice, calls lost to signals | discs of sectors; copies are whole |
| SD drive firmware (`rc2014LL/Arduino`) | line, chain, open file | poll, line, file and chain commands | serial line | re-entrant polling, bursts | a command is run once |
| Guest ROMs, tests (`Z80asm`) | | | | | |

How they interact.  `system_poll()`, called before each instruction, drains the
host's keys into the console buffer and pulls INTR and EVENT while the buffer
has a byte that the throttle lets through (`rc2014/src/system.c:80-95`).  The
loop looks at INTR only when EVENT is set.  The interrupt routine of the guest
reads status and data; each read of data counts towards the burst.  Ports
switch memory.  SIGINT sets EVENT, HALT and a flag that `haltcpu()` answers
with the prompt; SIGUSR1 sets PC to 0 and initialises the machine again from
inside the handler.

`PROJECT.json` lists the hazards of this code, each at the line where it
bites, with the properties that cover it.

## 2. The modules

```
ByteFifo <--- ConsoleBuffer <--- ConsoleRate <--- ConsoleBuffer_proofs
   ^               ^                                    ^
   +---------- SerialInt <--- SerialInt_proofs ---------+
PagedMemory <--- MemBanks <--- MemBanks_proofs
Z80Events <--- Z80Events_proofs

Z80Alu <--- Z80Cpu <--- Z80Main ----+
                   <--- Z80Prefixed +--- Z80Programs <--- Z80Programs_proofs
                   <--- Z80Disasm --+                        ^
                                                  Z80Runs_proofs

Filter <--- FilterLine <--- MCFilter
                       <--- FilterLine_proofs
SectorDisc <--- CpmMachine (EXTENDS CpmBios) <--- MCCpm
                                          <--- CpmMachine_proofs
```

**ByteFifo** is the promise of a buffer between keyboard and program: bytes
come out oldest first, at most once, and may be refused only while `Room`
others wait.  Both `ConsoleBuffer` (with `Room <- 1`: the pseudo-ring may
refuse a byte with a single one waiting, in its last slot) and the driver in
`SerialInt` (with `Room <- SerSize`) implement it.

**ConsoleBuffer** is `mc6850_console.c` with the part of the loop that calls
it.  `intbuffer`, `bs` and `be` are the code's, with one slot more for the
byte behind the array; `burst` is the static counter; `pause` is
`nextm - Host_Millis()`, floored at -1, the only form in which the clock enters
the code.  `PollKey`/`PollDone` are `FromConsoleBuffered_PollConsole` as
`system_poll` calls it, `ReadData` an `IN` from the data port,
`OtherInstruction` everything else; keys arrive and time passes between any
two of them.  **ConsoleRate** adds the ages of the last reads.

**Z80Events** is the loop of `z80_emulator` cut at every statement where a
signal handler makes a difference (`at`), with `haltcpu` and the prompt
inlined, and `Sigint` and `Sigusr1` as actions that may come between any two
of them.  Instructions are told apart as far as they touch interrupts, EVENT
or the console; addresses as far as RESET, RST 38 and NMI go.
`HaltLoadedFirst` chooses the order in which the loop's two plain fields are
accessed: as written (FALSE), or as gcc -O2 compiles it (TRUE: HALT is loaded
before EVENT is cleared, which C allows because the fields are not volatile).
`NmiPoll` chooses what a machine's `system_poll` does for an NMI: nothing, as
all the machines; set the line as `z80base/src/system.c:32` suggests; or set
the line and EVENT, as is done for INTR.

**MemBanks** is `memregion.c` and the four `system.c` that use it, the machine
being chosen in the initial state.  A port write or a reset queues the stores
that the C code makes and `Store` does one of them, so that `Sigusr1` may come
before, between and behind them on every machine: it puts the banks back where
`system_init` or `mem_init` do, and the rest of the switch is done behind it.
`shadow` is `z80->mem`, the copy that the debugger's `Poke` and `LoadHex`
change.  `latch`, `signalled` and `torn` are auxiliary; `torn` says
that Llichen80 has both the ROM and the RAM on, as a signal left it.  **PagedMemory** is the machine as the READMEs
describe it, one flat RAM and a ROM over it, with a table of what each
selection reads and keeps, the torn one included, and what a restart selects on
which machine; `MemBanks` implements it with `FlatRam` put together
from the regions.

**SerialInt** composes the console buffer, the interrupt of the loop and the
guest's driver, instruction by instruction where the ring's variables are
read or written (instructions in between that touch nothing shared are part of
the next step).  INTR is pulled in `SystemPoll`, the interrupt is taken before
an instruction, and EI takes effect at once, as in the code
(`z80.c:793-795`; the Z80 would wait for one more instruction).

**The instruction set.**  `Z80Alu` has the arithmetic: the flag register as a
set of bits, and each of the macros and case bodies that compute flags as an
operator that returns value and flags.  `Z80Cpu` has the registers as they are
in `z80info` (register 6 does not exist, it stands for the memory at HL),
memory as a function that is 0 outside its domain, and how an opcode and its
prefixes lead to one of the code's five switches (`Ins`).  `Z80Main` is the
first switch, `Z80Prefixed` the four behind CB, DD and FD, ED, and DD CB and
FD CB; one action is a group of cases, with X, Y, Z and P the fields of the
opcode.  `Undefined` is what `undefinstr` does.  `Z80Disasm` is the
disassembler: the number of bytes of a line and whether it says that control
goes elsewhere.  `Z80Programs` runs them: `prog` is a short program with its
registers and data, from the state of `init_z80info`; the properties compare
what it leaves behind with plain arithmetic.

**Filter** is `filter.c` and `filter_storage.c` of rc2014LL: one record `flt`
for the file's static variables, and operators that take a record and return
one, named as the functions.  A byte is a token (a command's word, a name, a
digit are one byte each), so that "loadrun" begins with "load" as it does in C;
a message of the filter's own is one token marked as its own.  Names of files
keep their order and length, as the command buffers have an end and are not
cleared.  A null pointer that is used sets `crashed`.  No NUL byte is printed,
typed or in a file, so that `strcmp` and `%s` see a whole buffer.  **FilterLine** is who
calls it: `OutData` is `mc6850_out_to_console_data`, `PollKey` and `PollQuiet`
are `FromConsoleBuffered_PollConsole` built with the filter; machine and user
are both anywhere in what they send.  `said`, `typed`, `screen`, `plain` and
`since` are auxiliary: what was printed and shown in this line, what was typed
since the last command or line, and what was printed since a capture began.

**CpmBios** is `bios.c`: drives that are files of the host, what `seldisc` to
`setdma` set, `drivelen` (what the BIOS believes the length of a file to be),
the transfer of a sector, the boots, and the host's files behind an FCB in the
program's memory.  A file is a sequence of units, `SectorSize` of them to a
sector.  What `fwrite` accepts is `held` by stdio, for the drives and for the
host's files, until the next `fseek` or `fclose` of that file puts it there; that
one may fail (`HostFails`), after any part of it, and what it has not put there is
lost.  The model's stdio holds the last sector only: it stands for every size of
the buffer, as a gap's sectors may fail together with the sector they lead to, or
count without being stored (`WriteGapFails`).  A pointer that `fopen` returns is
one of `Addresses`; what an FCB gives back of it is `Restored`, its low part
(`IntRange`) extended by its sign to the width of a pointer (`WordRange`).
`MadeDisc` is how `makedisc.c` lays out a floppy.  **CpmMachine** is when these
functions are called: an `OUT` sets `syscall`, `biosfn`, EVENT and HALT, and
`haltcpu` looks at signals, tracing and the prompt before it serves the call,
in the code's order.  The programs are sequences of calls: an access of a
sector in BDOS's order, one that does without a translation, `GETUNIX` and
`PUTUNIX` as in `z80orig/utils`.  `failed`, the drives of which a transfer failed,
is auxiliary.  **SectorDisc** is the promise: a read that succeeds gives what the
selected sector holds, a write puts what is in memory there and nowhere else, and
only what was written since the drive was last asked for something (`unsaved`) may
still be lost; then a request says so, or a boot came in between.

## 3. The runs

All bounds are constants of the modules or of the cfg.

| Run | Checks | Bounds, and why they are enough |
|---|---|---|
| `console` | `TypeOK`, `IndexOK`, `RateBound`, `ImplementsFifo`, `WaitingByteIsRead` | two byte values; 3 slots, so that the buffer is full, drained at its end and refilled; burst 1 and a pause of 2 ms, so that a burst ends, the pause is interrupted by ticks and a second burst follows; 2 keys waiting at the host |
| `console_overrun` | `WritesStayInArray`, violated | as above with 4 keys |
| `events` | `TypeOK`, `IffImpliesIff2`, `LinesLatched`, `TraceLatched`, `BreakLatched`, `BreakServed`, `InterruptTaken` | none: the state is finite. The loop as written, NMIs that set EVENT |
| `events_usr1` | `RestartsAtZero`, violated | no NMIs |
| `memory` | `TypeOK`, `MapsFollowPorts`, `ImplementsPaged` | all four machines; a ROM of 1 byte in halves of 2, so that every region has an inside and there is memory behind the ROM in its half; port values 0 to 3, both values of bit 0 with and without another bit; any number of SIGUSR1s, within a switch on all machines |
| `serial` | `SerTypeOK`, `DataStillThere`, `NestingBounded`, `DriverIsFifo`, `EverythingIsRead` | two byte values, buffer and ring of 2 so that both wrap and fill, burst 1 and a pause of 1 ms, one key waiting at the host at a time (any number in a row), `ClockDepth` 2: the clock may tick in BASIC and in the interrupt routine, but not in an interrupt nested in that; the proofs of the first four are for every `ClockDepth` |
| `z80` | `CpuTypeOK`, `ArithmeticExact`, `BranchesCompare`, `BlockInstructions`, `StackRestored`, `PairsAgree`, `ListingAgrees` | every opcode behind every prefix from two states, the second at the ends of registers and memory; all pairs of decimal bytes with tens of 0, 4, 5 and 9; operands 0, 1, 128 and 255, words of two of them; blocks of 1 to 3 bytes over 4 cells, so that source and target overlap in each way; stacks at 0, 1, 2 and inside memory |
| `z80_daa` | `DecimalCarry`, violated | two tens are enough |
| `filter` | `FilterTypeOK`, `WholeOrNothing`, `LineShown`, `AutostartExact`, `SavedListing` | 5 turns shared by machine and user, the last one of the machine from a longer list; commands that leave, wipe and extend each other's buffers, a refused file, broken escapes, numbered, unnumbered and overlong lines; a line buffer of 4, a command buffer of 6 and an autostart buffer of 5, each shorter than something that is sent |
| `filter_tail` | `CommandAsTyped`, violated | 2 turns |
| `cpm` | `CpmTypeOK`, `LengthAgrees`, `WildOnlyAfterBreak`, `ImplementsDisc`, `MadeDiscReads`, `CopiesWhole`, `ServedUnlessBroken` | a hard disc of 3 sectors a track that starts with 3 sectors and a half; a floppy of 2 with the skew 2, 1, empty or written by `makedisc` on 2 tracks, so that a lost call leads to a sector that it does not have; a drive that cannot be selected; sectors of 2 units, so that one can be torn, and gaps of up to 2 sectors; two programs in a row, so that a write is followed by a request that finds out what became of it; `GETUNIX` of a file of a record and a half and of one that is not there and `PUTUNIX` of none and of two records, each alone (`CopyWeight` 2); pointers 4 and 20, of which 20 does not fit into an int of 16 values and comes back as 4; one SIGINT anywhere, boots and single steps at any prompt; the host fails anywhere |
| `cpm_call_lost` | `CallServedFirst`, violated | one program |

`filter`, `z80` and the two runs of `MCCpm` allow a state without a successor: a program halts,
the turns or programs are used up, the emulator has crashed.

What they show:

* The console buffer keeps its indices in order and is a FIFO under every
  order of typing, polling and reading.  Its throttle bounds the rate: of
  `kBurstCount + 3` bytes in a row the first and the last are more than
  `kThrottleMS` apart.  When the host is silent everything that was taken
  reaches the guest.
* The loop as it is written forgets neither lines, nor trace requests, nor
  SIGINTs, wherever the signal comes, and a pending interrupt is taken.
* All four machines' memories are the paged memory of their READMEs (with the
  one exception about rc2014LL below), for every sequence of reads, writes,
  switches, resets and SIGUSR1s, those within a switch included: what a torn
  switch of Llichen80 leaves is the ROM read over the RAM written, up to the next
  switch.  The debugger's writes are stutters of it:
  they never change what the CPU reads.
* BASIC's driver loses, doubles or reorders nothing while its ring has room,
  with interrupts at every instruction; its stack holds
  fewer than `ClockDepth + 2 * (kBurstCount + 2)` return addresses.  Its liveness needs no more than a program that keeps asking.
* Programs of decimal, 8-bit and 16-bit arithmetic, comparisons, counted loops
  and block instructions compute what they should, apart from the decimal cases
  that `HalfMissed`, `BorrowMissed`, `CarryDropped` and `CarryAdded` name;
  a stack that wraps restores what was pushed; shifts and bit operations undo
  each other in registers and in memory, with and without an index.
* The disassembler's lines are as long as the instructions, but for the
  opcodes that `Misread` names.
* A line of the machine that holds no command reaches the console whole,
  whatever came before and whatever the console asks for in between; the
  machine's command, if it fits into its buffer short of the byte that is never
  cleared and no escape stands before its own, runs as it was sent or, if the
  console's end of a command wiped it, not at all; a save leaves exactly the numbered lines; BASIC is
  booted when its phrase is a whole line, and only then.
* CP/M's drives are discs of sectors, whichever calls a SIGINT takes and whenever
  the user boots: what is not there any more was accepted by stdio and refused by
  the host later, and the next request for the drive reports it, unless a boot has
  closed the file.  `drivelen` never hides a sector that is there, and counts none
  that is not as long as no transfer of the drive failed; after a failure it may,
  up to the next boot.  What `makedisc` wrote is read back through the skew.  A file
  copied from or to the host is whole when `closeunix` reports no error, if nobody
  pressed ^C and pointers fit into an FCB.  Tracing and single steps do not lose a
  call.

The violated properties are sentences of the repository that the code does not
keep; each is in `PROJECT.json` "findings":

* `console_overrun`: `FromConsoleBuffer_QueueChar` stores before it compares,
  and writes one byte behind the array when the buffer has reached its end.
* `events_usr1`: SIGUSR1 between reading the opcode and stepping PC restarts
  the machine at 1.
* `z80_daa`: `daa` sets CARRY from its own addition only: 90 + 90 is 80
  without a carry.
* `filter_tail`: a command typed at the console runs with the tail of an
  earlier, longer one.
* `cpm_call_lost`: a BIOS call that coincides with a SIGINT is not served
  before the program goes on.

### Other differences met while modelling

Where the code differs from a document, from the Z80 or from what one would
expect, the models follow the code; what they leave out is listed in section 5,
and an item below that no model reaches says so.

Console, loop and memory:

* a burst is one or two bytes longer than `kBurstCount`
  (`mc6850_console.c:209`, `mc6850_console.h:57-59`); `RateBound` states the
  bound that holds;
* as compiled by gcc -O2 (`HaltLoadedFirst = TRUE`) a SIGINT between the load of
  HALT and the store to EVENT is lost, `BreakServed` is violated and so is
  `BreakLatched`;
* the debugger's `h` pulls RESET without EVENT, and the reset waits for the
  next interrupt or break (`main.c:281`);
* an NMI raised as the comment in `z80base/src/system.c:32-33` says is not
  looked at until something else sets EVENT (`LinesAreLatched` is therefore
  proved for `NmiPoll # "line"` only);
* SIGUSR1 resets neither IFF, IFF2 nor IMODE (`main.c:1166`), though
  `Llichen80/README.md:111-113` calls it a hard reset;
* on Llichen80 SIGUSR1 between the two stores of `page_toggle` leaves both the ROM
  and the RAM on, until the next switch (`torn`), and between its test and its stores
  the toggle switches the ROM off that the handler has put back, so that the machine
  starts in RAM, where `Llichen80/README.md:112-115` has the ROM
  (`Llichen80/src/system.c:46-55`); `ImplementsPaged` has both, as a restart that
  goes wrong and as a switch that is made behind it;
* on rc2014LL SIGUSR1 switches the ROM on without telling `romen_update`, which
  then ignores the guest's next 1 (`rc2014LL/src/system.c:42`); `FollowsPort`
  holds only until the first signal;
* on rc2014 SIGUSR1 leaves the banks as they are (`main.c:1176`), and with the
  RAM selected the machine restarts in cleared RAM (`README.md:109-111`);
  `Started` says so;
* rc2014LL's ROM region is 32k long, so with the ROM selected the RAM at
  $2000-$7FFF is not read (`rc2014LL/src/system.c:24`,
  `rc2014LL/README.md:20-26`); the table in `MemBanks` says so;
* `z80->mem` is loaded with the zeroed RAM over the ROM, and without the last
  byte of every region (`memregion.c:109`, `rc2014/src/system.c:185-188`);
* a poked byte is not read by the CPU (`main.c:540`, `README.md:47-48`);
* the emulated ACIA ignores RTS, so the ring of BASIC's driver may overflow;
* the end of the ring is never compared in `sbcinit.asm:102-103,131-132`, where
  the instruction is commented out; `SerialInt` models `int32K.asm`.

Instruction set and disassembler:

* `arith8` leaves the carry-in out of HALF and judges the overflow of a
  subtraction as that of an addition; a decimal `adc` with carry and units that
  make 15, and a decimal `sbc` with borrow and equal units, are therefore wrong;
* `daa` after a subtraction sets CARRY where only the tens were borrowed from;
* `neg` has CARRY and HALF of the addition it is made of; `adc hl` and `sbc hl`
  find ZERO in the sum before it is cut to 16 bits; `add hl` and `ccf` do not
  touch HALF;
* `in f,(c)` writes through the null pointer of register 6; an undefined opcode
  behind DD CB steps over 3 of its 4 bytes;
* the disassembler lists RST as 2 bytes, FD as a call, does not count most
  displacements behind DD, and calls itself without end on memory full of DD.

Filter:

* commands from the console are matched one after the other, and a loadrun
  also loads (`filter_storage.c:554`); the machine's run once;
* the console's commands do not set the current directory first, so that a
  save or catalog before any command of the machine uses a null pointer;
* an end of a command or line at the console wipes a command of the machine
  that is under way;
* a second save drops the file of the first; a save of an empty program never
  ends and shows nothing more; the console's save in the middle of a command
  captures its rest;
* answers to the console's commands wait until the machine prints;
* an escape before an end of line is dropped towards the console but passed to
  the machine;
* commands end with BEL, where `rc2014LL/README.md` has "}"; the second of two
  ends of line of a typed file is typed as it is;
* what waits for either side is queued in arrays without a test of their end.

CP/M:

* `seldisc` adds the drive to the first letter of "drives/A-Hdrive", so that
  drive B is "erives/A-Hdrive" (`bios.c:364`);
* the hard discs' allocation vectors overlap the reboot addresses on the stack
  at 0xEF00, and the hard disc is said to have more sectors than there are;
* after a lost call the program goes on with what the last one returned; a
  call that was lost and is served after the prompt's `b` uses the registers of
  the boot;
* `settrack` and `setsector` only warn; `secttran` reads behind the skew for a
  sector that a floppy does not have (`StrayBytes`);
* a boot ignores the errors of `fclose`, and with them what the host then refuses
  (`bios.c:109`); `closeunix` reports them, but `PUTUNIX` goes on the same way
  whatever it answers (`utils/putunix.mac:71-75`);
* a `FILE *` is cut to four bytes in the FCB and extended by its sign
  (`bios.c:678`, `bios.c:738`): where it has eight bytes, the file is used through
  another pointer than `fopen` returned.  `WildOnlyAfterBreak` and `CopiesWhole` say
  what holds while pointers fit;
* a sector that stdio accepted and lost still counts in `drivelen`, so that a read
  of it fails where a sector behind the end reads as unwritten;
* in no model: the first two items of this list; the printer's file, which is
  written anew after ^D; a DMA address near the end, which overruns `mem`.

### Fairness

* `ConsoleBuffer`: time passes, and `system_poll` and the instruction loop go
  on (weak fairness; nothing in the loop waits).  The guest reads its data
  port again and again (strong fairness of `ReadData`, because the poll
  disables it over and over): a program that waits for input does that, and
  without it nothing could be promised.  `WaitingByteIsRead` is conditional on
  the host falling silent, since polling takes every key the host has before
  it returns.
* `Z80Events`: weak fairness of the loop as a whole.  The prompt is not in it:
  a user may stay there.  Neither are bytes and signals.
* `SerialInt`: weak fairness of the loop, of time and of polling; strong
  fairness of BASIC's call of RXA.
* The clock is taken not to step back.  `ClockDepth` bounds at which depth of
  nested interrupts a millisecond may still pass; without such a bound a slow host
  nests without end, because a new byte is let through each time.  The run
  has 2 of it: the clock ticks in the routine, but not in one nested in it.
* `Z80Programs`, `FilterLine` and `CpmMachine` have no fairness and no liveness
  property: nothing in them waits for another.

## 4. The proofs

TLAPS checks the following for every value of the constants, from the
assumptions named in the modules: `ConsoleAssumption` (a buffer of at least one
slot, natural numbers for burst and pause), `EventsAssumption` (the two choices
are among those listed), `MemAssumption` (a ROM of at least one byte, shorter
than half of the address space), `SerialAssumption` (a ring of at least one byte),
`BiosAssumption` and `CpmAssumption` (sectors of at least one unit, drives whose
tracks have sectors and whose skew visits each sector, files made of units, pointers
other than null, and a pointer's width that is a multiple of an int's),
`PlaceAssumption` (the places of a disc that `ImplementsDisc` looks at reach as far as
the tracks and sectors that programs can select, through a table that is read behind
its end included),
`InputsAssumption` and `OperandsAssumption` (ports answer with bytes, operands
are bytes), `FilterAssumption` and `LineAssumption` (arrays of at least one byte,
an autostart buffer in which the phrase and a byte more have room, no byte
printed, typed or in a file that is itself the word "new", by which the commands
of the filter are counted).  TLC evaluates each of them in a run.  A theorem's premise beyond
these is named with it.

`ConsoleBuffer_proofs`
* `TypeCorrect`, `IndicesInOrder`: the inductive invariant is
  `IInv == TypeOK /\ IndexOK`.  `TypeOK` alone is not inductive: that
  `bs + 1` stays in the array after a read needs `bs < be`.
* `BufferIsFifo`, `Spec => ImplementsFifo`.  `QueueCharAppends` and
  `DequeueTakesHead` say what the two operations on the indices do to the
  sequence `Pending`; `NextRefines` goes through the actions, each one a step of
  the FIFO or a stutter.
* `RateIsBounded`, `RateSpec => []RateBound`.  `RateBound` looks only at the
  oldest of the remembered reads; what keeps it is `AgesOK`, about all of them:
  while the throttle lets bytes through, all reads but those of the burst are
  older than the pause; while it does not, pause and ages run together.  The
  second part is where a burst of `kBurstCount + 2` bytes comes from.

`SerialInt_proofs`
* `DriverTypeCorrect` and `AnnouncedByteStays` from the inductive `SerIInv`.  Of
  its parts `ControlOK` says that interrupts are on exactly where they may come
  and that only the first address on the stack is BASIC's, `RxaOK` what RXA holds
  in registers about the ring (it loads the counter under DI and stores it later),
  `RingOK` that the two pointers are as far apart as the counter says, one less
  between the increment of the pointer and the store of the counter.
* `NestingIsBounded`, `SerSpec => []NestingBounded`, for every burst.  The bound on
  the depth is not inductive; `NestOK` pays for each interrupt with a byte that
  the throttle still lets through (`Reads`), two addresses for a byte, as a byte
  read by a nested routine leaves an INTR behind that is stale.
* `SerialDriverIsFifo`, `SerSpec => DriverIsFifo`: the ring with the console
  buffer under it is one FIFO, with interrupts between any two instructions.
  `AtAcia` and `InRing` are joined in `Pending`; the store of the routine moves a
  byte from one to the other and is a stutter, or the loss of a byte when the ring
  is full, which the FIFO allows.  It builds on the lemmas of
  `ConsoleBuffer_proofs`.

`Z80Events_proofs`
* `TypeCorrect`, and `FlipFlopsAgree` from the inductive `IffImpliesIff2`.
* `TraceIsLatched` for both orders of the accesses: `TraceInv` says at which
  places EVENT and HALT, or HALT alone, must be up while tracing is on.
* `LinesAreLatched` for `NmiPoll # "line"`: `LinesInv` says that with a line
  pulled EVENT is up or the loop is on its way to the lines.
* `BreakIsLatched` for `HaltLoadedFirst = FALSE`: `BreakLatched` is inductive.
  With the compiled order it is violated, so the premise is needed.

`MemBanks_proofs`
* `PortsSelectMaps`, `Spec => []MapsFollowPorts`, with SIGUSR1 anywhere.
  `MapsFollowPorts` speaks of the moments between switches and says nothing of what
  is still to be stored: `TwoMapsInv` lists what may be left of a toggle and what is
  then done already, a restart within it included, `RomenInv` the same for rc2014LL,
  with `lastByte` agreeing with the port in bit 0 - without that `romen_update` would
  swallow a change.
* `TypeCorrect`, `Spec => []TypeOK`, for all machines: every
  store that is queued is for a region that the machine has, and each byte read,
  kept or shown was loaded, written or floats on an empty bus.  `TypeInv` adds that
  what is left to be stored is a sequence of such stores.
* `RegionsArePaged`, `Spec => ImplementsPaged`, with SIGUSR1 anywhere: the regions, searched first to last for a read and for all
  writable ones for a write, are one flat RAM under a ROM.  `PagedInv` adds to
  `BankInv` that the ROM is never written, that the upper regions are always on and
  that rc2014SB has only one switch to make.  `ReadIs` and `WriteIs` say what the
  search does on each machine; a switch takes effect in the abstract memory at
  one of its two stores, the other is a stutter.

`FilterLine_proofs`.  The filter is made of folds and recursive functions: a file is
typed, the screen summed up and a console's command run byte by byte, token by
token, name by name.  `LeastNat` and `NatSet` get induction over numbers from what
the library has on finite sets; `FoldExists` unfolds a fold into the function of its
partial results and `RecursionExists` shows that a function defined by recursion
exists, so that what each step keeps the whole keeps.  There is then one lemma for
what each handler and each stage keeps.
* `FilterTypeCorrect`, `LineSpec => []FilterTypeOK`.  `LineTyped` adds to the types
  that only the filter's own tokens wait for the console between two bytes of the
  machine, which is what makes an answer to a console's command unmistakable.
* `CommandsWholeOrNot`, `LineSpec => []WholeOrNothing`, from `LineInv`: `StageFits` says
  which stage the line printed so far leaves the filter in - `Openings`, or an
  escape at its end - and `Collected` that the buffer of a command under way holds
  what followed its opening but for a beginning of it that the console has cleared.
  `NoDouble` is needed, as after two escapes a brace is let through, and `Fitting`,
  as a longer command is cut off and `Cleared` stops before the last byte.
* `LinesAreShown`, `LineSpec => []LineShown`: what `Shown` picks from the screen is
  the line so far, short of an escape that is held back (`Released`); a poll of the
  console can change neither, whatever it runs.
* `BootsOnThePhrase`, `LineSpec => AutostartExact`, an action property, from
  `LineInv` and `Buffered`: the autostart buffer is the beginning of the line, and long
  enough to tell a line that only begins with the phrase.  `News` counts what each
  handler types; of the names that fit, a command of the machine has one.

`CpmMachine_proofs`
* `CallsAreServed`, `Spec => ServedUnlessBroken`, an action property.  It follows
  from `CallOnItsWay`: a call that no SIGINT came to is at the top of the loop
  with EVENT up and no signal waiting, or `haltcpu` is already past the signal,
  also while the prompt of a single step is shown.
* `CpmTypeCorrect`, `Spec => []CpmTypeOK`, and `LengthsAgree`,
  `Spec => []LengthAgrees`, from the inductive `CpmInv`.  Its part `DiscOK` has the
  length: what stdio holds for a drive is a sector that fits behind or within the
  file, and with it the file is as long as `drivelen` says, or shorter, if a transfer
  failed.  That each way to fail leaves it so rests on the lemmas on `Whole`, `Stored`
  and `Put` (units cut anywhere, written behind any end).  `EmulatorOK` and `ProgramOK`
  say which call waits, and that each call in `todo` has its arguments.
* `WildNeedsBreak`, `Spec => []WildOnlyAfterBreak`, from `Unbroken`: as long as no
  SIGINT came there is no prompt (`Quiet`), each call is served before the next, and
  the program has checked what `openunix` or `createunix` returned before it uses the
  file (`HasFile`, `FileReady`).  While all pointers fit, what the FCB gives back is
  the open file's (`RestoredIs` is the arithmetic of that).
* `DrivesAreDiscs`, `Spec => ImplementsDisc`: the initial files are an image of sectors,
  and every step is one of `SectorDisc` or a stutter.  `SectorOf` is what a place of a
  drive holds; `PutSectors` says what a flush that fails may take away, `GapSectors`,
  `DataSectors` and `WrittenSectors` what a gap and a sector written behind it change,
  `GapLeft` what a gap leaves that was cut short.  `SelectSectors`, `WriteSectors` and
  `ClosedSectors` carry that to each way a drive is selected, written and closed, and
  `ServeOnDisc` to the calls.  That a transfer's place is among the places looked at
  takes `PlacesOK`: track, sector and HL of the selected drive, and BC while a call
  waits to be served, also when a SIGINT takes the call that was to set one of them or
  a boot comes in between.
* `MadeDiscsAreRead`, `Spec => MadeDiscReads`, an action property, for every skew that
  visits each sector of a track once, every size of a sector and every content.
  `MadeSector` is the arithmetic: what `makedisc` stored at the place where
  `secttran` and `rdsector` look for a logical sector is that sector, and the track
  behind its last is unwritten (`SkewOnce`: a table that visits each sector visits none
  twice).  `OnPlan` follows the access through its five calls: which are left, what
  BC holds while one waits, and what it has set when it is served (`AtStage`), or that
  BDOS has given it up (`Abandoned`).
* `FilesAreCopied`, `Spec => CopiesWhole`, an action property, for files and records of
  any length.  `OnCopy` follows GETUNIX and PUTUNIX through their calls: between two, what
  GETUNIX has copied is the file up to its block, filled up with ^Z, and what PUTUNIX
  has copied is the file with what stdio holds for it; a call that is served and not yet returned from is one
  record ahead, and a refused one ends the program before it closes anything.  `ReadsRecord`
  and `WritesRecord` say what `rdunix` and `wrunix` do at such a place, `PaddedIs` that
  the first block behind the end is where a file is read whole, and
  `FlattenAppend` that a record more is copied at the end (`FlattenSeq` is a recursive function:
  `NatSet`, the induction for a given set, shows what it is).

`Z80Programs_proofs`
* `AnyCodeKeepsTypes`: from any registers and any bytes in memory, and with any
  answers of ports, every step of every opcode behind every prefix leaves registers, flags,
  interrupt state and memory in their ranges.  It speaks of code that
  overwrites itself and of data run as code, which no program of `Z80Programs` is.
  The invariant is `CpuOK`; `SetsAreBytes` relates the flag set to the byte that
  is pushed, and there is one lemma for each group of instructions.
* `InstructionsKeepTypes`, `Spec => []CpuTypeOK`: the programs start from such a
  state for every set of operands.

`Z80Runs_proofs` follows programs of `Z80Programs`, instruction by instruction.
* `ComparisonsBranch`, `Spec => []BranchesCompare`, for every set of operands:
  `CP n`, `JP Z`, `JP C` tell less, equal and greater apart.  `BranchInv` says
  where the program has come to and what its flags and D then are (`BranchAt`);
  `CompareFlags` is about the arithmetic of the flags, `CompareRuns`, `JumpRuns`,
  `ImmediateRuns` and `HaltRuns` about the instructions, `Selects` about the
  decoding of their opcodes.
* `ArithmeticIsExact`, `Spec => []ArithmeticExact`, for every set of operands and
  digits.  `BcdInv` and `SumInv` say what is computed where (`BcdAt`, `WideAt`,
  `ByteAt`) in terms of the very operators of `Z80Alu`, so that following a program
  needs no arithmetic; the lemmas that do are about those operators alone.
  `DecimalAdd` and `DecimalSubtract` take the result of an addition or a
  subtraction in tens and units, `16 * q + p`, and go through the rows of daa's
  table that it can lead to (`Above`, `Below`); `DecimalSums` and
  `DecimalDifferences` show where the four exceptions that the property names come
  from: `HALF` should be about `p`, but leaves the carry in out (`HalfMissed`,
  `BorrowMissed`), and CARRY is that of daa's own addition (`CarryDropped`,
  `CarryAdded`; of these the theorem says the digits and not the carry).  `BytesAdd` puts the
  two bytes and the carry between them together.

What stays with TLC, and why:

* liveness (`WaitingByteIsRead`, `EverythingIsRead`, `BreakServed`,
  `InterruptTaken`): the provers know neither fairness nor ENABLED;
* `SavedListing`: a listing put together from the bytes of a capture by the rank of
  those that are kept, where the provers would need the ranks of a set that grows;
* `BlockInstructions` and `StackRestored`: the constants have no part in these
  programs but for the bytes that ports answer, so that TLC runs all of them (for
  any count it would be an induction over the count); `ListingAgrees`, where the
  disassembler calls itself;
* `PairsAgree`: two instructions in a row, in reach of the lemmas on programs but
  not done.

## 5. What is not modelled, and the plan

Left for later, in this order:

| # | Module | Of | Abstract specification, properties, theorems |
|---|---|---|---|
| 1 | proofs | `Z80Programs` | `PairsAgree` for all operands |
| 2 | proofs | `FilterLine` | `SavedListing` |
| 3 | `HostConsole` | `host.c` | `ByteFifo` again, with stdio's read-ahead and the socket; composed with `ConsoleBuffer` |
| 4 | `MassStorage` | `xstorage.c` | the bytes of a file in order through the refilled queue |
| 5 | `SdDrive`, `Ports` | `SDDrive.ino`, `ioports.c` | re-entrant polling; the table's last entry |
| 6 | `Debugger` | `main.c` | the count of breakpoints is the number of them |

Not modelled in what is:

* console: the unbuffered ports (used by no machine) and output, which never
  waits;
* instruction set: the refresh register, which the emulator does not count;
  time; a port answers with one of `Inputs`; a block instruction with a count of 0,
  which stands for 65536, is not followed to its end; `IffImpliesIff2` would not
  notice a `retn` that forgets to restore IFF;
* filter: NUL bytes, at which `strcmp` (`filter.c:115`) and the `%s` of a saved line
  stop; the text of its messages and of a catalog, subdirectories, the end of
  the queues; the copies under `Llichen80`, which are linked but not called there
  (no `FILTER_CONSOLE`);
* CP/M: console, list, punch, reader and clock functions, the tables that a
  boot writes into memory, `makedisc`'s directory, and errors of the host when
  it reads; a second FCB.

Not planned: `cpm.c` (a table), BASIC and the test ROMs (programs for the
machine), the memory's dump and the shell command of the debugger.
