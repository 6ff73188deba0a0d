----------------------------- MODULE Z80Events -----------------------------
(***************************************************************************)
(* How the emulator's loop (z80orig/src/z80.c, z80_emulator) reacts to     *)
(* everything that is not the next instruction: the console's interrupt,   *)
(* NMI, RESET, tracing, the debugger's prompt, and the two Unix signals    *)
(* whose handlers write into the CPU's state while the loop runs           *)
(* (z80orig/src/main.c).                                                   *)
(*                                                                         *)
(* The loop is cut where a signal handler can make a difference: "at" is   *)
(* the place it has reached.  A handler runs to its end between two steps. *)
(* Addresses are told apart only as far as RESET and the vectors go.       *)
(***************************************************************************)
EXTENDS Naturals

CONSTANTS
  HaltLoadedFirst,  \* the compiled loop loads HALT before it clears EVENT
  NmiPoll           \* what system_poll does for an NMI, see PollNmi

ASSUME EventsAssumption ==
  /\ HaltLoadedFirst \in BOOLEAN
  /\ NmiPoll \in {"never", "line", "line_and_event"}

VARIABLES
  at,      \* where the loop is
  ret,     \* where the loop goes on after the debugger's prompt
  event,   \* EVENT: something has to be looked at before the next instruction
  halt,    \* HALT: haltcpu is to be called
  loaded,  \* the value of HALT the compiled loop has loaded
  sig,     \* a SIGINT was caught and not yet answered
  reset, nmi, intr,  \* the "lines"
  iff, iff2, imode,  \* the interrupt flip-flops and mode
  trace, step,       \* tracing, single-stepping
  pc,      \* the program counter
  avail,   \* the console has a byte for the guest
  restarted  \* auxiliary: SIGUSR1 was handled, no opcode was fetched since

lineVars  == <<reset, nmi, intr>>
iffVars   == <<iff, iff2, imode>>
flagVars  == <<event, halt>>
debugVars == <<trace, step>>
vars == <<at, ret, event, halt, loaded, sig, reset, nmi, intr, iff, iff2, imode,
          trace, step, pc, avail, restarted>>

Address == {"0x00", "0x01", "0x38", "0x66", "program"}

\* PC++, as far as addresses are told apart.
Succ(a) == IF a = "0x00" THEN "0x01" ELSE "program"

\* Places in the loop; "sig" and "take" are inside haltcpu, "prompt" is command().
Place == {"poll", "event", "clear", "test", "halt", "sig", "take", "lines",
          "fetch", "inc", "exec", "prompt"}

\* init_z80info clears everything; main() asks for a command first.
Init ==
  /\ at = "prompt" /\ ret = "poll"
  /\ event = FALSE /\ halt = FALSE /\ loaded = FALSE /\ sig = FALSE
  /\ reset = FALSE /\ nmi = FALSE /\ intr = FALSE
  /\ iff = FALSE /\ iff2 = FALSE /\ imode = 0
  /\ trace = FALSE /\ step = FALSE
  /\ pc = "0x00"
  /\ avail = FALSE
  /\ restarted = FALSE

-----------------------------------------------------------------------------
(* Outside the loop.                                                       *)

\* A byte becomes available behind the console's throttle.
ByteArrives ==
  /\ ~avail
  /\ avail' = TRUE
  /\ UNCHANGED <<at, ret, flagVars, loaded, sig, lineVars, iffVars, debugVars, pc, restarted>>

\* interrupt(): ctrl-'-' asks for the debugger.
Sigint ==
  /\ event' = TRUE
  /\ halt' = TRUE
  /\ sig' = TRUE
  /\ UNCHANGED <<at, ret, loaded, lineVars, iffVars, debugVars, pc, avail, restarted>>

\* sigusr1(): the CPU starts again at 0 (the machine's banks: module MemBanks).
Sigusr1 ==
  /\ pc' = "0x00"
  /\ restarted' = TRUE
  /\ UNCHANGED <<at, ret, flagVars, loaded, sig, lineVars, iffVars, debugVars, avail>>

-----------------------------------------------------------------------------
(* The loop up to haltcpu.                                                 *)

(* No machine raises NMI; z80base only says how its system_poll would:     *)
(* "line" is what it says, "line_and_event" does it like INTR is done.     *)
PollNmi ==
  \E raised \in IF NmiPoll = "never" THEN {FALSE} ELSE BOOLEAN :
    /\ nmi' = (nmi \/ raised)
    /\ event' = (event \/ avail \/ (raised /\ NmiPoll = "line_and_event"))

\* system_poll: a byte at the console pulls INTR.
SystemPoll ==
  /\ at = "poll"
  /\ at' = "event"
  /\ intr' = (intr \/ avail)
  /\ PollNmi
  /\ UNCHANGED <<ret, halt, loaded, sig, reset, iffVars, debugVars, pc, avail, restarted>>

TestEvent ==
  /\ at = "event"
  /\ at' = IF ~event THEN "fetch" ELSE IF HaltLoadedFirst THEN "test" ELSE "clear"
  /\ UNCHANGED <<ret, flagVars, loaded, sig, lineVars, iffVars, debugVars, pc, avail, restarted>>

ClearEvent ==
  /\ at = "clear"
  /\ event' = FALSE
  /\ at' = IF ~HaltLoadedFirst THEN "test" ELSE IF loaded THEN "halt" ELSE "lines"
  /\ UNCHANGED <<ret, halt, loaded, sig, lineVars, iffVars, debugVars, pc, avail, restarted>>

TestHalt ==
  /\ at = "test"
  /\ loaded' = halt
  /\ at' = IF HaltLoadedFirst THEN "clear" ELSE IF halt THEN "halt" ELSE "lines"
  /\ UNCHANGED <<ret, flagVars, sig, lineVars, iffVars, debugVars, pc, avail, restarted>>

(* haltcpu: HALT is taken back, then a signal is answered with a prompt or *)
(* a trace line is printed and the next one asked for.                     *)
ClearHalt ==
  /\ at = "halt"
  /\ halt' = FALSE
  /\ at' = "sig"
  /\ UNCHANGED <<ret, event, loaded, sig, lineVars, iffVars, debugVars, pc, avail, restarted>>

\* A slip: tracing is looked at before the signal.
TestSig_TraceFirst ==
  /\ at = "sig"
  /\ IF trace
     THEN /\ event' = TRUE /\ halt' = TRUE
          /\ at' = IF step THEN "prompt" ELSE "lines"
          /\ ret' = IF step THEN "lines" ELSE ret
     ELSE at' = (IF sig THEN "take" ELSE "lines") /\ UNCHANGED <<ret, flagVars>>
  /\ UNCHANGED <<loaded, sig, lineVars, iffVars, debugVars, pc, avail, restarted>>

TestSig ==
  /\ at = "sig"
  /\ IF sig
     THEN at' = "take" /\ UNCHANGED <<ret, flagVars>>
     ELSE IF trace
          THEN /\ event' = TRUE /\ halt' = TRUE
               /\ at' = IF step THEN "prompt" ELSE "lines"
               /\ ret' = IF step THEN "lines" ELSE ret
          ELSE at' = "lines" /\ UNCHANGED <<ret, flagVars>>
  /\ UNCHANGED <<loaded, sig, lineVars, iffVars, debugVars, pc, avail, restarted>>

TakeSig ==
  /\ at = "take"
  /\ sig' = FALSE
  /\ at' = "prompt"
  /\ ret' = "lines"
  /\ UNCHANGED <<flagVars, loaded, lineVars, iffVars, debugVars, pc, avail, restarted>>

-----------------------------------------------------------------------------
(* The interrupt lines, in the order of the code.                          *)

TakeReset ==
  /\ reset
  /\ iff' = FALSE /\ iff2' = FALSE /\ imode' = 0
  /\ pc' = "0x00"
  /\ reset' = FALSE
  /\ event' = (event \/ nmi \/ intr)
  /\ at' = "fetch"
  /\ UNCHANGED <<nmi, intr>>

\* A slip: INTR is not looked at again after the NMI.
TakeNmi_Forgets ==
  /\ ~reset /\ nmi
  /\ pc' = "0x66"
  /\ iff' = FALSE
  /\ nmi' = FALSE
  /\ at' = "fetch"
  /\ UNCHANGED <<event, reset, intr, iff2, imode>>

TakeNmi ==
  /\ ~reset /\ nmi
  /\ pc' = "0x66"
  /\ iff' = FALSE
  /\ nmi' = FALSE
  /\ event' = (event \/ intr)
  /\ at' = "fetch"
  /\ UNCHANGED <<reset, intr, iff2, imode>>

\* In mode 0 the "device" supplies the opcode, PC is not moved.
TakeIntr ==
  /\ ~reset /\ ~nmi /\ intr /\ iff
  /\ IF imode = 0
     THEN at' = "exec" /\ UNCHANGED pc
     ELSE at' = "fetch" /\ pc' = IF imode = 2 THEN "program" ELSE "0x38"
  /\ iff' = FALSE /\ iff2' = FALSE
  /\ intr' = FALSE
  /\ UNCHANGED <<event, reset, nmi, imode>>

\* A slip: a masked interrupt is not looked at again.
DeferIntr_Forgets ==
  /\ ~reset /\ ~nmi /\ intr /\ ~iff
  /\ at' = "fetch"
  /\ UNCHANGED <<event, lineVars, iffVars, pc>>

DeferIntr ==
  /\ ~reset /\ ~nmi /\ intr /\ ~iff
  /\ event' = TRUE
  /\ at' = "fetch"
  /\ UNCHANGED <<lineVars, iffVars, pc>>

NoLine ==
  /\ ~reset /\ ~nmi /\ ~intr
  /\ at' = "fetch"
  /\ UNCHANGED <<event, lineVars, iffVars, pc>>

Lines ==
  /\ at = "lines"
  /\ TakeReset \/ TakeNmi \/ TakeIntr \/ DeferIntr \/ NoLine
  /\ UNCHANGED <<ret, halt, loaded, sig, debugVars, avail, restarted>>

-----------------------------------------------------------------------------
(* The instruction.  Reading the opcode may meet a breakpoint; the program *)
(* counter is stepped after the opcode was read.                           *)

Fetch ==
  /\ at = "fetch"
  /\ \/ at' = "inc" /\ UNCHANGED ret
     \/ at' = "prompt" /\ ret' = "inc"
  /\ restarted' = FALSE
  /\ UNCHANGED <<flagVars, loaded, sig, lineVars, iffVars, debugVars, pc, avail>>

IncPC ==
  /\ at = "inc"
  /\ at' = "exec"
  /\ pc' = Succ(pc)
  /\ UNCHANGED <<ret, flagVars, loaded, sig, lineVars, iffVars, debugVars, avail, restarted>>

\* Slips: EI sets one flip-flop only; IM takes its mode from the opcode's bits.
ExecEi_One == iff' = TRUE /\ UNCHANGED <<flagVars, iff2, imode, pc, avail>>
ExecIm_Bits == \E m \in {0, 2, 3} : imode' = m /\ UNCHANGED <<flagVars, iff, iff2, pc, avail>>

ExecEi   == iff' = TRUE /\ iff2' = TRUE /\ UNCHANGED <<flagVars, imode, pc, avail>>
ExecDi   == iff' = FALSE /\ iff2' = FALSE /\ UNCHANGED <<flagVars, imode, pc, avail>>
ExecIm   == \E m \in 0 .. 2 : imode' = m /\ UNCHANGED <<flagVars, iff, iff2, pc, avail>>
ExecHalt == event' = TRUE /\ halt' = TRUE /\ UNCHANGED <<iffVars, pc, avail>>
\* RETN; its return address is any address.
ExecRetn ==
  /\ iff' = iff2
  /\ pc' \in Address
  /\ UNCHANGED <<flagVars, iff2, imode, avail>>
\* An IN from the console's data port, which may take its last byte.
ExecIn   == avail /\ avail' = FALSE /\ UNCHANGED <<flagVars, iffVars, pc>>
\* Jumps, calls and returns (RETI among them) and all that changes none of this.
ExecJump == pc' \in Address /\ UNCHANGED <<flagVars, iffVars, avail>>

Exec ==
  /\ at = "exec"
  /\ at' = "poll"
  /\ ExecEi \/ ExecDi \/ ExecIm \/ ExecHalt \/ ExecRetn \/ ExecIn \/ ExecJump
  /\ UNCHANGED <<ret, loaded, sig, lineVars, debugVars, restarted>>

\* An undefined opcode, or a breakpoint on an operand, asks for a command.
ExecBreak ==
  /\ at = "exec"
  /\ at' = "prompt"
  /\ ret' \in {"poll", "exec"}
  /\ UNCHANGED <<flagVars, loaded, sig, lineVars, iffVars, debugVars, pc, avail, restarted>>

-----------------------------------------------------------------------------
(* command(): the debugger's prompt.                                       *)

CmdReset ==
  /\ at = "prompt"
  /\ reset' = TRUE
  /\ UNCHANGED <<at, ret, flagVars, loaded, sig, nmi, intr, iffVars, debugVars, pc, avail, restarted>>

CmdTrace ==
  /\ at = "prompt"
  /\ trace' = ~trace
  /\ UNCHANGED <<at, ret, flagVars, loaded, sig, lineVars, iffVars, step, pc, avail, restarted>>

CmdStep ==
  /\ at = "prompt"
  /\ step' = ~step
  /\ UNCHANGED <<at, ret, flagVars, loaded, sig, lineVars, iffVars, trace, pc, avail, restarted>>

\* 'r' with the program counter as register.
CmdSetPC ==
  /\ at = "prompt"
  /\ pc' \in Address
  /\ restarted' = FALSE
  /\ UNCHANGED <<at, ret, flagVars, loaded, sig, lineVars, iffVars, debugVars, avail>>

\* Slips: tracing is not armed when the machine goes on, or the flags are set
\* to whether it is traced.
CmdContinue_Assigns ==
  /\ at = "prompt"
  /\ at' = ret
  /\ event' = trace
  /\ halt' = trace
  /\ UNCHANGED <<ret, loaded, sig, lineVars, iffVars, debugVars, pc, avail, restarted>>

CmdContinue_NoArm ==
  /\ at = "prompt"
  /\ at' = ret
  /\ UNCHANGED <<ret, flagVars, loaded, sig, lineVars, iffVars, debugVars, pc, avail, restarted>>

\* 'c', 'g', and an empty line while single-stepping.
CmdContinue ==
  /\ at = "prompt"
  /\ at' = ret
  /\ event' = (event \/ trace)
  /\ halt' = (halt \/ trace)
  /\ UNCHANGED <<ret, loaded, sig, lineVars, iffVars, debugVars, pc, avail, restarted>>

Command == CmdReset \/ CmdTrace \/ CmdStep \/ CmdSetPC \/ CmdContinue

-----------------------------------------------------------------------------
\* A step of the emulator's own thread outside the prompt.
Loop ==
  \/ SystemPoll \/ TestEvent \/ ClearEvent \/ TestHalt
  \/ ClearHalt \/ TestSig \/ TakeSig
  \/ Lines \/ Fetch \/ IncPC \/ Exec \/ ExecBreak

Next == ByteArrives \/ Sigint \/ Sigusr1 \/ Loop \/ Command

Spec == Init /\ [][Next]_vars

(* The thread keeps running: nothing in the loop waits for anybody but the *)
(* prompt, and the user is not obliged to leave that.                      *)
FairSpec == Spec /\ WF_vars(Loop)

-----------------------------------------------------------------------------
TypeOK ==
  /\ at \in Place
  /\ ret \in {"poll", "lines", "inc", "exec"}
  /\ event \in BOOLEAN /\ halt \in BOOLEAN /\ loaded \in BOOLEAN
  /\ sig \in BOOLEAN
  /\ reset \in BOOLEAN /\ nmi \in BOOLEAN /\ intr \in BOOLEAN
  /\ iff \in BOOLEAN /\ iff2 \in BOOLEAN /\ imode \in 0 .. 2
  /\ trace \in BOOLEAN /\ step \in BOOLEAN
  /\ pc \in Address
  /\ avail \in BOOLEAN
  /\ restarted \in BOOLEAN

(* Interrupts are never on while the copy that RETN restores says off, in  *)
(* any nesting of NMIs, interrupts, RETN and RESET: otherwise the return   *)
(* from an NMI would leave them off (z80.c:201-268, 790-795, 1785-1786).   *)
IffImpliesIff2 == iff => iff2

(* Whatever line is pulled is looked at before the next instruction: one   *)
(* that had to wait for another or for EI has EVENT set for it again       *)
(* (z80.c:211, 227, 269-272).                                              *)
LinesLatched == at = "event" /\ (nmi \/ intr) => event

(* A SIGINT that was caught is not forgotten by the loop that clears EVENT *)
(* and HALT under it: until it is answered the loop is on its way to the   *)
(* answer (z80.c:186-192, main.c:1025-1035, 1157-1159).                    *)
BreakLatched ==
  sig => \/ halt /\ (event \/ at \in {"test", "halt"})
         \/ at \in {"sig", "take"}

(* With tracing on, no instruction runs without a visit to haltcpu before  *)
(* it, whatever interrupts, signals and breakpoints come in between.       *)
TraceLatched == trace /\ at = "event" => event /\ halt

(* "we tell the z80 to stop when convenient" (main.c:1154), "CTRL-'-' to   *)
(* get back to the emulator prompt" (README.md:51): a caught SIGINT gets   *)
(* the user a prompt.                                                      *)
BreakServed == sig ~> at = "prompt"

(* A pending interrupt is taken, unless the program turns interrupts off   *)
(* or the user holds the machine at the prompt.                            *)
InterruptTaken == (intr /\ iff) ~> (~intr \/ ~iff \/ at = "prompt")

(* "make sure we're starting at 0!" (main.c:1170): the first opcode after  *)
(* SIGUSR1 is the one at 0.                                                *)
RestartsAtZero == at = "fetch" /\ restarted => pc = "0x00"
=============================================================================
