--------------------------- MODULE ConsoleBuffer ---------------------------
(***************************************************************************)
(* The console input buffer of the emulated MC6850 (Common/src/            *)
(* mc6850_console.c), driven by the emulator's loop: system_poll drains    *)
(* the host's keys into a pseudo-ring buffer before every instruction, and *)
(* the guest's IN instructions take bytes out of it, throttled to a burst  *)
(* of bytes per pause.                                                     *)
(*                                                                         *)
(* The wall clock enters the code only as Host_Millis() > nextm, so the    *)
(* model keeps the difference: pause = nextm - Host_Millis(), floored at   *)
(* -1, the values at which a byte may be read.  The clock is taken not to  *)
(* step back.                                                              *)
(***************************************************************************)
EXTENDS Integers, Sequences

CONSTANTS Byte,        \* the values of a byte
          NoByte,      \* 0xff, what a read without a byte returns
          Size,        \* kRingBufSz
          BurstCount,  \* kBurstCount
          ThrottleMS,  \* kThrottleMS
          MaxKeys      \* bound on the keys waiting at the host

ASSUME ConsoleAssumption ==
  /\ Size \in Nat \ {0}
  /\ BurstCount \in Nat
  /\ ThrottleMS \in Nat
  /\ MaxKeys \in Nat

VARIABLES
  keys,       \* typed at the host, not yet read by the emulator
  polling,    \* TRUE inside system_poll, FALSE while an instruction runs
  intbuffer,  \* the array; slot Size is the byte behind its end
  bs, be,     \* start and end index
  pause,      \* milliseconds until the throttle lets a byte through
  burst,      \* bytes read since the throttle last struck
  rx          \* result of the guest's last read of the data port

hostVars   == keys
ringVars   == <<intbuffer, bs, be>>
throttle   == <<pause, burst>>
vars       == <<keys, polling, intbuffer, bs, be, pause, burst, rx>>

Slots == 0 .. Size

(* The initial content of the static array is zero; which byte that is     *)
(* plays no part, any value of Byte stands for it.                         *)
Init ==
  /\ keys = <<>>
  /\ polling = TRUE
  /\ intbuffer \in {[i \in Slots |-> b] : b \in Byte}
  /\ bs = 0
  /\ be = 0
  /\ pause = -1
  /\ burst = 0
  /\ rx = NoByte

-----------------------------------------------------------------------------
(* The pseudo-ring buffer.  It only starts again at slot 0 when it is      *)
(* found empty; a byte queued with be = kRingBufSz goes into the byte      *)
(* behind the array and is forgotten.                                      *)

\* The slot the next byte is written to.
WriteSlot == IF bs = be THEN 0 ELSE be

(* Slips a maintainer could make in QueueChar: no bound on the end index,  *)
(* or the last byte overwritten when there is no room.                     *)
QueueChar_Unbounded(c) ==
  /\ intbuffer' = [intbuffer EXCEPT ![WriteSlot] = c]
  /\ be' = WriteSlot + 1
  /\ bs' = IF bs = be THEN 0 ELSE bs

QueueChar_Overwrite(c) ==
  /\ intbuffer' = [intbuffer EXCEPT
                     ![IF WriteSlot < Size THEN WriteSlot ELSE Size - 1] = c]
  /\ be' = IF WriteSlot < Size THEN WriteSlot + 1 ELSE WriteSlot
  /\ bs' = IF bs = be THEN 0 ELSE bs

QueueChar(c) ==
  /\ intbuffer' = [intbuffer EXCEPT ![WriteSlot] = c]
  /\ be' = IF WriteSlot < Size THEN WriteSlot + 1 ELSE WriteSlot
  /\ bs' = IF bs = be THEN 0 ELSE bs

\* A slip in Dequeue: the drained buffer does not start again at slot 0.
Dequeue_NoCollapse ==
  /\ bs # be
  /\ rx' = intbuffer[bs]
  /\ bs' = bs + 1
  /\ UNCHANGED <<intbuffer, be>>

Dequeue ==
  /\ bs # be
  /\ rx' = intbuffer[bs]
  /\ IF bs + 1 = be
     THEN bs' = 0 /\ be' = 0
     ELSE bs' = bs + 1 /\ UNCHANGED be
  /\ UNCHANGED intbuffer

\* A slip in the comparison with nextm: the pause ends a millisecond early.
Available_Early == bs # be /\ pause <= 0

\* FromConsoleBuffer_Available: there is a byte and the throttle lets it through.
Available == bs # be /\ pause < 0

\* A slip in the count of the burst: it never gets past the first byte.
CountByte_Never == burst' = 1 /\ UNCHANGED pause

\* The throttle strikes with the byte that exceeds the burst.
CountByte ==
  IF burst > BurstCount
  THEN pause' = ThrottleMS /\ burst' = 1
  ELSE burst' = burst + 1 /\ UNCHANGED pause

-----------------------------------------------------------------------------
(* The host and the clock.                                                 *)

HostTypes(c) ==
  /\ Len(keys) < MaxKeys
  /\ keys' = Append(keys, c)
  /\ UNCHANGED <<polling, ringVars, throttle, rx>>

Tick ==
  /\ pause >= 0
  /\ pause' = pause - 1
  /\ UNCHANGED <<keys, polling, ringVars, burst, rx>>

(* The emulator: PollConsole queues key after key until the host has none, *)
(* then one instruction runs.                                              *)

PollKey ==
  /\ polling
  /\ keys # <<>>
  /\ QueueChar(Head(keys))
  /\ keys' = Tail(keys)
  /\ UNCHANGED <<polling, throttle, rx>>

PollDone ==
  /\ polling
  /\ keys = <<>>
  /\ polling' = FALSE
  /\ UNCHANGED <<keys, ringVars, throttle, rx>>

\* A slip in the read: every read that comes too early restarts the pause.
ReadData_Rearms ==
  /\ ~polling
  /\ polling' = TRUE
  /\ \/ Available /\ Dequeue /\ CountByte
     \/ ~Available /\ rx' = NoByte /\ pause' = ThrottleMS /\ UNCHANGED <<ringVars, burst>>
  /\ UNCHANGED keys

\* The instruction is an IN from the data port.
ReadData ==
  /\ ~polling
  /\ polling' = TRUE
  /\ \/ Available /\ Dequeue /\ CountByte
     \/ ~Available /\ rx' = NoByte /\ UNCHANGED <<ringVars, throttle>>
  /\ UNCHANGED keys

\* Any other instruction.
OtherInstruction ==
  /\ ~polling
  /\ polling' = TRUE
  /\ UNCHANGED <<keys, ringVars, throttle, rx>>

Next ==
  \/ \E c \in Byte : HostTypes(c)
  \/ Tick
  \/ PollKey
  \/ PollDone
  \/ ReadData
  \/ OtherInstruction

Spec == Init /\ [][Next]_vars

(* Time passes and the emulator's loop runs; the guest reads its data port *)
(* again and again, as a program that waits for input does.                *)
Fairness ==
  /\ WF_vars(Tick)
  /\ WF_vars(PollKey)
  /\ WF_vars(PollDone)
  /\ WF_vars(OtherInstruction)
  /\ SF_vars(ReadData)

FairSpec == Spec /\ Fairness

-----------------------------------------------------------------------------
TypeOK ==
  /\ keys \in Seq(Byte)
  /\ polling \in BOOLEAN
  /\ intbuffer \in [Slots -> Byte]
  /\ bs \in 0 .. Size
  /\ be \in 0 .. Size
  /\ pause \in -1 .. ThrottleMS
  /\ burst \in 0 .. BurstCount + 1
  /\ rx \in Byte \cup {NoByte}

(* The two indices enclose the bytes that wait, and the buffer is never    *)
(* left drained behind slot 0, where it would have lost room for good      *)
(* (mc6850_console.c:116-119, 146-151).                                    *)
IndexOK == bs < be \/ (bs = 0 /\ be = 0)

\* The bytes that wait in the buffer, oldest first.
Pending == [i \in 1 .. be - bs |-> intbuffer[bs + i - 1]]

Fifo == INSTANCE ByteFifo WITH Room <- 1, typed <- keys, queue <- Pending, out <- rx

(* The buffer is a FIFO between the host's keys and the guest's reads: no  *)
(* byte is duplicated, overtaken or invented, whatever the order of polls, *)
(* reads and pauses, and none is refused while the buffer is empty.        *)
ImplementsFifo == Fifo!Spec

(* The header's "pseudo-ring buffer of kRingBufSz bytes"                   *)
(* (mc6850_console.h:56-57): no step changes the byte behind the array.    *)
WritesStayInArray == [][intbuffer'[Size] = intbuffer[Size]]_intbuffer

(* Once the host stops typing, every byte that waits reaches the guest:    *)
(* the throttle always lets go and no collapse of the buffer forgets one.  *)
HostFallsSilent == <>[][Len(keys') < Len(keys)]_keys

WaitingByteIsRead ==
  HostFallsSilent => <>[](keys = <<>> /\ bs = be)
=============================================================================
