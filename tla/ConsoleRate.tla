---------------------------- MODULE ConsoleRate ----------------------------
(***************************************************************************)
(* The console buffer with a record of when its last bytes were read: the  *)
(* rate at which the emulator feeds the guest.  The history is an          *)
(* auxiliary variable, it restricts no step of the buffer.                 *)
(***************************************************************************)
EXTENDS ConsoleBuffer

VARIABLE ages   \* milliseconds since the last reads that got a byte, oldest first

\* Reads that are remembered: one more than the longest burst.
Window == BurstCount + 3

RateInit == Init /\ ages = <<>>

\* The instruction of this step took a byte out of the buffer.
GotByte == ~polling /\ polling' /\ <<bs, be>>' # <<bs, be>>

Older(a) == [i \in DOMAIN a |-> IF a[i] > ThrottleMS THEN a[i] ELSE a[i] + 1]

Remember(a) ==
  IF Len(a) < Window THEN Append(a, 0) ELSE Append(Tail(a), 0)

RateNext ==
  /\ Next
  /\ ages' = IF pause' < pause THEN Older(ages)
             ELSE IF GotByte THEN Remember(ages)
             ELSE ages

RateSpec == RateInit /\ [][RateNext]_<<vars, ages>> /\ Fairness

(* The throttle (mc6850_console.c:203-218): of any kBurstCount + 3 bytes   *)
(* in a row the guest never gets the first and the last within             *)
(* kThrottleMS milliseconds, whenever polls, pauses and reads happen.  The *)
(* header speaks of kBurstCount bytes (mc6850_console.h:57-59): the first  *)
(* burst is two bytes longer, because the counter starts at 0 and the      *)
(* pause begins with the byte after burst > kBurstCount, each later one is *)
(* one byte longer.                                                        *)
RateBound == Len(ages) = Window => ages[1] > ThrottleMS
=============================================================================
