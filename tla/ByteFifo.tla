------------------------------ MODULE ByteFifo ------------------------------
(***************************************************************************)
(* What each buffer between the host's keyboard and the guest's program    *)
(* promises: the bytes come out oldest first, each at most once, and none  *)
(* is invented.  A byte may be refused when it is taken, but only while    *)
(* Room others wait.                                                       *)
(***************************************************************************)
EXTENDS Naturals, Sequences

CONSTANTS Byte,    \* the values a byte can have
          Room,    \* so many bytes can wait
          NoByte   \* what a read returns when there is nothing to read

VARIABLES typed,   \* bytes the host has typed and nobody has taken yet
          queue,   \* bytes taken and not yet given to the guest
          out      \* result of the guest's last read

fifoVars == <<typed, queue, out>>

Init ==
  /\ typed = <<>>
  /\ queue = <<>>
  /\ out = NoByte

\* The host types one byte.
Type(c) ==
  /\ typed' = Append(typed, c)
  /\ UNCHANGED <<queue, out>>

\* The oldest typed byte is queued; with Room bytes waiting it may be refused.
Take ==
  /\ typed # <<>>
  /\ typed' = Tail(typed)
  /\ \/ queue' = Append(queue, Head(typed))
     \/ Len(queue) >= Room /\ UNCHANGED queue
  /\ UNCHANGED out

\* The guest reads the oldest queued byte.
Give ==
  /\ queue # <<>>
  /\ out' = Head(queue)
  /\ queue' = Tail(queue)
  /\ UNCHANGED typed

\* The guest reads and is told that there is nothing.
GiveNothing ==
  /\ out' = NoByte
  /\ UNCHANGED <<typed, queue>>

Next ==
  \/ \E c \in Byte : Type(c)
  \/ Take
  \/ Give
  \/ GiveNothing

Spec == Init /\ [][Next]_fifoVars
=============================================================================
