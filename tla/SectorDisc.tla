----------------------------- MODULE SectorDisc -----------------------------
(***************************************************************************)
(* What the drives promise CP/M: sectors that hold what was written to     *)
(* them last, at first what the disc was made with or the filler.  A       *)
(* transfer touches the sector that is selected.  What was written since   *)
(* the drive was last asked for something may still be lost, as the host   *)
(* may refuse it late; then a request says so or the drives are restarted. *)
(***************************************************************************)
EXTENDS Integers

CONSTANTS Drives, Places, Contents,
          Blank,     \* the content of a sector that was never written
          Lost       \* of one that was, or that lay before it, and is not there

VARIABLES image,     \* [Drives -> [Places -> Contents \cup {Lost}]]
          unsaved,   \* the places of each drive that may still be lost
          asked,     \* what the drives are asked for: a transfer, "seldisc", a boot, or else
          drive, place, data, status  \* what is selected, the sector in memory, the answer

discVars == <<image, unsaved, asked, drive, place, data, status>>

Init ==
  /\ image \in [Drives -> [Places -> Contents]]
  /\ unsaved = [d \in Drives |-> {}]
  /\ asked = "boot"
  /\ drive \in Drives /\ place \in Places /\ data \in Contents /\ status = 0

Kept(d, p)  == image'[d][p] = image[d][p]
Risky(d, p) == p \in unsaved[d] \/ image[d][p] = Lost
Saved(d)    == unsaved'[d] \subseteq unsaved[d]
Changes     == /\ image' \in [Drives -> [Places -> Contents \cup {Lost}]]
               /\ unsaved' \in [Drives -> SUBSET Places]

\* The request is done with; another drive keeps what it has.
Done(request, answer) ==
  /\ asked = request /\ asked' = "other" /\ status' = answer
  /\ UNCHANGED <<drive, place>>
  /\ Changes
  /\ \A d \in Drives \ {drive} : image'[d] = image[d] /\ unsaved'[d] = unsaved[d]

Read ==
  /\ Done("rdsector", 0)
  /\ place \in Places /\ image[drive][place] # Lost /\ data' = image[drive][place]
  /\ image' = image /\ Saved(drive)

ReadFails ==
  /\ Done("rdsector", 1)
  /\ \A p \in Places : Kept(drive, p) \/ p \in unsaved[drive]
  /\ Saved(drive) /\ data' \in Contents

\* The sectors before it that were lost are filled up with something.
Write ==
  /\ Done("wrsector", 0)
  /\ place \in Places /\ image'[drive][place] = data /\ data' = data
  /\ \A p \in Places \ {place} : Kept(drive, p) \/ image[drive][p] = Lost
  /\ unsaved'[drive] \subseteq {place} \cup {p \in Places : image[drive][p] = Lost}

\* Sectors before it that were never written may count now without being there.
WriteFails ==
  /\ Done("wrsector", 1)
  /\ \A p \in Places \ {place} :
       \/ Kept(drive, p) \/ Risky(drive, p)
       \/ p < place /\ image[drive][p] = Blank /\ image'[drive][p] = Lost
  /\ Saved(drive) /\ data' = data

\* A drive that is opened may get a first sector.
Opened(d) == unsaved'[d] \subseteq unsaved[d] \cup {p \in Places : p = 0 /\ image'[d][p] = Blank}

Select ==
  /\ asked = "seldisc"
  /\ image' = image
  /\ Changes /\ \A d \in Drives : Opened(d)

Restart ==
  /\ asked \in {"boot", "warmboot"}
  /\ Changes
  /\ \A d \in Drives : Opened(d) /\ \A p \in Places : Kept(d, p) \/ Risky(d, p)

\* Whatever else is done, and the next request.
Other ==
  /\ asked \notin {"rdsector", "wrsector", "seldisc", "boot", "warmboot"}
  /\ UNCHANGED <<image, unsaved>>

Next == Read \/ ReadFails \/ Write \/ WriteFails \/ Select \/ Restart \/ Other

Spec == Init /\ [][Next]_discVars
=============================================================================
