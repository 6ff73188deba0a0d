------------------------------- MODULE MCCpm -------------------------------
(***************************************************************************)
(* One hard disc and a floppy, and a drive that is not there or that the   *)
(* host refuses; sectors of two units.                                     *)
(***************************************************************************)
EXTENDS CpmMachine

MCHard    == {0}
MCOne     == {1}
MCFloppy  == {1, 2}
MCOpen    == {0, 1}
MCSelect  == {0, 1, 2}
MCTracks  == {1}

\* Tracks of three sectors and of two, so that a floppy lacks one that a hard
\* disc has, and a hard disc that ends behind its first track.
MCSkew    == <<2, 1>>
MCLogical == {1, 2}
MCStray   == {0}
MCHardF   == {<<1, 1, 1, 1, 1, 1, 1>>}
MCMade    == << <<11, 12>>, <<13, 14>>, <<15, 16>>, <<17, 18>> >>

MCDma     == {0, 128}
MCAddr    == {4, 20}
MCUnix    == [n \in {"odd"} |-> <<7, 8, 9>>]
MCNames   == {"odd", "none"}
MCRecords == {<<>>, << <<3, 4>>, <<5, 6>> >>}
=============================================================================
