------------------------------ MODULE MCFilter ------------------------------
(* A small instance of FilterLine. *)
EXTENDS FilterLine

\* One program, with a blank line in it, and no boot.bas.
MCHomeFiles == << "a" >> :> <<"P", LF, LF, "Q">>
MCReadOnly  == {<<"r">>}
MCPhrase    == <<"Memory", "0">>

Remote(c)  == <<ESC, "{">> \o c \o <<BEL>>
Console(c) == <<ESC, "}">> \o c \o <<BEL>>

MCRemoteSays ==
  {Remote(c) : c \in {<<"load", "run", "a">>, <<"save", "b">>}}
    \union {<<"1", "x", LF>>, <<"2", "y", "z", "w", CR>>, <<"Ok", LF>>, <<"Memory", "0", CR>>,
            <<ESC, "x">>, <<ESC, "{", "zz", LF>>}

MCConsoleSays ==
  {Console(c) : c \in {<<"load", "run", "a">>, <<"load", "b">>, <<"save", "c">>, <<"more", "a">>}}
    \union {<<ESC, LF>>}

\* The commands that differ in their handlers only, and single bytes.
MCRemoteEnds ==
  {Remote(c) : c \in {<<"load", "a">>, <<"type", "a">>, <<"chain", "a">>, <<"boot">>, <<"more", "a">>,
                      <<"catalog">>, <<"seconds">>, <<"date">>, <<"cd">>, <<"cd", "x">>, <<>>,
                      <<"save", "r">>}}
    \union {<<LF>>, <<ESC, LF>>, <<"Memory", "0", "x", "x", LF>>}
=============================================================================
