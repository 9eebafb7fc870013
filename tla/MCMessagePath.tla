----------------------------- MODULE MCMessagePath -----------------------------
(****************************************************************************)
(* The TLC instance of MessagePath, with the constants of the code.  A line *)
(* is a command and a number of words of one length, around the limits; in  *)
(* some lines a word ends in a dollar sign, or the command does not, and    *)
(* some have no word at all.                                                *)
(****************************************************************************)
EXTENDS MessagePath

MCNumbers == {0, 1, 2, 12, 13, 16, 47, 48, 49, 51}
MCLengths == {4, 15, 19, 20, 60}
MCCommands == {Dollar("say", 3), Plain("say", 3), Dollar("sayto", 5), Dollar("mute", 4)}

Words(n, len, dollarAt) ==
  [i \in 1 .. n |-> [Typed(i, len) EXCEPT !.dollar = (i = dollarAt)]]

\* The commands that send no message on, and a word that is none.
MCOthers == {Dollar("kick", 4), Dollar("conn", 4), Dollar("rename", 6), Dollar("disconn", 7),
             Dollar("retping", 7), Typed(0, 5)}

MCLine ==
  {<<c>> \o Words(n, len, d) : c \in MCCommands, n \in MCNumbers, len \in MCLengths,
                               d \in 0 .. 2}
    \cup {<<c>> \o Words(n, len, d) : c \in MCOthers, n \in 0 .. 2, len \in {4, 19, 20},
                                     d \in 0 .. 1}
    \cup {<<>>, <<Dollar("none", 0)>>}

MCSenderName == {Plain("name", len) : len \in {0, 10, 18, 19}}
                  \cup {[Plain("name", 12) EXCEPT !.colon = 4], Server}
=============================================================================
