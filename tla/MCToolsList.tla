----------------------------- MODULE MCToolsList -----------------------------
(***************************************************************************)
(* A small instance of ToolsList for TLC: bytes of two bits, sizes of four, *)
(* pages of three tools at most, and two tools that exceed a frame together.*)
(***************************************************************************)
EXTENDS ToolsList

CONSTANTS old, new

MCFirmware == {old, new}
MCToolCount == [f \in MCFirmware |-> IF f = old THEN 4 ELSE 2]
MCEtag == [f \in MCFirmware |-> f]
MCFits == ((-1..15) \X (0..4)) \ {<<0, 3>>, <<1, 2>>, <<1, 3>>}

\* One too few, one, two, a multiple of the byte and two more.
MCAsked == {-1, 1, 2, 4, 6}

\* Before the first tool, the last one, and past the end.
MCForeign == {-1, 2, 7}
===============================================================================
