------------------------------- MODULE MCDevice -------------------------------
(***************************************************************************)
(* Small instances of Device for TLC.                                      *)
(***************************************************************************)
EXTENDS Device

CONSTANTS a, b, x, y

MCSource == {a, b}
MCXid == {x, y}

Frames(types, bodies) == [src : {a}, type : types, xid : {x}, body : bodies]

\* Well-formed calls from every source with every xid.
GoodCalls == [src : Source, type : {"TOOL_CALL"}, xid : Xid, body : {"fit"}]

\* Three calls, one more than there are slots, and every other type of frame,
\* well or ill formed, under the ids of one of the calls.
CallsAndOthers ==
    (GoodCalls \ [src : {b}, type : {"TOOL_CALL"}, xid : {y}, body : {"fit"}])
    \cup Frames({"TOOL_CALL", "DISCOVER"}, {"unfit", "garbled"})
    \cup Frames({"DISCOVER", "TOOLS_LIST", "PING", "OTHER", "UNFRAMED"}, {"fit"})
    \cup Frames({"TOOLS_LIST", "PING"}, {"garbled"})
===============================================================================
