------------------------------- MODULE MCPhyMCP -------------------------------
(***************************************************************************)
(* A small instance of PhyMCP for TLC: ids of two bits' worth of values, so *)
(* that the counter wraps around and skips zero within three calls.        *)
(***************************************************************************)
EXTENDS PhyMCP

CONSTANT h

MCSource == {h}
MCXid == 0..2
MCOffered == [src : {h}, type : {"TOOL_CALL"}, xid : MCXid, body : {"fit"}]
===============================================================================
