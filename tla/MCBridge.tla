------------------------------- MODULE MCBridge -------------------------------
(***************************************************************************)
(* Small instances of Bridge for TLC.  A scan and a unicast command differ *)
(* in all that matters here; tools and ping do what call does, with texts  *)
(* that are always read as they are meant.                                 *)
(***************************************************************************)
EXTENDS Bridge, TLC

CONSTANT d1

MCDevice == {d1}
MCScanAndCall == {"scan", "call"}
MCCalls == {"call"}
MCStray == {"scan", "call", "bad", "long", "help", "blank"}
===============================================================================
