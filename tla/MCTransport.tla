------------------------------ MODULE MCTransport ------------------------------
(***************************************************************************)
(* Small instances of Transport for TLC.                                   *)
(***************************************************************************)
EXTENDS Transport, TLC

CONSTANTS q1, q2, w1, w2, m1, m2, m3, a, b

MCQueue == {q1, q2}
MCWorker == {w1, w2}
MCMsg == {m1, m2, m3}
MCMac == {a, b}
================================================================================
