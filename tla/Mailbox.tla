-------------------------------- MODULE Mailbox --------------------------------
(***************************************************************************)
(* What the layers above a phyMCP transport rely on: frames wait in one    *)
(* queue of bounded length, are taken in the order in which they came,     *)
(* one is handled at a time, and none outlives a reset.  A frame may be    *)
(* lost before it is seen at all (the air, no memory for a copy); one that *)
(* is seen is refused only if the queue is full, and one that is queued is *)
(* lost only to a reset.                                                   *)
(***************************************************************************)
EXTENDS Integers, Sequences

CONSTANTS Item,      \* what is received
          Capacity   \* how many wait at most

VARIABLES coming,  \* the one that is seen and not yet queued, if any, as a set
          box,     \* those that wait
          busy     \* the one that is being handled, if any, as a set

boxVars == <<coming, box, busy>>

BoxInit == coming = {} /\ box = <<>> /\ busy = {}

Come ==
    /\ coming = {}
    /\ \E m \in Item : coming' = {m}
    /\ UNCHANGED <<box, busy>>

\* One that has come is queued, or one comes and is queued at once.
Post ==
    /\ Len(box) < Capacity
    /\ \E m \in Item : coming \subseteq {m} /\ box' = Append(box, m)
    /\ coming' = {}
    /\ UNCHANGED busy

Refuse ==
    /\ coming # {} /\ Len(box) >= Capacity
    /\ coming' = {}
    /\ UNCHANGED <<box, busy>>

\* The oldest is taken; it is dealt with at once, or for a while.
Take ==
    /\ busy = {} /\ box # <<>>
    /\ busy' \in {{}, {Head(box)}}
    /\ box' = Tail(box)
    /\ UNCHANGED coming

Finish ==
    /\ busy # {}
    /\ busy' = {}
    /\ UNCHANGED <<coming, box>>

Reset == coming' = {} /\ box' = <<>> /\ busy' = {}

BoxNext == Come \/ Post \/ Refuse \/ Take \/ Finish \/ Reset

BoxSpec == BoxInit /\ [][BoxNext]_boxVars
================================================================================
