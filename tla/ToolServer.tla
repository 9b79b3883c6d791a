----------------------------- MODULE ToolServer -----------------------------
(***************************************************************************)
(* What a phyMCP device promises about tool calls, without slots, sweeps,  *)
(* queues or frames.  The server runs one tool at a time.  It keeps a memo *)
(* of the calls that succeeded in the last TTL ticks; a call in the memo   *)
(* is answered from it and never run; a memo entry disappears only by      *)
(* growing old, by a restart, or to make room for a new one when the memo  *)
(* is full.                                                                *)
(***************************************************************************)
EXTENDS Integers, FiniteSets

CONSTANTS Key,       \* identities of calls: (source, transaction id)
          Capacity,  \* calls the memo can hold
          Window,    \* how long it holds them
          Nothing    \* no call running, no answer given

VARIABLES now,      \* the clock
          memo,     \* [some keys -> [run : Nat, until : Nat]], all unexpired
          running,  \* the call whose tool is running, or Nothing
          runs,     \* tool runs begun, which also numbers them
          answer    \* the success answer given in the last step, if any

serverVars == <<now, memo, running, runs, answer>>

ServerInit ==
    /\ now = 0
    /\ memo = [k \in {} |-> Nothing]
    /\ running = Nothing
    /\ runs = 0
    /\ answer = Nothing

Without(m, gone) == [k \in DOMAIN m \ gone |-> m[k]]

With(m, k, run, until) ==
    [j \in DOMAIN m \cup {k} |-> IF j = k THEN [run |-> run, until |-> until]
                                          ELSE m[j]]

\* An answer is sent, or lost on the way out.
Answered(k, run) == answer' \in {[key |-> k, run |-> run], Nothing}

\* Nothing that concerns tool calls happens.
Quiet ==
    /\ answer' = Nothing
    /\ UNCHANGED <<now, memo, running, runs>>

TimePasses ==
    /\ now' = now + 1
    /\ memo' = Without(memo, {k \in DOMAIN memo : memo[k].until < now'})
    /\ answer' = Nothing
    /\ UNCHANGED <<running, runs>>

Forget ==
    /\ memo' = [k \in {} |-> Nothing]
    /\ running' = Nothing
    /\ answer' = Nothing
    /\ UNCHANGED <<now, runs>>

Run(k) ==
    /\ running = Nothing
    /\ k \notin DOMAIN memo
    /\ running' = k
    /\ runs' = runs + 1
    /\ answer' = Nothing
    /\ UNCHANGED <<now, memo>>

\* Nobody is forgotten while there is room; then it is exactly one.
Victims == IF Cardinality(DOMAIN memo) < Capacity THEN {{}}
                                                  ELSE {{k} : k \in DOMAIN memo}

Succeed ==
    /\ running # Nothing
    /\ \E gone \in Victims :
          memo' = With(Without(memo, gone), running, runs, now + Window)
    /\ Answered(running, runs)
    /\ running' = Nothing
    /\ UNCHANGED <<now, runs>>

Fail ==
    /\ running # Nothing
    /\ running' = Nothing
    /\ answer' = Nothing
    /\ UNCHANGED <<now, memo, runs>>

Repeat(k) ==
    /\ running = Nothing
    /\ k \in DOMAIN memo
    /\ Answered(k, memo[k].run)
    /\ UNCHANGED <<now, memo, running, runs>>

ServerNext ==
    \/ Quiet
    \/ TimePasses
    \/ Forget
    \/ \E k \in Key : Run(k) \/ Repeat(k)
    \/ Succeed
    \/ Fail

ServerSpec == ServerInit /\ [][ServerNext]_serverVars
=============================================================================
