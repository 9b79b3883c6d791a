-------------------------------- MODULE PhyMCP --------------------------------
(***************************************************************************)
(* A host, the air and a device together.  The device is Device, whose     *)
(* radio is no longer open: the frames it receives are the TOOL_CALLs of   *)
(* this host, and what it sends reaches the host, or not.  The host side   *)
(* is src/phymcp_host.c with the transaction ids of src/phymcp_frame.c,    *)
(* under an application that makes one call at a time.                     *)
(*                                                                         *)
(* The air loses, delays, repeats and reorders frames both ways.  Either   *)
(* side may reboot.  A host that reboots forgets which ids it has used.    *)
(***************************************************************************)
EXTENDS Device

CONSTANTS Host,          \* the host's MAC address
          XidModulus,    \* 2^16
          NoCall,
          MaxInFlight,   \* bound: answers on the air
          MaxCalls,      \* bound: calls made
          MaxTroubles    \* bound: tool runs that fail, and reboots of either side

ASSUME HostIsASource == Host \in Source
ASSUME XidsAreIntegers == /\ XidModulus \in Nat /\ XidModulus > 2
                          /\ Xid = 0..(XidModulus - 1)
ASSUME OnlyCalls == Offered = [src : {Host}, type : {"TOOL_CALL"}, xid : Xid, body : {"fit"}]
ASSUME HostBoundsAreNat == {MaxInFlight, MaxCalls, MaxTroubles} \subseteq Nat

VARIABLES
    nextXid,   \* s_next_xid of the host: 0 until the first draw after a boot
    call,      \* the call the application waits for
    answers,   \* answers that may yet arrive
    recent,    \* history: ids drawn since the boot, the last XidModulus - 2
    used,      \* ids drawn ever, whose requests the air may deliver
    runsOf,    \* history: tool runs for each id since it was last drawn
    spent      \* history: calls and troubles so far

hostVars == <<nextXid, call, recent, used>>
allVars == <<vars, hostVars, answers, runsOf, spent>>

Request(x) == [src |-> Host, type |-> "TOOL_CALL", xid |-> x, body |-> "fit"]

NetInit ==
    /\ Init
    /\ nextXid = 0 /\ call = NoCall
    /\ answers = {}
    /\ recent = <<>> /\ used = {}
    /\ runsOf = [x \in Xid |-> 0]
    /\ spent = [calls |-> 0, troubles |-> 0]

DeviceIdle == UNCHANGED vars
-----------------------------------------------------------------------------
(* phymcp_next_xid *)

\* Mutant of After: zero, which means unseeded, is not skipped.
AfterWithZero(x) == (x + 1) % XidModulus

\* ++s_next_xid in 16 bits, once more if that gave zero.
After(x) == LET y == (x + 1) % XidModulus IN IF y = 0 THEN 1 ELSE y

\* An unseeded counter takes a random value first, which may be zero too.
Draws(x) == \E seed \in IF nextXid = 0 THEN Xid ELSE {nextXid} : x = After(seed)

Shortened(s) == IF Len(s) > XidModulus - 2 THEN Tail(s) ELSE s
-----------------------------------------------------------------------------
(* The host *)

NewCall(x) == [xid |-> x, since |-> runs, at |-> now,
               fresh |-> x \notin used, calm |-> x \notin used]

\* phymcp_host_call_tool builds the request, draws an id, and sends.  A send
\* that fails is a frame that never arrives: the application knows the id and
\* may still wait or send again.
CallTool ==
    /\ call = NoCall /\ spent.calls < MaxCalls
    /\ \E x \in Xid :
          /\ Draws(x)
          /\ nextXid' = x
          /\ call' = NewCall(x)
          /\ recent' = Shortened(Append(recent, x))
          /\ used' = used \cup {x}
          /\ runsOf' = [runsOf EXCEPT ![x] = 0]
    /\ spent' = [spent EXCEPT !.calls = @ + 1]
    /\ DeviceIdle /\ UNCHANGED answers

\* The application sends the request again with the same id, through
\* phymcp_transport_send_json: the host API itself has no such call.
SendAgain ==
    /\ call # NoCall
    /\ RecvCb(Request(call.xid))
    /\ UNCHANGED <<hostVars, answers, runsOf, spent>>

\* Mutant of Awaited: any answer will do.
AwaitedAny(r) == call # NoCall

\* The application knows its answer by the id in the event.
Awaited(r) == call # NoCall /\ r.xid = call.xid

\* host_rx_cb hands every answer to the application.
HostRxCb(r) ==
    /\ r \in answers
    /\ answers' = answers \ {r}
    /\ call' = IF Awaited(r) THEN NoCall ELSE call
    /\ DeviceIdle /\ UNCHANGED <<nextXid, recent, used, runsOf, spent>>

\* The application stops waiting.
GiveUp ==
    /\ call # NoCall
    /\ call' = NoCall
    /\ DeviceIdle /\ UNCHANGED <<nextXid, recent, used, answers, runsOf, spent>>

Trouble == /\ spent.troubles < MaxTroubles
           /\ spent' = [spent EXCEPT !.troubles = @ + 1]

HostReboot ==
    /\ Trouble
    /\ nextXid' = 0
    /\ call' = NoCall
    /\ recent' = <<>>
    /\ DeviceIdle /\ UNCHANGED <<used, answers, runsOf>>
-----------------------------------------------------------------------------
(* The device, and the air on either side of it *)

HostIdle == UNCHANGED <<nextXid, recent, used>>

\* A request that was sent arrives, whenever and as often as the air likes.
Deliver(x) ==
    /\ x \in used
    /\ RecvCb(Request(x))
    /\ UNCHANGED <<hostVars, answers, runsOf, spent>>

\* What the device sends is lost, or may arrive from now on.
Carry == LET new == {reply'} \ {NoReply}
         IN  \E kept \in SUBSET answers :
                /\ Cardinality(kept \cup new) <= MaxInFlight
                /\ new = {} => kept = answers
                /\ answers' = kept \cup new

\* From here on the call may meet its tool more than once: see AtMostOneRun.
Disturbed(x) == IF call # NoCall /\ call.xid = x THEN [call EXCEPT !.calm = FALSE]
                                                 ELSE call

DeviceRuns(p) ==
    /\ StartHandler(p)
    /\ runsOf' = [runsOf EXCEPT ![p.xid] = @ + 1]
    /\ Carry
    /\ HostIdle /\ UNCHANGED <<call, spent>>

DeviceAnswers(p) ==
    /\ ReplayCall(p) \/ RefuseCall(p)
    /\ Carry
    /\ HostIdle /\ UNCHANGED <<call, runsOf, spent>>

DeviceSucceeds ==
    /\ HandlerSucceeds
    /\ Carry
    /\ HostIdle /\ UNCHANGED <<call, runsOf, spent>>

DeviceFails ==
    /\ HandlerFails
    /\ Trouble
    /\ call' = Disturbed(pkt.xid)
    /\ Carry
    /\ HostIdle /\ UNCHANGED <<runsOf>>

DeviceReboot ==
    /\ Trouble
    /\ Restart
    /\ call' = IF call = NoCall THEN NoCall ELSE [call EXCEPT !.calm = FALSE]
    /\ HostIdle /\ UNCHANGED <<answers, runsOf>>

TimePasses ==
    /\ Tick
    /\ HostIdle /\ UNCHANGED <<call, answers, runsOf, spent>>
-----------------------------------------------------------------------------
Worker == \/ \E p \in Offered : DeviceRuns(p) \/ DeviceAnswers(p)
          \/ DeviceSucceeds \/ DeviceFails

NetNext ==
    \/ CallTool \/ SendAgain \/ GiveUp \/ HostReboot
    \/ \E r \in answers : HostRxCb(r)
    \/ \E x \in Xid : Deliver(x)
    \/ Worker
    \/ DeviceReboot
    \/ TimePasses

NetSpec == NetInit /\ [][NetNext]_allVars

Answering == Worker /\ reply' # NoReply /\ Awaited(reply')

\* The application keeps asking; the air loses neither all its requests nor all
\* answers to them; the device's worker runs, and its tools return.
NetFairness == /\ SF_allVars(SendAgain /\ rxQueue' # rxQueue)
               /\ WF_allVars(Worker)
               /\ SF_allVars(Answering)
               /\ SF_allVars(\E r \in answers : HostRxCb(r) /\ Awaited(r))

NetFairSpec == NetSpec /\ NetFairness
-----------------------------------------------------------------------------
(* Properties *)

\* The result that ends a call is of a tool run begun after the call was made,
\* unless the id had been used before: an answer that is late, repeated or
\* from the cache is never taken for that of another call.
ResultIsOfThisCall ==
    [][\A r \in answers :
          HostRxCb(r) /\ Awaited(r) /\ r.verdict = "result" /\ call.fresh
              => r.run > call.since]_allVars

\* However often a request is sent, lost, delayed or repeated: no second run of
\* its tool begins while the application waits and the window lasts, unless the
\* tool failed, the device rebooted, the id is an old one or the cache is crowded.
AtMostOneRun ==
    [][/\ call # NoCall /\ call.calm
       /\ now <= call.at + TTL
       /\ Cardinality(Crowd(<<Host, call.xid>>)) < CacheSize
       /\ runsOf'[call.xid] > runsOf[call.xid]
       => runsOf[call.xid] = 0]_allVars

\* Other calls whose responses may have been in the cache since the call began.
CallCrowd == {j \in Keys \ {<<Host, call.xid>>} : /\ answered[j] # Never
                                                 /\ call.at <= answered[j] + TTL}

\* Exactly once: the result that ends such a call while the window lasts is of
\* the only run of its tool, however often the request arrived.
ResultOfOneRun ==
    [][\A r \in answers :
          /\ HostRxCb(r) /\ Awaited(r) /\ r.verdict = "result"
          /\ call.calm /\ now <= call.at + TTL
          /\ Cardinality(CallCrowd) < CacheSize
          => runsOf[call.xid] = 1]_allVars

\* Between two reboots an id comes back only after every other has had its turn,
\* also where the counter wraps around and where its first value is random.
IdsTakeTurns ==
    [][CallTool => \A i \in 1..Len(recent) : nextXid' # recent[i]]_allVars

\* An application that keeps asking is answered, through lost, late and repeated
\* frames, a full queue, failing tools and reboots.
CallIsAnswered == call # NoCall ~> call = NoCall
===============================================================================
