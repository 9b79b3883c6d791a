------------------------------- MODULE Device -------------------------------
(***************************************************************************)
(* A phyMCP device between two restarts and across them: the frames that   *)
(* the radio callback queues, the worker task that takes them one at a     *)
(* time and runs the request handlers of src/phymcp_device.c, the clock,   *)
(* and the duplicate cache.  The radio and the hosts are an open           *)
(* environment: any frame in Offered may arrive at any moment, any number  *)
(* of times, and any reply may fail to be sent.                            *)
(*                                                                         *)
(* A step of the worker is a handler up to the point where the task can    *)
(* lose the processor for long: the discovery delay and the tool handler.  *)
(***************************************************************************)
EXTENDS DuplicateCache, Sequences

CONSTANTS Offered,       \* frames the environment may deliver
          RxQueueSize,   \* length of the queue between callback and worker
          NoPacket, NoReply,
          MaxTime,       \* bound: the clock stops here
          MaxRuns        \* bound: no frame arrives after this many tool runs

MsgType == {"DISCOVER", "TOOLS_LIST", "TOOL_CALL", "PING", "OTHER", "UNFRAMED"}

\* What the payload says to the handler of its type: JSON that is a request
\* for this device and names one of its tools ("fit"), JSON that names
\* another device or no tool ("unfit"), or no JSON at all ("garbled").
Body == {"fit", "unfit", "garbled"}

Packet == [src : Source, type : MsgType, xid : Xid, body : Body]

Verdict == {"result", "announce", "tools", "pong", "badJson", "noMemory",
            "toolNotFound", "toolError", "badType"}

Reply == [to : Source, type : MsgType, xid : Xid, verdict : Verdict, run : Nat]

ASSUME OfferedArePackets == Offered \subseteq Packet
ASSUME QueueHasRoom == RxQueueSize \in Nat \ {0}
ASSUME NoneIsOutside == NoPacket \notin Packet /\ NoReply \notin Reply \cup Keys
ASSUME BoundsAreNat == MaxTime \in Nat /\ MaxRuns \in Nat

VARIABLES
    now,       \* esp_timer_get_time()
    rxQueue,   \* s_rx_queue
    phase,     \* where the worker is: "idle", "jitter" or "handler"
    pkt,       \* the frame it is busy with, in the last two
    cache,     \* s_dup_cache
    reply,     \* the frame handed to the radio in the last step, if any
    runs,      \* history: tool handler runs begun
    answered,  \* history: when each key's last run succeeded since the restart
    lastRun    \* history: which run that was

vars == <<now, rxQueue, phase, pkt, cache, reply, runs, answered, lastRun>>

history == <<answered, lastRun>>

Never == -1

KeyOf(p) == <<p.src, p.xid>>

Init ==
    /\ now = 0
    /\ rxQueue = <<>>
    /\ phase = "idle"
    /\ pkt = NoPacket
    /\ cache = ZeroedCache
    /\ reply = NoReply
    /\ runs = 0
    /\ answered = [k \in Keys |-> Never]
    /\ lastRun = [k \in Keys |-> 0]
-----------------------------------------------------------------------------
(* Replies.  Every handler ignores what the send returns. *)

Answer(p, verdict, run) == [to |-> p.src, type |-> p.type, xid |-> p.xid,
                            verdict |-> verdict, run |-> run]

Send(p, verdict, run) == reply' \in {Answer(p, verdict, run), NoReply}

Silent == reply' = NoReply

\* parse_payload returns NULL for text that is not JSON, and when it cannot
\* allocate its copy; the handlers answer both with badJson.
Unparsed(p) == Send(p, "badJson", 0)

\* What else can go wrong before a handler has something to say.
OutOfMemory(p) == p.body # "garbled" /\ Send(p, "noMemory", 0)
-----------------------------------------------------------------------------
(* The environment: the clock, the radio callback, a restart. *)

Tick ==
    /\ now < MaxTime
    /\ now' = now + 1
    /\ Silent
    /\ UNCHANGED <<rxQueue, phase, pkt, cache, runs, history>>

\* Mutant of RecvCb: the queue grows instead of refusing.
RecvCbUnbounded(p) ==
    /\ runs < MaxRuns
    /\ rxQueue' = Append(rxQueue, p)
    /\ Silent
    /\ UNCHANGED <<now, phase, pkt, cache, runs, history>>

\* recv_cb copies the frame and posts it without waiting: a full queue, or no
\* memory for the copy, loses it.
RecvCb(p) ==
    /\ runs < MaxRuns
    /\ rxQueue' \in {rxQueue} \cup
                    (IF Len(rxQueue) < RxQueueSize THEN {Append(rxQueue, p)} ELSE {})
    /\ Silent
    /\ UNCHANGED <<now, phase, pkt, cache, runs, history>>

\* A reboot, or phymcp_device_deinit followed by phymcp_device_init: the queue
\* is drained or gone, the worker starts afresh, init clears the cache.
Restart ==
    /\ rxQueue' = <<>>
    /\ phase' = "idle"
    /\ pkt' = NoPacket
    /\ cache' = ZeroedCache
    /\ answered' = [k \in Keys |-> Never]
    /\ lastRun' = [k \in Keys |-> 0]
    /\ Silent
    /\ UNCHANGED <<now, runs>>
-----------------------------------------------------------------------------
(* The worker. *)

\* Mutant of Take: frames are handled as they come, as if in the callback.
TakeBusy(p) ==
    /\ rxQueue # <<>>
    /\ p = Head(rxQueue)
    /\ rxQueue' = Tail(rxQueue)

\* The worker receives a frame and dispatches on its type.
Take(p) ==
    /\ phase = "idle"
    /\ rxQueue # <<>>
    /\ p = Head(rxQueue)
    /\ rxQueue' = Tail(rxQueue)

\* The handler is done with p in the same step.
Done == UNCHANGED <<phase, pkt, now, runs, history>>

\* phymcp_frame_unpack refuses the bytes: rx_task drops them.
DropUnframed(p) ==
    /\ Take(p) /\ p.type = "UNFRAMED"
    /\ Silent
    /\ Done /\ UNCHANGED cache

HandleUnknownType(p) ==
    /\ Take(p) /\ p.type = "OTHER"
    /\ Send(p, "badType", 0)
    /\ Done /\ UNCHANGED cache

HandlePing(p) ==
    /\ Take(p) /\ p.type = "PING"
    /\ \/ Unparsed(p)
       \/ OutOfMemory(p)
       \/ p.body # "garbled" /\ Send(p, "pong", 0)
    /\ Done /\ UNCHANGED cache

HandleToolsList(p) ==
    /\ Take(p) /\ p.type = "TOOLS_LIST"
    /\ \/ Unparsed(p)
       \/ OutOfMemory(p)
       \/ p.body # "garbled" /\ Send(p, "tools", 0)
    /\ Done /\ UNCHANGED cache

\* A discovery that is malformed, or meant for other names, ends here.
HandleDiscover(p) ==
    /\ Take(p) /\ p.type = "DISCOVER"
    /\ \/ Unparsed(p)
       \/ p.body = "unfit" /\ Silent
    /\ Done /\ UNCHANGED cache

\* Otherwise the worker itself sleeps a random delay, deaf to its queue.
BeginJitter(p) ==
    /\ Take(p) /\ p.type = "DISCOVER" /\ p.body = "fit"
    /\ phase' = "jitter"
    /\ pkt' = p
    /\ Silent
    /\ UNCHANGED <<now, cache, runs, history>>

EndJitter ==
    /\ phase = "jitter"
    /\ \/ Send(pkt, "announce", 0)
       \/ OutOfMemory(pkt)
    /\ phase' = "idle"
    /\ pkt' = NoPacket
    /\ UNCHANGED <<now, rxQueue, cache, runs, history>>
-----------------------------------------------------------------------------
(* handle_tool_call *)

TakeCall(p) ==
    /\ Take(p) /\ p.type = "TOOL_CALL"
    /\ cache' = Swept(cache, KeyOf(p), now)

\* Mutant of ReplayCall: a repeated call is dropped, not answered again.
DropRepeated(p) ==
    /\ TakeCall(p)
    /\ Hit(cache, KeyOf(p), now) # {} /\ Silent
    /\ Done

\* A live entry answers the call; the payload is not even parsed.
ReplayCall(p) ==
    /\ TakeCall(p)
    /\ \E i \in Hit(cache, KeyOf(p), now) : Send(p, "result", cache[i].response)
    /\ Done

\* Mutant of IsFresh: the loop stops one slot early.
IsFreshButLast(p) == \A i \in 1..(CacheSize - 1) : ~Matches(cache[i], KeyOf(p), now)

\* find_duplicate found nothing.
IsFresh(p) == \A i \in Slots : ~Matches(cache[i], KeyOf(p), now)

RefuseCall(p) ==
    /\ TakeCall(p) /\ IsFresh(p)
    /\ \/ Unparsed(p)
       \/ p.body = "unfit" /\ Send(p, "toolNotFound", 0)
       \/ p.body = "fit" /\ OutOfMemory(p)
    /\ Done

\* The tool's handler is called; it may take any time.
StartHandler(p) ==
    /\ TakeCall(p) /\ IsFresh(p) /\ p.body = "fit"
    /\ phase' = "handler"
    /\ pkt' = p
    /\ runs' = runs + 1
    /\ Silent
    /\ UNCHANGED <<now, history>>

\* The handler returned ESP_OK: its response is stored, then sent.
HandlerSucceeds ==
    /\ phase = "handler"
    /\ \E i \in StoreSlots(cache, now) :
           cache' = Stored(cache, i, KeyOf(pkt), now, runs)
    /\ Send(pkt, "result", runs)
    /\ answered' = [answered EXCEPT ![KeyOf(pkt)] = now]
    /\ lastRun' = [lastRun EXCEPT ![KeyOf(pkt)] = runs]
    /\ phase' = "idle"
    /\ pkt' = NoPacket
    /\ UNCHANGED <<now, rxQueue, runs>>

\* Any other return: the caller is told, nothing is remembered.
HandlerFails ==
    /\ phase = "handler"
    /\ Send(pkt, "toolError", 0)
    /\ phase' = "idle"
    /\ pkt' = NoPacket
    /\ UNCHANGED <<now, rxQueue, cache, runs, history>>
-----------------------------------------------------------------------------
HandleToolCall(p) == ReplayCall(p) \/ RefuseCall(p) \/ StartHandler(p)

RxCb(p) == \/ DropUnframed(p)
           \/ HandleUnknownType(p)
           \/ HandlePing(p)
           \/ HandleToolsList(p)
           \/ HandleDiscover(p)
           \/ BeginJitter(p)
           \/ HandleToolCall(p)

Next == \/ Tick
        \/ Restart
        \/ \E p \in Offered : RecvCb(p) \/ RxCb(p)
        \/ EndJitter
        \/ HandlerSucceeds
        \/ HandlerFails

Spec == Init /\ [][Next]_vars
-----------------------------------------------------------------------------
(* Properties *)

\* Every variable holds a value of its kind; the receive queue never exceeds
\* its capacity and the worker holds a frame exactly when it is busy.
TypeOK ==
    /\ now \in Nat
    /\ rxQueue \in Seq(Offered) /\ Len(rxQueue) <= RxQueueSize
    /\ phase \in {"idle", "jitter", "handler"}
    /\ pkt \in Offered \cup {NoPacket}
    /\ phase = "idle" <=> pkt = NoPacket
    /\ cache \in [Slots -> Entry]
    /\ reply \in Reply \cup {NoReply}
    /\ runs \in Nat
    /\ answered \in [Keys -> Nat \cup {Never}]
    /\ lastRun \in [Keys -> Nat]

\* Two slots never hold live responses to the same call: find_duplicate's
\* first match is the only one, so it cannot return a superseded response.
UniqueLive ==
    \A i, j \in Slots :
        Live(cache[i], now) /\ Live(cache[j], now) /\ cache[i].key = cache[j].key
            => i = j

\* k's last success is within the duplicate window.
InWindow(k) == answered[k] # Never /\ now <= answered[k] + TTL

Remembered(k) == \E i \in Slots : Matches(cache[i], k, now)

\* Other calls that were answered late enough to have been in the cache
\* together with k's response.
Crowd(k) == {j \in Keys \ {k} : /\ answered[j] # Never
                                /\ answered[k] <= answered[j] + TTL}

\* Within the window a response is forgotten only if at least as many other
\* calls as the cache has slots competed with it.
RememberedOrCrowded ==
    \A k \in Keys : InWindow(k) => \/ Remembered(k)
                                   \/ CacheSize <= Cardinality(Crowd(k))

\* Every live entry is the record of its key's latest success: its response,
\* and a window that opened when that success was answered.
CacheTracksAnswers ==
    \A i \in Slots : Live(cache[i], now) =>
        /\ cache[i].key \in Keys
        /\ answered[cache[i].key] # Never
        /\ cache[i].expires = answered[cache[i].key] + TTL
        /\ cache[i].response = lastRun[cache[i].key]

\* Successes lie in the past, and each is a run that was begun.
AnswersAreRuns ==
    /\ phase = "handler" => runs > 0
    /\ \A k \in Keys : answered[k] # Never => /\ answered[k] <= now
                                             /\ lastRun[k] \in 1..runs

\* The call whose tool is running is not in the cache, so that storing its
\* response cannot make a second entry.
RunningIsFresh ==
    phase = "handler" => pkt.type = "TOOL_CALL" /\ ~Remembered(KeyOf(pkt))

HandlerStarts(k) == phase # "handler" /\ phase' = "handler" /\ KeyOf(pkt') = k

\* A tool is not run a second time for a call that succeeded within the
\* duplicate window, unless the cache was crowded out in between.
NoRepeatUnlessCrowded ==
    [][\A k \in Keys : HandlerStarts(k) /\ InWindow(k)
                           => CacheSize <= Cardinality(Crowd(k))]_vars

\* A success reply carries the response of the latest successful run for
\* exactly that source and transaction: no crossed or superseded answers.
ReplyIsLastRun ==
    reply # NoReply /\ reply.verdict = "result"
        => reply.run = lastRun[<<reply.to, reply.xid>>] /\ reply.run > 0

\* The inductive invariant behind the properties of calls.
IInv == /\ TypeOK
        /\ UniqueLive
        /\ CacheTracksAnswers
        /\ AnswersAreRuns
        /\ RunningIsFresh
        /\ RememberedOrCrowded
        /\ ReplyIsLastRun

\* A response is replayed only while its window lasts: after that a new call
\* that reuses the transaction id gets a run of its own.
ReplayOnlyInWindow ==
    [][\A p \in Offered : ReplayCall(p) => InWindow(KeyOf(p))]_vars

\* What docs/architecture.md promises of the duplicate cache: no repeated
\* side effects during the duplicate window.  A crowded cache breaks it.
NoRepeatInWindow == [][\A k \in Keys : HandlerStarts(k) => ~InWindow(k)]_vars

\* The same promise for a call whose tool ran and reported failure: the answer
\* toolError is not followed at once by another run of the same call.  Failed
\* runs are not cached, so it is.
NoRepeatAfterToolError ==
    [][\A k \in Keys :
           HandlerStarts(k) => ~ /\ reply # NoReply
                                 /\ reply.verdict = "toolError"
                                 /\ <<reply.to, reply.xid>> = k]_vars
-----------------------------------------------------------------------------
(* Refinement: the device is a ToolServer whose memo is the set of live    *)
(* entries of the cache.                                                   *)

LiveKeys == {k \in Keys : Remembered(k)}

SlotOf(k) == CHOOSE i \in Slots : Matches(cache[i], k, now)

Memo == [k \in LiveKeys |-> [run |-> cache[SlotOf(k)].response,
                             until |-> cache[SlotOf(k)].expires]]

Running == IF phase = "handler" THEN KeyOf(pkt) ELSE NoReply

Result == IF reply # NoReply /\ reply.verdict = "result"
          THEN [key |-> <<reply.to, reply.xid>>, run |-> reply.run]
          ELSE NoReply

Server == INSTANCE ToolServer WITH Key <- Keys, Capacity <- CacheSize,
                                   Window <- TTL, Nothing <- NoReply,
                                   memo <- Memo, running <- Running,
                                   answer <- Result

\* Every step of the device, seen through its cache, is a step of the server
\* that answers remembered calls from memory and forgets only when it must.
ImplementsToolServer == Server!ServerSpec

Box == INSTANCE Mailbox WITH Item <- Offered, Capacity <- RxQueueSize,
                             coming <- {}, box <- rxQueue, busy <- {pkt} \ {NoPacket}

\* The device takes its frames from a mailbox as Transport provides it: in order,
\* the next only when it is done with the last, none from before a restart.  A
\* frame that is not queued at once is not seen here; Transport says why it is
\* not.
ImplementsMailbox == Box!BoxSpec
=============================================================================
