------------------------------ MODULE Transport ------------------------------
(***************************************************************************)
(* The ESP-NOW transport (src/phymcp_transport_espnow.c): the application  *)
(* task that starts, uses and stops it, the radio callback that posts      *)
(* frames to a queue, and the worker task that takes them and runs the     *)
(* layer above.  The three share statics without a lock, so every step     *)
(* here touches them at most once; frames are identified by the heap       *)
(* blocks that hold them.                                                  *)
(*                                                                         *)
(* Of ESP-NOW itself the model assumes what the code relies on: callbacks  *)
(* run one at a time, none runs unless it is registered, esp_now_deinit    *)
(* returns once none is running any more and clears the peer table, and    *)
(* the table has room for PeerLimit peers.                                 *)
(***************************************************************************)
EXTENDS Integers, Sequences, FiniteSets

CONSTANTS Queue,       \* identities of FreeRTOS queues
          Worker,      \* identities of tasks running rx_task
          Msg,         \* heap blocks for received frames
          Mac,         \* addresses of other nodes
          Broadcast,   \* PHYMCP_BROADCAST_MAC
          App,         \* the application task, as a sender
          NULL,
          QueueSize,   \* rx_queue_size
          PeerLimit,   \* peers ESP-NOW can hold
          LateFailure  \* whether init's last two calls can fail

ASSUME FiniteIds == IsFiniteSet(Queue) /\ IsFiniteSet(Worker) /\ IsFiniteSet(Msg)
ASSUME NullIsNoId == NULL \notin Queue \cup Worker \cup Msg \cup Mac
ASSUME BroadcastIsNoNode == Broadcast \notin Mac /\ NULL # Broadcast
ASSUME AppIsNoWorker == App \notin Worker
ASSUME LimitsAreNat == QueueSize \in Nat \ {0} /\ PeerLimit \in Nat \ {0}
ASSUME LateFailureIsBoolean == LateFailure \in BOOLEAN

Sender == Worker \cup {App}

VARIABLES
    app,         \* where the application task is in init or deinit
    started,     \* s_started
    rxQueue,     \* s_rx_queue
    rxTask,      \* s_rx_task
    registered,  \* recv_cb is registered with ESP-NOW
    content,     \* the queues that exist: [some of Queue -> Seq(Msg)]
    worker,      \* what each task is doing: see WorkerState
    radio,       \* the frame recv_cb is about to post, or NULL
    heap,        \* frames allocated and not freed
    espNow,      \* ESP-NOW is initialised
    peers,       \* its peer table
    adding,      \* the peer each sender has found missing and is adding
    outcome      \* how the last send that had to add a peer ended

vars == <<app, started, rxQueue, rxTask, registered, content, worker, radio,
          heap, espNow, peers, adding, outcome>>

lifecycle == <<app, started, rxQueue, rxTask, registered>>
sending == <<espNow, peers, adding, outcome>>

\* A task does not exist, is about to read s_rx_queue, is blocked in
\* xQueueReceive on a queue, or handles a frame and may have replied to it: no
\* handler of either layer sends more than once.
WorkerState == [at : {"none", "top"}] \cup [at : {"waiting"}, on : Queue]
                                      \cup [at : {"busy", "replied"}, msg : Msg]

Handling(w) == worker[w].at \in {"busy", "replied"}

NoTask == [at |-> "none"]
AtTop == [at |-> "top"]

Init ==
    /\ app = "down" /\ started = FALSE
    /\ rxQueue = NULL /\ rxTask = NULL /\ registered = FALSE
    /\ content = [q \in {} |-> <<>>]
    /\ worker = [w \in Worker |-> NoTask]
    /\ radio = NULL
    /\ heap = {}
    /\ espNow = FALSE
    /\ peers = {} /\ adding = [s \in Sender |-> NULL] /\ outcome = "none"
-----------------------------------------------------------------------------
(* phymcp_transport_init.  It checks s_started first.  A failure before the  *)
(* queue is left out: at most it leaves ESP-NOW initialised with nothing     *)
(* registered and nothing started, which the next init does again.           *)

\* Mutant of CanAdd: ESP_ERR_ESPNOW_EXIST is taken for an error.
CanAddNew(m) == espNow /\ m \notin peers /\ Cardinality(peers) < PeerLimit

\* phymcp_transport_add_peer succeeds if the peer is there already.
CanAdd(m) == espNow /\ (m \in peers \/ Cardinality(peers) < PeerLimit)

QueueExists(q) == q \in DOMAIN content

\* Mutant of InitCreateQueue: it does not check s_started.
InitAgain ==
    /\ app \in {"down", "up"}
    /\ \E q \in Queue :
          /\ ~QueueExists(q)
          /\ rxQueue' = q
          /\ content' = [r \in DOMAIN content \cup {q} |->
                            IF r = q THEN <<>> ELSE content[r]]
    /\ espNow' = TRUE
    /\ app' = "queue"
    /\ UNCHANGED <<started, rxTask, registered, worker, radio, heap, peers, adding, outcome>>

\* ESP-NOW is initialised, and xQueueCreate overwrites s_rx_queue, whatever it
\* held.
InitCreateQueue ==
    /\ app = "down" /\ ~started
    /\ \E q \in Queue :
          /\ ~QueueExists(q)
          /\ rxQueue' = q
          /\ content' = [r \in DOMAIN content \cup {q} |->
                            IF r = q THEN <<>> ELSE content[r]]
    /\ espNow' = TRUE
    /\ app' = "queue"
    /\ UNCHANGED <<started, rxTask, registered, worker, radio, heap, peers, adding, outcome>>

\* No memory for the queue: whatever s_rx_queue held is forgotten, and ESP-NOW is
\* then shut down.
InitNoQueue ==
    /\ app = "down" /\ ~started
    /\ rxQueue' = NULL
    /\ espNow' = TRUE
    /\ app' = "noQueue"
    /\ UNCHANGED <<started, rxTask, registered, content, worker, radio, heap,
                   peers, adding, outcome>>

InitCreateTask ==
    /\ app = "queue"
    /\ \E w \in Worker :
          /\ worker[w] = NoTask
          /\ rxTask' = w
          /\ worker' = [worker EXCEPT ![w] = AtTop]
    /\ app' = "task"
    /\ UNCHANGED <<started, rxQueue, registered, content, radio, heap, sending>>

Delete(q) == content' = [r \in DOMAIN content \ {q} |-> content[r]]

\* No memory for the task: the queue is deleted, not the frames in it,
InitNoTask ==
    /\ app = "queue"
    /\ Delete(rxQueue)
    /\ app' = "noTask"
    /\ UNCHANGED <<started, rxQueue, rxTask, registered, worker, radio, heap, sending>>

\* then forgotten,
InitForgetQueue ==
    /\ app = "noTask"
    /\ rxQueue' = NULL
    /\ app' = "noQueue"
    /\ UNCHANGED <<started, rxTask, registered, content, worker, radio, heap, sending>>

\* and ESP-NOW is shut down.
InitGiveUp ==
    /\ app = "noQueue" /\ radio = NULL
    /\ registered' = FALSE
    /\ espNow' = FALSE
    /\ peers' = {}
    /\ app' = "down"
    /\ UNCHANGED <<started, rxQueue, rxTask, content, worker, radio, heap, adding, outcome>>

InitRegister ==
    /\ app = "task"
    /\ registered' = TRUE
    /\ app' = "registered"
    /\ UNCHANGED <<started, rxQueue, rxTask, content, worker, radio, heap, sending>>

\* Only now do sends succeed, though frames are already handled.
InitAddBroadcast ==
    /\ app = "registered"
    /\ CanAdd(Broadcast)
    /\ peers' = peers \cup {Broadcast}
    /\ started' = TRUE
    /\ app' = "up"
    /\ UNCHANGED <<rxQueue, rxTask, registered, content, worker, radio, heap,
                   espNow, adding, outcome>>

\* When registering the callback or adding the peer fails, init returns and
\* leaves queue, task and callback as they are.
InitFailsLate ==
    /\ LateFailure
    /\ app \in {"task", "registered"}
    /\ app' = "down"
    /\ UNCHANGED <<started, rxQueue, rxTask, registered, content, worker, radio,
                   heap, sending>>
-----------------------------------------------------------------------------
(* phymcp_transport_deinit.  Unless started it does nothing at all. *)

\* esp_now_unregister_recv_cb
DeinitUnregister ==
    /\ app = "up" /\ adding[App] = NULL
    /\ registered' = FALSE
    /\ app' = "unregistered"
    /\ UNCHANGED <<started, rxQueue, rxTask, content, worker, radio, heap, sending>>

\* esp_now_deinit
DeinitEspNow ==
    /\ app = "unregistered" /\ radio = NULL
    /\ espNow' = FALSE
    /\ peers' = {}
    /\ app' = "quiet"
    /\ UNCHANGED <<started, rxQueue, rxTask, registered, content, worker, radio,
                   heap, adding, outcome>>

\* Mutant of DeinitDeleteTask: the handle is cleared, the task goes on.
DeinitForgetTask ==
    /\ app = "quiet"
    /\ rxTask' = NULL
    /\ app' = "drain"
    /\ UNCHANGED <<started, rxQueue, registered, content, worker, radio, heap, sending>>

\* vTaskDelete stops the worker wherever it is.
DeinitDeleteTask ==
    /\ app = "quiet"
    /\ worker' = [worker EXCEPT ![rxTask] = NoTask]
    /\ adding' = [adding EXCEPT ![rxTask] = NULL]
    /\ rxTask' = NULL
    /\ app' = "drain"
    /\ UNCHANGED <<started, rxQueue, registered, content, radio, heap, espNow, peers, outcome>>

DeinitDrainOne ==
    /\ app = "drain" /\ content[rxQueue] # <<>>
    /\ heap' = heap \ {Head(content[rxQueue])}
    /\ content' = [content EXCEPT ![rxQueue] = Tail(@)]
    /\ UNCHANGED <<lifecycle, worker, radio, sending>>

\* Mutant of DeinitDeleteQueue: the queue is not drained.
DeinitDropQueue ==
    /\ app = "drain"
    /\ Delete(rxQueue)
    /\ rxQueue' = NULL
    /\ started' = FALSE
    /\ app' = "down"
    /\ UNCHANGED <<rxTask, registered, worker, radio, heap, sending>>

DeinitDeleteQueue ==
    /\ app = "drain" /\ content[rxQueue] = <<>>
    /\ Delete(rxQueue)
    /\ rxQueue' = NULL
    /\ started' = FALSE
    /\ app' = "down"
    /\ UNCHANGED <<rxTask, registered, worker, radio, heap, sending>>
-----------------------------------------------------------------------------
(* recv_cb, in the Wi-Fi task *)

\* It sees a queue and copies the frame; without memory it drops the frame.
RecvBegin ==
    /\ registered /\ radio = NULL /\ rxQueue # NULL
    /\ \E m \in Msg \ heap : radio' = m /\ heap' = heap \cup {m}
    /\ UNCHANGED <<lifecycle, content, worker, sending>>

\* Mutant of RecvPost: the copy is freed whether or not it was posted.
RecvPostAndFree ==
    /\ radio # NULL /\ QueueExists(rxQueue)
    /\ content' = IF Len(content[rxQueue]) < QueueSize
                  THEN [content EXCEPT ![rxQueue] = Append(@, radio)]
                  ELSE content
    /\ heap' = heap \ {radio}
    /\ radio' = NULL
    /\ UNCHANGED <<lifecycle, worker, sending>>

\* Mutant of RecvPost: a full queue is not noticed.
RecvPostUnbounded ==
    /\ radio # NULL /\ QueueExists(rxQueue)
    /\ content' = [content EXCEPT ![rxQueue] = Append(@, radio)]
    /\ radio' = NULL
    /\ UNCHANGED <<lifecycle, worker, heap, sending>>

\* Mutant of RecvPost: a full queue loses its oldest frame.
RecvPostDropOldest ==
    /\ radio # NULL /\ QueueExists(rxQueue)
    /\ IF Len(content[rxQueue]) < QueueSize
       THEN /\ content' = [content EXCEPT ![rxQueue] = Append(@, radio)]
            /\ heap' = heap
       ELSE /\ heap' = heap \ {Head(content[rxQueue])}
            /\ content' = [content EXCEPT ![rxQueue] = Append(Tail(@), radio)]
    /\ radio' = NULL
    /\ UNCHANGED <<lifecycle, worker, sending>>

\* Then it reads s_rx_queue again and posts the copy, or frees it.
RecvPost ==
    /\ radio # NULL /\ QueueExists(rxQueue)
    /\ IF Len(content[rxQueue]) < QueueSize
       THEN /\ content' = [content EXCEPT ![rxQueue] = Append(@, radio)]
            /\ heap' = heap
       ELSE /\ heap' = heap \ {radio}
            /\ content' = content
    /\ radio' = NULL
    /\ UNCHANGED <<lifecycle, worker, sending>>
-----------------------------------------------------------------------------
(* rx_task *)

RxWait(w) ==
    /\ worker[w].at = "top" /\ QueueExists(rxQueue)
    /\ worker' = [worker EXCEPT ![w] = [at |-> "waiting", on |-> rxQueue]]
    /\ UNCHANGED <<lifecycle, content, radio, heap, sending>>

RxReceive(w) ==
    /\ worker[w].at = "waiting" /\ QueueExists(worker[w].on)
    /\ content[worker[w].on] # <<>>
    /\ worker' = [worker EXCEPT ![w] = [at |-> "busy",
                                        msg |-> Head(content[worker[w].on])]]
    /\ content' = [content EXCEPT ![worker[w].on] = Tail(@)]
    /\ UNCHANGED <<lifecycle, radio, heap, sending>>

\* Mutant of RxDone: the task ends after a frame.
RxDoneEnds(w) ==
    /\ Handling(w) /\ adding[w] = NULL
    /\ heap' = heap \ {worker[w].msg}
    /\ worker' = [worker EXCEPT ![w] = NoTask]
    /\ UNCHANGED <<lifecycle, content, radio, sending>>

\* The frame was unpacked and, if it is one, handled by the layer above.
RxDone(w) ==
    /\ Handling(w) /\ adding[w] = NULL
    /\ heap' = heap \ {worker[w].msg}
    /\ worker' = [worker EXCEPT ![w] = AtTop]
    /\ UNCHANGED <<lifecycle, content, radio, sending>>
-----------------------------------------------------------------------------
(* phymcp_transport_send_json, by the application or inside a handler.  Only *)
(* the part that can go wrong between two senders is modelled: the peer is   *)
(* looked up, and added in a later step if it was missing.                   *)

MaySend(s) == IF s = App THEN app = "up" ELSE worker[s].at = "busy"

SendLookup(s) ==
    /\ MaySend(s) /\ started /\ adding[s] = NULL
    /\ \E m \in Mac \ peers : adding' = [adding EXCEPT ![s] = m]
    /\ UNCHANGED <<lifecycle, content, worker, radio, heap, espNow, peers, outcome>>

SendAddPeer(s) ==
    /\ adding[s] # NULL
    /\ IF CanAdd(adding[s])
       THEN peers' = peers \cup {adding[s]} /\ outcome' = "added"
       ELSE peers' = peers /\ outcome' = "refused"
    /\ adding' = [adding EXCEPT ![s] = NULL]
    /\ worker' = [w \in Worker |-> IF w = s THEN [worker[w] EXCEPT !.at = "replied"]
                                           ELSE worker[w]]
    /\ UNCHANGED <<lifecycle, content, radio, heap, espNow>>
-----------------------------------------------------------------------------
Startup == \/ InitCreateQueue \/ InitNoQueue \/ InitCreateTask \/ InitRegister \/ InitAddBroadcast
           \/ InitNoTask \/ InitForgetQueue \/ InitGiveUp \/ InitFailsLate

Shutdown == \/ DeinitUnregister \/ DeinitEspNow \/ DeinitDeleteTask
            \/ DeinitDrainOne \/ DeinitDeleteQueue

Rx(w) == RxWait(w) \/ RxReceive(w) \/ RxDone(w)

Send(s) == SendLookup(s) \/ SendAddPeer(s)

Next == \/ Startup
        \/ Shutdown
        \/ RecvBegin \/ RecvPost
        \/ \E w \in Worker : Rx(w)
        \/ \E s \in Sender : Send(s)

Spec == Init /\ [][Next]_vars

\* The scheduler runs every task that can run: the worker goes on, a handler
\* returns, a callback that was begun ends, and so does a deinit.
Fairness == /\ \A w \in Worker : WF_vars(Rx(w)) /\ WF_vars(SendAddPeer(w))
            /\ WF_vars(SendAddPeer(App))
            /\ WF_vars(RecvPost)
            /\ WF_vars(DeinitEspNow \/ DeinitDeleteTask \/ DeinitDrainOne \/ DeinitDeleteQueue)

FairSpec == Spec /\ Fairness
-----------------------------------------------------------------------------
(* Properties *)

Queued(q) == {content[q][i] : i \in 1..Len(content[q])}

Handled == {worker[w].msg : w \in {v \in Worker : Handling(v)}}

InFlight == {radio} \ {NULL}

TypeOK ==
    /\ app \in {"down", "queue", "noTask", "noQueue", "task", "registered", "up",
               "unregistered", "quiet", "drain"}
    /\ started \in BOOLEAN /\ registered \in BOOLEAN /\ espNow \in BOOLEAN
    /\ rxQueue \in Queue \cup {NULL} /\ rxTask \in Worker \cup {NULL}
    /\ DOMAIN content \subseteq Queue
    /\ \A q \in DOMAIN content : content[q] \in Seq(Msg) /\ Len(content[q]) <= QueueSize
    /\ worker \in [Worker -> WorkerState]
    /\ radio \in Msg \cup {NULL} /\ heap \subseteq Msg
    /\ peers \subseteq Mac \cup {Broadcast} /\ adding \in [Sender -> Mac \cup {NULL}]
    /\ outcome \in {"none", "added", "refused"}

\* No queue is deleted under a task that is blocked on it or about to be, nor
\* under a receive callback that is about to post to it.
QueueOutlivesUsers ==
    /\ \A w \in Worker : /\ worker[w].at = "top" => QueueExists(rxQueue)
                         /\ worker[w].at = "waiting" => QueueExists(worker[w].on)
    /\ radio # NULL => QueueExists(rxQueue)

\* Frames are handled by one task at a time, as the layers above assume: their
\* handlers use statics without a lock.
OneAtATime ==
    \A v, w \in Worker : Handling(v) /\ Handling(w) => v = w

\* Every frame in use is allocated, and exactly one task, queue or callback
\* is going to free it.
OneOwner ==
    /\ InFlight \cup Handled \cup UNION {Queued(q) : q \in DOMAIN content} \subseteq heap
    /\ InFlight \cap Handled = {}
    /\ \A q \in DOMAIN content :
          /\ Queued(q) \cap (InFlight \cup Handled) = {}
          /\ \A r \in DOMAIN content \ {q} : Queued(q) \cap Queued(r) = {}
          /\ Cardinality(Queued(q)) = Len(content[q])

Lost == heap \ (InFlight \cup Handled \cup UNION {Queued(q) : q \in DOMAIN content})

\* A frame is leaked only when deinit deletes the worker while it handles one.
LeaksOnlyByDeletion ==
    [][Lost' \subseteq Lost \/ (DeinitDeleteTask /\ Handling(rxTask))]_vars

\* A send is refused for lack of a peer only after deinit has shut ESP-NOW down,
\* or when its table is full of others: never because another task added the
\* same peer in between, even as the last one that fits, nor because ESP-NOW is
\* not up yet.
RefusedOnlyWhenFull ==
    [][\A s \in Sender : SendAddPeer(s) /\ outcome' = "refused"
                 => \/ app \in {"quiet", "drain", "down"}
                    \/ adding[s] \notin peers /\ Cardinality(peers) >= PeerLimit]_vars

\* A frame that was posted is taken from its queue, by the worker or by deinit.
EveryFrameIsTaken ==
    \A q \in Queue, m \in Msg :
        (QueueExists(q) /\ m \in Queued(q)) ~> ~(QueueExists(q) /\ m \in Queued(q))
-----------------------------------------------------------------------------
(* Refinement: while there is a task to take them, the frames in s_rx_queue *)
(* are a mailbox, for which the callback copies what comes, and which       *)
(* deinit resets when it deletes the task.                                  *)

Waiting == IF rxTask # NULL /\ QueueExists(rxQueue) THEN content[rxQueue] ELSE <<>>

Box == INSTANCE Mailbox WITH Item <- Msg, Capacity <- QueueSize,
                             coming <- InFlight, box <- Waiting, busy <- Handled

\* The layers above get frames in the order of their arrival, one at a time, and
\* none from before a deinit after the next init, whatever queues and tasks come
\* and go and wherever the callback and the worker are then.  A frame that the
\* callback has copied is lost only if it finds the queue full, and one that is
\* queued only to deinit.  (Frames that come when there is no callback, no
\* queue or no memory for a copy are lost before that.)
ImplementsMailbox == Box!BoxSpec
=============================================================================
