--------------------------- MODULE TransportProofs ---------------------------
(***************************************************************************)
(* Theorems about Transport, for any number of queues, tasks, frames and   *)
(* peers.  Types, the ownership of frames and the addition of peers are as *)
(* they should be whether or not the last calls of init can fail; that no  *)
(* queue is deleted under its users, that one task at a time handles       *)
(* frames, that only deinit leaks one, and that queue and worker implement *)
(* Mailbox, hold if they do not fail.                                      *)
(***************************************************************************)
EXTENDS Transport, FiniteSetTheorems, SequenceTheorems, TLAPS

-----------------------------------------------------------------------------
(* Frames in a queue *)

Elems(s) == {s[i] : i \in 1..Len(s)}

NoDup(s) == \A i, j \in 1..Len(s) : s[i] = s[j] => i = j

LEMMA EmptyElems == <<>> \in Seq(Msg) /\ Len(<<>>) = 0 /\ Elems(<<>>) = {} /\ NoDup(<<>>)
BY EmptySeq DEF Elems, NoDup

LEMMA QueueElems ==
    ASSUME NEW s \in Seq(Msg)
    PROVE  Len(s) \in Nat /\ Elems(s) \subseteq Msg
BY LenProperties DEF Elems

\* A frame that is posted is in the queue, with those that were there.
LEMMA PostedElems ==
    ASSUME NEW s \in Seq(Msg), NEW m \in Msg
    PROVE  /\ Append(s, m) \in Seq(Msg)
           /\ Len(Append(s, m)) = Len(s) + 1
           /\ Elems(Append(s, m)) = Elems(s) \cup {m}
           /\ NoDup(s) /\ m \notin Elems(s) => NoDup(Append(s, m))
<1> DEFINE t == Append(s, m)
<1>1. /\ Len(s) \in Nat /\ t \in Seq(Msg) /\ Len(t) = Len(s) + 1
      /\ \A i \in 1..Len(s) : t[i] = s[i]
      /\ t[Len(s) + 1] = m
  BY AppendProperties, LenProperties
<1> HIDE DEF t
<1>2. \A i \in 1..Len(t) : i \in 1..Len(s) \/ i = Len(s) + 1
  BY <1>1
<1>3. Elems(t) = Elems(s) \cup {m}
  BY <1>1, <1>2 DEF Elems
<1>4. NoDup(s) /\ m \notin Elems(s) => NoDup(t)
  BY <1>1, <1>2 DEF NoDup, Elems
<1> QED
  BY <1>1, <1>3, <1>4 DEF t

\* A frame that is taken is in the queue no longer.
LEMMA TakenElems ==
    ASSUME NEW s \in Seq(Msg), s # <<>>, NoDup(s)
    PROVE  /\ Head(s) \in Elems(s) /\ Head(s) \in Msg
           /\ Tail(s) \in Seq(Msg) /\ Len(Tail(s)) = Len(s) - 1
           /\ Elems(Tail(s)) = Elems(s) \ {Head(s)}
           /\ NoDup(Tail(s))
<1> DEFINE t == Tail(s)
<1>1. /\ Len(s) \in Nat \ {0} /\ t \in Seq(Msg) /\ Len(t) = Len(s) - 1
      /\ \A i \in 1..Len(t) : t[i] = s[i + 1]
      /\ Head(s) = s[1] /\ Head(s) \in Msg
  BY HeadTailProperties, EmptySeq
<1> HIDE DEF t
<1>2. \A i \in 1..Len(t) : i + 1 \in 1..Len(s) /\ i + 1 # 1
  BY <1>1
<1>3. \A i \in 1..Len(s) : i = 1 \/ (i - 1 \in 1..Len(t) /\ s[i] = t[i - 1])
  BY <1>1
<1>4. Head(s) \in Elems(s)
  BY <1>1 DEF Elems
<1>5. Elems(t) = Elems(s) \ {Head(s)}
  <2>1. Elems(t) \subseteq Elems(s) \ {Head(s)}
    BY <1>1, <1>2 DEF Elems, NoDup
  <2>2. Elems(s) \ {Head(s)} \subseteq Elems(t)
    BY <1>1, <1>3 DEF Elems
  <2> QED
    BY <2>1, <2>2
<1>6. NoDup(t)
  BY <1>1, <1>2 DEF NoDup
<1> QED
  BY <1>1, <1>4, <1>5, <1>6 DEF t

\* A queue without repetitions holds as many frames as it is long.
LEMMA CountElems ==
    ASSUME NEW s \in Seq(Msg), NoDup(s)
    PROVE  Cardinality(Elems(s)) = Len(s)
<1>1. Len(s) \in Nat /\ s \in [1..Len(s) -> Msg]
  BY LenProperties
<1>2. s \in Bijection(1..Len(s), Elems(s))
  <2>1. s \in [1..Len(s) -> Elems(s)]
    BY <1>1 DEF Elems
  <2>2. s \in Injection(1..Len(s), Elems(s))
    BY <2>1 DEF NoDup, Injection, IsInjective
  <2>3. s \in Surjection(1..Len(s), Elems(s))
    BY <2>1 DEF Elems, Surjection
  <2> QED
    BY <2>2, <2>3 DEF Bijection
<1>3. IsFiniteSet(1..Len(s)) /\ Cardinality(1..Len(s)) = Len(s)
  BY <1>1, FS_Interval
<1> QED
  BY <1>2, <1>3, FS_Bijection DEF ExistsBijection
-----------------------------------------------------------------------------
(* Types and ownership *)

Running == {"task", "registered", "up", "unregistered", "quiet"}

\* What init has made is there until deinit takes it away, and a task that is
\* adding a peer is in a handler.
Made == /\ app \in Running \cup {"queue", "drain"} => QueueExists(rxQueue)
        /\ app \in Running => rxTask \in Worker
        /\ \A w \in Worker : adding[w] # NULL => worker[w].at = "busy"

\* Frames that tasks handle are allocated, and no two tasks have the same.
WorkersOwn ==
    \A w \in Worker : Handling(w) =>
        /\ worker[w].msg \in heap /\ worker[w].msg # radio
        /\ \A v \in Worker \ {w} : Handling(v) => worker[v].msg # worker[w].msg

\* Frames in queues are allocated, and nothing else has them.
QueuesOwn ==
    \A q \in DOMAIN content :
        /\ Elems(content[q]) \subseteq heap /\ NoDup(content[q])
        /\ radio \notin Elems(content[q])
        /\ \A w \in Worker : Handling(w) => worker[w].msg \notin Elems(content[q])
        /\ \A r \in DOMAIN content \ {q} : Elems(content[q]) \cap Elems(content[r]) = {}

Owned == (radio # NULL => radio \in heap) /\ WorkersOwn /\ QueuesOwn

FrameInv == TypeOK /\ Made /\ Owned

\* The states of a task.
LEMMA WorkerFacts ==
    /\ NoTask \in WorkerState /\ AtTop \in WorkerState
    /\ \A q \in Queue : [at |-> "waiting", on |-> q] \in WorkerState
    /\ \A m \in Msg : [at |-> "busy", msg |-> m] \in WorkerState
    /\ \A s \in WorkerState :
          /\ s.at \in {"none", "top", "waiting", "busy", "replied"}
          /\ s.at = "none" => s = NoTask
          /\ s.at = "waiting" => s.on \in Queue
          /\ s.at \in {"busy", "replied"} => s.msg \in Msg
BY DEF WorkerState, NoTask, AtTop

\* A task that has replied still handles the same frame.
LEMMA RepliedState ==
    ASSUME NEW s \in WorkerState, s.at = "busy"
    PROVE  /\ [s EXCEPT !.at = "replied"] \in WorkerState
           /\ [s EXCEPT !.at = "replied"].at = "replied"
           /\ [s EXCEPT !.at = "replied"].msg = s.msg
<1>1. s \in [at : {"busy", "replied"}, msg : Msg]
  BY DEF WorkerState
<1> QED
  BY <1>1 DEF WorkerState

\* A step that moves no frame keeps their owners.
LEMMA OwnersStay ==
    ASSUME Owned, UNCHANGED <<radio, heap, content>>,
           \A w \in Worker : Handling(w)' => Handling(w) /\ worker'[w].msg = worker[w].msg
    PROVE  Owned'
BY DEF Owned, WorkersOwn, QueuesOwn

\* Nor does a step lose a frame that forgets no frame of a task.
LEMMA QueueStep ==
    ASSUME Owned, UNCHANGED <<radio, heap, worker>>,
           \A q \in DOMAIN content' : \/ q \in DOMAIN content /\ content'[q] = content[q]
                                      \/ content'[q] = <<>>
    PROVE  Owned'
<1>1. \A q \in DOMAIN content' : \/ q \in DOMAIN content /\ content'[q] = content[q]
                                 \/ Elems(content'[q]) = {} /\ NoDup(content'[q])
  BY EmptyElems
<1> QED
  BY <1>1 DEF Owned, WorkersOwn, QueuesOwn, Handling

LEMMA InitFrameInv == Init => FrameInv
<1> SUFFICES ASSUME Init PROVE FrameInv
  OBVIOUS
<1>1. DOMAIN content = {} /\ NoTask \in WorkerState /\ \A w \in Worker : ~Handling(w)
  BY WorkerFacts DEF Init, Handling, NoTask
<1>2. TypeOK
  BY <1>1 DEF Init, TypeOK
<1> QED
  BY <1>1, <1>2 DEF Init, FrameInv, Made, Owned, WorkersOwn, QueuesOwn, Running, Sender

LEMMA StepFrameInv == FrameInv /\ [Next]_vars => FrameInv'
<1> SUFFICES ASSUME FrameInv, [Next]_vars PROVE FrameInv'
  OBVIOUS
<1> USE DEF FrameInv, lifecycle, sending
<1>1. CASE InitCreateQueue
  <2>1. PICK q \in Queue : /\ ~QueueExists(q) /\ rxQueue' = q
                           /\ content' = [r \in DOMAIN content \cup {q} |->
                                             IF r = q THEN <<>> ELSE content[r]]
    BY <1>1 DEF InitCreateQueue
  <2>2. TypeOK'
    BY <1>1, <2>1, EmptyElems, LimitsAreNat DEF InitCreateQueue, TypeOK
  <2>3. Made'
    BY <1>1, <2>1 DEF InitCreateQueue, Made, Running, QueueExists
  <2>4. Owned'
    BY <1>1, <2>1, QueueStep DEF InitCreateQueue, QueueExists
  <2> QED
    BY <2>2, <2>3, <2>4
<1>2. CASE InitCreateTask
  <2>1. PICK w \in Worker : /\ worker[w] = NoTask /\ rxTask' = w
                            /\ worker' = [worker EXCEPT ![w] = AtTop]
    BY <1>2 DEF InitCreateTask
  <2>2. TypeOK'
    BY <1>2, <2>1, WorkerFacts DEF InitCreateTask, TypeOK
  <2>3. Made'
    BY <1>2, <2>1 DEF InitCreateTask, Made, Running, QueueExists, TypeOK, NoTask
  <2>4. Owned'
    BY <1>2, <2>1, OwnersStay DEF InitCreateTask, Handling, TypeOK, AtTop
  <2> QED
    BY <2>2, <2>3, <2>4
<1>3. CASE InitNoTask
  <2>1. TypeOK' /\ Made'
    BY <1>3 DEF InitNoTask, Delete, TypeOK, Made, Running
  <2>2. Owned'
    BY <1>3, QueueStep DEF InitNoTask, Delete
  <2> QED
    BY <2>1, <2>2
<1>4. CASE InitNoQueue \/ InitForgetQueue \/ InitGiveUp \/ InitRegister \/ InitAddBroadcast
          \/ InitFailsLate \/ DeinitUnregister \/ DeinitEspNow
  <2>1. UNCHANGED <<content, worker, radio, heap, adding, rxTask>>
    BY <1>4 DEF InitNoQueue, InitForgetQueue, InitGiveUp, InitRegister, InitAddBroadcast,
                InitFailsLate, DeinitUnregister, DeinitEspNow
  <2>2. TypeOK'
    BY <1>4, <2>1 DEF TypeOK, InitNoQueue, InitForgetQueue, InitGiveUp, InitRegister, InitAddBroadcast,
                      InitFailsLate, DeinitUnregister, DeinitEspNow
  <2>3. Made'
    BY <1>4, <2>1 DEF Made, Running, QueueExists, InitNoQueue, InitForgetQueue, InitGiveUp,
                      InitRegister, InitAddBroadcast, InitFailsLate, DeinitUnregister, DeinitEspNow
  <2>4. Owned'
    BY <2>1, OwnersStay DEF Handling
  <2> QED
    BY <2>2, <2>3, <2>4
<1>5. CASE DeinitDeleteTask
  <2>1. rxTask \in Worker
    BY <1>5 DEF DeinitDeleteTask, Made, Running
  <2>2. TypeOK'
    BY <1>5, WorkerFacts DEF DeinitDeleteTask, TypeOK
  <2>3. Made'
    BY <1>5, <2>1 DEF DeinitDeleteTask, Made, Running, QueueExists, TypeOK, Sender
  <2>4. Owned'
    BY <1>5, OwnersStay DEF DeinitDeleteTask, Handling, TypeOK, NoTask
  <2> QED
    BY <2>2, <2>3, <2>4
<1>6. CASE DeinitDrainOne
  <2> DEFINE s == content[rxQueue]
  <2>1. /\ rxQueue \in DOMAIN content /\ s \in Seq(Msg) /\ s # <<>> /\ NoDup(s)
        /\ heap' = heap \ {Head(s)} /\ content' = [content EXCEPT ![rxQueue] = Tail(s)]
        /\ UNCHANGED <<lifecycle, worker, radio, sending>>
    BY <1>6 DEF DeinitDrainOne, Made, QueueExists, TypeOK, Owned, QueuesOwn
  <2>2. /\ Head(s) \in Elems(s) /\ Head(s) \in Msg
        /\ Tail(s) \in Seq(Msg) /\ Len(Tail(s)) <= QueueSize
        /\ Elems(Tail(s)) = Elems(s) \ {Head(s)} /\ NoDup(Tail(s))
    <3>1. Len(s) \in Nat /\ Len(s) <= QueueSize
      BY <2>1, QueueElems DEF TypeOK
    <3> HIDE DEF s
    <3> QED
      BY <2>1, <3>1, TakenElems, LimitsAreNat
  <2> HIDE DEF s
  <2>3. TypeOK'
    BY <2>1, <2>2 DEF TypeOK
  <2>4. Made'
    BY <2>1 DEF Made, QueueExists
  <2>5. Owned'
    BY <2>1, <2>2, NullIsNoId DEF Owned, WorkersOwn, QueuesOwn, Handling, s
  <2> QED
    BY <2>3, <2>4, <2>5
<1>7. CASE DeinitDeleteQueue
  <2>1. TypeOK' /\ Made'
    BY <1>7 DEF DeinitDeleteQueue, Delete, TypeOK, Made, Running
  <2>2. Owned'
    BY <1>7, QueueStep DEF DeinitDeleteQueue, Delete
  <2> QED
    BY <2>1, <2>2
<1>8. CASE RecvBegin
  <2>1. PICK m \in Msg \ heap : radio' = m /\ heap' = heap \cup {m}
    BY <1>8 DEF RecvBegin
  <2>2. TypeOK' /\ Made'
    BY <1>8, <2>1 DEF RecvBegin, TypeOK, Made, QueueExists
  <2>3. Owned'
    BY <1>8, <2>1 DEF RecvBegin, Owned, WorkersOwn, QueuesOwn, Handling
  <2> QED
    BY <2>2, <2>3
<1>9. CASE RecvPost
  <2> DEFINE s == content[rxQueue]
  <2>1. /\ radio \in Msg /\ radio' = NULL /\ rxQueue \in DOMAIN content
        /\ s \in Seq(Msg) /\ NoDup(s) /\ radio \notin Elems(s) /\ Len(s) \in Nat
    BY <1>9, QueueElems DEF RecvPost, QueueExists, TypeOK, Owned, QueuesOwn
  <2>2. \A q \in DOMAIN content : NULL \notin Elems(content[q])
    BY QueueElems, NullIsNoId DEF TypeOK
  <2>3. \A w \in Worker : Handling(w) => worker[w].msg # NULL
    BY WorkerFacts, NullIsNoId DEF TypeOK, Handling
  <2>4. CASE Len(s) < QueueSize
    <3>1. /\ content' = [content EXCEPT ![rxQueue] = Append(s, radio)]
          /\ UNCHANGED <<heap, lifecycle, worker, sending>>
      BY <1>9, <2>4 DEF RecvPost
    <3>2. /\ Append(s, radio) \in Seq(Msg) /\ Len(Append(s, radio)) <= QueueSize
          /\ Elems(Append(s, radio)) = Elems(s) \cup {radio} /\ NoDup(Append(s, radio))
      <4> HIDE DEF s
      <4> QED
        BY <2>1, <2>4, PostedElems, LimitsAreNat
    <3>3. TypeOK'
      BY <2>1, <3>1, <3>2 DEF TypeOK
    <3>4. Made'
      BY <3>1 DEF Made, QueueExists
    <3>5. WorkersOwn' /\ radio' = NULL
      BY <2>1, <2>3, <3>1 DEF Owned, WorkersOwn, Handling
    <3>6. \A q \in DOMAIN content' : /\ q \in DOMAIN content
                                     /\ q # rxQueue => content'[q] = content[q]
                                     /\ q = rxQueue => content'[q] = Append(s, radio)
      BY <2>1, <3>1
    <3>7. QueuesOwn'
      <4> HIDE DEF s
      <4>1. ASSUME NEW q \in DOMAIN content'
            PROVE  /\ Elems(content'[q]) \subseteq heap /\ NoDup(content'[q])
                   /\ NULL \notin Elems(content'[q])
                   /\ \A w \in Worker : Handling(w) => worker[w].msg \notin Elems(content'[q])
        <5>1. /\ radio \in heap /\ radio # NULL
              /\ \A w \in Worker : Handling(w) => worker[w].msg # radio
          BY <2>1, NullIsNoId DEF Owned, WorkersOwn
        <5>2. CASE q = rxQueue
          <6>1. Elems(content'[q]) = Elems(s) \cup {radio} /\ NoDup(content'[q])
            BY <3>2, <3>6, <5>2
          <6>2. /\ Elems(s) \subseteq heap /\ NULL \notin Elems(s)
                /\ \A w \in Worker : Handling(w) => worker[w].msg \notin Elems(s)
            BY <2>1, <2>2 DEF Owned, QueuesOwn, s
          <6> QED
            BY <5>1, <6>1, <6>2
        <5>3. CASE q # rxQueue
          BY <2>2, <3>6, <5>3 DEF Owned, QueuesOwn
        <5> QED
          BY <5>2, <5>3
      <4>2. ASSUME NEW q \in DOMAIN content', NEW r \in DOMAIN content' \ {q}
            PROVE  Elems(content'[q]) \cap Elems(content'[r]) = {}
        BY <2>1, <3>2, <3>6 DEF Owned, QueuesOwn, s
      <4> QED
        BY <3>1, <3>5, <4>1, <4>2 DEF QueuesOwn, Handling
    <3>8. Owned'
      BY <3>5, <3>7 DEF Owned
    <3> QED
      BY <3>3, <3>4, <3>8
  <2>5. CASE ~(Len(s) < QueueSize)
    <3>1. heap' = heap \ {radio} /\ UNCHANGED <<content, lifecycle, worker, sending>>
      BY <1>9, <2>5 DEF RecvPost
    <3>2. TypeOK' /\ Made'
      BY <2>1, <3>1 DEF TypeOK, Made, QueueExists
    <3>3. Owned'
      BY <2>1, <2>2, <2>3, <3>1 DEF Owned, WorkersOwn, QueuesOwn, Handling
    <3> QED
      BY <3>2, <3>3
  <2> QED
    BY <2>4, <2>5
<1>10. ASSUME NEW w \in Worker, RxWait(w) PROVE FrameInv'
  <2>1. rxQueue \in Queue
    BY <1>10 DEF RxWait, QueueExists, TypeOK
  <2>2. TypeOK'
    BY <1>10, <2>1, WorkerFacts DEF RxWait, TypeOK
  <2>3. Made'
    BY <1>10 DEF RxWait, Made, QueueExists, TypeOK
  <2>4. Owned'
    BY <1>10, OwnersStay DEF RxWait, Handling, TypeOK
  <2> QED
    BY <2>2, <2>3, <2>4
<1>11. ASSUME NEW w \in Worker, RxReceive(w) PROVE FrameInv'
  <2> DEFINE q == worker[w].on
             s == content[q]
  <2>1. /\ worker[w].at = "waiting"
        /\ q \in DOMAIN content /\ s \in Seq(Msg) /\ s # <<>> /\ NoDup(s)
        /\ content' = [content EXCEPT ![q] = Tail(s)]
        /\ worker' = [worker EXCEPT ![w] = [at |-> "busy", msg |-> Head(s)]]
        /\ UNCHANGED <<lifecycle, radio, heap, sending>>
    BY <1>11 DEF RxReceive, QueueExists, TypeOK, Owned, QueuesOwn
  <2>2. /\ Head(s) \in Elems(s) /\ Head(s) \in Msg
        /\ Tail(s) \in Seq(Msg) /\ Len(Tail(s)) <= QueueSize
        /\ Elems(Tail(s)) = Elems(s) \ {Head(s)} /\ NoDup(Tail(s))
    <3>1. Len(s) \in Nat /\ Len(s) <= QueueSize
      BY <2>1, QueueElems DEF TypeOK
    <3> HIDE DEF s
    <3> QED
      BY <2>1, <3>1, TakenElems, LimitsAreNat
  <2> HIDE DEF q
  <2>3. TypeOK'
    BY <2>1, <2>2, WorkerFacts DEF TypeOK
  <2>4. Made'
    BY <2>1 DEF Made, QueueExists, TypeOK
  <2>5. \A v \in Worker : /\ v # w => worker'[v] = worker[v]
                          /\ worker'[w] = [at |-> "busy", msg |-> Head(s)]
    BY <2>1 DEF TypeOK
  <2>6. WorkersOwn'
    BY <2>1, <2>2, <2>5 DEF Owned, WorkersOwn, QueuesOwn, Handling
  <2>7. QueuesOwn'
    BY <2>1, <2>2, <2>5 DEF Owned, WorkersOwn, QueuesOwn, Handling
  <2>8. Owned'
    BY <2>1, <2>6, <2>7 DEF Owned
  <2> QED
    BY <2>3, <2>4, <2>8
<1>12. ASSUME NEW w \in Worker, RxDone(w) PROVE FrameInv'
  <2>1. \A v \in Worker : (v # w => worker'[v] = worker[v]) /\ worker'[w] = AtTop
    BY <1>12 DEF RxDone, TypeOK
  <2>2. TypeOK'
    BY <1>12, WorkerFacts DEF RxDone, TypeOK
  <2>3. Made'
    BY <1>12, <2>1 DEF RxDone, Made, QueueExists
  <2>4. \A v \in Worker : Handling(v)' => v # w /\ Handling(v) /\ worker'[v] = worker[v]
    BY <2>1 DEF Handling, AtTop
  <2>5. Owned'
    BY <1>12, <2>4 DEF RxDone, Owned, WorkersOwn, QueuesOwn
  <2> QED
    BY <2>2, <2>3, <2>5
<1>13. ASSUME NEW s \in Sender, SendLookup(s) PROVE FrameInv'
  <2>1. TypeOK'
    BY <1>13 DEF SendLookup, TypeOK
  <2>2. Made'
    BY <1>13, AppIsNoWorker DEF SendLookup, Made, QueueExists, MaySend, TypeOK, Sender
  <2>3. Owned'
    BY <1>13, OwnersStay DEF SendLookup, Handling
  <2> QED
    BY <2>1, <2>2, <2>3
<1>14. ASSUME NEW s \in Sender, SendAddPeer(s) PROVE FrameInv'
  <2>1. \A w \in Worker : worker'[w] = IF w = s THEN [worker[w] EXCEPT !.at = "replied"]
                                                ELSE worker[w]
    BY <1>14 DEF SendAddPeer
  <2>2. s \in Worker => worker[s].at = "busy" /\ adding'[s] = NULL
    BY <1>14 DEF SendAddPeer, Made, TypeOK
  <2>3. \A w \in Worker :
           /\ worker'[w] \in WorkerState
           /\ w = s => worker'[w].at = "replied" /\ worker'[w].msg = worker[w].msg
    BY <2>1, <2>2, RepliedState DEF TypeOK
  <2>4. TypeOK'
    <3>1. peers' \subseteq Mac \cup {Broadcast}
      BY <1>14 DEF SendAddPeer, TypeOK
    <3>2. worker' \in [Worker -> WorkerState]
      BY <1>14, <2>3 DEF SendAddPeer
    <3> QED
      BY <1>14, <3>1, <3>2 DEF SendAddPeer, TypeOK
  <2>5. Made'
    BY <1>14, <2>1, <2>2 DEF SendAddPeer, Made, QueueExists, TypeOK
  <2>6. Owned'
    BY <1>14, <2>1, <2>2, <2>3, OwnersStay DEF SendAddPeer, Handling
  <2> QED
    BY <2>4, <2>5, <2>6
<1>15. CASE UNCHANGED vars
  BY <1>15 DEF vars, TypeOK, Made, QueueExists, Owned, WorkersOwn, QueuesOwn, Handling
<1> QED
  BY <1>1, <1>2, <1>3, <1>4, <1>5, <1>6, <1>7, <1>8, <1>9, <1>10, <1>11, <1>12, <1>13,
     <1>14, <1>15 DEF Next, Startup, Shutdown, Rx, Send

LEMMA FrameInvariance == Spec => []FrameInv
BY InitFrameInv, StepFrameInv, PTL DEF Spec

\* Every variable keeps its type, whichever calls of init fail.
THEOREM TypeCorrect == Spec => []TypeOK
BY FrameInvariance, PTL DEF FrameInv

\* Every frame in use is allocated and has one owner that will free it: the
\* callback, one queue, once, or one task.
THEOREM OneOwnerHolds == Spec => []OneOwner
<1>1. FrameInv => OneOwner
  <2> SUFFICES ASSUME FrameInv PROVE OneOwner
    OBVIOUS
  <2>1. \A q \in DOMAIN content : Queued(q) = Elems(content[q])
    BY DEF Queued, Elems
  <2>2. \A q \in DOMAIN content : Cardinality(Queued(q)) = Len(content[q])
    BY <2>1, CountElems DEF FrameInv, TypeOK, Owned, QueuesOwn
  <2>3. InFlight \subseteq heap /\ Handled \subseteq heap /\ InFlight \cap Handled = {}
    BY DEF FrameInv, Owned, WorkersOwn, InFlight, Handled
  <2>4. \A q \in DOMAIN content : Queued(q) \subseteq heap /\ Queued(q) \cap (InFlight \cup Handled) = {}
    BY <2>1 DEF FrameInv, Owned, QueuesOwn, InFlight, Handled
  <2>5. \A q \in DOMAIN content : \A r \in DOMAIN content \ {q} : Queued(q) \cap Queued(r) = {}
    BY <2>1 DEF FrameInv, Owned, QueuesOwn
  <2> QED
    BY <2>2, <2>3, <2>4, <2>5 DEF OneOwner
<1> QED
  BY <1>1, FrameInvariance, PTL
-----------------------------------------------------------------------------
(* Who is there in each phase of init and deinit, if init's last calls do    *)
(* not fail.                                                                 *)

\* The callback posts only while it may be registered.
CallbackPhase == /\ registered => app \in {"registered", "up"}
                 /\ radio # NULL => app \in {"registered", "up", "unregistered"}

\* There is one queue at most, and it is s_rx_queue.
QueuePhase == /\ app \in {"down", "noTask", "noQueue"} => DOMAIN content = {}
              /\ app \in Running \cup {"queue", "drain"} => DOMAIN content = {rxQueue}
              /\ app = "queue" => content[rxQueue] = <<>>

\* There is one task at most, it is s_rx_task, and it waits on that queue.
TaskPhase == \A w \in Worker :
                /\ worker[w] # NoTask => app \in Running /\ w = rxTask
                /\ worker[w].at = "waiting" => worker[w].on = rxQueue

PhaseInv == FrameInv /\ CallbackPhase /\ QueuePhase /\ TaskPhase

LEMMA InitPhaseInv == Init => PhaseInv
<1> SUFFICES ASSUME Init PROVE PhaseInv
  OBVIOUS
<1>1. DOMAIN content = {} /\ \A w \in Worker : worker[w] = NoTask
  BY DEF Init
<1> QED
  BY <1>1, InitFrameInv DEF Init, PhaseInv, CallbackPhase, QueuePhase, TaskPhase, Running, NoTask

LEMMA StepPhaseInv == ~LateFailure /\ PhaseInv /\ [Next]_vars => PhaseInv'
<1> SUFFICES ASSUME ~LateFailure, PhaseInv, [Next]_vars PROVE PhaseInv'
  OBVIOUS
<1>0. FrameInv'
  BY StepFrameInv DEF PhaseInv
<1> USE DEF lifecycle, sending, Running
<1>1. CallbackPhase'
  BY DEF PhaseInv, CallbackPhase, Next, vars, Startup, Shutdown, Rx, Send, InitCreateQueue, InitNoQueue,
         InitCreateTask, InitNoTask, InitForgetQueue, InitGiveUp, InitRegister, InitAddBroadcast,
         InitFailsLate, DeinitUnregister, DeinitEspNow, DeinitDeleteTask, DeinitDrainOne,
         DeinitDeleteQueue, RecvBegin, RecvPost, RxWait, RxReceive, RxDone, SendLookup, SendAddPeer
<1>2. QueuePhase'
  <2>1. CASE InitCreateQueue
    BY <2>1 DEF InitCreateQueue, PhaseInv, QueuePhase
  <2>2. CASE InitNoTask
    BY <2>2 DEF InitNoTask, Delete, PhaseInv, QueuePhase
  <2>3. CASE DeinitDeleteQueue
    BY <2>3 DEF DeinitDeleteQueue, Delete, PhaseInv, QueuePhase
  <2>4. CASE \/ InitNoQueue \/ InitCreateTask \/ InitForgetQueue \/ InitGiveUp \/ InitRegister
             \/ InitAddBroadcast \/ InitFailsLate \/ DeinitUnregister \/ DeinitEspNow
             \/ DeinitDeleteTask
    BY <2>4 DEF PhaseInv, QueuePhase, InitNoQueue, InitCreateTask, InitForgetQueue, InitGiveUp, InitRegister,
                InitAddBroadcast, InitFailsLate, DeinitUnregister, DeinitEspNow, DeinitDeleteTask
  <2>5. CASE DeinitDrainOne
    BY <2>5 DEF PhaseInv, QueuePhase, DeinitDrainOne
  <2>6. CASE RecvBegin
    BY <2>6 DEF PhaseInv, QueuePhase, RecvBegin
  <2>7. CASE RecvPost
    BY <2>7 DEF PhaseInv, QueuePhase, CallbackPhase, RecvPost
  <2>8. ASSUME NEW w \in Worker, Rx(w) PROVE QueuePhase'
    <3>1. worker[w] # NoTask
      BY <2>8 DEF Rx, RxWait, RxReceive, RxDone, NoTask, Handling
    <3>2. app \in Running
      BY <3>1 DEF PhaseInv, TaskPhase
    <3> QED
      BY <2>8, <3>2 DEF PhaseInv, QueuePhase, Rx, RxWait, RxReceive, RxDone
  <2>9. ASSUME NEW s \in Sender, Send(s) PROVE QueuePhase'
    BY <2>9 DEF PhaseInv, QueuePhase, Send, SendLookup, SendAddPeer
  <2>10. CASE UNCHANGED vars
    BY <2>10 DEF PhaseInv, QueuePhase, vars
  <2> QED
    BY <2>1, <2>2, <2>3, <2>4, <2>5, <2>6, <2>7, <2>8, <2>9, <2>10 DEF Next, Startup, Shutdown
<1>3. TaskPhase'
  <2> SUFFICES ASSUME NEW w \in Worker
               PROVE  /\ worker'[w] # NoTask => app' \in Running /\ w = rxTask'
                      /\ worker'[w].at = "waiting" => worker'[w].on = rxQueue'
    BY DEF TaskPhase
  <2>0. /\ worker[w] # NoTask => app \in Running /\ w = rxTask
        /\ worker[w].at = "waiting" => worker[w].on = rxQueue
        /\ worker[w] = NoTask => worker[w].at = "none"
        /\ worker \in [Worker -> WorkerState]
    BY DEF PhaseInv, TaskPhase, NoTask, FrameInv, TypeOK
  <2>1. CASE InitCreateTask
    BY <2>0, <2>1 DEF InitCreateTask, AtTop
  <2>2. CASE InitCreateQueue \/ InitNoQueue \/ InitNoTask \/ InitForgetQueue \/ InitGiveUp
             \/ DeinitDeleteQueue \/ DeinitDrainOne
    BY <2>0, <2>2 DEF InitCreateQueue, InitNoQueue, InitNoTask, InitForgetQueue, InitGiveUp,
                      DeinitDeleteQueue, DeinitDrainOne
  <2>3. CASE \/ InitRegister \/ InitAddBroadcast \/ InitFailsLate
             \/ DeinitUnregister \/ DeinitEspNow \/ RecvBegin \/ RecvPost
    BY <2>0, <2>3 DEF InitRegister, InitAddBroadcast, InitFailsLate, DeinitUnregister,
                      DeinitEspNow, RecvBegin, RecvPost
  <2>4. CASE DeinitDeleteTask
    BY <2>0, <2>4 DEF DeinitDeleteTask, NoTask
  <2>5. ASSUME NEW v \in Worker, Rx(v)
        PROVE  /\ worker'[w] # NoTask => app' \in Running /\ w = rxTask'
               /\ worker'[w].at = "waiting" => worker'[w].on = rxQueue'
    <3>1. worker[v] # NoTask /\ UNCHANGED lifecycle
      BY <2>5 DEF Rx, RxWait, RxReceive, RxDone, NoTask, Handling
    <3>2. CASE w = v
      BY <2>0, <2>5, <3>1, <3>2 DEF Rx, RxWait, RxReceive, RxDone, AtTop
    <3>3. CASE w # v
      BY <2>0, <2>5, <3>1, <3>3 DEF Rx, RxWait, RxReceive, RxDone
    <3> QED
      BY <3>2, <3>3
  <2>6. ASSUME NEW s \in Sender, Send(s)
        PROVE  /\ worker'[w] # NoTask => app' \in Running /\ w = rxTask'
               /\ worker'[w].at = "waiting" => worker'[w].on = rxQueue'
    <3>1. CASE SendLookup(s)
      BY <2>0, <3>1 DEF SendLookup
    <3>2. CASE SendAddPeer(s) /\ w # s
      BY <2>0, <3>2 DEF SendAddPeer
    <3>3. CASE SendAddPeer(s) /\ w = s
      <4>1. worker[w].at = "busy" /\ worker[w] # NoTask
        BY <2>0, <3>3 DEF SendAddPeer, PhaseInv, FrameInv, Made
      <4>2. worker'[w].at = "replied"
        BY <2>0, <3>3, <4>1, RepliedState DEF SendAddPeer
      <4> QED
        BY <2>0, <3>3, <4>1, <4>2 DEF SendAddPeer
    <3> QED
      BY <2>6, <3>1, <3>2, <3>3 DEF Send
  <2>7. CASE UNCHANGED vars
    BY <2>0, <2>7 DEF vars
  <2> QED
    BY <2>1, <2>2, <2>3, <2>4, <2>5, <2>6, <2>7 DEF Next, Startup, Shutdown
<1> QED
  BY <1>0, <1>1, <1>2, <1>3 DEF PhaseInv

LEMMA PhaseInvariance == ~LateFailure => (Spec => []PhaseInv)
<1>1. CASE ~LateFailure
  <2>1. PhaseInv /\ [Next]_vars => PhaseInv'
    BY <1>1, StepPhaseInv
  <2> QED
    BY <2>1, InitPhaseInv, PTL DEF Spec
<1> QED
  BY <1>1

\* If init's last two calls do not fail, no queue is deleted under a task or a
\* callback that is going to use it.
THEOREM QueueOutlivesUsersHolds == ~LateFailure => (Spec => []QueueOutlivesUsers)
<1>1. PhaseInv => QueueOutlivesUsers
  <2> SUFFICES ASSUME PhaseInv PROVE QueueOutlivesUsers
    OBVIOUS
  <2>1. app \in Running => QueueExists(rxQueue)
    BY DEF PhaseInv, FrameInv, Made, Running
  <2>2. ASSUME NEW w \in Worker, worker[w].at \in {"top", "waiting"}
        PROVE  QueueExists(rxQueue) /\ (worker[w].at = "waiting" => worker[w].on = rxQueue)
    BY <2>1, <2>2 DEF PhaseInv, TaskPhase, NoTask
  <2>3. radio # NULL => QueueExists(rxQueue)
    BY <2>1 DEF PhaseInv, CallbackPhase, Running
  <2> QED
    BY <2>2, <2>3 DEF QueueOutlivesUsers
<1>2. CASE ~LateFailure
  BY <1>1, <1>2, PhaseInvariance, PTL
<1> QED
  BY <1>2

\* And handlers run one at a time, as the layers above need.
THEOREM OneAtATimeHolds == ~LateFailure => (Spec => []OneAtATime)
<1>1. PhaseInv => OneAtATime
  BY DEF PhaseInv, TaskPhase, OneAtATime, Handling, NoTask
<1>2. CASE ~LateFailure
  BY <1>1, <1>2, PhaseInvariance, PTL
<1> QED
  BY <1>2
-----------------------------------------------------------------------------
(* Leaks *)

\* m is allocated and nobody is going to free it.
IsLost(m) == /\ m \in heap /\ m # radio
             /\ \A w \in Worker : Handling(w) => worker[w].msg # m
             /\ \A q \in DOMAIN content : m \notin Elems(content[q])

LEMMA LostFrames == FrameInv => \A m : m \in Lost <=> IsLost(m)
<1> SUFFICES ASSUME FrameInv, NEW m, m \in heap PROVE m \in Lost <=> IsLost(m)
  BY DEF Lost, IsLost
<1>1. m # NULL
  BY NullIsNoId DEF FrameInv, TypeOK
<1>2. m \in InFlight <=> m = radio
  BY <1>1 DEF InFlight
<1>3. m \in Handled <=> \E w \in Worker : Handling(w) /\ worker[w].msg = m
  BY DEF Handled
<1>4. m \in UNION {Queued(q) : q \in DOMAIN content}
         <=> \E q \in DOMAIN content : m \in Elems(content[q])
  BY DEF Queued, Elems
<1> QED
  BY <1>2, <1>3, <1>4 DEF Lost, IsLost

\* A frame that is lost in a step was lost before, or deinit deleted its worker.
LEMMA LostBefore ==
    ASSUME PhaseInv, ~LateFailure, [Next]_vars, NEW m, IsLost(m)',
           ~(DeinitDeleteTask /\ Handling(rxTask))
    PROVE  IsLost(m)
<1> USE DEF lifecycle, sending
<1>0. FrameInv /\ TypeOK /\ QueuesOwn /\ Made
  BY DEF PhaseInv, FrameInv, Owned
<1>1. CASE \/ InitNoQueue \/ InitForgetQueue \/ InitGiveUp \/ InitRegister \/ InitAddBroadcast
           \/ InitFailsLate \/ DeinitUnregister \/ DeinitEspNow \/ UNCHANGED vars
  BY <1>1 DEF IsLost, Handling, vars, InitNoQueue, InitForgetQueue, InitGiveUp, InitRegister, InitAddBroadcast,
              InitFailsLate, DeinitUnregister, DeinitEspNow
<1>2. CASE InitCreateQueue
  BY <1>2, EmptyElems DEF IsLost, Handling, InitCreateQueue, QueueExists
<1>3. CASE InitCreateTask
  BY <1>3 DEF IsLost, Handling, InitCreateTask, NoTask
<1>4. CASE InitNoTask
  <2>1. Elems(content[rxQueue]) = {}
    \* The queue that is deleted is empty.
    BY <1>4, EmptyElems DEF InitNoTask, PhaseInv, QueuePhase
  <2>2. \A q \in DOMAIN content : q # rxQueue => q \in DOMAIN content' /\ content'[q] = content[q]
    BY <1>4 DEF InitNoTask, Delete
  <2> QED
    BY <1>4, <2>1, <2>2 DEF IsLost, Handling, InitNoTask
<1>5. CASE DeinitDeleteTask
  BY <1>5 DEF IsLost, Handling, DeinitDeleteTask
<1>6. CASE DeinitDrainOne
  <2> DEFINE s == content[rxQueue]
  <2>1. /\ rxQueue \in DOMAIN content /\ s \in Seq(Msg) /\ s # <<>> /\ NoDup(s)
        /\ heap' = heap \ {Head(s)} /\ content' = [content EXCEPT ![rxQueue] = Tail(s)]
        /\ UNCHANGED <<worker, radio>>
    BY <1>0, <1>6 DEF DeinitDrainOne, Made, QueueExists, TypeOK, QueuesOwn
  <2>2. Elems(Tail(s)) = Elems(s) \ {Head(s)}
    <3> HIDE DEF s
    <3> QED
      BY <2>1, TakenElems
  <2> QED
    BY <2>1, <2>2 DEF IsLost, Handling
<1>7. CASE DeinitDeleteQueue
  BY <1>7, EmptyElems DEF IsLost, Handling, DeinitDeleteQueue, Delete
<1>8. CASE RecvBegin
  BY <1>0, <1>8, NullIsNoId DEF IsLost, Handling, RecvBegin, TypeOK
<1>9. CASE RecvPost
  <2> DEFINE s == content[rxQueue]
  <2>1. radio \in Msg /\ rxQueue \in DOMAIN content /\ s \in Seq(Msg)
    BY <1>0, <1>9 DEF RecvPost, QueueExists, TypeOK
  <2>2. Elems(Append(s, radio)) = Elems(s) \cup {radio}
    <3> HIDE DEF s
    <3> QED
      BY <2>1, PostedElems
  <2>3. CASE Len(s) < QueueSize
    BY <1>9, <2>1, <2>2, <2>3 DEF IsLost, Handling, RecvPost
  <2>4. CASE ~(Len(s) < QueueSize)
    BY <1>9, <2>4 DEF IsLost, Handling, RecvPost
  <2> QED
    BY <2>3, <2>4
<1>10. ASSUME NEW w \in Worker, Rx(w) PROVE IsLost(m)
  <2>1. CASE RxWait(w)
    BY <1>0, <2>1 DEF IsLost, Handling, RxWait, TypeOK
  <2>2. CASE RxReceive(w)
    <3> DEFINE q == worker[w].on
               s == content[q]
    <3>1. /\ worker[w].at = "waiting"
          /\ q \in DOMAIN content /\ s \in Seq(Msg) /\ s # <<>> /\ NoDup(s)
          /\ content' = [content EXCEPT ![q] = Tail(s)]
          /\ worker' = [worker EXCEPT ![w] = [at |-> "busy", msg |-> Head(s)]]
          /\ UNCHANGED <<radio, heap>>
      BY <1>0, <2>2 DEF RxReceive, QueueExists, TypeOK, QueuesOwn
    <3>2. Elems(Tail(s)) = Elems(s) \ {Head(s)}
      <4> HIDE DEF s
      <4> QED
        BY <3>1, TakenElems
    <3> HIDE DEF q
    <3>3. Handling(w)' /\ worker'[w].msg = Head(s)
      BY <1>0, <3>1 DEF Handling, TypeOK
    <3>4. m # Head(s) /\ m \in heap /\ m # radio
      BY <3>1, <3>3 DEF IsLost
    <3>5. \A r \in DOMAIN content : m \notin Elems(content[r])
      BY <3>1, <3>2, <3>4 DEF IsLost
    <3>6. \A v \in Worker : Handling(v) => worker[v].msg # m
      BY <1>0, <3>1 DEF IsLost, Handling, TypeOK
    <3> QED
      BY <3>4, <3>5, <3>6 DEF IsLost
  <2>3. CASE RxDone(w)
    <3>1. m # worker[w].msg /\ m \in heap
      BY <2>3 DEF IsLost, RxDone
    <3> QED
      BY <1>0, <2>3, <3>1 DEF IsLost, Handling, RxDone, TypeOK
  <2> QED
    BY <1>10, <2>1, <2>2, <2>3 DEF Rx
<1>11. ASSUME NEW s \in Sender, Send(s) PROVE IsLost(m)
  <2>1. CASE SendLookup(s)
    BY <2>1 DEF IsLost, Handling, SendLookup
  <2>2. CASE SendAddPeer(s)
    <3>1. s \in Worker => worker[s].at = "busy" /\ worker[s] \in WorkerState
      BY <1>0, <2>2 DEF SendAddPeer, Made, TypeOK
    <3>2. \A w \in Worker : Handling(w) => Handling(w)' /\ worker'[w].msg = worker[w].msg
      BY <2>2, <3>1, RepliedState DEF SendAddPeer, Handling
    <3> QED
      BY <2>2, <3>2 DEF SendAddPeer, IsLost
  <2> QED
    BY <1>11, <2>1, <2>2 DEF Send
<1> QED
  BY <1>1, <1>2, <1>3, <1>4, <1>5, <1>6, <1>7, <1>8, <1>9, <1>10, <1>11
     DEF Next, Startup, Shutdown

\* If init's last two calls do not fail, only deinit leaks a frame, the one that
\* the worker it deletes is handling.
THEOREM LeaksOnlyByDeletionHolds == ~LateFailure => (Spec => LeaksOnlyByDeletion)
<1>0. FrameInv' => (\A m : m \in Lost <=> IsLost(m))'
  BY LostFrames, PTL
<1>1. CASE ~LateFailure
  <2>1. PhaseInv /\ PhaseInv' /\ [Next]_vars
           => [Lost' \subseteq Lost \/ (DeinitDeleteTask /\ Handling(rxTask))]_vars
    <3> SUFFICES ASSUME PhaseInv, PhaseInv', [Next]_vars,
                        ~(DeinitDeleteTask /\ Handling(rxTask)), NEW m \in Lost'
                 PROVE  m \in Lost
      OBVIOUS
    <3>1. IsLost(m)'
      BY <1>0 DEF PhaseInv
    <3>2. IsLost(m)
      BY <1>1, <3>1, LostBefore
    <3> QED
      BY <3>2, LostFrames DEF PhaseInv
  <2> QED
    BY <1>1, <2>1, PhaseInvariance, PTL DEF LeaksOnlyByDeletion, Spec
<1> QED
  BY <1>1
-----------------------------------------------------------------------------
(* The peer table *)

\* ESP-NOW is down only before init has started it and after deinit, or init
\* itself, has stopped it; its table never holds more than it has room for.
PeersInv == /\ ~espNow => app \in {"quiet", "drain", "down"}
            /\ IsFiniteSet(peers) /\ Cardinality(peers) <= PeerLimit

LEMMA PeerAdded ==
    ASSUME NEW m, IsFiniteSet(peers), Cardinality(peers) <= PeerLimit, CanAdd(m)
    PROVE  IsFiniteSet(peers \cup {m}) /\ Cardinality(peers \cup {m}) <= PeerLimit
<1>1. Cardinality(peers) \in Nat /\ PeerLimit \in Nat
  BY FS_CardinalityType, LimitsAreNat
<1>2. /\ IsFiniteSet(peers \cup {m})
      /\ Cardinality(peers \cup {m}) =
            IF m \in peers THEN Cardinality(peers) ELSE Cardinality(peers) + 1
  BY FS_AddElement
<1> QED
  BY <1>1, <1>2 DEF CanAdd

LEMMA InitPeersInv == Init => PeersInv
BY FS_EmptySet, LimitsAreNat DEF Init, PeersInv

LEMMA StepPeersInv == PeersInv /\ [Next]_vars => PeersInv'
<1> SUFFICES ASSUME PeersInv, [Next]_vars PROVE PeersInv'
  OBVIOUS
<1> USE DEF PeersInv, lifecycle, sending
<1>1. CASE InitAddBroadcast
  BY <1>1, PeerAdded DEF InitAddBroadcast, CanAdd
<1>2. CASE InitGiveUp \/ DeinitEspNow
  BY <1>2, FS_EmptySet, LimitsAreNat DEF InitGiveUp, DeinitEspNow
<1>3. CASE \/ InitCreateQueue \/ InitNoQueue \/ InitCreateTask \/ InitNoTask \/ InitForgetQueue
           \/ InitRegister \/ InitFailsLate \/ DeinitUnregister \/ DeinitDeleteTask \/ DeinitDrainOne
           \/ DeinitDeleteQueue
  BY <1>3 DEF InitCreateQueue, InitNoQueue, InitCreateTask, InitNoTask, InitForgetQueue, InitRegister,
              InitFailsLate, DeinitUnregister, DeinitDeleteTask, DeinitDrainOne, DeinitDeleteQueue
<1>4. CASE RecvBegin \/ RecvPost \/ UNCHANGED vars
  BY <1>4 DEF RecvBegin, RecvPost, vars
<1>5. ASSUME NEW w \in Worker, Rx(w) PROVE PeersInv'
  BY <1>5 DEF Rx, RxWait, RxReceive, RxDone
<1>6. ASSUME NEW s \in Sender, Send(s) PROVE PeersInv'
  <2>1. CASE SendLookup(s)
    BY <2>1 DEF SendLookup
  <2>2. CASE SendAddPeer(s)
    BY <2>2, PeerAdded DEF SendAddPeer
  <2> QED
    BY <1>6, <2>1, <2>2 DEF Send
<1> QED
  BY <1>1, <1>2, <1>3, <1>4, <1>5, <1>6 DEF Next, Startup, Shutdown

\* Whichever calls of init fail: a send is refused for lack of a peer only when
\* the table is full of others, or deinit has shut ESP-NOW down.
THEOREM RefusedOnlyWhenFullHolds == Spec => RefusedOnlyWhenFull
<1>1. PeersInv => [\A s \in Sender : SendAddPeer(s) /\ outcome' = "refused"
                      => \/ app \in {"quiet", "drain", "down"}
                         \/ adding[s] \notin peers /\ Cardinality(peers) >= PeerLimit]_vars
  <2> SUFFICES ASSUME PeersInv, NEW s \in Sender, SendAddPeer(s), outcome' = "refused",
                      app \notin {"quiet", "drain", "down"}
               PROVE  adding[s] \notin peers /\ Cardinality(peers) >= PeerLimit
    OBVIOUS
  <2>1. espNow /\ ~CanAdd(adding[s])
    BY DEF PeersInv, SendAddPeer
  <2>2. Cardinality(peers) \in Nat /\ PeerLimit \in Nat
    BY FS_CardinalityType, LimitsAreNat DEF PeersInv
  <2> QED
    BY <2>1, <2>2 DEF CanAdd
<1>2. Spec => []PeersInv
  BY InitPeersInv, StepPeersInv, PTL DEF Spec
<1> QED
  BY <1>1, <1>2, PTL DEF RefusedOnlyWhenFull
-----------------------------------------------------------------------------
(* The mailbox *)

\* The handle of the task is cleared whenever there is no task.
BoxInv == PhaseInv /\ (app \notin Running => rxTask = NULL)

LEMMA StepBoxInv == ~LateFailure /\ BoxInv /\ [Next]_vars => BoxInv'
<1> SUFFICES ASSUME ~LateFailure, BoxInv, [Next]_vars PROVE app' \notin Running => rxTask' = NULL
  BY StepPhaseInv DEF BoxInv
<1> QED
  BY DEF BoxInv, Running, lifecycle, Next, vars, Startup, Shutdown, Rx, Send, InitCreateQueue, InitNoQueue,
         InitCreateTask, InitNoTask, InitForgetQueue, InitGiveUp, InitRegister, InitAddBroadcast,
         InitFailsLate, DeinitUnregister, DeinitEspNow, DeinitDeleteTask, DeinitDrainOne,
         DeinitDeleteQueue, RecvBegin, RecvPost, RxWait, RxReceive, RxDone, SendLookup, SendAddPeer

\* No task but s_rx_task handles a frame.
LEMMA HandledBy ==
    ASSUME TaskPhase, NEW w \in Worker, worker[w] # NoTask
    PROVE  Handled = IF Handling(w) THEN {worker[w].msg} ELSE {}
<1>1. \A v \in Worker : v # w => ~Handling(v)
  BY DEF TaskPhase, Handling, NoTask
<1> QED
  BY <1>1 DEF Handled

LEMMA NoneHandled ==
    ASSUME \A w \in Worker : worker[w] = NoTask
    PROVE  Handled = {}
BY DEF Handled, Handling, NoTask

\* While there is a task, what waits is in s_rx_queue.
LEMMA WaitingIs ==
    ASSUME BoxInv, app \in Running
    PROVE  /\ rxTask \in Worker /\ rxTask # NULL /\ rxQueue \in DOMAIN content
           /\ Waiting = content[rxQueue] /\ content[rxQueue] \in Seq(Msg)
BY NullIsNoId DEF BoxInv, PhaseInv, FrameInv, Made, TypeOK, Waiting, QueueExists

\* A step that concerns neither the tasks nor their queue.
LEMMA ElsewhereStep ==
    ASSUME UNCHANGED <<worker, radio>>,
           \/ rxTask = NULL /\ rxTask' = NULL
           \/ UNCHANGED <<rxTask, rxQueue, content>>
    PROVE  UNCHANGED Box!boxVars
BY DEF Box!boxVars, Waiting, Handled, Handling, QueueExists, InFlight

\* A frame that has come is queued, or finds the queue full.
LEMMA PostIsPost ==
    ASSUME BoxInv, RecvPost
    PROVE  Box!Post \/ Box!Refuse
<1>1. radio \in Msg /\ radio # NULL /\ radio' = NULL /\ app \in Running
  BY DEF BoxInv, PhaseInv, FrameInv, TypeOK, CallbackPhase, Running, RecvPost
<1>2. /\ rxTask # NULL /\ rxQueue \in DOMAIN content /\ Waiting = content[rxQueue]
      /\ UNCHANGED <<rxTask, rxQueue, worker>>
  BY <1>1, WaitingIs DEF RecvPost, lifecycle
<1>3. Handled' = Handled
  BY <1>2 DEF Handled, Handling
<1>4. Waiting' = content'[rxQueue]
  BY <1>2 DEF RecvPost, Waiting, QueueExists
<1>5. InFlight = {radio} /\ InFlight' = {}
  BY <1>1 DEF InFlight
<1>6. CASE Len(content[rxQueue]) < QueueSize
  BY <1>1, <1>2, <1>3, <1>4, <1>5, <1>6 DEF RecvPost, Box!Post
<1>7. CASE ~(Len(content[rxQueue]) < QueueSize)
  <2>1. Len(content[rxQueue]) \in Nat
    BY <1>1, WaitingIs, LenProperties
  <2>2. Len(content[rxQueue]) >= QueueSize
    BY <1>7, <2>1, LimitsAreNat
  <2>3. UNCHANGED content
    BY <1>7 DEF RecvPost
  <2> QED
    BY <1>2, <1>3, <1>4, <1>5, <2>2, <2>3 DEF Box!Refuse
<1> QED
  BY <1>6, <1>7

\* The callback copies a frame: it has come.
LEMMA BeginIsCome ==
    ASSUME RecvBegin
    PROVE  Box!Come
<1>1. PICK m \in Msg : radio' = m
  BY DEF RecvBegin
<1>2. InFlight = {} /\ InFlight' = {m}
  BY <1>1, NullIsNoId DEF RecvBegin, InFlight
<1>3. Waiting' = Waiting /\ Handled' = Handled
  BY DEF RecvBegin, lifecycle, Waiting, QueueExists, Handled, Handling
<1> QED
  BY <1>2, <1>3 DEF Box!Come

LEMMA ReceiveIsTake ==
    ASSUME BoxInv, NEW w \in Worker, RxReceive(w)
    PROVE  Box!Take
<1>1. /\ worker[w] # NoTask /\ ~Handling(w) /\ TaskPhase /\ worker \in [Worker -> WorkerState]
  BY DEF RxReceive, NoTask, Handling, BoxInv, PhaseInv, FrameInv, TypeOK
<1>2. app \in Running /\ w = rxTask /\ worker[w].on = rxQueue
  BY <1>1 DEF TaskPhase, RxReceive
<1> DEFINE s == content[rxQueue]
<1>3. rxTask # NULL /\ rxQueue \in DOMAIN content /\ Waiting = s /\ s # <<>>
  BY <1>2, WaitingIs DEF RxReceive
<1>4. /\ worker' = [worker EXCEPT ![w] = [at |-> "busy", msg |-> Head(s)]]
      /\ content' = [content EXCEPT ![rxQueue] = Tail(s)]
      /\ UNCHANGED <<rxTask, rxQueue, radio>>
  BY <1>2 DEF RxReceive, lifecycle
<1>5. Waiting' = Tail(s)
  BY <1>3, <1>4 DEF Waiting, QueueExists
<1>6. Handled = {}
  BY <1>1, HandledBy
<1>7. Handled' = {Head(s)}
  <2>1. \A v \in Worker : v # w => ~Handling(v)'
    BY <1>1, <1>2, <1>4 DEF TaskPhase, Handling, NoTask
  <2>2. Handling(w)' /\ worker'[w].msg = Head(s)
    BY <1>1, <1>4 DEF Handling
  <2> QED
    BY <2>1, <2>2 DEF Handled
<1> QED
  BY <1>3, <1>4, <1>5, <1>6, <1>7 DEF Box!Take, InFlight

LEMMA RxStep ==
    ASSUME BoxInv, NEW w \in Worker, Rx(w)
    PROVE  Box!BoxNext \/ UNCHANGED Box!boxVars
<1>0. TaskPhase /\ worker \in [Worker -> WorkerState]
  BY DEF BoxInv, PhaseInv, FrameInv, TypeOK
<1>1. CASE RxWait(w)
  <2>1. UNCHANGED <<rxTask, rxQueue, content, radio>>
    BY <1>1 DEF RxWait, lifecycle
  <2>2. \A v \in Worker : /\ Handling(v)' <=> Handling(v)
                          /\ Handling(v) => worker'[v] = worker[v]
    BY <1>0, <1>1 DEF RxWait, Handling
  <2>3. Handled' = Handled
    BY <2>2 DEF Handled
  <2> QED
    BY <2>1, <2>3 DEF Box!boxVars, Waiting, QueueExists, InFlight
<1>2. CASE RxReceive(w)
  BY <1>2, ReceiveIsTake DEF Box!BoxNext
<1>3. CASE RxDone(w)
  <2>1. worker[w] # NoTask /\ Handling(w) /\ UNCHANGED <<rxTask, rxQueue, content, radio>>
    BY <1>3 DEF RxDone, Handling, NoTask, lifecycle
  <2>2. Handled = {worker[w].msg}
    BY <1>0, <2>1, HandledBy
  <2>3. \A v \in Worker : ~Handling(v)'
    BY <1>0, <1>3, <2>1 DEF TaskPhase, Handling, NoTask, AtTop, RxDone
  <2>4. Handled' = {}
    BY <2>3 DEF Handled
  <2> QED
    BY <2>1, <2>2, <2>4 DEF Box!BoxNext, Box!Finish, Waiting, QueueExists, InFlight
<1> QED
  BY <1>1, <1>2, <1>3 DEF Rx

LEMMA SendStutters ==
    ASSUME BoxInv, NEW s \in Sender, Send(s)
    PROVE  UNCHANGED Box!boxVars
<1>1. UNCHANGED <<rxTask, rxQueue, content, radio>>
  BY DEF Send, SendLookup, SendAddPeer, lifecycle
<1>2. \A w \in Worker : /\ Handling(w)' <=> Handling(w)
                        /\ Handling(w) => worker'[w].msg = worker[w].msg
  <2>1. CASE SendLookup(s)
    BY <2>1 DEF SendLookup, Handling
  <2>2. CASE SendAddPeer(s)
    <3>1. \A w \in Worker : w = s => worker[w].at = "busy" /\ worker[w] \in WorkerState
      BY <2>2 DEF SendAddPeer, BoxInv, PhaseInv, FrameInv, Made, TypeOK
    <3> QED
      BY <2>2, <3>1, RepliedState DEF SendAddPeer, Handling
  <2> QED
    BY <2>1, <2>2 DEF Send
<1>3. Handled' = Handled
  BY <1>2 DEF Handled
<1> QED
  BY <1>1, <1>3 DEF Box!boxVars, Waiting, QueueExists, InFlight

LEMMA InitIsBoxInit == Init => BoxInv /\ Box!BoxInit
<1> SUFFICES ASSUME Init PROVE BoxInv /\ Box!BoxInit
  OBVIOUS
<1>1. rxTask = NULL /\ InFlight = {} /\ \A w \in Worker : worker[w] = NoTask
  BY DEF Init, InFlight
<1> QED
  BY <1>1, InitPhaseInv, NoneHandled DEF BoxInv, Box!BoxInit, Waiting

LEMMA StepIsBoxStep ==
    ~LateFailure /\ BoxInv /\ [Next]_vars => [Box!BoxNext]_(Box!boxVars)
<1> SUFFICES ASSUME ~LateFailure, BoxInv, [Next]_vars
             PROVE  Box!BoxNext \/ UNCHANGED Box!boxVars
  OBVIOUS
<1>0. TaskPhase /\ (app \notin Running => rxTask = NULL)
  BY DEF BoxInv, PhaseInv
<1> USE DEF lifecycle, Running
<1>1. CASE InitCreateQueue \/ InitNoQueue \/ InitNoTask \/ InitForgetQueue \/ InitGiveUp
           \/ DeinitDrainOne \/ DeinitDeleteQueue
  <2>1. UNCHANGED <<worker, radio>> /\ rxTask = NULL /\ rxTask' = NULL
    BY <1>0, <1>1 DEF InitCreateQueue, InitNoQueue, InitNoTask, InitForgetQueue, InitGiveUp,
                      DeinitDrainOne, DeinitDeleteQueue
  <2> QED
    BY <2>1, ElsewhereStep
<1>2. CASE InitRegister \/ InitAddBroadcast \/ DeinitUnregister \/ DeinitEspNow
           \/ UNCHANGED vars
  <2>1. UNCHANGED <<worker, radio, rxTask, rxQueue, content>>
    BY <1>2 DEF InitRegister, InitAddBroadcast, DeinitUnregister, DeinitEspNow, vars
  <2> QED
    BY <2>1, ElsewhereStep
<1>3. CASE InitCreateTask
  <2>1. /\ rxTask = NULL /\ \A w \in Worker : worker[w] = NoTask
        /\ content' = content /\ rxQueue' = rxQueue /\ content[rxQueue] = <<>>
        /\ radio' = radio
    BY <1>0, <1>3 DEF InitCreateTask, TaskPhase, BoxInv, PhaseInv, QueuePhase
  <2>2. \A w \in Worker : ~Handling(w)'
    BY <1>3, <2>1 DEF InitCreateTask, Handling, NoTask, AtTop
  <2>3. Waiting = <<>> /\ Waiting' = <<>>
    BY <2>1 DEF Waiting, QueueExists
  <2>4. Handled = {} /\ Handled' = {}
    BY <2>1, <2>2, NoneHandled DEF Handled
  <2> QED
    BY <2>1, <2>3, <2>4 DEF Box!boxVars, InFlight
<1>4. CASE DeinitDeleteTask
  <2>1. \A w \in Worker : worker'[w] = NoTask
    BY <1>0, <1>4 DEF DeinitDeleteTask, TaskPhase, BoxInv, PhaseInv, FrameInv, TypeOK
  <2>2. Waiting' = <<>> /\ Handled' = {}
    BY <1>4, <2>1 DEF DeinitDeleteTask, Waiting, Handled, Handling, NoTask
  <2>3. InFlight' = {}
    BY <1>4 DEF DeinitDeleteTask, InFlight, BoxInv, PhaseInv, CallbackPhase
  <2> QED
    BY <2>2, <2>3 DEF Box!BoxNext, Box!Reset
<1>5. CASE RecvBegin \/ RecvPost
  BY <1>5, BeginIsCome, PostIsPost DEF Box!BoxNext
<1>6. ASSUME NEW w \in Worker, Rx(w) PROVE Box!BoxNext \/ UNCHANGED Box!boxVars
  BY <1>6, RxStep
<1>7. ASSUME NEW s \in Sender, Send(s) PROVE UNCHANGED Box!boxVars
  BY <1>7, SendStutters
<1>8. ~InitFailsLate
  BY DEF InitFailsLate
<1> QED
  BY <1>1, <1>2, <1>3, <1>4, <1>5, <1>6, <1>7, <1>8 DEF Next, Startup, Shutdown

\* If init's last two calls do not fail, the transport is a mailbox to the layer
\* above: frames are handled in order, one at a time, none twice, and none that
\* came before a deinit after it; one that the callback has copied is lost only
\* to a full queue, one that is queued only to deinit.
THEOREM MailboxImplementation == ~LateFailure => (Spec => ImplementsMailbox)
<1>1. CASE ~LateFailure
  <2>1. BoxInv /\ [Next]_vars => BoxInv' /\ [Box!BoxNext]_(Box!boxVars)
    BY <1>1, StepBoxInv, StepIsBoxStep
  <2> QED
    BY <2>1, InitIsBoxInit, PTL DEF Spec, ImplementsMailbox, Box!BoxSpec
<1> QED
  BY <1>1
===============================================================================
