---------------------------- MODULE DeviceProofs ----------------------------
(***************************************************************************)
(* Theorems about Device, for every set of sources and transaction ids,    *)
(* every cache size, duplicate window and queue length.                    *)
(***************************************************************************)
EXTENDS Device, FiniteSetTheorems, SequenceTheorems, TLAPS

-----------------------------------------------------------------------------
(* The cache. *)

\* The cache has at least one slot, and as many slots as its size says.
LEMMA SlotsAreFinite ==
    /\ CacheSize \in Nat \ {0}
    /\ IsFiniteSet(Slots)
    /\ Cardinality(Slots) = CacheSize
<1>1. CacheSize \in Nat \ {0}
  BY SizesAreNat DEF CacheSize
<1>2. IsFiniteSet(Slots) /\ Cardinality(Slots) = CacheSize
  BY <1>1, FS_Interval DEF Slots
<1> QED
  BY <1>1, <1>2

\* A zeroed cache is well formed and remembers nothing.
LEMMA ZeroedCacheType ==
    /\ ZeroedCache \in [Slots -> Entry]
    /\ \A i \in Slots, t \in Nat : ~Live(ZeroedCache[i], t)
BY DEF ZeroedCache, ZeroedEntry, Entry, Live

\* The sweep of find_duplicate changes no live entry and revives no dead one.
LEMMA SweptKeepsLive ==
    ASSUME NEW c \in [Slots -> Entry], NEW k \in Keys, NEW t \in Nat
    PROVE  /\ Swept(c, k, t) \in [Slots -> Entry]
           /\ \A i \in Slots : /\ Live(Swept(c, k, t)[i], t) <=> Live(c[i], t)
                               /\ Live(c[i], t) => Swept(c, k, t)[i] = c[i]
<1> DEFINE s == Swept(c, k, t)
<1>1. ASSUME NEW i \in Slots
      PROVE  /\ s[i] \in Entry
             /\ Live(s[i], t) <=> Live(c[i], t)
             /\ Live(c[i], t) => s[i] = c[i]
  <2>1. c[i] \in Entry
    OBVIOUS
  <2>2. \/ s[i] = c[i]
        \/ ~Live(c[i], t) /\ s[i] = [c[i] EXCEPT !.used = FALSE]
    BY DEF Swept
  <2> QED
    BY <2>1, <2>2 DEF Live, Entry
<1>2. s = [i \in Slots |-> s[i]]
  BY DEF Swept
<1> QED
  BY <1>1, <1>2

\* A store writes one slot and leaves the others alone.
LEMMA StoredType ==
    ASSUME NEW c \in [Slots -> Entry], NEW i \in Slots, NEW k \in Keys,
           NEW t \in Nat, NEW r \in Nat
    PROVE  /\ Stored(c, i, k, t, r) \in [Slots -> Entry]
           /\ Stored(c, i, k, t, r)[i] =
                  [used |-> TRUE, key |-> k, expires |-> t + TTL, response |-> r]
           /\ \A j \in Slots \ {i} : Stored(c, i, k, t, r)[j] = c[j]
BY TTLIsNat DEF Stored, Entry
-----------------------------------------------------------------------------
(* Type correctness. *)

\* What Send puts on the air is a frame, or nothing.
LEMMA SendType ==
    ASSUME NEW p \in Packet, NEW v \in Verdict, NEW r \in Nat, Send(p, v, r)
    PROVE  reply' \in Reply \cup {NoReply}
BY DEF Send, Answer, Reply, Packet

\* The frame at the head of the queue was offered, and what stays behind it
\* still is a queue.
LEMMA TakeType ==
    ASSUME TypeOK, NEW p \in Offered, Take(p)
    PROVE  /\ p \in Packet /\ p # NoPacket
           /\ KeyOf(p) \in Keys
           /\ rxQueue' \in Seq(Offered) /\ Len(rxQueue') <= RxQueueSize
           /\ phase = "idle" /\ pkt = NoPacket
<1>1. p \in Packet /\ p # NoPacket
  BY OfferedArePackets, NoneIsOutside
<1>2. rxQueue' \in Seq(Offered) /\ Len(rxQueue') = Len(rxQueue) - 1
  BY HeadTailProperties DEF Take, TypeOK
<1>3. Len(rxQueue) \in Nat /\ Len(rxQueue) <= RxQueueSize
  BY LenProperties DEF TypeOK
<1>4. KeyOf(p) \in Keys
  BY <1>1 DEF KeyOf, Keys, Packet
<1> QED
  BY <1>1, <1>2, <1>3, <1>4, QueueHasRoom DEF Take, TypeOK

\* A tool call leaves the cache well formed.
LEMMA TakeCallType ==
    ASSUME TypeOK, NEW p \in Offered, TakeCall(p)
    PROVE  /\ Take(p)
           /\ cache' \in [Slots -> Entry]
           /\ \A i \in Slots : /\ Live(cache'[i], now) <=> Live(cache[i], now)
                               /\ Live(cache[i], now) => cache'[i] = cache[i]
<1>1. Take(p) /\ KeyOf(p) \in Keys
  BY TakeType DEF TakeCall
<1> QED
  BY <1>1, SweptKeepsLive DEF TakeCall, TypeOK

LEMMA InitType == Init => TypeOK
BY ZeroedCacheType, EmptySeq, QueueHasRoom DEF Init, TypeOK, Never

LEMMA StepType == TypeOK /\ [Next]_vars => TypeOK'
<1> SUFFICES ASSUME TypeOK, [Next]_vars
             PROVE  TypeOK'
  OBVIOUS
<1> USE DEF history
<1>1. CASE Tick
  BY <1>1 DEF Tick, TypeOK, Silent
<1>2. CASE Restart
  BY <1>2, ZeroedCacheType, EmptySeq, QueueHasRoom
  DEF Restart, TypeOK, Silent, Never
<1>3. ASSUME NEW p \in Offered, RecvCb(p)
      PROVE  TypeOK'
  <2>1. CASE rxQueue' = rxQueue
    BY <1>3, <2>1 DEF RecvCb, TypeOK, Silent
  <2>2. CASE rxQueue' = Append(rxQueue, p) /\ Len(rxQueue) < RxQueueSize
    <3>1. /\ rxQueue' \in Seq(Offered)
          /\ Len(rxQueue') = Len(rxQueue) + 1
          /\ Len(rxQueue) \in Nat
      BY <2>2, AppendProperties, LenProperties DEF TypeOK
    <3>2. Len(rxQueue') <= RxQueueSize
      BY <2>2, <3>1, QueueHasRoom
    <3> QED
      BY <1>3, <3>1, <3>2 DEF RecvCb, TypeOK, Silent
  <2> QED
    BY <1>3, <2>1, <2>2 DEF RecvCb
<1>4. ASSUME NEW p \in Offered, DropUnframed(p)
      PROVE  TypeOK'
  BY <1>4, TakeType DEF DropUnframed, Done, Silent, TypeOK
<1>5. ASSUME NEW p \in Offered, HandleUnknownType(p)
      PROVE  TypeOK'
  <2>1. reply' \in Reply \cup {NoReply}
    BY <1>5, TakeType, SendType DEF HandleUnknownType, Verdict
  <2> QED
    BY <1>5, <2>1, TakeType DEF HandleUnknownType, Done, TypeOK
<1>6. ASSUME NEW p \in Offered, HandlePing(p)
      PROVE  TypeOK'
  <2>1. reply' \in Reply \cup {NoReply}
    BY <1>6, TakeType, SendType DEF HandlePing, Unparsed, OutOfMemory, Verdict
  <2> QED
    BY <1>6, <2>1, TakeType DEF HandlePing, Done, TypeOK
<1>7. ASSUME NEW p \in Offered, HandleToolsList(p)
      PROVE  TypeOK'
  <2>1. reply' \in Reply \cup {NoReply}
    BY <1>7, TakeType, SendType DEF HandleToolsList, Unparsed, OutOfMemory, Verdict
  <2> QED
    BY <1>7, <2>1, TakeType DEF HandleToolsList, Done, TypeOK
<1>8. ASSUME NEW p \in Offered, HandleDiscover(p)
      PROVE  TypeOK'
  <2>1. reply' \in Reply \cup {NoReply}
    BY <1>8, TakeType, SendType DEF HandleDiscover, Unparsed, Silent, Verdict
  <2> QED
    BY <1>8, <2>1, TakeType DEF HandleDiscover, Done, TypeOK
<1>9. ASSUME NEW p \in Offered, BeginJitter(p)
      PROVE  TypeOK'
  BY <1>9, TakeType DEF BeginJitter, Silent, TypeOK
<1>10. CASE EndJitter
  <2>1. pkt \in Packet
    BY <1>10, OfferedArePackets DEF EndJitter, TypeOK
  <2>2. reply' \in Reply \cup {NoReply}
    BY <1>10, <2>1, SendType DEF EndJitter, OutOfMemory, Verdict
  <2> QED
    BY <1>10, <2>2 DEF EndJitter, TypeOK
<1>11. ASSUME NEW p \in Offered, ReplayCall(p)
       PROVE  TypeOK'
  <2>1. Take(p) /\ p \in Packet /\ cache' \in [Slots -> Entry]
    BY <1>11, TakeCallType, TakeType DEF ReplayCall
  <2>2. \A i \in Slots : cache[i].response \in Nat
    BY DEF TypeOK, Entry
  <2>3. reply' \in Reply \cup {NoReply}
    BY <1>11, <2>1, <2>2, SendType DEF ReplayCall, Hit, Verdict
  <2> QED
    BY <1>11, <2>1, <2>3, TakeType DEF ReplayCall, Done, TypeOK
<1>12. ASSUME NEW p \in Offered, RefuseCall(p)
       PROVE  TypeOK'
  <2>1. Take(p) /\ p \in Packet /\ cache' \in [Slots -> Entry]
    BY <1>12, TakeCallType, TakeType DEF RefuseCall
  <2>2. reply' \in Reply \cup {NoReply}
    BY <1>12, <2>1, SendType DEF RefuseCall, Unparsed, OutOfMemory, Verdict
  <2> QED
    BY <1>12, <2>1, <2>2, TakeType DEF RefuseCall, Done, TypeOK
<1>13. ASSUME NEW p \in Offered, StartHandler(p)
       PROVE  TypeOK'
  <2>1. Take(p) /\ cache' \in [Slots -> Entry]
    BY <1>13, TakeCallType DEF StartHandler
  <2> QED
    BY <1>13, <2>1, TakeType DEF StartHandler, Silent, TypeOK
<1>14. CASE HandlerSucceeds
  <2>1. pkt \in Packet /\ KeyOf(pkt) \in Keys
    BY <1>14, OfferedArePackets
    DEF HandlerSucceeds, TypeOK, KeyOf, Keys, Packet
  <2>2. reply' \in Reply \cup {NoReply}
    BY <1>14, <2>1, SendType DEF HandlerSucceeds, Verdict, TypeOK
  <2>3. StoreSlots(cache, now) \subseteq Slots
    BY DEF StoreSlots, FirstDead
  <2>4. cache' \in [Slots -> Entry]
    <3>1. PICK i \in Slots : cache' = Stored(cache, i, KeyOf(pkt), now, runs)
      BY <1>14, <2>3 DEF HandlerSucceeds
    <3> QED
      BY <2>1, <3>1, StoredType DEF TypeOK
  <2> QED
    BY <1>14, <2>1, <2>2, <2>4 DEF HandlerSucceeds, TypeOK
<1>15. CASE HandlerFails
  <2>1. pkt \in Packet
    BY <1>15, OfferedArePackets DEF HandlerFails, TypeOK
  <2>2. reply' \in Reply \cup {NoReply}
    BY <1>15, <2>1, SendType DEF HandlerFails, Verdict
  <2> QED
    BY <1>15, <2>2 DEF HandlerFails, TypeOK
<1>16. CASE UNCHANGED vars
  BY <1>16 DEF vars, TypeOK
<1> QED
  BY <1>1, <1>2, <1>3, <1>4, <1>5, <1>6, <1>7, <1>8, <1>9, <1>10, <1>11,
     <1>12, <1>13, <1>14, <1>15, <1>16 DEF Next, RxCb, HandleToolCall

\* Every variable keeps its type, and the receive queue its capacity.
THEOREM TypeCorrect == Spec => []TypeOK
BY InitType, StepType, PTL DEF Spec
-----------------------------------------------------------------------------
(* The inductive invariant.  A step falls in one of three classes: it leaves
   the live entries, the clock and the history of answers alone; it advances
   the clock; it restarts the device; or it completes a run.               *)

\* A step that keeps the live entries, the clock and the answers.
SameMemory ==
    /\ UNCHANGED <<now, answered, lastRun>>
    /\ \A i \in Slots : /\ Live(cache'[i], now) <=> Live(cache[i], now)
                        /\ Live(cache[i], now) => cache'[i] = cache[i]

\* Such a step keeps what the invariant says of the cache.
LEMMA SameMemoryKeeps ==
    ASSUME IInv, SameMemory
    PROVE  /\ UniqueLive' /\ CacheTracksAnswers' /\ RememberedOrCrowded'
           /\ \A k \in Keys : Remembered(k)' <=> Remembered(k)
           /\ \A k \in Keys : InWindow(k)' <=> InWindow(k)
<1> USE DEF IInv, SameMemory
<1>1. \A i \in Slots, k \in Keys : Matches(cache'[i], k, now') <=> Matches(cache[i], k, now)
  BY DEF Matches
<1>2. \A k \in Keys : Remembered(k)' <=> Remembered(k)
  BY <1>1 DEF Remembered
<1>3. \A k \in Keys : InWindow(k)' <=> InWindow(k)
  BY DEF InWindow
<1>4. \A k \in Keys : Crowd(k)' = Crowd(k)
  BY DEF Crowd
<1>5. UniqueLive'
  BY DEF UniqueLive
<1>6. CacheTracksAnswers'
  BY DEF CacheTracksAnswers
<1>7. RememberedOrCrowded'
  BY <1>2, <1>3, <1>4 DEF RememberedOrCrowded
<1> QED
  BY <1>2, <1>3, <1>5, <1>6, <1>7

\* As time passes entries die, exactly when their windows close.
LEMMA TickKeeps ==
    ASSUME IInv, Tick
    PROVE  IInv'
<1> USE DEF IInv, history
<1>1. TypeOK'
  BY StepType DEF Next
<1>2. now \in Nat /\ now' = now + 1 /\ cache' = cache /\ cache \in [Slots -> Entry]
  BY DEF Tick, TypeOK
<1>3. \A i \in Slots : Live(cache[i], now') => Live(cache[i], now)
  BY <1>2 DEF Live, Entry
<1>4. UniqueLive' /\ CacheTracksAnswers'
  BY <1>2, <1>3 DEF Tick, UniqueLive, CacheTracksAnswers
<1>5. AnswersAreRuns'
  BY <1>2 DEF Tick, AnswersAreRuns, TypeOK
<1>6. RunningIsFresh'
  BY <1>2, <1>3 DEF Tick, RunningIsFresh, Remembered, Matches
<1>7. RememberedOrCrowded'
  <2> SUFFICES ASSUME NEW k \in Keys, InWindow(k)', ~Remembered(k)'
               PROVE  (CacheSize <= Cardinality(Crowd(k)))'
    BY DEF RememberedOrCrowded
  <2>1. InWindow(k)
    BY <1>2, TTLIsNat DEF InWindow, Tick, TypeOK, Never
  <2>2. ~Remembered(k)
    <3> SUFFICES ASSUME NEW i \in Slots, Matches(cache[i], k, now)
                 PROVE  FALSE
      BY DEF Remembered
    <3>1. cache[i].used /\ cache[i].expires = answered[k] + TTL
      BY DEF Matches, Live, CacheTracksAnswers
    <3>2. Matches(cache'[i], k, now')
      BY <1>2, <3>1 DEF Tick, Matches, Live, InWindow
    <3> QED
      BY <3>2 DEF Remembered
  <2>3. Crowd(k)' = Crowd(k)
    BY DEF Tick, Crowd
  <2> QED
    BY <2>1, <2>2, <2>3 DEF RememberedOrCrowded
<1>8. ReplyIsLastRun'
  BY DEF Tick, Silent, ReplyIsLastRun
<1> QED
  BY <1>1, <1>4, <1>5, <1>6, <1>7, <1>8

\* Nothing is cached and nothing was answered when a device starts.
LEMMA InitInvariant == Init => IInv
<1> SUFFICES ASSUME Init PROVE IInv
  OBVIOUS
<1>1. TypeOK
  BY InitType
<1>2. \A i \in Slots : ~Live(cache[i], now)
  BY ZeroedCacheType DEF Init
<1>3. UniqueLive /\ CacheTracksAnswers /\ AnswersAreRuns /\ RunningIsFresh
  BY <1>2 DEF Init, UniqueLive, CacheTracksAnswers, AnswersAreRuns, RunningIsFresh
<1>4. RememberedOrCrowded /\ ReplyIsLastRun
  BY DEF Init, RememberedOrCrowded, InWindow, ReplyIsLastRun
<1> QED
  BY <1>1, <1>3, <1>4 DEF IInv

\* Nor when it starts again.
LEMMA RestartKeeps ==
    ASSUME IInv, Restart
    PROVE  IInv'
<1>1. TypeOK'
  BY StepType DEF Next, IInv
<1>2. \A i \in Slots : ~Live(cache'[i], now')
  BY <1>1, ZeroedCacheType DEF Restart, TypeOK
<1>3. UniqueLive' /\ CacheTracksAnswers' /\ RunningIsFresh'
  BY <1>2 DEF Restart, UniqueLive, CacheTracksAnswers, RunningIsFresh
<1>4. AnswersAreRuns' /\ RememberedOrCrowded'
  BY DEF Restart, AnswersAreRuns, RememberedOrCrowded, InWindow
<1>5. ReplyIsLastRun'
  BY DEF Restart, Silent, ReplyIsLastRun
<1> QED
  BY <1>1, <1>3, <1>4, <1>5 DEF IInv

\* With every slot live, the cache holds as many different keys as it has
\* slots; leaving out one of them and adding another keeps the number.
LEMMA FullCacheCrowds ==
    ASSUME TypeOK, UniqueLive, CacheTracksAnswers,
           \A i \in Slots : Live(cache[i], now),
           NEW s \in Slots, NEW k \in Keys, ~Remembered(k)
    PROVE  LET others == {cache[i].key : i \in Slots \ {s}} \cup {k}
           IN  IsFiniteSet(others) /\ Cardinality(others) = CacheSize
<1> DEFINE rest == {cache[i].key : i \in Slots \ {s}}
           f == [i \in Slots \ {s} |-> cache[i].key]
<1>1. /\ IsFiniteSet(Slots \ {s})
      /\ Cardinality(Slots \ {s}) = CacheSize - 1
  BY SlotsAreFinite, FS_RemoveElement
<1>2. f \in Bijection(Slots \ {s}, rest)
  BY DEF UniqueLive, Bijection, Injection, Surjection, IsInjective
<1>3. IsFiniteSet(rest) /\ Cardinality(rest) = CacheSize - 1
  <2> HIDE DEF f, rest
  <2>1. ExistsBijection(Slots \ {s}, rest)
    BY <1>2 DEF ExistsBijection
  <2> QED
    BY <1>1, <2>1, FS_Bijection
<1>4. k \notin rest
  BY DEF Remembered, Matches
<1> HIDE DEF rest
<1>5. IsFiniteSet(rest \cup {k}) /\ Cardinality(rest \cup {k}) = CacheSize
  BY <1>3, <1>4, FS_AddElement, SlotsAreFinite
<1> QED
  BY <1>5 DEF rest

\* A completed run gets the only entry of its key; whoever lost an entry to it
\* was crowded out by the keys that share the cache from now on.
LEMMA SuccessKeeps ==
    ASSUME IInv, HandlerSucceeds
    PROVE  IInv'
<1> USE DEF IInv
<1> DEFINE k == KeyOf(pkt)
<1>1. TypeOK'
  BY StepType DEF Next
<1>2. k \in Keys /\ pkt \in Packet /\ now \in Nat /\ runs \in Nat
  BY OfferedArePackets DEF HandlerSucceeds, TypeOK, KeyOf, Keys, Packet
<1>3. PICK s \in Slots : /\ s \in StoreSlots(cache, now)
                        /\ cache' = Stored(cache, s, k, now, runs)
  BY DEF HandlerSucceeds, StoreSlots, FirstDead
<1>4. /\ cache'[s] = [used |-> TRUE, key |-> k, expires |-> now + TTL, response |-> runs]
      /\ \A i \in Slots \ {s} : cache'[i] = cache[i]
  BY <1>2, <1>3, StoredType DEF TypeOK
<1>5. Live(cache'[s], now) /\ now' = now
  BY <1>2, <1>4, TTLIsNat DEF Live, HandlerSucceeds
<1>6. ~Remembered(k) /\ runs > 0
  BY DEF RunningIsFresh, AnswersAreRuns, HandlerSucceeds
<1>7. /\ answered' = [answered EXCEPT ![k] = now]
      /\ lastRun' = [lastRun EXCEPT ![k] = runs]
      /\ runs' = runs
  BY DEF HandlerSucceeds
<1>8. /\ answered'[k] = now /\ lastRun'[k] = runs
      /\ \A j \in Keys \ {k} : answered'[j] = answered[j] /\ lastRun'[j] = lastRun[j]
  BY <1>2, <1>7 DEF TypeOK
<1> HIDE DEF k
<1>9. UniqueLive'
  BY <1>4, <1>5, <1>6 DEF UniqueLive, Remembered, Matches
<1>10. CacheTracksAnswers'
  <2> SUFFICES ASSUME NEW i \in Slots, Live(cache'[i], now)
               PROVE  /\ cache'[i].key \in Keys
                      /\ answered'[cache'[i].key] # Never
                      /\ cache'[i].expires = answered'[cache'[i].key] + TTL
                      /\ cache'[i].response = lastRun'[cache'[i].key]
    BY <1>5 DEF CacheTracksAnswers
  <2>1. CASE i = s
    BY <2>1, <1>2, <1>4, <1>8 DEF Never
  <2>2. CASE i # s
    <3>1. cache'[i] = cache[i] /\ cache[i].key \in Keys /\ cache[i].key # k
      BY <2>2, <1>4, <1>6 DEF CacheTracksAnswers, Remembered, Matches
    <3> QED
      BY <3>1, <1>8 DEF CacheTracksAnswers
  <2> QED
    BY <2>1, <2>2
<1>11. AnswersAreRuns'
  <2> SUFFICES ASSUME NEW j \in Keys, answered'[j] # Never
               PROVE  answered'[j] <= now /\ lastRun'[j] \in 1..runs
    BY <1>5, <1>7 DEF AnswersAreRuns, HandlerSucceeds
  <2> QED
    BY <1>2, <1>6, <1>8 DEF AnswersAreRuns
<1>12. RunningIsFresh'
  BY DEF RunningIsFresh, HandlerSucceeds
<1>13. RememberedOrCrowded'
  <2> SUFFICES ASSUME NEW j \in Keys, InWindow(j)', ~Remembered(j)'
               PROVE  CacheSize <= Cardinality(Crowd(j)')
    BY DEF RememberedOrCrowded
  <2>1. j # k
    BY <1>4, <1>5 DEF Remembered, Matches
  <2>2. InWindow(j) /\ answered'[j] = answered[j] /\ answered[j] \in Nat /\ answered[j] <= now
    BY <1>5, <1>8, <2>1 DEF InWindow, AnswersAreRuns, TypeOK
  <2>3. IsFiniteSet(Crowd(j)')
    BY KeysAreFinite, FS_Subset DEF Crowd
  <2>4. k \in Crowd(j)'
    BY <1>2, <1>8, <2>1, <2>2, TTLIsNat DEF Crowd, Never
  <2>5. CASE Remembered(j)
    <3>1. PICK i \in Slots : Matches(cache[i], j, now)
      BY <2>5 DEF Remembered
    <3>2. i = s
      BY <1>4, <1>5, <3>1 DEF Remembered, Matches
    <3>3. \A m \in Slots : Live(cache[m], now)
      BY <1>3, <3>1, <3>2 DEF StoreSlots, FirstDead, Matches
    <3> DEFINE others == {cache[m].key : m \in Slots \ {s}} \cup {k}
    <3>4. IsFiniteSet(others) /\ Cardinality(others) = CacheSize
      BY <1>2, <1>6, <3>3, FullCacheCrowds
    <3>5. ASSUME NEW m \in Slots \ {s}
          PROVE  cache[m].key \in Crowd(j)'
      <4> DEFINE o == cache[m].key
      <4>1. o # j
        BY <3>1, <3>2, <3>3 DEF UniqueLive, Matches
      <4>2. o \in Keys /\ o # k
        BY <1>6, <3>3 DEF CacheTracksAnswers, Remembered, Matches
      <4>3. answered[o] # Never /\ cache[m].expires = answered[o] + TTL
        BY <3>3 DEF CacheTracksAnswers
      <4>4. now <= answered[o] + TTL /\ answered[o] \in Nat
        BY <3>3, <4>2, <4>3 DEF Live, TypeOK
      <4>5. answered'[o] = answered[o]
        BY <1>8, <4>2
      <4> QED
        BY <1>2, <2>2, <4>1, <4>2, <4>3, <4>4, <4>5, TTLIsNat DEF Crowd
    <3>6. others \subseteq Crowd(j)'
      BY <2>4, <3>5
    <3> HIDE DEF others
    <3> QED
      BY <2>3, <3>4, <3>6, FS_Subset
  <2>6. CASE ~Remembered(j)
    <3>1. CacheSize <= Cardinality(Crowd(j))
      BY <2>2, <2>6 DEF RememberedOrCrowded
    <3>2. Crowd(j) \subseteq Crowd(j)'
      BY <1>8, <2>1, <2>2, <2>4 DEF Crowd
    <3>3. Cardinality(Crowd(j)) <= Cardinality(Crowd(j)')
      BY <2>3, <3>2, FS_Subset
    <3>4. Cardinality(Crowd(j)) \in Nat /\ Cardinality(Crowd(j)') \in Nat
      BY <2>3, <3>2, FS_Subset, FS_CardinalityType
    <3> QED
      BY <3>1, <3>3, <3>4, SlotsAreFinite
  <2> QED
    BY <2>5, <2>6
<1>14. ReplyIsLastRun'
  BY <1>2, <1>6, <1>7, <1>8
  DEF HandlerSucceeds, Send, Answer, ReplyIsLastRun, KeyOf, k
<1> QED
  BY <1>1, <1>9, <1>10, <1>11, <1>12, <1>13, <1>14

\* What a step that keeps the memory must still show: that a tool it starts is
\* fresh, and that a success reply it sends is the one on record.
LEMMA SameMemoryStep ==
    ASSUME IInv, SameMemory, TypeOK', runs' >= runs,
           phase' = "handler" => /\ runs' > 0
                                 /\ pkt'.type = "TOOL_CALL"
                                 /\ KeyOf(pkt') \in Keys
                                 /\ ~Remembered(KeyOf(pkt')),
           ReplyIsLastRun'
    PROVE  IInv'
<1>1. AnswersAreRuns'
  BY DEF IInv, SameMemory, AnswersAreRuns, TypeOK
<1>2. RunningIsFresh'
  BY SameMemoryKeeps DEF RunningIsFresh
<1> QED
  BY <1>1, <1>2, SameMemoryKeeps DEF IInv

\* No handler but the tool call's answers with a result.
LEMMA OtherVerdict ==
    ASSUME NEW p, NEW v, v # "result", NEW r, Send(p, v, r)
    PROVE  ReplyIsLastRun'
BY DEF Send, Answer, ReplyIsLastRun

LEMMA StepInvariant == IInv /\ [Next]_vars => IInv'
<1> SUFFICES ASSUME IInv, [Next]_vars
             PROVE  IInv'
  OBVIOUS
<1> USE DEF history
<1>0. TypeOK /\ TypeOK'
  BY StepType DEF IInv
<1>1. CASE Tick
  BY <1>1, TickKeeps
<1>2. CASE Restart
  BY <1>2, RestartKeeps
<1>3. ASSUME NEW p \in Offered, RecvCb(p)
      PROVE  IInv'
  <2>1. SameMemory /\ ReplyIsLastRun'
    BY <1>3 DEF RecvCb, SameMemory, Silent, ReplyIsLastRun
  <2> QED
    BY <1>3, <1>0, <2>1, SameMemoryStep, OfferedArePackets
    DEF RecvCb, IInv, RunningIsFresh, AnswersAreRuns, TypeOK, KeyOf, Keys, Packet
<1>4. ASSUME NEW p \in Offered, DropUnframed(p)
      PROVE  IInv'
  <2>1. SameMemory /\ ReplyIsLastRun'
    BY <1>4 DEF DropUnframed, Done, SameMemory, Silent, ReplyIsLastRun
  <2> QED
    BY <1>4, <1>0, <2>1, SameMemoryStep DEF DropUnframed, Take, Done, TypeOK
<1>5. ASSUME NEW p \in Offered, HandleUnknownType(p)
      PROVE  IInv'
  <2>1. SameMemory /\ ReplyIsLastRun'
    BY <1>5, OtherVerdict DEF HandleUnknownType, Done, SameMemory
  <2> QED
    BY <1>5, <1>0, <2>1, SameMemoryStep DEF HandleUnknownType, Take, Done, TypeOK
<1>6. ASSUME NEW p \in Offered, HandlePing(p)
      PROVE  IInv'
  <2>1. SameMemory /\ ReplyIsLastRun'
    BY <1>6, OtherVerdict DEF HandlePing, Unparsed, OutOfMemory, Done, SameMemory
  <2> QED
    BY <1>6, <1>0, <2>1, SameMemoryStep DEF HandlePing, Take, Done, TypeOK
<1>7. ASSUME NEW p \in Offered, HandleToolsList(p)
      PROVE  IInv'
  <2>1. SameMemory /\ ReplyIsLastRun'
    BY <1>7, OtherVerdict DEF HandleToolsList, Unparsed, OutOfMemory, Done, SameMemory
  <2> QED
    BY <1>7, <1>0, <2>1, SameMemoryStep DEF HandleToolsList, Take, Done, TypeOK
<1>8. ASSUME NEW p \in Offered, HandleDiscover(p)
      PROVE  IInv'
  <2>1. SameMemory /\ ReplyIsLastRun'
    BY <1>8, OtherVerdict
    DEF HandleDiscover, Unparsed, Silent, ReplyIsLastRun, Done, SameMemory
  <2> QED
    BY <1>8, <1>0, <2>1, SameMemoryStep DEF HandleDiscover, Take, Done, TypeOK
<1>9. ASSUME NEW p \in Offered, BeginJitter(p)
      PROVE  IInv'
  <2>1. SameMemory /\ ReplyIsLastRun'
    BY <1>9 DEF BeginJitter, Silent, ReplyIsLastRun, SameMemory
  <2> QED
    BY <1>9, <1>0, <2>1, SameMemoryStep DEF BeginJitter, TypeOK
<1>10. CASE EndJitter
  <2>1. SameMemory /\ ReplyIsLastRun'
    BY <1>10, OtherVerdict DEF EndJitter, OutOfMemory, SameMemory
  <2> QED
    BY <1>10, <1>0, <2>1, SameMemoryStep DEF EndJitter, TypeOK
<1>11. ASSUME NEW p \in Offered, ReplayCall(p)
       PROVE  IInv'
  <2>1. Take(p) /\ SameMemory /\ KeyOf(p) \in Keys
    BY <1>11, <1>0, TakeCallType, TakeType DEF ReplayCall, Done, SameMemory
  <2>2. PICK i \in Slots : /\ Matches(cache[i], KeyOf(p), now)
                          /\ Send(p, "result", cache[i].response)
    BY <1>11 DEF ReplayCall, Hit
  <2>3. cache[i].response = lastRun[KeyOf(p)] /\ lastRun[KeyOf(p)] > 0
    BY <1>0, <2>1, <2>2
    DEF IInv, CacheTracksAnswers, AnswersAreRuns, Matches, TypeOK
  <2>4. ReplyIsLastRun'
    BY <2>1, <2>2, <2>3 DEF Send, Answer, ReplyIsLastRun, KeyOf, SameMemory
  <2> QED
    BY <1>11, <1>0, <2>1, <2>4, SameMemoryStep DEF ReplayCall, Take, Done, TypeOK
<1>12. ASSUME NEW p \in Offered, RefuseCall(p)
       PROVE  IInv'
  <2>1. Take(p) /\ SameMemory
    BY <1>12, <1>0, TakeCallType DEF RefuseCall, Done, SameMemory
  <2>2. ReplyIsLastRun'
    BY <1>12, OtherVerdict DEF RefuseCall, Unparsed, OutOfMemory
  <2> QED
    BY <1>12, <1>0, <2>1, <2>2, SameMemoryStep DEF RefuseCall, Take, Done, TypeOK
<1>13. ASSUME NEW p \in Offered, StartHandler(p)
       PROVE  IInv'
  <2>1. SameMemory /\ ReplyIsLastRun' /\ KeyOf(p) \in Keys
    BY <1>13, <1>0, TakeCallType, TakeType
    DEF StartHandler, SameMemory, Silent, ReplyIsLastRun
  <2>2. p.type = "TOOL_CALL" /\ ~Remembered(KeyOf(p))
    BY <1>13 DEF StartHandler, TakeCall, IsFresh, Remembered
  <2>3. runs' = runs + 1 /\ runs \in Nat /\ pkt' = p
    BY <1>13, <1>0 DEF StartHandler, TypeOK
  <2>4. runs' >= runs /\ runs' > 0
    BY <2>3
  <2> QED
    BY <1>0, <2>1, <2>2, <2>3, <2>4, SameMemoryStep
<1>14. CASE HandlerSucceeds
  BY <1>14, SuccessKeeps
<1>15. CASE HandlerFails
  <2>1. SameMemory /\ ReplyIsLastRun'
    BY <1>15, OtherVerdict DEF HandlerFails, SameMemory
  <2> QED
    BY <1>15, <1>0, <2>1, SameMemoryStep DEF HandlerFails, TypeOK
<1>16. CASE UNCHANGED vars
  <2>1. SameMemory /\ ReplyIsLastRun'
    BY <1>16 DEF IInv, vars, SameMemory, ReplyIsLastRun
  <2> QED
    BY <1>16, <1>0, <2>1, SameMemoryStep, OfferedArePackets
    DEF vars, IInv, RunningIsFresh, AnswersAreRuns, TypeOK, KeyOf, Keys, Packet
<1> QED
  BY <1>1, <1>2, <1>3, <1>4, <1>5, <1>6, <1>7, <1>8, <1>9, <1>10, <1>11,
     <1>12, <1>13, <1>14, <1>15, <1>16 DEF Next, RxCb, HandleToolCall

\* The inductive invariant holds throughout.
THEOREM Invariant == Spec => []IInv
BY InitInvariant, StepInvariant, PTL DEF Spec

\* Two slots never hold live responses to the same call.
THEOREM UniqueLiveHolds == Spec => []UniqueLive
<1>1. IInv => UniqueLive
  BY DEF IInv
<1> QED
  BY <1>1, Invariant, PTL

\* A success reply always carries the response of the latest successful run
\* for its source and transaction.
THEOREM ReplyIsLastRunHolds == Spec => []ReplyIsLastRun
<1>1. IInv => ReplyIsLastRun
  BY DEF IInv
<1> QED
  BY <1>1, Invariant, PTL

\* Within its window a response is forgotten only under pressure.
THEOREM RememberedOrCrowdedHolds == Spec => []RememberedOrCrowded
<1>1. IInv => RememberedOrCrowded
  BY DEF IInv
<1> QED
  BY <1>1, Invariant, PTL

\* A tool is run again for a call that succeeded within the window only if as
\* many other calls as the cache has slots came between.
THEOREM NoRepeatUnlessCrowdedHolds == Spec => NoRepeatUnlessCrowded
<1>1. ASSUME IInv, [Next]_vars, NEW k \in Keys, HandlerStarts(k), InWindow(k)
      PROVE  CacheSize <= Cardinality(Crowd(k))
  <2>1. PICK p \in Offered : StartHandler(p)
    BY <1>1
    DEF Next, RxCb, HandleToolCall, HandlerStarts, vars, history, Done, Tick,
        Restart, RecvCb, DropUnframed, HandleUnknownType, HandlePing,
        HandleToolsList, HandleDiscover, BeginJitter, EndJitter, ReplayCall,
        RefuseCall, HandlerSucceeds, HandlerFails
  <2>2. ~Remembered(k)
    BY <1>1, <2>1 DEF StartHandler, HandlerStarts, IsFresh, Remembered
  <2> QED
    BY <1>1, <2>2 DEF IInv, RememberedOrCrowded
<1>2. IInv /\ [Next]_vars
        => [\A k \in Keys : HandlerStarts(k) /\ InWindow(k)
                               => CacheSize <= Cardinality(Crowd(k))]_vars
  BY <1>1
<1> QED
  BY <1>2, Invariant, PTL DEF Spec, NoRepeatUnlessCrowded

\* A response is replayed only while its window lasts.
THEOREM ReplayOnlyInWindowHolds == Spec => ReplayOnlyInWindow
<1>1. ASSUME IInv, NEW p \in Offered, ReplayCall(p)
      PROVE  InWindow(KeyOf(p))
  <2>1. PICK i \in Slots : Matches(cache[i], KeyOf(p), now)
    BY <1>1 DEF ReplayCall, Hit
  <2> QED
    BY <2>1, <1>1 DEF Matches, Live, IInv, CacheTracksAnswers, InWindow
<1>2. IInv => [\A p \in Offered : ReplayCall(p) => InWindow(KeyOf(p))]_vars
  BY <1>1
<1> QED
  BY <1>2, Invariant, PTL DEF Spec, ReplayOnlyInWindow
-----------------------------------------------------------------------------
(* The mailbox.  The device takes a frame and is done with it at once, or keeps
   it in pkt, which is the one the mailbox calls busy.                        *)

Busy == {pkt} \ {NoPacket}

\* A frame is taken only by an idle worker, and is the oldest that waits.
LEMMA TakeIsTake ==
    ASSUME TypeOK, NEW p \in Offered, Take(p), pkt' \in {p, pkt}
    PROVE  Box!Take
<1>1. Busy = {} /\ p # NoPacket
  BY TakeType DEF Busy
<1>2. Busy' \in {{}, {p}}
  BY <1>1 DEF Busy
<1> QED
  BY <1>1, <1>2 DEF Take, Box!Take, Busy

\* What leaves the queue alone and frees the worker is the end of its frame.
LEMMA FreedIsFinish ==
    ASSUME TypeOK, phase # "idle", pkt' = NoPacket, rxQueue' = rxQueue
    PROVE  Box!Finish
BY DEF TypeOK, Box!Finish

\* Every step of the device is a step of its mailbox, or none.
LEMMA MailboxStep ==
    ASSUME TypeOK, [Next]_vars
    PROVE  [Box!BoxNext]_(Box!boxVars)
<1> USE DEF history, Box!BoxNext, Box!boxVars
<1>1. CASE Tick \/ UNCHANGED vars
  BY <1>1 DEF Tick, vars
<1>2. CASE Restart
  BY <1>2 DEF Restart, Box!Reset
<1>3. ASSUME NEW p \in Offered, RecvCb(p)
      PROVE  [Box!BoxNext]_(Box!boxVars)
  <2>1. pkt' = pkt
    BY <1>3 DEF RecvCb
  <2>2. CASE rxQueue' = rxQueue
    BY <2>1, <2>2
  <2>3. CASE rxQueue' = Append(rxQueue, p) /\ Len(rxQueue) < RxQueueSize
    BY <2>1, <2>3 DEF Box!Post
  <2> QED
    BY <1>3, <2>2, <2>3 DEF RecvCb
<1>4. ASSUME NEW p \in Offered, RxCb(p)
      PROVE  [Box!BoxNext]_(Box!boxVars)
  <2>1. Take(p) /\ pkt' \in {p, pkt}
    BY <1>4
    DEF RxCb, HandleToolCall, Done, DropUnframed, HandleUnknownType, HandlePing,
        HandleToolsList, HandleDiscover, BeginJitter, TakeCall, ReplayCall,
        RefuseCall, StartHandler
  <2> QED
    BY <2>1, TakeIsTake
<1>5. CASE EndJitter \/ HandlerSucceeds \/ HandlerFails
  <2>1. phase # "idle" /\ pkt' = NoPacket /\ rxQueue' = rxQueue
    BY <1>5 DEF EndJitter, HandlerSucceeds, HandlerFails
  <2> QED
    BY <2>1, FreedIsFinish
<1> QED
  BY <1>1, <1>2, <1>3, <1>4, <1>5 DEF Next

\* The device implements a mailbox: frames are handled in the order in which
\* they were queued, one at a time, and none survives a restart.
THEOREM DeviceMailbox == Spec => ImplementsMailbox
<1>1. Init => Box!BoxInit
  BY DEF Init, Box!BoxInit
<1>2. TypeOK /\ [Next]_vars => [Box!BoxNext]_(Box!boxVars)
  BY MailboxStep
<1> QED
  BY <1>1, <1>2, TypeCorrect, PTL DEF Spec, ImplementsMailbox, Box!BoxSpec
=============================================================================
