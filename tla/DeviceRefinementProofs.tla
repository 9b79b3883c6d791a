----------------------- MODULE DeviceRefinementProofs -----------------------
(***************************************************************************)
(* Device implements ToolServer, for every value of the constants: the     *)
(* live entries of the cache are the server's memo.                        *)
(***************************************************************************)
EXTENDS DeviceProofs

\* What the memo says of a call is what history says of it.
Record(k) == [run |-> lastRun[k], until |-> answered[k] + TTL]

MemoFromHistory == Memo = [k \in LiveKeys |-> Record(k)]

LEMMA MemoIsHistory == IInv => MemoFromHistory
<1> SUFFICES ASSUME IInv, NEW k \in LiveKeys
             PROVE  [run |-> cache[SlotOf(k)].response,
                     until |-> cache[SlotOf(k)].expires] = Record(k)
  BY DEF Memo, MemoFromHistory
<1>1. PICK i \in Slots : Matches(cache[i], k, now)
  BY DEF LiveKeys, Remembered
<1>2. SlotOf(k) \in Slots /\ Matches(cache[SlotOf(k)], k, now)
  BY <1>1 DEF SlotOf
<1> QED
  BY <1>2 DEF Matches, IInv, CacheTracksAnswers, Record

\* So it does after a step.
LEMMA MemoStep ==
    IInv /\ [Next]_vars => /\ IInv'
                           /\ Memo = [k \in LiveKeys |-> Record(k)]
                           /\ Memo' = [k \in LiveKeys' |-> Record(k)']
<1>1. IInv' => MemoFromHistory'
  BY MemoIsHistory, PTL
<1> QED
  BY <1>1, StepInvariant, MemoIsHistory DEF MemoFromHistory

\* A step that keeps the memory keeps the memo.
LEMMA SameMemo ==
    ASSUME IInv, [Next]_vars, SameMemory
    PROVE  Memo' = Memo
<1>1. LiveKeys' = LiveKeys
  BY SameMemoryKeeps DEF LiveKeys
<1>2. \A k \in LiveKeys : Record(k)' = Record(k)
  BY DEF Record, SameMemory
<1> QED
  BY <1>1, <1>2, MemoStep

\* A reply that is no success is none of the server's answers.
LEMMA NoResult ==
    ASSUME \/ Silent
           \/ \E p \in Offered, v \in Verdict \ {"result"} : Send(p, v, 0)
    PROVE  Result' = NoReply
BY DEF Silent, Send, Answer, Result

\* Nor does the server notice a step that keeps the memory, the run and the
\* worker's call.
LEMMA QuietStep ==
    ASSUME IInv, [Next]_vars, SameMemory, Result' = NoReply,
           UNCHANGED <<runs, phase, pkt>>
    PROVE  Server!Quiet
BY SameMemo DEF Server!Quiet, SameMemory, Running

LEMMA TickIsTimePasses ==
    ASSUME IInv, Tick
    PROVE  Server!TimePasses
<1> DEFINE old == {k \in LiveKeys : Record(k).until < now'}
<1>0. [Next]_vars /\ UNCHANGED history /\ cache' = cache /\ now' = now + 1
  BY DEF Tick, Next
<1>1. /\ Memo = [k \in LiveKeys |-> Record(k)]
      /\ Memo' = [k \in LiveKeys |-> Record(k)]'
  BY <1>0, MemoStep
<1>2. \A k \in Keys : Record(k)' = Record(k)
  BY <1>0 DEF Record, history
<1>3. LiveKeys' = LiveKeys \ old
  <2>1. ASSUME NEW k \in LiveKeys'
        PROVE  k \in LiveKeys \ old
    <3>1. PICK i \in Slots : Matches(cache[i], k, now')
      BY <1>0, <2>1 DEF LiveKeys, Remembered
    <3>2. Matches(cache[i], k, now)
      BY <1>0, <3>1 DEF Matches, Live, IInv, TypeOK, Entry
    <3>3. k \in LiveKeys /\ cache[i].expires = Record(k).until
      BY <2>1, <3>2
      DEF LiveKeys, Remembered, Matches, Record, IInv, CacheTracksAnswers
    <3>4. now' <= cache[i].expires /\ cache[i].expires \in Nat /\ now' \in Nat
      BY <1>0, <3>1 DEF Matches, Live, IInv, TypeOK, Entry
    <3> QED
      BY <3>3, <3>4
  <2>2. ASSUME NEW k \in LiveKeys \ old
        PROVE  k \in LiveKeys'
    <3>1. PICK i \in Slots : Matches(cache[i], k, now)
      BY <2>2 DEF LiveKeys, Remembered
    <3>2. cache[i].used /\ cache[i].expires = Record(k).until
      BY <3>1 DEF Matches, Live, Record, IInv, CacheTracksAnswers
    <3>3. cache[i].expires \in Nat /\ now' \in Nat
      BY <1>0 DEF IInv, TypeOK, Entry
    <3>4. Matches(cache'[i], k, now')
      BY <1>0, <2>2, <3>1, <3>2, <3>3 DEF Matches, Live
    <3> QED
      BY <2>2, <3>4 DEF LiveKeys, Remembered
  <2> QED
    BY <2>1, <2>2
<1>4. DOMAIN Memo = LiveKeys /\ {k \in DOMAIN Memo : Memo[k].until < now'} = old
  BY <1>1
<1>5. Memo' = [k \in LiveKeys \ old |-> Memo[k]]
  <2>1. \A k \in LiveKeys \ old : k \in Keys /\ Memo[k] = Record(k)
    BY <1>1 DEF LiveKeys
  <2> HIDE DEF old
  <2> QED
    BY <1>1, <1>2, <1>3, <2>1
<1>6. Memo' = Server!Without(Memo, {k \in DOMAIN Memo : Memo[k].until < now'})
  BY <1>4, <1>5 DEF Server!Without
<1>7. Result' = NoReply
  BY NoResult DEF Tick
<1> QED
  BY <1>6, <1>7 DEF Server!TimePasses, Tick, Running, history

LEMMA RestartIsForget ==
    ASSUME IInv, Restart
    PROVE  Server!Forget
<1>1. [Next]_vars
  BY DEF Next
<1>2. LiveKeys' = {}
  BY ZeroedCacheType DEF LiveKeys, Remembered, Matches, Restart, IInv, TypeOK
<1>3. Memo' = [k \in {} |-> NoReply]
  BY <1>1, <1>2, MemoStep
<1>4. Result' = NoReply /\ Running' = NoReply
  BY NoResult DEF Restart, Running
<1> QED
  BY <1>3, <1>4 DEF Server!Forget, Restart

LEMMA StartIsRun ==
    ASSUME IInv, NEW p \in Offered, StartHandler(p)
    PROVE  Server!Run(KeyOf(p)) /\ KeyOf(p) \in Keys
<1>1. [Next]_vars
  BY DEF Next, RxCb, HandleToolCall
<1>2. Take(p) /\ SameMemory /\ KeyOf(p) \in Keys
  BY TakeCallType, TakeType DEF StartHandler, SameMemory, history, IInv
<1>3. Memo' = Memo
  BY <1>1, <1>2, SameMemo
<1>4. KeyOf(p) \notin DOMAIN Memo
  BY <1>1, MemoStep DEF LiveKeys, StartHandler, IsFresh, Remembered
<1>5. Running = NoReply /\ Running' = KeyOf(p) /\ Result' = NoReply
  BY <1>2, NoResult DEF Take, StartHandler, Running
<1> QED
  BY <1>2, <1>3, <1>4, <1>5 DEF Server!Run, StartHandler

LEMMA ReplayIsRepeat ==
    ASSUME IInv, NEW p \in Offered, ReplayCall(p)
    PROVE  Server!Repeat(KeyOf(p)) /\ KeyOf(p) \in Keys
<1>1. [Next]_vars
  BY DEF Next, RxCb, HandleToolCall
<1>2. Take(p) /\ SameMemory /\ KeyOf(p) \in Keys
  BY TakeCallType, TakeType DEF ReplayCall, Done, SameMemory, history, IInv
<1>3. Memo' = Memo
  BY <1>1, <1>2, SameMemo
<1>4. PICK i \in Slots : /\ Matches(cache[i], KeyOf(p), now)
                       /\ Send(p, "result", cache[i].response)
  BY DEF ReplayCall, Hit
<1>5. KeyOf(p) \in LiveKeys /\ cache[i].response = lastRun[KeyOf(p)]
  BY <1>2, <1>4 DEF LiveKeys, Remembered, Matches, IInv, CacheTracksAnswers
<1>6. KeyOf(p) \in DOMAIN Memo /\ Memo[KeyOf(p)].run = cache[i].response
  BY <1>1, <1>5, MemoStep DEF Record
<1>7. Result' \in {[key |-> KeyOf(p), run |-> cache[i].response], NoReply}
  BY <1>4 DEF Send, Answer, Result, KeyOf
<1>8. Running = NoReply /\ Running' = NoReply
  BY <1>2 DEF Take, ReplayCall, Done, Running
<1> QED
  BY <1>2, <1>3, <1>6, <1>7, <1>8
  DEF Server!Repeat, Server!Answered, ReplayCall, Done

\* As many calls as there are slots are remembered when every slot is live, and
\* fewer when one is not.
LEMMA MemoSize ==
    ASSUME IInv
    PROVE  /\ (\A i \in Slots : Live(cache[i], now)) => Cardinality(LiveKeys) = CacheSize
           /\ \A s \in Slots : ~Live(cache[s], now) => Cardinality(LiveKeys) < CacheSize
<1> DEFINE live == {i \in Slots : Live(cache[i], now)}
           f == [i \in live |-> cache[i].key]
<1>1. f \in Bijection(live, LiveKeys)
  <2>1. \A i \in live : f[i] \in LiveKeys
    BY DEF LiveKeys, Remembered, Matches, IInv, CacheTracksAnswers
  <2>2. \A i, j \in live : f[i] = f[j] => i = j
    BY DEF IInv, UniqueLive
  <2>3. \A k \in LiveKeys : \E i \in live : f[i] = k
    BY DEF LiveKeys, Remembered, Matches
  <2> QED
    BY <2>1, <2>2, <2>3 DEF Bijection, Injection, Surjection, IsInjective
<1>2. IsFiniteSet(live)
  BY SlotsAreFinite, FS_Subset
<1>3. Cardinality(LiveKeys) = Cardinality(live)
  <2> HIDE DEF f, live
  <2>1. ExistsBijection(live, LiveKeys)
    BY <1>1 DEF ExistsBijection
  <2> QED
    BY <1>2, <2>1, FS_Bijection
<1>4. ASSUME \A i \in Slots : Live(cache[i], now)
      PROVE  Cardinality(LiveKeys) = CacheSize
  BY <1>3, <1>4, SlotsAreFinite
<1>5. ASSUME NEW s \in Slots, ~Live(cache[s], now)
      PROVE  Cardinality(LiveKeys) < CacheSize
  <2>1. live \subseteq Slots \ {s}
    BY <1>5
  <2>2. IsFiniteSet(Slots \ {s}) /\ Cardinality(Slots \ {s}) = CacheSize - 1
    BY SlotsAreFinite, FS_RemoveElement
  <2>3. Cardinality(live) <= CacheSize - 1 /\ Cardinality(live) \in Nat
    BY <1>2, <2>1, <2>2, FS_Subset, FS_CardinalityType
  <2> QED
    BY <1>3, <2>3, SlotsAreFinite
<1> QED
  BY <1>4, <1>5

\* The server counts as the device does.
LEMMA SameCardinality == \A S : Server!Cardinality(S) = Cardinality(S)
BY DEF Server!Cardinality, Cardinality

\* Storing a response adds its call to the memo, in the place of the call that
\* had the slot, if one did.
LEMMA SuccessIsSucceed ==
    ASSUME IInv, HandlerSucceeds
    PROVE  Server!Succeed
<1>1. /\ [Next]_vars /\ now' = now /\ runs' = runs
      /\ TypeOK /\ now \in Nat /\ runs \in Nat
  BY DEF Next, HandlerSucceeds, IInv, TypeOK
<1>2. PICK k \in Keys : k = KeyOf(pkt) /\ ~Remembered(k)
  BY OfferedArePackets
  DEF HandlerSucceeds, IInv, TypeOK, RunningIsFresh, KeyOf, Keys, Packet
<1>3. PICK s \in Slots : /\ s \in StoreSlots(cache, now)
                        /\ cache' = Stored(cache, s, k, now, runs)
  BY <1>2 DEF HandlerSucceeds, StoreSlots, FirstDead
<1>4. /\ cache'[s] = [used |-> TRUE, key |-> k, expires |-> now + TTL, response |-> runs]
      /\ \A i \in Slots \ {s} : cache'[i] = cache[i]
  BY <1>1, <1>2, <1>3, StoredType DEF TypeOK
<1>5. Matches(cache'[s], k, now)
  BY <1>1, <1>4, TTLIsNat DEF Matches, Live
<1>6. /\ Record(k)' = [run |-> runs, until |-> now + TTL]
      /\ \A j \in Keys \ {k} : Record(j)' = Record(j)
  <2>1. /\ answered'[k] = now /\ lastRun'[k] = runs
        /\ \A j \in Keys \ {k} : answered'[j] = answered[j] /\ lastRun'[j] = lastRun[j]
    BY <1>1, <1>2 DEF HandlerSucceeds, TypeOK
  <2> QED
    BY <2>1 DEF Record
<1>7. Running = k /\ k # NoReply /\ Running' = NoReply
  BY <1>2, NoneIsOutside DEF HandlerSucceeds, Running
<1>8. Result' \in {[key |-> k, run |-> runs], NoReply}
  BY <1>2 DEF HandlerSucceeds, Send, Answer, Result, KeyOf
<1> DEFINE gone == IF Live(cache[s], now) THEN {cache[s].key} ELSE {}
<1>9. gone \subseteq LiveKeys
  BY DEF LiveKeys, Remembered, Matches, IInv, CacheTracksAnswers
<1>10. LiveKeys' = (LiveKeys \ gone) \cup {k}
  <2>1. ASSUME NEW j \in Keys, j # k
        PROVE  Remembered(j)' <=> Remembered(j) /\ j \notin gone
    <3>1. Remembered(j)' <=> \E i \in Slots \ {s} : Matches(cache[i], j, now)
      BY <1>1, <1>4, <2>1 DEF Remembered, Matches
    <3>2. Remembered(j) <=> \/ \E i \in Slots \ {s} : Matches(cache[i], j, now)
                            \/ Matches(cache[s], j, now)
      BY DEF Remembered
    <3>3. j \in gone <=> Matches(cache[s], j, now)
      BY DEF Matches
    <3>4. j \in gone => ~\E i \in Slots \ {s} : Matches(cache[i], j, now)
      BY DEF Matches, IInv, UniqueLive
    <3> QED
      BY <3>1, <3>2, <3>3, <3>4
  <2>2. Remembered(k)'
    BY <1>1, <1>5 DEF Remembered
  <2> HIDE DEF gone
  <2> QED
    BY <1>2, <2>1, <2>2 DEF LiveKeys
<1>11. /\ Memo = [j \in LiveKeys |-> Record(j)]
       /\ Memo' = [j \in LiveKeys' |-> Record(j)']
  BY <1>1, MemoStep
<1>12. Memo' = Server!With(Server!Without(Memo, gone), k, runs, now + TTL)
  <2>1. \A j \in LiveKeys \ gone : j \in Keys /\ j # k /\ Memo[j] = Record(j)
    BY <1>2, <1>11 DEF LiveKeys
  <2>2. Server!Without(Memo, gone) = [j \in LiveKeys \ gone |-> Memo[j]]
    BY <1>11 DEF Server!Without
  <2> HIDE DEF gone
  <2>3. Server!With(Server!Without(Memo, gone), k, runs, now + TTL)
          = [j \in (LiveKeys \ gone) \cup {k} |->
                IF j = k THEN [run |-> runs, until |-> now + TTL] ELSE Memo[j]]
    BY <2>2 DEF Server!With
  <2> QED
    BY <1>6, <1>10, <1>11, <2>1, <2>3
<1>13. gone \in Server!Victims
  <2>1. DOMAIN Memo = LiveKeys
    BY <1>11
  <2>2. CASE Live(cache[s], now)
    <3>1. \A i \in Slots : Live(cache[i], now)
      BY <1>3, <2>2 DEF StoreSlots, FirstDead
    <3>2. Cardinality(LiveKeys) = CacheSize /\ ~(CacheSize < CacheSize)
      BY <3>1, MemoSize, SlotsAreFinite
    <3> QED
      BY <1>9, <2>1, <2>2, <3>2, SameCardinality DEF Server!Victims
  <2>3. CASE ~Live(cache[s], now)
    BY <2>1, <2>3, MemoSize, SameCardinality DEF Server!Victims
  <2> QED
    BY <2>2, <2>3
<1> QED
  BY <1>1, <1>7, <1>8, <1>12, <1>13 DEF Server!Succeed, Server!Answered

LEMMA FailureIsFail ==
    ASSUME IInv, HandlerFails
    PROVE  Server!Fail
<1>1. [Next]_vars /\ SameMemory
  BY DEF Next, HandlerFails, SameMemory, history
<1>2. pkt \in Packet /\ KeyOf(pkt) \in Keys /\ pkt \in Offered
  BY OfferedArePackets DEF HandlerFails, IInv, TypeOK, KeyOf, Keys, Packet
<1>3. Memo' = Memo
  BY <1>1, SameMemo
<1>4. Running # NoReply /\ Running' = NoReply
  BY <1>2, NoneIsOutside DEF HandlerFails, Running
<1>5. Result' = NoReply
  BY <1>2, NoResult DEF HandlerFails, Verdict
<1> QED
  BY <1>3, <1>4, <1>5 DEF Server!Fail, HandlerFails

LEMMA InitIsServerInit == Init => Server!ServerInit
<1> SUFFICES ASSUME Init PROVE Server!ServerInit
  OBVIOUS
<1>1. IInv
  BY InitInvariant
<1>2. LiveKeys = {}
  BY ZeroedCacheType DEF LiveKeys, Remembered, Matches, Init
<1>3. Memo = [k \in {} |-> NoReply]
  BY <1>2 DEF Memo
<1> QED
  BY <1>3 DEF Init, Running, Result, Server!ServerInit

\* Every step of the device is a step of the server, most of them quiet.
LEMMA StepIsServerStep == IInv /\ [Next]_vars => [Server!ServerNext]_(Server!serverVars)
<1> SUFFICES ASSUME IInv, [Next]_vars
             PROVE  Server!ServerNext \/ UNCHANGED Server!serverVars
  OBVIOUS
<1> USE DEF history
<1>1. CASE Tick
  BY <1>1, TickIsTimePasses DEF Server!ServerNext
<1>2. CASE Restart
  BY <1>2, RestartIsForget DEF Server!ServerNext
<1>3. ASSUME NEW p \in Offered, RecvCb(p)
      PROVE  Server!Quiet
  <2>1. SameMemory /\ Result' = NoReply
    BY <1>3, NoResult DEF RecvCb, SameMemory
  <2> QED
    BY <1>3, <2>1, QuietStep DEF RecvCb
<1>4. ASSUME NEW p \in Offered, DropUnframed(p)
      PROVE  Server!Quiet
  <2>1. SameMemory /\ Result' = NoReply
    BY <1>4, NoResult DEF DropUnframed, Done, SameMemory
  <2> QED
    BY <1>4, <2>1, QuietStep DEF DropUnframed, Done
<1>5. ASSUME NEW p \in Offered, HandleUnknownType(p)
      PROVE  Server!Quiet
  <2>1. SameMemory /\ Result' = NoReply
    BY <1>5, NoResult DEF HandleUnknownType, Done, SameMemory, Verdict
  <2> QED
    BY <1>5, <2>1, QuietStep DEF HandleUnknownType, Done
<1>6. ASSUME NEW p \in Offered, HandlePing(p)
      PROVE  Server!Quiet
  <2>1. SameMemory /\ Result' = NoReply
    BY <1>6, NoResult
    DEF HandlePing, Unparsed, OutOfMemory, Done, SameMemory, Verdict
  <2> QED
    BY <1>6, <2>1, QuietStep DEF HandlePing, Done
<1>7. ASSUME NEW p \in Offered, HandleToolsList(p)
      PROVE  Server!Quiet
  <2>1. SameMemory /\ Result' = NoReply
    BY <1>7, NoResult
    DEF HandleToolsList, Unparsed, OutOfMemory, Done, SameMemory, Verdict
  <2> QED
    BY <1>7, <2>1, QuietStep DEF HandleToolsList, Done
<1>8. ASSUME NEW p \in Offered, HandleDiscover(p)
      PROVE  Server!Quiet
  <2>1. SameMemory /\ Result' = NoReply
    BY <1>8, NoResult DEF HandleDiscover, Unparsed, Done, SameMemory, Verdict
  <2> QED
    BY <1>8, <2>1, QuietStep DEF HandleDiscover, Done
<1>9. ASSUME NEW p \in Offered, BeginJitter(p)
      PROVE  Server!Quiet
  <2>1. SameMemory /\ Result' = NoReply /\ phase = "idle"
    BY <1>9, NoResult DEF BeginJitter, Take, SameMemory
  <2>2. Memo' = Memo
    BY <2>1, SameMemo
  <2> QED
    BY <1>9, <2>1, <2>2 DEF BeginJitter, Running, Server!Quiet
<1>10. CASE EndJitter
  <2>1. pkt \in Offered
    BY <1>10 DEF EndJitter, IInv, TypeOK
  <2>2. SameMemory /\ Result' = NoReply
    BY <1>10, <2>1, NoResult DEF EndJitter, OutOfMemory, SameMemory, Verdict
  <2>3. Memo' = Memo
    BY <2>2, SameMemo
  <2> QED
    BY <1>10, <2>2, <2>3 DEF EndJitter, Running, Server!Quiet, Server!ServerNext
<1>11. ASSUME NEW p \in Offered, ReplayCall(p)
       PROVE  Server!ServerNext
  BY <1>11, ReplayIsRepeat DEF Server!ServerNext
<1>12. ASSUME NEW p \in Offered, RefuseCall(p)
       PROVE  Server!Quiet
  <2>1. SameMemory
    BY <1>12, TakeCallType DEF RefuseCall, Done, SameMemory, IInv
  <2>2. Result' = NoReply
    BY <1>12, NoResult DEF RefuseCall, Unparsed, OutOfMemory, Verdict
  <2> QED
    BY <1>12, <2>1, <2>2, QuietStep DEF RefuseCall, Done
<1>13. ASSUME NEW p \in Offered, StartHandler(p)
       PROVE  Server!ServerNext
  BY <1>13, StartIsRun DEF Server!ServerNext
<1>14. CASE HandlerSucceeds
  BY <1>14, SuccessIsSucceed DEF Server!ServerNext
<1>15. CASE HandlerFails
  BY <1>15, FailureIsFail DEF Server!ServerNext
<1>16. CASE UNCHANGED vars
  <2>1. Memo' = Memo /\ Running' = Running /\ Result' = Result
    BY <1>16
    DEF vars, Memo, LiveKeys, SlotOf, Remembered, Running, Result
  <2> QED
    BY <1>16, <2>1 DEF vars, Server!serverVars
<1> QED
  BY <1>1, <1>2, <1>3, <1>4, <1>5, <1>6, <1>7, <1>8, <1>9, <1>10, <1>11,
     <1>12, <1>13, <1>14, <1>15, <1>16
  DEF Next, RxCb, HandleToolCall, Server!ServerNext

\* A device is a server that answers each remembered call from memory, runs
\* every other one, and forgets only the old, or one when its memory is full.
THEOREM Implementation == Spec => ImplementsToolServer
BY InitIsServerInit, StepIsServerStep, Invariant, PTL
DEF Spec, ImplementsToolServer, Server!ServerSpec
=============================================================================
