----------------------------- MODULE PhyMCPProofs -----------------------------
(***************************************************************************)
(* Theorems about PhyMCP, for every number of ids, cache size, window and  *)
(* capacity of the air.  The device in it takes only steps of Device, so   *)
(* that what DeviceProofs shows of Device holds of it as well.             *)
(***************************************************************************)
EXTENDS PhyMCP, DeviceRefinementProofs

-----------------------------------------------------------------------------
(* Types, and the device in the net *)

Call == [xid : Xid, since : Nat, at : Nat, fresh : BOOLEAN, calm : BOOLEAN]

NetTypeOK == /\ nextXid \in Xid
             /\ call \in Call \cup {NoCall}
             /\ answers \subseteq Reply
             /\ recent \in Seq(Xid)
             /\ used \subseteq Xid
             /\ runsOf \in [Xid -> Nat]

\* The first id drawn after a boot is any but zero, the next one follows it.
LEMMA AfterFacts ==
    ASSUME NEW x \in Xid
    PROVE  /\ After(x) \in Xid /\ After(x) > 0
           /\ x < XidModulus - 1 => After(x) = x + 1
           /\ x = XidModulus - 1 => After(x) = 1
<1>1. x \in Nat /\ x < XidModulus /\ XidModulus \in Nat /\ XidModulus > 2
  BY XidsAreIntegers
<1>2. x < XidModulus - 1 => (x + 1) % XidModulus = x + 1
  BY <1>1
<1>3. x = XidModulus - 1 => (x + 1) % XidModulus = 0
  BY <1>1
<1> QED
  BY <1>1, <1>2, <1>3, XidsAreIntegers DEF After

LEMMA RequestIsOffered == \A x \in Xid : Request(x) \in Offered /\ Request(x).xid = x
BY OnlyCalls DEF Request

LEMMA OfferedFacts ==
    ASSUME NEW p \in Offered
    PROVE  p.xid \in Xid /\ p.src = Host /\ p.type = "TOOL_CALL" /\ KeyOf(p) = <<Host, p.xid>>
BY OnlyCalls DEF KeyOf

\* Every step of the net is a step of the device, or leaves it alone.
LEMMA DeviceStep == NetTypeOK /\ [NetNext]_allVars => [Next]_vars
<1> SUFFICES ASSUME NetTypeOK, [NetNext]_allVars PROVE [Next]_vars
  OBVIOUS
<1> USE DEF Next, RxCb, HandleToolCall
<1>1. CASE CallTool \/ GiveUp \/ HostReboot \/ \E r \in answers : HostRxCb(r)
  BY <1>1 DEF CallTool, GiveUp, HostReboot, HostRxCb, DeviceIdle
<1>2. CASE SendAgain
  BY <1>2, RequestIsOffered DEF SendAgain, NetTypeOK, Call
<1>3. CASE \E x \in Xid : Deliver(x)
  BY <1>3, RequestIsOffered DEF Deliver
<1>4. CASE Worker
  BY <1>4 DEF Worker, DeviceRuns, DeviceAnswers, DeviceSucceeds, DeviceFails
<1>5. CASE DeviceReboot \/ TimePasses
  BY <1>5 DEF DeviceReboot, TimePasses
<1>6. CASE UNCHANGED allVars
  BY <1>6 DEF allVars
<1> QED
  BY <1>1, <1>2, <1>3, <1>4, <1>5, <1>6 DEF NetNext

LEMMA CarryType ==
    ASSUME NetTypeOK, TypeOK', Carry
    PROVE  answers' \subseteq Reply /\ answers' \subseteq answers \cup ({reply'} \ {NoReply})
BY DEF Carry, NetTypeOK, TypeOK

LEMMA NetStepType ==
    ASSUME NetTypeOK, TypeOK, TypeOK', [NetNext]_allVars
    PROVE  NetTypeOK'
<1> USE DEF hostVars, HostIdle
<1>1. CASE CallTool
  <2>1. PICK x \in Xid : /\ nextXid' = x /\ call' = NewCall(x)
                         /\ recent' = Shortened(Append(recent, x))
                         /\ used' = used \cup {x} /\ runsOf' = [runsOf EXCEPT ![x] = 0]
    BY <1>1 DEF CallTool
  <2>2. recent' \in Seq(Xid)
    <3>1. Append(recent, x) \in Seq(Xid) /\ Append(recent, x) # <<>>
      BY AppendProperties DEF NetTypeOK
    <3> QED
      BY <2>1, <3>1, HeadTailProperties DEF Shortened
  <2>3. call' \in Call
    BY <2>1 DEF NewCall, Call, TypeOK
  <2> QED
    BY <1>1, <2>1, <2>2, <2>3 DEF CallTool, NetTypeOK
<1>2. CASE SendAgain \/ GiveUp \/ \E x \in Xid : Deliver(x)
  BY <1>2 DEF SendAgain, GiveUp, Deliver, NetTypeOK
<1>3. ASSUME NEW r \in answers, HostRxCb(r) PROVE NetTypeOK'
  BY <1>3 DEF HostRxCb, NetTypeOK
<1>4. CASE HostReboot
  BY <1>4, EmptySeq, XidsAreIntegers DEF HostReboot, NetTypeOK
<1>5. ASSUME NEW p \in Offered, DeviceRuns(p) PROVE NetTypeOK'
  BY <1>5, CarryType, OfferedFacts DEF DeviceRuns, NetTypeOK
<1>6. ASSUME NEW p \in Offered, DeviceAnswers(p) PROVE NetTypeOK'
  BY <1>6, CarryType DEF DeviceAnswers, NetTypeOK
<1>7. CASE DeviceSucceeds
  BY <1>7, CarryType DEF DeviceSucceeds, NetTypeOK
<1>8. CASE DeviceFails
  BY <1>8, CarryType DEF DeviceFails, Disturbed, NetTypeOK, Call
<1>9. CASE DeviceReboot
  BY <1>9 DEF DeviceReboot, NetTypeOK, Call
<1>10. CASE TimePasses \/ UNCHANGED allVars
  BY <1>10 DEF TimePasses, allVars, NetTypeOK
<1> QED
  BY <1>1, <1>2, <1>3, <1>4, <1>5, <1>6, <1>7, <1>8, <1>9, <1>10 DEF NetNext, Worker

Base == IInv /\ NetTypeOK

LEMMA InitBase == NetInit => Base
BY InitInvariant, XidsAreIntegers, EmptySeq DEF NetInit, Base, NetTypeOK

LEMMA StepBase == Base /\ [NetNext]_allVars => Base' /\ [Next]_vars
<1> SUFFICES ASSUME Base, [NetNext]_allVars PROVE Base' /\ [Next]_vars
  OBVIOUS
<1>1. [Next]_vars
  BY DeviceStep DEF Base
<1>2. IInv'
  BY <1>1, StepInvariant DEF Base
<1> QED
  BY <1>1, <1>2, NetStepType DEF Base, IInv

LEMMA BaseInvariance == NetSpec => []Base
BY InitBase, StepBase, PTL DEF NetSpec

\* The device of the net behaves as Device does: every theorem about Device is
\* one about the net.
THEOREM NetImplementsDevice == NetSpec => Spec
<1>1. NetInit => Init
  BY DEF NetInit
<1> QED
  BY <1>1, StepBase, BaseInvariance, PTL DEF NetSpec, Spec

\* So it keeps what a tool server and a mailbox promise, also among hosts that
\* repeat their calls and an air that loses, delays and repeats frames.
THEOREM NetImplementsServer == NetSpec => ImplementsToolServer /\ ImplementsMailbox
BY NetImplementsDevice, Implementation, DeviceMailbox
-----------------------------------------------------------------------------
(* Ids take turns *)

\* The i-th id drawn is as many steps behind the last one as there are ids after
\* it, counted around the circle of XidModulus - 1 ids.
InTurn(i) == LET d == nextXid - recent[i]
             IN  \/ d = Len(recent) - i
                 \/ d = Len(recent) - i - (XidModulus - 1)

TurnInv == /\ Len(recent) <= XidModulus - 2
           /\ nextXid = 0 => Len(recent) = 0
           /\ \A i \in 1..Len(recent) : recent[i] > 0 /\ InTurn(i)

\* The id drawn in a step is none of those, and follows them in turn.
LEMMA DrawnInTurn ==
    ASSUME NetTypeOK, TurnInv, NEW x \in Xid, Draws(x)
    PROVE  /\ x > 0
           /\ \A i \in 1..Len(recent) :
                 /\ recent[i] # x
                 /\ \/ x - recent[i] = Len(recent) - i + 1
                    \/ x - recent[i] = Len(recent) - i + 1 - (XidModulus - 1)
<1>1. PICK seed \in Xid : x = After(seed) /\ (nextXid # 0 => seed = nextXid)
  BY DEF Draws, NetTypeOK
<1>2. /\ XidModulus \in Nat /\ XidModulus > 2 /\ seed \in Nat /\ seed < XidModulus
      /\ nextXid \in Nat /\ Len(recent) \in Nat
  BY XidsAreIntegers, LenProperties DEF NetTypeOK
<1>3. /\ x > 0
      /\ \/ x = seed + 1 /\ seed < XidModulus - 1
         \/ x = 1 /\ seed = XidModulus - 1
  BY <1>1, <1>2, AfterFacts
<1>4. ASSUME NEW i \in 1..Len(recent)
      PROVE  /\ recent[i] # x
             /\ \/ x - recent[i] = Len(recent) - i + 1
                \/ x - recent[i] = Len(recent) - i + 1 - (XidModulus - 1)
  <2>1. recent[i] \in Nat /\ recent[i] > 0 /\ recent[i] < XidModulus
    BY XidsAreIntegers, LenProperties DEF NetTypeOK, TurnInv
  <2>2. seed = nextXid /\ Len(recent) <= XidModulus - 2
    BY <1>1, <1>2, <1>4 DEF TurnInv
  <2>3. \/ seed - recent[i] = Len(recent) - i
        \/ seed - recent[i] = Len(recent) - i - (XidModulus - 1)
    BY <2>2 DEF TurnInv, InTurn
  <2> QED
    BY <1>2, <1>3, <2>1, <2>2, <2>3
<1> QED
  BY <1>3, <1>4

LEMMA StepTurnInv ==
    ASSUME NetTypeOK, NetTypeOK', TurnInv, [NetNext]_allVars
    PROVE  TurnInv'
<1>1. CASE CallTool
  <2>1. PICK x \in Xid : Draws(x) /\ nextXid' = x /\ recent' = Shortened(Append(recent, x))
    BY <1>1 DEF CallTool
  <2> DEFINE t == Append(recent, x)
             n == Len(recent)
  <2>2. /\ n \in Nat /\ t \in Seq(Xid) /\ t # <<>> /\ Len(t) = n + 1 /\ t[n + 1] = x
        /\ \A i \in 1..n : t[i] = recent[i] /\ recent[i] \in Xid
    <3>1. recent \in Seq(Xid)
      BY DEF NetTypeOK
    <3>2. n \in Nat /\ \A i \in 1..n : recent[i] \in Xid
      BY <3>1, LenProperties
    <3> QED
      BY <3>1, <3>2, AppendProperties
  <2>3. XidModulus \in Nat /\ XidModulus > 2 /\ n <= XidModulus - 2 /\ x \in Nat /\ x > 0
    BY <2>1, DrawnInTurn, XidsAreIntegers DEF TurnInv
  <2> HIDE DEF t
  <2>4. \A i \in 1..(n + 1) :
           /\ t[i] > 0 /\ t[i] \in Nat
           /\ \/ x - t[i] = n + 1 - i
              \/ x - t[i] = n + 1 - i - (XidModulus - 1)
    <3>1. ASSUME NEW i \in 1..n
          PROVE  /\ t[i] > 0 /\ t[i] \in Nat
                 /\ \/ x - t[i] = n + 1 - i
                    \/ x - t[i] = n + 1 - i - (XidModulus - 1)
      <4>1. /\ recent[i] > 0
            /\ \/ x - recent[i] = n - i + 1
               \/ x - recent[i] = n - i + 1 - (XidModulus - 1)
        BY <2>1, DrawnInTurn DEF TurnInv
      <4>2. recent[i] \in Nat /\ t[i] = recent[i]
        BY <2>2, XidsAreIntegers
      <4> QED
        BY <2>2, <2>3, <4>1, <4>2
    <3> QED
      BY <2>2, <2>3, <3>1
  <2>5. CASE n + 1 <= XidModulus - 2
    <3>1. recent' = t
      BY <2>1, <2>2, <2>3, <2>5 DEF Shortened, t
    <3>2. Len(recent') = n + 1 /\ nextXid' = x
      BY <2>1, <2>2, <3>1
    <3>3. ASSUME NEW i \in 1..(n + 1)
          PROVE  recent'[i] > 0 /\ InTurn(i)'
      BY <2>3, <2>4, <3>1, <3>2 DEF InTurn
    <3> QED
      BY <2>3, <2>5, <3>2, <3>3 DEF TurnInv
  <2>6. CASE n + 1 > XidModulus - 2
    <3>1. recent' = Tail(t)
      BY <2>1, <2>2, <2>3, <2>6 DEF Shortened, t
    <3>2. Len(recent') = n /\ \A i \in 1..n : recent'[i] = t[i + 1]
      BY <2>2, <3>1, HeadTailProperties
    <3>3. ASSUME NEW i \in 1..n
          PROVE  /\ recent'[i] > 0
                 /\ \/ x - recent'[i] = n - i
                    \/ x - recent'[i] = n - i - (XidModulus - 1)
      BY <2>2, <2>3, <2>4, <3>2
    <3> QED
      BY <2>1, <2>3, <3>2, <3>3 DEF TurnInv, InTurn
  <2> QED
    BY <2>2, <2>3, <2>5, <2>6
<1>2. CASE HostReboot
  BY <1>2, XidsAreIntegers, EmptySeq DEF HostReboot, TurnInv
<1>3. CASE UNCHANGED <<nextXid, recent>>
  BY <1>3 DEF TurnInv, InTurn
<1> QED
  BY <1>1, <1>2, <1>3 DEF NetNext, allVars, hostVars, HostIdle, SendAgain, GiveUp, HostRxCb,
     Deliver, Worker, DeviceRuns, DeviceAnswers, DeviceSucceeds, DeviceFails, DeviceReboot,
     TimePasses

LEMMA TurnInvariance == NetSpec => []TurnInv
<1>1. NetInit => TurnInv
  BY XidsAreIntegers, EmptySeq DEF NetInit, TurnInv
<1>2. Base /\ Base' /\ TurnInv /\ [NetNext]_allVars => TurnInv'
  BY StepTurnInv DEF Base
<1> QED
  BY <1>1, <1>2, BaseInvariance, PTL DEF NetSpec

\* For every width of the counter and every random first value: between two
\* reboots an id comes back only after all the others.
THEOREM IdsTakeTurnsHolds == NetSpec => IdsTakeTurns
<1>1. Base /\ TurnInv /\ [NetNext]_allVars
        => [CallTool => \A i \in 1..Len(recent) : nextXid' # recent[i]]_allVars
  BY DrawnInTurn DEF Base, CallTool
<1> QED
  BY <1>1, BaseInvariance, TurnInvariance, PTL DEF IdsTakeTurns, NetSpec
-----------------------------------------------------------------------------
(* Where results of a call may be *)

QueuedIds == {rxQueue[i].xid : i \in 1..Len(rxQueue)}

CachedRuns(x) ==
    {cache[i].response : i \in {j \in Slots : /\ cache[j].used
                                              /\ cache[j].key \in Keys
                                              /\ cache[j].key[2] = x}}

AnsweredRuns(x) == {r.run : r \in {a \in answers : a.verdict = "result" /\ a.xid = x}}

RunningRuns(x) == {n \in {runs} : phase = "handler" /\ pkt.xid = x}

\* Runs whose result may yet end a call with id x.
Results(x) == CachedRuns(x) \cup AnsweredRuns(x) \cup RunningRuns(x)

LEMMA ReceivedIds ==
    ASSUME TypeOK, NEW p \in Offered, RecvCb(p)
    PROVE  QueuedIds' \subseteq QueuedIds \cup {p.xid}
<1>1. CASE rxQueue' = rxQueue
  BY <1>1 DEF QueuedIds
<1>2. CASE rxQueue' = Append(rxQueue, p)
  <2>1. /\ Len(rxQueue) \in Nat /\ Len(rxQueue') = Len(rxQueue) + 1
        /\ \A i \in 1..Len(rxQueue) : rxQueue'[i] = rxQueue[i]
        /\ rxQueue'[Len(rxQueue) + 1] = p
    BY <1>2, AppendProperties, LenProperties DEF TypeOK
  <2>2. \A i \in 1..Len(rxQueue') : i \in 1..Len(rxQueue) \/ i = Len(rxQueue) + 1
    BY <2>1
  <2> QED
    BY <2>1, <2>2 DEF QueuedIds
<1> QED
  BY <1>1, <1>2 DEF RecvCb

LEMMA TakenIds ==
    ASSUME TypeOK, NEW p \in Offered, Take(p)
    PROVE  p.xid \in QueuedIds /\ QueuedIds' \subseteq QueuedIds
<1>1. /\ Len(rxQueue) \in Nat \ {0} /\ Len(rxQueue') = Len(rxQueue) - 1
      /\ \A i \in 1..Len(rxQueue') : rxQueue'[i] = rxQueue[i + 1]
      /\ p = rxQueue[1]
  BY HeadTailProperties, EmptySeq DEF Take, TypeOK
<1>2. \A i \in 1..Len(rxQueue') : i + 1 \in 1..Len(rxQueue)
  BY <1>1
<1> QED
  BY <1>1, <1>2 DEF QueuedIds

\* Sweeping the cache adds no result.
LEMMA SweptRuns ==
    ASSUME NEW p \in Offered, TakeCall(p), NEW x
    PROVE  CachedRuns(x)' \subseteq CachedRuns(x)
<1>1. \A i \in Slots : cache'[i].used => cache'[i] = cache[i]
  <2> SUFFICES ASSUME NEW i \in Slots, cache'[i].used PROVE cache'[i] = cache[i]
    OBVIOUS
  <2>1. cache'[i] = cache[i] \/ cache'[i] = [cache[i] EXCEPT !.used = FALSE]
    BY DEF TakeCall, Swept
  <2>2. CASE cache'[i] = [cache[i] EXCEPT !.used = FALSE] /\ cache'[i] # cache[i]
    <3>1. "used" \in DOMAIN cache[i] => ~cache'[i].used
      BY <2>2
    <3>2. "used" \notin DOMAIN cache[i] => cache'[i] = cache[i]
      BY <2>2
    <3> QED
      BY <3>1, <3>2
  <2> QED
    BY <2>1, <2>2
<1> QED
  BY <1>1 DEF CachedRuns

\* What is carried are old answers and the device's reply.
LEMMA CarriedRuns ==
    ASSUME NetTypeOK, TypeOK', Carry, NEW x, NEW S,
           reply' # NoReply /\ reply'.verdict = "result" /\ reply'.xid = x => reply'.run \in S
    PROVE  AnsweredRuns(x)' \subseteq AnsweredRuns(x) \cup S
BY CarryType DEF AnsweredRuns

\* Only a tool run that starts for a queued request makes a new result.
LEMMA ResultsStep ==
    ASSUME Base, Base', [NetNext]_allVars, NEW x \in Xid
    PROVE  /\ runs' >= runs
           /\ \/ Results(x)' \subseteq Results(x)
              \/ /\ x \in QueuedIds
                 /\ Results(x)' \subseteq Results(x) \cup {runs'} /\ runs' = runs + 1
                 /\ runsOf'[x] = runsOf[x] + 1
<1> USE DEF Base, IInv
<1>0. runs \in Nat
  BY DEF TypeOK
<1>1. CASE UNCHANGED <<cache, runs, phase, pkt>> /\ answers' \subseteq answers
  BY <1>0, <1>1 DEF Results, CachedRuns, AnsweredRuns, RunningRuns
<1>2. CASE \/ CallTool \/ GiveUp \/ HostReboot \/ SendAgain \/ TimePasses \/ UNCHANGED allVars
           \/ \E r \in answers : HostRxCb(r)
           \/ \E y \in Xid : Deliver(y)
  <2>1. UNCHANGED <<cache, runs, phase, pkt>> /\ answers' \subseteq answers
    BY <1>2 DEF CallTool, GiveUp, HostReboot, SendAgain, TimePasses, allVars, HostRxCb, Deliver,
                DeviceIdle, vars, RecvCb, Tick
  <2> QED
    BY <1>1, <2>1
<1>3. CASE DeviceReboot
  <2>1. CachedRuns(x)' = {}
    BY <1>3 DEF DeviceReboot, Restart, CachedRuns, ZeroedCache, ZeroedEntry
  <2> QED
    BY <1>0, <1>3, <2>1 DEF DeviceReboot, Restart, Results, AnsweredRuns, RunningRuns
<1>4. ASSUME NEW p \in Offered, DeviceRuns(p)
      PROVE  /\ runs' >= runs
             /\ \/ Results(x)' \subseteq Results(x)
                \/ /\ x \in QueuedIds
                   /\ Results(x)' \subseteq Results(x) \cup {runs'} /\ runs' = runs + 1
                   /\ runsOf'[x] = runsOf[x] + 1
  <2>1. /\ TakeCall(p) /\ Take(p) /\ pkt' = p /\ runs' = runs + 1 /\ reply' = NoReply /\ Carry
    BY <1>4 DEF DeviceRuns, StartHandler, TakeCall, Silent
  <2>2. CachedRuns(x)' \subseteq CachedRuns(x) /\ AnsweredRuns(x)' \subseteq AnsweredRuns(x) \cup {}
    BY <2>1, SweptRuns, CarriedRuns
  <2>3. CASE x = p.xid
    <3>1. runsOf'[x] = runsOf[x] + 1
      BY <1>4, <2>3 DEF DeviceRuns, NetTypeOK
    <3> QED
      BY <1>0, <2>1, <2>2, <2>3, <3>1, TakenIds DEF Results, RunningRuns
  <2>4. CASE x # p.xid
    BY <1>0, <2>1, <2>2, <2>4 DEF Results, RunningRuns
  <2> QED
    BY <2>3, <2>4
<1>5. ASSUME NEW p \in Offered, DeviceAnswers(p)
      PROVE  runs' >= runs /\ Results(x)' \subseteq Results(x)
  <2>1. TakeCall(p) /\ Carry /\ UNCHANGED <<runs, phase, pkt>>
    BY <1>5 DEF DeviceAnswers, ReplayCall, RefuseCall, Done
  <2>2. reply' # NoReply /\ reply'.verdict = "result" /\ reply'.xid = x
           => reply'.run \in CachedRuns(x)
    <3>1. CASE ReplayCall(p)
      <4>1. PICK i \in Slots : /\ Matches(cache[i], KeyOf(p), now)
                               /\ Send(p, "result", cache[i].response)
        BY <3>1 DEF ReplayCall, Hit
      <4>2. cache[i].used /\ cache[i].key \in Keys /\ cache[i].key[2] = p.xid
        BY <4>1, OfferedFacts, HostIsASource DEF Matches, Live, KeyOf, Keys
      <4>3. cache[i].response \in CachedRuns(p.xid)
        BY <4>2 DEF CachedRuns
      <4> QED
        BY <4>1, <4>3 DEF Send, Answer
    <3>2. CASE RefuseCall(p)
      BY <3>2 DEF RefuseCall, Unparsed, OutOfMemory, Send, Answer
    <3> QED
      BY <1>5, <3>1, <3>2 DEF DeviceAnswers
  <2>3. /\ CachedRuns(x)' \subseteq CachedRuns(x)
        /\ AnsweredRuns(x)' \subseteq AnsweredRuns(x) \cup CachedRuns(x)
    BY <2>1, <2>2, SweptRuns, CarriedRuns
  <2> QED
    BY <1>0, <2>1, <2>3 DEF Results, RunningRuns
<1>6. CASE DeviceSucceeds
  <2>1. PICK i \in Slots : cache' = Stored(cache, i, KeyOf(pkt), now, runs)
    BY <1>6, SlotsAreFinite DEF DeviceSucceeds, HandlerSucceeds, StoreSlots, FirstDead
  <2>2. /\ Carry /\ phase = "handler" /\ Send(pkt, "result", runs) /\ phase' = "idle"
        /\ runs' = runs
    BY <1>6 DEF DeviceSucceeds, HandlerSucceeds
  <2>3. KeyOf(pkt)[2] = pkt.xid
    BY DEF KeyOf
  <2>4. CachedRuns(x)' \subseteq CachedRuns(x) \cup RunningRuns(x)
    <3>1. /\ cache'[i].key = KeyOf(pkt) /\ cache'[i].response = runs
          /\ \A j \in Slots \ {i} : cache'[j] = cache[j]
      BY <2>1 DEF Stored, TypeOK
    <3> QED
      BY <2>2, <2>3, <3>1 DEF CachedRuns, RunningRuns
  <2>5. AnsweredRuns(x)' \subseteq AnsweredRuns(x) \cup RunningRuns(x)
    <3>1. reply' # NoReply /\ reply'.verdict = "result" /\ reply'.xid = x
             => reply'.run \in RunningRuns(x)
      BY <2>2 DEF Send, Answer, RunningRuns
    <3> QED
      BY <2>2, <3>1, CarriedRuns
  <2> QED
    BY <1>0, <2>2, <2>4, <2>5 DEF Results, RunningRuns
<1>7. CASE DeviceFails
  <2>1. /\ Carry /\ UNCHANGED <<cache, runs>> /\ phase' = "idle"
        /\ reply' # NoReply => reply'.verdict # "result"
    BY <1>7 DEF DeviceFails, HandlerFails, Send, Answer
  <2>2. AnsweredRuns(x)' \subseteq AnsweredRuns(x) \cup {}
    BY <2>1, CarriedRuns
  <2> QED
    BY <1>0, <2>1, <2>2 DEF Results, CachedRuns, RunningRuns
<1> QED
  BY <1>2, <1>3, <1>4, <1>5, <1>6, <1>7 DEF NetNext, Worker
-----------------------------------------------------------------------------
(* Results belong to calls that were made *)

FreshInv ==
    /\ QueuedIds \subseteq used
    /\ \A x \in Xid : Results(x) # {} => x \in used
    /\ call # NoCall => /\ call.xid \in used /\ call.since <= runs
                        /\ call.fresh => \A n \in Results(call.xid) : n > call.since

\* Unless a call is made in the step, it stays, ends, or is calm no longer.
CallStays == \/ call' \in {call, NoCall}
             \/ call # NoCall /\ call' = [call EXCEPT !.calm = FALSE]

LEMMA CallsStay ==
    ASSUME [NetNext]_allVars, ~CallTool
    PROVE  CallStays /\ used' = used
BY DEF NetNext, allVars, hostVars, HostIdle, SendAgain, GiveUp, HostReboot, HostRxCb, Deliver, Worker,
       DeviceRuns, DeviceAnswers, DeviceSucceeds, DeviceFails, Disturbed, DeviceReboot, TimePasses,
       CallStays

LEMMA QueuedAreUsed ==
    ASSUME Base, [NetNext]_allVars, FreshInv
    PROVE  QueuedIds' \subseteq used'
<1> USE DEF Base, IInv
<1>1. used \subseteq used'
  BY CallsStay DEF CallTool
<1>2. CASE SendAgain
  <2>1. call.xid \in Xid /\ RecvCb(Request(call.xid)) /\ call.xid \in used
    BY <1>2 DEF SendAgain, NetTypeOK, Call, FreshInv
  <2> QED
    BY <1>1, <2>1, ReceivedIds, RequestIsOffered DEF FreshInv
<1>3. ASSUME NEW x \in Xid, Deliver(x) PROVE QueuedIds' \subseteq used'
  BY <1>1, <1>3, ReceivedIds, RequestIsOffered DEF Deliver, FreshInv
<1>4. ASSUME NEW p \in Offered, Take(p) PROVE QueuedIds' \subseteq used'
  BY <1>1, <1>4, TakenIds DEF FreshInv
<1>5. ASSUME NEW p \in Offered, DeviceRuns(p) \/ DeviceAnswers(p) PROVE Take(p)
  BY <1>5 DEF DeviceRuns, DeviceAnswers, StartHandler, ReplayCall, RefuseCall, TakeCall
<1>6. CASE DeviceReboot
  BY <1>6, EmptySeq DEF DeviceReboot, Restart, QueuedIds
<1>7. CASE UNCHANGED rxQueue
  BY <1>1, <1>7 DEF QueuedIds, FreshInv
<1> QED
  BY <1>2, <1>3, <1>4, <1>5, <1>6, <1>7
     DEF NetNext, allVars, vars, DeviceIdle, CallTool, GiveUp, HostReboot, HostRxCb, Worker,
         DeviceSucceeds, HandlerSucceeds, DeviceFails, HandlerFails, TimePasses, Tick

LEMMA StepFreshInv ==
    ASSUME Base, Base', [NetNext]_allVars, FreshInv
    PROVE  FreshInv'
<1> USE DEF Base
<1>0. runs \in Nat /\ runs' \in Nat /\ (call # NoCall => call.xid \in Xid /\ call.since \in Nat)
  BY DEF IInv, TypeOK, NetTypeOK, Call
<1>1. used \subseteq used' /\ used \subseteq Xid
  BY CallsStay DEF CallTool, NetTypeOK
<1>2. QueuedIds' \subseteq used'
  BY QueuedAreUsed
<1>3. \A x \in Xid : Results(x)' # {} => x \in used'
  BY <1>1, ResultsStep DEF FreshInv
<1>4. CASE CallTool
  <2>1. PICK x \in Xid : call' = NewCall(x) /\ x \in used'
    BY <1>4 DEF CallTool
  <2>2. Results(x)' = Results(x) /\ runs' = runs
    BY <1>4 DEF CallTool, DeviceIdle, vars, Results, CachedRuns, AnsweredRuns, RunningRuns
  <2>3. /\ call'.xid = x /\ call'.since = runs
        /\ call'.fresh => x \notin used
    BY <2>1 DEF NewCall
  <2>4. call'.fresh => Results(x)' = {}
    BY <2>2, <2>3 DEF FreshInv
  <2> QED
    BY <1>0, <1>2, <1>3, <2>1, <2>2, <2>3, <2>4 DEF FreshInv
<1>5. CASE ~CallTool
  <2>1. CallStays
    BY <1>5, CallsStay
  <2>2. CASE call = NoCall \/ call' = NoCall
    <3>1. call' = NoCall
      BY <2>1, <2>2 DEF CallStays
    <3> QED
      BY <1>2, <1>3, <3>1 DEF FreshInv
  <2>3. CASE call # NoCall /\ call' # NoCall
    <3>1. call'.xid = call.xid /\ call'.since = call.since /\ call'.fresh = call.fresh
      BY <2>1, <2>3 DEF CallStays, NetTypeOK, Call
    <3>2. PICK x \in Xid : x = call.xid
      BY <1>0, <2>3
    <3>3. runs' >= runs /\ \A n \in Results(x)' : n \in Results(x) \/ (n = runs' /\ n > runs)
      <4>1. /\ runs' >= runs
            /\ \/ Results(x)' \subseteq Results(x)
               \/ /\ x \in QueuedIds
                  /\ Results(x)' \subseteq Results(x) \cup {runs'} /\ runs' = runs + 1
        BY ResultsStep
      <4> QED
        BY <1>0, <4>1
    <3>4. /\ call.since \in Nat /\ call.since <= runs /\ x \in used
          /\ call.fresh => \A n \in Results(x) : n > call.since
      BY <1>0, <2>3, <3>2 DEF FreshInv
    <3>5. call.fresh => \A n \in Results(x)' : n > call.since
      BY <1>0, <3>3, <3>4
    <3>6. call'.xid = x /\ call'.since <= runs' /\ x \in used'
      BY <1>0, <1>1, <3>1, <3>2, <3>3, <3>4
    <3> QED
      BY <1>2, <1>3, <3>1, <3>5, <3>6 DEF FreshInv
  <2> QED
    BY <2>2, <2>3
<1> QED
  BY <1>4, <1>5

LEMMA FreshInvariance == NetSpec => []FreshInv
<1>1. NetInit => FreshInv
  BY EmptySeq, SlotsAreFinite
     DEF NetInit, Init, FreshInv, QueuedIds, Results, CachedRuns, AnsweredRuns, RunningRuns,
         ZeroedCache, ZeroedEntry
<1>2. Base /\ Base' /\ FreshInv /\ [NetNext]_allVars => FreshInv'
  BY StepFreshInv
<1> QED
  BY <1>1, <1>2, BaseInvariance, PTL DEF NetSpec

\* Whatever the air loses, delays, repeats and reorders: the result that ends a
\* call with a new id is of a run begun after the call was made.
THEOREM ResultIsOfThisCallHolds == NetSpec => ResultIsOfThisCall
<1>1. Base /\ FreshInv
        => \A r \in answers :
              HostRxCb(r) /\ Awaited(r) /\ r.verdict = "result" /\ call.fresh
                  => r.run > call.since
  <2> SUFFICES ASSUME Base, FreshInv, NEW r \in answers, Awaited(r), r.verdict = "result", call.fresh
               PROVE  r.run > call.since
    OBVIOUS
  <2>1. r.run \in Results(call.xid)
    BY DEF Awaited, Results, AnsweredRuns
  <2> QED
    BY <2>1 DEF Awaited, FreshInv
<1> QED
  BY <1>1, BaseInvariance, FreshInvariance, PTL DEF ResultIsOfThisCall, NetSpec
-----------------------------------------------------------------------------
(* The run of a calm call *)

\* If the tool of a calm call has run, it is running, or it has succeeded since
\* the call was made.
RunInv ==
    call # NoCall =>
        /\ call.at <= now
        /\ call.calm /\ runsOf[call.xid] > 0 =>
              \/ phase = "handler" /\ pkt.xid = call.xid
              \/ answered[<<Host, call.xid>>] # Never /\ call.at <= answered[<<Host, call.xid>>]

\* A run of a calm call's tool begins when it has not run, or is forgotten.
LEMMA RunBegins ==
    ASSUME Base, RunInv, NEW p \in Offered, DeviceRuns(p),
           call # NoCall, call.calm, call.xid = p.xid, now <= call.at + TTL,
           ~(CacheSize <= Cardinality(Crowd(<<Host, call.xid>>)))
    PROVE  runsOf[call.xid] = 0
<1> DEFINE k == <<Host, call.xid>>
<1>0. /\ IInv /\ call.at \in Nat /\ now \in Nat /\ runsOf[call.xid] \in Nat
      /\ KeyOf(p) = k /\ k \in Keys /\ answered[k] \in Nat \cup {Never}
  BY OfferedFacts, HostIsASource DEF Base, IInv, TypeOK, NetTypeOK, Call, Keys
<1>1. phase = "idle" /\ ~Remembered(k)
  BY <1>0 DEF DeviceRuns, StartHandler, TakeCall, Take, IsFresh, Remembered
<1>2. ~InWindow(k)
  BY <1>0, <1>1 DEF IInv, RememberedOrCrowded
<1>3. answered[k] # Never => answered[k] + TTL < now
  BY <1>0, <1>2, TTLIsNat DEF InWindow
<1>4. SUFFICES ASSUME runsOf[call.xid] > 0 PROVE FALSE
  BY <1>0
<1>5. answered[k] # Never /\ call.at <= answered[k]
  BY <1>1, <1>4 DEF RunInv
<1> QED
  BY <1>0, <1>3, <1>5, TTLIsNat

LEMMA StepRunInv ==
    ASSUME Base, Base', RunInv, [NetNext]_allVars
    PROVE  RunInv'
<1> USE DEF Base, IInv, hostVars, HostIdle, history
<1>0. /\ now \in Nat /\ (call # NoCall => call \in Call /\ call.xid \in Xid)
      /\ runsOf \in [Xid -> Nat]
      /\ answered \in [Keys -> Nat \cup {Never}]
  BY DEF TypeOK, NetTypeOK, Call
<1>1. CASE CallTool
  <2>1. PICK x \in Xid : call' = NewCall(x) /\ runsOf' = [runsOf EXCEPT ![x] = 0]
    BY <1>1 DEF CallTool
  <2>2. call'.xid = x /\ call'.at = now /\ runsOf'[x] = 0 /\ now' = now
    BY <1>0, <1>1, <2>1 DEF CallTool, NewCall, DeviceIdle, vars
  <2> QED
    BY <1>0, <2>2 DEF RunInv
<1>2. CASE \/ GiveUp \/ HostReboot \/ SendAgain \/ UNCHANGED allVars
           \/ \E r \in answers : HostRxCb(r)
           \/ \E x \in Xid : Deliver(x)
  <2>1. /\ UNCHANGED <<now, runsOf, phase, pkt, answered>>
        /\ call' \in {call, NoCall}
    BY <1>2 DEF GiveUp, HostReboot, SendAgain, allVars, HostRxCb, Deliver, DeviceIdle, vars, RecvCb
  <2> QED
    BY <2>1 DEF RunInv
<1>3. CASE TimePasses
  <2>1. UNCHANGED <<runsOf, phase, pkt, answered, call>> /\ now' = now + 1
    BY <1>3 DEF TimePasses, Tick
  <2> QED
    BY <1>0, <2>1 DEF RunInv, Call
<1>4. CASE DeviceReboot
  <2>1. now' = now /\ call' = IF call = NoCall THEN NoCall ELSE [call EXCEPT !.calm = FALSE]
    BY <1>4 DEF DeviceReboot, Restart
  <2> QED
    BY <1>0, <2>1 DEF RunInv, Call
<1>5. ASSUME NEW p \in Offered, DeviceRuns(p) PROVE RunInv'
  <2>1. /\ phase' = "handler" /\ pkt' = p /\ UNCHANGED <<call, now, answered>>
        /\ runsOf' = [runsOf EXCEPT ![p.xid] = @ + 1] /\ phase = "idle"
    BY <1>5 DEF DeviceRuns, StartHandler, TakeCall, Take
  <2>2. call # NoCall /\ call.xid # p.xid => runsOf'[call.xid] = runsOf[call.xid]
    BY <1>0, <2>1
  <2> QED
    BY <2>1, <2>2 DEF RunInv
<1>6. ASSUME NEW p \in Offered, DeviceAnswers(p) PROVE RunInv'
  <2>1. UNCHANGED <<now, runsOf, phase, pkt, answered, call>>
    BY <1>6 DEF DeviceAnswers, ReplayCall, RefuseCall, Done
  <2> QED
    BY <2>1 DEF RunInv
<1>7. CASE DeviceSucceeds
  <2>1. /\ phase = "handler" /\ phase' = "idle" /\ UNCHANGED <<now, runsOf, call>>
        /\ answered' = [answered EXCEPT ![KeyOf(pkt)] = now]
    BY <1>7 DEF DeviceSucceeds, HandlerSucceeds
  <2>2. KeyOf(pkt) = <<Host, pkt.xid>> /\ KeyOf(pkt) \in Keys
    BY <2>1, OfferedFacts, HostIsASource DEF TypeOK, Keys
  <2>3. CASE call # NoCall /\ call.xid = pkt.xid
    BY <1>0, <2>1, <2>2, <2>3 DEF RunInv, Never
  <2>4. CASE call # NoCall /\ call.xid # pkt.xid
    <3>1. <<Host, call.xid>> # KeyOf(pkt) /\ <<Host, call.xid>> \in Keys
      BY <1>0, <2>2, <2>4, HostIsASource DEF Keys
    <3>2. answered'[<<Host, call.xid>>] = answered[<<Host, call.xid>>]
      BY <1>0, <2>1, <3>1
    <3> QED
      BY <2>1, <2>4, <3>2 DEF RunInv
  <2>5. CASE call = NoCall
    BY <2>1, <2>5 DEF RunInv
  <2> QED
    BY <2>3, <2>4, <2>5
<1>8. CASE DeviceFails
  <2>1. /\ call' = Disturbed(pkt.xid) /\ UNCHANGED <<now, runsOf, answered>>
    BY <1>8 DEF DeviceFails, HandlerFails
  <2>2. CASE call # NoCall /\ call.xid = pkt.xid
    BY <1>0, <2>1, <2>2 DEF RunInv, Disturbed, Call
  <2>3. CASE ~(call # NoCall /\ call.xid = pkt.xid)
    BY <2>1, <2>3 DEF RunInv, Disturbed
  <2> QED
    BY <2>2, <2>3
<1> QED
  BY <1>1, <1>2, <1>3, <1>4, <1>5, <1>6, <1>7, <1>8 DEF NetNext, Worker

LEMMA RunInvariance == NetSpec => []RunInv
<1>1. NetInit => RunInv
  BY DEF NetInit, RunInv
<1>2. Base /\ Base' /\ RunInv /\ [NetNext]_allVars => RunInv'
  BY StepRunInv
<1> QED
  BY <1>1, <1>2, BaseInvariance, PTL DEF NetSpec

\* However often a request is sent, lost, delayed or repeated: no second run of
\* its tool begins within the window, if the call is calm and the cache is not
\* crowded.
THEOREM AtMostOneRunHolds == NetSpec => AtMostOneRun
<1> DEFINE Uncrowded == Cardinality(Crowd(<<Host, call.xid>>)) < CacheSize
           Twice == /\ call # NoCall /\ call.calm /\ now <= call.at + TTL
                    /\ Uncrowded /\ runsOf'[call.xid] > runsOf[call.xid]
<1>1. Base /\ RunInv /\ [NetNext]_allVars => [Twice => runsOf[call.xid] = 0]_allVars
  <2> SUFFICES ASSUME Base, RunInv, NetNext, Twice PROVE runsOf[call.xid] = 0
    OBVIOUS
  <2>1. call.xid \in Xid /\ runsOf \in [Xid -> Nat]
    BY DEF Base, NetTypeOK, Call
  <2>2. PICK p \in Offered : DeviceRuns(p)
    <3>1. runsOf' # runsOf /\ runsOf[call.xid] \in Nat /\ runsOf'[call.xid] > runsOf[call.xid]
      BY <2>1
    <3>2. ~CallTool
      BY <2>1, <3>1 DEF CallTool
    <3> QED
      BY <3>1, <3>2 DEF NetNext, Worker, SendAgain, GiveUp, HostReboot, HostRxCb, Deliver,
         DeviceAnswers, DeviceSucceeds, DeviceFails, DeviceReboot, TimePasses
  <2>3. call.xid = p.xid
    BY <2>1, <2>2, OfferedFacts DEF DeviceRuns
  <2>4. ~(CacheSize <= Cardinality(Crowd(<<Host, call.xid>>)))
    <3>1. Cardinality(Crowd(<<Host, call.xid>>)) \in Nat
      BY KeysAreFinite, FS_Subset, FS_CardinalityType DEF Crowd
    <3> QED
      BY <3>1, SlotsAreFinite
  <2> QED
    BY <2>2, <2>3, <2>4, RunBegins
<1> QED
  BY <1>1, BaseInvariance, RunInvariance, PTL DEF AtMostOneRun, NetSpec
-----------------------------------------------------------------------------
(* The result of a calm call: its tool has run, and no more than once *)

\* Results of a new id come from runs since the call was made; and a calm call
\* within its window, with no crowd, had one run at most.
OneRunInv ==
    \A x \in Xid : call # NoCall /\ x = call.xid =>
        /\ call.calm => call.fresh
        /\ call.fresh /\ Results(x) # {} => runsOf[x] > 0
        /\ call.calm /\ now <= call.at + TTL /\ Cardinality(CallCrowd) < CacheSize
              => runsOf[x] <= 1

LEMMA CrowdSizes ==
    ASSUME Base, call # NoCall
    PROVE  /\ IsFiniteSet(CallCrowd) /\ Cardinality(CallCrowd) \in Nat
           /\ IsFiniteSet(Crowd(<<Host, call.xid>>))
           /\ Cardinality(Crowd(<<Host, call.xid>>)) \in Nat
           /\ CacheSize \in Nat
<1>1. IsFiniteSet(CallCrowd) /\ IsFiniteSet(Crowd(<<Host, call.xid>>))
  BY KeysAreFinite, FS_Subset DEF CallCrowd, Crowd
<1> QED
  BY <1>1, FS_CardinalityType, SlotsAreFinite

\* Whoever was in the cache with an answer of the call is in the call's crowd.
LEMMA CrowdIsOfCall ==
    ASSUME Base, call # NoCall, NEW k \in Keys, k = <<Host, call.xid>>,
           answered[k] # Never, call.at <= answered[k]
    PROVE  Cardinality(Crowd(k)) <= Cardinality(CallCrowd)
<1>1. call.at \in Nat /\ answered \in [Keys -> Nat \cup {Never}]
  BY DEF Base, IInv, TypeOK, NetTypeOK, Call
<1>2. Crowd(k) \subseteq CallCrowd
  <2> SUFFICES ASSUME NEW j \in Keys \ {k}, answered[j] # Never, answered[k] <= answered[j] + TTL
               PROVE  call.at <= answered[j] + TTL
    BY DEF Crowd, CallCrowd
  <2>1. answered[j] \in Nat /\ answered[k] \in Nat
    BY <1>1
  <2> QED
    BY <1>1, <2>1, TTLIsNat
<1> QED
  BY <1>2, CrowdSizes, FS_Subset

\* Answers are forgotten only by a device that reboots.
LEMMA AnswersGrow ==
    ASSUME Base, [NetNext]_allVars, ~DeviceReboot
    PROVE  \A j \in Keys : answered[j] # Never => /\ answered'[j] # Never
                                                  /\ answered[j] <= answered'[j]
<1> USE DEF Base, IInv, history
<1>1. answered \in [Keys -> Nat \cup {Never}] /\ now \in Nat
  BY DEF TypeOK
<1>2. CASE DeviceSucceeds
  <2>1. answered' = [answered EXCEPT ![KeyOf(pkt)] = now]
    BY <1>2 DEF DeviceSucceeds, HandlerSucceeds
  <2>2. \A j \in Keys : answered[j] # Never => answered[j] <= now
    BY DEF AnswersAreRuns
  <2>3. \A j \in Keys : answered'[j] = answered[j] \/ answered'[j] = now
    BY <1>1, <2>1
  <2> QED
    BY <1>1, <2>2, <2>3 DEF Never
<1>3. CASE ~DeviceSucceeds
  <2>1. answered' = answered
    BY <1>3 DEF NetNext, allVars, vars, Worker, CallTool, SendAgain, GiveUp, HostReboot, HostRxCb,
         Deliver, DeviceRuns, DeviceAnswers, DeviceFails, TimePasses, DeviceIdle, RecvCb,
         StartHandler, ReplayCall, RefuseCall, Done, HandlerFails, Tick
  <2> QED
    BY <1>1, <2>1 DEF Never
<1> QED
  BY <1>2, <1>3

\* So the crowd of a call that goes on only grows.
LEMMA CallCrowdGrows ==
    ASSUME Base, Base', [NetNext]_allVars, ~DeviceReboot,
           call # NoCall, call' # NoCall, call'.xid = call.xid, call'.at = call.at
    PROVE  Cardinality(CallCrowd) <= Cardinality(CallCrowd')
<1>1. /\ call.at \in Nat /\ answered \in [Keys -> Nat \cup {Never}]
      /\ answered' \in [Keys -> Nat \cup {Never}]
  BY DEF Base, IInv, TypeOK, NetTypeOK, Call
<1>2. CallCrowd \subseteq CallCrowd'
  <2> SUFFICES ASSUME NEW j \in Keys, answered[j] # Never, call.at <= answered[j] + TTL
               PROVE  answered'[j] # Never /\ call.at <= answered'[j] + TTL
    BY DEF CallCrowd
  <2>1. answered'[j] # Never /\ answered[j] <= answered'[j]
    BY AnswersGrow
  <2>2. answered[j] \in Nat /\ answered'[j] \in Nat
    BY <1>1, <2>1
  <2> QED
    BY <1>1, <2>1, <2>2, TTLIsNat
<1>3. IsFiniteSet(CallCrowd')
  BY KeysAreFinite, FS_Subset DEF CallCrowd
<1> QED
  BY <1>2, <1>3, FS_Subset

\* The runs of an id are counted where they begin.
LEMMA CountedRuns ==
    ASSUME Base, [NetNext]_allVars, ~CallTool, NEW x \in Xid
    PROVE  \/ runsOf'[x] = runsOf[x]
           \/ \E p \in Offered : DeviceRuns(p) /\ p.xid = x /\ runsOf'[x] = runsOf[x] + 1
<1>1. runsOf \in [Xid -> Nat]
  BY DEF Base, NetTypeOK
<1>2. CASE \E p \in Offered : DeviceRuns(p)
  <2>1. PICK p \in Offered : DeviceRuns(p)
    BY <1>2
  <2>2. runsOf' = [runsOf EXCEPT ![p.xid] = @ + 1]
    BY <2>1 DEF DeviceRuns
  <2> QED
    BY <1>1, <2>1, <2>2
<1>3. CASE UNCHANGED runsOf
  BY <1>3
<1> QED
  BY <1>2, <1>3 DEF NetNext, allVars, Worker, SendAgain, GiveUp, HostReboot, HostRxCb, Deliver,
     DeviceAnswers, DeviceSucceeds, DeviceFails, DeviceReboot, TimePasses

LEMMA StepOneRunInv ==
    ASSUME Base, Base', FreshInv, RunInv, OneRunInv, [NetNext]_allVars
    PROVE  OneRunInv'
<1>1. CASE CallTool
  <2>1. PICK x \in Xid : call' = NewCall(x) /\ runsOf' = [runsOf EXCEPT ![x] = 0]
    BY <1>1 DEF CallTool
  <2>2. Results(x)' = Results(x)
    BY <1>1 DEF CallTool, DeviceIdle, vars, Results, CachedRuns, AnsweredRuns, RunningRuns
  <2>3. /\ call'.xid = x /\ call'.fresh = (x \notin used) /\ call'.calm = (x \notin used)
        /\ runsOf'[x] = 0
    BY <2>1 DEF NewCall, Base, NetTypeOK
  <2>4. call'.fresh => Results(x)' = {}
    BY <2>2, <2>3 DEF FreshInv
  <2> QED
    BY <2>3, <2>4 DEF OneRunInv
<1>2. CASE ~CallTool
  <2> SUFFICES ASSUME NEW x \in Xid, call' # NoCall, x = call'.xid
               PROVE  /\ call'.calm => call'.fresh
                      /\ call'.fresh /\ Results(x)' # {} => runsOf'[x] > 0
                      /\ /\ call'.calm /\ now' <= call'.at + TTL
                         /\ Cardinality(CallCrowd') < CacheSize
                         => runsOf'[x] <= 1
    BY DEF OneRunInv
  <2>1. /\ call # NoCall /\ call'.xid = call.xid /\ call'.at = call.at
        /\ call'.fresh = call.fresh /\ (call'.calm => call.calm)
    BY <1>2, CallsStay DEF CallStays, Base, NetTypeOK, Call
  <2>2. x = call.xid
    BY <2>1
  <2>3. runsOf[x] \in Nat /\ now \in Nat /\ now' \in Nat /\ call.at \in Nat
    BY <2>1 DEF Base, NetTypeOK, IInv, TypeOK, Call
  <2>4. \/ runsOf'[x] = runsOf[x]
        \/ \E p \in Offered : DeviceRuns(p) /\ p.xid = x /\ runsOf'[x] = runsOf[x] + 1
    BY <1>2, CountedRuns
  <2>5. call'.fresh /\ Results(x)' # {} => runsOf'[x] > 0
    <3>1. Results(x)' \subseteq Results(x) \/ runsOf'[x] = runsOf[x] + 1
      BY ResultsStep
    <3> QED
      BY <2>1, <2>2, <2>3, <2>4, <3>1 DEF OneRunInv
  <2>6. ASSUME call'.calm, now' <= call'.at + TTL, Cardinality(CallCrowd') < CacheSize
        PROVE  runsOf'[x] <= 1
    <3>1. ~DeviceReboot
      BY <2>1, <2>6 DEF DeviceReboot, Base, NetTypeOK, Call
    <3>2. now <= now'
      BY <2>3 DEF NetNext, allVars, vars, Worker, CallTool, SendAgain, GiveUp, HostReboot,
         HostRxCb, Deliver, DeviceRuns, DeviceAnswers, DeviceFails, TimePasses, DeviceIdle,
         RecvCb, StartHandler, ReplayCall, RefuseCall, Done, HandlerFails, Tick,
         DeviceSucceeds, HandlerSucceeds, DeviceReboot, Restart
    <3>3. Cardinality(CallCrowd) <= Cardinality(CallCrowd')
      BY <2>1, <3>1, CallCrowdGrows
    <3>4. /\ Cardinality(CallCrowd) \in Nat /\ Cardinality(CallCrowd') \in Nat
          /\ CacheSize \in Nat
      <4>1. Cardinality(CallCrowd') \in Nat
        BY KeysAreFinite, FS_Subset, FS_CardinalityType DEF CallCrowd
      <4> QED
        BY <2>1, <4>1, CrowdSizes
    <3>5. /\ call.calm /\ now <= call.at + TTL
          /\ Cardinality(CallCrowd) < CacheSize
      BY <2>1, <2>3, <2>6, <3>2, <3>3, <3>4, TTLIsNat
    <3>6. runsOf[x] <= 1
      BY <2>1, <2>2, <3>5 DEF OneRunInv
    <3>7. ASSUME NEW p \in Offered, DeviceRuns(p), p.xid = x, runsOf'[x] = runsOf[x] + 1
          PROVE  runsOf[x] = 0
      <4> SUFFICES ASSUME runsOf[x] > 0 PROVE FALSE
        BY <2>3
      <4> DEFINE k == <<Host, call.xid>>
      <4>1. k \in Keys /\ KeyOf(p) = k
        BY <2>2, <3>7, OfferedFacts, HostIsASource DEF Keys
      <4>2. answered[k] # Never /\ call.at <= answered[k]
        BY <2>1, <2>2, <3>5, <3>7
           DEF RunInv, DeviceRuns, StartHandler, TakeCall, Take
      <4>3. Cardinality(Crowd(k)) <= Cardinality(CallCrowd) /\ Cardinality(Crowd(k)) \in Nat
        BY <2>1, <4>1, <4>2, CrowdIsOfCall, CrowdSizes
      <4>4. ~(CacheSize <= Cardinality(Crowd(k)))
        BY <3>4, <3>5, <4>3
      <4> QED
        BY <2>1, <2>2, <2>3, <3>5, <3>7, <4>4, RunBegins
    <3> QED
      BY <2>3, <2>4, <3>6, <3>7
  <2> QED
    BY <2>1, <2>2, <2>5, <2>6 DEF OneRunInv
<1> QED
  BY <1>1, <1>2

LEMMA OneRunInvariance == NetSpec => []OneRunInv
<1>1. NetInit => OneRunInv
  BY DEF NetInit, OneRunInv
<1>2. Base /\ Base' /\ FreshInv /\ RunInv /\ OneRunInv /\ [NetNext]_allVars => OneRunInv'
  BY StepOneRunInv
<1> QED
  BY <1>1, <1>2, BaseInvariance, FreshInvariance, RunInvariance, PTL DEF NetSpec

\* Exactly once: the result that ends a calm call within the window, with no
\* crowd in the cache, is of the only run of its tool.
THEOREM ResultOfOneRunHolds == NetSpec => ResultOfOneRun
<1>1. Base /\ OneRunInv
        => \A r \in answers :
              /\ HostRxCb(r) /\ Awaited(r) /\ r.verdict = "result"
              /\ call.calm /\ now <= call.at + TTL
              /\ Cardinality(CallCrowd) < CacheSize
              => runsOf[call.xid] = 1
  <2> SUFFICES ASSUME Base, OneRunInv, NEW r \in answers, Awaited(r), r.verdict = "result",
                      call.calm, now <= call.at + TTL, Cardinality(CallCrowd) < CacheSize
               PROVE  runsOf[call.xid] = 1
    OBVIOUS
  <2>1. r.run \in Results(call.xid) /\ call # NoCall
    BY DEF Awaited, Results, AnsweredRuns
  <2>2. call.xid \in Xid /\ runsOf[call.xid] \in Nat
    BY <2>1 DEF Base, NetTypeOK, Call
  <2>3. runsOf[call.xid] > 0 /\ runsOf[call.xid] <= 1
    BY <2>1, <2>2 DEF OneRunInv
  <2> QED
    BY <2>2, <2>3
<1> QED
  BY <1>1, BaseInvariance, OneRunInvariance, PTL DEF ResultOfOneRun, NetSpec
===============================================================================
