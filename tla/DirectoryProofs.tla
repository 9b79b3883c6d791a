--------------------------- MODULE DirectoryProofs ---------------------------
(***************************************************************************)
(* Theorems about Directory, for any devices, names and threads.  What     *)
(* makes NameReachesLastHeard hold is that the alias of a name is always   *)
(* the last device heard under it (AliasIsLastHeard), so that what a       *)
(* thread looked up was so among the lines read up to then, and lines read *)
(* later do not change that (CallerKnows).                                 *)
(***************************************************************************)
EXTENDS Directory, TLAPS

\* The alias of a name is the device that was last heard under it.
AliasIsLastHeard ==
    \A n \in Name : aliases[n] # NoMac => LastHeard(aliases[n], n, Len(heard))

\* What a thread looked up before it asked for the lock.
CallerKnows ==
    \A t \in Thread :
        caller[t].at # "idle" /\ caller[t].id \in Name
            => LastHeard(caller[t].mac, caller[t].id, caller[t].since)

IInv == TypeOK /\ AliasIsLastHeard /\ CallerKnows

\* A line that is not about a name changes nothing for it.
LEMMA HeardStill ==
    ASSUME TypeOK, NEW line \in DeviceLine, heard' = Append(heard, line),
           NEW m, NEW n, LastHeard(m, n, Len(heard)),
           line.name # n
    PROVE  LastHeard(m, n, Len(heard))'
<1>1. Len(heard) \in Nat /\ Len(heard') = Len(heard) + 1
  BY DEF TypeOK
<1>2. \A k \in 1..Len(heard) : heard'[k] = heard[k]
  BY DEF TypeOK
<1>3. heard'[Len(heard) + 1] = line
  BY DEF TypeOK
<1>4. PICK j \in 1..Len(heard) :
        /\ heard[j].mac = m /\ heard[j].name = n
        /\ \A k \in (j + 1)..Len(heard) : heard[k].name # n
  BY DEF LastHeard
<1>5. ASSUME NEW k \in (j + 1)..Len(heard')
      PROVE  heard'[k].name # n
  <2>1. CASE k = Len(heard) + 1
    BY <2>1, <1>3
  <2>2. CASE k # Len(heard) + 1
    <3>1. k \in (j + 1)..Len(heard) /\ k \in 1..Len(heard)
      BY <2>2, <1>1, <1>4
    <3> QED BY <3>1, <1>2, <1>4
  <2> QED BY <2>1, <2>2
<1>6. j \in 1..Len(heard') /\ heard'[j] = heard[j]
  BY <1>1, <1>2, <1>4
<1> QED BY <1>4, <1>5, <1>6 DEF LastHeard

\* The line that is about a name is the last one heard under it.
LEMMA HeardNow ==
    ASSUME TypeOK, NEW line \in DeviceLine, heard' = Append(heard, line)
    PROVE  LastHeard(line.mac, line.name, Len(heard))'
<1>1. Len(heard) \in Nat /\ Len(heard') = Len(heard) + 1
  BY DEF TypeOK
<1>2. heard'[Len(heard')] = line
  BY <1>1 DEF TypeOK
<1>3. Len(heard') \in 1..Len(heard') /\ (Len(heard') + 1)..Len(heard') = {}
  BY <1>1
<1> QED BY <1>2, <1>3 DEF LastHeard
-----------------------------------------------------------------------------
(* The steps *)

LEMMA InitInv == Init => IInv
<1> SUFFICES ASSUME Init PROVE IInv
  OBVIOUS
<1>1. Len(heard) = 0
  BY DEF Init
<1>2. TypeOK
  BY <1>1 DEF Init, TypeOK, Callers, Idle
<1>3. AliasIsLastHeard
  BY DEF Init, AliasIsLastHeard
<1>4. CallerKnows
  BY DEF Init, CallerKnows, Idle
<1> QED BY <1>2, <1>3, <1>4 DEF IInv

\* What a thread begins with.
LEMMA BeginInv ==
    ASSUME IInv, NEW t \in Thread, NEW r \in Callers, r.at # "holding",
           caller' = [caller EXCEPT ![t] = r],
           r.at # "idle" /\ r.id \in Name => LastHeard(r.mac, r.id, r.since),
           UNCHANGED <<caches, heard>>
    PROVE  IInv'
<1>1. TypeOK'
  BY DEF IInv, TypeOK, caches, Callers
<1>2. AliasIsLastHeard'
  BY DEF IInv, AliasIsLastHeard, LastHeard, caches
<1>3. CallerKnows'
  BY DEF IInv, TypeOK, CallerKnows, LastHeard
<1> QED BY <1>1, <1>2, <1>3 DEF IInv

LEMMA IdleIsACaller == Idle \in Callers /\ Idle.at = "idle"
BY DEF Idle, Callers

\* When a line is read, what the threads know stays.
LEMMA ReadInv ==
    ASSUME IInv, NEW line \in DeviceLine, heard' = Append(heard, line), UNCHANGED caller
    PROVE  /\ CallerKnows'
           /\ caller' \in [Thread -> Callers']
           /\ heard' \in Seq(DeviceLine)
<1>1. Len(heard) \in Nat /\ Len(heard') = Len(heard) + 1
      /\ heard' \in Seq(DeviceLine)
  BY DEF IInv, TypeOK
<1>2. Callers \subseteq Callers'
  BY <1>1 DEF Callers
<1>3. caller' \in [Thread -> Callers']
  BY <1>2 DEF IInv, TypeOK
<1>4. ASSUME NEW t \in Thread, caller[t].at # "idle", caller[t].id \in Name
      PROVE  LastHeard(caller[t].mac, caller[t].id, caller[t].since)'
  <2> DEFINE m == caller[t].mac
             n == caller[t].id
             i == caller[t].since
  <2>1. i \in 0..Len(heard) /\ LastHeard(m, n, i)
    BY <1>4 DEF IInv, TypeOK, Callers, Idle, CallerKnows
  <2>2. \E j \in 1..i :
          /\ heard'[j].mac = m /\ heard'[j].name = n
          /\ \A k \in (j + 1)..i : heard'[k].name # n
    <3> HIDE DEF m, n, i
    <3>1. \A k \in 1..i : heard'[k] = heard[k]
      BY <2>1 DEF IInv, TypeOK
    <3> QED BY <2>1, <3>1 DEF LastHeard
  <2> QED BY <2>2 DEF LastHeard
<1>5. CallerKnows'
  BY <1>4 DEF CallerKnows
<1> QED BY <1>1, <1>3, <1>5

LEMMA RememberDeviceInv ==
    ASSUME IInv, NEW line \in DeviceLine, RememberDevice(line),
           UNCHANGED caller
    PROVE  IInv'
<1> DEFINE shown == [line EXCEPT !.name = NameAfter(line)]
<1>1. NameAfter(line) \in Name \cup {NoName} /\ line.mac \in Mac
  BY DEF NameAfter, DeviceLine, IInv, TypeOK
<1>2. shown \in DeviceLine /\ shown.mac = line.mac /\ shown.name = NameAfter(line)
  BY <1>1 DEF DeviceLine
<1>3. heard' = Append(heard, shown)
  BY DEF RememberDevice
<1> HIDE DEF shown
<1>4. /\ CallerKnows'
      /\ caller' \in [Thread -> Callers']
      /\ heard' \in Seq(DeviceLine)
  BY <1>2, <1>3, ReadInv
<1>5. devices' \in [Mac -> Name \cup {NoName}] /\ aliases' \in [Name -> Mac \cup {NoMac}]
  BY <1>1 DEF RememberDevice, AliasFor, IInv, TypeOK
<1>6. TypeOK'
  BY <1>4, <1>5 DEF TypeOK, IInv, RememberDevice
<1>7. ASSUME NEW n \in Name, aliases'[n] # NoMac
      PROVE  LastHeard(aliases[n], n, Len(heard))'
  <2>1. PICK m : m = aliases'[n]
    OBVIOUS
  <2>2. CASE n = NameAfter(line)
    <3>1. m = line.mac
      BY <1>1, <2>1, <2>2, IdsDiffer DEF RememberDevice, AliasFor, IInv, TypeOK
    <3>2. PICK l \in DeviceLine : l = shown
      BY <1>2
    <3>3. heard' = Append(heard, l) /\ l.mac = m /\ l.name = n
      BY <1>2, <1>3, <2>2, <3>1, <3>2
    <3>4. LastHeard(l.mac, l.name, Len(heard))'
      BY <3>3, HeardNow DEF IInv
    <3> QED BY <2>1, <3>3, <3>4 DEF LastHeard
  <2>3. CASE n # NameAfter(line)
    <3>1. aliases'[n] = aliases[n]
      BY <2>3, <1>1 DEF RememberDevice, AliasFor, IInv, TypeOK
    <3>2. LastHeard(m, n, Len(heard))
      BY <1>7, <2>1, <3>1 DEF IInv, AliasIsLastHeard
    <3>3. LastHeard(m, n, Len(heard))'
      BY <1>2, <1>3, <2>3, <3>2, HeardStill DEF IInv
    <3> QED BY <2>1, <3>3 DEF LastHeard
  <2> QED BY <2>2, <2>3
<1>8. AliasIsLastHeard'
  BY <1>7 DEF AliasIsLastHeard
<1> QED BY <1>4, <1>6, <1>8 DEF IInv

LEMMA StepInv == ASSUME IInv, NEW t \in Thread, Step(t) PROVE IInv'
<1>1. Len(heard) \in Nat /\ caller \in [Thread -> Callers]
  BY DEF IInv, TypeOK
<1>2. ASSUME NEW id \in Mac \cup Name, Begin(t, id)
      PROVE  IInv'
  <2> DEFINE r == Ready(id, Resolved(id))
  <2>1. Resolved(id) \in Mac \cup {NoMac}
    BY DEF Resolved, IInv, TypeOK
  <2>2. r \in Callers /\ r.at = "ready"
    BY <1>1, <2>1 DEF Ready, Callers
  <2>3. ASSUME id \in Name PROVE LastHeard(Resolved(id), id, Len(heard))
    BY <1>2, <2>3, IdsDiffer DEF Begin, Known, Resolved, IInv, AliasIsLastHeard
  <2>4. r.id = id /\ r.mac = Resolved(id) /\ r.since = Len(heard)
    BY DEF Ready
  <2>5. caller' = [caller EXCEPT ![t] = r] /\ UNCHANGED <<caches, heard>>
    BY <1>2 DEF Begin
  <2> HIDE DEF r
  <2>6. r.at # "idle" /\ r.id \in Name => LastHeard(r.mac, r.id, r.since)
    BY <2>3, <2>4
  <2> QED BY <2>2, <2>5, <2>6, BeginInv
<1>3. CASE BeginScan(t)
  <2> DEFINE r == Ready(NoName, NoMac)
  <2>1. r \in Callers /\ r.at = "ready" /\ r.id \notin Name
    BY <1>1, IdsDiffer DEF Ready, Callers
  <2>2. caller' = [caller EXCEPT ![t] = r] /\ UNCHANGED <<caches, heard>>
    BY <1>3 DEF BeginScan
  <2> HIDE DEF r
  <2> QED BY <2>1, <2>2, BeginInv
<1>4. CASE Leave(t)
  <2>1. caller' = [caller EXCEPT ![t] = Idle] /\ UNCHANGED <<caches, heard>>
    BY <1>4 DEF Leave
  <2>2. Idle \in Callers /\ Idle.at = "idle"
    BY IdleIsACaller
  <2> QED BY <2>1, <2>2, BeginInv
<1>5. CASE Write(t)
  <2>1. caller[t] \in Callers /\ caller[t].at = "ready"
    BY <1>1, <1>5 DEF Write
  <2>2. [caller[t] EXCEPT !.at = "holding"] \in Callers
    BY <2>1 DEF Callers, Idle
  <2>3. TypeOK'
    <3>1. caller' \in [Thread -> Callers]
      BY <1>1, <1>5, <2>2 DEF Write
    <3>2. \A u, v \in Thread :
            caller'[u].at = "holding" /\ caller'[v].at = "holding" => u = v
      BY <1>1, <1>5 DEF Write
    <3> QED BY <1>5, <3>1, <3>2 DEF Write, caches, IInv, TypeOK, Callers
  <2>4. CallerKnows'
    <3>1. ASSUME NEW u \in Thread, caller'[u].at # "idle"
          PROVE  /\ caller[u].at # "idle" /\ caller'[u].id = caller[u].id
                 /\ caller'[u].mac = caller[u].mac /\ caller'[u].since = caller[u].since
      BY <1>1, <1>5, <2>1, <3>1 DEF Write, Callers, Idle
    <3> QED BY <1>5, <3>1 DEF Write, IInv, CallerKnows, LastHeard
  <2>5. AliasIsLastHeard'
    BY <1>5 DEF Write, caches, IInv, AliasIsLastHeard, LastHeard
  <2> QED BY <2>3, <2>4, <2>5 DEF IInv
<1>6. ASSUME NEW line \in DeviceLine, ReadDevice(t, line) PROVE IInv'
  BY <1>6, RememberDeviceInv DEF ReadDevice
<1> QED BY <1>2, <1>3, <1>4, <1>5, <1>6 DEF Step

LEMMA StutterInv == IInv /\ UNCHANGED vars => IInv'
BY DEF IInv, vars, TypeOK, Callers, AliasIsLastHeard, CallerKnows, LastHeard

THEOREM Invariance == Spec => []IInv
<1>1. IInv /\ [Next]_vars => IInv'
  BY StepInv, StutterInv DEF Next
<1> QED BY InitInv, <1>1, PTL DEF Spec

\* Every variable keeps its type, and one thread at most uses the serial line.
THEOREM TypeCorrect == Spec => []TypeOK
<1>1. IInv => TypeOK
  BY DEF IInv
<1> QED BY Invariance, <1>1, PTL

\* A command by name goes to the device that was last heard under the name when
\* the command was given.
THEOREM NameReachesLastHeardHolds == Spec => NameReachesLastHeard
<1>1. IInv => \A t \in Thread : Write(t) /\ caller[t].id \in Name
                  => LastHeard(caller[t].mac, caller[t].id, caller[t].since)
  BY DEF IInv, CallerKnows, Write
<1>2. IInv /\ [Next]_vars
        => [\A t \in Thread : Write(t) /\ caller[t].id \in Name
               => LastHeard(caller[t].mac, caller[t].id, caller[t].since)]_vars
  BY <1>1
<1> QED BY Invariance, <1>2, PTL DEF Spec, NameReachesLastHeard
===============================================================================
