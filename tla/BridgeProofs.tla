----------------------------- MODULE BridgeProofs -----------------------------
(***************************************************************************)
(* Theorems about Bridge, for every number of commands and of devices, and *)
(* every reading of a free text.                                           *)
(***************************************************************************)
EXTENDS Bridge, SequenceTheorems, TLAPS

\* The inductive invariant.  A command whose text was read as the line that was
\* meant has one line on its way to its caller: in down, at the main task or,
\* as its verdict, in up.  What is on its way is owed to the caller that waits,
\* or is of a command whose verdict may come to nobody; and the transaction id
\* of a line that answers a command belongs to that command.

IsSettling(line) == line.kind \in {"ok", "errorCmd"}

Sending == main.at \in {"sent", "failed"}
Working == main.at \in {"sent", "failed", "window"}

\* What differs from a line as it was meant is of a command that was misread.
Meant ==
    /\ \A i \in 1..Len(down) :
          down[i].n \notin misread => down[i].what \in Cmd /\ ~down[i].cut
    /\ Working /\ main.cut => main.n \in misread
    /\ \A i \in 1..Len(up) :
          /\ up[i].kind = "errorReason" => up[i].n \in misread
          /\ up[i].open = "fields" => up[i].n \in misread /\ up[i].kind \in {"ok", "errorReason", "help"}

\* Every other command has at most one line on its way.
Unique ==
    /\ \A i, j \in 1..Len(down) : i # j /\ down[i].n = down[j].n => down[i].n \in misread
    /\ \A i \in 1..Len(down) : Sending /\ down[i].n = main.n => main.n \in misread
    /\ \A i \in 1..Len(down), j \in 1..Len(up) :
          IsSettling(up[j]) /\ down[i].n = up[j].n => up[j].n \in misread
    /\ \A j \in 1..Len(up) : IsSettling(up[j]) /\ Sending /\ up[j].n = main.n => main.n \in misread
    /\ \A i, j \in 1..Len(up) :
          i # j /\ IsSettling(up[i]) /\ IsSettling(up[j]) /\ up[i].n = up[j].n => up[i].n \in misread

\* Commands with a verdict that may come when their caller does not wait for it.
Loose == gaveUp \cup misread

Owed == IF client.at = "ok" THEN Loose \cup {client.n} ELSE Loose

Debts ==
    /\ \A i \in 1..Len(down) : down[i].n \in Owed
    /\ Sending => main.n \in Owed
    /\ \A i \in 1..Len(up) : IsSettling(up[i]) => up[i].n \in Owed

\* Transaction ids with the command they were drawn for: of requests, of the
\* main task, and of lines that answer a request.
Answering == {"errorEvent", "device", "tools", "result", "pong", "scanDone"}

Tags == {<<a.xid, a.n>> : a \in asked}
        \cup {<<m.xid, m.n>> : m \in {k \in {main} : Working}}
        \cup {<<up[i].xid, up[i].n>> : i \in {j \in 1..Len(up) : up[j].kind \in Answering}}

\* Where the answers with id xid may come from, for one who takes it for that
\* of command n.
Leads(xid, n, loose) ==
    \A t \in Tags : /\ t[1] = xid => t[2] \in {n} \cup loose \cup swallowed
                    /\ t[2] = n /\ n \notin loose => t[1] = xid

Ids ==
    /\ \A s, t \in Tags : /\ s[1] = t[1] => s[2] = t[2]
                          /\ s[2] = t[2] /\ s[2] \notin misread => s[1] = t[1]
    /\ \A i \in 1..Len(down), t \in Tags : t[2] = down[i].n => t[2] \in misread
    /\ \A i \in 1..Len(up) : up[i].kind = "ok" => Leads(up[i].xid, up[i].n, misread)
    /\ client.at = "event" => Leads(client.xid, client.n, Loose)

\* What there is of the command of the caller is of its kind, or was misread.
OwnKind ==
    client # Idle /\ client.n \notin misread =>
        /\ \A i \in 1..Len(down) : down[i].n = client.n => down[i].what = client.cmd
        /\ Sending /\ main.n = client.n => main.cmd = client.cmd
        /\ \A a \in asked : a.n = client.n => a.cmd = client.cmd
        /\ \A i \in 1..Len(up) :
              up[i].n = client.n =>
                  /\ IsSettling(up[i]) => up[i].cmd = client.cmd
                  /\ up[i].kind \in {"tools", "result", "pong"} =>
                        up[i].kind = EventKind(client.cmd)

IInv == TypeOK /\ Meant /\ Unique /\ Debts /\ Ids /\ OwnKind /\ VerdictIsOnItsWay
-----------------------------------------------------------------------------
(* Lines *)

\* What was printed keeps its kind, command and number, and its transaction id
\* unless it is cut in its fields.
Kept(new, old) == /\ new.kind = old.kind /\ new.cmd = old.cmd /\ new.n = old.n
                  /\ old.open # "fields" => new.xid = old.xid

LEMMA JoinedFacts ==
    ASSUME NEW first \in Lines, NEW line \in Lines, first.open # "no"
    PROVE  /\ Joined(first, line) \in Lines
           /\ Kept(Joined(first, line), first)
           /\ Joined(first, line).xid \in {first.xid, line.xid}
           /\ Joined(first, line).xid # first.xid => line.xid # 0
           /\ Joined(first, line).open = "fields" => first.open = "fields"
BY DEF Joined, Lines, Kept

LEMMA LineFacts ==
    ASSUME NEW kind \in {"ok", "errorCmd", "errorReason", "errorEvent", "device", "tools",
                         "result", "pong", "scanDone", "help"},
           NEW cmd \in Cmd \cup {""}, NEW xid \in 0..sentXids, NEW n \in 1..issued,
           NEW open \in {"no", "fields", "json"}
    PROVE  Line(kind, cmd, xid, n, open) \in Lines
BY DEF Line, Lines

\* A line that is printed becomes the last one, or part of the last one.
LEMMA SaysFacts ==
    ASSUME up \in Seq(Lines), NEW line \in Lines, Says(line)
    PROVE  /\ up' \in Seq(Lines)
           /\ \A i \in 1..Len(up) :
                 /\ Kept(up'[i], up[i])
                 /\ up'[i].xid = up[i].xid \/ (up'[i].xid = line.xid /\ line.xid # 0 /\ line.n \in swallowed')
                 /\ up'[i].open = "fields" => up[i].open = "fields"
           /\ swallowed \subseteq swallowed'
           /\ swallowed' \subseteq swallowed \cup {line.n}
           /\ \/ Len(up') = Len(up) /\ line.n \in swallowed'
              \/ Len(up') = Len(up) + 1 /\ up'[Len(up) + 1] = line
<1>0. Len(up) \in Nat /\ \A i \in 1..Len(up) : up[i] \in Lines
  BY ElementOfSeq, LenProperties
<1>1. CASE up # <<>> /\ up[Len(up)].open # "no"
  <2>1. Len(up) \in 1..Len(up)
    BY <1>0, <1>1, EmptySeq
  <2>2. /\ up' = [up EXCEPT ![Len(up)] = Joined(@, line)]
        /\ swallowed' = swallowed \cup {line.n}
    BY <1>1 DEF Says
  <2> DEFINE first == up[Len(up)]
             joined == Joined(first, line)
  <2>3. /\ joined \in Lines /\ Kept(joined, first) /\ joined.xid \in {first.xid, line.xid}
        /\ joined.xid # first.xid => line.xid # 0
        /\ joined.open = "fields" => first.open = "fields"
    BY <1>0, <1>1, <2>1, JoinedFacts
  <2>4. /\ up' \in Seq(Lines) /\ Len(up') = Len(up)
        /\ \A i \in 1..Len(up) : up'[i] = IF i = Len(up) THEN joined ELSE up[i]
    BY <2>1, <2>2, <2>3, ExceptSeq
  <2>5. line.n \in swallowed'
    BY <2>2
  <2>6. ASSUME NEW i \in 1..Len(up)
        PROVE  /\ Kept(up'[i], up[i])
               /\ up'[i].xid = up[i].xid \/ (up'[i].xid = line.xid /\ line.xid # 0 /\ line.n \in swallowed')
               /\ up'[i].open = "fields" => up[i].open = "fields"
    <3>1. CASE i = Len(up)
      BY <2>3, <2>4, <2>5, <3>1
    <3>2. CASE i # Len(up)
      BY <2>4, <3>2 DEF Kept
    <3> QED
      BY <3>1, <3>2
  <2> QED
    BY <2>2, <2>4, <2>5, <2>6
<1>2. CASE ~(up # <<>> /\ up[Len(up)].open # "no")
  <2>1. up' = Append(up, line) /\ swallowed' = swallowed
    BY <1>2 DEF Says
  <2> QED
    BY <1>0, <2>1, AppendProperties DEF Kept
<1> QED
  BY <1>1, <1>2

LEMMA ReadFacts ==
    ASSUME up \in Seq(Lines), NEW line, ReadLine(line)
    PROVE  /\ up' \in Seq(Lines) /\ Len(up') = Len(up) - 1 /\ Len(up) \in Nat \ {0}
           /\ line = up[1] /\ line \in Lines
           /\ \A i \in 1..Len(up') : up'[i] = up[i + 1] /\ i + 1 \in 1..Len(up)
BY HeadTailProperties, ElementOfSeq, LenProperties, EmptySeq DEF ReadLine
-----------------------------------------------------------------------------
(* Types *)

USE BoundsAreNat

Entries == [what : What, cut : BOOLEAN, n : 1..issued]

\* What the main task does next has a type.
Tasks == {Reading} \cup [at : {"sent", "failed", "window"}, cmd : Cmd,
                         n : 1..issued, xid : {sentXids}, cut : BOOLEAN]

LEMMA NextDown ==
    ASSUME down \in Seq(Entries), NEW what, MainReads(what)
    PROVE  /\ Head(down) \in Entries /\ Head(down) = down[1] /\ Head(down).what \in what
           /\ Len(down) \in Nat \ {0} /\ 1 \in 1..Len(down) /\ main = Reading
           /\ down' \in Seq(Entries) /\ Len(down') = Len(down) - 1
           /\ \A i \in 1..Len(down') : /\ down'[i] = down[i + 1] /\ i + 1 \in 1..Len(down)
                                       /\ i + 1 # 1
           /\ \A i, j \in 1..Len(down') : i # j => i + 1 # j + 1
           /\ \A i \in 1..Len(down) : i = 1 \/ (i - 1 \in 1..Len(down') /\ down'[i - 1] = down[i])
<1>1. down # <<>> /\ down' = Tail(down) /\ Head(down).what \in what /\ main = Reading
  BY DEF MainReads
<1>2. Len(down) \in Nat \ {0} /\ Head(down) = down[1] /\ Head(down) \in Entries
  BY <1>1, EmptySeq, HeadTailProperties
<1>3. down' \in Seq(Entries) /\ Len(down') = Len(down) - 1
      /\ \A i \in 1..Len(down') : down'[i] = down[i + 1]
  BY <1>1, HeadTailProperties
<1> QED
  BY <1>1, <1>2, <1>3

LEMMA DownType == TypeOK => down \in Seq(Entries)
BY DEF TypeOK, Entries

LEMMA PlainFacts ==
    ASSUME NEW cmd
    PROVE  Len(Plain(cmd)) = 1 /\ Plain(cmd)[1].what = cmd /\ Plain(cmd)[1].cut = FALSE
<1> DEFINE e == [what |-> cmd, cut |-> FALSE]
<1>1. e.what = cmd /\ e.cut = FALSE
  OBVIOUS
<1>2. Plain(cmd) = <<e>>
  BY DEF Plain
<1> HIDE DEF e
<1> QED
  BY <1>1, <1>2

\* The text of a command, as lines.
LEMMA TextFacts ==
    ASSUME NEW cmd \in Cmd, NEW text \in Texts(cmd)
    PROVE  /\ Len(text) \in 1..MaxLines
           /\ \A i \in 1..Len(text) : text[i].what \in What /\ text[i].cut \in BOOLEAN
<1>1. CASE text = Plain(cmd)
  <2>1. Len(text) = 1 /\ text[1].what \in What /\ text[1].cut \in BOOLEAN
    BY <1>1, PlainFacts DEF What
  <2>2. \A i \in 1..Len(text) : i = 1
    BY <2>1
  <2> QED
    BY <2>1, <2>2
<1>2. CASE text # Plain(cmd)
  <2>1. PICK k \in 1..MaxLines : text \in [1..k -> StrayLine]
    BY <1>2 DEF Texts
  <2>2. text \in Seq(StrayLine) /\ k \in Nat
    BY <2>1, SeqDef
  <2>3. Len(text) = k
    BY <2>1, <2>2, LenProperties
  <2>4. \A x \in StrayLine : x.what \in What /\ x.cut \in BOOLEAN
    BY StrayAreLines DEF StrayLine, What
  <2> QED
    BY <2>1, <2>3, <2>4
<1> QED
  BY <1>1, <1>2

LEMMA IssuedLines ==
    ASSUME TypeOK, NEW cmd \in Issued, Issue(cmd)
    PROVE  /\ down' \in Seq(Entries') /\ issued' = issued + 1 /\ cmd \in Cmd
           /\ \E k \in 1..MaxLines : Len(down') = Len(down) + k
           /\ \A i \in 1..Len(down) : i \in 1..Len(down') /\ down'[i] = down[i]
           /\ \A i \in 1..Len(down') :
                 \/ i \in 1..Len(down) /\ down'[i] = down[i]
                 \/ /\ down'[i].n = issued + 1 /\ i \notin 1..Len(down)
                    /\ issued + 1 \notin misread' =>
                          /\ i = Len(down) + 1 /\ down'[i].what = cmd /\ ~down'[i].cut
           /\ \E i \in 1..Len(down') : down'[i].n = issued + 1
           /\ misread' \in {misread, misread \cup {issued + 1}}
           /\ client = Idle /\ client' = [at |-> "ok", cmd |-> cmd, n |-> issued + 1]
           /\ UNCHANGED <<host, up, gaveUp, swallowed>>
<1>0. issued \in Nat /\ cmd \in Cmd /\ misread \subseteq 1..issued
  BY IssuedAreCommands DEF TypeOK
<1>1. PICK text \in Texts(cmd) :
          /\ misread' = IF text = Plain(cmd) THEN misread ELSE misread \cup {issued + 1}
          /\ down' = down \o [i \in 1..Len(text) |->
                                [what |-> text[i].what, cut |-> text[i].cut, n |-> issued + 1]]
  BY DEF Issue
<1> DEFINE new == [i \in 1..Len(text) |->
                     [what |-> text[i].what, cut |-> text[i].cut, n |-> issued + 1]]
<1>2. issued' = issued + 1
  BY DEF Issue
<1>3. Len(text) \in 1..MaxLines
      /\ \A i \in 1..Len(text) : text[i].what \in What /\ text[i].cut \in BOOLEAN
  BY <1>0, <1>1, TextFacts
<1>4. /\ new \in Seq(Entries') /\ Len(new) = Len(text)
      /\ \A i \in 1..Len(text) : /\ new[i].n = issued + 1
                                 /\ new[i].what = text[i].what /\ new[i].cut = text[i].cut
  <2>1. \A i \in 1..Len(text) : new[i] \in Entries'
    BY <1>0, <1>2, <1>3 DEF Entries
  <2>2. new \in [1..Len(text) -> Entries']
    BY <2>1
  <2>3. new \in Seq(Entries')
    BY <1>3, <2>2, SeqDef
  <2>4. Len(new) \in Nat /\ DOMAIN new = 1..Len(new) /\ DOMAIN new = 1..Len(text)
    BY <2>3, LenProperties
  <2> QED
    BY <1>3, <2>3, <2>4
<1>5. down \in Seq(Entries')
  <2>1. 1..issued \subseteq 1..issued'
    BY <1>0, <1>2
  <2> QED
    BY <2>1, SeqMonotonic DEF TypeOK, Entries
<1>6. down' = down \o new
  BY <1>1
<1> HIDE DEF new
<1>7. /\ down' \in Seq(Entries') /\ Len(down') = Len(down) + Len(text) /\ Len(down) \in Nat
      /\ \A i \in 1..Len(down') : down'[i] = IF i <= Len(down) THEN down[i] ELSE new[i - Len(down)]
  <2>1. /\ Len(down) \in Nat /\ Len(new) = Len(text) /\ new \in Seq(Entries')
    BY <1>4, <1>5, LenProperties
  <2>2. /\ Len(down \o new) = Len(down) + Len(new) /\ down \o new \in Seq(Entries')
        /\ \A i \in 1..Len(down) + Len(new) :
              (down \o new)[i] = IF i <= Len(down) THEN down[i] ELSE new[i - Len(down)]
    BY <1>5, <2>1, ConcatProperties
  <2> QED
    BY <1>6, <2>1, <2>2
<1>8. ASSUME NEW i \in 1..Len(down'), i \notin 1..Len(down)
      PROVE  /\ i - Len(down) \in 1..Len(text)
             /\ down'[i].n = issued + 1
             /\ issued + 1 \notin misread' =>
                   i = Len(down) + 1 /\ down'[i].what = cmd /\ ~down'[i].cut
  <2>1. i - Len(down) \in 1..Len(text) /\ down'[i] = new[i - Len(down)]
    BY <1>3, <1>7, <1>8
  <2>2. ASSUME issued + 1 \notin misread'
        PROVE  i = Len(down) + 1 /\ down'[i].what = cmd /\ ~down'[i].cut
    <3>1. text = Plain(cmd)
      BY <1>1, <2>2
    <3>2. Len(text) = 1 /\ text[1].what = cmd /\ text[1].cut = FALSE
      BY <3>1, PlainFacts
    <3>3. i - Len(down) = 1
      BY <2>1, <3>2
    <3> QED
      BY <1>4, <1>7, <2>1, <3>2, <3>3
  <2> QED
    BY <1>4, <2>1, <2>2
<1>9. \E i \in 1..Len(down') : down'[i].n = issued + 1
  <2>1. Len(down) + 1 \in 1..Len(down') /\ Len(down) + 1 \notin 1..Len(down)
    BY <1>3, <1>7
  <2> QED
    BY <1>8, <2>1
<1>10. /\ client = Idle /\ client' = [at |-> "ok", cmd |-> cmd, n |-> issued + 1]
       /\ UNCHANGED <<host, up, gaveUp, swallowed>>
  BY DEF Issue
<1>11. \A i \in 1..Len(down) : i \in 1..Len(down') /\ down'[i] = down[i]
  BY <1>3, <1>7
<1>12. misread' \in {misread, misread \cup {issued + 1}}
  BY <1>1
<1> QED
  BY <1>0, <1>2, <1>3, <1>7, <1>8, <1>9, <1>10, <1>11, <1>12

LEMMA ClientFacts ==
    ASSUME TypeOK
    PROVE  /\ client \in {Idle} \cup [at : {"ok"}, cmd : Cmd, n : {issued} \ {0}]
                       \cup [at : {"event"}, cmd : Cmd, n : {issued} \ {0}, xid : 0..sentXids]
           /\ client.at \in {"ok", "event"} <=> client # Idle
           /\ client # Idle => client.n = issued /\ client.n \in 1..issued /\ client.cmd \in Cmd
           /\ client.at = "event" => client.xid \in 0..sentXids
<1>1. issued \in Nat
  BY DEF TypeOK
<1> QED
  BY <1>1 DEF TypeOK, Idle

LEMMA MainFacts ==
    ASSUME TypeOK
    PROVE  /\ main \in Tasks
           /\ Working => main \in [at : {"sent", "failed", "window"}, cmd : Cmd,
                                   n : 1..issued, xid : {sentXids}, cut : BOOLEAN]
           /\ ~Working => main = Reading
BY DEF TypeOK, Tasks, Reading, Working

LEMMA UpTypes ==
    ASSUME TypeOK
    PROVE  /\ issued \in Nat /\ sentXids \in Nat /\ Len(up) \in Nat /\ Len(down) \in Nat
           /\ \A i \in 1..Len(up) : up[i] \in Lines /\ up[i].n \in 1..issued /\ up[i].xid \in 0..sentXids
           /\ \A i \in 1..Len(down) : down[i] \in Entries /\ down[i].n \in 1..issued
           /\ Working => main.n \in 1..issued /\ main.xid = sentXids
           /\ \A a \in asked : a.n \in 1..issued /\ a.xid \in 0..sentXids /\ a.cmd \in Cmd
           /\ \A l \in Lines : l.n \in 1..issued /\ l.xid \in 0..sentXids
<1>1. issued \in Nat /\ sentXids \in Nat /\ up \in Seq(Lines) /\ down \in Seq(Entries)
  BY DEF TypeOK, Entries
<1>2. /\ Len(up) \in Nat /\ Len(down) \in Nat /\ \A i \in 1..Len(up) : up[i] \in Lines
      /\ \A i \in 1..Len(down) : down[i] \in Entries
  BY <1>1, LenProperties, ElementOfSeq
<1>3. \A line \in Lines : line.n \in 1..issued /\ line.xid \in 0..sentXids
  BY DEF Lines
<1>4. \A e \in Entries : e.n \in 1..issued
  BY DEF Entries
<1>5. Working => main.n \in 1..issued /\ main.xid = sentXids
  BY MainFacts
<1>6. \A a \in asked : a.n \in 1..issued /\ a.xid \in 0..sentXids /\ a.cmd \in Cmd
  BY <1>1 DEF TypeOK
<1> QED
  BY <1>1, <1>2, <1>3, <1>4, <1>5, <1>6

LEMMA InitType == Init => TypeOK
BY EmptySeq DEF Init, TypeOK, Idle, Reading

LEMMA LinesGrow ==
    ASSUME TypeOK, issued' \in Nat, sentXids' \in Nat, issued <= issued', sentXids <= sentXids',
           UNCHANGED up
    PROVE  up' \in Seq(Lines')
<1>1. 0..sentXids \subseteq 0..sentXids' /\ 1..issued \subseteq 1..issued'
  BY DEF TypeOK
<1>2. Lines \subseteq Lines'
  BY <1>1 DEF Lines
<1> QED
  BY <1>2, SeqMonotonic DEF TypeOK

\* A text has at most MaxLines lines, and each draws at most one id.
LEMMA LinesLeft ==
    ASSUME TypeOK, issued' \in Nat, sentXids' \in Nat, Len(down') \in Nat,
           \/ issued' = issued /\ sentXids' + Len(down') <= sentXids + Len(down)
           \/ /\ issued' = issued + 1 /\ sentXids' = sentXids
              /\ \E k \in 1..MaxLines : Len(down') = Len(down) + k
    PROVE  sentXids' + Len(down') <= issued' * MaxLines
<1>1. /\ sentXids \in Nat /\ Len(down) \in Nat /\ issued \in Nat /\ MaxLines \in Nat
      /\ sentXids + Len(down) <= issued * MaxLines /\ issued * MaxLines \in Nat
  BY UpTypes DEF TypeOK
<1>2. (issued + 1) * MaxLines = issued * MaxLines + MaxLines
  BY <1>1
<1> DEFINE room == issued * MaxLines
           more == (issued + 1) * MaxLines
<1>3. CASE issued' = issued /\ sentXids' + Len(down') <= sentXids + Len(down)
  <2>1. sentXids' + Len(down') <= room
    <3> HIDE DEF room
    <3>1. room \in Nat /\ sentXids + Len(down) <= room
      BY <1>1 DEF room
    <3> QED
      BY <1>1, <1>3, <3>1
  <2> QED
    BY <1>3, <2>1
<1>4. ASSUME issued' = issued + 1, sentXids' = sentXids,
             NEW k \in 1..MaxLines, Len(down') = Len(down) + k
      PROVE  sentXids' + Len(down') <= issued' * MaxLines
  <2>1. sentXids' + Len(down') <= more
    <3> HIDE DEF room, more
    <3>1. room \in Nat /\ sentXids + Len(down) <= room /\ more = room + MaxLines
      BY <1>1, <1>2 DEF room, more
    <3> QED
      BY <1>1, <1>4, <3>1
  <2> QED
    BY <1>4, <2>1
<1> QED
  BY <1>3, <1>4

LEMMA MainSendType == TypeOK /\ MainSend => TypeOK'
<1> SUFFICES ASSUME TypeOK, MainSend PROVE TypeOK'
  OBVIOUS
<1>1. MainReads(Cmd)
  BY DEF MainSend
<1>2. PICK ok \in BOOLEAN, d \in Device :
          /\ main' = [at |-> IF ok THEN "sent" ELSE "failed", cmd |-> Head(down).what,
                      n |-> Head(down).n, xid |-> sentXids + 1, cut |-> Head(down).cut]
          /\ asked' = asked \cup
               {[cmd |-> Head(down).what, n |-> Head(down).n, xid |-> sentXids + 1, from |-> e] :
                  e \in IF ~ok THEN {} ELSE IF Head(down).what = "scan" THEN Device ELSE {d}}
  BY DEF MainSend
<1>3. /\ sentXids' = sentXids + 1 /\ sentXids \in Nat /\ issued \in Nat
      /\ UNCHANGED <<client, issued, up, gaveUp, misread, swallowed, odd>>
  BY DEF MainSend, TypeOK
<1>4. /\ Head(down).n \in 1..issued' /\ Head(down).what \in Cmd /\ Head(down).cut \in BOOLEAN
      /\ sentXids' \in 1..sentXids' /\ 0..sentXids \subseteq 0..sentXids'
      /\ 1..sentXids \subseteq 1..sentXids'
      /\ down' \in Seq(Entries') /\ Len(down') = Len(down) - 1 /\ Len(down) \in Nat \ {0}
  BY <1>1, <1>3, NextDown, DownType DEF Entries
<1>5. sentXids' + Len(down') <= issued' * MaxLines
  <2>1. issued' \in Nat /\ sentXids' \in Nat /\ Len(down') \in Nat
    BY <1>3, <1>4
  <2>2. issued' = issued /\ sentXids' + Len(down') <= sentXids + Len(down)
    BY <1>3, <1>4
  <2> QED
    BY <2>1, <2>2, LinesLeft
<1>6. up' \in Seq(Lines')
  BY <1>3, LinesGrow
<1>7. client' \in {Idle} \cup [at : {"ok"}, cmd : Cmd, n : {issued'} \ {0}]
                         \cup [at : {"event"}, cmd : Cmd, n : {issued'} \ {0}, xid : 0..sentXids']
  BY <1>3, <1>4 DEF TypeOK
<1>8. asked' \subseteq [cmd : Cmd, n : 1..issued', xid : 1..sentXids', from : Device]
  <2>1. asked \subseteq [cmd : Cmd, n : 1..issued', xid : 1..sentXids', from : Device]
    BY <1>3, <1>4 DEF TypeOK
  <2>2. ASSUME NEW e \in Device
        PROVE  [cmd |-> Head(down).what, n |-> Head(down).n, xid |-> sentXids + 1, from |-> e]
                  \in [cmd : Cmd, n : 1..issued', xid : 1..sentXids', from : Device]
    BY <1>3, <1>4
  <2> QED
    BY <1>2, <2>1, <2>2
<1>9. main' \in [at : {"sent", "failed", "window"}, cmd : Cmd, n : 1..issued',
                 xid : {sentXids'}, cut : BOOLEAN]
  BY <1>2, <1>3, <1>4
<1> QED
  BY <1>3, <1>4, <1>5, <1>6, <1>7, <1>8, <1>9 DEF TypeOK, Entries
-----------------------------------------------------------------------------
(* What a step does to the lines *)

\* The verdict of the main task, whose delay may follow,
PrintsVerdict(l) ==
    /\ IsSettling(l) /\ Sending /\ l.n = main.n /\ l.cmd = main.cmd
    /\ l.xid = IF l.kind = "ok" THEN main.xid ELSE 0
    /\ \/ main' = Reading
       \/ main'.at = "window" /\ main'.n = main.n /\ main'.xid = main.xid /\ main'.cut = main.cut
    /\ UNCHANGED <<down, asked>>

\* the end of a scan,
PrintsEnd(l) ==
    /\ l.kind = "scanDone" /\ main.at = "window" /\ l.n = main.n /\ l.xid = main.xid
    /\ main' = Reading /\ UNCHANGED <<down, asked>>

\* a report of the line that was read,
PrintsReport(l) ==
    /\ l.kind \in {"errorReason", "help"} /\ l.xid = 0 /\ l.n = Head(down).n /\ l.n \in misread
    /\ MainReads({"bad", "long", "help"}) /\ UNCHANGED <<main, asked>>

\* or an event.
PrintsEvent(l) ==
    /\ \E a \in asked : /\ l.kind \in {"errorEvent", EventKind(a.cmd)}
                        /\ l.n = a.n /\ l.xid = a.xid
    /\ l.kind \in {"errorEvent", "device", "tools", "result", "pong"}
    /\ asked' \subseteq asked /\ UNCHANGED <<main, down>>

Printed(l) ==
    /\ l \in Lines /\ Says(l) /\ main' \in Tasks /\ odd' \in 0..MaxOdd
    /\ l.open = "fields" => l.n \in misread /\ l.kind \in {"ok", "errorReason", "help"}
    /\ PrintsVerdict(l) \/ PrintsEnd(l) \/ PrintsReport(l) \/ PrintsEvent(l)
    /\ UNCHANGED <<client, issued, sentXids, gaveUp, misread>>

Printing == MainPrintsOk \/ MainPrintsError \/ MainEndsScan \/ MainReports \/ RxPrintsEvent

\* The line that is read is one of a misread text when it is no command.
LEMMA HeadIsMeant ==
    ASSUME TypeOK, Meant, NEW what, MainReads(what)
    PROVE  /\ Head(down).n \in 1..issued
           /\ what \cap Cmd = {} => Head(down).n \in misread
           /\ Head(down).cut => Head(down).n \in misread
<1>1. Head(down) = down[1] /\ 1 \in 1..Len(down) /\ Head(down).what \in what /\ Head(down) \in Entries
  BY NextDown, DownType
<1> QED
  BY <1>1 DEF Meant, Entries

LEMMA StepPrints ==
    ASSUME TypeOK, Meant, Printing
    PROVE  \E l \in Lines : Printed(l)
<1>0. /\ issued \in Nat /\ sentXids \in Nat /\ 0 \in 0..sentXids /\ sentXids \in 0..sentXids
      /\ odd \in 0..MaxOdd /\ main \in Tasks /\ Reading \in Tasks
  BY MainFacts DEF TypeOK, Tasks
<1>1. CASE MainPrintsOk
  <2> DEFINE l == OkLine
  <2>1. /\ main.at = "sent" /\ Says(l)
        /\ main' = IF main.cmd = "scan" THEN [main EXCEPT !.at = "window"] ELSE Reading
        /\ UNCHANGED <<client, issued, down, sentXids, asked, gaveUp, misread, odd>>
    BY <1>1 DEF MainPrintsOk
  <2>2. main \in [at : {"sent", "failed", "window"}, cmd : Cmd, n : 1..issued,
                  xid : {sentXids}, cut : BOOLEAN]
    BY <2>1, MainFacts DEF Working
  <2>3. main.xid \in 0..sentXids /\ main.n \in 1..issued /\ main.cmd \in Cmd
        /\ CutFields(main.cut) \in {"no", "fields", "json"}
    BY <1>0, <2>2 DEF CutFields
  <2>4. /\ l \in Lines /\ l.kind = "ok" /\ l.n = main.n /\ l.cmd = main.cmd /\ l.xid = main.xid
        /\ l.open = CutFields(main.cut)
    BY <2>3, LineFacts DEF OkLine, Line
  <2>5. /\ main' \in Tasks
        /\ main' = Reading \/ ( /\ main'.at = "window" /\ main'.n = main.n
                                /\ main'.xid = main.xid /\ main'.cut = main.cut)
    <3>1. /\ [main EXCEPT !.at = "window"] \in Tasks
          /\ [main EXCEPT !.at = "window"].at = "window" /\ [main EXCEPT !.at = "window"].n = main.n
          /\ [main EXCEPT !.at = "window"].xid = main.xid /\ [main EXCEPT !.at = "window"].cut = main.cut
      BY <2>2 DEF Tasks
    <3> QED
      BY <1>0, <2>1, <3>1
  <2>6. l.open = "fields" => l.n \in misread
    BY <2>1, <2>4 DEF CutFields, Meant, Working
  <2>7. PrintsVerdict(l)
    BY <2>1, <2>4, <2>5 DEF PrintsVerdict, IsSettling, Sending
  <2> QED
    BY <1>0, <2>1, <2>4, <2>5, <2>6, <2>7 DEF Printed
<1>2. CASE MainPrintsError
  <2> DEFINE l == ErrorLine
  <2>1. main.at = "failed" /\ Says(l) /\ main' = Reading
        /\ UNCHANGED <<client, issued, down, sentXids, asked, gaveUp, misread, odd>>
    BY <1>2 DEF MainPrintsError
  <2>2. main.n \in 1..issued /\ main.cmd \in Cmd
    BY <2>1, MainFacts DEF Working
  <2>3. l \in Lines /\ l.kind = "errorCmd" /\ l.xid = 0 /\ l.n = main.n /\ l.cmd = main.cmd
        /\ l.open = "no"
    BY <1>0, <2>2, LineFacts DEF ErrorLine, Line
  <2>4. PrintsVerdict(l)
    BY <2>1, <2>3 DEF PrintsVerdict, IsSettling, Sending
  <2> QED
    BY <1>0, <2>1, <2>3, <2>4 DEF Printed
<1>3. CASE MainEndsScan
  <2> DEFINE l == Line("scanDone", "scan", main.xid, main.n, "no")
  <2>1. main.at = "window" /\ Says(l) /\ main' = Reading
        /\ UNCHANGED <<client, issued, down, sentXids, asked, gaveUp, misread, odd>>
    BY <1>3 DEF MainEndsScan
  <2>2. main.xid \in 0..sentXids /\ main.n \in 1..issued /\ "scan" \in Cmd
    BY <1>0, <2>1, MainFacts DEF Working, Cmd
  <2>3. l \in Lines /\ l.kind = "scanDone" /\ l.n = main.n /\ l.xid = main.xid /\ l.open = "no"
    BY <2>2, LineFacts DEF Line
  <2>4. PrintsEnd(l)
    BY <2>1, <2>3 DEF PrintsEnd
  <2> QED
    BY <1>0, <2>1, <2>3, <2>4 DEF Printed
<1>4. CASE MainReports
  <2> DEFINE kind == IF Head(down).what = "help" THEN "help" ELSE "errorReason"
             l == Line(kind, "", 0, Head(down).n, CutFields(Head(down).cut))
  <2>1. /\ MainReads({"bad", "long", "help"}) /\ Says(l)
        /\ UNCHANGED <<client, issued, main, sentXids, asked, gaveUp, misread, odd>>
    BY <1>4 DEF MainReports, host
  <2>2. Head(down).n \in 1..issued /\ Head(down).n \in misread
    <3>1. {"bad", "long", "help"} \cap Cmd = {}
      BY DEF Cmd
    <3> QED
      BY <2>1, <3>1, HeadIsMeant
  <2>3. kind \in {"errorReason", "help"} /\ CutFields(Head(down).cut) \in {"no", "fields", "json"}
    BY DEF CutFields
  <2>4. l \in Lines /\ l.kind \in {"errorReason", "help"} /\ l.xid = 0 /\ l.n = Head(down).n
    BY <1>0, <2>2, <2>3, LineFacts DEF Line
  <2>5. PrintsReport(l)
    BY <2>1, <2>2, <2>4 DEF PrintsReport
  <2> QED
    BY <1>0, <2>1, <2>2, <2>4, <2>5 DEF Printed
<1>5. CASE RxPrintsEvent
  <2>1. PICK a \in asked, kind \in {"answer", "errorEvent"}, cut \in BOOLEAN, again \in BOOLEAN :
            /\ Odd(cut \/ again)
            /\ Says(Line(IF kind = "answer" THEN EventKind(a.cmd) ELSE kind,
                         "", a.xid, a.n, IF cut THEN "json" ELSE "no"))
            /\ asked' = IF again THEN asked ELSE asked \ {a}
    BY <1>5 DEF RxPrintsEvent
  <2> DEFINE k == IF kind = "answer" THEN EventKind(a.cmd) ELSE kind
             open == IF cut THEN "json" ELSE "no"
             l == Line(k, "", a.xid, a.n, open)
  <2>2. a.xid \in 0..sentXids /\ a.n \in 1..issued /\ a.cmd \in Cmd
    BY UpTypes
  <2>3. /\ k \in {"errorEvent", "device", "tools", "result", "pong"} /\ k \in {"errorEvent", EventKind(a.cmd)}
        /\ open \in {"no", "json"}
    BY <2>2 DEF EventKind, Cmd
  <2>4. l \in Lines /\ l.kind = k /\ l.n = a.n /\ l.xid = a.xid /\ l.open = open
    BY <2>2, <2>3, LineFacts DEF Line
  <2>5. UNCHANGED <<client, issued, down, main, sentXids, gaveUp, misread>> /\ asked' \subseteq asked
    BY <1>5, <2>1 DEF RxPrintsEvent
  <2>6. odd' \in 0..MaxOdd
    <3>1. odd' = odd \/ (odd < MaxOdd /\ odd' = odd + 1)
      BY <2>1 DEF Odd
    <3> QED
      BY <1>0, <3>1
  <2>7. PrintsEvent(l)
    BY <2>3, <2>4, <2>5 DEF PrintsEvent
  <2> QED
    BY <1>0, <2>1, <2>3, <2>4, <2>5, <2>6, <2>7 DEF Printed
<1> QED
  BY <1>1, <1>2, <1>3, <1>4, <1>5 DEF Printing

LEMMA NewLines ==
    ASSUME TypeOK, NEW l, Printed(l)
    PROVE  /\ Len(up') \in Nat
           /\ \A i \in 1..Len(up') : \/ i \in 1..Len(up) /\ Kept(up'[i], up[i])
                                     \/ i = Len(up) + 1 /\ i \notin 1..Len(up) /\ up'[i] = l
           /\ \A i \in 1..Len(up) :
                 /\ i \in 1..Len(up') /\ Kept(up'[i], up[i])
                 /\ up'[i].xid = up[i].xid \/ (up'[i].xid = l.xid /\ l.xid # 0 /\ l.n \in swallowed')
                 /\ up'[i].open = "fields" => up[i].open = "fields"
           /\ swallowed \subseteq swallowed'
           /\ l.n \in swallowed' \/ (Len(up) + 1 \in 1..Len(up') /\ up'[Len(up) + 1] = l)
<1>1. l \in Lines /\ Says(l) /\ up \in Seq(Lines) /\ Len(up) \in Nat
  BY UpTypes DEF Printed, TypeOK
<1> QED
  BY <1>1, SaysFacts

\* The lines on their way to the host are left alone, or the first is read.
LEMMA DownAfterPrint ==
    ASSUME TypeOK, NEW l, Printed(l)
    PROVE  /\ down' = down \/ (PrintsReport(l) /\ MainReads({"bad", "long", "help"}))
           /\ \A i \in 1..Len(down') : \E j \in 1..Len(down) : down'[i] = down[j]
<1>1. down' = down \/ (PrintsReport(l) /\ MainReads({"bad", "long", "help"}))
  BY DEF Printed, PrintsVerdict, PrintsEnd, PrintsReport, PrintsEvent
<1> QED
  BY <1>1, NextDown, DownType

\* A line is read: the one that was first.
Took(l) ==
    /\ UNCHANGED <<issued, down, host, misread, swallowed>>
    /\ Len(up') \in Nat /\ 1 \in 1..Len(up) /\ l = up[1] /\ l \in Lines
    /\ \A i \in 1..Len(up') : up'[i] = up[i + 1] /\ i + 1 \in 1..Len(up) /\ i + 1 # 1
    /\ \A i, j \in 1..Len(up') : i # j => i + 1 # j + 1
    /\ \A i \in 1..Len(up) : i = 1 \/ (i - 1 \in 1..Len(up') /\ up'[i - 1] = up[i])

LEMMA StepReads ==
    ASSUME TypeOK, up # <<>>, Read(Head(up))
    PROVE  Took(Head(up))
<1>1. UNCHANGED <<issued, down, host, misread, swallowed>> /\ ReadLine(Head(up))
  BY DEF Read, ReadOk, ReadError, ReadEvent, SkipLine
<1>2. up \in Seq(Lines)
  BY DEF TypeOK
<1> QED
  BY <1>1, <1>2, ReadFacts DEF Took

LEMMA StepCases ==
    ASSUME TypeOK, Meant, [Next]_vars
    PROVE  \/ MainSend
           \/ MainSkips
           \/ \E l \in Lines : Printed(l)
           \/ \E cmd \in Issued : Issue(cmd)
           \/ up # <<>> /\ Read(Head(up)) /\ Took(Head(up))
           \/ Timeout
           \/ UNCHANGED vars
BY StepPrints, StepReads DEF Next, Main, Printing

LEMMA StepType == TypeOK /\ Meant /\ [Next]_vars => TypeOK'
<1> SUFFICES ASSUME TypeOK, Meant, [Next]_vars PROVE TypeOK'
  OBVIOUS
<1>0. issued \in Nat /\ sentXids \in Nat /\ main \in Tasks /\ Len(down) \in Nat
  BY UpTypes, MainFacts
<1>1. CASE MainSend
  BY <1>1, MainSendType
<1>2. CASE MainSkips
  <2>1. /\ MainReads({"blank"})
        /\ UNCHANGED <<client, issued, host, up, gaveUp, misread, swallowed, odd>>
    BY <1>2 DEF MainSkips
  <2>2. down' \in Seq(Entries) /\ Len(down') = Len(down) - 1 /\ Len(down') \in Nat
    BY <2>1, NextDown, DownType
  <2>3. sentXids' + Len(down') <= issued' * MaxLines
    BY <1>0, <2>1, <2>2, LinesLeft DEF host
  <2> QED
    BY <2>1, <2>2, <2>3 DEF TypeOK, Entries, Lines, host
<1>3. ASSUME NEW l \in Lines, Printed(l) PROVE TypeOK'
  <2>1. /\ up' \in Seq(Lines) /\ swallowed' \subseteq swallowed \cup {l.n} /\ l.n \in 1..issued
    BY <1>3, SaysFacts, UpTypes DEF Printed, TypeOK
  <2>2. /\ UNCHANGED <<client, issued, sentXids, gaveUp, misread>> /\ main' \in Tasks
        /\ odd' \in 0..MaxOdd /\ asked' \subseteq asked
    BY <1>3 DEF Printed, PrintsVerdict, PrintsEnd, PrintsReport, PrintsEvent
  <2>3. down' \in Seq(Entries) /\ Len(down') <= Len(down) /\ Len(down') \in Nat
    BY <1>0, <1>3, DownAfterPrint, NextDown, DownType
  <2>4. sentXids' + Len(down') <= issued' * MaxLines
    <3>1. issued' = issued /\ sentXids' + Len(down') <= sentXids + Len(down)
      BY <1>0, <2>2, <2>3
    <3> QED
      BY <1>0, <2>2, <2>3, <3>1, LinesLeft
  <2>5. Lines' = Lines
    BY <2>2 DEF Lines
  <2>6. gaveUp' \cup misread' \cup swallowed' \subseteq 1..issued'
    BY <2>1, <2>2 DEF TypeOK
  <2> QED
    BY <2>1, <2>2, <2>3, <2>4, <2>5, <2>6 DEF TypeOK, Tasks, Entries
<1>4. ASSUME NEW cmd \in Issued, Issue(cmd) PROVE TypeOK'
  <2>1. /\ down' \in Seq(Entries') /\ issued' = issued + 1 /\ cmd \in Cmd
        /\ \E k \in 1..MaxLines : Len(down') = Len(down) + k
        /\ misread' \in {misread, misread \cup {issued + 1}}
        /\ client' = [at |-> "ok", cmd |-> cmd, n |-> issued + 1]
        /\ UNCHANGED <<host, up, gaveUp, swallowed>>
    BY <1>4, IssuedLines
  <2>2. issued < MaxCommands /\ \E text \in Texts(cmd) : Odd(text # Plain(cmd))
    BY <1>4 DEF Issue
  <2>3. odd' \in 0..MaxOdd
    <3>1. odd' = odd \/ (odd < MaxOdd /\ odd' = odd + 1)
      BY <2>2 DEF Odd
    <3> QED
      BY <3>1 DEF TypeOK
  <2>4. up' \in Seq(Lines')
    BY <1>0, <2>1, LinesGrow DEF host
  <2>5. issued' \in 0..MaxCommands /\ 1..issued \subseteq 1..issued' /\ issued + 1 \in 1..issued'
    BY <1>0, <2>1, <2>2
  <2>6. main' \in {Reading} \cup [at : {"sent", "failed", "window"}, cmd : Cmd,
                                 n : 1..issued', xid : {sentXids'}, cut : BOOLEAN]
    BY <1>0, <2>1, <2>5 DEF Tasks, host
  <2>7. asked' \subseteq [cmd : Cmd, n : 1..issued', xid : 1..sentXids', from : Device]
    BY <2>1, <2>5 DEF TypeOK, host
  <2>8. gaveUp' \cup misread' \cup swallowed' \subseteq 1..issued'
    BY <2>1, <2>5 DEF TypeOK
  <2>9. sentXids' + Len(down') <= issued' * MaxLines
    <3>1. issued' \in Nat /\ sentXids' \in Nat /\ sentXids' = sentXids /\ Len(down') \in Nat
      BY <1>0, <2>1 DEF host
    <3> QED
      BY <2>1, <3>1, LinesLeft
  <2>10. client' \in [at : {"ok"}, cmd : Cmd, n : {issued'} \ {0}]
    BY <1>0, <2>1
  <2> QED
    BY <1>0, <2>1, <2>3, <2>4, <2>5, <2>6, <2>7, <2>8, <2>9, <2>10 DEF TypeOK, Entries, host
<1>5. CASE up # <<>> /\ Read(Head(up))
  <2>1. UNCHANGED <<issued, down, host, misread, swallowed, odd>> /\ ReadLine(Head(up))
    BY <1>5 DEF Read, ReadOk, ReadError, ReadEvent, SkipLine
  <2>2. up' \in Seq(Lines') /\ Head(up) \in Lines
    <3>1. up' \in Seq(Lines) /\ Head(up) \in Lines
      BY <2>1, ReadFacts DEF TypeOK
    <3> QED
      BY <2>1, <3>1 DEF Lines, host
  <2>3. gaveUp' \subseteq 1..issued
    <3>1. gaveUp' \in {gaveUp, gaveUp \cup {client.n}}
          /\ (gaveUp' # gaveUp => client.at = "ok")
      BY <1>5 DEF Read, ReadOk, ReadError, ReadEvent, SkipLine
    <3>2. client.at = "ok" => client.n \in 1..issued
      BY ClientFacts
    <3> QED
      BY <3>1, <3>2 DEF TypeOK
  <2>4. client' \in {Idle} \cup [at : {"ok"}, cmd : Cmd, n : {issued} \ {0}]
                          \cup [at : {"event"}, cmd : Cmd, n : {issued} \ {0}, xid : 0..sentXids]
    <3>1. CASE ReadOk(Head(up))
      <4>1. client.at = "ok"
            /\ client' = [at |-> "event", cmd |-> client.cmd, n |-> client.n, xid |-> Head(up).xid]
        BY <3>1 DEF ReadOk
      <4>2. Head(up).xid \in 0..sentXids /\ client.n = issued /\ client.n # 0 /\ client.cmd \in Cmd
        BY <1>0, <2>2, <4>1, ClientFacts DEF Lines
      <4> QED
        BY <4>1, <4>2
    <3>2. CASE ~ReadOk(Head(up))
      <4>1. client' \in {client, Idle}
        BY <1>5, <3>2 DEF Read, ReadError, ReadEvent, SkipLine
      <4> QED
        BY <4>1, ClientFacts
    <3> QED
      BY <3>1, <3>2
  <2> QED
    BY <2>1, <2>2, <2>3, <2>4 DEF TypeOK, host
<1>6. CASE Timeout
  <2>1. client # Idle => client.n \in 1..issued
    BY ClientFacts
  <2> QED
    BY <1>6, <2>1 DEF Timeout, TypeOK, host, Lines
<1>7. CASE UNCHANGED vars
  BY <1>7 DEF vars, TypeOK, Lines
<1> QED
  BY <1>1, <1>2, <1>3, <1>4, <1>5, <1>6, <1>7, StepCases
-----------------------------------------------------------------------------
(* Lines as they were meant *)

LEMMA InitMeant == Init => Meant /\ Unique /\ Debts
BY EmptySeq DEF Init, Meant, Unique, Debts, Reading, Working, Sending

LEMMA StepMeant ==
    ASSUME TypeOK, TypeOK', Meant, [Next]_vars
    PROVE  Meant'
<1>1. CASE MainSend
  <2>1. /\ MainReads(Cmd) /\ main'.n = Head(down).n /\ main'.cut = Head(down).cut
        /\ UNCHANGED <<misread, up>>
    BY <1>1 DEF MainSend
  <2>2. main'.cut => main'.n \in misread
    BY <2>1, HeadIsMeant
  <2>3. \A i \in 1..Len(down') : \E j \in 1..Len(down) : down'[i] = down[j]
    BY <2>1, NextDown, DownType
  <2> QED
    BY <2>1, <2>2, <2>3 DEF Meant
<1>2. CASE MainSkips
  <2>1. MainReads({"blank"}) /\ UNCHANGED <<main, misread, up>>
    BY <1>2 DEF MainSkips, host
  <2>2. \A i \in 1..Len(down') : \E j \in 1..Len(down) : down'[i] = down[j]
    BY <2>1, NextDown, DownType
  <2> QED
    BY <2>1, <2>2 DEF Meant, Working
<1>3. ASSUME NEW l \in Lines, Printed(l) PROVE Meant'
  <2>1. UNCHANGED misread /\ \A i \in 1..Len(down') : \E j \in 1..Len(down) : down'[i] = down[j]
    BY <1>3, DownAfterPrint DEF Printed
  <2>2. Working' => main'.n = main.n /\ main'.cut = main.cut /\ Working
    BY <1>3 DEF Printed, PrintsVerdict, PrintsEnd, PrintsReport, PrintsEvent, Working, Sending, Reading
  <2>3. /\ l.kind = "errorReason" => l.n \in misread
        /\ l.open = "fields" => l.n \in misread /\ l.kind \in {"ok", "errorReason", "help"}
    BY <1>3 DEF Printed, PrintsVerdict, PrintsEnd, PrintsReport, PrintsEvent, IsSettling
  <2>4. ASSUME NEW i \in 1..Len(up')
        PROVE  /\ up'[i].kind = "errorReason" => up'[i].n \in misread
               /\ up'[i].open = "fields" =>
                     up'[i].n \in misread /\ up'[i].kind \in {"ok", "errorReason", "help"}
    <3>1. CASE i \in 1..Len(up)
      BY <1>3, <3>1, NewLines DEF Kept, Meant
    <3>2. CASE i \notin 1..Len(up)
      BY <1>3, <2>3, <3>2, NewLines
    <3> QED
      BY <3>1, <3>2
  <2> QED
    BY <2>1, <2>2, <2>4 DEF Meant
<1>4. ASSUME NEW cmd \in Issued, Issue(cmd) PROVE Meant'
  <2>1. /\ cmd \in Cmd /\ misread \subseteq misread' /\ UNCHANGED <<main, up>>
        /\ \A i \in 1..Len(down') :
              \/ i \in 1..Len(down) /\ down'[i] = down[i]
              \/ /\ down'[i].n = issued + 1
                 /\ issued + 1 \notin misread' => down'[i].what = cmd /\ ~down'[i].cut
    BY <1>4, IssuedLines DEF host
  <2> QED
    BY <2>1 DEF Meant, Working
<1>5. CASE up # <<>> /\ Read(Head(up)) /\ Took(Head(up))
  BY <1>5 DEF Took, host, Meant, Working
<1>6. CASE Timeout \/ UNCHANGED vars
  BY <1>6 DEF Timeout, vars, host, Meant, Working
<1> QED
  BY <1>1, <1>2, <1>3, <1>4, <1>5, <1>6, StepCases
-----------------------------------------------------------------------------
(* One line for each command *)

\* Nothing of a command is there before it is issued.
LEMMA NothingYet ==
    ASSUME TypeOK
    PROVE  /\ \A i \in 1..Len(down) : down[i].n # issued + 1
           /\ \A i \in 1..Len(up) : up[i].n # issued + 1
           /\ Working => main.n # issued + 1
           /\ \A a \in asked : a.n # issued + 1
           /\ \A t \in Tags : t[2] # issued + 1 /\ t[1] # sentXids + 1
<1>1. /\ \A i \in 1..Len(down) : down[i].n # issued + 1
      /\ \A i \in 1..Len(up) : up[i].n # issued + 1 /\ up[i].xid # sentXids + 1
      /\ Working => main.n # issued + 1 /\ main.xid # sentXids + 1
      /\ \A a \in asked : a.n # issued + 1 /\ a.xid # sentXids + 1
  BY UpTypes
<1> QED
  BY <1>1 DEF Tags

LEMMA StepUnique ==
    ASSUME TypeOK, TypeOK', Meant, Unique, [Next]_vars
    PROVE  Unique'
<1>1. CASE MainSend
  <2>1. /\ MainReads(Cmd) /\ main'.n = Head(down).n /\ UNCHANGED <<misread, up>>
        /\ main = Reading
    BY <1>1 DEF MainSend, MainReads
  <2>2. /\ Head(down) = down[1] /\ 1 \in 1..Len(down)
        /\ \A i \in 1..Len(down') : down'[i] = down[i + 1] /\ i + 1 \in 1..Len(down) /\ i + 1 # 1
        /\ \A i, j \in 1..Len(down') : i # j => i + 1 # j + 1
    BY <2>1, NextDown, DownType
  <2>3. \A i, j \in 1..Len(down') : i # j /\ down'[i].n = down'[j].n => down'[i].n \in misread
    BY <2>2 DEF Unique
  <2>4. \A i \in 1..Len(down') : down'[i].n = main'.n => main'.n \in misread
    BY <2>1, <2>2 DEF Unique
  <2>5. \A i \in 1..Len(down'), j \in 1..Len(up) :
            IsSettling(up[j]) /\ down'[i].n = up[j].n => up[j].n \in misread
    BY <2>2 DEF Unique
  <2>6. \A j \in 1..Len(up) : IsSettling(up[j]) /\ up[j].n = main'.n => main'.n \in misread
    BY <2>1, <2>2 DEF Unique
  <2> QED
    BY <2>1, <2>3, <2>4, <2>5, <2>6 DEF Unique, IsSettling
<1>2. CASE MainSkips
  <2>1. MainReads({"blank"}) /\ UNCHANGED <<main, misread, up>>
    BY <1>2 DEF MainSkips, host
  <2>2. /\ \A i \in 1..Len(down') : down'[i] = down[i + 1] /\ i + 1 \in 1..Len(down)
        /\ \A i, j \in 1..Len(down') : i # j => i + 1 # j + 1
    BY <2>1, NextDown, DownType
  <2> QED
    BY <2>1, <2>2 DEF Unique, Sending, IsSettling
<1>3. ASSUME NEW l \in Lines, Printed(l) PROVE Unique'
  <2>0. UNCHANGED misread /\ (Sending' => Sending /\ main'.n = main.n)
    BY <1>3 DEF Printed, PrintsVerdict, PrintsEnd, PrintsReport, PrintsEvent, Sending, Reading
  <2>1. \A i, j \in 1..Len(down') :
            /\ \E k \in 1..Len(down) : down'[i] = down[k]
            /\ i # j => \E k, m \in 1..Len(down) : k # m /\ down'[i] = down[k] /\ down'[j] = down[m]
    <3>1. CASE down' = down
      BY <3>1
    <3>2. CASE down' # down
      <4>1. MainReads({"bad", "long", "help"})
        BY <1>3, <3>2, DownAfterPrint
      <4>2. /\ \A i \in 1..Len(down') : down'[i] = down[i + 1] /\ i + 1 \in 1..Len(down)
            /\ \A i, j \in 1..Len(down') : i # j => i + 1 # j + 1
        BY <4>1, NextDown, DownType
      <4>3. ASSUME NEW i \in 1..Len(down'), NEW j \in 1..Len(down')
            PROVE  /\ \E k \in 1..Len(down) : down'[i] = down[k]
                   /\ i # j => \E k, m \in 1..Len(down) :
                                  k # m /\ down'[i] = down[k] /\ down'[j] = down[m]
        <5>1. /\ i + 1 \in 1..Len(down) /\ down'[i] = down[i + 1]
              /\ j + 1 \in 1..Len(down) /\ down'[j] = down[j + 1]
              /\ i # j => i + 1 # j + 1
          BY <4>2
        <5> QED
          BY <5>1
      <4> QED
        BY <4>3
    <3> QED
      BY <3>1, <3>2
  <2>2. IsSettling(l) => /\ Sending /\ ~Sending' /\ l.n = main.n /\ down' = down
    BY <1>3 DEF Printed, PrintsVerdict, PrintsEnd, PrintsReport, PrintsEvent, IsSettling, Sending, Reading
  <2>3. \A i \in 1..Len(up') :
            \/ i \in 1..Len(up) /\ up'[i].n = up[i].n /\ (IsSettling(up'[i]) <=> IsSettling(up[i]))
            \/ i = Len(up) + 1 /\ i \notin 1..Len(up) /\ up'[i] = l
    BY <1>3, NewLines DEF Kept, IsSettling
  <2>4. ASSUME NEW i \in 1..Len(down'), NEW j \in 1..Len(down'), i # j, down'[i].n = down'[j].n
        PROVE  down'[i].n \in misread
    <3>1. PICK k, m \in 1..Len(down) : k # m /\ down'[i] = down[k] /\ down'[j] = down[m]
      BY <2>1, <2>4
    <3> QED
      BY <2>4, <3>1 DEF Unique
  <2>5. \A i \in 1..Len(down') : Sending' /\ down'[i].n = main'.n => main'.n \in misread
    BY <2>0, <2>1 DEF Unique
  <2>6. ASSUME NEW i \in 1..Len(down'), NEW j \in 1..Len(up'),
               IsSettling(up'[j]), down'[i].n = up'[j].n
        PROVE  up'[j].n \in misread
    <3>1. PICK k \in 1..Len(down) : down'[i] = down[k]
      BY <2>1
    <3>2. CASE j \in 1..Len(up)
      BY <2>3, <2>6, <3>1, <3>2 DEF Unique
    <3>3. CASE up'[j] = l
      BY <2>2, <2>6, <3>1, <3>3 DEF Unique
    <3> QED
      BY <2>3, <3>2, <3>3
  <2>7. ASSUME NEW j \in 1..Len(up'), IsSettling(up'[j]), Sending', up'[j].n = main'.n
        PROVE  main'.n \in misread
    BY <2>0, <2>2, <2>3, <2>7 DEF Unique
  <2>8. ASSUME NEW i \in 1..Len(up'), NEW j \in 1..Len(up'), i # j,
               IsSettling(up'[i]), IsSettling(up'[j]), up'[i].n = up'[j].n
        PROVE  up'[i].n \in misread
    <3>1. CASE i \in 1..Len(up) /\ j \in 1..Len(up)
      BY <2>3, <2>8, <3>1 DEF Unique
    <3>2. CASE i \notin 1..Len(up)
      <4>1. up'[i] = l /\ j \in 1..Len(up)
        BY <2>3, <2>8, <3>2
      <4> QED
        BY <2>2, <2>3, <2>8, <4>1 DEF Unique
    <3>3. CASE j \notin 1..Len(up)
      <4>1. up'[j] = l /\ i \in 1..Len(up)
        BY <2>3, <2>8, <3>3
      <4> QED
        BY <2>2, <2>3, <2>8, <4>1 DEF Unique
    <3> QED
      BY <3>1, <3>2, <3>3
  <2> QED
    BY <2>0, <2>4, <2>5, <2>6, <2>7, <2>8 DEF Unique, IsSettling
<1>4. ASSUME NEW cmd \in Issued, Issue(cmd) PROVE Unique'
  <2>1. /\ misread \subseteq misread' /\ UNCHANGED <<main, up>>
        /\ \A i \in 1..Len(down') :
              \/ i \in 1..Len(down) /\ down'[i] = down[i]
              \/ /\ down'[i].n = issued + 1
                 /\ issued + 1 \notin misread' => i = Len(down) + 1
    BY <1>4, IssuedLines DEF host
  <2>2. /\ \A i \in 1..Len(down) : down[i].n # issued + 1
        /\ \A i \in 1..Len(up) : up[i].n # issued + 1
        /\ Sending => main.n # issued + 1
    BY NothingYet DEF Sending, Working
  <2>3. \A i, j \in 1..Len(down') : i # j /\ down'[i].n = down'[j].n => down'[i].n \in misread'
    BY <2>1, <2>2 DEF Unique
  <2>4. \A i \in 1..Len(down') : Sending /\ down'[i].n = main.n => main.n \in misread'
    BY <2>1, <2>2 DEF Unique
  <2>5. \A i \in 1..Len(down'), j \in 1..Len(up) :
            IsSettling(up[j]) /\ down'[i].n = up[j].n => up[j].n \in misread'
    BY <2>1, <2>2 DEF Unique
  <2> QED
    BY <2>1, <2>3, <2>4, <2>5 DEF Unique, Sending, IsSettling
<1>5. CASE up # <<>> /\ Read(Head(up)) /\ Took(Head(up))
  <2>1. /\ UNCHANGED <<down, main, misread>>
        /\ \A i \in 1..Len(up') : up'[i] = up[i + 1] /\ i + 1 \in 1..Len(up)
        /\ \A i, j \in 1..Len(up') : i # j => i + 1 # j + 1
    BY <1>5 DEF Took, host
  <2>2. /\ \A i \in 1..Len(down'), j \in 1..Len(up') :
              IsSettling(up'[j]) /\ down'[i].n = up'[j].n => up'[j].n \in misread'
        /\ \A j \in 1..Len(up') :
              IsSettling(up'[j]) /\ Sending' /\ up'[j].n = main'.n => main'.n \in misread'
    BY <2>1 DEF Unique, Sending, IsSettling
  <2>3. \A i, j \in 1..Len(up') :
            i # j /\ IsSettling(up'[i]) /\ IsSettling(up'[j]) /\ up'[i].n = up'[j].n
                => up'[i].n \in misread'
    BY <2>1 DEF Unique, IsSettling
  <2>4. /\ \A i, j \in 1..Len(down') : i # j /\ down'[i].n = down'[j].n => down'[i].n \in misread'
        /\ \A i \in 1..Len(down') : Sending' /\ down'[i].n = main'.n => main'.n \in misread'
    BY <2>1 DEF Unique, Sending
  <2> QED
    BY <2>2, <2>3, <2>4 DEF Unique, Sending, IsSettling
<1>6. CASE Timeout \/ UNCHANGED vars
  BY <1>6 DEF Timeout, vars, host, Unique, Sending, IsSettling
<1> QED
  BY <1>1, <1>2, <1>3, <1>4, <1>5, <1>6, StepCases
-----------------------------------------------------------------------------
(* Verdicts that are owed *)

LEMMA StepDebts ==
    ASSUME TypeOK, TypeOK', Meant, Unique, Debts, [Next]_vars
    PROVE  Debts'
<1>1. CASE MainSend
  <2>1. /\ MainReads(Cmd) /\ main'.n = Head(down).n /\ UNCHANGED <<client, gaveUp, misread, up>>
    BY <1>1 DEF MainSend
  <2>2. /\ Head(down) = down[1] /\ 1 \in 1..Len(down)
        /\ \A i \in 1..Len(down') : down'[i] = down[i + 1] /\ i + 1 \in 1..Len(down)
    BY <2>1, NextDown, DownType
  <2>3. Owed' = Owed
    BY <2>1 DEF Owed, Loose
  <2> QED
    BY <2>1, <2>2, <2>3 DEF Debts, IsSettling
<1>2. CASE MainSkips
  <2>1. MainReads({"blank"}) /\ UNCHANGED <<client, main, gaveUp, misread, up>>
    BY <1>2 DEF MainSkips, host
  <2>2. \A i \in 1..Len(down') : down'[i] = down[i + 1] /\ i + 1 \in 1..Len(down)
    BY <2>1, NextDown, DownType
  <2>3. Owed' = Owed
    BY <2>1 DEF Owed, Loose
  <2> QED
    BY <2>1, <2>2, <2>3 DEF Debts, IsSettling, Sending
<1>3. ASSUME NEW l \in Lines, Printed(l) PROVE Debts'
  <2>1. Owed' = Owed
    BY <1>3 DEF Printed, Owed, Loose
  <2>2. /\ Sending' => Sending /\ main'.n = main.n
        /\ IsSettling(l) => Sending /\ l.n = main.n
    BY <1>3 DEF Printed, PrintsVerdict, PrintsEnd, PrintsReport, PrintsEvent, Sending, Reading, IsSettling
  <2>3. \A i \in 1..Len(up') : \/ i \in 1..Len(up) /\ up'[i].n = up[i].n /\ up'[i].kind = up[i].kind
                               \/ up'[i] = l
    BY <1>3, NewLines DEF Kept
  <2>4. \A i \in 1..Len(down') : \E j \in 1..Len(down) : down'[i] = down[j]
    BY <1>3, DownAfterPrint
  <2> QED
    BY <2>1, <2>2, <2>3, <2>4 DEF Debts, IsSettling
<1>4. ASSUME NEW cmd \in Issued, Issue(cmd) PROVE Debts'
  <2>1. /\ misread \subseteq misread' /\ UNCHANGED <<main, up, gaveUp>>
        /\ client = Idle /\ client' = [at |-> "ok", cmd |-> cmd, n |-> issued + 1]
        /\ \A i \in 1..Len(down') : \/ i \in 1..Len(down) /\ down'[i] = down[i]
                                    \/ down'[i].n = issued + 1
    BY <1>4, IssuedLines DEF host
  <2>2. Owed \subseteq Owed' /\ issued + 1 \in Owed'
    BY <2>1 DEF Owed, Loose, Idle
  <2> QED
    BY <2>1, <2>2 DEF Debts, IsSettling, Sending
<1>5. CASE up # <<>> /\ Read(Head(up)) /\ Took(Head(up))
  <2>1. /\ UNCHANGED <<down, main, misread>> /\ up[1] = Head(up) /\ 1 \in 1..Len(up)
        /\ \A i \in 1..Len(up') : up'[i] = up[i + 1] /\ i + 1 \in 1..Len(up) /\ i + 1 # 1
    BY <1>5 DEF Took, host
  <2>2. CASE Owed \subseteq Owed'
    BY <2>1, <2>2 DEF Debts, IsSettling, Sending
  <2>3. CASE ReadOk(up[1]) \/ ReadError(up[1])
    <3>1. /\ client.at = "ok" /\ client'.at # "ok" /\ up[1].kind \in {"ok", "errorCmd", "errorReason"}
          /\ gaveUp' = IF up[1].n = client.n THEN gaveUp ELSE gaveUp \cup {client.n}
      BY <2>3 DEF ReadOk, ReadError, Accepted, Rejected, Idle
    <3>2. CASE up[1].n # client.n \/ client.n \in misread
      <4>1. Owed \subseteq Owed'
        BY <2>1, <3>1, <3>2 DEF Owed, Loose
      <4> QED
        BY <2>2, <4>1
    <3>3. CASE up[1].n = client.n /\ client.n \notin misread
      <4>1. IsSettling(up[1])
        BY <2>1, <3>1, <3>3 DEF Meant, IsSettling
      <4>2. /\ \A i \in 1..Len(down) : down[i].n # client.n
            /\ Sending => main.n # client.n
            /\ \A i \in 1..Len(up') : IsSettling(up'[i]) => up'[i].n # client.n
        BY <2>1, <3>3, <4>1 DEF Unique
      <4>3. Owed' = Loose /\ Owed = Loose \cup {client.n}
        BY <2>1, <3>1, <3>3 DEF Owed, Loose
      <4> QED
        BY <2>1, <4>2, <4>3 DEF Debts, IsSettling, Sending
    <3> QED
      BY <3>2, <3>3
  <2>4. CASE ReadEvent(up[1]) \/ SkipLine(up[1])
    <3>1. gaveUp' = gaveUp /\ (client' = client \/ (client.at = "event" /\ client' = Idle))
      BY <2>4 DEF ReadEvent, SkipLine
    <3>2. Owed' = Owed
      <4>1. Loose' = Loose
        BY <2>1, <3>1 DEF Loose
      <4>2. CASE client' = client
        BY <4>1, <4>2 DEF Owed
      <4>3. CASE client.at = "event" /\ client' = Idle
        BY <4>1, <4>3 DEF Owed, Idle
      <4> QED
        BY <3>1, <4>2, <4>3
    <3> QED
      BY <2>2, <3>2
  <2> QED
    BY <1>5, <2>1, <2>3, <2>4 DEF Read
<1>6. CASE Timeout \/ UNCHANGED vars
  <2>1. Owed' = Owed /\ UNCHANGED <<down, main, up>>
    BY <1>6 DEF Timeout, vars, host, Owed, Loose, Idle
  <2> QED
    BY <2>1 DEF Debts, IsSettling, Sending
<1> QED
  BY <1>1, <1>2, <1>3, <1>4, <1>5, <1>6, StepCases
-----------------------------------------------------------------------------
(* Transaction ids *)

\* Printing takes a tag along.
LEMMA TagsKept ==
    ASSUME TypeOK, Meant, NEW l \in Lines, Printed(l)
    PROVE  /\ Tags' \subseteq Tags
           /\ l.kind \in Answering => <<l.xid, l.n>> \in Tags
<1>1. Working => <<main.xid, main.n>> \in Tags
  BY DEF Tags
<1>2. \A a \in asked' : <<a.xid, a.n>> \in Tags
  BY DEF Printed, PrintsVerdict, PrintsEnd, PrintsReport, PrintsEvent, Tags
<1>3. Working' => <<main'.xid, main'.n>> \in Tags
  BY <1>1 DEF Printed, PrintsVerdict, PrintsEnd, PrintsReport, PrintsEvent, Working, Sending, Reading
<1>4. l.kind \in Answering => <<l.xid, l.n>> \in Tags
  <2>1. CASE PrintsEvent(l)
    BY <2>1 DEF PrintsEvent, Tags
  <2>2. CASE PrintsEnd(l)
    BY <1>1, <2>2 DEF PrintsEnd, Working
  <2>3. CASE PrintsVerdict(l) \/ PrintsReport(l)
    BY <2>3 DEF PrintsVerdict, PrintsReport, IsSettling, Answering
  <2> QED
    BY <2>1, <2>2, <2>3 DEF Printed
<1>5. ASSUME NEW i \in 1..Len(up'), up'[i].kind \in Answering
      PROVE  <<up'[i].xid, up'[i].n>> \in Tags
  <2>1. CASE i \in 1..Len(up) /\ Kept(up'[i], up[i])
    <3>1. up[i].kind \in Answering /\ up[i].open # "fields"
      BY <1>5, <2>1 DEF Kept, Meant, Answering
    <3> QED
      BY <2>1, <3>1 DEF Tags, Kept
  <2>2. CASE up'[i] = l
    BY <1>4, <1>5, <2>2
  <2> QED
    BY <2>1, <2>2, NewLines
<1> QED
  BY <1>2, <1>3, <1>4, <1>5 DEF Tags

LEMMA TagsRead ==
    ASSUME NEW l, Took(l)
    PROVE  Tags' \subseteq Tags
<1>1. UNCHANGED <<main, asked>> /\ \A i \in 1..Len(up') : up'[i] = up[i + 1] /\ i + 1 \in 1..Len(up)
  BY DEF Took, host
<1> QED
  BY <1>1 DEF Tags, Working

LEMMA TagsSent ==
    ASSUME TypeOK, MainSend
    PROVE  Tags' \subseteq Tags \cup {<<sentXids + 1, Head(down).n>>}
<1>1. /\ main'.xid = sentXids + 1 /\ main'.n = Head(down).n /\ up' = up
      /\ \A a \in asked' : a \in asked \/ (a.xid = sentXids + 1 /\ a.n = Head(down).n)
  BY DEF MainSend
<1> QED
  BY <1>1 DEF Tags, Working

LEMMA InitIds == Init => Ids /\ OwnKind /\ VerdictIsOnItsWay
<1> SUFFICES ASSUME Init PROVE Ids /\ OwnKind /\ VerdictIsOnItsWay
  OBVIOUS
<1>1. client = Idle /\ client.at = "idle" /\ asked = {} /\ ~Working /\ Len(up) = 0 /\ Len(down) = 0
  BY EmptySeq DEF Init, Idle, Reading, Working
<1>2. Tags = {}
  BY <1>1 DEF Tags
<1> QED
  BY <1>1, <1>2 DEF Ids, OwnKind, VerdictIsOnItsWay

LEMMA MainSendIds ==
    ASSUME TypeOK, Unique, Debts, Ids, MainSend
    PROVE  Ids'
<1> DEFINE n == Head(down).n
<1>1. MainReads(Cmd) /\ UNCHANGED <<client, up, gaveUp, misread, swallowed>>
  BY DEF MainSend
<1>2. /\ n = down[1].n /\ 1 \in 1..Len(down)
      /\ \A i \in 1..Len(down') : down'[i] = down[i + 1] /\ i + 1 \in 1..Len(down) /\ i + 1 # 1
  BY <1>1, NextDown, DownType
<1>3. Tags' \subseteq Tags \cup {<<sentXids + 1, n>>}
  BY TagsSent
<1>4. \A t \in Tags : t[1] # sentXids + 1 /\ (t[2] = n => n \in misread)
  BY <1>2, NothingYet DEF Ids
<1> HIDE DEF n
<1>5. \A s, t \in Tags' : /\ s[1] = t[1] => s[2] = t[2]
                          /\ s[2] = t[2] /\ s[2] \notin misread => s[1] = t[1]
  <2> SUFFICES ASSUME NEW s \in Tags', NEW t \in Tags'
               PROVE  /\ s[1] = t[1] => s[2] = t[2]
                      /\ s[2] = t[2] /\ s[2] \notin misread => s[1] = t[1]
    OBVIOUS
  <2>1. CASE s \in Tags /\ t \in Tags
    BY <2>1 DEF Ids
  <2>2. CASE s = <<sentXids + 1, n>> \/ t = <<sentXids + 1, n>>
    BY <1>3, <1>4, <2>2
  <2> QED
    BY <1>3, <2>1, <2>2
<1>6. \A i \in 1..Len(down'), t \in Tags' : t[2] = down'[i].n => t[2] \in misread
  BY <1>2, <1>3 DEF Ids, Unique
<1>7. ASSUME NEW i \in 1..Len(up), up[i].kind = "ok"
      PROVE  Leads(up[i].xid, up[i].n, misread)'
  <2>1. Leads(up[i].xid, up[i].n, misread)
    BY <1>7 DEF Ids
  <2>2. up[i].xid # sentXids + 1
    BY UpTypes
  <2>3. n = up[i].n => up[i].n \in misread
    BY <1>2, <1>7 DEF Unique, IsSettling
  <2> QED
    BY <1>1, <1>3, <2>1, <2>2, <2>3 DEF Leads
<1>8. client.at = "event" => Leads(client.xid, client.n, Loose)'
  <2> SUFFICES ASSUME client.at = "event" PROVE Leads(client.xid, client.n, Loose)'
    OBVIOUS
  <2>1. Leads(client.xid, client.n, Loose)
    BY DEF Ids
  <2>2. client.xid # sentXids + 1
    <3>1. client.xid \in 0..sentXids /\ sentXids \in Nat
      BY ClientFacts, UpTypes
    <3> QED
      BY <3>1
  <2>3. n \in Loose
    BY <1>2 DEF Debts, Owed
  <2> QED
    BY <1>1, <1>3, <2>1, <2>2, <2>3 DEF Leads, Loose
<1> QED
  BY <1>1, <1>5, <1>6, <1>7, <1>8 DEF Ids

LEMMA PrintedIds ==
    ASSUME TypeOK, Meant, Ids, NEW l \in Lines, Printed(l)
    PROVE  Ids'
<1>1. /\ Tags' \subseteq Tags /\ (l.kind \in Answering => <<l.xid, l.n>> \in Tags)
      /\ UNCHANGED <<client, gaveUp, misread>> /\ swallowed \subseteq swallowed'
  BY TagsKept, NewLines DEF Printed
<1>2. \A s, t \in Tags' : /\ s[1] = t[1] => s[2] = t[2]
                          /\ s[2] = t[2] /\ s[2] \notin misread' => s[1] = t[1]
  BY <1>1 DEF Ids
<1>3. \A i \in 1..Len(down'), t \in Tags' : t[2] = down'[i].n => t[2] \in misread'
  <2>1. \A i \in 1..Len(down') : \E j \in 1..Len(down) : down'[i] = down[j]
    BY DownAfterPrint
  <2> QED
    BY <1>1, <2>1 DEF Ids
<1>4. l.kind = "ok" => Leads(l.xid, l.n, misread)
  <2> SUFFICES ASSUME l.kind = "ok" PROVE Leads(l.xid, l.n, misread)
    OBVIOUS
  <2>1. Sending /\ l.n = main.n /\ l.xid = main.xid
    BY DEF Printed, PrintsVerdict, PrintsEnd, PrintsReport, PrintsEvent
  <2>2. <<l.xid, l.n>> \in Tags
    BY <2>1 DEF Tags, Working, Sending
  <2> QED
    BY <2>2 DEF Ids, Leads
<1>5. \A t \in Tags : t[1] = l.xid /\ l.xid # 0 => t[2] \in {l.n} \cup misread \cup swallowed
  <2>1. CASE l.kind = "ok"
    BY <1>4, <2>1 DEF Leads
  <2>2. CASE l.kind # "ok"
    <3>1. l.xid # 0 => l.kind \in Answering
      BY <2>2 DEF Printed, PrintsVerdict, PrintsEnd, PrintsReport, PrintsEvent, Answering
    <3> QED
      BY <1>1, <3>1 DEF Ids
  <2> QED
    BY <2>1, <2>2
<1>6. ASSUME NEW i \in 1..Len(up'), up'[i].kind = "ok"
      PROVE  Leads(up[i].xid, up[i].n, misread)'
  <2>1. CASE i \in 1..Len(up)
    <3>1. /\ Kept(up'[i], up[i])
          /\ up'[i].xid = up[i].xid \/ (up'[i].xid = l.xid /\ l.xid # 0 /\ l.n \in swallowed')
      BY <2>1, NewLines
    <3>2. up'[i].n = up[i].n /\ Leads(up[i].xid, up[i].n, misread)
      BY <1>6, <2>1, <3>1 DEF Kept, Ids
    <3>3. CASE up'[i].xid = up[i].xid
      BY <1>1, <3>2, <3>3 DEF Leads
    <3>4. CASE up'[i].xid # up[i].xid
      <4>1. up[i].n \in misread
        BY <2>1, <3>1, <3>4 DEF Kept, Meant
      <4>2. up'[i].xid = l.xid /\ l.xid # 0 /\ l.n \in swallowed'
        BY <3>1, <3>4
      <4> QED
        BY <1>1, <1>5, <3>2, <4>1, <4>2 DEF Leads
    <3> QED
      BY <3>3, <3>4
  <2>2. CASE i \notin 1..Len(up)
    <3>1. up'[i] = l
      BY <2>2, NewLines
    <3>2. Leads(l.xid, l.n, misread)
      BY <1>4, <1>6, <3>1
    <3> QED
      BY <1>1, <3>1, <3>2 DEF Leads
  <2> QED
    BY <2>1, <2>2
<1>7. client'.at = "event" => Leads(client.xid, client.n, Loose)'
  <2>1. client.at = "event" => Leads(client.xid, client.n, Loose)
    BY DEF Ids
  <2> QED
    BY <1>1, <2>1 DEF Leads, Loose
<1> QED
  BY <1>2, <1>3, <1>6, <1>7 DEF Ids

LEMMA StepIds ==
    ASSUME TypeOK, TypeOK', Meant, Unique, Debts, Ids, [Next]_vars
    PROVE  Ids'
<1>1. CASE MainSend
  BY <1>1, MainSendIds
<1>2. ASSUME NEW l \in Lines, Printed(l) PROVE Ids'
  BY <1>2, PrintedIds
<1>3. ASSUME Tags' \subseteq Tags, misread \subseteq misread', gaveUp \subseteq gaveUp',
             swallowed \subseteq swallowed',
             \A i \in 1..Len(up') : \E j \in 1..Len(up) : up'[i] = up[j],
             \A i \in 1..Len(down') : \/ \E j \in 1..Len(down) : down'[i] = down[j]
                                      \/ \A t \in Tags : t[2] # down'[i].n,
             client'.at = "event" => client' = client \/ Leads(client.xid, client.n, Loose)'
      PROVE  Ids'
  <2>1. \A s, t \in Tags' : /\ s[1] = t[1] => s[2] = t[2]
                            /\ s[2] = t[2] /\ s[2] \notin misread' => s[1] = t[1]
    BY <1>3 DEF Ids
  <2>2. \A i \in 1..Len(down'), t \in Tags' : t[2] = down'[i].n => t[2] \in misread'
    BY <1>3 DEF Ids
  <2>3. ASSUME NEW i \in 1..Len(up'), up'[i].kind = "ok"
        PROVE  Leads(up[i].xid, up[i].n, misread)'
    <3>1. PICK j \in 1..Len(up) : up'[i] = up[j]
      BY <1>3
    <3>2. Leads(up[j].xid, up[j].n, misread)
      BY <2>3, <3>1 DEF Ids
    <3> QED
      BY <1>3, <3>1, <3>2 DEF Leads
  <2>4. client'.at = "event" => Leads(client.xid, client.n, Loose)'
    <3>1. CASE client' = client
      <4>1. client.at = "event" => Leads(client.xid, client.n, Loose)
        BY DEF Ids
      <4> QED
        BY <1>3, <3>1, <4>1 DEF Leads, Loose
    <3> QED
      BY <1>3, <3>1
  <2> QED
    BY <2>1, <2>2, <2>3, <2>4 DEF Ids
<1>4. CASE MainSkips
  <2>1. MainReads({"blank"}) /\ UNCHANGED <<client, issued, host, up, gaveUp, misread, swallowed, odd>>
    BY <1>4 DEF MainSkips
  <2>2. \A i \in 1..Len(down') : \E j \in 1..Len(down) : down'[i] = down[j]
    BY <2>1, NextDown, DownType
  <2>3. Tags' = Tags
    BY <2>1 DEF Tags, Working, host
  <2> QED
    BY <1>3, <2>1, <2>2, <2>3
<1>5. ASSUME NEW cmd \in Issued, Issue(cmd) PROVE Ids'
  <2>1. /\ misread \subseteq misread' /\ UNCHANGED <<host, up, gaveUp, swallowed>>
        /\ client'.at = "ok"
        /\ \A i \in 1..Len(down') : \/ i \in 1..Len(down) /\ down'[i] = down[i]
                                    \/ down'[i].n = issued + 1
    BY <1>5, IssuedLines
  <2>2. Tags' = Tags
    BY <2>1 DEF Tags, Working, host
  <2>3. \A i \in 1..Len(down') : \/ \E j \in 1..Len(down) : down'[i] = down[j]
                                 \/ \A t \in Tags : t[2] # down'[i].n
    BY <2>1, NothingYet
  <2> QED
    BY <1>3, <2>1, <2>2, <2>3
<1>6. CASE up # <<>> /\ Read(Head(up)) /\ Took(Head(up))
  <2>1. /\ Tags' \subseteq Tags /\ UNCHANGED <<down, misread, swallowed>>
        /\ Head(up) = up[1] /\ 1 \in 1..Len(up)
        /\ \A i \in 1..Len(up') : \E j \in 1..Len(up) : up'[i] = up[j]
    BY <1>6, TagsRead DEF Took
  <2>2. gaveUp \subseteq gaveUp'
    BY <1>6 DEF Read, ReadOk, ReadError, ReadEvent, SkipLine
  <2>3. CASE ReadOk(up[1])
    <3>1. /\ client.at = "ok" /\ up[1].kind = "ok"
          /\ client'.n = client.n /\ client'.xid = up[1].xid
          /\ gaveUp' = IF up[1].n = client.n THEN gaveUp ELSE gaveUp \cup {client.n}
      BY <2>3 DEF ReadOk, Accepted
    <3>2. Leads(up[1].xid, up[1].n, misread)
      BY <2>1, <3>1 DEF Ids
    <3>3. up[1].n \in Loose' \cup {client.n} /\ misread \subseteq Loose'
      BY <2>1, <2>2, <3>1 DEF Debts, Owed, Loose, IsSettling
    <3>4. ASSUME up[1].n = client.n PROVE Leads(client.xid, client.n, Loose)'
      BY <2>1, <3>1, <3>2, <3>3, <3>4 DEF Leads
    <3>5. ASSUME up[1].n # client.n PROVE Leads(client.xid, client.n, Loose)'
      <4>1. client.n \in Loose' /\ up[1].n \in Loose'
        BY <3>1, <3>3, <3>5 DEF Loose
      <4> QED
        BY <2>1, <3>1, <3>2, <3>3, <4>1 DEF Leads
    <3>6. Leads(client.xid, client.n, Loose)'
      BY <3>4, <3>5
    <3>7. /\ misread \subseteq misread' /\ swallowed \subseteq swallowed'
          /\ \A i \in 1..Len(down') : \E j \in 1..Len(down) : down'[i] = down[j]
      BY <2>1
    <3> QED
      BY <1>3, <2>1, <2>2, <3>6, <3>7
  <2>4. CASE ~ReadOk(up[1])
    <3>1. client'.at = "event" => client' = client
      BY <1>6, <2>1, <2>4 DEF Read, ReadError, ReadEvent, SkipLine, Idle
    <3>2. /\ misread \subseteq misread' /\ swallowed \subseteq swallowed'
          /\ \A i \in 1..Len(down') : \E j \in 1..Len(down) : down'[i] = down[j]
      BY <2>1
    <3> QED
      BY <1>3, <2>1, <2>2, <3>1, <3>2
  <2> QED
    BY <1>6, <2>1, <2>3, <2>4
<1>7. CASE Timeout \/ UNCHANGED vars
  <2>1. UNCHANGED <<down, host, up, misread, swallowed>> /\ gaveUp \subseteq gaveUp'
        /\ (client'.at = "event" => client' = client)
    BY <1>7 DEF Timeout, vars, host, Idle
  <2>2. Tags' = Tags
    BY <2>1 DEF Tags, Working, host
  <2> QED
    BY <1>3, <2>1, <2>2
<1> QED
  BY <1>1, <1>2, <1>4, <1>5, <1>6, <1>7, StepCases
-----------------------------------------------------------------------------
(* The caller's own command *)

LEMMA StepOwnKind ==
    ASSUME TypeOK, TypeOK', OwnKind, [Next]_vars, Meant
    PROVE  OwnKind'
<1>1. CASE MainSend
  <2>1. /\ MainReads(Cmd) /\ UNCHANGED <<client, misread, up>>
        /\ main'.n = Head(down).n /\ main'.cmd = Head(down).what
        /\ \A a \in asked' : a \in asked \/ (a.n = Head(down).n /\ a.cmd = Head(down).what)
    BY <1>1 DEF MainSend
  <2>2. /\ Head(down) = down[1] /\ 1 \in 1..Len(down)
        /\ \A i \in 1..Len(down') : down'[i] = down[i + 1] /\ i + 1 \in 1..Len(down)
    BY <2>1, NextDown, DownType
  <2> QED
    BY <2>1, <2>2 DEF OwnKind, IsSettling
<1>2. ASSUME NEW l \in Lines, Printed(l) PROVE OwnKind'
  <2> SUFFICES ASSUME client # Idle, client.n \notin misread PROVE OwnKind'
    BY <1>2 DEF OwnKind, Printed
  <2>1. /\ client' = client /\ asked' \subseteq asked
        /\ \A i \in 1..Len(down') : \E j \in 1..Len(down) : down'[i] = down[j]
        /\ Sending' => Sending /\ main'.n = main.n /\ main'.cmd = main.cmd
    BY <1>2, DownAfterPrint
       DEF Printed, PrintsVerdict, PrintsEnd, PrintsReport, PrintsEvent, Sending, Reading
  <2>2. l.n = client.n =>
            /\ IsSettling(l) => l.cmd = client.cmd
            /\ l.kind \in {"tools", "result", "pong"} => l.kind = EventKind(client.cmd)
    BY <1>2 DEF Printed, PrintsVerdict, PrintsEnd, PrintsReport, PrintsEvent, OwnKind, IsSettling
  <2>3. \A i \in 1..Len(up') :
            up'[i].n = client.n =>
                  /\ IsSettling(up'[i]) => up'[i].cmd = client.cmd
                  /\ up'[i].kind \in {"tools", "result", "pong"} =>
                        up'[i].kind = EventKind(client.cmd)
    BY <1>2, <2>2, NewLines DEF OwnKind, Kept, IsSettling
  <2> QED
    BY <2>1, <2>3 DEF OwnKind
<1>3. ASSUME NEW cmd \in Issued, Issue(cmd) PROVE OwnKind'
  <2>1. /\ client'.n = issued + 1 /\ client'.cmd = cmd /\ UNCHANGED <<main, asked, up>>
        /\ \A i \in 1..Len(down') :
              \/ i \in 1..Len(down) /\ down'[i] = down[i]
              \/ issued + 1 \notin misread' => down'[i].what = cmd
    BY <1>3, IssuedLines DEF host
  <2>2. /\ \A i \in 1..Len(down) : down[i].n # issued + 1
        /\ Sending => main.n # issued + 1
        /\ \A a \in asked : a.n # issued + 1
        /\ \A i \in 1..Len(up) : up[i].n # issued + 1
    BY NothingYet DEF Sending, Working
  <2> QED
    BY <2>1, <2>2 DEF OwnKind, Sending
<1>4. ASSUME client' # Idle => /\ client # Idle /\ client'.n = client.n /\ client'.cmd = client.cmd,
             UNCHANGED <<main, asked, misread>>,
             \A i \in 1..Len(down') : \E j \in 1..Len(down) : down'[i] = down[j],
             \A i \in 1..Len(up') : \E j \in 1..Len(up) : up'[i] = up[j]
      PROVE  OwnKind'
  BY <1>4 DEF OwnKind, Sending, IsSettling
<1>5. CASE MainSkips
  <2>1. MainReads({"blank"}) /\ UNCHANGED <<client, main, asked, misread, up>>
    BY <1>5 DEF MainSkips, host
  <2>2. \A i \in 1..Len(down') : \E j \in 1..Len(down) : down'[i] = down[j]
    BY <2>1, NextDown, DownType
  <2> QED
    BY <1>4, <2>1, <2>2
<1>6. CASE up # <<>> /\ Read(Head(up)) /\ Took(Head(up))
  <2>1. client' # Idle => /\ client # Idle /\ client'.n = client.n /\ client'.cmd = client.cmd
    BY <1>6 DEF Read, ReadOk, ReadError, ReadEvent, SkipLine, Idle
  <2> QED
    BY <1>4, <1>6, <2>1 DEF Took, host
<1>7. CASE Timeout \/ UNCHANGED vars
  BY <1>4, <1>7 DEF Timeout, vars, host
<1> QED
  BY <1>1, <1>2, <1>3, <1>5, <1>6, <1>7, StepCases

LEMMA StepOnItsWay ==
    ASSUME TypeOK, TypeOK', Meant, OwnKind, VerdictIsOnItsWay, [Next]_vars
    PROVE  VerdictIsOnItsWay'
<1> USE DEF Pending
<1>0. client.at = "ok" => client # Idle
  BY DEF Idle
<1>1. CASE MainSend
  <2>1. /\ MainReads(Cmd) /\ UNCHANGED <<client, misread, up, swallowed>>
        /\ main'.n = Head(down).n /\ main'.at \in {"sent", "failed"}
    BY <1>1 DEF MainSend
  <2>2. /\ Head(down) = down[1] /\ main = Reading
        /\ \A i \in 1..Len(down) : i = 1 \/ (i - 1 \in 1..Len(down') /\ down'[i - 1] = down[i])
    BY <2>1, NextDown, DownType
  <2> QED
    BY <2>1, <2>2 DEF VerdictIsOnItsWay, Reading
<1>2. CASE MainSkips
  <2>1. MainReads({"blank"}) /\ UNCHANGED <<client, main, misread, up, swallowed>>
    BY <1>2 DEF MainSkips, host
  <2>2. Head(down).n \in misread
    <3>1. {"blank"} \cap Cmd = {}
      BY DEF Cmd
    <3> QED
      BY <2>1, <3>1, HeadIsMeant
  <2>3. /\ Head(down) = down[1]
        /\ \A i \in 1..Len(down) : i = 1 \/ (i - 1 \in 1..Len(down') /\ down'[i - 1] = down[i])
    BY <2>1, NextDown, DownType
  <2> QED
    BY <2>1, <2>2, <2>3 DEF VerdictIsOnItsWay
<1>3. ASSUME NEW l \in Lines, Printed(l) PROVE VerdictIsOnItsWay'
  <2> SUFFICES ASSUME client.at = "ok" PROVE VerdictIsOnItsWay'
    BY <1>3 DEF VerdictIsOnItsWay, Printed
  <2>1. client' = client /\ misread' = misread
    BY <1>3 DEF Printed
  <2>2. CASE Pending(client.n)
    <3>1. CASE down' = down
      BY <2>1, <2>2, <3>1 DEF VerdictIsOnItsWay
    <3>2. CASE down' # down
      <4>1. MainReads({"bad", "long", "help"}) /\ Head(down).n \in misread
        BY <1>3, <3>2, DownAfterPrint DEF PrintsReport
      <4>2. /\ Head(down) = down[1]
            /\ \A i \in 1..Len(down) : i = 1 \/ (i - 1 \in 1..Len(down') /\ down'[i - 1] = down[i])
        BY <4>1, NextDown, DownType
      <4> QED
        BY <2>1, <2>2, <4>1, <4>2 DEF VerdictIsOnItsWay
    <3> QED
      BY <3>1, <3>2
  <2>3. CASE Sending /\ main.n = client.n
    <3>1. CASE main' = main
      BY <2>1, <2>3, <3>1 DEF VerdictIsOnItsWay, Sending
    <3>2. CASE main' # main
      <4>1. IsSettling(l) /\ l.n = client.n
        BY <1>3, <2>3, <3>2
           DEF Printed, PrintsVerdict, PrintsEnd, PrintsReport, PrintsEvent, Sending
      <4> QED
        BY <1>3, <2>1, <4>1, NewLines DEF VerdictIsOnItsWay, IsSettling, Verdicts
    <3> QED
      BY <3>1, <3>2
  <2>4. CASE \E i \in 1..Len(up) : up[i].n = client.n /\ up[i].kind \in Verdicts
    BY <1>3, <2>1, <2>4, NewLines DEF VerdictIsOnItsWay, Kept
  <2>5. CASE client.n \in swallowed \cup misread
    BY <1>3, <2>1, <2>5, NewLines DEF VerdictIsOnItsWay
  <2> QED
    BY <2>2, <2>3, <2>4, <2>5 DEF VerdictIsOnItsWay, Sending
<1>4. ASSUME NEW cmd \in Issued, Issue(cmd) PROVE VerdictIsOnItsWay'
  BY <1>4, IssuedLines DEF VerdictIsOnItsWay
<1>5. CASE up # <<>> /\ Read(Head(up)) /\ Took(Head(up))
  <2>1. /\ UNCHANGED <<down, main, misread, swallowed>> /\ Head(up) = up[1] /\ 1 \in 1..Len(up)
        /\ \A i \in 1..Len(up) : i = 1 \/ (i - 1 \in 1..Len(up') /\ up'[i - 1] = up[i])
    BY <1>5 DEF Took, host
  <2>2. client'.at = "ok" =>
            client' = client /\ ~Accepted(up[1]) /\ ~Rejected(up[1])
    BY <1>5, <2>1 DEF Read, ReadOk, ReadError, ReadEvent, SkipLine, Idle
  <2>3. client'.at = "ok" =>
            ~(up[1].n = client.n /\ up[1].kind \in Verdicts) \/ client.n \in misread
    BY <1>0, <2>1, <2>2 DEF Accepted, Rejected, OwnKind, IsSettling, Verdicts
  <2> QED
    BY <2>1, <2>2, <2>3 DEF VerdictIsOnItsWay
<1>6. CASE Timeout \/ UNCHANGED vars
  BY <1>6 DEF Timeout, vars, VerdictIsOnItsWay, Idle
<1> QED
  BY <1>1, <1>2, <1>3, <1>4, <1>5, <1>6, StepCases
-----------------------------------------------------------------------------
(* The theorems *)

LEMMA Invariance == Spec => []IInv
<1>1. Init => IInv
  BY InitType, InitMeant, InitIds DEF IInv
<1>2. IInv /\ [Next]_vars => IInv'
  BY StepType, StepMeant, StepUnique, StepDebts, StepIds, StepOwnKind, StepOnItsWay DEF IInv
<1> QED
  BY <1>1, <1>2, PTL DEF Spec

\* Every variable of the bridge holds a value of its kind, and the lines that
\* the main task reads draw at most one transaction id each.
THEOREM TypeCorrect == Spec => []TypeOK
BY Invariance, PTL DEF IInv

\* A caller of _wait_for_ok waits in vain only for a line that was swallowed, or
\* for a command whose text was misread.
THEOREM VerdictIsOnItsWayHolds == Spec => []VerdictIsOnItsWay
BY Invariance, PTL DEF IInv

\* The line that ends _wait_for_ok, with a reason or not, is about the command
\* that was written, or about one whose caller had left or whose text, with a
\* line end in it or too long, was read as other lines.
THEOREM OwnVerdictHolds == Spec => OwnVerdict
<1>1. IInv => \A line \in {up[i] : i \in 1..Len(up)} :
                 ReadOk(line) \/ ReadError(line)
                     => line.n = client.n \/ line.n \in gaveUp \cup misread
  <2> SUFFICES ASSUME IInv, NEW line, ReadOk(line) \/ ReadError(line)
               PROVE  line.n = client.n \/ line.n \in gaveUp \cup misread
    OBVIOUS
  <2>1. client.at = "ok" /\ ReadLine(line) /\ (IsSettling(line) \/ line.kind = "errorReason")
    BY DEF ReadOk, ReadError, Accepted, Rejected, IsSettling
  <2>2. up \in Seq(Lines)
    BY DEF IInv, TypeOK
  <2>3. line = up[1] /\ 1 \in 1..Len(up)
    BY <2>1, <2>2, ReadFacts
  <2>4. CASE IsSettling(line)
    BY <2>1, <2>3, <2>4 DEF IInv, Debts, Owed, Loose
  <2>5. CASE line.kind = "errorReason"
    BY <2>3, <2>5 DEF IInv, Meant
  <2> QED
    BY <2>1, <2>4, <2>5
<1> QED
  BY <1>1, Invariance, PTL DEF OwnVerdict, Spec

\* The line that ends _wait_for_event is about the command that was written, or
\* about one whose caller had left before its verdict, whose text was misread,
\* or one of whose lines became part of another.
THEOREM OwnAnswerHolds == Spec => OwnAnswer
<1>1. IInv => \A line \in {up[i] : i \in 1..Len(up)} :
                 ReadEvent(line)
                     => line.n = client.n \/ line.n \in gaveUp \cup misread \cup swallowed
  <2> SUFFICES ASSUME IInv, NEW line, ReadEvent(line)
               PROVE  line.n = client.n \/ line.n \in gaveUp \cup misread \cup swallowed
    OBVIOUS
  <2>1. client.at = "event" /\ ReadLine(line) /\ Settles(line)
    BY DEF ReadEvent
  <2>2. up \in Seq(Lines) /\ TypeOK
    BY DEF IInv, TypeOK
  <2>3. line = up[1] /\ 1 \in 1..Len(up)
    BY <2>1, <2>2, ReadFacts
  <2>4. CASE line.kind = "errorReason"
    BY <2>3, <2>4 DEF IInv, Meant
  <2>5. CASE line.kind # "errorReason"
    <3>1. client.cmd \in Cmd
      BY <2>1, <2>2, ClientFacts
    <3>2. line.kind \in Answering /\ line.xid = client.xid
      BY <2>1, <2>5, <3>1 DEF Settles, EventKind, Answering, Cmd
    <3>3. <<line.xid, line.n>> \in Tags
      BY <2>3, <3>2 DEF Tags
    <3> QED
      BY <2>1, <3>2, <3>3 DEF IInv, Ids, Leads, Loose
  <2> QED
    BY <2>4, <2>5
<1> QED
  BY <1>1, Invariance, PTL DEF OwnAnswer, Spec

\* An answer to the command that waits is passed over only while its caller
\* waits for ok, when it took another command's ok for its own, or when its
\* text was misread.
THEOREM AnswerMissedOnlyEarlyHolds == Spec => AnswerMissedOnlyEarly
<1>1. IInv => \A line \in OwnAnswers :
                 SkipLine(line) => client.at = "ok" \/ client.n \in gaveUp \cup misread
  <2> SUFFICES ASSUME IInv, NEW line \in OwnAnswers, SkipLine(line),
                      client.at # "ok", client.n \notin gaveUp \cup misread
               PROVE  FALSE
    OBVIOUS
  <2>1. client.at = "event" /\ ReadLine(line) /\ ~Settles(line)
    BY DEF SkipLine
  <2>2. up \in Seq(Lines)
    BY DEF IInv, TypeOK
  <2>3. line = up[1] /\ 1 \in 1..Len(up)
    BY <2>1, <2>2, ReadFacts
  <2>4. /\ client # Idle /\ line.n = client.n
        /\ line.kind \in {"errorEvent", "tools", "result", "pong"}
    BY DEF OwnAnswers
  <2>5. line.xid = client.xid
    <3>1. <<line.xid, line.n>> \in Tags
      BY <2>3, <2>4 DEF Tags, Answering
    <3> QED
      BY <2>1, <2>4, <3>1 DEF IInv, Ids, Leads, Loose
  <2>6. line.kind = "errorEvent" \/ line.kind = EventKind(client.cmd)
    BY <2>3, <2>4 DEF IInv, OwnKind
  <2>7. client.cmd = "scan" => EventKind(client.cmd) = "device"
    BY DEF EventKind
  <2> QED
    BY <2>1, <2>4, <2>5, <2>6, <2>7 DEF Settles
<1> QED
  BY <1>1, Invariance, PTL DEF AnswerMissedOnlyEarly, Spec
===============================================================================
