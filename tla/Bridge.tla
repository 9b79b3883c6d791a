-------------------------------- MODULE Bridge --------------------------------
(***************************************************************************)
(* The serial bridge: the Python host interface                            *)
(* (examples/host_mcp_interface/phymcp-host-interface.py), which writes a  *)
(* command line and reads lines until one ends its wait, and the host      *)
(* firmware (examples/led_control/main/host_main.c over src/phymcp_host.c),*)
(* whose main task executes command lines one after the other while the    *)
(* receive task prints an event line for every frame that arrives.         *)
(*                                                                         *)
(* The interface holds one lock for a whole command, so there is at most   *)
(* one caller between a write and the line it waits for.  Waits end by     *)
(* timeout at any moment: nothing relates the interface's timeouts to how  *)
(* long the main task is busy.  Lines carry the number of the command they *)
(* are about; the program never reads it, only the properties do.          *)
(*                                                                         *)
(* The host reads what it is sent as lines, each one a command.  A name    *)
(* prefix, a tool name and the arguments of a call are written as they     *)
(* come: with a line end in them, or too long for the line buffer, the     *)
(* text of one command is read as several lines, and any of these may be   *)
(* a command that nobody issued.                                           *)
(*                                                                         *)
(* A printed line longer than serial_printf's buffer loses its end, and    *)
(* the line end with it: what is printed next is read as part of it.       *)
(***************************************************************************)
EXTENDS Integers, Sequences, FiniteSets

CONSTANTS Device,       \* devices in range
          Issued,       \* the kinds of command that callers issue
          Stray,        \* what the lines of a misread text may be
          MaxCommands,  \* bound: commands issued
          MaxLines,     \* bound: lines that a misread text makes
          MaxOdd        \* bound: texts and event lines that are odd

Cmd == {"scan", "tools", "call", "ping"}

\* What handle_line takes a line for: a command, a line that is answered with a
\* reason, the first part of one longer than the line buffer, help, or nothing.
What == Cmd \cup {"bad", "long", "help", "blank"}

ASSUME DevicesAreFinite == IsFiniteSet(Device)
ASSUME IssuedAreCommands == Issued \subseteq Cmd
ASSUME StrayAreLines == Stray \subseteq What
ASSUME BoundsAreNat == {MaxCommands, MaxOdd} \subseteq Nat /\ MaxLines \in Nat \ {0}

VARIABLES
    client,    \* the caller that holds the lock: what it waits for
    issued,    \* commands issued so far, which also numbers them
    down,      \* lines on their way to the host
    main,      \* what the host's main task is doing
    sentXids,  \* transaction ids drawn by phymcp_next_xid
    asked,     \* requests that a device may still answer
    up,        \* lines printed and not yet read
    gaveUp,    \* history: commands whose caller left before their verdict
    misread,   \* history: commands whose text was not read as the line meant
    swallowed, \* history: commands with a line that became part of another
    odd        \* history: texts and event lines that were odd

vars == <<client, issued, down, main, sentXids, asked, up, gaveUp, misread, swallowed, odd>>

host == <<main, sentXids, asked>>

Idle == [at |-> "idle"]
Reading == [at |-> "reading"]

Init ==
    /\ client = Idle /\ issued = 0 /\ odd = 0
    /\ gaveUp = {} /\ misread = {} /\ swallowed = {}
    /\ down = <<>> /\ up = <<>>
    /\ main = Reading /\ sentXids = 0 /\ asked = {}

\* Whether a text is misread, or an event line cut or repeated: these are
\* counted, and bounded.
Odd(isOdd) == IF isOdd THEN odd < MaxOdd /\ odd' = odd + 1 ELSE UNCHANGED odd

\* What _parse_line makes of a cut line and the next.  The text after " json="
\* is not searched for fields; of two with one name the later counts.  (The cmd
\* of a reason is not looked at, and an ok line that is cut is a scan's, which
\* its scanDone follows.)
Joined(first, next) ==
    [first EXCEPT !.open = IF first.open = "json" /\ next.open # "no" THEN "json" ELSE next.open,
                  !.xid = IF first.open = "fields" /\ next.xid # 0 THEN next.xid ELSE @]

\* serial_printf, with lines that fit in its buffer or not.
Says(line) ==
    LET last == Len(up)
    IN  IF up # <<>> /\ up[last].open # "no"
        THEN /\ up' = [up EXCEPT ![last] = Joined(@, line)]
             /\ swallowed' = swallowed \cup {line.n}
        ELSE up' = Append(up, line) /\ UNCHANGED swallowed

\* open: where the line lost its end, in its fields or in its JSON text.
Line(kind, cmd, xid, n, open) == [kind |-> kind, cmd |-> cmd, xid |-> xid, n |-> n, open |-> open]

CutFields(cut) == IF cut THEN "fields" ELSE "no"

EventKind(cmd) == CASE cmd = "scan" -> "device"
                    [] cmd = "tools" -> "tools"
                    [] cmd = "call" -> "result"
                    [] cmd = "ping" -> "pong"
-----------------------------------------------------------------------------
(* The main task: app_main, handle_line and the handlers of the commands. *)

\* The main task reads a line to its end.
MainReads(what) ==
    /\ main = Reading /\ down # <<>> /\ Head(down).what \in what
    /\ down' = Tail(down)

\* Mutant of MainSend: the line buffer is not reset, and the line runs again.
MainSendAgain ==
    /\ main = Reading /\ down # <<>> /\ Head(down).what \in Cmd
    /\ main' = [at |-> "sent", cmd |-> Head(down).what, n |-> Head(down).n,
                xid |-> sentXids + 1, cut |-> FALSE]
    /\ sentXids' = sentXids + 1
    /\ UNCHANGED <<client, issued, down, asked, up, gaveUp, misread, swallowed, odd>>

\* A command, issued or not.  Its request draws a new transaction id, and is
\* sent, or the send fails.
MainSend ==
    /\ MainReads(Cmd)
    /\ LET c == Head(down)
           xid == sentXids + 1
       IN  /\ \E ok \in BOOLEAN, d \in Device :
                 /\ main' = [at |-> IF ok THEN "sent" ELSE "failed",
                             cmd |-> c.what, n |-> c.n, xid |-> xid, cut |-> c.cut]
                 /\ asked' = asked \cup
                      {[cmd |-> c.what, n |-> c.n, xid |-> xid, from |-> e] :
                         e \in IF ~ok THEN {} ELSE IF c.what = "scan" THEN Device ELSE {d}}
           /\ sentXids' = xid
    /\ UNCHANGED <<client, issued, up, gaveUp, misread, swallowed, odd>>

OkLine == Line("ok", main.cmd, main.xid, main.n, CutFields(main.cut))
ErrorLine == Line("errorCmd", main.cmd, 0, main.n, "no")

\* Only after the send does the main task say so, repeating a scan's prefix,
\* however long.  A scan then sleeps.
MainPrintsOk ==
    /\ main.at = "sent"
    /\ Says(OkLine)
    /\ main' = IF main.cmd = "scan" THEN [main EXCEPT !.at = "window"] ELSE Reading
    /\ UNCHANGED <<client, issued, down, sentXids, asked, gaveUp, misread, odd>>

\* Mutant of MainPrintsError: it prints the ok line as well.
MainPrintsBoth ==
    /\ main.at = "failed"
    /\ up' = up \o <<ErrorLine, OkLine>>
    /\ main' = Reading
    /\ UNCHANGED <<client, issued, down, sentXids, asked, gaveUp, misread, swallowed, odd>>

\* Mutant of MainPrintsError: the handler returns without a word.
MainSaysNothing ==
    /\ main.at = "failed"
    /\ main' = Reading
    /\ UNCHANGED <<client, issued, down, sentXids, asked, up, gaveUp, misread, swallowed, odd>>

MainPrintsError ==
    /\ main.at = "failed"
    /\ Says(ErrorLine)
    /\ main' = Reading
    /\ UNCHANGED <<client, issued, down, sentXids, asked, gaveUp, misread, odd>>

\* Mutant of MainEndsScan: the delay never ends.
MainSleepsOn == main.at = "window" /\ UNCHANGED vars

MainEndsScan ==
    /\ main.at = "window"
    /\ Says(Line("scanDone", "scan", main.xid, main.n, "no"))
    /\ main' = Reading
    /\ UNCHANGED <<client, issued, down, sentXids, asked, gaveUp, misread, odd>>

\* A line that is no command is answered with a reason, which repeats its first
\* word, however long; one longer than the line buffer when the buffer is full.
MainReports ==
    /\ MainReads({"bad", "long", "help"})
    /\ Says(Line(IF Head(down).what = "help" THEN "help" ELSE "errorReason",
                 "", 0, Head(down).n, CutFields(Head(down).cut)))
    /\ UNCHANGED <<client, issued, host, gaveUp, misread, odd>>

MainSkips ==
    /\ MainReads({"blank"})
    /\ UNCHANGED <<client, issued, host, up, gaveUp, misread, swallowed, odd>>
-----------------------------------------------------------------------------
(* The receive task: host_rx_cb and host_event_cb.  It has the higher      *)
(* priority, and may print an answer before the main task prints its ok.   *)

\* The air may repeat the answer.
RxPrintsEvent ==
    /\ \E a \in asked, kind \in {"answer", "errorEvent"}, cut, again \in BOOLEAN :
          /\ Odd(cut \/ again)
          /\ Says(Line(IF kind = "answer" THEN EventKind(a.cmd) ELSE kind,
                       "", a.xid, a.n, IF cut THEN "json" ELSE "no"))
          /\ asked' = IF again THEN asked ELSE asked \ {a}
    /\ UNCHANGED <<client, issued, down, main, sentXids, gaveUp, misread>>
-----------------------------------------------------------------------------
(* The interface. *)

\* The lines of a misread text.  Only what the host prints of a scan's prefix
\* and of a word that is no command can be too long for serial_printf.
StrayLine == [what : Stray, cut : {FALSE}] \cup [what : Stray \cap {"scan", "bad"}, cut : {TRUE}]

\* The commands with a part that is written unchecked: name_prefix, tool_name
\* and the arguments.
FreeText == {"scan", "call"}

Plain(cmd) == <<[what |-> cmd, cut |-> FALSE]>>

\* The lines that the text of a command may be read as.
Texts(cmd) == {Plain(cmd)} \cup
                 IF cmd \in FreeText THEN UNION {[1..k -> StrayLine] : k \in 1..MaxLines}
                                     ELSE {}

\* _write_command, with lines of earlier commands perhaps still unread.
Issue(cmd) ==
    /\ client = Idle /\ issued < MaxCommands
    /\ \E text \in Texts(cmd) :
          /\ Odd(text # Plain(cmd))
          /\ misread' = IF text = Plain(cmd) THEN misread ELSE misread \cup {issued + 1}
          /\ down' = down \o [i \in 1..Len(text) |->
                                [what |-> text[i].what, cut |-> text[i].cut, n |-> issued + 1]]
    /\ issued' = issued + 1
    /\ client' = [at |-> "ok", cmd |-> cmd, n |-> issued + 1]
    /\ UNCHANGED <<host, up, gaveUp, swallowed>>

\* _read_parsed_until.  A line without end is read when nothing follows it for
\* the length of the read timeout.
ReadLine(line) == /\ up # <<>> /\ line = Head(up)
                  /\ up' = Tail(up)

Accepted(line) == line.kind = "ok" /\ line.cmd = client.cmd

Rejected(line) == \/ line.kind = "errorCmd" /\ line.cmd = client.cmd
                  \/ line.kind = "errorReason"

\* _wait_for_ok: the first ok line of the same command settles it, whichever
\* write it answers.
ReadOk(line) ==
    /\ client.at = "ok" /\ ReadLine(line) /\ Accepted(line)
    /\ client' = [at |-> "event", cmd |-> client.cmd, n |-> client.n, xid |-> line.xid]
    /\ gaveUp' = IF line.n = client.n THEN gaveUp ELSE gaveUp \cup {client.n}
    /\ UNCHANGED <<issued, down, host, misread, swallowed, odd>>

\* RuntimeError
ReadError(line) ==
    /\ client.at = "ok" /\ ReadLine(line) /\ Rejected(line)
    /\ client' = Idle
    /\ gaveUp' = IF line.n = client.n THEN gaveUp ELSE gaveUp \cup {client.n}
    /\ UNCHANGED <<issued, down, host, misread, swallowed, odd>>

\* Mutant of Settles: error events are left out of the kinds.
SettlesByAnswer(line) ==
    /\ line.xid = client.xid
    /\ line.kind = IF client.cmd = "scan" THEN "scanDone" ELSE EventKind(client.cmd)

\* Mutant of Settles: the transaction id is not compared.
SettlesByKind(line) ==
    line.kind = "errorEvent" \/ (line.kind = EventKind(client.cmd) /\ client.cmd # "scan")
                             \/ (line.kind = "scanDone" /\ client.cmd = "scan")

\* What _wait_for_event looks for; a scan goes on until scanDone.
Settles(line) ==
    /\ line.xid = client.xid
    /\ line.kind \in {"errorEvent", "errorReason",
                      IF client.cmd = "scan" THEN "scanDone" ELSE EventKind(client.cmd)}

\* The answer is returned, or raised as RuntimeError.
ReadEvent(line) ==
    /\ client.at = "event" /\ ReadLine(line) /\ Settles(line)
    /\ client' = Idle
    /\ UNCHANGED <<issued, down, host, gaveUp, misread, swallowed, odd>>

\* Any other line is remembered in the device caches at most.
SkipLine(line) ==
    /\ ReadLine(line)
    /\ \/ client.at = "ok" /\ ~Accepted(line) /\ ~Rejected(line)
       \/ client.at = "event" /\ ~Settles(line)
    /\ UNCHANGED <<client, issued, down, host, gaveUp, misread, swallowed, odd>>

\* TimeoutError; a scan returns what it has.
Timeout ==
    /\ client # Idle
    /\ client' = Idle
    /\ gaveUp' = IF client.at = "ok" THEN gaveUp \cup {client.n} ELSE gaveUp
    /\ UNCHANGED <<issued, down, host, up, misread, swallowed, odd>>
-----------------------------------------------------------------------------
Main == \/ MainSend \/ MainPrintsOk \/ MainPrintsError \/ MainEndsScan
        \/ MainReports \/ MainSkips

Read(line) == ReadOk(line) \/ ReadError(line) \/ ReadEvent(line) \/ SkipLine(line)

Next == \/ Main
        \/ RxPrintsEvent
        \/ \E cmd \in Issued : Issue(cmd)
        \/ up # <<>> /\ Read(Head(up))
        \/ Timeout

Spec == Init /\ [][Next]_vars

\* FreeRTOS runs the main task whenever it is ready, and delays end.
FairSpec == Spec /\ WF_vars(Main)
-----------------------------------------------------------------------------
(* Properties *)

Lines == [kind : {"ok", "errorCmd", "errorReason", "errorEvent", "device", "tools",
                  "result", "pong", "scanDone", "help"},
          cmd : Cmd \cup {""}, xid : 0..sentXids, n : 1..issued,
          open : {"no", "fields", "json"}]

\* Every variable holds a value of its kind, and a line that the host reads
\* draws at most one transaction id.
TypeOK ==
    /\ issued \in 0..MaxCommands
    /\ client \in {Idle} \cup [at : {"ok"}, cmd : Cmd, n : {issued} \ {0}]
                         \cup [at : {"event"}, cmd : Cmd, n : {issued} \ {0}, xid : 0..sentXids]
    /\ down \in Seq([what : What, cut : BOOLEAN, n : 1..issued])
    /\ main \in {Reading} \cup [at : {"sent", "failed", "window"}, cmd : Cmd,
                                n : 1..issued, xid : {sentXids}, cut : BOOLEAN]
    /\ sentXids \in Nat /\ sentXids + Len(down) <= issued * MaxLines
    /\ asked \subseteq [cmd : Cmd, n : 1..issued, xid : 1..sentXids, from : Device]
    /\ up \in Seq(Lines)
    /\ gaveUp \cup misread \cup swallowed \subseteq 1..issued
    /\ odd \in 0..MaxOdd

\* The line that ends a wait for ok is about the command that was written,
\* unless it is about one whose caller left before its own came, or whose text
\* was read as other lines than the one meant: each of the other commands gets
\* at most one such line.
OwnVerdict ==
    [][\A line \in {up[i] : i \in 1..Len(up)} :
          ReadOk(line) \/ ReadError(line)
              => line.n = client.n \/ line.n \in gaveUp \cup misread]_vars

\* The answer to one command is never taken for the answer to a later one,
\* however late it comes and however often, unless the caller of the former
\* left before its ok, its text was misread, or one of its lines became part
\* of another.
OwnAnswer ==
    [][\A line \in {up[i] : i \in 1..Len(up)} :
          ReadEvent(line)
              => line.n = client.n \/ line.n \in gaveUp \cup misread \cup swallowed]_vars

\* What the devices say in answer to the command that holds the lock.
OwnAnswers == {line \in {up[i] : i \in 1..Len(up)} :
                  /\ client # Idle /\ line.n = client.n
                  /\ line.kind \in {"errorEvent", "tools", "result", "pong"}}

\* The answer to the command that is being waited for is passed over only when
\* it was printed before the command's ok line, or when the wait is for another
\* request's answer because an ok line was taken for the wrong command or the
\* text made several requests.
AnswerMissedOnlyEarly ==
    [][\A line \in OwnAnswers :
          SkipLine(line) => client.at = "ok" \/ client.n \in gaveUp \cup misread]_vars

Pending(n) == \E i \in 1..Len(down) : down[i].n = n

Verdicts == {"ok", "errorCmd", "errorReason"}

\* A caller waits in vain for its verdict only when its text was misread or the
\* line became part of one that had lost its end: else its command line, the
\* handler or the verdict itself is still to come.
VerdictIsOnItsWay ==
    client.at = "ok" =>
        \/ Pending(client.n)
        \/ main.at \in {"sent", "failed"} /\ main.n = client.n
        \/ \E i \in 1..Len(up) : up[i].n = client.n /\ up[i].kind \in Verdicts
        \/ client.n \in swallowed \cup misread

\* Every line of a command is read and executed, whether or not its caller
\* still waits.
EveryLineIsExecuted == \A n \in 1..MaxCommands : Pending(n) ~> ~Pending(n)

\* What the interface promises the MCP client: the result it returns is that
\* of the call it was asked to make.
ResultIsOfThisCall ==
    [][\A line \in {up[i] : i \in 1..Len(up)} :
          ReadEvent(line) /\ line.kind = "result" => line.n = client.n]_vars
===============================================================================
