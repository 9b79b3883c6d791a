------------------------------ MODULE ToolsList ------------------------------
(***************************************************************************)
(* tools/list in pages: phymcp_host_list_tools (src/phymcp_host.c) sends a *)
(* cursor and a limit, handle_tools_list (src/phymcp_device.c) answers     *)
(* with a page and, if there is more, the next cursor.  The program that   *)
(* follows the cursors from page to page is outside the repository.        *)
(*                                                                         *)
(* The device may be given other firmware between two pages; pages tell by *)
(* their etag.  A page that does not fit in a frame is not sent, memory    *)
(* may end in the middle of a page, and requests and pages get lost.       *)
(* Tools are counted from 0, as in the code.  cJSON leaves out a member    *)
(* that it cannot allocate, which the code does not check: not modelled.   *)
(***************************************************************************)
EXTENDS Integers, Sequences

CONSTANTS Firmware,      \* programs the device may run
          ToolCount,     \* s_config.tool_count of each
          Etag,          \* s_config.tool_etag of each
          Fits,          \* <<first tool, number of tools>>: pages that fit in a frame
          Asked,         \* limits that are asked for on the command line
          Foreign,       \* cursors that no page gave
          DefaultLimit,  \* PHYMCP_DEFAULT_TOOL_LIMIT
          SizeModulus,   \* 2^32: size_t on the device
          ByteModulus,   \* 2^8: the limit of the host API
          None,
          MaxFlashes     \* bound: changes of firmware

ASSUME CountsAreNat == ToolCount \in [Firmware -> 0..(SizeModulus - 1)]
ASSUME LimitsAreIntegers == /\ Asked \subseteq Int /\ Foreign \subseteq Int
                            /\ SizeModulus \in Nat \ {0} /\ ByteModulus \in Nat \ {0}
                            /\ DefaultLimit \in 1..ByteModulus
                            /\ MaxFlashes \in Nat
ASSUME NoneIsOutside == None \notin Int \cup {Etag[f] : f \in Firmware}
                        /\ None \notin [cursor : Int \cup {None}, limit : Int]

\* What the walk needs of the application: an etag for each list of tools.
ASSUME EtagsDiffer == \A f, g \in Firmware : Etag[f] = Etag[g] => f = g

VARIABLES
    firmware,  \* what the device runs
    flashes,   \* changes of firmware so far
    request,   \* the request being answered, or None
    page,      \* the page on its way, or None
    asked,     \* what the command line asked for in this request
    cursor,    \* the walker's next cursor: None for the first page
    etag,      \* the etag of its pages so far, or None
    got,       \* the tools on them
    walk       \* "on", "done", or "astray" after a cursor of its own

vars == <<firmware, flashes, request, page, asked, cursor, etag, got, walk>>

device == <<firmware, flashes>>
walker == <<cursor, etag, got, walk>>

Init ==
    /\ firmware \in Firmware /\ flashes = 0
    /\ request = None /\ page = None /\ asked = 0
    /\ cursor = None /\ etag = None /\ got = <<>> /\ walk = "on"
-----------------------------------------------------------------------------
(* The host *)

\* handle_tools of the host firmware casts the limit, any number on the command
\* line, to the byte that the host API takes.  It sends no cursor of its own.
ByteLimit(n) == n % ByteModulus

\* phymcp_host_list_tools leaves out a limit of zero: the device sees none, and
\* none and zero are the same to it.
Ask(n) ==
    /\ walk # "done" /\ request = None /\ page = None
    /\ request' = [cursor |-> cursor, limit |-> ByteLimit(n)]
    /\ asked' = n
    /\ UNCHANGED <<device, page, walker>>

\* A cursor that the walker did not get from a page.
Seek(c) ==
    /\ walk = "on" /\ request = None /\ page = None
    /\ cursor' = c
    /\ walk' = "astray"
    /\ got' = <<>>
    /\ UNCHANGED <<device, request, page, asked, etag>>
-----------------------------------------------------------------------------
(* handle_tools_list *)

\* atoi of the cursor, or 0 without one.
Start(r) == IF r.cursor = None THEN 0 ELSE r.cursor

\* Mutant of AsSize: the index stays signed.
AsSigned(n) == n

\* (size_t)
AsSize(n) == n % SizeModulus

LimitOf(r) == IF r.limit \in 1..DefaultLimit THEN r.limit ELSE DefaultLimit

\* Mutant of FullPage: <= for < in the loop's test of the limit.
FullPageOneMore(f, r) ==
    LET left == ToolCount[f] - AsSize(Start(r))
    IN  IF left <= 0 THEN 0 ELSE IF left <= LimitOf(r) THEN left ELSE LimitOf(r) + 1

\* The loop's full run: until the tools or the limit are used up.
FullPage(f, r) ==
    LET left == ToolCount[f] - AsSize(Start(r))
    IN  IF left <= 0 THEN 0 ELSE IF left < LimitOf(r) THEN left ELSE LimitOf(r)

\* Mutant of NextCursor: it does not count the tools of this page.
NextCursorStuck(f, r, n) ==
    IF AsSize(Start(r) + n) < ToolCount[f] THEN Start(r) ELSE None

\* Mutant of NextCursor: <= for <, as if there were always more.
NextCursorAtEnd(f, r, n) ==
    IF AsSize(Start(r) + n) <= ToolCount[f] THEN Start(r) + n ELSE None

NextCursor(f, r, n) ==
    IF AsSize(Start(r) + n) < ToolCount[f] THEN Start(r) + n ELSE None

PageOf(f, r, n) ==
    [tools |-> [j \in 1..n |-> <<f, AsSize(Start(r)) + j - 1>>],
     next  |-> NextCursor(f, r, n),
     etag  |-> Etag[f]]

\* The page ends early when there is no memory for an item; it is sent if it
\* fits in a frame.
HandleToolsList(n) ==
    /\ request # None /\ page = None
    /\ n <= FullPage(firmware, request)
    /\ <<AsSize(Start(request)), n>> \in Fits
    /\ page' = PageOf(firmware, request, n)
    /\ request' = None
    /\ UNCHANGED <<device, asked, walker>>

\* The request or its page is lost or too long, or there was no memory at all:
\* the walker's wait times out.
LoseRequest ==
    /\ request # None
    /\ request' = None
    /\ UNCHANGED <<device, page, asked, walker>>

LosePage ==
    /\ page # None
    /\ page' = None
    /\ UNCHANGED <<device, request, asked, walker>>

Flash(f) ==
    /\ flashes < MaxFlashes /\ f # firmware
    /\ firmware' = f
    /\ flashes' = flashes + 1
    /\ UNCHANGED <<request, page, asked, walker>>
-----------------------------------------------------------------------------
(* The walker *)

\* A page with the etag of those before it, or the first one.
TakePage ==
    /\ page # None /\ etag \in {None, page.etag}
    /\ got' = IF walk = "on" THEN got \o page.tools ELSE <<>>
    /\ cursor' = page.next
    /\ etag' = page.etag
    /\ walk' = IF walk = "on" /\ page.next = None THEN "done" ELSE walk
    /\ page' = None
    /\ UNCHANGED <<device, request, asked>>

\* The tools have changed: it starts again.
StartAgain ==
    /\ page # None /\ etag \notin {None, page.etag}
    /\ got' = <<>> /\ cursor' = None /\ etag' = None /\ walk' = "on"
    /\ page' = None
    /\ UNCHANGED <<device, request, asked>>
-----------------------------------------------------------------------------
Next == \/ \E n \in Asked : Ask(n)
        \/ \E c \in Foreign : Seek(c)
        \/ \E n \in 0..DefaultLimit : HandleToolsList(n)
        \/ LoseRequest \/ LosePage
        \/ \E f \in Firmware : Flash(f)
        \/ TakePage \/ StartAgain

Spec == Init /\ [][Next]_vars

\* The walker's waits time out and it asks again, in turn with every limit it
\* knows; not every request or page is lost, nor does memory end in each page.
Fairness ==
    /\ \A n \in Asked : SF_vars(Ask(n))
    /\ SF_vars(request # None /\ HandleToolsList(FullPage(firmware, request)))
    /\ SF_walker(TakePage \/ StartAgain)
    /\ WF_vars(LoseRequest) /\ WF_vars(LosePage)

FairSpec == Spec /\ Fairness
-----------------------------------------------------------------------------
(* Properties *)

Tools(f) == {<<f, i>> : i \in 0..(ToolCount[f] - 1)}

FirstTools(f, n) == [j \in 1..n |-> <<f, j - 1>>]

\* The tools of a walk so far are the first ones of one firmware, in order,
\* each of them once; when the walk is done they are all.
WalkIsExact ==
    walk # "astray" =>
        \E f \in Firmware :
            /\ Len(got) <= ToolCount[f]
            /\ got = FirstTools(f, Len(got))
            /\ walk = "done" => Len(got) = ToolCount[f]

\* Whatever the cursor, also a negative one or one past the end, the page
\* names only tools that the device has.
ListedToolsExist ==
    page # None => \A j \in 1..Len(page.tools) :
                      \E f \in Firmware : page.tools[j] \in Tools(f)

\* A page never holds more tools than were asked for, although the limit is
\* cut to a byte on the way; only zero and less mean something else.
NeverMoreThanAsked ==
    page # None /\ asked >= 1 => Len(page.tools) <= asked

\* A walk comes to its end if each tool alone fits in a frame and the walker
\* asks for single tools now and then.
WalkEnds == walk = "on" ~> walk # "on"
===============================================================================
