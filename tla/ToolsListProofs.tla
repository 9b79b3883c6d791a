--------------------------- MODULE ToolsListProofs ---------------------------
(***************************************************************************)
(* The safety of tools/list in pages, for every firmware, page limit and   *)
(* cursor, and for counters of any width.                                  *)
(***************************************************************************)
EXTENDS ToolsList, SequenceTheorems, TLAPS

Requests == [cursor : Int \cup {None}, limit : Int]

\* n tools make a page that firmware f may send for r.
MayBePage(f, r, n) == /\ f \in Firmware /\ r \in Requests
                      /\ n \in Nat /\ n <= FullPage(f, r)

\* A walk that uses only cursors it was given asks for the next page.
IsNext(c) == walk # "astray" => c = cursor

\* The walk has the first n tools of f.
HasFirst(f, n) ==
    /\ n <= ToolCount[f]
    /\ got = FirstTools(f, n)
    /\ etag = None => cursor = None /\ n = 0 /\ walk = "on"
    /\ etag # None => /\ etag = Etag[f]
                      /\ walk = "on" => cursor = n /\ n < ToolCount[f]
                      /\ walk = "done" => n = ToolCount[f]

WalkerInv == /\ cursor \in Int \cup {None}
             /\ walk \in {"on", "done", "astray"}
             /\ walk # "astray" => \E f \in Firmware, n \in Nat : HasFirst(f, n)

RequestInv == request # None => /\ page = None /\ walk # "done"
                                /\ request \in Requests
                                /\ request.limit = ByteLimit(asked)
                                /\ IsNext(request.cursor)

IsPage(f, r, n) == /\ MayBePage(f, r, n)
                   /\ page = PageOf(f, r, n)
                   /\ r.limit = ByteLimit(asked)
                   /\ IsNext(r.cursor)

PageInv == page # None => /\ request = None /\ walk # "done"
                          /\ \E f, r, n : IsPage(f, r, n)

Inv == /\ firmware \in Firmware /\ asked \in Int
       /\ WalkerInv /\ RequestInv /\ PageInv
-----------------------------------------------------------------------------
LEMMA SizeFacts ==
    ASSUME NEW n \in Int
    PROVE  AsSize(n) \in Nat /\ AsSize(n) < SizeModulus /\ (0 <= n /\ n < SizeModulus => AsSize(n) = n)
BY LimitsAreIntegers DEF AsSize

\* A number cut to a byte is not above the number itself, and is zero only for
\* zero and for numbers above a byte.
LEMMA ByteFacts ==
    ASSUME NEW n \in Int
    PROVE  /\ ByteLimit(n) \in Nat
           /\ 0 <= n => ByteLimit(n) <= n
           /\ 1 <= n /\ ByteLimit(n) = 0 => ByteModulus <= n
BY LimitsAreIntegers DEF ByteLimit

LEMMA CountFacts ==
    ASSUME NEW f \in Firmware
    PROVE  ToolCount[f] \in Nat /\ ToolCount[f] < SizeModulus
BY CountsAreNat, LimitsAreIntegers

\* A page ends with the tools and with the limit.
LEMMA FullPageFacts ==
    ASSUME NEW f \in Firmware, NEW r \in Requests
    PROVE  /\ Start(r) \in Int /\ LimitOf(r) \in Nat \ {0}
           /\ FullPage(f, r) \in Nat /\ FullPage(f, r) <= LimitOf(r)
           /\ FullPage(f, r) > 0 => AsSize(Start(r)) + FullPage(f, r) <= ToolCount[f]
<1>1. Start(r) \in Int /\ LimitOf(r) \in Nat \ {0}
  BY LimitsAreIntegers DEF Requests, Start, LimitOf
<1>2. AsSize(Start(r)) \in Nat /\ ToolCount[f] \in Nat
  BY <1>1, SizeFacts, CountFacts
<1> QED
  BY <1>1, <1>2 DEF FullPage

\* The first n tools and the page that starts at n are the first n + m.
LEMMA Continued ==
    ASSUME NEW f, NEW n \in Nat, NEW m \in Nat
    PROVE  FirstTools(f, n) \o [j \in 1..m |-> <<f, n + j - 1>>] = FirstTools(f, n + m)
<1> DEFINE page1 == [j \in 1..m |-> <<f, n + j - 1>>]
           tool == {<<f, i>> : i \in Int}
           first == FirstTools(f, n)
           both == FirstTools(f, n + m)
<1>1. first \in Seq(tool) /\ page1 \in Seq(tool) /\ both \in Seq(tool)
  BY DEF FirstTools
<1>2. Len(first) = n /\ Len(page1) = m /\ Len(both) = n + m
  BY DEF FirstTools
<1>3. /\ first \o page1 \in Seq(tool) /\ Len(first \o page1) = n + m
      /\ \A i \in 1..(n + m) : (first \o page1)[i] = IF i <= n THEN first[i] ELSE page1[i - n]
  <2> HIDE DEF first, page1, tool
  <2> QED
    BY <1>1, <1>2, ConcatProperties
<1>4. \A i \in 1..(n + m) : both[i] = IF i <= n THEN first[i] ELSE page1[i - n]
  <2> SUFFICES ASSUME NEW i \in 1..(n + m)
               PROVE  both[i] = IF i <= n THEN first[i] ELSE page1[i - n]
    OBVIOUS
  <2>1. both[i] = <<f, i - 1>>
    BY DEF FirstTools
  <2>2. CASE i <= n
    BY <2>1, <2>2 DEF FirstTools
  <2>3. CASE i > n
    <3>1. i - n \in 1..m /\ n + (i - n) - 1 = i - 1 /\ ~(i <= n)
      BY <2>3
    <3>2. page1[i - n] = <<f, i - 1>>
      BY <3>1
    <3> QED
      BY <2>1, <3>1, <3>2
  <2> QED
    BY <2>2, <2>3
<1> HIDE DEF first, both, page1, tool
<1>5. first \o page1 = both
  BY <1>1, <1>2, <1>3, <1>4, SeqEqual
<1> QED
  BY <1>5 DEF first, both, page1
-----------------------------------------------------------------------------
LEMMA InitInv == Init => Inv
<1> SUFFICES ASSUME Init PROVE Inv
  OBVIOUS
<1>1. HasFirst(firmware, 0)
  BY CountFacts DEF Init, HasFirst, FirstTools
<1> QED
  BY <1>1 DEF Init, Inv, WalkerInv, RequestInv, PageInv

\* Taking a page is the step that the invariant is for.
LEMMA TakePageKeepsWalk ==
    ASSUME Inv, TakePage, walk' # "astray"
    PROVE  \E f \in Firmware, n \in Nat : HasFirst(f, n)'
<1>1. /\ page # None /\ walk = "on" /\ cursor' = page.next /\ etag' = page.etag
      /\ got' = got \o page.tools
      /\ walk' = IF page.next = None THEN "done" ELSE "on"
  BY DEF TakePage, Inv, WalkerInv, PageInv
<1>2. PICK f, r, n : IsPage(f, r, n)
  BY <1>1 DEF Inv, PageInv
<1>3. PICK g \in Firmware, m \in Nat : HasFirst(g, m)
  BY <1>1 DEF Inv, WalkerInv
<1>4. f \in Firmware /\ r \in Requests /\ n \in Nat /\ n <= FullPage(f, r) /\ r.cursor = cursor
  BY <1>1, <1>2 DEF IsPage, MayBePage, IsNext
<1>5. page.next = NextCursor(f, r, n) /\ page.etag = Etag[f] /\ Etag[f] # None
  BY <1>2, <1>4, NoneIsOutside DEF IsPage, PageOf
<1>6. FirstTools(f, m) = got /\ Start(r) = m /\ m <= ToolCount[f]
  <2>1. CASE etag = None
    BY <1>1, <1>3, <1>4, <2>1, CountFacts DEF HasFirst, Start, FirstTools
  <2>2. CASE etag # None
    <3>1. f = g
      BY <1>1, <1>3, <1>4, <1>5, <2>2, EtagsDiffer DEF HasFirst, TakePage
    <3> QED
      BY <1>1, <1>3, <1>4, <2>2, <3>1, NoneIsOutside DEF HasFirst, Start
  <2> QED
    BY <2>1, <2>2
<1>7. ToolCount[f] \in Nat /\ ToolCount[f] < SizeModulus
  BY <1>4, CountFacts
<1>8. AsSize(m) = m
  <2>1. 0 <= m /\ m < SizeModulus
    BY <1>6, <1>7, LimitsAreIntegers
  <2> QED
    BY <2>1, SizeFacts
<1>9. m + n <= ToolCount[f] /\ AsSize(m + n) = m + n
  <2>1. m + n <= ToolCount[f]
    <3>1. FullPage(f, r) \in Nat /\ (FullPage(f, r) > 0 => m + FullPage(f, r) <= ToolCount[f])
      BY <1>4, <1>6, <1>8, FullPageFacts
    <3> QED
      BY <1>4, <1>6, <1>7, <3>1
  <2>2. m + n \in Nat /\ m + n < SizeModulus
    BY <1>4, <1>7, <2>1, LimitsAreIntegers
  <2> QED
    BY <2>1, <2>2, SizeFacts
<1>10. got' = FirstTools(f, m + n)
  BY <1>1, <1>2, <1>4, <1>6, <1>8, Continued DEF IsPage, PageOf
<1>11. page.next = IF m + n < ToolCount[f] THEN m + n ELSE None
  BY <1>5, <1>6, <1>9 DEF NextCursor
<1>12. HasFirst(f, m + n)'
  BY <1>1, <1>4, <1>5, <1>7, <1>9, <1>10, <1>11, NoneIsOutside DEF HasFirst
<1> QED
  BY <1>4, <1>12

LEMMA StepInv == Inv /\ [Next]_vars => Inv'
<1> SUFFICES ASSUME Inv, [Next]_vars PROVE Inv'
  OBVIOUS
<1> USE DEF Inv
<1>1. ASSUME NEW n \in Asked, Ask(n) PROVE Inv'
  <2>1. n \in Int /\ ByteLimit(n) \in Int /\ cursor \in Int \cup {None}
    BY LimitsAreIntegers, ByteFacts DEF WalkerInv
  <2>2. WalkerInv'
    BY <1>1 DEF Ask, WalkerInv, walker, HasFirst
  <2>3. request' \in Requests /\ request'.limit = ByteLimit(asked') /\ request'.cursor = cursor
    BY <1>1, <2>1 DEF Ask, Requests
  <2> QED
    BY <1>1, <2>1, <2>2, <2>3 DEF Ask, walker, device, RequestInv, PageInv, IsNext
<1>2. ASSUME NEW c \in Foreign, Seek(c) PROVE Inv'
  BY <1>2, LimitsAreIntegers DEF Seek, device, WalkerInv, RequestInv, PageInv
<1>3. ASSUME NEW n \in 0..DefaultLimit, HandleToolsList(n) PROVE Inv'
  <2>0. PICK f, r : f = firmware /\ r = request
    OBVIOUS
  <2>1. MayBePage(f, r, n)
    BY <1>3, <2>0, LimitsAreIntegers DEF HandleToolsList, RequestInv, MayBePage
  <2>2. IsPage(f, r, n)'
    BY <1>3, <2>0, <2>1 DEF HandleToolsList, device, walker, RequestInv, IsPage, MayBePage, IsNext
  <2>3. WalkerInv'
    BY <1>3 DEF HandleToolsList, WalkerInv, walker, HasFirst
  <2> QED
    BY <1>3, <2>2, <2>3 DEF HandleToolsList, device, walker, RequestInv, PageInv
<1>4. ASSUME LoseRequest PROVE Inv'
  BY <1>4 DEF LoseRequest, device, walker, WalkerInv, HasFirst, RequestInv, PageInv, IsPage, IsNext
<1>5. ASSUME LosePage PROVE Inv'
  BY <1>5 DEF LosePage, device, walker, WalkerInv, HasFirst, RequestInv, PageInv, IsNext
<1>6. ASSUME NEW f \in Firmware, Flash(f) PROVE Inv'
  BY <1>6 DEF Flash, walker, WalkerInv, HasFirst, RequestInv, PageInv, IsPage, IsNext
<1>7. ASSUME TakePage PROVE Inv'
  <2>1. cursor' \in Int \cup {None}
    <3>1. PICK f, r, n : IsPage(f, r, n)
      BY <1>7 DEF TakePage, PageInv
    <3>2. Start(r) + n \in Int
      BY <3>1, FullPageFacts DEF IsPage, MayBePage
    <3> QED
      BY <1>7, <3>1, <3>2 DEF TakePage, IsPage, PageOf, NextCursor
  <2>2. WalkerInv'
    BY <1>7, <2>1, TakePageKeepsWalk DEF TakePage, WalkerInv
  <2>3. request = None
    BY <1>7 DEF TakePage, PageInv
  <2> QED
    BY <1>7, <2>2, <2>3 DEF TakePage, device, RequestInv, PageInv
<1>8. ASSUME StartAgain PROVE Inv'
  <2>1. HasFirst(firmware, 0)'
    BY <1>8, CountFacts DEF StartAgain, device, HasFirst, FirstTools
  <2>2. request = None
    BY <1>8 DEF StartAgain, PageInv
  <2> QED
    BY <1>8, <2>1, <2>2 DEF StartAgain, device, WalkerInv, RequestInv, PageInv
<1>9. CASE UNCHANGED vars
  BY <1>9 DEF vars, WalkerInv, HasFirst, RequestInv, PageInv, IsPage, IsNext
<1> QED
  BY <1>1, <1>2, <1>3, <1>4, <1>5, <1>6, <1>7, <1>8, <1>9 DEF Next

LEMMA Invariance == Spec => []Inv
BY InitInv, StepInv, PTL DEF Spec
-----------------------------------------------------------------------------
\* For every list of tools and every page limit: a walk that uses only cursors it
\* was given holds the first tools of one firmware, in order and each of them
\* once, and all of them when it is done.
THEOREM WalkIsExactHolds == Spec => []WalkIsExact
<1>1. Inv => WalkIsExact
  <2> SUFFICES ASSUME Inv, walk # "astray"
               PROVE  \E f \in Firmware : /\ Len(got) <= ToolCount[f]
                                          /\ got = FirstTools(f, Len(got))
                                          /\ walk = "done" => Len(got) = ToolCount[f]
    BY DEF WalkIsExact
  <2>1. PICK f \in Firmware, n \in Nat : HasFirst(f, n)
    BY DEF Inv, WalkerInv
  <2>2. Len(got) = n
    BY <2>1 DEF HasFirst, FirstTools
  <2> QED
    BY <2>1, <2>2 DEF HasFirst
<1> QED
  BY <1>1, Invariance, PTL

\* For every cursor, whatever its sign and size: a page names only tools that
\* the device has.
THEOREM ListedToolsExistHolds == Spec => []ListedToolsExist
<1>1. Inv => ListedToolsExist
  <2> SUFFICES ASSUME Inv, page # None, NEW j \in 1..Len(page.tools)
               PROVE  \E f \in Firmware : page.tools[j] \in Tools(f)
    BY DEF ListedToolsExist
  <2>1. PICK f, r, n : IsPage(f, r, n)
    BY DEF Inv, PageInv
  <2>2. f \in Firmware /\ r \in Requests /\ n \in Nat /\ n <= FullPage(f, r)
    BY <2>1 DEF IsPage, MayBePage
  <2>3. page.tools = [i \in 1..n |-> <<f, AsSize(Start(r)) + i - 1>>]
    BY <2>1 DEF IsPage, PageOf
  <2>4. j \in 1..n /\ page.tools[j] = <<f, AsSize(Start(r)) + j - 1>>
    BY <2>2, <2>3
  <2>5. AsSize(Start(r)) \in Nat /\ AsSize(Start(r)) + j - 1 <= ToolCount[f] - 1
    <3>1. /\ Start(r) \in Int /\ FullPage(f, r) \in Nat
          /\ FullPage(f, r) > 0 => AsSize(Start(r)) + FullPage(f, r) <= ToolCount[f]
      BY <2>2, FullPageFacts
    <3>2. AsSize(Start(r)) \in Nat /\ ToolCount[f] \in Nat
      BY <2>2, <3>1, SizeFacts, CountFacts
    <3> QED
      BY <2>2, <2>4, <3>1, <3>2
  <2> QED
    BY <2>2, <2>4, <2>5, CountFacts DEF Tools
<1> QED
  BY <1>1, Invariance, PTL

\* For every limit asked for, above a byte too: a page never holds more tools.
THEOREM NeverMoreThanAskedHolds == Spec => []NeverMoreThanAsked
<1>1. Inv => NeverMoreThanAsked
  <2> SUFFICES ASSUME Inv, page # None, asked >= 1 PROVE Len(page.tools) <= asked
    BY DEF NeverMoreThanAsked
  <2>1. PICK f, r, n : IsPage(f, r, n)
    BY DEF Inv, PageInv
  <2>2. r \in Requests /\ n \in Nat /\ n <= LimitOf(r) /\ r.limit = ByteLimit(asked)
    BY <2>1, FullPageFacts DEF IsPage, MayBePage
  <2>3. Len(page.tools) = n
    BY <2>1, <2>2 DEF IsPage, PageOf
  <2>4. asked \in Int /\ ByteLimit(asked) \in Nat /\ ByteLimit(asked) <= asked
    BY ByteFacts DEF Inv
  <2>5. ByteLimit(asked) = 0 => DefaultLimit <= asked
    BY <2>4, ByteFacts, LimitsAreIntegers
  <2> QED
    BY <2>2, <2>3, <2>4, <2>5, LimitsAreIntegers DEF LimitOf
<1> QED
  BY <1>1, Invariance, PTL
===============================================================================
