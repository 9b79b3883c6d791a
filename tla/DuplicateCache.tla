--------------------------- MODULE DuplicateCache ---------------------------
(***************************************************************************)
(* The duplicate cache of a phyMCP device (src/phymcp_device.c): a fixed   *)
(* array of slots that remembers, for TTL after it was sent, the response  *)
(* to each successful TOOL_CALL, so that a repeated request is answered    *)
(* from memory instead of running the tool again.                          *)
(*                                                                         *)
(* A slot is named by its index, counted from 1.  The code's entry stores  *)
(* (src_mac, type, xid); type is TOOL_CALL in every call the code makes,   *)
(* so a key here is the pair of the other two.  The response text is       *)
(* abstracted to the number of the handler run that produced it.           *)
(***************************************************************************)
EXTENDS Integers, FiniteSets

CONSTANTS Source,          \* MAC addresses that requests come from
          Xid,             \* transaction ids
          NoKey,           \* what a zeroed slot holds
          ConfiguredSize,  \* phymcp_device_config_t.duplicate_cache_size
          DupCacheMax,     \* PHYMCP_DUP_CACHE_MAX, the length of the array
          DefaultSize,     \* the 8 of duplicate_cache_size
          TTL              \* PHYMCP_DUP_CACHE_TTL_US, in clock ticks

Keys == Source \X Xid

ASSUME KeysAreFinite == IsFiniteSet(Keys)
ASSUME NoKeyIsNotAKey == NoKey \notin Keys
ASSUME SizesAreNat == /\ ConfiguredSize \in Nat
                      /\ DupCacheMax \in Nat
                      /\ DefaultSize \in 1..DupCacheMax
ASSUME TTLIsNat == TTL \in Nat

\* The configured size, unless it is zero or larger than the array.
CacheSize == IF ConfiguredSize \in 1..DupCacheMax THEN ConfiguredSize
                                                  ELSE DefaultSize

\* Slots past CacheSize are never read or written.
Slots == 1..CacheSize

Entry == [used : BOOLEAN, key : Keys \cup {NoKey}, expires : Nat, response : Nat]

ZeroedEntry == [used |-> FALSE, key |-> NoKey, expires |-> 0, response |-> 0]

ZeroedCache == [i \in Slots |-> ZeroedEntry]
-----------------------------------------------------------------------------
(* find_duplicate *)

\* Mutant of Live: the expiry is not looked at.
LiveForever(e, t) == e.used

\* An entry is still usable in the very tick in which it expires.
Live(e, t) == e.used /\ t <= e.expires

\* Mutant of Matches: the MAC address is not compared.
MatchesAnySource(e, k, t) == Live(e, t) /\ e.key[2] = k[2]

Matches(e, k, t) == Live(e, t) /\ e.key = k

\* The slot find_duplicate returns: the first match, or none.
Hit(c, k, t) == {i \in Slots : /\ Matches(c[i], k, t)
                               /\ \A j \in 1..(i-1) : ~Matches(c[j], k, t)}

\* Mutant of Swept: live entries of other calls are cleared as well.
SweptTooMuch(c, k, t) ==
    [i \in Slots |-> IF \A h \in Hit(c, k, t) : i < h
                     THEN [c[i] EXCEPT !.used = FALSE]
                     ELSE c[i]]

\* The loop marks the dead entries it passes unused, and stops at the match.
Swept(c, k, t) ==
    [i \in Slots |-> IF ~Live(c[i], t) /\ \A h \in Hit(c, k, t) : i < h
                     THEN [c[i] EXCEPT !.used = FALSE]
                     ELSE c[i]]
-----------------------------------------------------------------------------
(* store_duplicate *)

\* The first slot that is unused or expired.
FirstDead(c, t) == {i \in Slots : /\ ~Live(c[i], t)
                                  /\ \A j \in 1..(i-1) : Live(c[j], t)}

\* Mutant of StoreSlots: no search for a dead slot.
StoreAnywhere(c, t) == Slots

\* Where a new entry may go: when every slot is live, esp_random() picks one.
StoreSlots(c, t) == IF \A i \in Slots : Live(c[i], t) THEN Slots
                                                      ELSE FirstDead(c, t)

Stored(c, i, k, t, r) ==
    [c EXCEPT ![i] = [used |-> TRUE, key |-> k, expires |-> t + TTL, response |-> r]]
=============================================================================
