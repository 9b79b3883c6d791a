------------------------------ MODULE Directory ------------------------------
(***************************************************************************)
(* What the Python host interface                                          *)
(* (examples/host_mcp_interface/phymcp-host-interface.py) remembers of the *)
(* lines it reads: the devices and their names, and the device that each   *)
(* name stands for.  Several threads may use one interface.  A lock is     *)
(* held from the write of a command to its end, and all lines are read     *)
(* under it; names are looked up without it, before.                       *)
(*                                                                         *)
(* Two devices may have the same name, and a device may change its name.   *)
(* What a line says about signal strength, times and tools is left out,    *)
(* and so are lines that say nothing else.                                 *)
(***************************************************************************)
EXTENDS Integers, Sequences

CONSTANTS Mac, Name, Thread,
          NoMac, NoName,
          MaxLines   \* bound: lines read

ASSUME IdsDiffer == Mac \cap Name = {} /\ NoMac \notin Mac \cup Name /\ NoName \notin Mac \cup Name
ASSUME LinesAreNat == MaxLines \in Nat

VARIABLES
    devices,    \* _devices: the name in each entry, NoName if there is none
    aliases,    \* _aliases
    caller,     \* what each thread does
    heard       \* history: the device lines read, and the names then listed

vars == <<devices, aliases, caller, heard>>

caches == <<devices, aliases>>

Idle == [at |-> "idle"]

Init ==
    /\ devices = [m \in Mac |-> NoName]
    /\ aliases = [n \in Name |-> NoMac]
    /\ caller = [t \in Thread |-> Idle]
    /\ heard = <<>>

DeviceLine == [mac : Mac, name : Name \cup {NoName}]
-----------------------------------------------------------------------------
(* _remember_line and _device_from_line *)

\* A line without a name leaves the entry the one it has.
NameAfter(line) == IF line.name = NoName THEN devices[line.mac] ELSE line.name

\* Mutant of AliasFor: only a name in the line itself is looked at.
AliasForNewName(line) ==
    IF line.name = NoName THEN aliases ELSE [aliases EXCEPT ![line.name] = line.mac]

\* The entry's name, new or not, stands for this device from now on.  Names
\* that the device had before go on to stand for it, too.
AliasFor(line) ==
    IF NameAfter(line) = NoName THEN aliases
                                ELSE [aliases EXCEPT ![NameAfter(line)] = line.mac]

RememberDevice(line) ==
    /\ devices' = [devices EXCEPT ![line.mac] = NameAfter(line)]
    /\ aliases' = AliasFor(line)
    /\ heard' = Append(heard, [line EXCEPT !.name = NameAfter(line)])
-----------------------------------------------------------------------------
(* The threads *)

\* _resolve_device_id; a name that nobody has had is a KeyError.
Resolved(id) == IF id \in Mac THEN id ELSE aliases[id]

Known(id) == Resolved(id) # NoMac

Ready(id, mac) == [at |-> "ready", id |-> id, mac |-> mac, since |-> Len(heard)]

\* call_tool, ping, and list_tools unless it returns what is cached, up to the
\* lock.
Begin(t, id) ==
    /\ caller[t] = Idle /\ Known(id)
    /\ caller' = [caller EXCEPT ![t] = Ready(id, Resolved(id))]
    /\ UNCHANGED <<caches, heard>>

BeginScan(t) ==
    /\ caller[t] = Idle
    /\ caller' = [caller EXCEPT ![t] = Ready(NoName, NoMac)]
    /\ UNCHANGED <<caches, heard>>

\* Mutant of Write: without the lock.
WriteAtOnce(t) ==
    /\ caller[t].at = "ready"
    /\ caller' = [caller EXCEPT ![t].at = "holding"]
    /\ UNCHANGED <<caches, heard>>

\* The lock is taken and the command written.
Write(t) ==
    /\ caller[t].at = "ready"
    /\ \A u \in Thread : caller[u].at # "holding"
    /\ caller' = [caller EXCEPT ![t].at = "holding"]
    /\ UNCHANGED <<caches, heard>>

\* Any device may answer: a late answer to an earlier command, or one that the
\* host firmware was sent without having asked.
ReadDevice(t, line) ==
    /\ caller[t].at = "holding" /\ Len(heard) < MaxLines
    /\ RememberDevice(line)
    /\ UNCHANGED caller

\* The end of a command: its answer, an error, a timeout.
Leave(t) ==
    /\ caller[t].at = "holding"
    /\ caller' = [caller EXCEPT ![t] = Idle]
    /\ UNCHANGED <<caches, heard>>
-----------------------------------------------------------------------------
Step(t) ==
    \/ \E id \in Mac \cup Name : Begin(t, id)
    \/ BeginScan(t) \/ Write(t) \/ Leave(t)
    \/ \E line \in DeviceLine : ReadDevice(t, line)

Next == \E t \in Thread : Step(t)

Spec == Init /\ [][Next]_vars
-----------------------------------------------------------------------------
(* Properties *)

Callers == {Idle} \cup [at : {"ready", "holding"},
                        id : Mac \cup Name \cup {NoName}, mac : Mac \cup {NoMac},
                        since : 0..Len(heard)]

\* Every variable holds a value of its kind, and at most one thread is between
\* the write of a command and its end.
TypeOK ==
    /\ devices \in [Mac -> Name \cup {NoName}]
    /\ aliases \in [Name -> Mac \cup {NoMac}]
    /\ heard \in Seq(DeviceLine)
    /\ caller \in [Thread -> Callers]
    /\ \A t, u \in Thread :
          caller[t].at = "holding" /\ caller[u].at = "holding" => t = u

\* Among the first i lines, the last from a device that the list then showed
\* under the name n is one of m.
LastHeard(m, n, i) ==
    \E j \in 1..i :
        /\ heard[j].mac = m /\ heard[j].name = n
        /\ \A k \in (j + 1)..i : heard[k].name # n

\* A command that is given by name is written to the device that was the last
\* to be heard under it when the command was given, however devices share or
\* change names.  What other threads read while this one waits for the lock is
\* not looked at: another device may have the name by then.
NameReachesLastHeard ==
    [][\A t \in Thread :
          Write(t) /\ caller[t].id \in Name
              => LastHeard(caller[t].mac, caller[t].id, caller[t].since)]_vars
===============================================================================
