---------------------------- MODULE LogsTransport ----------------------------
(***************************************************************************)
(* The log entries on their way to the API                                 *)
(* (src/src/util/logs_transport.rs): one buffer for the process, filled by *)
(* every log call and emptied by the flush loop of the current connection, *)
(* under settings the API changes at any time.                             *)
(*                                                                         *)
(* An entry is its number: the n-th entry pushed is n.  Entries are pushed *)
(* and taken under one mutex, so push, update and take are atomic; the     *)
(* flush loop awaits its sleep and its emit and may be aborted at either.  *)
(***************************************************************************)
EXTENDS Integers, Sequences

CONSTANTS
  DefaultSize,   \* max_buffer_size before the API sets it
  Sizes,         \* what the API may set it to
  MaxEntries     \* bound on the entries pushed

ASSUME SizesAssumption == DefaultSize \in Nat /\ Sizes \subseteq Nat
ASSUME EntriesAssumption == MaxEntries \in Nat

VARIABLES
  entries,    \* Inner.entries
  dropped,    \* Inner.dropped
  active,     \* Settings.is_active
  size,       \* Settings.max_buffer_size
  loop,       \* run_logs_loop: "none" between connections, "asleep", "emitting"
  payload,    \* what the loop has taken and not emitted yet
  pushed,     \* history: entries pushed
  told,       \* history: entries accounted for in what the API heard
  lost,       \* history: entries accounted for in payloads the API never heard
  late        \* history: payloads sent since the API switched the logs off

bufferVars  == <<entries, dropped>>
settingVars == <<active, size>>
loopVars    == <<loop, payload>>
history     == <<told, lost, late>>
vars        == <<bufferVars, settingVars, loopVars, pushed, history>>

Entry    == Nat \ {0}
Payloads == [logs : Seq(Entry), skipped : Nat]
Nothing  == [logs |-> <<>>, skipped |-> 0]

\* The entries a payload stands for.
Weight(p) == Len(p.logs) + p.skipped

TypeOK ==
  /\ entries \in Seq(Entry)
  /\ dropped \in Nat
  /\ active \in BOOLEAN
  /\ size \in Nat
  /\ loop \in {"none", "asleep", "emitting"}
  /\ payload \in Payloads
  /\ pushed \in Nat
  /\ told \in Nat
  /\ lost \in Nat
  /\ late \in Nat

Init ==
  /\ entries = <<>>
  /\ dropped = 0
  /\ active = FALSE
  /\ size = DefaultSize
  /\ loop = "none"
  /\ payload = Nothing
  /\ pushed = 0
  /\ told = 0
  /\ lost = 0
  /\ late = 0

------------------------------------------------------------------------------

\* How many entries are too many, with one more than there are.
Overflow == IF Len(entries) + 1 > size THEN Len(entries) + 1 - size ELSE 0

\* Mutants of Push: entries that are drained are not counted; the subtraction does
\* not saturate.
PushUncounted ==
  /\ pushed < MaxEntries
  /\ pushed' = pushed + 1
  /\ entries' = SubSeq(Append(entries, pushed + 1), Overflow + 1, Len(entries) + 1)
  /\ UNCHANGED <<dropped, settingVars, loopVars, history>>

PushUnsaturated ==
  /\ pushed < MaxEntries
  /\ pushed' = pushed + 1
  /\ entries' = SubSeq(Append(entries, pushed + 1), Overflow + 1, Len(entries) + 1)
  /\ dropped' = dropped + Len(entries) + 1 - size
  /\ UNCHANGED <<settingVars, loopVars, history>>

\* Any log call of the probe.  The buffer fills whether the API wants it or not,
\* and a size lowered by the API takes effect here.
Push ==
  /\ pushed < MaxEntries
  /\ pushed' = pushed + 1
  /\ entries' = SubSeq(Append(entries, pushed + 1), Overflow + 1, Len(entries) + 1)
  /\ dropped' = dropped + Overflow
  /\ UNCHANGED <<settingVars, loopVars, history>>

\* api:logs-transport:set changes what it names and leaves the rest.
Update ==
  \E isActive \in BOOLEAN, bufferSize \in Sizes \cup {size} :
    /\ <<isActive, bufferSize>> # <<active, size>>
    /\ active' = isActive
    /\ size' = bufferSize
    /\ late' = IF isActive THEN 0 ELSE late
    /\ UNCHANGED <<bufferVars, loopVars, pushed, told, lost>>

\* connect_once spawns the loop of a new connection.
StartLoop ==
  /\ loop = "none"
  /\ loop' = "asleep"
  /\ UNCHANGED <<bufferVars, settingVars, payload, pushed, history>>

\* Mutants of Take: is_active is not looked at; the count is not reset; a single
\* entry is not worth a payload.
TakeInactive ==
  /\ loop = "asleep"
  /\ entries # <<>>
  /\ loop' = "emitting"
  /\ payload' = [logs |-> entries, skipped |-> dropped]
  /\ entries' = <<>>
  /\ dropped' = 0
  /\ UNCHANGED <<settingVars, pushed, history>>

TakeKeepsCount ==
  /\ loop = "asleep"
  /\ active
  /\ entries # <<>>
  /\ loop' = "emitting"
  /\ payload' = [logs |-> entries, skipped |-> dropped]
  /\ entries' = <<>>
  /\ UNCHANGED <<dropped, settingVars, pushed, history>>

TakeSeveral ==
  /\ loop = "asleep"
  /\ active
  /\ Len(entries) > 1
  /\ loop' = "emitting"
  /\ payload' = [logs |-> entries, skipped |-> dropped]
  /\ entries' = <<>>
  /\ dropped' = 0
  /\ UNCHANGED <<settingVars, pushed, history>>

\* The sleep is over and take() returns what there is.
Take ==
  /\ loop = "asleep"
  /\ active
  /\ entries # <<>>
  /\ loop' = "emitting"
  /\ payload' = [logs |-> entries, skipped |-> dropped]
  /\ entries' = <<>>
  /\ dropped' = 0
  /\ UNCHANGED <<settingVars, pushed, history>>

\* take() returns None: nothing is emitted, what was dropped stays counted.
TakeNone ==
  /\ loop = "asleep"
  /\ ~active \/ entries = <<>>
  /\ UNCHANGED vars

\* The emit of probe:logs reaches the API.
Send ==
  /\ loop = "emitting"
  /\ loop' = "asleep"
  /\ payload' = Nothing
  /\ told' = told + Weight(payload)
  /\ late' = IF active THEN 0 ELSE late + 1
  /\ UNCHANGED <<bufferVars, settingVars, pushed, lost>>

\* The emit fails, or what it wrote never arrives: the entries are gone.
SendFails ==
  /\ loop = "emitting"
  /\ loop' = "asleep"
  /\ payload' = Nothing
  /\ lost' = lost + Weight(payload)
  /\ UNCHANGED <<bufferVars, settingVars, pushed, told, late>>

\* The connection has ended: connect_once aborts the loop at its await.
AbortLoop ==
  /\ loop # "none"
  /\ loop' = "none"
  /\ payload' = Nothing
  /\ lost' = lost + Weight(payload)
  /\ UNCHANGED <<bufferVars, settingVars, pushed, told, late>>

Flush == Take \/ TakeNone \/ Send \/ SendFails

Next == Push \/ Update \/ StartLoop \/ Flush \/ AbortLoop

\* The loop's sleep ends and its emit returns.
Spec == Init /\ [][Next]_vars /\ WF_vars(Flush)

------------------------------------------------------------------------------
(* Properties. *)

Buffered(n) == \E i \in 1..Len(entries) : entries[i] = n

\* Each entry pushed is in exactly one place: told to the API as a log or as
\* skipped, lost with a payload, on its way, counted as dropped, or buffered.
Accounted ==
  pushed = told + lost + Weight(payload) + dropped + Len(entries)

\* What the API reads from "skipped" is exact: but for payloads that were lost as
\* a whole, it is the gap between the last entry told and the first in the payload.
SkippedIsExact ==
  loop = "emitting" => Head(payload.logs) = told + lost + payload.skipped + 1

\* After the API has switched the logs off at most one more payload arrives.
AtMostOneLate == late <= 1

\* While the API wants logs and a connection lasts, no entry stays in the buffer:
\* the loop rereads the settings and takes what there is after every sleep.
EntriesMoveOn ==
  <>[](active /\ loop # "none") =>
    \A n \in 1..MaxEntries : Buffered(n) ~> ~Buffered(n)
==============================================================================
