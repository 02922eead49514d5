------------------------------ MODULE Reconnect ------------------------------
(***************************************************************************)
(* The probe's outer loop (run in src/src/probe/client.rs with             *)
(* src/src/probe/reconnect.rs): connect, stay up until a handler or the    *)
(* shutdown ends the connection, wait as the outcome demands, and again.   *)
(*                                                                         *)
(* Interleaved with it: the handlers of the current connection, which set  *)
(* its OutcomeSignal, and the process's signal task.  What a connection    *)
(* does while it is up is in Session.                                      *)
(***************************************************************************)
EXTENDS Naturals

CONSTANTS
  MinDelay, MaxDelay,   \* ExponentialBackoff::new(1 s, 300 s)
  PolicyDelay,          \* IpLimitOrVpn, in seconds
  MetadataDelay,        \* MetadataError, in seconds
  MaxStreak             \* bound of the history variable streak

ASSUME DelayAssumption ==
  /\ MinDelay \in Nat \ {0}
  /\ MaxDelay \in Nat
  /\ MinDelay <= MaxDelay
  /\ PolicyDelay \in Nat \ {0}
  /\ MetadataDelay \in Nat \ {0}
  /\ MaxStreak \in Nat

\* MinDelay doubled n times.
Doubled[n \in Nat] == IF n = 0 THEN MinDelay ELSE 2 * Doubled[n - 1]

\* Where the history stops counting, the backoff has reached its maximum.
ASSUME StreakAssumption == Doubled[MaxStreak] >= MaxDelay

VARIABLES
  rpc,         \* where run() is
  current,     \* ExponentialBackoff.current
  delay,       \* the delay being slept
  outcome,     \* ConnectOutcome of the last connection
  opened,      \* already_connected of this connection; was_connected once it has ended
  value,       \* OutcomeSignal.value, or "none"
  permit,      \* OutcomeSignal.notify holds a permit
  shutdown,    \* the watch channel holds true
  first,       \* history: the first outcome a handler of this connection reported
  streak,      \* history: failed attempts in a row, up to MaxStreak
  lateDials    \* history: connection attempts begun after shutdown was set, up to 2

signalVars  == <<value, permit, opened>>
historyVars == <<first, streak, lateDials>>
runVars == <<rpc, current, delay, outcome, signalVars, shutdown, historyVars>>

Outcomes == {"CleanShutdown", "IpLimitOrVpn", "MetadataError", "InvalidVersion",
             "ServerTerminating", "Transient"}

RunPcs == {"check", "dialing", "connecting", "up", "waking", "closing", "ended",
           "sleeping", "stopped", "exited"}

RunTypeOK ==
  /\ rpc \in RunPcs
  /\ current \in MinDelay..MaxDelay
  /\ delay \in 0..MaxDelay \cup {PolicyDelay, MetadataDelay}
  /\ outcome \in Outcomes \cup {"none"}
  /\ opened \in BOOLEAN
  /\ value \in Outcomes \cup {"none"}
  /\ permit \in BOOLEAN
  /\ shutdown \in BOOLEAN
  /\ first \in Outcomes \cup {"none"}
  /\ streak \in 0..MaxStreak
  /\ lateDials \in 0..2

RunInit ==
  /\ rpc = "check"
  /\ current = MinDelay
  /\ delay = 0
  /\ outcome = "none"
  /\ opened = FALSE
  /\ value = "none"
  /\ permit = FALSE
  /\ shutdown = FALSE
  /\ first = "none"
  /\ streak = 0
  /\ lateDials = 0

Lesser(a, b) == IF a < b THEN a ELSE b

------------------------------------------------------------------------------
(* Handlers of the current connection. *)

\* Keywords that classify_error looks for, in its order; a message holds any set
\* of them ("ip limit", "vpn" and "geoip" are one).
Keywords == {"version", "policy", "metadata", "terminating"}

classify_error(words) ==
  IF "version" \in words THEN "InvalidVersion"
  ELSE IF "policy" \in words THEN "IpLimitOrVpn"
  ELSE IF "metadata" \in words THEN "MetadataError"
  ELSE IF "terminating" \in words THEN "ServerTerminating"
  ELSE "Transient"

\* The handlers are installed before connect() and their events may come before
\* it returns.  Those of an earlier connection have a signal of their own, which
\* nothing reads any more.
Listening == rpc \in {"connecting", "up", "waking", "closing"}

\* Mutant of signal: the last outcome wins.
signalLastWins(o) ==
  /\ value' = o
  /\ permit' = TRUE
  /\ first' = IF first = "none" THEN o ELSE first

\* Mutant of signal: notify_waiters(), which leaves no permit behind when the
\* loop is not waiting yet.
signalWithoutPermit(o) ==
  /\ value' = IF value = "none" THEN o ELSE value
  /\ permit' = (permit \/ (value = "none" /\ rpc = "up"))
  /\ first' = IF first = "none" THEN o ELSE first

\* OutcomeSignal::signal: the first call sets the value and leaves a permit.
signal(o) ==
  /\ value' = IF value = "none" THEN o ELSE value
  /\ permit' = (permit \/ value = "none")
  /\ first' = IF first = "none" THEN o ELSE first

\* on("open"): the second one is rust_socketio's silent reconnect.
OnOpen ==
  /\ Listening
  /\ opened' = TRUE
  /\ \/ opened /\ signal("Transient")
     \/ ~opened /\ UNCHANGED <<value, permit, first>>
  /\ UNCHANGED <<rpc, current, delay, outcome, shutdown, streak, lateDials>>

OnClose ==
  /\ Listening
  /\ signal("Transient")
  /\ UNCHANGED <<rpc, current, delay, outcome, opened, shutdown, streak, lateDials>>

OnError ==
  /\ Listening
  /\ \E words \in SUBSET Keywords : signal(classify_error(words))
  /\ UNCHANGED <<rpc, current, delay, outcome, opened, shutdown, streak, lateDials>>

\* on("probe:sigkill"): exit(0).
OnSigkill ==
  /\ Listening
  /\ rpc' = "exited"
  /\ UNCHANGED <<current, delay, outcome, signalVars, shutdown, historyVars>>

\* SIGTERM or ctrl-c: the signal task sends true once.
Terminate ==
  /\ rpc \notin {"stopped", "exited"}
  /\ ~shutdown
  /\ shutdown' = TRUE
  /\ UNCHANGED <<rpc, current, delay, outcome, signalVars, historyVars>>

------------------------------------------------------------------------------
(* run() and the frame of connect_once(). *)

RunAt(here, there) == rpc = here /\ rpc' = there

\* Mutant of CheckShutdown: the loop head does not look at the channel.
CheckShutdownMissing ==
  /\ RunAt("check", "dialing")
  /\ UNCHANGED <<current, delay, outcome, signalVars, shutdown, historyVars>>

\* Head of the loop.
CheckShutdown ==
  /\ RunAt("check", IF shutdown THEN "stopped" ELSE "dialing")
  /\ UNCHANGED <<current, delay, outcome, signalVars, shutdown, historyVars>>

\* connect_once begins: a signal of its own for every connection.
Dial ==
  /\ RunAt("dialing", "connecting")
  /\ value' = "none"
  /\ permit' = FALSE
  /\ opened' = FALSE
  /\ first' = "none"
  /\ lateDials' = IF shutdown THEN Lesser(lateDials + 1, 2) ELSE lateDials
  /\ UNCHANGED <<current, delay, outcome, shutdown, streak>>

\* connect() returns Err: (Transient, false), whatever the handlers saw.
ConnectFails ==
  /\ RunAt("connecting", "ended")
  /\ outcome' = "Transient"
  /\ opened' = FALSE
  /\ UNCHANGED <<current, delay, value, permit, shutdown, historyVars>>

Connected ==
  /\ RunAt("connecting", "up")
  /\ UNCHANGED <<current, delay, outcome, signalVars, shutdown, historyVars>>

\* select!: the shutdown arm, ready at any poll of the other.  The drain that
\* follows ends by itself (Session, ShutdownEndsSession).
SelectShutdown ==
  /\ rpc \in {"up", "waking"}
  /\ shutdown
  /\ rpc' = "closing"
  /\ outcome' = "CleanShutdown"
  /\ UNCHANGED <<current, delay, signalVars, shutdown, historyVars>>

\* wait(): notified() takes the permit...
Notified ==
  /\ RunAt("up", "waking")
  /\ permit
  /\ permit' = FALSE
  /\ UNCHANGED <<current, delay, outcome, opened, value, shutdown, historyVars>>

\* ... then the value is read under its lock.
ReadOutcome ==
  /\ RunAt("waking", IF value = "none" THEN "up" ELSE "closing")
  /\ outcome' = IF value = "none" THEN outcome ELSE value
  /\ UNCHANGED <<current, delay, signalVars, shutdown, historyVars>>

\* socket.disconnect(), and only then already_connected is read: an "open" that
\* fires while the connection is being closed still makes the session real.
Disconnect ==
  /\ RunAt("closing", "ended")
  /\ UNCHANGED <<current, delay, outcome, signalVars, shutdown, historyVars>>

\* reconnect_delay() = None.
Stop ==
  /\ rpc = "ended"
  /\ \/ outcome = "CleanShutdown" /\ rpc' = "stopped"
     \/ outcome = "InvalidVersion" /\ rpc' = "exited"
  /\ UNCHANGED <<current, delay, outcome, signalVars, shutdown, historyVars>>

\* Mutant of next_backoff: the doubled delay is not clamped to the maximum.
next_backoffUnclamped == current * 2

\* ExponentialBackoff::next leaves twice the delay it returned, up to the maximum.
next_backoff == Lesser(current * 2, MaxDelay)

\* Mutant of resets: only a session that was real resets the backoff.
resetsOnlyIfReal == opened

\* The condition on which run() resets the backoff.
resets == outcome # "Transient" \/ opened

reconnect_delay ==
  CASE outcome = "IpLimitOrVpn"      -> PolicyDelay
    [] outcome = "MetadataError"     -> MetadataDelay
    [] outcome = "ServerTerminating" -> 0
    [] outcome = "Transient"         -> current

\* reconnect_delay() = Some(delay): the delay is drawn first, and only then is
\* the backoff reset.  A zero delay goes straight to the head of the loop.
Retry ==
  /\ rpc = "ended"
  /\ outcome \notin {"CleanShutdown", "InvalidVersion"}
  /\ delay' = reconnect_delay
  /\ current' = IF resets THEN MinDelay
                ELSE IF outcome = "Transient" THEN next_backoff
                ELSE current
  /\ streak' = IF outcome = "Transient" /\ ~opened THEN Lesser(streak + 1, MaxStreak) ELSE 0
  /\ rpc' = IF delay' = 0 THEN "check" ELSE "sleeping"
  /\ UNCHANGED <<outcome, signalVars, shutdown, first, lateDials>>

SleepElapsed ==
  /\ RunAt("sleeping", "check")
  /\ UNCHANGED <<current, delay, outcome, signalVars, shutdown, historyVars>>

\* The sleep is raced with the shutdown.
SleepInterrupted ==
  /\ RunAt("sleeping", "stopped")
  /\ shutdown
  /\ UNCHANGED <<current, delay, outcome, signalVars, shutdown, historyVars>>

RunStep ==
  \/ CheckShutdown \/ Dial \/ ConnectFails \/ Connected
  \/ SelectShutdown \/ Notified \/ ReadOutcome \/ Disconnect
  \/ Stop \/ Retry \/ SleepElapsed \/ SleepInterrupted

RunNext ==
  \/ RunStep
  \/ OnOpen \/ OnClose \/ OnError \/ OnSigkill
  \/ Terminate

\* run() is polled whenever it can go on, sleeps end, and connect() returns: the
\* one assumption about rust_socketio, for connect() is not raced with shutdown.
RunSpec == RunInit /\ [][RunNext]_runVars /\ WF_runVars(RunStep)

------------------------------------------------------------------------------
(* Properties. *)

\* "First write wins": of all that the handlers of a connection report, in
\* whatever order and however late the loop wakes up, run() acts on the first.
\* A rejection is not forgotten for the "close" that comes with it.
FirstOutcomeWins ==
  [][rpc = "waking" /\ rpc' = "closing" /\ outcome' # "CleanShutdown"
       => outcome' = first]_runVars

\* What a transient outcome waits for is MinDelay doubled once for each attempt
\* that failed in a row before it, up to MaxDelay.  The streak is the one before
\* this outcome: a real session that ends still waits what the failures that
\* preceded it have accumulated, and clears it for the next one.
BackoffFollowsStreak ==
  [][rpc = "ended" /\ rpc' = "sleeping" /\ outcome = "Transient"
       => delay' = Lesser(Doubled[streak], MaxDelay)]_runVars

\* After the shutdown at most one connection is attempted: the one for which the
\* head of the loop had already looked at the channel.
AtMostOneLateDial == lateDials <= 1

\* An outcome reported before connect_once waits for it, or between the wake-up
\* and the read of its value, is not lost: the connection ends.
SignalIsActedOn == rpc = "up" /\ value # "none" ~> rpc # "up"

\* A shutdown ends the loop wherever it is, even when the API keeps answering
\* "server terminating", after which there is no sleep to interrupt.
ShutdownStops == shutdown ~> rpc \in {"stopped", "exited"}
==============================================================================
