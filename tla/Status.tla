------------------------------- MODULE Status -------------------------------
(***************************************************************************)
(* The probe's health (src/src/status) and how the API hears of it         *)
(* (run_status_loop and the handlers in src/src/probe/client.rs).          *)
(*                                                                         *)
(* The StatusManager outlives connections and is shared, under a lock, by  *)
(* the status loop of the current connection, by the socket's handlers     *)
(* (which rust_socketio runs one at a time) and by connect_once.  Each     *)
(* reads the status under the lock and emits it after the unlock.          *)
(***************************************************************************)
EXTENDS Naturals

CONSTANTS
  Targets,           \* ICMP_TARGETS: hosts whose ICMP and TCP times are compared
  MAX_DISCONNECTS,
  MaxRecent          \* bound on the disconnects counted at a time

ASSUME StatusAssumption ==
  /\ Targets \in Nat
  /\ MAX_DISCONNECTS \in Nat \ {0}
  /\ MaxRecent \in Nat

TRIALS == 3
REQUIRED_PASSES == 2

VARIABLES
  ping,        \* ping_test_failed: "unknown" for None, "passed", "failed"
  icmp,        \* icmp_tcp_test_failed, likewise
  tooMany,     \* too_many_disconnects
  recent,      \* entries of the DisconnectTracker younger than TTL
  sigterm,     \* StatusManager.sigterm
  link,        \* "down", "up", "sigterm" (set), "draining" (announced)
  lpc,         \* where the status loop is; "off" between connections
  loopSays,    \* the status the loop has read and is about to emit
  hpc,         \* the handler that runs: "idle", or "emitting" what it has read
  handlerSays,
  view,        \* the status the API heard last on this connection, or "none"
  measured,    \* history: what the last ICMP/TCP test saw (Sights)
  stale        \* history: statuses the API heard after "sigterm", up to 3

health == <<ping, icmp, tooMany, recent>>
cycle  == <<lpc, loopSays>>
handler == <<hpc, handlerSays>>
statusVars == <<health, sigterm, link, cycle, handler, view, measured, stale>>

Statuses == {"initializing", "ready", "ping-test-failed", "icmp-tcp-test-failed",
             "too-many-disconnects", "sigterm"}
Verdicts == {"unknown", "passed", "failed"}

\* Differences that are nothing, a VPN if the API calls the probe a proxy, a VPN.
Sights == {"none", "clear", "border", "vpn"}

StatusTypeOK ==
  /\ ping \in Verdicts /\ icmp \in Verdicts
  /\ tooMany \in BOOLEAN
  /\ recent \in 0..MaxRecent
  /\ sigterm \in BOOLEAN
  /\ link \in {"down", "up", "sigterm", "draining"}
  /\ lpc \in {"off", "pinging", "comparing", "emitting", "sleeping"}
  /\ hpc \in {"idle", "emitting"}
  /\ {loopSays, handlerSays, view} \subseteq Statuses \cup {"none"}
  /\ measured \in Sights
  /\ stale \in 0..3

StatusInit ==
  /\ ping = "unknown" /\ icmp = "unknown"
  /\ tooMany = FALSE
  /\ recent = 0
  /\ sigterm = FALSE
  /\ link = "down"
  /\ lpc = "off" /\ loopSays = "none"
  /\ hpc = "idle" /\ handlerSays = "none"
  /\ view = "none"
  /\ measured = "none"
  /\ stale = 0

\* Mutant of get_status: the verdicts come before sigterm.
get_statusSigtermLast ==
  IF "unknown" \in {ping, icmp} THEN "initializing"
  ELSE IF ping = "failed" THEN "ping-test-failed"
  ELSE IF icmp = "failed" THEN "icmp-tcp-test-failed"
  ELSE IF tooMany THEN "too-many-disconnects"
  ELSE IF sigterm THEN "sigterm" ELSE "ready"

get_status ==
  IF sigterm THEN "sigterm"
  ELSE IF "unknown" \in {ping, icmp} THEN "initializing"
  ELSE IF ping = "failed" THEN "ping-test-failed"
  ELSE IF icmp = "failed" THEN "icmp-tcp-test-failed"
  ELSE IF tooMany THEN "too-many-disconnects"
  ELSE "ready"

Verdict(failed) == IF failed THEN "failed" ELSE "passed"

\* of the differences to one IP version's targets, high are over VPN_DIFF_HIGH
\* and med are between VPN_DIFF_MED and VPN_DIFF_HIGH; the others are below, or
\* None.
is_vpn(high, med, is_proxy) ==
  high >= 1 \/ high + med >= 2 \/ (high + med >= 1 /\ is_proxy)

\* The emit of a status over the current connection.
TellStatus(st) ==
  /\ view' = st
  /\ stale' = IF link = "draining" /\ st # "sigterm" /\ stale < 3 THEN stale + 1 ELSE stale

------------------------------------------------------------------------------
(* run_status_loop. *)

\* PingTest: three trials for each IP version.  The verdict is stored, but not
\* told before the second test has run.
LoopPing ==
  /\ lpc = "pinging"
  /\ \E passes4, passes6 \in 0..TRIALS :
       ping' = Verdict(passes4 < REQUIRED_PASSES /\ passes6 < REQUIRED_PASSES)
  /\ lpc' = "comparing"
  /\ UNCHANGED <<icmp, tooMany, recent, sigterm, link, loopSays, handler, view, measured, stale>>

\* Mutant of recheck: the flag is left as the last disconnect set it.
recheckMissing == tooMany

\* recheck_disconnect_status: count() evicts what is older than TTL.
recheck == recent >= MAX_DISCONNECTS

\* What the two IP versions' differences may be, of Targets targets each.
Differences == {d \in [{"high4", "med4", "high6", "med6"} -> 0..Targets] :
                  d.high4 + d.med4 <= Targets /\ d.high6 + d.med6 <= Targets}

is_vpn_detected(d, is_proxy) ==
  is_vpn(d.high4, d.med4, is_proxy) \/ is_vpn(d.high6, d.med6, is_proxy)

Sight(d) ==
  IF is_vpn_detected(d, FALSE) THEN "vpn"
  ELSE IF is_vpn_detected(d, TRUE) THEN "border" ELSE "clear"

\* Mutant of LoopCompare: the status is read before the verdict is stored.
LoopCompareReadsFirst ==
  /\ lpc = "comparing"
  /\ \E d \in Differences :
       /\ icmp' = Verdict(is_vpn_detected(d, FALSE))
       /\ measured' = Sight(d)
  /\ tooMany' = recheck
  /\ loopSays' = get_status
  /\ lpc' = "emitting"
  /\ UNCHANGED <<ping, recent, sigterm, link, handler, view, stale>>

\* A fresh IcmpTcpTest, whose is_proxy is None and whose differences are dropped
\* with it.  Verdict, recheck and status are one critical section.
LoopCompare ==
  /\ lpc = "comparing"
  /\ \E d \in Differences :
       /\ icmp' = Verdict(is_vpn_detected(d, FALSE))
       /\ measured' = Sight(d)
  /\ tooMany' = recheck
  /\ lpc' = "emitting"
  /\ UNCHANGED <<ping, recent, sigterm, link, handler, view, stale>>
  /\ loopSays' = get_status'

\* Mutant of LoopEmit: only trouble is reported.
LoopEmitTrouble ==
  /\ lpc = "emitting"
  /\ IF loopSays = "ready" THEN UNCHANGED <<view, stale>> ELSE TellStatus(loopSays)
  /\ lpc' = IF sigterm THEN "off" ELSE "sleeping"
  /\ UNCHANGED <<health, sigterm, link, loopSays, handler, measured>>

\* An aborted loop ends here.
LoopEmit ==
  /\ lpc = "emitting"
  /\ TellStatus(loopSays)
  /\ lpc' = IF sigterm THEN "off" ELSE "sleeping"
  /\ UNCHANGED <<health, sigterm, link, loopSays, handler, measured>>

LoopWake ==
  /\ lpc = "sleeping"
  /\ lpc' = "pinging"
  /\ UNCHANGED <<health, sigterm, link, loopSays, handler, view, measured, stale>>

LoopStep == LoopPing \/ LoopCompare \/ LoopEmit \/ LoopWake

------------------------------------------------------------------------------
(* Handlers of the current connection. *)

HandlerRuns == link # "down" /\ hpc = "idle"

\* A handler reads the status before it lets the lock go.
ReadStatus ==
  /\ hpc' = "emitting"
  /\ handlerSays' = get_status'

\* The first "open" of a connection.
StatusOnOpen ==
  /\ HandlerRuns
  /\ UNCHANGED <<health, sigterm, link, cycle, view, measured, stale>>
  /\ ReadStatus

\* "close" for a ping timeout or a transport error: report_disconnect.
StatusOnClose ==
  /\ HandlerRuns
  /\ recent < MaxRecent
  /\ recent' = recent + 1
  /\ tooMany' = (recent' >= MAX_DISCONNECTS)
  /\ UNCHANGED <<ping, icmp, sigterm, link, cycle, view, measured, stale>>
  /\ ReadStatus

\* "api:connect:isProxy": on_proxy_status evaluates the StatusManager's own
\* IcmpTcpTest, which has no differences: the loop measures with tests of its own.
OnProxy ==
  /\ HandlerRuns
  /\ \E is_proxy \in BOOLEAN :
       icmp' = IF icmp = "unknown" THEN icmp ELSE Verdict(is_vpn(0, 0, is_proxy))
  /\ UNCHANGED <<ping, tooMany, recent, sigterm, link, cycle, view, measured, stale>>
  /\ ReadStatus

HandlerEmit ==
  /\ hpc = "emitting"
  /\ hpc' = "idle"
  /\ TellStatus(handlerSays)
  /\ UNCHANGED <<health, sigterm, link, cycle, handlerSays, measured>>

------------------------------------------------------------------------------
(* The connection, and the clock. *)

\* connect_once spawns a status loop.
Connect ==
  /\ link = "down"
  /\ ~sigterm
  /\ link' = "up"
  /\ lpc' = "pinging"
  /\ view' = "none"
  /\ UNCHANGED <<health, sigterm, loopSays, handler, measured, stale>>

\* An outcome other than the clean shutdown: what is still emitted over the old
\* socket says nothing to the API about the next connection.
Lose ==
  /\ link = "up"
  /\ link' = "down"
  /\ lpc' = "off"
  /\ hpc' = "idle"
  /\ UNCHANGED <<health, sigterm, loopSays, handlerSays, view, measured, stale>>

\* The clean shutdown: abort() the loop, then set_sigterm().  A loop that has read
\* its status may still emit it: abort() takes effect at the next await.
SetSigterm ==
  /\ link = "up"
  /\ link' = "sigterm"
  /\ sigterm' = TRUE
  /\ lpc' \in IF lpc = "emitting" THEN {"off", "emitting"} ELSE {"off"}
  /\ UNCHANGED <<health, loopSays, handler, view, measured, stale>>

\* The literal "sigterm", emitted without asking the StatusManager.
AnnounceSigterm ==
  /\ link = "sigterm"
  /\ link' = "draining"
  /\ TellStatus("sigterm")
  /\ UNCHANGED <<health, sigterm, cycle, handler, measured>>

\* The drain ends and the process with it.
Quit ==
  /\ link = "draining"
  /\ link' = "down"
  /\ lpc' = "off"
  /\ hpc' = "idle"
  /\ UNCHANGED <<health, sigterm, loopSays, handlerSays, view, measured, stale>>

\* Mutant of Expire: one disconnect too many is evicted.
ExpireTooMany ==
  /\ recent' = recent - 1
  /\ UNCHANGED <<ping, icmp, tooMany, sigterm, link, cycle, handler, view, measured, stale>>

\* A disconnect gets older than TTL.  tooMany does not follow by itself.
Expire ==
  /\ recent > 0
  /\ recent' = recent - 1
  /\ UNCHANGED <<ping, icmp, tooMany, sigterm, link, cycle, handler, view, measured, stale>>

StatusNext ==
  \/ LoopStep
  \/ StatusOnOpen \/ StatusOnClose \/ OnProxy \/ HandlerEmit
  \/ Connect \/ Lose \/ SetSigterm \/ AnnounceSigterm \/ Quit
  \/ Expire

\* Both tests bound the subprocesses they run, the loop's sleep ends, and a handler
\* is polled to its end.
StatusSpec == StatusInit /\ [][StatusNext]_statusVars /\ WF_statusVars(LoopStep) /\ WF_statusVars(HandlerEmit)

------------------------------------------------------------------------------
(* Properties. *)

\* The status a cycle reports is the one its own two tests have led to, whatever
\* handlers did between the second test and the emit: "ready" is never left over
\* from before a failed ping test or a detected VPN.
CycleTellsItsVerdict ==
  lpc = "emitting" /\ loopSays = "ready" => ping = "passed" /\ measured # "vpn"

\* The API may hear a status that is older than "sigterm" after it, since statuses
\* are emitted outside the lock, but only what was already on its way: one from
\* the aborted loop and one from the handler that was running.
FewStaleStatuses == stale <= 2

\* Handlers and loop race to tell the API what they have read; whoever comes last,
\* a status that stays as it is becomes the API's, because the loop repeats it.
ApiViewConverges ==
  \A st \in Statuses :
    <>[](link = "up" /\ get_status = st) => <>[](view = st)

\* Disconnects that have grown older than TTL are forgiven, although nothing
\* happens at the moment they do.
DisconnectsForgiven ==
  <>[](link = "up" /\ recent = 0) => <>[](~tooMany)

\* "Re-evaluates VPN detection with existing diffs": once a test has run, isProxy
\* leads to the verdict that the differences it saw call for.
ProxyReevaluatesDiffs ==
  [][OnProxy /\ icmp = "failed" /\ measured = "vpn" => icmp' = "failed"]_statusVars
==============================================================================
