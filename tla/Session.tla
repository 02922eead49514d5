------------------------------- MODULE Session -------------------------------
(***************************************************************************)
(* One established connection of the probe (src/src/probe/client.rs): the  *)
(* part of connect_once after connect() returned, and the measurement jobs *)
(* the API sends over it, each running dispatch() in a task of its own.    *)
(*                                                                         *)
(* Processes that interleave: the jobs (pc), connect_once itself (mpc),    *)
(* the process's signal task (shutdown), the socket's event handlers       *)
(* (signalled, health) and the network (link).  A step of the model is the *)
(* code between two await points.                                          *)
(***************************************************************************)
EXTENDS Limiter, FiniteSets

CONSTANT Jobs           \* measurement requests the API may send
ASSUME JobsAssumption == IsFiniteSet(Jobs)

VARIABLES
  pc,          \* where each job's dispatch() is
  fate,        \* what the API hears of each job
  health,      \* get_status() = "ready" but for sigterm (StatusManager)
  sigterm,     \* StatusManager.sigterm
  link,        \* the socket carries an emit: "up" or "down"
  dropped,     \* history: the network broke the link at some point
  signalled,   \* a handler has set the OutcomeSignal
  shutdown,    \* the watch channel holds true (SIGTERM or ctrl-c)
  mpc,         \* where connect_once is
  outcome,     \* ConnectOutcome: "none" while up, "clean", or "lost" for the others
  timedOut,    \* the drain hit DRAIN_TIMEOUT
  alive        \* the process has not exited

jobVars  == <<pc, fate>>
envVars  == <<health, link, dropped, signalled, shutdown>>
mainVars == <<mpc, outcome, timedOut, sigterm>>
vars     == <<limiterVars, jobVars, envVars, mainVars, alive>>

\* A job holds its slot from try_acquire to the end of dispatch().
HoldingPcs == {"slotted", "gated", "acked", "running", "replying", "replied"}
JobPcs     == HoldingPcs \cup {"idle", "spawned", "done"}
Holders    == {j \in Jobs : pc[j] \in HoldingPcs}

\* A job past the status check: it will run a measurement, or has run it.
Serving(j) == pc[j] \in HoldingPcs \ {"slotted"}

\* "none": the API hears nothing; "open": acked; then answered, or the result
\* is lost with the link, or the command panicked and no result is sent.
Fates == {"none", "open", "answered", "unsent", "panicked"}

MainPcs == {"up", "terminating", "announcing", "counting", "queueing",
            "draining", "closing", "returned"}

TypeOK ==
  /\ LimiterTypeOK
  /\ pc \in [Jobs -> JobPcs]
  /\ fate \in [Jobs -> Fates]
  /\ health \in BOOLEAN
  /\ sigterm \in BOOLEAN
  /\ link \in {"up", "down"}
  /\ dropped \in BOOLEAN
  /\ signalled \in BOOLEAN
  /\ shutdown \in BOOLEAN
  /\ mpc \in MainPcs
  /\ outcome \in {"none", "clean", "lost"}
  /\ timedOut \in BOOLEAN
  /\ alive \in BOOLEAN

Init ==
  /\ LimiterInit
  /\ pc = [j \in Jobs |-> "idle"]
  /\ fate = [j \in Jobs |-> "none"]
  /\ health \in BOOLEAN
  /\ sigterm = FALSE
  /\ link = "up"
  /\ dropped = FALSE
  /\ signalled = FALSE
  /\ shutdown \in BOOLEAN
  /\ mpc = "up"
  /\ outcome = "none"
  /\ timedOut = FALSE
  /\ alive = TRUE

Ready == health /\ ~sigterm

------------------------------------------------------------------------------
(* dispatch(): one action per stretch of code between two awaits. *)

At(j, here) == alive /\ pc[j] = here
Goto(j, there) == pc' = [pc EXCEPT ![j] = there]
Settle(j, how) == fate' = [fate EXCEPT ![j] = how]

\* on("probe:measurement:request"): parse and spawn.  The handler may still
\* run after connect_once returned: the socket's poll task is not joined.
Request(j) ==
  /\ At(j, "idle")
  /\ Goto(j, "spawned")
  /\ UNCHANGED <<limiterVars, fate, envVars, mainVars, alive>>

TakeSlot(j) ==
  /\ At(j, "spawned")
  /\ AcquireSlot
  /\ Goto(j, "slotted")
  /\ UNCHANGED <<fate, envVars, mainVars, alive>>

\* At capacity: the request is dropped without a word to the API.
TurnAway(j) ==
  /\ At(j, "spawned")
  /\ RefuseSlot
  /\ Goto(j, "done")
  /\ UNCHANGED <<fate, envVars, mainVars, alive>>

\* Mutant of PassGate: get_status() without its sigterm branch.
PassGateInSigterm(j) ==
  /\ At(j, "slotted")
  /\ health
  /\ Goto(j, "gated")
  /\ UNCHANGED <<limiterVars, fate, envVars, mainVars, alive>>

\* The status check under the StatusManager's lock.
PassGate(j) ==
  /\ At(j, "slotted")
  /\ Ready
  /\ Goto(j, "gated")
  /\ UNCHANGED <<limiterVars, fate, envVars, mainVars, alive>>

\* Mutant of FailGate: the slot is not dropped on the early return.
FailGateKeepsSlot(j) ==
  /\ At(j, "slotted")
  /\ ~Ready
  /\ Goto(j, "done")
  /\ UNCHANGED <<limiterVars, fate, envVars, mainVars, alive>>

FailGate(j) ==
  /\ At(j, "slotted")
  /\ ~Ready
  /\ ReleaseSlot
  /\ Goto(j, "done")
  /\ UNCHANGED <<fate, envVars, mainVars, alive>>

\* The emit of probe:measurement:ack succeeds only over a live link.
Ack(j) ==
  /\ At(j, "gated")
  /\ link = "up"
  /\ Goto(j, "acked")
  /\ Settle(j, "open")
  /\ UNCHANGED <<limiterVars, envVars, mainVars, alive>>

AckFails(j) ==
  /\ At(j, "gated")
  /\ link = "down"
  /\ ReleaseSlot
  /\ Goto(j, "done")
  /\ UNCHANGED <<fate, envVars, mainVars, alive>>

\* make_command: a known type runs, an unknown one is answered "failed".
Begin(j) ==
  /\ At(j, "acked")
  /\ \/ Goto(j, "running")
     \/ Goto(j, "replying")
  /\ UNCHANGED <<limiterVars, fate, envVars, mainVars, alive>>

\* The command returns Ok or Err: either way there is a result to send.
Finish(j) ==
  /\ At(j, "running")
  /\ Goto(j, "replying")
  /\ UNCHANGED <<limiterVars, fate, envVars, mainVars, alive>>

\* Mutant of Timeout: the command is awaited without MEASUREMENT_TIMEOUT.
TimeoutMissing(j) == FALSE /\ Finish(j)

\* MEASUREMENT_TIMEOUT cuts the command off.  It leads where Finish does: only
\* the fairness of the two differs.
Timeout(j) == Finish(j)

\* Mutant of Panic: the slot is released by hand at the end of dispatch(), which
\* a panic never reaches.
PanicKeepsSlot(j) ==
  /\ At(j, "running")
  /\ Goto(j, "done")
  /\ Settle(j, "panicked")
  /\ UNCHANGED <<limiterVars, envVars, mainVars, alive>>

\* The command panics: the task unwinds, the slot is dropped, no result is sent.
Panic(j) ==
  /\ At(j, "running")
  /\ ReleaseSlot
  /\ Goto(j, "done")
  /\ Settle(j, "panicked")
  /\ UNCHANGED <<envVars, mainVars, alive>>

\* The emit of probe:measurement:result; a failure is only logged.
Reply(j) ==
  /\ At(j, "replying")
  /\ Goto(j, "replied")
  /\ Settle(j, IF link = "up" THEN "answered" ELSE "unsent")
  /\ UNCHANGED <<limiterVars, envVars, mainVars, alive>>

\* Mutant of Return: the slot is released twice.
ReturnReleasesTwice(j) ==
  /\ At(j, "replied")
  /\ ReleaseSlot
  /\ UNCHANGED <<jobVars, envVars, mainVars, alive>>

\* dispatch() returns and drops _slot: the API may see the result before.
Return(j) ==
  /\ At(j, "replied")
  /\ ReleaseSlot
  /\ Goto(j, "done")
  /\ UNCHANGED <<fate, envVars, mainVars, alive>>

\* What the runtime drives to completion once the request has been received.
\* A command may hang, so Finish and Panic are not part of it; Timeout is.
JobStep(j) ==
  \/ TakeSlot(j) \/ TurnAway(j)
  \/ PassGate(j) \/ FailGate(j)
  \/ Ack(j) \/ AckFails(j)
  \/ Begin(j) \/ Timeout(j)
  \/ Reply(j) \/ Return(j)

------------------------------------------------------------------------------
(* connect_once after connect(): wait, then drain if the shutdown is clean. *)

MainAt(here, there) == alive /\ mpc = here /\ mpc' = there

\* Mutant of SelectShutdown: connect_once waits for the outcome signal only.
SelectShutdownMissing == FALSE /\ MainAt("up", "terminating")

\* select!, first arm: the watch channel changed.
SelectShutdown ==
  /\ shutdown
  /\ MainAt("up", "terminating")
  /\ outcome' = "clean"
  /\ UNCHANGED <<limiterVars, jobVars, envVars, timedOut, sigterm, alive>>

\* select!, second arm: signal.wait() returned.  With both arms ready either is
\* taken.  No drain: the socket is closed at once, and the jobs go on.
SelectSignal ==
  /\ signalled
  /\ MainAt("up", "closing")
  /\ outcome' = "lost"
  /\ UNCHANGED <<limiterVars, jobVars, envVars, timedOut, sigterm, alive>>

\* status.lock().await.set_sigterm(): from here on the gate is shut.
SetSigterm ==
  /\ MainAt("terminating", "announcing")
  /\ sigterm' = TRUE
  /\ UNCHANGED <<limiterVars, jobVars, envVars, outcome, timedOut, alive>>

\* The emit of the "sigterm" status, whose failure is ignored.
AnnounceSigterm ==
  /\ MainAt("announcing", "counting")
  /\ UNCHANGED <<limiterVars, jobVars, envVars, outcome, timedOut, sigterm, alive>>

\* Mutant of CountInFlight: off by one, a single measurement is not waited for.
CountInFlightOffByOne ==
  /\ MainAt("counting", IF InFlight > 1 THEN "queueing" ELSE "closing")
  /\ UNCHANGED <<limiterVars, jobVars, envVars, outcome, timedOut, sigterm, alive>>

\* in_flight(): with nothing in flight there is nothing to wait for.
CountInFlight ==
  /\ MainAt("counting", IF InFlight > 0 THEN "queueing" ELSE "closing")
  /\ UNCHANGED <<limiterVars, jobVars, envVars, outcome, timedOut, sigterm, alive>>

StartDrain ==
  /\ MainAt("queueing", "draining")
  /\ BeginWaitIdle
  /\ UNCHANGED <<jobVars, envVars, outcome, timedOut, sigterm, alive>>

FinishDrain ==
  /\ MainAt("draining", "closing")
  /\ EndWaitIdle
  /\ UNCHANGED <<jobVars, envVars, outcome, timedOut, sigterm, alive>>

\* DRAIN_TIMEOUT; it may also win against a wait_idle() that has just been served.
DrainTimeout ==
  /\ MainAt("draining", "closing")
  /\ CancelWaitIdle
  /\ timedOut' = TRUE
  /\ UNCHANGED <<jobVars, envVars, outcome, sigterm, alive>>

\* Mutant of Disconnect: connect_once returns without closing the socket.
DisconnectMissing ==
  /\ MainAt("closing", "returned")
  /\ UNCHANGED <<limiterVars, jobVars, envVars, outcome, timedOut, sigterm, alive>>

\* socket.disconnect(), then connect_once returns to run().
Disconnect ==
  /\ MainAt("closing", "returned")
  /\ link' = "down"
  /\ UNCHANGED <<limiterVars, jobVars, health, dropped, signalled, shutdown,
                 outcome, timedOut, sigterm, alive>>

\* After a clean shutdown run() breaks out of its loop, main returns and the
\* runtime is dropped with every task left.  After any other outcome run()
\* connects again and the jobs of this connection live on (module Probe).
ExitProcess ==
  /\ alive
  /\ mpc = "returned"
  /\ outcome = "clean"
  /\ alive' = FALSE
  /\ UNCHANGED <<limiterVars, jobVars, envVars, mainVars>>

MainStep ==
  \/ SelectShutdown \/ SelectSignal
  \/ SetSigterm \/ AnnounceSigterm
  \/ CountInFlight \/ StartDrain \/ FinishDrain \/ DrainTimeout
  \/ Disconnect \/ ExitProcess

------------------------------------------------------------------------------
(* What happens to the session from outside. *)

\* wait_for_signal() returned: the watch channel is set, once and for good.
Terminate ==
  /\ alive
  /\ ~shutdown
  /\ shutdown' = TRUE
  /\ UNCHANGED <<limiterVars, jobVars, health, link, dropped, signalled, mainVars, alive>>

\* "close", "error" and a second "open" set the outcome signal, whatever the link.
SignalOutcome ==
  /\ alive
  /\ ~signalled
  /\ signalled' = TRUE
  /\ UNCHANGED <<limiterVars, jobVars, health, link, dropped, shutdown, mainVars, alive>>

\* The status loop and the isProxy and close handlers change the health.  They
\* may do so after abort(): a task is cancelled at its next await only.
ChangeHealth ==
  /\ alive
  /\ health' = ~health
  /\ UNCHANGED <<limiterVars, jobVars, link, dropped, signalled, shutdown, mainVars, alive>>

\* The network or the API breaks the connection.
DropLink ==
  /\ alive
  /\ link = "up"
  /\ link' = "down"
  /\ dropped' = TRUE
  /\ UNCHANGED <<limiterVars, jobVars, health, signalled, shutdown, mainVars, alive>>

\* rust_socketio reconnects by itself until the client has been disconnected.
Relink ==
  /\ alive
  /\ link = "down"
  /\ mpc # "returned"
  /\ link' = "up"
  /\ UNCHANGED <<limiterVars, jobVars, health, dropped, signalled, shutdown, mainVars, alive>>

\* probe:sigkill: the handler calls exit(0).
Sigkill ==
  /\ alive
  /\ link = "up"
  /\ alive' = FALSE
  /\ UNCHANGED <<limiterVars, jobVars, envVars, mainVars>>

Environment ==
  \/ Terminate \/ SignalOutcome \/ ChangeHealth
  \/ DropLink \/ Relink \/ Sigkill

Next ==
  \/ \E j \in Jobs : Request(j) \/ Finish(j) \/ Panic(j) \/ JobStep(j)
  \/ MainStep
  \/ Environment

\* Each task is polled as long as it can run, and both timeouts fire.  Nothing
\* is assumed of commands, of the API, of the network or of signals.
Fairness ==
  /\ \A j \in Jobs : WF_vars(JobStep(j))
  /\ WF_vars(MainStep)

Spec == Init /\ [][Next]_vars /\ Fairness

------------------------------------------------------------------------------
(* Properties. *)

\* No permit is lost or made up: the counter, the slots held by dispatch()
\* tasks and the permits gathered by the drain always add up to the capacity,
\* whichever way a job ends (refused, ack failed, panicked, answered) and
\* whichever way the drain ends (served or timed out).
PermitsConserved ==
  permits + Cardinality(Holders) + gathered = Cap

\* Once connect_once has gone past the drain of a clean shutdown without a
\* timeout, no job is past the status check, now or later: a dispatch() that
\* raced with the shutdown was either counted (it takes its slot before it
\* looks at the status) or sees sigterm.
DrainIsComplete ==
  (outcome = "clean" /\ mpc \in {"closing", "returned"} /\ ~timedOut)
     => \A j \in Jobs : ~Serving(j)

\* A graceful shutdown whose drain did not time out answers what was acked:
\* unless the network broke the link, the only measurement left without a
\* result when the connection is closed is one whose command panicked.
GracefulShutdownAnswers ==
  (outcome = "clean" /\ mpc = "returned" /\ ~timedOut /\ ~dropped)
     => \A j \in Jobs : fate[j] \notin {"open", "unsent"}

\* A request is turned away for want of a slot only when Cap jobs hold one, or
\* when sigterm is set and the status check would refuse it anyway: the drain
\* that takes every free permit never costs the API a measurement the probe
\* would have run.
OnlyFullOrStoppingTurnsAway ==
  [][\A j \in Jobs : TurnAway(j) => (Cardinality(Holders) = Cap \/ sigterm)]_vars

\* Every slot taken is given back, however long the command hangs.
SlotsComeBack ==
  \A j \in Jobs : pc[j] = "slotted" ~> (pc[j] = "done" \/ ~alive)

\* Session implements MeasurementService.  A job is admitted by the status check,
\* open while it is acked and unanswered; the session is quiet once it is past
\* the drain of a clean shutdown that did not time out.
ServiceJob ==
  [j \in Jobs |->
     IF pc[j] = "gated" THEN "admitted"
     ELSE IF fate[j] = "open" THEN "open"
     ELSE IF pc[j] \in {"idle", "spawned", "slotted"} THEN "new"
     ELSE "closed"]

ServicePhase ==
  IF ~alive THEN "gone"
  ELSE IF outcome = "clean" /\ mpc \in {"closing", "returned"} /\ ~timedOut THEN "quiet"
  ELSE IF sigterm THEN "stopping"
  ELSE "serving"

Service == INSTANCE MeasurementService WITH job <- ServiceJob, phase <- ServicePhase

\* The session keeps every promise of the service it offers the API: the cap on
\* what is in hand, no admission once sigterm is set, nothing in hand after a
\* quiet stop, and an end for each measurement it has acked.
ImplementsService == Service!Spec

\* A shutdown request ends the session, whether it came before the select! or
\* during it, even if a command never returns and the drain waits for it.
ShutdownEndsSession == shutdown ~> (mpc = "returned" \/ ~alive)
==============================================================================
