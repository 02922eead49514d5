-------------------------------- MODULE Probe --------------------------------
(***************************************************************************)
(* Two connections of one process, one after the other: run()              *)
(* (src/src/probe/client.rs) calls connect_once again when a connection is *)
(* lost, while dispatch() tasks of the lost one still run.                 *)
(*                                                                         *)
(* Each connection is a Session with a limiter, a socket and an outcome of *)
(* its own; they share the StatusManager (health, sigterm), the watch      *)
(* channel (shutdown) and the process (alive).  The variables and the Jobs *)
(* of the extended Session are those of the second connection; the first   *)
(* is an instance, with the variables and the jobs marked so.  When and    *)
(* how run() dials again is in Reconnect: here it does so at some time, or *)
(* is stopped.                                                             *)
(***************************************************************************)
EXTENDS Session

CONSTANT FirstJobs       \* requests the API may send over the first connection

VARIABLES
  permits1, waiting1, gathered1, pc1, fate1, link1, dropped1, signalled1,
  mpc1, outcome1, timedOut1,
  dialled                \* the second connection has been established

firstVars  == <<permits1, waiting1, gathered1, pc1, fate1, link1, dropped1, signalled1,
                mpc1, outcome1, timedOut1>>
secondVars == <<limiterVars, jobVars, link, dropped, signalled, mpc, outcome, timedOut>>
shared     == <<health, sigterm, shutdown, alive>>
probeVars  == <<firstVars, secondVars, shared, dialled>>

First == INSTANCE Session WITH
  Jobs <- FirstJobs, permits <- permits1, waiting <- waiting1, gathered <- gathered1,
  pc <- pc1, fate <- fate1, link <- link1, dropped <- dropped1,
  signalled <- signalled1, mpc <- mpc1, outcome <- outcome1, timedOut <- timedOut1

ProbeInit == First!Init /\ Init /\ dialled = FALSE

\* connect_once has returned something else than CleanShutdown.
BetweenConnections == alive /\ mpc1 = "returned" /\ outcome1 = "lost" /\ ~dialled

\* The next connect_once gets past its connect().  The head of the loop may have
\* been passed before the shutdown was set.
Redial ==
  /\ BetweenConnections
  /\ dialled' = TRUE
  /\ UNCHANGED <<firstVars, secondVars, shared>>

\* Mutant of StopBetween: the sleep is not a select! with the watch channel.
StopBetweenMissing == FALSE /\ BetweenConnections

\* run() sees the shutdown at the head of its loop or while it sleeps.
StopBetween ==
  /\ BetweenConnections
  /\ shutdown
  /\ alive' = FALSE
  /\ UNCHANGED <<firstVars, secondVars, health, sigterm, shutdown, dialled>>

OfFirst(A)  == A /\ UNCHANGED <<secondVars, dialled>>
OfSecond(A) == dialled /\ A /\ UNCHANGED <<firstVars, dialled>>

ProbeNext ==
  \/ OfFirst(First!Next)
  \/ OfSecond(Next)
  \/ Redial
  \/ StopBetween

ProbeFairness ==
  /\ \A j \in FirstJobs : WF_probeVars(OfFirst(First!JobStep(j)))
  /\ \A j \in Jobs : WF_probeVars(OfSecond(JobStep(j)))
  /\ WF_probeVars(OfFirst(First!MainStep))
  /\ WF_probeVars(OfSecond(MainStep))
  /\ WF_probeVars(StopBetween)

ProbeSpec == ProbeInit /\ [][ProbeNext]_probeVars /\ ProbeFairness

\* Commands that run now, over either connection.
Running == {j \in FirstJobs : pc1[j] = "running"} \cup {j \in Jobs : pc[j] = "running"}

------------------------------------------------------------------------------
(* Properties. *)

\* Tasks of a lost connection do not disturb the drain of the next one: they have
\* permits of another semaphore, and the status they share only closes the gate.
\* What the second connection has acked is answered before it is closed.
LastDrainIsItsOwn ==
  /\ PermitsConserved
  /\ DrainIsComplete
  /\ GracefulShutdownAnswers

\* Once the first connection is closed none of its requests is acked, not even one
\* that has already passed the status check.
NoAckAfterClose ==
  [][\A j \in FirstJobs :
        mpc1 = "returned" /\ fate1[j] = "none" => fate1'[j] = "none"]_probeVars

\* A shutdown stops the process whichever connection it falls on, or between them.
ShutdownStopsProcess == shutdown ~> (~alive \/ (dialled /\ mpc = "returned"))

\* "Maximum concurrent measurements the probe will run simultaneously": the limiter
\* is made anew for each connection.
CapIsTheProbes == Cardinality(Running) <= Cap
==============================================================================
