-------------------------- MODULE MeasurementService --------------------------
(***************************************************************************)
(* What one connection of the probe promises the API, without tasks, slots *)
(* or a drain: at most Cap measurements at a time, none admitted once the  *)
(* probe is stopping, none left when it has stopped quietly, and an        *)
(* admitted one is always closed.  Session implements it.                  *)
(***************************************************************************)
EXTENDS Naturals, FiniteSets

CONSTANTS Jobs, Cap

VARIABLES
  job,      \* [Jobs -> {"new", "admitted", "open", "closed"}]
  phase     \* "serving", "stopping", "quiet" or "gone"

vars == <<job, phase>>

InHand == {j \in Jobs : job[j] \in {"admitted", "open"}}

Init ==
  /\ job = [j \in Jobs |-> "new"]
  /\ phase = "serving"

Move(j, from, to) ==
  /\ phase # "gone"
  /\ job[j] = from
  /\ job' = [job EXCEPT ![j] = to]
  /\ UNCHANGED phase

\* The probe turns the request away, and the API hears nothing of it.
Refuse(j) == Move(j, "new", "closed")

\* The probe decides to run the request.
Admit(j) ==
  /\ phase = "serving"
  /\ Cardinality(InHand) < Cap
  /\ Move(j, "new", "admitted")

\* The API is told, or cannot be.
Acknowledge(j) == Move(j, "admitted", "open")
Abandon(j)     == Move(j, "admitted", "closed")

\* The measurement is over: answered, lost with the connection, or crashed.
Close(j) == Move(j, "open", "closed")

Stop ==
  /\ phase = "serving"
  /\ phase' = "stopping"
  /\ UNCHANGED job

\* The quiet end: nothing in hand.  A probe whose patience ends before goes on
\* "stopping" until it is gone.
Quiesce ==
  /\ phase = "stopping"
  /\ InHand = {}
  /\ phase' = "quiet"
  /\ UNCHANGED job

\* The process ends: after the drain, or at the API's command.
Leave ==
  /\ phase # "gone"
  /\ phase' = "gone"
  /\ UNCHANGED job

Next ==
  \/ \E j \in Jobs : Refuse(j) \/ Admit(j) \/ Acknowledge(j) \/ Abandon(j) \/ Close(j)
  \/ Stop \/ Quiesce \/ Leave

Safety == Init /\ [][Next]_vars

Fairness ==
  \A j \in Jobs : WF_vars(Acknowledge(j) \/ Abandon(j)) /\ WF_vars(Close(j))

Spec == Safety /\ Fairness
===============================================================================
