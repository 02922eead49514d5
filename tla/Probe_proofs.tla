------------------------------ MODULE Probe_proofs ------------------------------
(***************************************************************************)
(* Safety of Probe for every Cap, any jobs of the first connection and     *)
(* every finite set of jobs of the second.                                 *)
(*                                                                         *)
(* The second connection keeps the inductive invariant of Session: its own *)
(* steps by StepInv, those of the first one because they touch only what   *)
(* the connections share, and of that only sigterm matters, which is never *)
(* unset.  Of the first connection a much weaker invariant is enough.      *)
(***************************************************************************)
EXTENDS Probe, Session_proofs

------------------------------------------------------------------------------
(* The inductive invariant. *)

FirstTypeOK ==
  /\ pc1 \in [FirstJobs -> First!JobPcs]
  /\ fate1 \in [FirstJobs -> First!Fates]

\* What has not been acked is not past its ack.
FirstUnacked ==
  \A j \in FirstJobs : fate1[j] = "none" => pc1[j] \notin {"acked", "running", "replying"}

\* Once connect_once has returned nothing brings its socket back.
FirstStaysClosed == mpc1 = "returned" => link1 = "down"

ProbeIInv ==
  /\ IInv
  /\ FirstTypeOK
  /\ FirstUnacked
  /\ FirstStaysClosed

------------------------------------------------------------------------------
(* Steps of the first connection. *)

FirstJobMoves(j) == First!Request(j) \/ First!Finish(j) \/ First!Panic(j) \/ First!JobStep(j)

\* What a job of the first connection leaves alone.
LEMMA FirstJobFrame ==
  ASSUME NEW j \in FirstJobs, FirstJobMoves(j)
  PROVE  UNCHANGED <<link1, mpc1, shared>>
BY DEF FirstJobMoves, First!JobStep, First!Request, First!Finish, First!Panic, First!TakeSlot, First!TurnAway,
       First!PassGate, First!FailGate, First!Ack, First!AckFails, First!Begin, First!Timeout,
       First!Reply, First!Return, First!envVars, First!mainVars, First!At, shared

\* The types and the fates of the first connection's jobs after a step of one of them.
LEMMA FirstJobStep ==
  ASSUME FirstTypeOK, FirstUnacked, NEW j \in FirstJobs, FirstJobMoves(j)
  PROVE  FirstTypeOK' /\ FirstUnacked'
<1> USE DEF FirstTypeOK, FirstUnacked, First!At, First!Goto, First!Settle, First!JobPcs,
            First!HoldingPcs, First!Fates, First!jobVars
<1>1. CASE First!Request(j) \/ First!TakeSlot(j) \/ First!TurnAway(j)
  BY <1>1 DEF First!Request, First!TakeSlot, First!TurnAway
<1>2. CASE First!PassGate(j) \/ First!FailGate(j) \/ First!AckFails(j)
  BY <1>2 DEF First!PassGate, First!FailGate, First!AckFails
<1>3. CASE First!Ack(j)
  BY <1>3 DEF First!Ack
<1>4. CASE First!Panic(j)
  BY <1>4 DEF First!Panic
<1>5. CASE First!Begin(j)
  BY <1>5 DEF First!Begin
<1>6. CASE First!Finish(j) \/ First!Timeout(j)
  BY <1>6 DEF First!Finish, First!Timeout
<1>7. CASE First!Reply(j)
  BY <1>7 DEF First!Reply
<1>8. CASE First!Return(j)
  BY <1>8 DEF First!Return
<1>9. QED
  BY <1>1, <1>2, <1>3, <1>4, <1>5, <1>6, <1>7, <1>8 DEF FirstJobMoves, First!JobStep

\* Only Ack takes a job out of fate "none", and only over a live link.
LEMMA FirstAckNeedsLink ==
  ASSUME FirstTypeOK, FirstUnacked, NEW j \in FirstJobs, FirstJobMoves(j), link1 = "down",
         NEW k \in FirstJobs, fate1[k] = "none"
  PROVE  fate1'[k] = "none"
<1> USE DEF FirstTypeOK, FirstUnacked, First!At, First!Settle, First!jobVars
<1>1. CASE First!Reply(j)
  BY <1>1 DEF First!Reply
<1>2. CASE First!Panic(j)
  BY <1>2 DEF First!Panic
<1>3. CASE First!Ack(j)
  BY <1>3 DEF First!Ack
<1>4. CASE ~First!Reply(j) /\ ~First!Panic(j) /\ ~First!Ack(j)
  BY <1>4 DEF FirstJobMoves, First!JobStep, First!Request, First!Finish, First!TakeSlot, First!TurnAway,
              First!PassGate, First!FailGate, First!AckFails, First!Begin, First!Timeout,
              First!Return
<1>5. QED
  BY <1>1, <1>2, <1>3, <1>4

\* connect_once and the environment leave the jobs alone, and the socket closed
\* behind connect_once stays closed.
LEMMA FirstOtherStep ==
  ASSUME FirstStaysClosed, First!MainStep \/ First!Environment
  PROVE  FirstStaysClosed' /\ UNCHANGED <<pc1, fate1>>
<1> USE DEF FirstStaysClosed, First!jobVars, First!envVars, First!mainVars, First!MainAt
<1>1. CASE First!MainStep
  <2>1. CASE First!Disconnect
    BY <2>1 DEF First!Disconnect
  <2>2. CASE ~First!Disconnect
    BY <1>1, <2>2 DEF First!MainStep, First!SelectShutdown, First!SelectSignal,
       First!SetSigterm, First!AnnounceSigterm, First!CountInFlight, First!StartDrain,
       First!FinishDrain, First!DrainTimeout, First!ExitProcess
  <2>3. QED
    BY <2>1, <2>2
<1>2. CASE First!Environment
  BY <1>2 DEF First!Environment, First!Terminate, First!SignalOutcome, First!ChangeHealth,
              First!DropLink, First!Relink, First!Sigkill
<1>3. QED
  BY <1>1, <1>2

\* What the connections share: a step of the first keeps its types and never
\* unsets sigterm.
LEMMA FirstShares ==
  ASSUME TypeOK, First!Next
  PROVE  /\ health' \in BOOLEAN /\ sigterm' \in BOOLEAN
         /\ shutdown' \in BOOLEAN /\ alive' \in BOOLEAN
         /\ sigterm => sigterm'
<1> USE DEF TypeOK
<1>1. ASSUME NEW j \in FirstJobs, FirstJobMoves(j)
      PROVE  UNCHANGED shared
  BY <1>1, FirstJobFrame
<1>2. CASE First!MainStep
  BY <1>2 DEF First!MainStep, First!SelectShutdown, First!SelectSignal, First!SetSigterm,
     First!AnnounceSigterm, First!CountInFlight, First!StartDrain, First!FinishDrain,
     First!DrainTimeout, First!Disconnect, First!ExitProcess, First!envVars, First!mainVars
<1>3. CASE First!Environment
  BY <1>3 DEF First!Environment, First!Terminate, First!SignalOutcome, First!ChangeHealth,
     First!DropLink, First!Relink, First!Sigkill, First!envVars, First!mainVars
<1>4. QED
  BY <1>1, <1>2, <1>3 DEF First!Next, FirstJobMoves, shared

------------------------------------------------------------------------------
(* The second connection under the steps that are not its own. *)

\* Session's invariant depends on what is shared only through sigterm, and stays
\* when that is set.
LEMMA SecondUndisturbed ==
  ASSUME IInv, UNCHANGED secondVars,
         health' \in BOOLEAN, sigterm' \in BOOLEAN, shutdown' \in BOOLEAN, alive' \in BOOLEAN,
         sigterm => sigterm'
  PROVE  IInv'
<1> USE DEF IInv, secondVars, limiterVars, jobVars
<1>1. TypeOK'
  BY DEF TypeOK, LimiterTypeOK
<1>2. PermitsConserved'
  BY DEF PermitsConserved, Holders
<1>3. WaiterIsMain' /\ ShutdownOrder'
  BY DEF WaiterIsMain, ShutdownOrder
<1>4. OpenWhileRunning' /\ LossHasReason'
  BY DEF OpenWhileRunning, LossHasReason
<1>5. DrainIsComplete'
  BY DEF DrainIsComplete, Serving
<1>6. QED
  BY <1>1, <1>2, <1>3, <1>4, <1>5

------------------------------------------------------------------------------
(* The theorems. *)

\* The inductive invariant holds at the start.
LEMMA ProbeInitInv == ProbeInit => ProbeIInv
<1> SUFFICES ASSUME ProbeInit PROVE ProbeIInv
  OBVIOUS
<1>1. IInv
  BY InitInv DEF ProbeInit
<1>2. FirstTypeOK /\ FirstUnacked /\ FirstStaysClosed
  BY DEF ProbeInit, First!Init, FirstTypeOK, FirstUnacked, FirstStaysClosed, First!JobPcs,
         First!HoldingPcs, First!Fates
<1>3. QED
  BY <1>1, <1>2 DEF ProbeIInv

\* A step of the first connection keeps the inductive invariant.
LEMMA FirstKeepsInv ==
  ASSUME ProbeIInv, OfFirst(First!Next)
  PROVE  ProbeIInv'
<1>1. IInv'
  BY FirstShares, SecondUndisturbed DEF ProbeIInv, IInv, OfFirst
<1>2. ASSUME NEW j \in FirstJobs, FirstJobMoves(j)
      PROVE  FirstTypeOK' /\ FirstUnacked' /\ FirstStaysClosed'
  BY <1>2, FirstJobStep, FirstJobFrame DEF ProbeIInv, FirstStaysClosed
<1>3. ASSUME First!MainStep \/ First!Environment
      PROVE  FirstTypeOK' /\ FirstUnacked' /\ FirstStaysClosed'
  BY <1>3, FirstOtherStep DEF ProbeIInv, FirstTypeOK, FirstUnacked
<1>4. (\E j \in FirstJobs : FirstJobMoves(j)) \/ First!MainStep \/ First!Environment
  BY DEF OfFirst, First!Next, FirstJobMoves
<1>5. QED
  BY <1>1, <1>2, <1>3, <1>4 DEF ProbeIInv

\* Every step keeps the inductive invariant.
LEMMA ProbeStepInv == ProbeIInv /\ [ProbeNext]_probeVars => ProbeIInv'
<1> SUFFICES ASSUME ProbeIInv, [ProbeNext]_probeVars PROVE ProbeIInv'
  OBVIOUS
<1>1. ASSUME UNCHANGED firstVars, IInv'
      PROVE  ProbeIInv'
  BY <1>1 DEF ProbeIInv, firstVars, FirstTypeOK, FirstUnacked, FirstStaysClosed
<1>2. CASE OfSecond(Next)
  BY <1>1, <1>2, StepInv DEF OfSecond, ProbeIInv
<1>3. CASE Redial \/ StopBetween \/ UNCHANGED probeVars
  <2>1. UNCHANGED <<firstVars, secondVars, health, sigterm, shutdown>> /\ alive' \in BOOLEAN
    BY <1>3 DEF Redial, StopBetween, probeVars, shared, ProbeIInv, IInv, TypeOK
  <2>2. QED
    BY <1>1, <2>1, SecondUndisturbed DEF ProbeIInv, IInv, TypeOK
<1>4. QED
  BY <1>2, <1>3, FirstKeepsInv DEF ProbeNext

\* The inductive invariant holds in every reachable state of the process.
THEOREM ProbeInvariance == ProbeSpec => []ProbeIInv
BY ProbeInitInv, ProbeStepInv, PTL DEF ProbeSpec

\* Whatever the tasks of a lost connection still do, the next connection loses no
\* permit, drains completely and answers what it has acked before it is closed.
THEOREM DrainIsUndisturbed == ProbeSpec => []LastDrainIsItsOwn
<1>1. IInv => LastDrainIsItsOwn
  BY DEF IInv, LastDrainIsItsOwn, DrainIsComplete, GracefulShutdownAnswers, LossHasReason,
         OpenWhileRunning, Serving, HoldingPcs
<1>2. QED
  BY <1>1, ProbeInvariance, PTL DEF ProbeIInv

\* No request of a connection that has been closed is acked, however far its
\* dispatch() had got.
THEOREM ClosedMeansUnacked == ProbeSpec => NoAckAfterClose
<1>1. ASSUME ProbeIInv, ProbeNext, NEW k \in FirstJobs, mpc1 = "returned", fate1[k] = "none"
      PROVE  fate1'[k] = "none"
  <2>1. ASSUME NEW j \in FirstJobs, FirstJobMoves(j)
        PROVE  fate1'[k] = "none"
    BY <1>1, <2>1, FirstAckNeedsLink DEF ProbeIInv, FirstStaysClosed
  <2>2. CASE First!MainStep \/ First!Environment
    BY <1>1, <2>2, FirstOtherStep DEF ProbeIInv
  <2>3. CASE OfSecond(Next) \/ Redial \/ StopBetween
    BY <1>1, <2>3 DEF OfSecond, Redial, StopBetween, firstVars
  <2>4. QED
    BY <1>1, <2>1, <2>2, <2>3 DEF ProbeNext, OfFirst, First!Next, FirstJobMoves
<1>2. ProbeIInv /\ [ProbeNext]_probeVars
        => [\A j \in FirstJobs : mpc1 = "returned" /\ fate1[j] = "none" => fate1'[j] = "none"]_probeVars
  BY <1>1
<1>3. QED
  BY <1>2, ProbeInvariance, PTL DEF ProbeSpec, NoAckAfterClose
==============================================================================
