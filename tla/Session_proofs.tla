---------------------------- MODULE Session_proofs ----------------------------
(***************************************************************************)
(* Safety of Session, and that it implements the safety of                 *)
(* MeasurementService, for every Cap and every finite set of Jobs.         *)
(***************************************************************************)
EXTENDS Session, FiniteSetTheorems, TLAPS

------------------------------------------------------------------------------
(* The inductive invariant. *)

\* connect_once waits on the semaphore exactly while it is draining.
WaiterIsMain ==
  /\ waiting <=> mpc = "draining"
  /\ ~waiting => gathered = 0

\* The outcome is fixed when connect_once leaves its select!, and sigterm is set
\* before a clean shutdown looks at the limiter.
ShutdownOrder ==
  /\ outcome = "none" <=> mpc = "up"
  /\ mpc \notin {"up", "closing", "returned"} => outcome = "clean"
  /\ outcome = "clean" /\ mpc # "terminating" => sigterm

\* A measurement is open from its ack to its result.
OpenWhileRunning ==
  \A j \in Jobs : fate[j] = "open" <=> pc[j] \in {"acked", "running", "replying"}

\* Why a link may be down, and why a result may not have been sent.
LossHasReason ==
  /\ link = "down" => dropped \/ mpc = "returned"
  /\ \A j \in Jobs : fate[j] = "unsent" => dropped \/ timedOut \/ outcome = "lost"

IInv ==
  /\ TypeOK
  /\ PermitsConserved
  /\ WaiterIsMain
  /\ ShutdownOrder
  /\ OpenWhileRunning
  /\ LossHasReason
  /\ DrainIsComplete

------------------------------------------------------------------------------
(* How the set of slot holders moves with the jobs' program counters. *)

\* The holders are finite in number.
LEMMA HoldersFinite ==
  /\ IsFiniteSet(Holders)
  /\ Cardinality(Holders) \in Nat
<1>1. Holders \in SUBSET Jobs
  BY DEF Holders
<1>2. IsFiniteSet(Holders)
  BY <1>1, JobsAssumption, FS_Subset
<1>3. QED
  BY <1>2, FS_CardinalityType

\* TakeSlot adds a holder.
LEMMA HolderEnters ==
  ASSUME NEW j \in Jobs, pc \in [Jobs -> JobPcs], pc[j] = "spawned", Goto(j, "slotted")
  PROVE  Cardinality(Holders') = Cardinality(Holders) + 1
<1>1. Holders' = Holders \cup {j} /\ j \notin Holders
  BY DEF Holders, Goto, HoldingPcs, JobPcs
<1>2. QED
  BY <1>1, HoldersFinite, FS_AddElement

\* A job that ends while it holds a slot is a holder less.
LEMMA HolderLeaves ==
  ASSUME NEW j \in Jobs, pc \in [Jobs -> JobPcs], pc[j] \in HoldingPcs, Goto(j, "done")
  PROVE  Cardinality(Holders') = Cardinality(Holders) - 1
<1>1. Holders' = Holders \ {j} /\ j \in Holders
  BY DEF Holders, Goto, HoldingPcs, JobPcs
<1>2. QED
  BY <1>1, HoldersFinite, FS_RemoveElement

\* Every other step of a job leaves the holders as they are.
LEMMA HoldersStay ==
  ASSUME NEW j \in Jobs, NEW there \in JobPcs, pc \in [Jobs -> JobPcs], Goto(j, there),
         pc[j] \in HoldingPcs <=> there \in HoldingPcs
  PROVE  Holders' = Holders
BY DEF Holders, Goto, HoldingPcs, JobPcs

\* With every permit back on the counter or with the waiter, no job is past the gate.
LEMMA AllPermitsMeansIdle ==
  ASSUME PermitsConserved, TypeOK, permits + gathered = Cap
  PROVE  \A j \in Jobs : ~Serving(j)
<1>1. Cardinality(Holders) = 0
  BY HoldersFinite, CapAssumption DEF PermitsConserved, TypeOK, LimiterTypeOK
<1>2. Holders = {}
  BY <1>1, HoldersFinite, FS_EmptySet
<1>3. QED
  BY <1>2 DEF Holders, Serving, HoldingPcs

------------------------------------------------------------------------------
(* Type correctness. *)

\* The initial states are typed.
LEMMA InitTypeOK == Init => TypeOK
<1> SUFFICES ASSUME Init PROVE TypeOK
  OBVIOUS
<1> USE DEF Init
<1>1. permits \in 0..Cap /\ gathered \in 0..Cap
  BY CapAssumption DEF LimiterInit
<1>2. waiting \in BOOLEAN
  BY DEF LimiterInit
<1>3. pc \in [Jobs -> JobPcs] /\ fate \in [Jobs -> Fates]
  BY DEF JobPcs, HoldingPcs, Fates
<1>4. QED
  BY <1>1, <1>2, <1>3 DEF TypeOK, LimiterTypeOK, MainPcs

\* A released permit stays within the capacity because it was counted before.
LEMMA ReleaseIsTyped ==
  ASSUME LimiterTypeOK, ReleaseSlot, permits + gathered < Cap
  PROVE  LimiterTypeOK'
BY CapAssumption DEF LimiterTypeOK, ReleaseSlot

\* A job that holds a slot accounts for a permit that is neither on the counter
\* nor with the waiter.
LEMMA HolderHasPermit ==
  ASSUME TypeOK, PermitsConserved, NEW j \in Jobs, pc[j] \in HoldingPcs
  PROVE  permits + gathered < Cap
<1>1. Holders # {}
  BY DEF Holders
<1>2. Cardinality(Holders) > 0
  BY <1>1, HoldersFinite, FS_EmptySet
<1>3. QED
  BY <1>2, HoldersFinite, CapAssumption DEF PermitsConserved, TypeOK, LimiterTypeOK

\* A step of a job keeps the types; that a released permit fits is due to the conservation.
LEMMA JobTypeOK ==
  ASSUME TypeOK, PermitsConserved, NEW j \in Jobs,
         Request(j) \/ Finish(j) \/ Panic(j) \/ JobStep(j)
  PROVE  TypeOK'
<1> USE DEF TypeOK, JobPcs, HoldingPcs, Fates, At, Goto, Settle, jobVars, envVars, mainVars,
            limiterVars
<1>1. CASE Request(j)
  BY <1>1 DEF Request, LimiterTypeOK
<1>2. CASE Finish(j) \/ Timeout(j)
  BY <1>2 DEF Finish, Timeout, LimiterTypeOK
<1>3. CASE Panic(j)
  BY <1>3, HolderHasPermit, ReleaseIsTyped DEF Panic
<1>4. CASE TakeSlot(j)
  BY <1>4, CapAssumption DEF TakeSlot, AcquireSlot, LimiterTypeOK
<1>5. CASE TurnAway(j)
  BY <1>5 DEF TurnAway, RefuseSlot, LimiterTypeOK
<1>6. CASE PassGate(j)
  BY <1>6 DEF PassGate, LimiterTypeOK
<1>7. CASE FailGate(j)
  BY <1>7, HolderHasPermit, ReleaseIsTyped DEF FailGate
<1>8. CASE Ack(j)
  BY <1>8 DEF Ack, LimiterTypeOK
<1>9. CASE AckFails(j)
  BY <1>9, HolderHasPermit, ReleaseIsTyped DEF AckFails
<1>10. CASE Begin(j)
  BY <1>10 DEF Begin, LimiterTypeOK
<1>11. CASE Reply(j)
  BY <1>11 DEF Reply, LimiterTypeOK
<1>12. CASE Return(j)
  BY <1>12, HolderHasPermit, ReleaseIsTyped DEF Return
<1>13. QED
  BY <1>1, <1>2, <1>3, <1>4, <1>5, <1>6, <1>7, <1>8, <1>9, <1>10, <1>11, <1>12 DEF JobStep

\* So does a step of connect_once.
LEMMA MainTypeOK ==
  ASSUME TypeOK, PermitsConserved, MainStep
  PROVE  TypeOK'
<1> USE DEF TypeOK, LimiterTypeOK, MainPcs, MainAt, jobVars, envVars, mainVars, limiterVars
<1>1. CASE SelectShutdown \/ SelectSignal \/ SetSigterm \/ AnnounceSigterm
  <2>1. CASE SelectShutdown
    BY <2>1, SMTT(20), ZenonT(20) DEF SelectShutdown
  <2>2. CASE SelectSignal
    BY <2>2, SMTT(20), ZenonT(20) DEF SelectSignal
  <2>3. CASE SetSigterm
    BY <2>3, SMTT(20), ZenonT(20) DEF SetSigterm
  <2>4. CASE AnnounceSigterm
    BY <2>4, SMTT(20), ZenonT(20) DEF AnnounceSigterm
  <2> QED BY <1>1, <2>1, <2>2, <2>3, <2>4
<1>2. CASE CountInFlight
  BY <1>2 DEF CountInFlight
<1>3. CASE StartDrain
  BY <1>3, CapAssumption DEF StartDrain, BeginWaitIdle
<1>4. CASE FinishDrain \/ DrainTimeout
  <2>1. permits + gathered \in 0..Cap
    BY HoldersFinite, CapAssumption DEF PermitsConserved
  <2>2. ReturnGathered => permits' \in 0..Cap /\ gathered' \in 0..Cap /\ waiting' \in BOOLEAN
    <3>1. ReturnGathered => permits' \in 0..Cap /\ gathered' \in 0..Cap
      BY <2>1, CapAssumption DEF ReturnGathered
    <3>2. ReturnGathered => waiting' \in BOOLEAN
      BY DEF ReturnGathered
    <3>3. QED
      BY <3>1, <3>2
  <2>3. CASE FinishDrain
    BY <2>2, <2>3 DEF FinishDrain, EndWaitIdle
  <2>4. CASE DrainTimeout
    BY <2>2, <2>4 DEF DrainTimeout, CancelWaitIdle
  <2>5. QED
    BY <1>4, <2>3, <2>4
<1>5. CASE Disconnect \/ ExitProcess
  BY <1>5, SMTT(20), ZenonT(20) DEF Disconnect, ExitProcess
<1>6. QED
  BY <1>1, <1>2, <1>3, <1>4, <1>5 DEF MainStep

\* And what happens from outside.
LEMMA EnvironmentTypeOK ==
  ASSUME TypeOK, Environment
  PROVE  TypeOK'
<1> USE DEF TypeOK, LimiterTypeOK, jobVars, envVars, mainVars, limiterVars
<1>1. CASE Terminate
  BY <1>1 DEF Terminate
<1>2. CASE SignalOutcome
  BY <1>2 DEF SignalOutcome
<1>3. CASE ChangeHealth
  BY <1>3 DEF ChangeHealth
<1>4. CASE DropLink
  BY <1>4 DEF DropLink
<1>5. CASE Relink
  BY <1>5 DEF Relink
<1>6. CASE Sigkill
  BY <1>6 DEF Sigkill
<1>7. QED
  BY <1>1, <1>2, <1>3, <1>4, <1>5, <1>6 DEF Environment

------------------------------------------------------------------------------
(* The permits add up after every step. *)

\* A job that ends hands its permit to the counter or to the waiter.
LEMMA ReleaseConserves ==
  ASSUME TypeOK, PermitsConserved, NEW j \in Jobs, pc[j] \in HoldingPcs,
         ReleaseSlot, Goto(j, "done")
  PROVE  PermitsConserved'
<1>1. \/ permits' = permits + 1 /\ gathered' = gathered
      \/ permits' = permits /\ gathered' = gathered + 1
  BY DEF ReleaseSlot
<1>2. Cardinality(Holders') = Cardinality(Holders) - 1
  BY HolderLeaves DEF TypeOK
<1>3. QED
  BY <1>1, <1>2, HoldersFinite, CapAssumption DEF PermitsConserved, TypeOK, LimiterTypeOK

\* A step that moves neither the permits nor the holders.
LEMMA StayConserves ==
  ASSUME PermitsConserved, UNCHANGED <<permits, gathered>>, Holders' = Holders
  PROVE  PermitsConserved'
BY DEF PermitsConserved

\* A step of a job moves a permit exactly when it moves a holder.
LEMMA JobConserves ==
  ASSUME TypeOK, PermitsConserved, NEW j \in Jobs,
         Request(j) \/ Finish(j) \/ Panic(j) \/ JobStep(j)
  PROVE  PermitsConserved'
<1> USE DEF At, HoldingPcs, JobPcs, limiterVars
<1>0. pc \in [Jobs -> JobPcs]
  BY DEF TypeOK
<1>1. CASE Request(j)
  BY <1>0, <1>1, HoldersStay, StayConserves DEF Request
<1>2. CASE Finish(j) \/ Timeout(j)
  BY <1>0, <1>2, HoldersStay, StayConserves DEF Finish, Timeout
<1>3. CASE Panic(j)
  BY <1>3, ReleaseConserves DEF Panic
<1>4. CASE TakeSlot(j)
  <2>1. Cardinality(Holders') = Cardinality(Holders) + 1
    BY <1>0, <1>4, HolderEnters DEF TakeSlot
  <2>2. permits' = permits - 1 /\ gathered' = gathered
    BY <1>4 DEF TakeSlot, AcquireSlot
  <2>3. QED
    BY <2>1, <2>2, HoldersFinite, CapAssumption DEF PermitsConserved, TypeOK, LimiterTypeOK
<1>5. CASE TurnAway(j)
  BY <1>0, <1>5, HoldersStay, StayConserves DEF TurnAway, RefuseSlot
<1>6. CASE PassGate(j)
  BY <1>0, <1>6, HoldersStay, StayConserves DEF PassGate
<1>7. CASE FailGate(j)
  BY <1>7, ReleaseConserves DEF FailGate
<1>8. CASE Ack(j)
  BY <1>0, <1>8, HoldersStay, StayConserves DEF Ack
<1>9. CASE AckFails(j)
  BY <1>9, ReleaseConserves DEF AckFails
<1>10. CASE Begin(j)
  BY <1>0, <1>10, HoldersStay, StayConserves DEF Begin
<1>11. CASE Reply(j)
  BY <1>0, <1>11, HoldersStay, StayConserves DEF Reply
<1>12. CASE Return(j)
  BY <1>12, ReleaseConserves DEF Return
<1>13. QED
  BY <1>1, <1>2, <1>3, <1>4, <1>5, <1>6, <1>7, <1>8, <1>9, <1>10, <1>11, <1>12 DEF JobStep

\* The drain only moves permits between the counter and the waiter.
LEMMA MainConserves ==
  ASSUME TypeOK, PermitsConserved, WaiterIsMain, MainStep
  PROVE  PermitsConserved'
<1>1. UNCHANGED pc
  BY DEF MainStep, SelectShutdown, SelectSignal, SetSigterm, AnnounceSigterm, CountInFlight,
         StartDrain, FinishDrain, DrainTimeout, Disconnect, ExitProcess, jobVars
<1>2. Holders' = Holders
  BY <1>1 DEF Holders
<1>3. CASE StartDrain
  BY <1>2, <1>3, HoldersFinite, CapAssumption
  DEF StartDrain, BeginWaitIdle, PermitsConserved, WaiterIsMain, TypeOK, LimiterTypeOK
<1>4. CASE FinishDrain \/ DrainTimeout
  BY <1>2, <1>4, HoldersFinite, CapAssumption
  DEF FinishDrain, DrainTimeout, EndWaitIdle, CancelWaitIdle, ReturnGathered, PermitsConserved,
      TypeOK, LimiterTypeOK
<1>5. CASE ~StartDrain /\ ~FinishDrain /\ ~DrainTimeout
  BY <1>2, <1>5, StayConserves
  DEF MainStep, SelectShutdown, SelectSignal, SetSigterm, AnnounceSigterm, CountInFlight,
      Disconnect, ExitProcess, limiterVars
<1>6. QED
  BY <1>3, <1>4, <1>5

\* What happens outside leaves the jobs, the limiter and connect_once alone.
LEMMA EnvironmentFrame ==
  Environment => UNCHANGED <<limiterVars, jobVars, mainVars>>
BY DEF Environment, Terminate, SignalOutcome, ChangeHealth, DropLink, Relink, Sigkill

\* Every step conserves the permits.
LEMMA StepConserves ==
  ASSUME TypeOK, PermitsConserved, WaiterIsMain, [Next]_vars
  PROVE  PermitsConserved'
<1>1. ASSUME NEW j \in Jobs, Request(j) \/ Finish(j) \/ Panic(j) \/ JobStep(j)
      PROVE  PermitsConserved'
  BY <1>1, JobConserves
<1>2. CASE MainStep
  BY <1>2, MainConserves
<1>3. CASE Environment
  BY <1>3, EnvironmentFrame, StayConserves DEF Holders, limiterVars, jobVars
<1>4. CASE UNCHANGED vars
  BY <1>4, StayConserves DEF Holders, vars, limiterVars, jobVars
<1>5. QED
  BY <1>1, <1>2, <1>3, <1>4 DEF Next

------------------------------------------------------------------------------
(* connect_once: the waiter, the outcome and sigterm after every step. *)

\* What a step of a job leaves alone, and that it moves one program counter.
LEMMA JobFrame ==
  ASSUME NEW j \in Jobs, Request(j) \/ Finish(j) \/ Panic(j) \/ JobStep(j)
  PROVE  /\ UNCHANGED <<envVars, mainVars, alive>>
         /\ alive
         /\ \E there \in JobPcs : Goto(j, there)
         /\ waiting' = waiting
         /\ ~waiting => gathered' = gathered
<1> USE DEF At, JobPcs, HoldingPcs, limiterVars, ReleaseSlot
<1>1. CASE Request(j)
  BY <1>1 DEF Request
<1>2. CASE Finish(j) \/ Timeout(j)
  BY <1>2 DEF Finish, Timeout
<1>3. CASE Panic(j)
  BY <1>3 DEF Panic
<1>4. CASE TakeSlot(j)
  BY <1>4 DEF TakeSlot, AcquireSlot
<1>5. CASE TurnAway(j)
  BY <1>5 DEF TurnAway, RefuseSlot
<1>6. CASE PassGate(j)
  BY <1>6 DEF PassGate
<1>7. CASE FailGate(j)
  BY <1>7 DEF FailGate
<1>8. CASE Ack(j)
  BY <1>8 DEF Ack
<1>9. CASE AckFails(j)
  BY <1>9 DEF AckFails
<1>10. CASE Begin(j)
  BY <1>10 DEF Begin
<1>11. CASE Reply(j)
  BY <1>11 DEF Reply
<1>12. CASE Return(j)
  BY <1>12 DEF Return
<1>13. QED
  BY <1>1, <1>2, <1>3, <1>4, <1>5, <1>6, <1>7, <1>8, <1>9, <1>10, <1>11, <1>12 DEF JobStep

\* Every step keeps the waiter and the order of the shutdown.
LEMMA StepControl ==
  ASSUME TypeOK, WaiterIsMain, ShutdownOrder, [Next]_vars
  PROVE  WaiterIsMain' /\ ShutdownOrder'
<1> USE DEF WaiterIsMain, ShutdownOrder
<1>1. ASSUME NEW j \in Jobs, Request(j) \/ Finish(j) \/ Panic(j) \/ JobStep(j)
      PROVE  WaiterIsMain' /\ ShutdownOrder'
  BY <1>1, JobFrame DEF mainVars
<1>2. CASE MainStep
  <2> USE DEF MainAt, limiterVars
  <2>1. CASE SelectShutdown \/ SelectSignal
    BY <2>1 DEF SelectShutdown, SelectSignal
  <2>2. CASE SetSigterm \/ AnnounceSigterm
    BY <2>2 DEF SetSigterm, AnnounceSigterm
  <2>3. CASE CountInFlight
    BY <2>3 DEF CountInFlight
  <2>4. CASE StartDrain
    BY <2>4 DEF StartDrain, BeginWaitIdle
  <2>5. CASE FinishDrain \/ DrainTimeout
    BY <2>5 DEF FinishDrain, DrainTimeout, EndWaitIdle, CancelWaitIdle, ReturnGathered
  <2>6. CASE Disconnect
    BY <2>6 DEF Disconnect
  <2>7. CASE ExitProcess
    BY <2>7 DEF ExitProcess, mainVars
  <2>8. QED
    BY <1>2, <2>1, <2>2, <2>3, <2>4, <2>5, <2>6, <2>7 DEF MainStep
<1>3. CASE Environment \/ UNCHANGED vars
  BY <1>3, EnvironmentFrame DEF vars, limiterVars, mainVars
<1>4. QED
  BY <1>1, <1>2, <1>3 DEF Next

------------------------------------------------------------------------------
(* The jobs' fates after every step. *)

\* connect_once leaves the jobs' own state alone.
LEMMA MainFrame ==
  MainStep => UNCHANGED <<jobVars, dropped>>
BY DEF MainStep, SelectShutdown, SelectSignal, SetSigterm, AnnounceSigterm, CountInFlight,
       StartDrain, FinishDrain, DrainTimeout, Disconnect, ExitProcess, envVars, jobVars

\* Every step keeps acked and unanswered jobs between their ack and their result.
LEMMA StepOpen ==
  ASSUME TypeOK, OpenWhileRunning, [Next]_vars
  PROVE  OpenWhileRunning'
<1> USE DEF OpenWhileRunning
<1>1. ASSUME NEW j \in Jobs, Request(j) \/ Finish(j) \/ Panic(j) \/ JobStep(j)
      PROVE  OpenWhileRunning'
  <2> USE DEF At, Goto, Settle, TypeOK
  <2>1. CASE Request(j) \/ TakeSlot(j) \/ TurnAway(j)
    BY <2>1 DEF Request, TakeSlot, TurnAway
  <2>2. CASE PassGate(j) \/ FailGate(j) \/ AckFails(j)
    BY <2>2 DEF PassGate, FailGate, AckFails
  <2>3. CASE Ack(j) \/ Panic(j)
    BY <2>3 DEF Ack, Panic
  <2>4. CASE Begin(j) \/ Finish(j) \/ Timeout(j)
    BY <2>4 DEF Begin, Finish, Timeout
  <2>5. CASE Reply(j)
    BY <2>5 DEF Reply
  <2>6. CASE Return(j)
    BY <2>6 DEF Return
  <2>7. QED
    BY <1>1, <2>1, <2>2, <2>3, <2>4, <2>5, <2>6 DEF JobStep
<1>2. CASE MainStep \/ Environment \/ UNCHANGED vars
  BY <1>2, MainFrame, EnvironmentFrame DEF vars, jobVars
<1>3. QED
  BY <1>1, <1>2 DEF Next

\* The only step that makes a result unsent is a Reply over a link that is down.
LEMMA UnsentByReply ==
  ASSUME TypeOK, NEW j \in Jobs, Request(j) \/ Finish(j) \/ Panic(j) \/ JobStep(j),
         NEW k \in Jobs, fate'[k] = "unsent", fate[k] # "unsent"
  PROVE  Serving(j) /\ link = "down"
<1> USE DEF At, Settle, TypeOK, jobVars
<1>1. CASE Reply(j)
  BY <1>1 DEF Reply, Serving, HoldingPcs
<1>2. CASE Ack(j) \/ Panic(j)
  BY <1>2 DEF Ack, Panic
<1>3. CASE ~Reply(j) /\ ~Ack(j) /\ ~Panic(j)
  BY <1>3 DEF JobStep, Request, TakeSlot, TurnAway, PassGate, FailGate, AckFails, Begin, Finish,
              Timeout, Return
<1>4. QED
  BY <1>1, <1>2, <1>3

\* Every step keeps a lost result explained by the network or by an unfinished drain.
LEMMA StepLoss ==
  ASSUME TypeOK, ShutdownOrder, LossHasReason, DrainIsComplete, [Next]_vars
  PROVE  LossHasReason'
<1>1. ASSUME NEW j \in Jobs, Request(j) \/ Finish(j) \/ Panic(j) \/ JobStep(j)
      PROVE  LossHasReason'
  <2>1. UNCHANGED <<link, dropped, mpc, timedOut, outcome>>
    BY <1>1, JobFrame DEF envVars, mainVars
  <2>2. ASSUME NEW k \in Jobs, fate'[k] = "unsent"
        PROVE  dropped \/ timedOut \/ outcome = "lost"
    <3>1. CASE fate[k] = "unsent"
      BY <3>1 DEF LossHasReason
    <3>2. CASE fate[k] # "unsent"
      <4>1. Serving(j) /\ link = "down"
        BY <1>1, <2>2, <3>2, UnsentByReply
      <4>2. CASE ~dropped
        <5>1. mpc = "returned" /\ outcome \in {"clean", "lost"}
          BY <4>1, <4>2 DEF LossHasReason, ShutdownOrder, TypeOK
        <5>2. QED
          BY <4>1, <5>1 DEF DrainIsComplete
      <4>3. QED
        BY <4>2
    <3>3. QED
      BY <3>1, <3>2
  <2>3. QED
    BY <2>1, <2>2 DEF LossHasReason
<1>2. CASE MainStep
  <2>1. UNCHANGED <<fate, dropped>> /\ (timedOut => timedOut') /\ (outcome = "lost" => outcome' = "lost")
    BY <1>2 DEF MainStep, SelectShutdown, SelectSignal, SetSigterm, AnnounceSigterm, CountInFlight,
                StartDrain, FinishDrain, DrainTimeout, Disconnect, ExitProcess, envVars, jobVars,
                mainVars, MainAt, ShutdownOrder
  <2>2. link' = "down" => dropped' \/ mpc' = "returned"
    BY <1>2 DEF MainStep, SelectShutdown, SelectSignal, SetSigterm, AnnounceSigterm, CountInFlight,
                StartDrain, FinishDrain, DrainTimeout, Disconnect, ExitProcess, envVars, mainVars,
                MainAt, LossHasReason
  <2>3. QED
    BY <2>1, <2>2 DEF LossHasReason
<1>3. CASE Environment
  BY <1>3 DEF LossHasReason, Environment, Terminate, SignalOutcome, ChangeHealth, DropLink, Relink,
              Sigkill, jobVars, mainVars, envVars
<1>4. CASE UNCHANGED vars
  BY <1>4 DEF LossHasReason, vars, jobVars, mainVars, envVars
<1>5. QED
  BY <1>1, <1>2, <1>3, <1>4 DEF Next

------------------------------------------------------------------------------
(* The drain leaves no job past the gate, and none gets there afterwards. *)

\* Past the gate only through the gate: the one step that makes a job serve
\* needs sigterm unset.
LEMMA GateShutBySigterm ==
  ASSUME TypeOK, sigterm, NEW j \in Jobs, Request(j) \/ Finish(j) \/ Panic(j) \/ JobStep(j),
         NEW k \in Jobs, Serving(k)'
  PROVE  Serving(k)
<1> USE DEF At, Goto, Serving, HoldingPcs, TypeOK, jobVars
<1>1. CASE Request(j) \/ TakeSlot(j) \/ TurnAway(j)
  BY <1>1 DEF Request, TakeSlot, TurnAway
<1>2. CASE PassGate(j) \/ FailGate(j)
  BY <1>2 DEF PassGate, FailGate, Ready
<1>3. CASE Ack(j) \/ AckFails(j)
  BY <1>3 DEF Ack, AckFails
<1>4. CASE Begin(j)
  BY <1>4 DEF Begin
<1>5. CASE Finish(j) \/ Timeout(j) \/ Panic(j)
  BY <1>5 DEF Finish, Timeout, Panic
<1>6. CASE Reply(j) \/ Return(j)
  BY <1>6 DEF Reply, Return
<1>7. QED
  BY <1>1, <1>2, <1>3, <1>4, <1>5, <1>6 DEF JobStep

\* Every step keeps a complete drain complete: nothing gets past the gate again.
LEMMA StepDrain ==
  ASSUME TypeOK, PermitsConserved, WaiterIsMain, ShutdownOrder, DrainIsComplete, [Next]_vars
  PROVE  DrainIsComplete'
<1>1. ASSUME NEW j \in Jobs, Request(j) \/ Finish(j) \/ Panic(j) \/ JobStep(j)
      PROVE  DrainIsComplete'
  <2>1. UNCHANGED <<mpc, outcome, timedOut, sigterm>>
    BY <1>1, JobFrame DEF mainVars
  <2>2. QED
    BY <1>1, <2>1, GateShutBySigterm DEF DrainIsComplete, ShutdownOrder
<1>2. CASE MainStep
  <2>1. UNCHANGED pc
    BY <1>2, MainFrame DEF jobVars
  <2> SUFFICES ASSUME outcome' = "clean", mpc' \in {"closing", "returned"}, ~timedOut'
               PROVE  \A j \in Jobs : ~Serving(j)
    BY <2>1 DEF DrainIsComplete, Serving
  <2> USE DEF MainAt, mainVars
  <2>2. CASE CountInFlight
    <3>1. permits = Cap
      BY <2>2, CapAssumption DEF CountInFlight, InFlight, TypeOK, LimiterTypeOK
    <3>2. gathered = 0
      BY <2>2 DEF CountInFlight, WaiterIsMain
    <3>3. QED
      BY <3>1, <3>2, CapAssumption, AllPermitsMeansIdle
  <2>3. CASE FinishDrain
    <3>1. gathered = Cap
      BY <2>3 DEF FinishDrain, EndWaitIdle
    <3>2. permits + gathered = Cap
      BY <3>1, HoldersFinite, CapAssumption DEF PermitsConserved, TypeOK, LimiterTypeOK
    <3>3. QED
      BY <3>2, AllPermitsMeansIdle
  <2>4. CASE DrainTimeout
    BY <2>4 DEF DrainTimeout
  <2>5. CASE Disconnect \/ ExitProcess
    BY <2>5 DEF Disconnect, ExitProcess, DrainIsComplete
  <2>6. CASE SelectShutdown \/ SelectSignal \/ SetSigterm \/ AnnounceSigterm \/ StartDrain
    BY <2>6 DEF SelectShutdown, SelectSignal, SetSigterm, AnnounceSigterm, StartDrain
  <2>7. QED
    BY <1>2, <2>2, <2>3, <2>4, <2>5, <2>6 DEF MainStep
<1>3. CASE Environment \/ UNCHANGED vars
  <2>1. UNCHANGED <<pc, mpc, outcome, timedOut>>
    BY <1>3, EnvironmentFrame DEF vars, jobVars, mainVars
  <2>2. QED
    BY <2>1 DEF DrainIsComplete, Serving
<1>4. QED
  BY <1>1, <1>2, <1>3 DEF Next

------------------------------------------------------------------------------
(* The theorems. *)

\* The inductive invariant holds at the start.
LEMMA InitInv == Init => IInv
<1> SUFFICES ASSUME Init PROVE IInv
  OBVIOUS
<1> USE DEF Init, LimiterInit
<1>1. TypeOK
  BY InitTypeOK
<1>2. PermitsConserved
  <2>1. Holders = {}
    BY DEF Holders, HoldingPcs
  <2>2. QED
    BY <2>1, FS_EmptySet, CapAssumption DEF PermitsConserved
<1>3. WaiterIsMain /\ ShutdownOrder
  BY DEF WaiterIsMain, ShutdownOrder
<1>4. OpenWhileRunning /\ LossHasReason /\ DrainIsComplete
  BY DEF OpenWhileRunning, LossHasReason, DrainIsComplete
<1>5. QED
  BY <1>1, <1>2, <1>3, <1>4 DEF IInv

\* Every step keeps the types.
LEMMA StepTypeOK ==
  ASSUME TypeOK, PermitsConserved, [Next]_vars
  PROVE  TypeOK'
<1>1. CASE UNCHANGED vars
  BY <1>1 DEF TypeOK, LimiterTypeOK, vars, limiterVars, jobVars, envVars, mainVars
<1>2. QED
  BY <1>1, JobTypeOK, MainTypeOK, EnvironmentTypeOK DEF Next

\* Every step keeps the inductive invariant.
LEMMA StepInv == IInv /\ [Next]_vars => IInv'
BY StepTypeOK, StepConserves, StepControl, StepOpen, StepLoss, StepDrain DEF IInv

\* The inductive invariant holds in every reachable state of a session.
THEOREM Invariance == Spec => []IInv
BY InitInv, StepInv, PTL DEF Spec

\* Every variable keeps its type: in particular neither the permit counter nor
\* the share of the waiting drain ever leaves 0..Cap, however jobs end.
THEOREM TypeCorrect == Spec => []TypeOK
BY Invariance, PTL DEF IInv

\* No permit of the limiter is lost or made up, for any capacity and any number
\* of jobs.
THEOREM PermitConservation == Spec => []PermitsConserved
BY Invariance, PTL DEF IInv

\* Past a drain that did not time out no job is past the status check of
\* dispatch(), and none gets past it later.
THEOREM DrainCompleteness == Spec => []DrainIsComplete
BY Invariance, PTL DEF IInv

\* A clean shutdown whose drain did not time out, over a link the network kept
\* up, leaves no acked measurement without its result but a panicked one.
THEOREM GracefulShutdown == Spec => []GracefulShutdownAnswers
<1>1. IInv => GracefulShutdownAnswers
  BY DEF IInv, DrainIsComplete, GracefulShutdownAnswers, LossHasReason, OpenWhileRunning, Serving,
         HoldingPcs
<1>2. QED
  BY <1>1, Invariance, PTL

\* A request finds no slot only when Cap jobs hold one or sigterm is set.
THEOREM TurnsAwayOnlyWhenFullOrStopping == Spec => OnlyFullOrStoppingTurnsAway
<1>1. ASSUME IInv, NEW j \in Jobs, TurnAway(j)
      PROVE  Cardinality(Holders) = Cap \/ sigterm
  <2>1. permits = 0
    BY <1>1 DEF TurnAway, RefuseSlot
  <2>2. CASE waiting
    BY <1>1, <2>2 DEF IInv, WaiterIsMain, ShutdownOrder
  <2>3. CASE ~waiting
    BY <1>1, <2>1, <2>3, HoldersFinite DEF IInv, WaiterIsMain, PermitsConserved
  <2>4. QED
    BY <2>2, <2>3
<1>2. IInv => [\A j \in Jobs : TurnAway(j) => (Cardinality(Holders) = Cap \/ sigterm)]_vars
  BY <1>1
<1>3. QED
  BY <1>2, Invariance, PTL DEF OnlyFullOrStoppingTurnsAway

------------------------------------------------------------------------------
(* Every step of Session is a step of MeasurementService, or none: the safety *)
(* part of the refinement.                                                    *)

\* What a step of job j does to its own entry of the mapping, and to the others'.
LEMMA ServiceJobMoves ==
  ASSUME TypeOK, NEW j \in Jobs, NEW there \in JobPcs, Goto(j, there),
         fate' = fate \/ \E how \in Fates : Settle(j, how)
  PROVE  ServiceJob' = [ServiceJob EXCEPT ![j] = ServiceJob'[j]]
<1>1. \A k \in Jobs : k # j => pc'[k] = pc[k] /\ fate'[k] = fate[k]
  BY DEF Goto, Settle, TypeOK
<1>2. \A k \in Jobs : k # j => ServiceJob'[k] = ServiceJob[k]
  BY <1>1 DEF ServiceJob
<1>3. QED
  BY <1>2 DEF ServiceJob

\* A step of a job leaves the phase alone.
LEMMA JobKeepsPhase ==
  ASSUME NEW j \in Jobs, Request(j) \/ Finish(j) \/ Panic(j) \/ JobStep(j)
  PROVE  ServicePhase' = ServicePhase /\ ServicePhase # "gone"
BY JobFrame DEF ServicePhase, mainVars

\* The instance has its own name for the cardinality of a set.
LEMMA SameCardinality ==
  Service!Cardinality(Service!InHand) = Cardinality(Service!InHand)
BY Zenon DEF Service!Cardinality, Cardinality

\* A job that holds a slot and is not yet admitted leaves room for itself.
LEMMA RoomToAdmit ==
  ASSUME TypeOK, PermitsConserved, OpenWhileRunning, NEW j \in Jobs, pc[j] = "slotted"
  PROVE  Cardinality(Service!InHand) < Cap
<1>1. Service!InHand \subseteq Holders \ {j}
  BY DEF Service!InHand, ServiceJob, Holders, HoldingPcs, OpenWhileRunning, TypeOK
<1>2. j \in Holders
  BY DEF Holders, HoldingPcs
<1>3. /\ IsFiniteSet(Holders \ {j})
      /\ Cardinality(Holders \ {j}) = Cardinality(Holders) - 1
  BY <1>2, HoldersFinite, FS_RemoveElement
<1>4. /\ Cardinality(Service!InHand) <= Cardinality(Holders \ {j})
      /\ Cardinality(Service!InHand) \in Nat
  BY <1>1, <1>3, FS_Subset, FS_CardinalityType
<1>5. Cardinality(Holders) <= Cap
  BY HoldersFinite, CapAssumption DEF PermitsConserved, TypeOK, LimiterTypeOK
<1>6. QED
  BY <1>3, <1>4, <1>5, HoldersFinite, CapAssumption

\* A step of a job is a step of the service on that job, or a stutter.
LEMMA JobRefines ==
  ASSUME IInv, NEW j \in Jobs, Request(j) \/ Finish(j) \/ Panic(j) \/ JobStep(j)
  PROVE  [Service!Next]_Service!vars
<1>0. /\ TypeOK /\ PermitsConserved /\ OpenWhileRunning /\ ShutdownOrder
      /\ ServicePhase' = ServicePhase /\ ServicePhase # "gone"
  BY JobKeepsPhase DEF IInv
<1> DEFINE Moves(from, to) == /\ ServiceJob[j] = from
                             /\ ServiceJob' = [ServiceJob EXCEPT ![j] = to]
<1>1. CASE Request(j) \/ TakeSlot(j)
  <2>1. ServiceJob' = ServiceJob
    BY <1>0, <1>1 DEF Request, TakeSlot, At, Goto, ServiceJob, TypeOK, OpenWhileRunning
  <2>2. QED
    BY <1>0, <2>1 DEF Service!vars
<1>2. CASE Begin(j) \/ Finish(j) \/ Timeout(j) \/ Return(j)
  <2>1. ServiceJob' = ServiceJob
    BY <1>0, <1>2 DEF Begin, Finish, Timeout, Return, At, Goto, ServiceJob, TypeOK, OpenWhileRunning
  <2>2. QED
    BY <1>0, <2>1 DEF Service!vars
<1>3. CASE TurnAway(j) \/ FailGate(j)
  <2>1. Moves("new", "closed")
    BY <1>0, <1>3 DEF TurnAway, FailGate, At, Goto, ServiceJob, TypeOK, OpenWhileRunning
  <2>2. Service!Refuse(j)
    BY <1>0, <2>1 DEF Service!Refuse, Service!Move
  <2>3. QED
    BY <2>2 DEF Service!Next
<1>4. CASE PassGate(j)
  <2>1. Moves("new", "admitted")
    BY <1>0, <1>4 DEF PassGate, At, Goto, ServiceJob, TypeOK, OpenWhileRunning
  <2>2. ServicePhase = "serving"
    BY <1>0, <1>4 DEF PassGate, At, Ready, ServicePhase, ShutdownOrder
  <2>3. Cardinality(Service!InHand) < Cap
    BY <1>0, <1>4, RoomToAdmit DEF PassGate, At
  <2>4. Service!Admit(j)
    BY <1>0, <2>1, <2>2, <2>3, SameCardinality DEF Service!Admit, Service!Move
  <2>5. QED
    BY <2>4 DEF Service!Next
<1>5. CASE Ack(j)
  <2>1. Moves("admitted", "open")
    BY <1>0, <1>5 DEF Ack, At, Goto, Settle, ServiceJob, TypeOK
  <2>2. Service!Acknowledge(j)
    BY <1>0, <2>1 DEF Service!Acknowledge, Service!Move
  <2>3. QED
    BY <2>2 DEF Service!Next
<1>6. CASE AckFails(j)
  <2>1. Moves("admitted", "closed")
    BY <1>0, <1>6 DEF AckFails, At, Goto, ServiceJob, TypeOK, OpenWhileRunning
  <2>2. Service!Abandon(j)
    BY <1>0, <2>1 DEF Service!Abandon, Service!Move
  <2>3. QED
    BY <2>2 DEF Service!Next
<1>7. CASE Panic(j) \/ Reply(j)
  <2>1. Moves("open", "closed")
    BY <1>0, <1>7 DEF Panic, Reply, At, Goto, Settle, ServiceJob, TypeOK, OpenWhileRunning
  <2>2. Service!Close(j)
    BY <1>0, <2>1 DEF Service!Close, Service!Move
  <2>3. QED
    BY <2>2 DEF Service!Next
<1>8. QED
  BY <1>1, <1>2, <1>3, <1>4, <1>5, <1>6, <1>7 DEF JobStep

\* Past a complete drain nothing is in hand.
LEMMA NothingInHand ==
  ASSUME IInv, permits + gathered = Cap
  PROVE  Service!InHand = {}
BY AllPermitsMeansIdle
DEF IInv, Service!InHand, ServiceJob, Serving, HoldingPcs, OpenWhileRunning, TypeOK

\* A step of connect_once is Stop, Quiesce, Leave or a stutter of the service.
LEMMA MainRefines ==
  ASSUME IInv, MainStep
  PROVE  [Service!Next]_Service!vars
<1>0. ServiceJob' = ServiceJob
  BY MainFrame DEF ServiceJob, jobVars
<1>1. TypeOK /\ PermitsConserved /\ ShutdownOrder /\ WaiterIsMain
  BY DEF IInv
<1>2. ASSUME sigterm, alive, outcome = "clean", alive' = alive, outcome' = outcome,
             sigterm' = sigterm, timedOut' = timedOut, permits + gathered = Cap,
             mpc \notin {"closing", "returned"}, mpc' = "closing"
      PROVE  [Service!Next]_Service!vars
  <2>1. CASE timedOut
    BY <1>0, <1>2, <2>1 DEF ServicePhase, Service!vars
  <2>2. CASE ~timedOut
    <3>1. ServicePhase = "stopping" /\ ServicePhase' = "quiet"
      BY <1>2, <2>2 DEF ServicePhase
    <3>2. Service!Quiesce
      BY <1>0, <1>2, <3>1, NothingInHand DEF Service!Quiesce
    <3>3. QED
      BY <3>2 DEF Service!Next
  <2>3. QED
    BY <2>1, <2>2
<1>3. CASE SelectShutdown \/ SelectSignal \/ AnnounceSigterm \/ StartDrain
  BY <1>0, <1>1, <1>3
  DEF SelectShutdown, SelectSignal, AnnounceSigterm, StartDrain, MainAt, ShutdownOrder,
      ServicePhase, Service!vars
<1>4. CASE SetSigterm
  <2>1. ServicePhase' = "stopping"
    BY <1>4 DEF SetSigterm, MainAt, ServicePhase
  <2>2. ServicePhase \in {"serving", "stopping"}
    BY <1>4 DEF SetSigterm, MainAt, ServicePhase
  <2>3. QED
    BY <1>0, <2>1, <2>2 DEF Service!Next, Service!Stop, Service!vars
<1>5. CASE CountInFlight
  <2>1. CASE InFlight > 0
    BY <1>0, <1>5, <2>1 DEF CountInFlight, MainAt, ServicePhase, Service!vars
  <2>2. CASE ~(InFlight > 0)
    <3>1. permits = Cap /\ gathered = 0
      BY <1>1, <1>5, <2>2, CapAssumption
      DEF CountInFlight, MainAt, InFlight, WaiterIsMain, TypeOK, LimiterTypeOK
    <3>2. permits + gathered = Cap
      BY <3>1, CapAssumption
    <3>3. QED
      BY <1>1, <1>2, <1>5, <2>2, <3>2 DEF CountInFlight, MainAt, ShutdownOrder
  <2>3. QED
    BY <2>1, <2>2
<1>6. CASE FinishDrain
  <2>1. permits + gathered = Cap
    BY <1>1, <1>6, HoldersFinite, CapAssumption
    DEF FinishDrain, EndWaitIdle, PermitsConserved, TypeOK, LimiterTypeOK
  <2>2. QED
    BY <1>1, <1>2, <1>6, <2>1 DEF FinishDrain, MainAt, ShutdownOrder
<1>7. CASE DrainTimeout
  <2>1. UNCHANGED <<sigterm, alive>> /\ timedOut' /\ alive /\ mpc = "draining"
    BY <1>7 DEF DrainTimeout, MainAt
  <2>2. QED
    BY <1>0, <2>1 DEF ServicePhase, Service!vars
<1>8. CASE Disconnect
  BY <1>0, <1>8 DEF Disconnect, MainAt, ServicePhase, Service!vars
<1>9. CASE ExitProcess
  <2>1. ServicePhase # "gone" /\ ServicePhase' = "gone"
    BY <1>9 DEF ExitProcess, ServicePhase
  <2>2. QED
    BY <1>0, <2>1 DEF Service!Next, Service!Leave
<1>10. QED
  BY <1>3, <1>4, <1>5, <1>6, <1>7, <1>8, <1>9 DEF MainStep

\* What happens from outside is Leave or a stutter of the service.
LEMMA EnvironmentRefines ==
  ASSUME Environment
  PROVE  [Service!Next]_Service!vars
<1>0. ServiceJob' = ServiceJob
  BY EnvironmentFrame DEF ServiceJob, jobVars
<1>1. CASE Sigkill
  <2>1. ServicePhase # "gone" /\ ServicePhase' = "gone"
    BY <1>1 DEF Sigkill, ServicePhase
  <2>2. QED
    BY <1>0, <2>1 DEF Service!Next, Service!Leave
<1>2. CASE ~Sigkill
  BY <1>0, <1>2
  DEF Environment, Terminate, SignalOutcome, ChangeHealth, DropLink, Relink, mainVars,
      ServicePhase, Service!vars
<1>3. QED
  BY <1>1, <1>2

\* A session offers the API the service MeasurementService describes: at most Cap
\* measurements in hand, none admitted once sigterm is set, none in hand after a
\* quiet stop.  (That each measurement in hand is closed is left to TLC.)
THEOREM ImplementsServiceSafety == Spec => Service!Safety
<1>1. Init => Service!Init
  BY DEF Init, Service!Init, ServiceJob, ServicePhase
<1>2. IInv /\ [Next]_vars => [Service!Next]_Service!vars
  <2>1. ASSUME UNCHANGED vars
        PROVE  UNCHANGED Service!vars
    BY <2>1 DEF vars, jobVars, mainVars, Service!vars, ServiceJob, ServicePhase
  <2>2. QED
    BY <2>1, JobRefines, MainRefines, EnvironmentRefines DEF Next
<1>3. QED
  BY <1>1, <1>2, Invariance, PTL DEF Spec, Service!Safety
==============================================================================
