------------------------------- MODULE Limiter -------------------------------
(***************************************************************************)
(* MeasurementLimiter (src/src/probe/limiter.rs): a tokio semaphore with   *)
(* Cap permits.  The semaphore is FIFO-fair: once a task waits for all the *)
(* permits (wait_idle), every permit that is released goes to that waiter, *)
(* and none is available to try_acquire until the waiter is served or      *)
(* gives up.                                                               *)
(*                                                                         *)
(* The module gives the operations as actions over the semaphore's state;  *)
(* Session says which task performs them and when.  At most one task       *)
(* waits: connect_once, during its drain.                                  *)
(***************************************************************************)
EXTENDS Naturals

CONSTANT Cap            \* capacity: MAX_CONCURRENT in the code
ASSUME CapAssumption == Cap \in Nat \ {0}

VARIABLES
  permits,              \* permits on the semaphore's counter
  waiting,              \* a wait_idle() is in the semaphore's queue
  gathered              \* permits already assigned to that wait_idle()

limiterVars == <<permits, waiting, gathered>>

LimiterTypeOK ==
  /\ permits \in 0..Cap
  /\ waiting \in BOOLEAN
  /\ gathered \in 0..Cap

LimiterInit ==
  /\ permits = Cap
  /\ waiting = FALSE
  /\ gathered = 0

\* in_flight(): permits promised to a waiter count as in flight.
InFlight == Cap - permits

\* Mutant of AcquireSlot: a slot is handed out whether or not there is a permit.
AcquireSlotUnchecked ==
  /\ permits' = IF permits > 0 THEN permits - 1 ELSE 0
  /\ UNCHANGED <<waiting, gathered>>

\* try_acquire() returning Some(slot).
AcquireSlot ==
  /\ permits > 0
  /\ permits' = permits - 1
  /\ UNCHANGED <<waiting, gathered>>

\* try_acquire() returning None.
RefuseSlot ==
  /\ permits = 0
  /\ UNCHANGED limiterVars

\* A slot is dropped: the permit goes to the waiter if there is one that still
\* needs it, to the counter otherwise.
ReleaseSlot ==
  /\ \/ /\ waiting
        /\ gathered < Cap
        /\ gathered' = gathered + 1
        /\ UNCHANGED permits
     \/ /\ ~waiting \/ gathered = Cap
        /\ permits' = permits + 1
        /\ UNCHANGED gathered
  /\ UNCHANGED waiting

\* First poll of acquire_many(capacity): take what is there, queue for the rest.
BeginWaitIdle ==
  /\ ~waiting
  /\ waiting' = TRUE
  /\ gathered' = permits
  /\ permits' = 0

\* The permits of the waiter go back to the counter: either its guard is dropped
\* after acquire_many returned, or the future itself is (the drain timed out).
ReturnGathered ==
  /\ waiting
  /\ waiting' = FALSE
  /\ permits' = permits + gathered
  /\ gathered' = 0

\* wait_idle() returns.
EndWaitIdle == gathered = Cap /\ ReturnGathered

\* wait_idle() is cancelled by the timeout around it.
CancelWaitIdle == ReturnGathered
==============================================================================
