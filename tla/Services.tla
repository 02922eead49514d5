------------------------------ MODULE Services ------------------------------
(***************************************************************************)
(* What the probe does beside its measurements: its loop of connections,   *)
(* its status, the logs, the identity, the alternative addresses and the   *)
(* progress buffer.  As modelled, these services share no state with each  *)
(* other, so that looking at one at a time (the focus) loses no behaviour: *)
(* the others stay in their initial states.                                *)
(***************************************************************************)
EXTENDS Reconnect, Status, LogsTransport, Identity, AltIps

CONSTANTS Fields, MaxLength

ASSUME BufferAssumption == MaxLength \in Nat

VARIABLES
  focus,        \* "run", "status", "logs", "identity", "addresses", or the mode of a
                \* buffer
  buffer, offset, broken, values, received, grown

bufferedVars == <<buffer, offset, broken, values, received, grown>>

Buffer == INSTANCE ProgressBuffer WITH mode <- focus, pushed <- values, heard <- received

ServicesInit ==
  /\ focus \in {"run", "status", "logs", "identity", "addresses", "append", "diff", "overwrite"}
  /\ RunInit
  /\ StatusInit
  /\ Init
  /\ IdentityInit
  /\ AltIpsInit
  /\ Buffer!Init

\* A step of one of the services, and none of the others.
ServicesNext ==
  /\ UNCHANGED focus
  /\ \/ focus = "run" /\ RunNext
        /\ UNCHANGED <<statusVars, vars, identityVars, addressVars, bufferedVars>>
     \/ focus = "status" /\ StatusNext
        /\ UNCHANGED <<runVars, vars, identityVars, addressVars, bufferedVars>>
     \/ focus = "logs" /\ Next
        /\ UNCHANGED <<runVars, statusVars, identityVars, addressVars, bufferedVars>>
     \/ focus = "identity" /\ IdentityNext
        /\ UNCHANGED <<runVars, statusVars, vars, addressVars, bufferedVars>>
     \/ focus = "addresses" /\ AltIpsNext
        /\ UNCHANGED <<runVars, statusVars, vars, identityVars, bufferedVars>>
     \/ focus \in {"append", "diff", "overwrite"} /\ Buffer!Next
        /\ UNCHANGED <<runVars, statusVars, vars, identityVars, addressVars>>

allVars == <<focus, runVars, statusVars, vars, identityVars, addressVars, bufferedVars>>

\* run(), the status loop with the handlers, and run_logs_loop go on, whatever the
\* other services do.
ServicesSpec ==
  /\ ServicesInit /\ [][ServicesNext]_allVars
  /\ WF_runVars(focus = "run" /\ RunStep)
  /\ WF_statusVars(focus = "status" /\ LoopStep)
  /\ WF_statusVars(focus = "status" /\ HandlerEmit)
  /\ WF_vars(focus = "logs" /\ Flush)

----------------------------------------------------------------------------

\* What is pushed to a progress buffer is received (ProgressBuffer).
BufferReassembles ==
  focus \in {"append", "diff", "overwrite"} => Buffer!BufferReassembles
=============================================================================
