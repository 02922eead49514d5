---------------------------- MODULE Measurement ----------------------------
(***************************************************************************)
(* What dispatch() (src/src/probe/client.rs) does with a measurement once  *)
(* it is acked: run the command under a timeout, with a ProgressEmitter    *)
(* (progress.rs) that forwards its partial results from a channel, and     *)
(* send the result; and the MeasurementStats (stats.rs) that these tasks   *)
(* write and the stats loop of the connection takes and reports.           *)
(*                                                                         *)
(* Slots, the status check and the ack are in Session.                     *)
(***************************************************************************)
EXTENDS Naturals, Sequences, FiniteSets

CONSTANTS
  Jobs,          \* acked measurements of a known type
  Streaming,     \* those that ask for inProgressUpdates
  MaxPartials    \* bound on the partial results of one command

ASSUME MeasurementAssumption ==
  IsFiniteSet(Jobs) /\ Streaming \subseteq Jobs /\ MaxPartials \in Nat

VARIABLES
  dpc,        \* where each dispatch() is
  sender,     \* the command's end of the progress channel is alive
  sent,       \* partial results the command has sent, numbered from 1
  channel,    \* the progress channel
  fpc,        \* the forwarder: "none", "waiting" (recv), "emitting", "ended"
  inHand,     \* the partial result the forwarder has received
  heard,      \* what the API has heard of each job, in order
  missed,     \* history: what was emitted of each job and did not reach the API
  started,    \* MeasurementStats.started
  finished,   \* MeasurementStats.finished
  spc,        \* where the stats loop is
  snapshot,   \* what take() has swapped out so far
  reported,   \* history: sum of what probe:stats:report events have told
  lost,       \* history: sum of the snapshots that were not told
  conn        \* the connection is "up", or "closed"

jobVars   == <<dpc, sender, sent, channel, fpc, inHand, heard, missed>>
statsVars == <<started, finished, spc, snapshot, reported, lost>>
vars      == <<jobVars, statsVars, conn>>

Counts == [started : Nat, finished : Nat]
None   == [started |-> 0, finished |-> 0]
Plus(a, b) == [started |-> a.started + b.started, finished |-> a.finished + b.finished]

\* The result among what the API hears of a job; partial results are 1, 2...
Result == 0

TypeOK ==
  /\ dpc \in [Jobs -> {"acked", "running", "replying", "done", "panicked"}]
  /\ sender \in [Jobs -> BOOLEAN]
  /\ sent \in [Jobs -> 0..MaxPartials]
  /\ \A j \in Jobs : channel[j] \in Seq(1..MaxPartials) /\ heard[j] \in Seq(0..MaxPartials)
  /\ missed \in [Jobs -> SUBSET (0..MaxPartials)]
  /\ fpc \in [Jobs -> {"none", "waiting", "emitting", "ended"}]
  /\ inHand \in [Jobs -> 0..MaxPartials]
  /\ {started, finished} \subseteq 0..Cardinality(Jobs)
  /\ spc \in {"sleeping", "swapping", "emitting", "aborted"}
  /\ {snapshot, reported, lost} \subseteq Counts
  /\ conn \in {"up", "closed"}

Init ==
  /\ dpc = [j \in Jobs |-> "acked"]
  /\ sender = [j \in Jobs |-> FALSE]
  /\ sent = [j \in Jobs |-> 0]
  /\ channel = [j \in Jobs |-> << >>]
  /\ fpc = [j \in Jobs |-> "none"]
  /\ inHand = [j \in Jobs |-> 0]
  /\ heard = [j \in Jobs |-> << >>]
  /\ missed = [j \in Jobs |-> {}]
  /\ started = 0 /\ finished = 0
  /\ spc = "sleeping"
  /\ snapshot = None /\ reported = None /\ lost = None
  /\ conn = "up"

Goto(j, here, there) == dpc[j] = here /\ dpc' = [dpc EXCEPT ![j] = there]

\* An emit that fails is logged and forgotten, over a closed connection or because
\* rust_socketio has lost its link and is reconnecting; what was emitted as the link
\* went down does not arrive either.
Emit(j, event) ==
  \/ /\ conn = "up"
     /\ heard' = [heard EXCEPT ![j] = Append(@, event)]
     /\ UNCHANGED missed
  \/ /\ missed' = [missed EXCEPT ![j] = @ \cup {event}]
     /\ UNCHANGED heard

------------------------------------------------------------------------------
(* dispatch() after the ack. *)

\* record_start(); then, for inProgressUpdates, the channel and its forwarder.
Begin(j) ==
  /\ Goto(j, "acked", "running")
  /\ started' = started + 1
  /\ sender' = [sender EXCEPT ![j] = j \in Streaming]
  /\ fpc' = IF j \in Streaming THEN [fpc EXCEPT ![j] = "waiting"] ELSE fpc
  /\ UNCHANGED <<sent, channel, inHand, heard, missed, finished, spc, snapshot, reported, lost, conn>>

\* The command sends a partial result.
Send(j) ==
  /\ sender[j]
  /\ sent[j] < MaxPartials
  /\ sent' = [sent EXCEPT ![j] = @ + 1]
  /\ channel' = [channel EXCEPT ![j] = Append(@, sent[j] + 1)]
  /\ UNCHANGED <<dpc, sender, fpc, inHand, heard, missed, statsVars, conn>>

\* Mutant of DropCommand: the command runs in a task of its own, which outlives
\* the timeout.
DropCommandDetached(j) == UNCHANGED sender

\* The command's future is dropped, and its sender with it.
DropCommand(j) == sender' = [sender EXCEPT ![j] = FALSE]

\* Mutant of Finish: a command that was cut off is tried again.
FinishRepeats(j) ==
  /\ Goto(j, "running", "running")
  /\ DropCommand(j)
  /\ finished' = finished + 1
  /\ UNCHANGED <<sent, channel, fpc, inHand, heard, missed, started, spc, snapshot, reported, lost, conn>>

\* The command returns Ok or Err, or MEASUREMENT_TIMEOUT cuts it off;
\* record_finish().
Finish(j) ==
  /\ Goto(j, "running", "replying")
  /\ DropCommand(j)
  /\ finished' = finished + 1
  /\ UNCHANGED <<sent, channel, fpc, inHand, heard, missed, started, spc, snapshot, reported, lost, conn>>

\* The command panics: no record_finish(), no result.
Panic(j) ==
  /\ Goto(j, "running", "panicked")
  /\ DropCommand(j)
  /\ UNCHANGED <<sent, channel, fpc, inHand, heard, missed, statsVars, conn>>

\* The emit of probe:measurement:result, which does not wait for the forwarder.
Reply(j) ==
  /\ Goto(j, "replying", "done")
  /\ Emit(j, Result)
  /\ UNCHANGED <<sender, sent, channel, fpc, inHand, statsVars, conn>>

------------------------------------------------------------------------------
(* ProgressEmitter::forward. *)

\* Mutant of Receive: the last of the channel's events comes first.
ReceiveNewest(j) ==
  /\ fpc[j] = "waiting"
  /\ channel[j] # << >>
  /\ inHand' = [inHand EXCEPT ![j] = channel[j][Len(channel[j])]]
  /\ channel' = [channel EXCEPT ![j] = SubSeq(@, 1, Len(@) - 1)]
  /\ fpc' = [fpc EXCEPT ![j] = "emitting"]
  /\ UNCHANGED <<dpc, sender, sent, heard, missed, statsVars, conn>>

\* recv() returns the next partial result.
Receive(j) ==
  /\ fpc[j] = "waiting"
  /\ channel[j] # << >>
  /\ inHand' = [inHand EXCEPT ![j] = Head(channel[j])]
  /\ channel' = [channel EXCEPT ![j] = Tail(@)]
  /\ fpc' = [fpc EXCEPT ![j] = "emitting"]
  /\ UNCHANGED <<dpc, sender, sent, heard, missed, statsVars, conn>>

\* The emit of probe:measurement:progress.
Forward(j) ==
  /\ fpc[j] = "emitting"
  /\ Emit(j, inHand[j])
  /\ fpc' = [fpc EXCEPT ![j] = "waiting"]
  /\ UNCHANGED <<dpc, sender, sent, channel, inHand, statsVars, conn>>

\* Mutant of Hangup: the forwarder ends with the sender, whatever is left to read.
HangupAtOnce(j) ==
  /\ fpc[j] = "waiting"
  /\ ~sender[j]
  /\ fpc' = [fpc EXCEPT ![j] = "ended"]
  /\ UNCHANGED <<dpc, sender, sent, channel, inHand, heard, missed, statsVars, conn>>

\* recv() returns None: the channel is empty and its sender gone.
Hangup(j) ==
  /\ fpc[j] = "waiting"
  /\ channel[j] = << >>
  /\ ~sender[j]
  /\ fpc' = [fpc EXCEPT ![j] = "ended"]
  /\ UNCHANGED <<dpc, sender, sent, channel, inHand, heard, missed, statsVars, conn>>

ForwardStep(j) == Receive(j) \/ Forward(j) \/ Hangup(j)

------------------------------------------------------------------------------
(* run_stats_loop and take(). *)

\* Mutant of SwapStarted: a load, without the reset.
SwapStartedLoads ==
  /\ spc = "sleeping"
  /\ snapshot' = [None EXCEPT !.started = started]
  /\ spc' = "swapping"
  /\ UNCHANGED <<jobVars, started, finished, reported, lost, conn>>

\* take(), first half: the counters are two atomics.
SwapStarted ==
  /\ spc = "sleeping"
  /\ snapshot' = [None EXCEPT !.started = started]
  /\ started' = 0
  /\ spc' = "swapping"
  /\ UNCHANGED <<jobVars, finished, reported, lost, conn>>

SwapFinished ==
  /\ spc = "swapping"
  /\ snapshot' = [snapshot EXCEPT !.finished = finished]
  /\ finished' = 0
  /\ spc' = "emitting"
  /\ UNCHANGED <<jobVars, started, reported, lost, conn>>

\* The emit of probe:stats:report; if it fails the snapshot is gone.
Report ==
  /\ spc = "emitting"
  /\ \/ reported' = Plus(reported, snapshot) /\ conn = "up" /\ UNCHANGED lost
     \/ lost' = Plus(lost, snapshot) /\ UNCHANGED reported
  /\ snapshot' = None
  /\ spc' = IF conn = "up" THEN "sleeping" ELSE "aborted"
  /\ UNCHANGED <<jobVars, started, finished, conn>>

\* connect_once aborts the loop and disconnects: the loop ends at its sleep, or at
\* the emit that comes next.
Close ==
  /\ conn = "up"
  /\ conn' = "closed"
  /\ spc' = IF spc = "sleeping" THEN "aborted" ELSE spc
  /\ UNCHANGED <<jobVars, started, finished, snapshot, reported, lost>>

Next ==
  \/ \E j \in Jobs : Begin(j) \/ Send(j) \/ Finish(j) \/ Panic(j) \/ Reply(j) \/ ForwardStep(j)
  \/ SwapStarted \/ SwapFinished \/ Report \/ Close

\* dispatch() and the forwarder are polled to their end, and the timeout fires.
Spec ==
  /\ Init /\ [][Next]_vars
  /\ \A j \in Jobs : /\ WF_vars(Begin(j) \/ Finish(j) \/ Reply(j))
                     /\ WF_vars(ForwardStep(j))

------------------------------------------------------------------------------
(* Properties. *)

\* Each measurement that was recorded is counted once: it is in the counter, in
\* the snapshot in the loop's hands, in a report, or in a snapshot whose report
\* failed, however starts, finishes, takes and the end of the connection interleave.
CountedOnce ==
  /\ Cardinality({j \in Jobs : dpc[j] # "acked"})
       = started + snapshot.started + reported.started + lost.started
  /\ Cardinality({j \in Jobs : dpc[j] \in {"replying", "done"}})
       = finished + snapshot.finished + reported.finished + lost.finished

\* No event comes twice, and no partial result after one that the command sent later;
\* the result may come anywhere among them.
InOrder(events) ==
  \A a, b \in 1..Len(events) :
    a < b => events[a] # events[b] /\ (events[b] # Result => events[a] < events[b])

\* What the API hears of a job are its partial results in the order of the command,
\* none twice, and the result at most once.  One of them is passed over only if its own
\* emit was lost, whatever the emits before and after it did, and when the forwarder has
\* ended each one was either heard or lost.
HeardInOrder ==
  \A j \in Jobs :
    LET Heard(n) == {heard[j][i] : i \in 1..n}
    IN  /\ InOrder(heard[j])
        /\ \A i \in 1..Len(heard[j]) : 1..heard[j][i] - 1 \subseteq missed[j] \cup Heard(i - 1)
        /\ fpc[j] = "ended" => 1..sent[j] \subseteq missed[j] \cup Heard(Len(heard[j]))
        /\ missed[j] \cap Heard(Len(heard[j])) = {}

\* After its verdict a measurement produces no more partial results: what the API
\* may still hear after the result was in the channel before.
SilentAfterVerdict ==
  [][\A j \in Jobs : dpc[j] \notin {"acked", "running"} => sent'[j] = sent[j]]_vars

\* The forwarder goes on until it has forwarded everything, also for a command that
\* was cut off or panicked, and ends: no task is left behind by a measurement.
ForwarderEnds ==
  \A j \in Jobs :
    dpc[j] \in {"done", "panicked"} ~> (fpc[j] \in {"none", "ended"} /\ channel[j] = << >>)

\* "Take a snapshot and reset both counters to zero atomically": no report makes the
\* API believe that more measurements finished than were started.
SnapshotIsAtomic ==
  lost = None => reported.finished <= reported.started
==============================================================================
