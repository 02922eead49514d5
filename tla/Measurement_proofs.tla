------------------------- MODULE Measurement_proofs -------------------------
(***************************************************************************)
(* Theorems about Measurement, for every finite set of jobs and any number *)
(* of partial results.                                                     *)
(***************************************************************************)
EXTENDS Measurement, FiniteSetTheorems, SequenceTheorems, TLAPS

\* The measurements that record_start() and record_finish() have counted.
Begun == {j \in Jobs : dpc[j] # "acked"}
Ended == {j \in Jobs : dpc[j] \in {"replying", "done"}}

Types ==
  /\ dpc \in [Jobs -> {"acked", "running", "replying", "done", "panicked"}]
  /\ sender \in [Jobs -> BOOLEAN]
  /\ sent \in [Jobs -> 0..MaxPartials]
  /\ channel \in [Jobs -> Seq(1..MaxPartials)]
  /\ heard \in [Jobs -> Seq(0..MaxPartials)]
  /\ missed \in [Jobs -> SUBSET (0..MaxPartials)]
  /\ fpc \in [Jobs -> {"none", "waiting", "emitting", "ended"}]
  /\ inHand \in [Jobs -> 0..MaxPartials]
  /\ started \in Nat /\ finished \in Nat
  /\ spc \in {"sleeping", "swapping", "emitting", "aborted"}
  /\ snapshot \in Counts /\ reported \in Counts /\ lost \in Counts
  /\ conn \in {"up", "closed"}

\* Between take() and the emit the loop has a snapshot in hand; its second half is
\* empty until the second swap.
SnapshotInHand ==
  /\ spc \in {"sleeping", "aborted"} => snapshot = None
  /\ spc = "swapping" => snapshot.finished = 0

\* The sender lives as long as the command's future.
SenderRuns == \A j \in Jobs : sender[j] => dpc[j] = "running"

IInv ==
  /\ Types
  /\ CountedOnce
  /\ SnapshotInHand
  /\ SenderRuns

\* A job enters a set of jobs, or leaves it as it is.
LEMMA JobEnters ==
  ASSUME NEW S, NEW T, NEW j \in Jobs, S \subseteq Jobs, T = S \cup {j}, j \notin S
  PROVE  Cardinality(T) = Cardinality(S) + 1 /\ Cardinality(S) \in Nat
BY MeasurementAssumption, FS_Subset, FS_AddElement, FS_CardinalityType

\* CountedOnce in terms of these sets.
LEMMA CountedOnceOf ==
  /\ CountedOnce <=>
       /\ Cardinality(Begun) = started + snapshot.started + reported.started + lost.started
       /\ Cardinality(Ended) = finished + snapshot.finished + reported.finished + lost.finished
  /\ CountedOnce' <=>
       /\ Cardinality(Begun') = started' + snapshot'.started + reported'.started + lost'.started
       /\ Cardinality(Ended') = finished' + snapshot'.finished + reported'.finished + lost'.finished
BY DEF CountedOnce, Begun, Ended

LEMMA InitIInv == Init => IInv
PROOF
<1> SUFFICES ASSUME Init PROVE IInv
  OBVIOUS
<1>1. Types
  BY MeasurementAssumption DEF Init, Types, Counts, None
<1>2. Begun = {} /\ Ended = {}
  BY DEF Init, Begun, Ended
<1>3. CountedOnce
  BY <1>2, CountedOnceOf, FS_EmptySet DEF Init, None
<1>4. SnapshotInHand /\ SenderRuns
  BY DEF Init, SnapshotInHand, SenderRuns
<1> QED
  BY <1>1, <1>3, <1>4 DEF IInv

\* The events of a job that the API hears, and those it misses.
LEMMA EmitType ==
  ASSUME Types, NEW j \in Jobs, NEW event \in 0..MaxPartials, Emit(j, event)
  PROVE  /\ heard' \in [Jobs -> Seq(0..MaxPartials)]
         /\ missed' \in [Jobs -> SUBSET (0..MaxPartials)]
<1>1. /\ heard \in [Jobs -> Seq(0..MaxPartials)] /\ missed \in [Jobs -> SUBSET (0..MaxPartials)]
      /\ heard[j] \in Seq(0..MaxPartials)
  BY DEF Types
<1>2. CASE heard' = [heard EXCEPT ![j] = Append(@, event)] /\ UNCHANGED missed
  <2>1. Append(heard[j], event) \in Seq(0..MaxPartials)
    BY <1>1, AppendProperties
  <2>2. QED
    BY <1>1, <1>2, <2>1
<1>3. CASE missed' = [missed EXCEPT ![j] = @ \cup {event}] /\ UNCHANGED heard
  <2>1. missed[j] \cup {event} \in SUBSET (0..MaxPartials)
    BY <1>1
  <2>2. QED
    BY <1>1, <1>3, <2>1
<1>4. QED
  BY <1>2, <1>3 DEF Emit

\* Steps that leave the counted jobs and the counters alone.
LEMMA CountsStay ==
  ASSUME CountedOnce, Begun' = Begun, Ended' = Ended, UNCHANGED <<started, finished, snapshot, reported, lost>>
  PROVE  CountedOnce'
BY CountedOnceOf

LEMMA NextIInv == IInv /\ [Next]_vars => IInv'
PROOF
<1> SUFFICES ASSUME IInv, [Next]_vars PROVE IInv'
  OBVIOUS
<1>0. /\ Types /\ CountedOnce /\ SnapshotInHand /\ SenderRuns
      /\ started \in Nat /\ finished \in Nat
      /\ \A c \in Counts : c.started \in Nat /\ c.finished \in Nat
      /\ snapshot \in Counts /\ reported \in Counts /\ lost \in Counts
      /\ None \in Counts /\ None.started = 0 /\ None.finished = 0
  BY DEF IInv, Types, Counts, None
<1>1. ASSUME NEW j \in Jobs, Begin(j) PROVE IInv'
  <2>1. /\ dpc[j] = "acked" /\ dpc' = [dpc EXCEPT ![j] = "running"] /\ started' = started + 1
        /\ sender' = [sender EXCEPT ![j] = j \in Streaming]
        /\ fpc' = IF j \in Streaming THEN [fpc EXCEPT ![j] = "waiting"] ELSE fpc
        /\ UNCHANGED <<sent, channel, inHand, heard, missed, finished, spc, snapshot, reported, lost, conn>>
    BY <1>1 DEF Begin, Goto
  <2>2. Types'
    BY <1>0, <2>1 DEF Types
  <2>3. Begun' = Begun \cup {j} /\ j \notin Begun /\ Ended' = Ended
    BY <1>0, <2>1 DEF Begun, Ended, Types
  <2>4. Cardinality(Begun') = Cardinality(Begun) + 1 /\ Cardinality(Begun) \in Nat
    BY <2>3, JobEnters DEF Begun
  <2>5. CountedOnce'
    <3>1. /\ Cardinality(Begun) = started + snapshot.started + reported.started + lost.started
          /\ Cardinality(Ended) = finished + snapshot.finished + reported.finished + lost.finished
      BY <1>0, CountedOnceOf
    <3>2. /\ Cardinality(Begun') = started' + snapshot'.started + reported'.started + lost'.started
          /\ Cardinality(Ended') = finished' + snapshot'.finished + reported'.finished + lost'.finished
      BY <1>0, <2>1, <2>3, <2>4, <3>1
    <3> QED
      BY <3>2, CountedOnceOf
  <2>6. SnapshotInHand' /\ SenderRuns'
    BY <1>0, <2>1 DEF SnapshotInHand, SenderRuns, Types
  <2> QED
    BY <2>2, <2>5, <2>6 DEF IInv
<1>2. ASSUME NEW j \in Jobs, Send(j) PROVE IInv'
  <2>1. /\ sent[j] < MaxPartials /\ sent' = [sent EXCEPT ![j] = @ + 1]
        /\ channel' = [channel EXCEPT ![j] = Append(@, sent[j] + 1)]
        /\ UNCHANGED <<dpc, sender, fpc, inHand, heard, missed, started, finished, spc, snapshot, reported, lost, conn>>
    BY <1>2 DEF Send, statsVars
  <2>2. sent[j] \in 0..MaxPartials /\ sent[j] + 1 \in 1..MaxPartials
    BY <1>0, <2>1, MeasurementAssumption DEF Types
  <2>3. Append(channel[j], sent[j] + 1) \in Seq(1..MaxPartials)
    BY <1>0, <2>2 DEF Types
  <2>4. Types'
    BY <1>0, <2>1, <2>2, <2>3 DEF Types
  <2>5. CountedOnce'
    BY <1>0, <2>1, CountsStay DEF Begun, Ended
  <2>6. SnapshotInHand' /\ SenderRuns'
    BY <1>0, <2>1 DEF SnapshotInHand, SenderRuns
  <2> QED
    BY <2>4, <2>5, <2>6 DEF IInv
<1>3. ASSUME NEW j \in Jobs, Finish(j) PROVE IInv'
  <2>1. /\ dpc[j] = "running" /\ dpc' = [dpc EXCEPT ![j] = "replying"] /\ finished' = finished + 1
        /\ sender' = [sender EXCEPT ![j] = FALSE]
        /\ UNCHANGED <<sent, channel, fpc, inHand, heard, missed, started, spc, snapshot, reported, lost, conn>>
    BY <1>3 DEF Finish, Goto, DropCommand
  <2>2. Types'
    BY <1>0, <2>1 DEF Types
  <2>3. Ended' = Ended \cup {j} /\ j \notin Ended /\ Begun' = Begun
    BY <1>0, <2>1 DEF Begun, Ended, Types
  <2>4. Cardinality(Ended') = Cardinality(Ended) + 1 /\ Cardinality(Ended) \in Nat
    BY <2>3, JobEnters DEF Ended
  <2>5. CountedOnce'
    <3>1. /\ Cardinality(Begun) = started + snapshot.started + reported.started + lost.started
          /\ Cardinality(Ended) = finished + snapshot.finished + reported.finished + lost.finished
      BY <1>0, CountedOnceOf
    <3>2. /\ Cardinality(Begun') = started' + snapshot'.started + reported'.started + lost'.started
          /\ Cardinality(Ended') = finished' + snapshot'.finished + reported'.finished + lost'.finished
      BY <1>0, <2>1, <2>3, <2>4, <3>1
    <3> QED
      BY <3>2, CountedOnceOf
  <2>6. SnapshotInHand' /\ SenderRuns'
    BY <1>0, <2>1 DEF SnapshotInHand, SenderRuns, Types
  <2> QED
    BY <2>2, <2>5, <2>6 DEF IInv
<1>4. ASSUME NEW j \in Jobs, Panic(j) PROVE IInv'
  <2>1. /\ dpc[j] = "running" /\ dpc' = [dpc EXCEPT ![j] = "panicked"]
        /\ sender' = [sender EXCEPT ![j] = FALSE]
        /\ UNCHANGED <<sent, channel, fpc, inHand, heard, missed, started, finished, spc, snapshot, reported, lost, conn>>
    BY <1>4 DEF Panic, Goto, DropCommand, statsVars
  <2>2. Types'
    BY <1>0, <2>1 DEF Types
  <2>3. CountedOnce'
    <3>1. Begun' = Begun /\ Ended' = Ended
      BY <1>0, <2>1 DEF Begun, Ended, Types
    <3> QED
      BY <1>0, <2>1, <3>1, CountsStay
  <2>4. SnapshotInHand' /\ SenderRuns'
    BY <1>0, <2>1 DEF SnapshotInHand, SenderRuns, Types
  <2> QED
    BY <2>2, <2>3, <2>4 DEF IInv
<1>5. ASSUME NEW j \in Jobs, Reply(j) PROVE IInv'
  <2>1. /\ dpc[j] = "replying" /\ dpc' = [dpc EXCEPT ![j] = "done"] /\ Emit(j, Result)
        /\ UNCHANGED <<sender, sent, channel, fpc, inHand, started, finished, spc, snapshot, reported, lost, conn>>
    BY <1>5 DEF Reply, Goto, statsVars
  <2>2. /\ heard' \in [Jobs -> Seq(0..MaxPartials)]
        /\ missed' \in [Jobs -> SUBSET (0..MaxPartials)]
    <3>1. Result \in 0..MaxPartials
      BY MeasurementAssumption DEF Result
    <3> QED
      BY <1>0, <2>1, <3>1, EmitType
  <2>3. Types'
    BY <1>0, <2>1, <2>2 DEF Types
  <2>4. CountedOnce'
    <3>1. Begun' = Begun /\ Ended' = Ended
      BY <1>0, <2>1 DEF Begun, Ended, Types
    <3> QED
      BY <1>0, <2>1, <3>1, CountsStay
  <2>5. SnapshotInHand' /\ SenderRuns'
    BY <1>0, <2>1 DEF SnapshotInHand, SenderRuns, Types
  <2> QED
    BY <2>3, <2>4, <2>5 DEF IInv
<1>6. ASSUME NEW j \in Jobs, ForwardStep(j) PROVE IInv'
  <2>1. UNCHANGED <<dpc, sender, sent, started, finished, spc, snapshot, reported, lost, conn>>
    BY <1>6 DEF ForwardStep, Receive, Forward, Hangup, statsVars
  <2>2. /\ channel' \in [Jobs -> Seq(1..MaxPartials)]
        /\ heard' \in [Jobs -> Seq(0..MaxPartials)]
        /\ missed' \in [Jobs -> SUBSET (0..MaxPartials)]
        /\ fpc' \in [Jobs -> {"none", "waiting", "emitting", "ended"}]
        /\ inHand' \in [Jobs -> 0..MaxPartials]
    <3>1. CASE Receive(j)
      <4>1. channel[j] \in Seq(1..MaxPartials) /\ channel[j] # << >>
        BY <1>0, <3>1 DEF Receive, Types
      <4>2. Head(channel[j]) \in 0..MaxPartials /\ Tail(channel[j]) \in Seq(1..MaxPartials)
        <5>1. Head(channel[j]) \in 1..MaxPartials
          BY <4>1, HeadTailProperties
        <5>2. Tail(channel[j]) \in Seq(1..MaxPartials)
          BY <4>1, HeadTailProperties
        <5> QED
          BY <5>1, <5>2, MeasurementAssumption
      <4> QED
        BY <1>0, <3>1, <4>2 DEF Receive, Types
    <3>2. CASE Forward(j)
      <4>1. inHand[j] \in 0..MaxPartials /\ Emit(j, inHand[j])
        BY <1>0, <3>2 DEF Forward, Types
      <4>2. /\ heard' \in [Jobs -> Seq(0..MaxPartials)]
            /\ missed' \in [Jobs -> SUBSET (0..MaxPartials)]
        BY <1>0, <4>1, EmitType
      <4> QED
        BY <1>0, <3>2, <4>2 DEF Forward, Types
    <3>3. CASE Hangup(j)
      BY <1>0, <3>3 DEF Hangup, Types
    <3> QED
      BY <1>6, <3>1, <3>2, <3>3 DEF ForwardStep
  <2>3. Types'
    BY <1>0, <2>1, <2>2 DEF Types
  <2>4. CountedOnce'
    BY <1>0, <2>1, CountsStay DEF Begun, Ended
  <2>5. SnapshotInHand' /\ SenderRuns'
    BY <1>0, <2>1 DEF SnapshotInHand, SenderRuns
  <2> QED
    BY <2>3, <2>4, <2>5 DEF IInv
<1>7. CASE SwapStarted
  <2>1. /\ spc = "sleeping" /\ spc' = "swapping" /\ started' = 0
        /\ snapshot' = [None EXCEPT !.started = started] /\ snapshot = None
        /\ UNCHANGED <<dpc, sender, sent, channel, fpc, inHand, heard, missed, finished, reported, lost, conn>>
    BY <1>0, <1>7 DEF SwapStarted, jobVars, SnapshotInHand
  <2>2. snapshot' \in Counts /\ snapshot'.started = started /\ snapshot'.finished = 0
    BY <1>0, <2>1 DEF Counts, None
  <2>3. Types'
    BY <1>0, <2>1, <2>2 DEF Types
  <2>4. CountedOnce'
    <3>1. Begun' = Begun /\ Ended' = Ended
      BY <2>1 DEF Begun, Ended
    <3>2. /\ Cardinality(Begun) = started + 0 + reported.started + lost.started
          /\ Cardinality(Ended) = finished + 0 + reported.finished + lost.finished
      BY <1>0, <2>1, CountedOnceOf
    <3> QED
      BY <1>0, <2>1, <2>2, <3>1, <3>2, CountedOnceOf
  <2>5. SnapshotInHand' /\ SenderRuns'
    BY <1>0, <2>1, <2>2 DEF SnapshotInHand, SenderRuns
  <2> QED
    BY <2>3, <2>4, <2>5 DEF IInv
<1>8. CASE SwapFinished
  <2>1. /\ spc = "swapping" /\ spc' = "emitting" /\ finished' = 0
        /\ snapshot' = [snapshot EXCEPT !.finished = finished] /\ snapshot.finished = 0
        /\ UNCHANGED <<dpc, sender, sent, channel, fpc, inHand, heard, missed, started, reported, lost, conn>>
    BY <1>0, <1>8 DEF SwapFinished, jobVars, SnapshotInHand
  <2>2. snapshot' \in Counts /\ snapshot'.started = snapshot.started /\ snapshot'.finished = finished
    BY <1>0, <2>1 DEF Counts
  <2>3. Types'
    BY <1>0, <2>1, <2>2 DEF Types
  <2>4. CountedOnce'
    <3>1. Begun' = Begun /\ Ended' = Ended
      BY <2>1 DEF Begun, Ended
    <3>2. Cardinality(Ended) = finished + 0 + reported.finished + lost.finished
      BY <1>0, <2>1, CountedOnceOf
    <3> QED
      BY <1>0, <2>1, <2>2, <3>1, <3>2, CountedOnceOf
  <2>5. SnapshotInHand' /\ SenderRuns'
    BY <1>0, <2>1, <2>2 DEF SnapshotInHand, SenderRuns
  <2> QED
    BY <2>3, <2>4, <2>5 DEF IInv
<1>9. CASE Report
  <2>1. /\ spc = "emitting" /\ spc' \in {"sleeping", "aborted"} /\ snapshot' = None
        /\ \/ reported' = Plus(reported, snapshot) /\ lost' = lost
           \/ lost' = Plus(lost, snapshot) /\ reported' = reported
        /\ UNCHANGED <<dpc, sender, sent, channel, fpc, inHand, heard, missed, started, finished, conn>>
    BY <1>9 DEF Report, jobVars
  <2>2. \A a, b \in Counts : /\ Plus(a, b) \in Counts
                            /\ Plus(a, b).started = a.started + b.started
                            /\ Plus(a, b).finished = a.finished + b.finished
    BY DEF Plus, Counts
  <2>3. Types'
    BY <1>0, <2>1, <2>2 DEF Types
  <2>4. /\ reported'.started + lost'.started = snapshot.started + reported.started + lost.started
        /\ reported'.finished + lost'.finished = snapshot.finished + reported.finished + lost.finished
    BY <1>0, <2>1, <2>2
  <2>5. CountedOnce'
    <3>1. Begun' = Begun /\ Ended' = Ended
      BY <2>1 DEF Begun, Ended
    <3>2. reported' \in Counts /\ lost' \in Counts
      BY <2>3 DEF Types
    <3> QED
      BY <1>0, <2>1, <2>4, <3>1, <3>2, CountedOnceOf
  <2>6. SnapshotInHand' /\ SenderRuns'
    BY <1>0, <2>1 DEF SnapshotInHand, SenderRuns
  <2> QED
    BY <2>3, <2>5, <2>6 DEF IInv
<1>10. CASE Close
  <2>1. /\ conn' = "closed" /\ spc' = IF spc = "sleeping" THEN "aborted" ELSE spc
        /\ UNCHANGED <<dpc, sender, sent, channel, fpc, inHand, heard, missed, started, finished, snapshot, reported, lost>>
    BY <1>10 DEF Close, jobVars
  <2>2. Types'
    BY <1>0, <2>1 DEF Types
  <2>3. CountedOnce'
    BY <1>0, <2>1, CountsStay DEF Begun, Ended
  <2>4. SnapshotInHand' /\ SenderRuns'
    BY <1>0, <2>1 DEF SnapshotInHand, SenderRuns
  <2> QED
    BY <2>2, <2>3, <2>4 DEF IInv
<1>11. CASE UNCHANGED vars
  BY <1>0, <1>11 DEF vars, jobVars, statsVars, IInv, Types, CountedOnce, SnapshotInHand, SenderRuns
<1> QED
  BY <1>1, <1>2, <1>3, <1>4, <1>5, <1>6, <1>7, <1>8, <1>9, <1>10, <1>11 DEF Next

THEOREM Inductive == Spec => []IInv
BY InitIInv, NextIInv, PTL DEF Spec

\* Every variable keeps its type; the counters never leave what they may count.
THEOREM TypeCorrect == Spec => []TypeOK
PROOF
<1>1. IInv => TypeOK
  <2> SUFFICES ASSUME IInv PROVE TypeOK
    OBVIOUS
  <2>1. /\ Cardinality(Begun) \in Nat /\ Cardinality(Begun) <= Cardinality(Jobs)
        /\ Cardinality(Ended) \in Nat /\ Cardinality(Ended) <= Cardinality(Jobs)
        /\ Cardinality(Jobs) \in Nat
    BY MeasurementAssumption, FS_Subset, FS_CardinalityType DEF Begun, Ended
  <2>2. /\ started \in Nat /\ finished \in Nat
        /\ \A c \in {snapshot, reported, lost} : c.started \in Nat /\ c.finished \in Nat
    BY DEF IInv, Types, Counts
  <2>3. started <= Cardinality(Begun) /\ finished <= Cardinality(Ended)
    BY <2>1, <2>2, CountedOnceOf DEF IInv
  <2>4. started \in 0..Cardinality(Jobs) /\ finished \in 0..Cardinality(Jobs)
    BY <2>1, <2>2, <2>3
  <2> QED
    BY <2>4 DEF IInv, Types, TypeOK
<1> QED
  BY <1>1, Inductive, PTL

\* Every measurement that was recorded is in exactly one place: a counter, the
\* snapshot in hand, a report, or a report that failed (stats.rs, run_stats_loop).
THEOREM EachIsCountedOnce == Spec => []CountedOnce
<1>1. IInv => CountedOnce
  BY DEF IInv
<1> QED
  BY <1>1, Inductive, PTL

\* No partial result is produced after the verdict: the command's future is gone.
THEOREM SilenceAfterVerdict == Spec => SilentAfterVerdict
PROOF
<1>1. ASSUME IInv, [Next]_vars, NEW j \in Jobs, dpc[j] \notin {"acked", "running"}
      PROVE  sent'[j] = sent[j]
  <2>1. ASSUME NEW k \in Jobs, Send(k) PROVE sent'[j] = sent[j]
    BY <1>1, <2>1 DEF Send, IInv, SenderRuns, Types
  <2>2. CASE UNCHANGED sent
    BY <2>2
  <2> QED
    BY <1>1, <2>1, <2>2 DEF Next, Begin, Finish, Panic, Reply, ForwardStep, Receive, Forward, Hangup,
       SwapStarted, SwapFinished, Report, Close, vars, jobVars
<1>2. IInv /\ [Next]_vars =>
        [\A j \in Jobs : dpc[j] \notin {"acked", "running"} => sent'[j] = sent[j]]_vars
  BY <1>1
<1> QED
  BY <1>2, Inductive, PTL DEF Spec, SilentAfterVerdict

------------------------------------------------------------------------------
(* The stream of partial results. *)

\* The events of a sequence; the partial result that the forwarder has in hand, if any;
\* and how many are behind it, heard or lost.
Events(s) == {s[i] : i \in 1..Len(s)}
Held(j)   == IF fpc[j] = "emitting" THEN 1 ELSE 0
Passed(j) == sent[j] - Len(channel[j]) - Held(j)

\* What a job's forwarder still has to do: the command's last partial results, in order.
Queue(j) ==
  /\ Passed(j) \in Nat
  /\ fpc[j] = "emitting" => inHand[j] = Passed(j) + 1
  /\ \A i \in 1..Len(channel[j]) : channel[j][i] = Passed(j) + Held(j) + i
  /\ fpc[j] = "ended" => channel[j] = << >> /\ ~sender[j]

\* What it has done: each of the partial results before was heard, in order, or lost.
Past(j) ==
  /\ InOrder(heard[j])
  /\ Events(heard[j]) \cup missed[j] \subseteq 0..Passed(j)
  /\ 1..Passed(j) \subseteq Events(heard[j]) \cup missed[j]
  /\ Events(heard[j]) \cap missed[j] = {}
  /\ dpc[j] # "done" => Result \notin Events(heard[j]) \cup missed[j]

\* A forwarder is there once its measurement has begun.
ForwarderFollows == \A j \in Jobs : dpc[j] = "acked" => fpc[j] = "none"

StreamInv ==
  /\ ForwarderFollows
  /\ \A j \in Jobs : Queue(j) /\ Past(j)

\* What is a sequence of some numbers is one of numbers.
LEMMA SeqWidens ==
  ASSUME NEW S \in SUBSET Nat, NEW s \in Seq(S)
  PROVE  s \in Seq(Nat)
<1>1. Len(s) \in Nat /\ s \in [1..Len(s) -> Nat]
  BY LenProperties
<1>2. QED
  BY <1>1

\* In particular what is heard and what is in a channel.
LEMMA JobSequences ==
  ASSUME Types, NEW j \in Jobs
  PROVE  channel[j] \in Seq(Nat) /\ heard[j] \in Seq(Nat)
<1>1. channel[j] \in Seq(1..MaxPartials) /\ heard[j] \in Seq(0..MaxPartials)
  BY DEF Types
<1>2. 1..MaxPartials \in SUBSET Nat /\ 0..MaxPartials \in SUBSET Nat
  BY MeasurementAssumption
<1>3. QED
  BY <1>1, <1>2, SeqWidens

\* What comes next keeps the order: the result, or a partial result after all others.
LEMMA AppendInOrder ==
  ASSUME NEW s \in Seq(Nat), NEW e \in Nat, InOrder(s), e \notin Events(s),
         e # Result => \A f \in Events(s) : f < e
  PROVE  InOrder(Append(s, e)) /\ Events(Append(s, e)) = Events(s) \cup {e}
<1>1. /\ Len(Append(s, e)) = Len(s) + 1 /\ Len(s) \in Nat
      /\ \A i \in 1..Len(s) : Append(s, e)[i] = s[i]
      /\ Append(s, e)[Len(s) + 1] = e
  BY AppendProperties, LenProperties
<1>2. \A i \in 1..Len(s) : s[i] \in Events(s)
  BY DEF Events
<1>3. ASSUME NEW a \in 1..Len(s) + 1, NEW b \in 1..Len(s) + 1, a < b
      PROVE  /\ Append(s, e)[a] # Append(s, e)[b]
             /\ Append(s, e)[b] # Result => Append(s, e)[a] < Append(s, e)[b]
  <2>1. a \in 1..Len(s) /\ Append(s, e)[a] = s[a]
    BY <1>1, <1>3
  <2>2. CASE b = Len(s) + 1
    BY <1>1, <1>2, <2>1, <2>2
  <2>3. CASE b # Len(s) + 1
    <3>1. b \in 1..Len(s) /\ Append(s, e)[b] = s[b]
      BY <1>1, <2>3
    <3>2. QED
      BY <1>3, <2>1, <3>1 DEF InOrder
  <2>4. QED
    BY <2>2, <2>3
<1>4. InOrder(Append(s, e))
  BY <1>1, <1>3 DEF InOrder
<1>5. Events(Append(s, e)) = Events(s) \cup {e}
  <2>1. \A i \in 1..Len(s) + 1 : Append(s, e)[i] \in Events(s) \cup {e}
    BY <1>1, <1>2
  <2>2. \A i \in 1..Len(s) : \E k \in 1..Len(s) + 1 : Append(s, e)[k] = s[i]
    BY <1>1
  <2>3. \E k \in 1..Len(s) + 1 : Append(s, e)[k] = e
    BY <1>1
  <2>4. Events(s) \subseteq Events(Append(s, e))
    BY <1>1, <2>2 DEF Events
  <2>5. e \in Events(Append(s, e))
    BY <1>1, <2>3 DEF Events
  <2>6. Events(Append(s, e)) \subseteq Events(s) \cup {e}
    BY <1>1, <2>1 DEF Events
  <2>7. QED
    BY <2>4, <2>5, <2>6
<1>6. QED
  BY <1>4, <1>5

\* An event that was neither heard nor lost is one or the other after its emit.
LEMMA EmitNews ==
  ASSUME Types, NEW j \in Jobs, NEW e \in 0..MaxPartials, Emit(j, e), InOrder(heard[j]),
         e \notin Events(heard[j]) \cup missed[j],
         Events(heard[j]) \cap missed[j] = {},
         e # Result => \A f \in Events(heard[j]) : f < e
  PROVE  /\ InOrder(heard'[j])
         /\ Events(heard'[j]) \cup missed'[j] = (Events(heard[j]) \cup missed[j]) \cup {e}
         /\ Events(heard'[j]) \cap missed'[j] = {}
<1>1. heard[j] \in Seq(Nat) /\ e \in Nat
  BY JobSequences, MeasurementAssumption
<1>2. CASE heard' = [heard EXCEPT ![j] = Append(@, e)] /\ UNCHANGED missed
  <2>1. heard'[j] = Append(heard[j], e) /\ missed'[j] = missed[j]
    BY <1>2 DEF Types
  <2>2. InOrder(Append(heard[j], e)) /\ Events(Append(heard[j], e)) = Events(heard[j]) \cup {e}
    BY <1>1, AppendInOrder
  <2>3. QED
    BY <2>1, <2>2
<1>3. CASE missed' = [missed EXCEPT ![j] = @ \cup {e}] /\ UNCHANGED heard
  <2>1. heard'[j] = heard[j] /\ missed'[j] = missed[j] \cup {e}
    BY <1>3 DEF Types
  <2>2. QED
    BY <2>1
<1>4. QED
  BY <1>2, <1>3 DEF Emit

\* The two together are what HeardInOrder says of a job.
LEMMA StreamsInOrder ==
  ASSUME Types, NEW j \in Jobs, Queue(j), Past(j)
  PROVE  /\ InOrder(heard[j])
         /\ \A i \in 1..Len(heard[j]) :
              1..heard[j][i] - 1 \subseteq missed[j] \cup {heard[j][k] : k \in 1..i - 1}
         /\ fpc[j] = "ended" => 1..sent[j] \subseteq missed[j] \cup Events(heard[j])
         /\ missed[j] \cap Events(heard[j]) = {}
<1>1. heard[j] \in Seq(Nat) /\ Len(heard[j]) \in Nat /\ sent[j] \in Nat
  BY JobSequences, LenProperties, MeasurementAssumption DEF Types
<1>2. \A i \in 1..Len(heard[j]) : heard[j][i] \in Nat /\ heard[j][i] \in Events(heard[j])
  BY <1>1 DEF Events
<1>3. ASSUME NEW i \in 1..Len(heard[j]), NEW p \in 1..heard[j][i] - 1, p \notin missed[j]
      PROVE  p \in {heard[j][k] : k \in 1..i - 1}
  <2>1. Passed(j) \in Nat /\ heard[j][i] <= Passed(j) /\ p \in Nat /\ p # Result /\ p < heard[j][i]
    BY <1>2, <1>3 DEF Past, Queue, Result
  <2>2. p \in Events(heard[j])
    <3>1. p \in 1..Passed(j)
      BY <1>2, <1>3, <2>1
    <3>2. QED
      BY <1>3, <3>1 DEF Past
  <2>3. PICK k \in 1..Len(heard[j]) : p = heard[j][k]
    BY <2>2 DEF Events
  <2>4. ~(i < k)
    <3>1. InOrder(heard[j])
      BY DEF Past
    <3>2. i < k => heard[j][i] < heard[j][k]
      BY <2>1, <2>3, <3>1 DEF InOrder
    <3>3. QED
      BY <1>2, <2>1, <2>3, <3>2
  <2>5. k # i
    BY <1>2, <2>1, <2>3
  <2>6. k \in 1..i - 1
    BY <1>1, <2>4, <2>5
  <2>7. QED
    BY <2>3, <2>6
<1>4. ASSUME fpc[j] = "ended" PROVE 1..sent[j] \subseteq missed[j] \cup Events(heard[j])
  <2>1. Len(channel[j]) = 0 /\ Held(j) = 0
    BY <1>4 DEF Queue, Held
  <2>2. Passed(j) = sent[j]
    BY <1>1, <2>1 DEF Passed
  <2>3. QED
    BY <2>2 DEF Past
<1>5. QED
  BY <1>3, <1>4 DEF Past

\* A step that leaves the parts of a job's stream alone leaves the stream as it is.
LEMMA QueueStays ==
  ASSUME NEW k \in Jobs, Queue(k), channel'[k] = channel[k], inHand'[k] = inHand[k],
         sent'[k] = sent[k], fpc'[k] = "emitting" <=> fpc[k] = "emitting",
         fpc'[k] = "ended" => ~sender'[k] /\ (fpc[k] = "ended" \/ channel[k] = << >>)
  PROVE  Queue(k)' /\ Passed(k)' = Passed(k)
<1>1. Held(k)' = Held(k)
  BY DEF Held
<1>2. Passed(k)' = Passed(k)
  BY <1>1 DEF Passed
<1>3. Queue(k)'
  BY <1>1, <1>2 DEF Queue
<1>4. QED
  BY <1>2, <1>3

LEMMA PastStays ==
  ASSUME NEW k \in Jobs, Past(k), heard'[k] = heard[k], missed'[k] = missed[k],
         Passed(k)' = Passed(k), dpc'[k] # "done" => dpc[k] # "done"
  PROVE  Past(k)'
BY DEF Past

\* A step of the command, of the forwarder and of the reply keeps the stream of its job.
LEMMA SendStreams ==
  ASSUME Types, NEW j \in Jobs, Queue(j), Past(j), Send(j)
  PROVE  Queue(j)' /\ Past(j)'
<1>1. /\ channel' = [channel EXCEPT ![j] = Append(@, sent[j] + 1)]
      /\ sent' = [sent EXCEPT ![j] = @ + 1] /\ sender[j]
      /\ UNCHANGED <<dpc, fpc, inHand, heard, missed, sender>>
  BY DEF Send
<1>2. Held(j)' = Held(j) /\ Held(j) \in Nat
  BY <1>1 DEF Held
<1>3. /\ channel[j] \in Seq(Nat) /\ sent[j] \in Nat
      /\ channel'[j] = Append(channel[j], sent[j] + 1) /\ sent'[j] = sent[j] + 1
  BY <1>1, JobSequences, MeasurementAssumption DEF Types
<1>4. /\ Len(channel[j]) \in Nat /\ Len(channel'[j]) = Len(channel[j]) + 1
      /\ \A i \in 1..Len(channel[j]) : channel'[j][i] = channel[j][i]
      /\ channel'[j][Len(channel[j]) + 1] = sent[j] + 1
  BY <1>3, AppendProperties, LenProperties
<1>5. Passed(j)' = Passed(j) /\ Passed(j) \in Nat
      /\ sent[j] + 1 = Passed(j) + Held(j) + Len(channel[j]) + 1
  <2>1. Passed(j) \in Nat /\ Passed(j) = sent[j] - Len(channel[j]) - Held(j)
    BY DEF Queue, Passed
  <2>2. Passed(j)' = sent'[j] - Len(channel'[j]) - Held(j)'
    BY DEF Passed
  <2>3. Passed(j)' = (sent[j] + 1) - (Len(channel[j]) + 1) - Held(j)
    BY <1>2, <1>3, <1>4, <2>2, Zenon
  <2>4. QED
    BY <1>2, <1>3, <1>4, <2>1, <2>3
<1>6. \A i \in 1..Len(channel'[j]) : channel'[j][i] = Passed(j)' + Held(j)' + i
  <2>1. \A i \in 1..Len(channel[j]) : channel[j][i] = Passed(j) + Held(j) + i
    BY DEF Queue
  <2>2. ASSUME NEW i \in 1..Len(channel[j]) PROVE channel'[j][i] = Passed(j) + Held(j) + i
    BY <1>4, <2>1
  <2>3. channel'[j][Len(channel[j]) + 1] = Passed(j) + Held(j) + Len(channel[j]) + 1
    BY <1>4, <1>5
  <2>4. ASSUME NEW i \in 1..Len(channel[j]) + 1 PROVE channel'[j][i] = Passed(j) + Held(j) + i
    <3>1. CASE i = Len(channel[j]) + 1
      BY <1>2, <1>4, <1>5, <2>3, <3>1
    <3>2. CASE i # Len(channel[j]) + 1
      <4>1. i \in 1..Len(channel[j])
        BY <1>4, <3>2
      <4>2. QED
        BY <2>2, <4>1
    <3>3. QED
      BY <3>1, <3>2
  <2>5. 1..Len(channel'[j]) = 1..Len(channel[j]) + 1
    BY <1>4
  <2>6. QED
    BY <1>2, <1>5, <2>4, <2>5
<1>7. fpc'[j] # "ended"
  BY <1>1 DEF Queue
<1>8. Queue(j)'
  BY <1>1, <1>5, <1>6, <1>7 DEF Queue
<1>9. Past(j)'
  BY <1>1, <1>5, PastStays
<1>10. QED
  BY <1>8, <1>9

LEMMA ReceiveStreams ==
  ASSUME Types, NEW j \in Jobs, Queue(j), Past(j), Receive(j)
  PROVE  Queue(j)' /\ Past(j)'
<1>1. /\ fpc[j] = "waiting" /\ channel[j] # << >>
      /\ inHand' = [inHand EXCEPT ![j] = Head(channel[j])]
      /\ channel' = [channel EXCEPT ![j] = Tail(@)]
      /\ fpc' = [fpc EXCEPT ![j] = "emitting"]
      /\ UNCHANGED <<dpc, sent, heard, missed>>
  BY DEF Receive
<1>2. Held(j) = 0 /\ Held(j)' = 1 /\ fpc'[j] = "emitting"
  BY <1>1 DEF Held, Types
<1>3. /\ channel[j] \in Seq(Nat) /\ channel'[j] = Tail(channel[j])
      /\ inHand'[j] = Head(channel[j]) /\ sent[j] \in Nat /\ sent'[j] = sent[j]
  BY <1>1, JobSequences, MeasurementAssumption DEF Types
<1>4. /\ Len(channel[j]) \in Nat \ {0} /\ Len(channel'[j]) = Len(channel[j]) - 1
      /\ \A i \in 1..Len(channel[j]) - 1 : channel'[j][i] = channel[j][i + 1]
      /\ Head(channel[j]) = channel[j][1]
  <2>1. Len(channel[j]) \in Nat \ {0}
    BY <1>1, <1>3, EmptySeq
  <2>2. /\ Len(Tail(channel[j])) = Len(channel[j]) - 1
        /\ \A i \in 1..Len(Tail(channel[j])) : Tail(channel[j])[i] = channel[j][i + 1]
    BY <1>1, <1>3, HeadTailProperties
  <2>3. QED
    BY <1>3, <2>1, <2>2
<1>5. Passed(j)' = Passed(j) /\ Passed(j) \in Nat
  <2>1. Passed(j) \in Nat /\ Passed(j) = sent[j] - Len(channel[j]) - Held(j)
    BY DEF Queue, Passed
  <2>2. Passed(j)' = sent'[j] - Len(channel'[j]) - Held(j)'
    BY DEF Passed
  <2>3. QED
    BY <1>2, <1>3, <1>4, <2>1, <2>2
<1>6. \A i \in 1..Len(channel[j]) : channel[j][i] = Passed(j) + i
  BY <1>2, <1>5 DEF Queue
<1>7. inHand'[j] = Passed(j) + 1
  BY <1>3, <1>4, <1>6
<1>8. \A i \in 1..Len(channel'[j]) : channel'[j][i] = Passed(j) + 1 + i
  BY <1>4, <1>5, <1>6
<1>9. Queue(j)'
  BY <1>2, <1>5, <1>7, <1>8 DEF Queue
<1>10. Past(j)'
  BY <1>1, <1>5, PastStays
<1>11. QED
  BY <1>9, <1>10

\* The emit of the next partial result, heard or lost, before or after the result.
LEMMA ForwardStreams ==
  ASSUME Types, NEW j \in Jobs, Queue(j), Past(j), Forward(j)
  PROVE  Queue(j)' /\ Past(j)'
<1>1. /\ fpc[j] = "emitting" /\ fpc' = [fpc EXCEPT ![j] = "waiting"]
      /\ Emit(j, inHand[j])
      /\ UNCHANGED <<dpc, sent, channel, inHand>>
  BY DEF Forward
<1>2. Held(j) = 1 /\ Held(j)' = 0 /\ fpc'[j] = "waiting"
  BY <1>1 DEF Held, Types
<1>3. /\ Passed(j) \in Nat /\ Passed(j)' = Passed(j) + 1
      /\ inHand[j] = Passed(j) + 1 /\ inHand[j] \in 0..MaxPartials
  <2>1. channel[j] \in Seq(Nat) /\ sent[j] \in Nat /\ Len(channel[j]) \in Nat
    BY JobSequences, LenProperties, MeasurementAssumption DEF Types
  <2>2. Passed(j) \in Nat /\ inHand[j] = Passed(j) + 1 /\ inHand[j] \in 0..MaxPartials
    BY <1>1 DEF Queue, Types
  <2>3. Passed(j) = sent[j] - Len(channel[j]) - Held(j)
    BY DEF Passed
  <2>4. Passed(j)' = sent[j] - Len(channel[j]) - Held(j)'
    BY <1>1 DEF Passed
  <2>5. QED
    BY <1>2, <2>1, <2>2, <2>3, <2>4
<1>4. Queue(j)'
  <2>1. \A i \in 1..Len(channel[j]) : channel[j][i] = Passed(j) + 1 + i
    BY <1>2 DEF Queue
  <2>2. \A i \in 1..Len(channel'[j]) : channel'[j][i] = Passed(j)' + Held(j)' + i
    BY <1>1, <1>2, <1>3, <2>1
  <2>3. QED
    BY <1>2, <1>3, <2>2 DEF Queue
<1>5. Past(j)'
  <2>1. \A f \in Events(heard[j]) \cup missed[j] : f \in Nat /\ f < inHand[j]
    BY <1>3 DEF Past
  <2>2. inHand[j] \notin Events(heard[j]) \cup missed[j] /\ inHand[j] # Result
    BY <1>3, <2>1 DEF Result
  <2>3. /\ InOrder(heard'[j])
        /\ Events(heard'[j]) \cup missed'[j] = (Events(heard[j]) \cup missed[j]) \cup {inHand[j]}
        /\ Events(heard'[j]) \cap missed'[j] = {}
    BY <1>1, <1>3, <2>1, <2>2, EmitNews DEF Past
  <2>4. Events(heard'[j]) \cup missed'[j] \subseteq 0..Passed(j)'
    BY <1>3, <2>3 DEF Past
  <2>5. 1..Passed(j)' \subseteq Events(heard'[j]) \cup missed'[j]
    BY <1>3, <2>3 DEF Past
  <2>6. dpc'[j] # "done" => Result \notin Events(heard'[j]) \cup missed'[j]
    BY <1>1, <2>2, <2>3 DEF Past
  <2>7. QED
    BY <2>3, <2>4, <2>5, <2>6 DEF Past
<1>6. QED
  BY <1>4, <1>5

\* The emit of the result, heard or lost.
LEMMA ReplyStreams ==
  ASSUME Types, NEW j \in Jobs, Queue(j), Past(j), Reply(j)
  PROVE  Queue(j)' /\ Past(j)'
<1>1. /\ dpc[j] = "replying" /\ dpc' = [dpc EXCEPT ![j] = "done"] /\ Emit(j, Result)
      /\ UNCHANGED <<sent, channel, fpc, inHand, sender>>
  BY DEF Reply, Goto
<1>2. Queue(j)' /\ Passed(j)' = Passed(j) /\ Passed(j) \in Nat
  BY <1>1, QueueStays DEF Queue
<1>3. dpc'[j] = "done" /\ Result \in 0..MaxPartials /\ Result \notin Events(heard[j]) \cup missed[j]
  BY <1>1, MeasurementAssumption DEF Types, Past, Result
<1>4. /\ InOrder(heard'[j])
      /\ Events(heard'[j]) \cup missed'[j] = (Events(heard[j]) \cup missed[j]) \cup {Result}
      /\ Events(heard'[j]) \cap missed'[j] = {}
  BY <1>1, <1>3, EmitNews DEF Past
<1>5. /\ Events(heard'[j]) \cup missed'[j] \subseteq 0..Passed(j)
      /\ 1..Passed(j) \subseteq Events(heard'[j]) \cup missed'[j]
  BY <1>2, <1>4 DEF Past, Result
<1>6. Past(j)'
  BY <1>2, <1>3, <1>4, <1>5 DEF Past
<1>7. QED
  BY <1>2, <1>6

\* The order is there at the start.
LEMMA InitStreamInv == Init => StreamInv
<1> SUFFICES ASSUME Init PROVE StreamInv
  OBVIOUS
<1>1. ASSUME NEW j \in Jobs
      PROVE  /\ heard[j] = << >> /\ missed[j] = {} /\ channel[j] = << >> /\ Len(<< >>) = 0
             /\ sent[j] = 0 /\ dpc[j] = "acked" /\ fpc[j] = "none" /\ Held(j) = 0
  BY DEF Init, Held
<1>2. InOrder(<< >>) /\ Events(<< >>) = {}
  BY DEF InOrder, Events
<1>3. ASSUME NEW j \in Jobs PROVE Queue(j) /\ Past(j)
  <2>1. Passed(j) = 0
    BY <1>1 DEF Passed
  <2>2. Queue(j)
    BY <1>1, <2>1 DEF Queue
  <2>3. Past(j)
    BY <1>1, <1>2, <2>1 DEF Past
  <2>4. QED
    BY <2>2, <2>3
<1>4. QED
  BY <1>1, <1>3 DEF StreamInv, ForwarderFollows

\* Every step keeps it.
LEMMA NextStreamInv == Types /\ StreamInv /\ [Next]_vars /\ Types' => StreamInv'
<1> SUFFICES ASSUME Types, StreamInv, [Next]_vars, Types' PROVE StreamInv'
  OBVIOUS
<1>1. ASSUME NEW j \in Jobs,
             Begin(j) \/ Send(j) \/ Finish(j) \/ Panic(j) \/ Reply(j) \/ ForwardStep(j)
      PROVE  StreamInv'
  <2>1. ForwarderFollows'
    BY <1>1 DEF StreamInv, ForwarderFollows, Types, Goto, Begin, Send, Finish, Panic, Reply,
       ForwardStep, Receive, Forward, Hangup
  <2>2. ASSUME NEW k \in Jobs PROVE Queue(k)' /\ Past(k)'
    <3>1. Queue(k) /\ Past(k) /\ (dpc[k] = "acked" => fpc[k] = "none")
      BY <2>2 DEF StreamInv, ForwarderFollows
    <3>2. CASE k # j
      <4>1. heard'[k] = heard[k] /\ missed'[k] = missed[k]
        <5>1. CASE Begin(j) \/ Send(j) \/ Finish(j) \/ Panic(j)
          BY <5>1 DEF Begin, Send, Finish, Panic
        <5>2. ASSUME NEW e, Emit(j, e) PROVE heard'[k] = heard[k] /\ missed'[k] = missed[k]
          BY <3>2, <5>2 DEF Types, Emit
        <5>3. CASE Reply(j) \/ Forward(j)
          BY <5>2, <5>3 DEF Reply, Forward
        <5>4. CASE Receive(j) \/ Hangup(j)
          BY <5>4 DEF Receive, Hangup
        <5> QED
          BY <1>1, <5>1, <5>3, <5>4 DEF ForwardStep
      <4>2. channel'[k] = channel[k] /\ inHand'[k] = inHand[k] /\ sent'[k] = sent[k]
        BY <1>1, <3>2, SMTT(20), ZenonT(20) DEF Types, Begin, Send, Finish, Panic, Reply, ForwardStep, Receive,
           Forward, Hangup
      <4>3. dpc'[k] = dpc[k] /\ fpc'[k] = fpc[k]
        BY <1>1, <3>2 DEF Types, Goto, Begin, Send, Finish, Panic, Reply, ForwardStep, Receive,
           Forward, Hangup
      <4>4. sender'[k] = sender[k]
        BY <1>1, <3>2 DEF Types, Begin, Send, Finish, Panic, Reply, ForwardStep, Receive,
           Forward, Hangup, DropCommand
      <4>5. Queue(k)' /\ Passed(k)' = Passed(k)
        BY <3>1, <4>2, <4>3, <4>4, QueueStays DEF Queue
      <4>6. QED
        BY <3>1, <4>1, <4>3, <4>5, PastStays
    <3>3. CASE k = j /\ (Begin(j) \/ Finish(j) \/ Panic(j) \/ Hangup(j))
      <4>1. /\ heard'[k] = heard[k] /\ missed'[k] = missed[k] /\ channel'[k] = channel[k]
            /\ inHand'[k] = inHand[k] /\ sent'[k] = sent[k]
            /\ (dpc'[k] = "done" <=> dpc[k] = "done")
            /\ (fpc'[k] = "emitting" <=> fpc[k] = "emitting")
        BY <3>1, <3>3 DEF Types, Goto, Begin, Finish, Panic, Hangup
      <4>2. fpc'[k] = "ended" => ~sender'[k] /\ (fpc[k] = "ended" \/ channel[k] = << >>)
        <5>1. CASE Begin(j)
          BY <3>1, <3>3, <5>1 DEF Types, Goto, Begin
        <5>2. CASE Finish(j) \/ Panic(j)
          BY <3>1, <3>3, <5>2 DEF Types, Finish, Panic, DropCommand
        <5>3. CASE Hangup(j)
          BY <3>3, <5>3 DEF Hangup
        <5>4. QED
          BY <3>3, <5>1, <5>2, <5>3
      <4>3. Queue(k)' /\ Passed(k)' = Passed(k)
        BY <3>1, <4>1, <4>2, QueueStays
      <4>4. QED
        BY <3>1, <4>1, <4>3, PastStays
    <3>4. CASE k = j /\ (Send(j) \/ Receive(j) \/ Forward(j) \/ Reply(j))
      BY <3>1, <3>4, SendStreams, ReceiveStreams, ForwardStreams, ReplyStreams
    <3>5. QED
      BY <1>1, <3>2, <3>3, <3>4 DEF ForwardStep
  <2>3. QED
    BY <2>1, <2>2 DEF StreamInv
<1>2. CASE SwapStarted \/ SwapFinished \/ Report \/ Close \/ UNCHANGED vars
  <2>1. UNCHANGED jobVars
    BY <1>2 DEF SwapStarted, SwapFinished, Report, Close, vars
  <2>2. ForwarderFollows'
    BY <2>1 DEF jobVars, StreamInv, ForwarderFollows
  <2>3. ASSUME NEW k \in Jobs PROVE Queue(k)' /\ Past(k)'
    <3>1. Queue(k) /\ Past(k)
      BY DEF StreamInv
    <3>2. Queue(k)' /\ Passed(k)' = Passed(k)
      BY <2>1, <3>1, QueueStays DEF jobVars, Queue
    <3>3. QED
      BY <2>1, <3>1, <3>2, PastStays DEF jobVars
  <2>4. QED
    BY <2>2, <2>3 DEF StreamInv
<1>3. QED
  BY <1>1, <1>2 DEF Next

\* Of every job the API hears the partial results in order, none twice, the result at most
\* once, and none is passed over but by the loss of its own emit, however the command, its
\* forwarder, the reply, lost emits and the end of the connection interleave (progress.rs,
\* dispatch).
THEOREM PartialsInOrder == Spec => []HeardInOrder
<1>1. IInv => Types
  BY DEF IInv
<1>2. Types /\ StreamInv => HeardInOrder
  BY StreamsInOrder DEF StreamInv, HeardInOrder, Events
<1>3. QED
  BY <1>1, <1>2, InitStreamInv, NextStreamInv, Inductive, PTL DEF Spec
==============================================================================
