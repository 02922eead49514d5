---------------------------- MODULE Status_proofs ----------------------------
(***************************************************************************)
(* Theorems about Status, for every number of targets, every threshold and *)
(* every bound on the disconnects.                                         *)
(***************************************************************************)
EXTENDS Status, TLAPS

\* Of the statuses that may come after "sigterm" the loop and the running handler
\* owe one each, unless what they have read is "sigterm" itself.
LoopOwes == lpc = "emitting" /\ loopSays # "sigterm"
HandlerOwes == hpc = "emitting" /\ handlerSays # "sigterm"

\* Nothing runs between connections.
DownIsIdle == link = "down" => lpc = "off" /\ hpc = "idle"

\* Once sigterm is set the loop does not begin another cycle, and there is no way
\* back to a connection.
SigtermIsFinal ==
  /\ link = "up" => ~sigterm
  /\ link \in {"sigterm", "draining"} => sigterm /\ lpc \in {"off", "emitting"}

\* What was told after "sigterm" and what is still owed.
StaleOrOwed ==
  /\ ~sigterm \/ link = "sigterm" => stale = 0
  /\ stale <= 2
  /\ LoopOwes \/ HandlerOwes => stale <= 1
  /\ LoopOwes /\ HandlerOwes => stale = 0

IInv ==
  /\ StatusTypeOK
  /\ CycleTellsItsVerdict
  /\ DownIsIdle
  /\ SigtermIsFinal
  /\ StaleOrOwed

\* A status that is read is one of the statuses, and "sigterm" once that is set.
LEMMA StatusType ==
  /\ get_status \in Statuses
  /\ get_status' \in Statuses
  /\ sigterm' => get_status' = "sigterm"
BY DEF get_status, Statuses

\* Only differences without a VPN lead to the verdict "passed".
LEMMA PassedMeansClear ==
  ASSUME NEW d \in Differences
  PROVE  /\ Verdict(is_vpn_detected(d, FALSE)) \in Verdicts
         /\ Sight(d) \in Sights
         /\ Sight(d) = "vpn" => Verdict(is_vpn_detected(d, FALSE)) = "failed"
BY DEF Verdict, Verdicts, Sight, Sights

\* Telling a status counts at most one more stale one, and only when draining.
LEMMA TellCounts ==
  ASSUME NEW st, stale \in 0..3, TellStatus(st)
  PROVE  /\ stale' \in 0..3
         /\ view' = st
         /\ st = "sigterm" \/ link # "draining" => stale' = stale
         /\ stale' <= stale + 1
BY DEF TellStatus

LEMMA InitIInv == StatusInit => IInv
PROOF
<1> SUFFICES ASSUME StatusInit PROVE IInv
  OBVIOUS
<1>1. StatusTypeOK
  <2>1. recent \in 0..MaxRecent /\ stale \in 0..3
    BY StatusAssumption DEF StatusInit
  <2>2. {loopSays, handlerSays, view} \subseteq Statuses \cup {"none"}
    BY DEF StatusInit
  <2> QED
    BY <2>1, <2>2 DEF StatusInit, StatusTypeOK, Verdicts, Sights
<1>2. CycleTellsItsVerdict /\ DownIsIdle /\ SigtermIsFinal
  BY DEF StatusInit, CycleTellsItsVerdict, DownIsIdle, SigtermIsFinal
<1>3. stale = 0 /\ ~LoopOwes /\ ~HandlerOwes
  BY DEF StatusInit, LoopOwes, HandlerOwes
<1> QED
  BY <1>1, <1>2, <1>3 DEF IInv, StaleOrOwed

LEMMA NextIInv == IInv /\ [StatusNext]_statusVars => IInv'
PROOF
<1> SUFFICES ASSUME IInv, [StatusNext]_statusVars PROVE IInv'
  OBVIOUS
<1> USE DEF IInv, StatusTypeOK, CycleTellsItsVerdict, DownIsIdle, SigtermIsFinal, StaleOrOwed,
      LoopOwes, HandlerOwes, health, cycle, handler
<1>1. CASE LoopPing
  <2>1. ping' \in Verdicts
    BY <1>1 DEF LoopPing, Verdict, Verdicts
  <2> QED
    BY <1>1, <2>1 DEF LoopPing
<1>2. CASE LoopCompare
  <2>1. PICK d \in Differences : /\ icmp' = Verdict(is_vpn_detected(d, FALSE))
                                 /\ measured' = Sight(d)
    BY <1>2 DEF LoopCompare
  <2>2. icmp' \in Verdicts /\ measured' \in Sights /\ (measured' = "vpn" => icmp' = "failed")
    BY <2>1, PassedMeansClear
  <2>3. /\ lpc = "comparing" /\ lpc' = "emitting" /\ loopSays' = get_status'
        /\ tooMany' \in BOOLEAN
        /\ UNCHANGED <<ping, recent, sigterm, link, hpc, handlerSays, view, stale>>
    BY <1>2 DEF LoopCompare, recheck
  <2>4. get_status' = "ready" => ping' = "passed" /\ icmp' # "failed"
    BY <2>2, <2>3 DEF get_status, Verdicts
  <2>5. StatusTypeOK'
    BY <2>2, <2>3, StatusType
  <2>6. CycleTellsItsVerdict'
    BY <2>2, <2>3, <2>4
  <2>7. stale = 0
    BY <2>3
  <2>8. (DownIsIdle /\ SigtermIsFinal /\ StaleOrOwed)'
    BY <2>3, <2>7
  <2> QED
    BY <2>5, <2>6, <2>8
<1>3. CASE LoopEmit
  <2>1. /\ lpc = "emitting" /\ lpc' = (IF sigterm THEN "off" ELSE "sleeping")
        /\ UNCHANGED <<ping, icmp, tooMany, recent, sigterm, link, loopSays, hpc, handlerSays, measured>>
        /\ TellStatus(loopSays)
    BY <1>3 DEF LoopEmit
  <2>2. /\ stale' \in 0..3 /\ view' = loopSays /\ stale' <= stale + 1
        /\ loopSays = "sigterm" \/ link # "draining" => stale' = stale
    BY <2>1, TellCounts
  <2>3. StatusTypeOK'
    BY <2>1, <2>2
  <2>4. ~LoopOwes' /\ (HandlerOwes' <=> HandlerOwes)
    BY <2>1
  <2>5. stale' <= 2 /\ (HandlerOwes' => stale' <= 1)
    BY <2>1, <2>2
  <2>7. (CycleTellsItsVerdict /\ DownIsIdle /\ SigtermIsFinal)'
    BY <2>1
  <2>8. (~sigterm \/ link = "sigterm" => stale = 0)'
    BY <2>1, <2>2
  <2> QED
    BY <2>3, <2>4, <2>5, <2>7, <2>8
<1>4. CASE LoopWake
  BY <1>4 DEF LoopWake
<1>5. CASE StatusOnOpen
  BY <1>5, StatusType DEF StatusOnOpen, HandlerRuns, ReadStatus
<1>6. CASE StatusOnClose
  <2>1. recent' \in 0..MaxRecent /\ tooMany' \in BOOLEAN
    BY <1>6, StatusAssumption DEF StatusOnClose
  <2> QED
    BY <1>6, <2>1, StatusType DEF StatusOnClose, HandlerRuns, ReadStatus
<1>7. CASE OnProxy
  <2>1. icmp' \in Verdicts
    BY <1>7 DEF OnProxy, Verdict, Verdicts
  <2> QED
    BY <1>7, <2>1, StatusType DEF OnProxy, HandlerRuns, ReadStatus
<1>8. CASE HandlerEmit
  <2>1. /\ hpc = "emitting" /\ hpc' = "idle" /\ TellStatus(handlerSays)
        /\ UNCHANGED <<ping, icmp, tooMany, recent, sigterm, link, lpc, loopSays, handlerSays, measured>>
    BY <1>8 DEF HandlerEmit
  <2>2. /\ stale' \in 0..3 /\ view' = handlerSays /\ stale' <= stale + 1
        /\ handlerSays = "sigterm" \/ link # "draining" => stale' = stale
    BY <2>1, TellCounts
  <2>3. StatusTypeOK'
    BY <2>1, <2>2
  <2>4. ~HandlerOwes' /\ (LoopOwes' <=> LoopOwes)
    BY <2>1
  <2>5. stale' <= 2 /\ (LoopOwes' => stale' <= 1)
    BY <2>1, <2>2
  <2>7. (CycleTellsItsVerdict /\ DownIsIdle /\ SigtermIsFinal)'
    BY <2>1
  <2>8. (~sigterm \/ link = "sigterm" => stale = 0)'
    BY <2>1, <2>2
  <2> QED
    BY <2>3, <2>4, <2>5, <2>7, <2>8
<1>9. CASE Connect
  BY <1>9 DEF Connect
<1>10. CASE Lose
  BY <1>10 DEF Lose
<1>11. CASE SetSigterm
  BY <1>11 DEF SetSigterm
<1>12. CASE AnnounceSigterm
  <2>1. stale' = stale /\ view' = "sigterm"
    BY <1>12, TellCounts DEF AnnounceSigterm
  <2> QED
    BY <1>12, <2>1 DEF AnnounceSigterm, Statuses
<1>13. CASE Quit
  BY <1>13 DEF Quit
<1>14. CASE Expire
  BY <1>14, StatusAssumption DEF Expire
<1>15. CASE UNCHANGED statusVars
  BY <1>15 DEF statusVars
<1> QED
  BY <1>1, <1>2, <1>3, <1>4, <1>5, <1>6, <1>7, <1>8, <1>9, <1>10, <1>11, <1>12, <1>13, <1>14, <1>15
  DEF StatusNext, LoopStep

THEOREM Inductive == StatusSpec => []IInv
BY InitIInv, NextIInv, PTL DEF StatusSpec

\* Every variable keeps its type; no more disconnects are counted than there were.
THEOREM TypeCorrect == StatusSpec => []StatusTypeOK
<1>1. IInv => StatusTypeOK
  BY DEF IInv
<1> QED
  BY <1>1, Inductive, PTL

\* "ready" is never told on the strength of an earlier cycle (run_status_loop).
THEOREM CycleVerdict == StatusSpec => []CycleTellsItsVerdict
<1>1. IInv => CycleTellsItsVerdict
  BY DEF IInv
<1> QED
  BY <1>1, Inductive, PTL

\* After "sigterm" the API hears at most two statuses that are older.
THEOREM FewStale == StatusSpec => []FewStaleStatuses
<1>1. IInv => FewStaleStatuses
  BY DEF IInv, StatusTypeOK, StaleOrOwed, FewStaleStatuses
<1> QED
  BY <1>1, Inductive, PTL
==============================================================================
