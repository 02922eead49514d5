--------------------------- MODULE Reconnect_proofs ---------------------------
(***************************************************************************)
(* Safety of the reconnect loop for every choice of its delays.            *)
(***************************************************************************)
EXTENDS Reconnect, OperatorTheorems

\* The signal's value is what a handler of this connection reported first.
ValueIsFirst == value = first

\* After the shutdown one connection may still be dialled, and once it has been the
\* loop never gets past its head again.
LateDialIsLast ==
  lateDials = 0 \/ (lateDials = 1 /\ shutdown /\ rpc # "dialing")

\* A connection that has ended has an outcome.
OutcomeKnown == rpc \in {"closing", "ended"} => outcome # "none"

IInv == RunTypeOK /\ ValueIsFirst /\ LateDialIsLast /\ OutcomeKnown

\* The clamped minimum lies between its bounds.
LEMMA LesserTyped ==
  ASSUME NEW a \in Nat, NEW b \in Nat
  PROVE  Lesser(a, b) \in Nat /\ Lesser(a, b) <= b /\ (a <= b => Lesser(a, b) = a)
BY DEF Lesser

\* Doubling and clamping keeps the backoff within its range.
LEMMA BackoffTyped ==
  ASSUME RunTypeOK
  PROVE  next_backoff \in MinDelay..MaxDelay
BY DelayAssumption DEF RunTypeOK, next_backoff, Lesser

\* A reported outcome is one of the six.
LEMMA ClassifyTyped ==
  ASSUME NEW words \in SUBSET Keywords
  PROVE  classify_error(words) \in Outcomes
BY DEF classify_error, Outcomes

\* A handler's report keeps the first one.
LEMMA SignalKeeps ==
  ASSUME RunTypeOK, ValueIsFirst, NEW o \in Outcomes, signal(o)
  PROVE  /\ value' \in Outcomes \cup {"none"}
         /\ permit' \in BOOLEAN
         /\ first' \in Outcomes \cup {"none"}
         /\ ValueIsFirst'
<1>1. value' \in Outcomes \cup {"none"} /\ first' \in Outcomes \cup {"none"} /\ ValueIsFirst'
  BY DEF RunTypeOK, ValueIsFirst, signal
<1>2. permit' \in BOOLEAN
  BY Zenon DEF RunTypeOK, signal
<1>3. QED
  BY <1>1, <1>2

\* Handlers and the signal task keep the invariant.
LEMMA HandlerInv ==
  ASSUME IInv, OnOpen \/ OnClose \/ OnError \/ OnSigkill \/ Terminate
  PROVE  IInv'
<1> USE DEF IInv
<1>1. CASE OnOpen
  <2>1. "Transient" \in Outcomes
    BY DEF Outcomes
  <2>2. CASE signal("Transient")
    BY <1>1, <2>1, <2>2, SignalKeeps DEF OnOpen, RunTypeOK, LateDialIsLast, OutcomeKnown
  <2>3. CASE UNCHANGED <<value, permit, first>>
    BY <1>1, <2>3 DEF OnOpen, RunTypeOK, LateDialIsLast, OutcomeKnown, ValueIsFirst
  <2>4. QED
    BY <1>1, <2>2, <2>3 DEF OnOpen
<1>2. CASE OnClose
  <2>1. "Transient" \in Outcomes
    BY DEF Outcomes
  <2>2. QED
    BY <1>2, <2>1, SignalKeeps DEF OnClose, RunTypeOK, LateDialIsLast, OutcomeKnown
<1>3. CASE OnError
  <2>1. PICK words \in SUBSET Keywords : signal(classify_error(words))
    BY <1>3 DEF OnError
  <2>2. QED
    BY <1>3, <2>1, ClassifyTyped, SignalKeeps DEF OnError, RunTypeOK, LateDialIsLast, OutcomeKnown
<1>4. CASE OnSigkill
  BY <1>4 DEF OnSigkill, RunTypeOK, LateDialIsLast, OutcomeKnown, ValueIsFirst, signalVars, historyVars, RunPcs
<1>5. CASE Terminate
  BY <1>5 DEF Terminate, RunTypeOK, LateDialIsLast, OutcomeKnown, ValueIsFirst, signalVars, historyVars
<1>6. QED
  BY <1>1, <1>2, <1>3, <1>4, <1>5

\* Dialling begins with a fresh signal, and late at most once.
LEMMA DialInv ==
  ASSUME IInv, Dial
  PROVE  IInv'
<1> USE DEF IInv
<1>1. lateDials' = IF shutdown THEN 1 ELSE 0
  BY DEF Dial, RunAt, LateDialIsLast, Lesser
<1>2. RunTypeOK'
  <2>1. permit' \in BOOLEAN /\ opened' \in BOOLEAN /\ shutdown' \in BOOLEAN
    BY DEF Dial, RunTypeOK
  <2>2. lateDials' \in 0..2
    BY <1>1
  <2>3. QED
    BY <2>1, <2>2 DEF Dial, RunAt, RunTypeOK, RunPcs
<1>3. ValueIsFirst' /\ LateDialIsLast' /\ OutcomeKnown'
  BY <1>1 DEF Dial, RunAt, ValueIsFirst, LateDialIsLast, OutcomeKnown, RunTypeOK
<1>4. QED
  BY <1>2, <1>3

\* The delay is drawn within its range.
LEMMA RetryInv ==
  ASSUME IInv, Retry
  PROVE  IInv'
<1> USE DEF IInv
<1>1. outcome \in {"IpLimitOrVpn", "MetadataError", "ServerTerminating", "Transient"}
  BY DEF Retry, RunTypeOK, Outcomes, OutcomeKnown
<1>2. delay' \in 0..MaxDelay \cup {PolicyDelay, MetadataDelay}
  BY <1>1, DelayAssumption DEF Retry, reconnect_delay, RunTypeOK
<1>3. current' \in MinDelay..MaxDelay
  BY BackoffTyped, DelayAssumption DEF Retry, RunTypeOK
<1>4. streak' \in 0..MaxStreak
  BY DelayAssumption DEF Retry, RunTypeOK, Lesser
<1>5. rpc' \in {"check", "sleeping"}
  BY DEF Retry
<1>6. UNCHANGED <<outcome, value, permit, opened, shutdown, first, lateDials>>
  BY DEF Retry, signalVars
<1>7. RunTypeOK'
  BY <1>2, <1>3, <1>4, <1>5, <1>6 DEF RunTypeOK, RunPcs
<1>8. ValueIsFirst' /\ LateDialIsLast' /\ OutcomeKnown'
  BY <1>5, <1>6 DEF ValueIsFirst, LateDialIsLast, OutcomeKnown
<1>9. QED
  BY <1>7, <1>8

\* The other steps of run() keep the invariant.
LEMMA RunInv ==
  ASSUME IInv, RunStep
  PROVE  IInv'
<1> USE DEF IInv, RunTypeOK, ValueIsFirst, LateDialIsLast, OutcomeKnown, RunPcs, RunAt, signalVars, historyVars
<1>1. CASE CheckShutdown
  BY <1>1 DEF CheckShutdown
<1>2. CASE Dial
  BY <1>2, DialInv
<1>3. CASE ConnectFails \/ Connected
  BY <1>3, SMTT(20), ZenonT(20) DEF ConnectFails, Connected, Outcomes
<1>4. CASE SelectShutdown
  BY <1>4 DEF SelectShutdown, Outcomes
<1>5. CASE Notified \/ Disconnect
  BY <1>5 DEF Notified, Disconnect
<1>6. CASE ReadOutcome
  BY <1>6 DEF ReadOutcome
<1>7. CASE Stop
  BY <1>7 DEF Stop
<1>8. CASE Retry
  BY <1>8, RetryInv
<1>9. CASE SleepElapsed \/ SleepInterrupted
  BY <1>9 DEF SleepElapsed, SleepInterrupted
<1>10. QED
  BY <1>1, <1>2, <1>3, <1>4, <1>5, <1>6, <1>7, <1>8, <1>9 DEF RunStep

\* The inductive invariant holds in every reachable state of the loop.
THEOREM Invariance == RunSpec => []IInv
<1>1. ASSUME RunInit PROVE IInv
  <2>1. opened \in BOOLEAN /\ permit \in BOOLEAN /\ shutdown \in BOOLEAN
    BY <1>1 DEF RunInit
  <2>2. current \in MinDelay..MaxDelay /\ delay \in 0..MaxDelay /\ streak \in 0..MaxStreak
    BY <1>1, DelayAssumption DEF RunInit
  <2>3. RunTypeOK
    BY <1>1, <2>1, <2>2 DEF RunInit, RunTypeOK, RunPcs
  <2>4. ValueIsFirst /\ LateDialIsLast /\ OutcomeKnown
    BY <1>1 DEF RunInit, ValueIsFirst, LateDialIsLast, OutcomeKnown
  <2>5. QED
    BY <2>3, <2>4 DEF IInv
<1>2. IInv /\ [RunNext]_runVars => IInv'
  <2>1. ASSUME IInv, UNCHANGED runVars
        PROVE  IInv'
    BY <2>1 DEF IInv, RunTypeOK, ValueIsFirst, LateDialIsLast, OutcomeKnown, runVars, signalVars,
       historyVars
  <2>2. QED
    BY <2>1, HandlerInv, RunInv DEF RunNext
<1>3. QED
  BY <1>1, <1>2, PTL DEF RunSpec

\* Every variable keeps its type: the backoff never leaves MinDelay..MaxDelay, and
\* a delay is one of the backoff's, one of the fixed ones, or none.
THEOREM TypeCorrect == RunSpec => []RunTypeOK
BY Invariance, PTL DEF IInv

\* After the shutdown at most one connection is attempted.
THEOREM LateDials == RunSpec => []AtMostOneLateDial
<1>1. IInv => AtMostOneLateDial
  BY DEF IInv, LateDialIsLast, OutcomeKnown, AtMostOneLateDial
<1>2. QED
  BY <1>1, Invariance, PTL

\* run() acts on the first outcome the handlers of a connection reported.
THEOREM FirstWins == RunSpec => FirstOutcomeWins
<1>1. IInv /\ [RunNext]_runVars
        => [rpc = "waking" /\ rpc' = "closing" /\ outcome' # "CleanShutdown"
              => outcome' = first]_runVars
  <2> SUFFICES ASSUME IInv, [RunNext]_runVars, rpc = "waking", rpc' = "closing",
                      outcome' # "CleanShutdown"
               PROVE  outcome' = first
    OBVIOUS
  <2>1. ReadOutcome
    BY DEF RunNext, RunStep, runVars, CheckShutdown, Dial, ConnectFails, Connected, SelectShutdown,
           Notified, Stop, Retry, SleepElapsed, SleepInterrupted, Disconnect, RunAt,
           OnOpen, OnClose, OnError, OnSigkill, Terminate
  <2>2. QED
    BY <2>1 DEF ReadOutcome, RunAt, IInv, ValueIsFirst
<1>2. QED
  BY <1>1, Invariance, PTL DEF RunSpec, FirstOutcomeWins

------------------------------------------------------------------------------
(* The backoff. *)

\* Doubled is the function that its recursive definition says.
LEMMA DoubledSteps ==
  /\ Doubled \in [Nat -> Nat]
  /\ Doubled[0] = MinDelay
  /\ \A n \in Nat : Doubled[n + 1] = 2 * Doubled[n]
<1> DEFINE D(f) == [n \in Nat |-> IF n = 0 THEN MinDelay ELSE 2 * f[n - 1]]
           double == [p \in Nat \X Nat |-> 2 * p[2]]
<1>1. PICK f : Unfolds(f, Nat, MinDelay, double)
  <2>1. double \in Steps(Nat) /\ MinDelay \in Nat
    BY DelayAssumption DEF Steps
  <2> HIDE DEF double
  <2>2. QED
    BY <2>1, RecursiveFunction
<1>2. f \in [Nat -> Nat] /\ f[0] = MinDelay /\ \A n \in Nat : f[n + 1] = 2 * f[n]
  BY <1>1 DEF Unfolds
<1>3. f = D(f)
  <2>1. ASSUME NEW n \in Nat PROVE f[n] = IF n = 0 THEN MinDelay ELSE 2 * f[n - 1]
    <3>1. CASE n = 0
      BY <1>2, <3>1
    <3>2. CASE n # 0
      <4>1. n - 1 \in Nat /\ (n - 1) + 1 = n
        BY <3>2
      <4>2. QED
        BY <1>2, <3>2, <4>1
    <3>3. QED
      BY <3>1, <3>2
  <2>2. QED
    BY <1>2, <2>1
<1>4. Doubled = D(Doubled)
  BY <1>3 DEF Doubled
<1>5. ASSUME NEW n \in Nat PROVE Doubled[n + 1] = 2 * Doubled[n]
  <2>1. n + 1 \in Nat /\ n + 1 # 0 /\ (n + 1) - 1 = n
    OBVIOUS
  <2>2. QED
    BY <1>4, <2>1
<1>6. Doubled[0] = MinDelay
  BY <1>4
<1>7. \A n \in Nat : Doubled[n] \in Nat
  <2> DEFINE S == {n \in Nat : Doubled[n] \in Nat}
  <2>1. 0 \in S
    BY <1>6, DelayAssumption
  <2>2. \A n \in Nat : n \in S => n + 1 \in S
    BY <1>5
  <2> HIDE DEF S
  <2>3. \A n \in Nat : n \in S
    BY <2>1, <2>2, SetInduction
  <2>4. QED
    BY <2>3 DEF S
<1>8. Doubled \in [Nat -> Nat]
  BY <1>4, <1>7
<1>9. QED
  BY <1>5, <1>6, <1>8

\* The backoff is MinDelay doubled for each failed attempt in a row, clamped.
BackoffIsDoubled == current = Lesser(Doubled[streak], MaxDelay)

\* A failed attempt more doubles it once more, up to the maximum, where it stays.
LEMMA NextBackoff ==
  ASSUME RunTypeOK, BackoffIsDoubled
  PROVE  next_backoff = Lesser(Doubled[Lesser(streak + 1, MaxStreak)], MaxDelay)
<1>1. /\ streak \in Nat /\ streak <= MaxStreak /\ MaxStreak \in Nat /\ MaxDelay \in Nat
      /\ Doubled[streak] \in Nat /\ Doubled[streak + 1] = 2 * Doubled[streak]
      /\ Doubled[MaxStreak] \in Nat /\ Doubled[MaxStreak] >= MaxDelay
  BY DoubledSteps, DelayAssumption, StreakAssumption DEF RunTypeOK
<1>2. CASE Doubled[streak] < MaxDelay
  <2>1. current = Doubled[streak]
    BY <1>1, <1>2 DEF BackoffIsDoubled, Lesser
  <2>2. streak + 1 <= MaxStreak /\ Lesser(streak + 1, MaxStreak) = streak + 1
    BY <1>1, <1>2 DEF Lesser
  <2>3. current * 2 = Doubled[streak + 1]
    BY <1>1, <2>1
  <2>4. QED
    BY <2>2, <2>3 DEF next_backoff
<1>3. CASE ~ (Doubled[streak] < MaxDelay)
  <2>1. current = MaxDelay
    BY <1>3 DEF BackoffIsDoubled, Lesser
  <2>2. next_backoff = MaxDelay
    BY <1>1, <2>1 DEF next_backoff, Lesser
  <2>3. ~ (Doubled[Lesser(streak + 1, MaxStreak)] < MaxDelay)
    <3>1. CASE streak + 1 < MaxStreak
      <4>1. Lesser(streak + 1, MaxStreak) = streak + 1
        BY <3>1 DEF Lesser
      <4>2. QED
        BY <1>1, <1>3, <4>1
    <3>2. CASE ~ (streak + 1 < MaxStreak)
      <4>1. Lesser(streak + 1, MaxStreak) = MaxStreak
        BY <3>2 DEF Lesser
      <4>2. QED
        BY <1>1, <4>1
    <3>3. QED
      BY <3>1, <3>2
  <2>4. QED
    BY <2>2, <2>3 DEF Lesser
<1>4. QED
  BY <1>2, <1>3

\* Only Retry moves the backoff and the streak, and it moves them together.
LEMMA BackoffInv ==
  ASSUME RunTypeOK, BackoffIsDoubled, [RunNext]_runVars
  PROVE  BackoffIsDoubled'
<1>1. CASE Retry
  <2>1. CASE resets
    <3>1. current' = MinDelay /\ streak' = 0
      BY <1>1, <2>1 DEF Retry, resets
    <3>2. QED
      BY <3>1, DoubledSteps, DelayAssumption DEF BackoffIsDoubled, Lesser
  <2>2. CASE ~resets
    <3>1. outcome = "Transient" /\ ~opened
      BY <2>2 DEF resets
    <3>2. current' = next_backoff /\ streak' = Lesser(streak + 1, MaxStreak)
      BY <1>1, <2>2, <3>1 DEF Retry
    <3>3. QED
      BY <3>2, NextBackoff DEF BackoffIsDoubled, Lesser
  <2>3. QED
    BY <2>1, <2>2
<1>2. CASE ~Retry
  <2>1. UNCHANGED <<current, streak>>
    BY <1>2 DEF RunNext, RunStep, runVars, CheckShutdown, Dial, ConnectFails, Connected, SelectShutdown,
       Notified, ReadOutcome, Disconnect, Stop, SleepElapsed, SleepInterrupted,
       OnOpen, OnClose, OnError, OnSigkill, Terminate, historyVars
  <2>2. QED
    BY <2>1 DEF BackoffIsDoubled, Lesser
<1>3. QED
  BY <1>1, <1>2

\* The wait after a transient outcome is MinDelay doubled for each attempt that failed
\* in a row before it, up to MaxDelay (ExponentialBackoff, run), for any delays and
\* any length of the streak.
THEOREM BackoffIsExponential == RunSpec => BackoffFollowsStreak
<1>1. RunInit => BackoffIsDoubled
  BY DoubledSteps, DelayAssumption DEF RunInit, BackoffIsDoubled, Lesser
<1>2. RunTypeOK /\ BackoffIsDoubled /\ [RunNext]_runVars => BackoffIsDoubled'
  BY BackoffInv
<1>3. BackoffIsDoubled /\ [RunNext]_runVars
        => [rpc = "ended" /\ rpc' = "sleeping" /\ outcome = "Transient"
              => delay' = Lesser(Doubled[streak], MaxDelay)]_runVars
  <2> SUFFICES ASSUME BackoffIsDoubled, [RunNext]_runVars, rpc = "ended", rpc' = "sleeping",
                      outcome = "Transient"
               PROVE  delay' = Lesser(Doubled[streak], MaxDelay)
    OBVIOUS
  <2>1. Retry
    BY DEF RunNext, RunStep, runVars, CheckShutdown, Dial, ConnectFails, Connected, SelectShutdown,
           Notified, ReadOutcome, Disconnect, Stop, SleepElapsed, SleepInterrupted, RunAt,
           OnOpen, OnClose, OnError, OnSigkill, Terminate
  <2>2. delay' = current
    BY <2>1 DEF Retry, reconnect_delay
  <2>3. QED
    BY <2>2 DEF BackoffIsDoubled
<1>4. QED
  BY <1>1, <1>2, <1>3, TypeCorrect, PTL DEF RunSpec, BackoffFollowsStreak
===============================================================================
