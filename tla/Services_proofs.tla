---------------------------- MODULE Services_proofs ----------------------------
(***************************************************************************)
(* Safety of the services beside the measurements: of the logs, of the     *)
(* identity and of the alternative addresses by themselves, of each in     *)
(* their composition (Services), and of the progress buffer.               *)
(***************************************************************************)
EXTENDS Services, OperatorTheorems, FiniteSetTheorems, SequenceTheorems, TLAPS

------------------------------------------------------------------------------
(* The logs. *)

\* The buffer holds the last entries pushed, one after the other.
Contiguous ==
  \A i \in 1..Len(entries) : entries[i] = pushed - Len(entries) + i

\* A payload on its way is not empty; between emits there is none.
PayloadOnlyInEmit ==
  IF loop = "emitting" THEN Len(payload.logs) > 0 ELSE payload = Nothing

\* A payload sent after the API switched the logs off was taken before: there is
\* no other one on its way, and none can be taken.
LateIsTheLast ==
  late \in {0, 1} /\ (active \/ loop = "emitting" => late = 0)

IInv ==
  /\ TypeOK
  /\ Accounted
  /\ SkippedIsExact
  /\ Contiguous
  /\ PayloadOnlyInEmit
  /\ LateIsTheLast

\* A payload stands for a natural number of entries, none if it is empty.
LEMMA WeightType ==
  /\ \A p \in Payloads : Weight(p) \in Nat
  /\ Weight(Nothing) = 0
  /\ Nothing \in Payloads
BY DEF Weight, Payloads, Nothing, Entry

\* push() removes at most what there is, and leaves the entries contiguous.
LEMMA TrimmedBuffer ==
  ASSUME TypeOK, Accounted, Contiguous,
         NEW kept, kept = SubSeq(Append(entries, pushed + 1), Overflow + 1, Len(entries) + 1)
  PROVE  /\ Overflow \in Nat
         /\ kept \in Seq(Entry)
         /\ Len(kept) = Len(entries) + 1 - Overflow
         /\ \A i \in 1..Len(kept) : kept[i] = pushed + 1 - Len(kept) + i
PROOF
<1> DEFINE all == Append(entries, pushed + 1)
<1>1. Overflow \in Nat /\ Overflow <= Len(entries) + 1
  BY DEF Overflow, TypeOK, Entry
<1>2. all \in Seq(Entry) /\ Len(all) = Len(entries) + 1
  BY DEF TypeOK, Entry
<1>3. \A i \in 1..Len(all) : all[i] = pushed - Len(entries) + i
  <2> SUFFICES ASSUME NEW i \in 1..Len(all)
               PROVE  all[i] = pushed - Len(entries) + i
    OBVIOUS
  <2>0. entries \in Seq(Entry) /\ Len(entries) \in Nat /\ pushed \in Nat
    BY DEF TypeOK
  <2>1. CASE i <= Len(entries)
    <3>1. i \in 1..Len(entries) /\ all[i] = entries[i]
      BY <1>2, <2>0, <2>1
    <3> QED
      BY <3>1 DEF Contiguous
  <2>2. CASE i = Len(entries) + 1
    <3>1. all[i] = pushed + 1
      BY <2>0, <2>2
    <3> QED
      BY <2>0, <2>2, <3>1
  <2> QED
    BY <1>2, <2>0, <2>1, <2>2
<1>4. Len(kept) = Len(entries) + 1 - Overflow
  BY <1>1, <1>2 DEF Entry
<1>5. \A i \in 1..Len(kept) : kept[i] = all[Overflow + i]
  BY <1>1, <1>2, <1>4 DEF Entry
<1>6. kept \in Seq(Entry)
  BY <1>1, <1>2 DEF Entry
<1>7. \A i \in 1..Len(kept) : kept[i] = pushed + 1 - Len(kept) + i
  <2> SUFFICES ASSUME NEW i \in 1..Len(kept)
               PROVE  kept[i] = pushed + 1 - Len(kept) + i
    OBVIOUS
  <2>1. Overflow + i \in 1..Len(all)
    BY <1>1, <1>2, <1>4
  <2>2. kept[i] = pushed - Len(entries) + (Overflow + i)
    BY <1>3, <1>5, <2>1
  <2>3. Len(entries) \in Nat /\ pushed \in Nat /\ i \in Nat
    BY <1>1, <1>4 DEF TypeOK
  <2>4. pushed - Len(entries) + (Overflow + i) = pushed + 1 - Len(kept) + i
    <3> DEFINE buffered == Len(entries)
               left     == Len(kept)
    <3>1. /\ buffered \in Nat /\ left \in Nat /\ Overflow \in Nat
          /\ left = buffered + 1 - Overflow
      BY <1>1, <1>4, <2>3
    <3> HIDE DEF buffered, left
    <3>2. pushed - buffered + (Overflow + i) = pushed + 1 - left + i
      BY <2>3, <3>1
    <3> QED
      BY <3>2 DEF buffered, left
  <2> HIDE DEF all
  <2> QED
    BY <2>2, <2>4, Zenon
<1> QED
  BY <1>1, <1>4, <1>6, <1>7

LEMMA InitEstablishesIInv == Init => IInv
PROOF
<1> SUFFICES ASSUME Init PROVE IInv
  OBVIOUS
<1> USE DEF Init
<1>1. TypeOK
  <2>1. entries \in Seq(Entry)
    OBVIOUS
  <2> QED
    BY <2>1, WeightType, SizesAssumption DEF TypeOK
<1>2. Accounted
  BY WeightType DEF Accounted
<1>3. SkippedIsExact /\ PayloadOnlyInEmit /\ LateIsTheLast
  BY DEF SkippedIsExact, PayloadOnlyInEmit, LateIsTheLast
<1>4. Contiguous
  BY DEF Contiguous
<1> QED
  BY <1>1, <1>2, <1>3, <1>4 DEF IInv

\* A log call: what the buffer loses, dropped gains.
LEMMA PushKeepsIInv == IInv /\ Push => IInv'
PROOF
<1> SUFFICES ASSUME IInv, Push PROVE IInv'
  OBVIOUS
<1> USE DEF IInv, Push, settingVars, loopVars, history
<1>1. /\ Overflow \in Nat
      /\ entries' \in Seq(Entry)
      /\ Len(entries') = Len(entries) + 1 - Overflow
      /\ \A i \in 1..Len(entries') : entries'[i] = pushed + 1 - Len(entries') + i
  BY TrimmedBuffer
<1>2. TypeOK'
  BY <1>1 DEF TypeOK
<1>3. Accounted'
  <2>1. Weight(payload) \in Nat /\ Weight(payload)' = Weight(payload)
    BY WeightType DEF TypeOK, Weight
  <2>2. Len(entries) \in Nat
    BY DEF TypeOK
  <2> QED
    BY <1>1, <2>1, <2>2, SMTT(20), ZenonT(20) DEF Accounted, TypeOK
<1>4. Contiguous'
  <2> SUFFICES ASSUME NEW i \in 1..Len(entries')
               PROVE  entries'[i] = pushed' - Len(entries') + i
    BY DEF Contiguous
  <2>1. entries'[i] = pushed + 1 - Len(entries') + i
    BY <1>1
  <2>2. pushed' = pushed + 1 /\ pushed \in Nat /\ Len(entries') \in Nat /\ i \in Nat
    BY <1>2 DEF TypeOK
  <2> HIDE DEF Push, IInv
  <2> QED
    BY <2>1, <2>2
<1>5. SkippedIsExact' /\ PayloadOnlyInEmit' /\ LateIsTheLast'
  BY DEF SkippedIsExact, PayloadOnlyInEmit, LateIsTheLast
<1> QED
  BY <1>2, <1>3, <1>4, <1>5

\* The settings change nothing of what is counted.
LEMMA UpdateKeepsIInv == IInv /\ Update => IInv'
PROOF
<1> SUFFICES ASSUME IInv,
                    NEW isActive \in BOOLEAN, NEW bufferSize \in Sizes \cup {size},
                    active' = isActive, size' = bufferSize,
                    late' = IF isActive THEN 0 ELSE late,
                    UNCHANGED <<bufferVars, loopVars, pushed, told, lost>>
             PROVE  IInv'
  BY DEF Update
<1> USE DEF IInv, bufferVars, loopVars
<1>1. TypeOK'
  BY SizesAssumption DEF TypeOK
<1>2. Accounted' /\ SkippedIsExact' /\ Contiguous' /\ PayloadOnlyInEmit'
  BY DEF Accounted, SkippedIsExact, Contiguous, PayloadOnlyInEmit, Weight
<1>3. LateIsTheLast'
  BY DEF LateIsTheLast
<1> QED
  BY <1>1, <1>2, <1>3

LEMMA StartLoopKeepsIInv == IInv /\ StartLoop => IInv'
BY DEF IInv, StartLoop, bufferVars, settingVars, history, TypeOK, Accounted,
       SkippedIsExact, Contiguous, PayloadOnlyInEmit, LateIsTheLast, Weight

\* take(): the first entry taken follows all those accounted for elsewhere, of
\* which the ones dropped since the last take() are in skipped.
LEMMA TakeKeepsIInv == IInv /\ Take => IInv'
PROOF
<1> SUFFICES ASSUME IInv, Take PROVE IInv'
  OBVIOUS
<1> USE DEF IInv, Take, settingVars, history
<1>1. Len(entries) \in Nat /\ Len(entries) > 0 /\ Head(entries) = entries[1]
  BY DEF TypeOK
<1>2. payload = Nothing /\ Weight(payload) = 0
  BY WeightType DEF PayloadOnlyInEmit
<1>3. pushed = told + lost + dropped + Len(entries)
  BY <1>2 DEF Accounted, TypeOK
<1>4. payload' \in Payloads /\ Weight(payload)' = Len(entries) + dropped
  BY DEF TypeOK, Payloads, Weight
<1>5. entries' \in Seq(Entry) /\ Len(entries') = 0
  BY DEF Entry
<1>6. TypeOK'
  BY <1>4, <1>5 DEF TypeOK
<1>7. Accounted'
  BY <1>1, <1>3, <1>4, <1>5 DEF Accounted, TypeOK
<1>8. SkippedIsExact'
  <2>1. entries[1] = pushed - Len(entries) + 1
    BY <1>1 DEF Contiguous
  <2> QED
    BY <1>1, <1>3, <2>1 DEF SkippedIsExact, TypeOK
<1>9. Contiguous' /\ PayloadOnlyInEmit' /\ LateIsTheLast'
  BY <1>1, <1>5 DEF Contiguous, PayloadOnlyInEmit, LateIsTheLast
<1> QED
  BY <1>6, <1>7, <1>8, <1>9

\* However an emit ends, what the payload stood for is told or lost.
LEMMA EmitKeepsIInv == IInv /\ (Send \/ SendFails \/ AbortLoop) => IInv'
PROOF
<1> SUFFICES ASSUME IInv, Send \/ SendFails \/ AbortLoop PROVE IInv'
  OBVIOUS
<1> USE DEF IInv, bufferVars, settingVars
<1>1. Weight(payload) \in Nat /\ Weight(payload') = 0 /\ payload' = Nothing
  BY WeightType DEF TypeOK, Send, SendFails, AbortLoop
<1>2. Len(entries) \in Nat
  BY DEF TypeOK
<1>3. CASE Send
  <2>1. late' \in {0, 1} /\ loop' = "asleep" /\ (active => late' = 0)
    BY <1>3 DEF Send, LateIsTheLast
  <2>2. TypeOK'
    BY <1>1, <1>3, <2>1, WeightType DEF Send, TypeOK
  <2>3. Accounted'
    BY <1>1, <1>2, <1>3 DEF Send, Accounted, TypeOK
  <2>4. SkippedIsExact' /\ Contiguous' /\ PayloadOnlyInEmit' /\ LateIsTheLast'
    BY <1>1, <1>3, <2>1
    DEF Send, SkippedIsExact, Contiguous, PayloadOnlyInEmit, LateIsTheLast
  <2> QED
    BY <2>2, <2>3, <2>4
<1>4. CASE SendFails \/ AbortLoop
  <2>1. loop' \in {"none", "asleep"}
    BY <1>4 DEF SendFails, AbortLoop
  <2>2. TypeOK'
    BY <1>1, <1>4, <2>1, WeightType DEF SendFails, AbortLoop, TypeOK
  <2>3. Accounted'
    BY <1>1, <1>2, <1>4 DEF SendFails, AbortLoop, Accounted, TypeOK
  <2>4. SkippedIsExact' /\ Contiguous' /\ PayloadOnlyInEmit' /\ LateIsTheLast'
    BY <1>1, <1>4, <2>1
    DEF SendFails, AbortLoop, SkippedIsExact, Contiguous, PayloadOnlyInEmit, LateIsTheLast
  <2> QED
    BY <2>2, <2>3, <2>4
<1> QED
  BY <1>3, <1>4

LEMMA StutterKeepsIInv == IInv /\ UNCHANGED vars => IInv'
BY DEF IInv, vars, bufferVars, settingVars, loopVars, history, TypeOK, Accounted,
       SkippedIsExact, Contiguous, PayloadOnlyInEmit, LateIsTheLast, Weight

\* Every step of the transport keeps the inductive invariant.
LEMMA StepKeepsIInv == IInv /\ [Next]_vars => IInv'
BY PushKeepsIInv, UpdateKeepsIInv, StartLoopKeepsIInv, TakeKeepsIInv,
   EmitKeepsIInv, StutterKeepsIInv DEF Next, Flush, TakeNone

\* The inductive invariant of the transport.
THEOREM Invariance == Spec => []IInv
BY InitEstablishesIInv, StepKeepsIInv, PTL DEF Spec

\* The transport's variables keep their types.
THEOREM TypeCorrect == Spec => []TypeOK
BY Invariance, PTL DEF IInv

\* Whatever the API sets the size to, and whenever a connection ends, every entry
\* pushed is told, lost, on its way, dropped or buffered.
THEOREM EveryEntryAccounted == Spec => []Accounted
BY Invariance, PTL DEF IInv

\* The count of skipped entries in a payload is the gap the API sees, but for
\* payloads that were lost.
THEOREM SkippedCount == Spec => []SkippedIsExact
BY Invariance, PTL DEF IInv

\* At most one payload arrives after the API has switched the logs off.
THEOREM LatePayloads == Spec => []AtMostOneLate
PROOF
<1>1. IInv => AtMostOneLate
  BY DEF IInv, LateIsTheLast, AtMostOneLate
<1> QED
  BY <1>1, Invariance, PTL

------------------------------------------------------------------------------
(* The identity. *)

Contents == [of : Nat, part : {"absent", "empty", "half", "whole"}]

IdentityTypes ==
  /\ disk \in [Paths -> Contents]
  /\ step \in {"down", "read", "truncate", "write", "up", "told"}
  /\ path \in Paths \cup {"none"}
  /\ step # "down" => path \in Paths
  /\ identity \in Contents
  /\ fresh \in Nat /\ troubles \in Nat
  /\ identities \subseteq Contents /\ IsFiniteSet(identities)

\* The identities there are have numbers up to fresh; one that is being written
\* is newer than any the API knows.
Numbered ==
  /\ identity.of <= fresh
  /\ \A p \in Paths : disk[p].of <= fresh
  /\ \A c \in identities : c.of # 0 /\ c.of <= fresh
  /\ step \in {"truncate", "write"} =>
       identity = Whole(fresh) /\ fresh # 0 /\ \A c \in identities : c.of < fresh
  /\ step \in {"up", "told"} => identity.of # 0
  /\ path = "none" => identities = {}

\* What the API will be told next, unless something goes wrong or the file is
\* found empty.
Pending == IF step \in {"down", "read"} THEN disk[path] ELSE identity

\* A new identity has been paid for with a trouble before the API is told: when
\* it is pending, or when it is in use but not what the file holds.
PaidFor ==
  /\ Cardinality(identities) <= 1 + troubles
  /\ path \in Paths /\ Pending \notin identities => Cardinality(identities) <= troubles
  /\ step \in {"up", "told"} /\ disk[path] # identity =>
       Cardinality(identities \cup {identity}) <= troubles

IdentityIInv == IdentityTypes /\ Numbered /\ PaidFor

\* The cardinality of a set with one element more.
LEMMA OneMore ==
  ASSUME NEW S, IsFiniteSet(S), NEW x
  PROVE  /\ Cardinality(S) \in Nat
         /\ IsFiniteSet(S \cup {x}) /\ Cardinality(S \cup {x}) \in Nat
         /\ x \in S => Cardinality(S \cup {x}) = Cardinality(S)
         /\ x \notin S => Cardinality(S \cup {x}) = Cardinality(S) + 1
BY FS_AddElement, FS_CardinalityType

LEMMA IdentityInitInv == IdentityInit => IdentityIInv
PROOF
<1> SUFFICES ASSUME IdentityInit PROVE IdentityIInv
  OBVIOUS
<1>1. IsFiniteSet(identities) /\ Cardinality(identities) = 0
  BY FS_EmptySet DEF IdentityInit
<1>2. IdentityTypes
  BY <1>1 DEF IdentityInit, IdentityTypes, Contents, Absent, NoId, Paths
<1>3. Numbered
  BY DEF IdentityInit, Numbered, Absent, NoId, Paths
<1>4. PaidFor
  BY <1>1 DEF IdentityInit, PaidFor, Paths
<1> QED
  BY <1>2, <1>3, <1>4 DEF IdentityIInv

\* A start leaves what is pending as it is, or has moved to another path.
LEMMA IdentityStartInv ==
  ASSUME IdentityIInv, NEW root \in BOOLEAN, resolve_uuid_path(root)
  PROVE  IdentityIInv'
PROOF
<1> DEFINE p == IF root THEN Root ELSE CHOOSE q \in Paths : q # Root
           left == IF disk[Root] = Absent THEN Empty ELSE disk[Root]
<1>1. p \in Paths /\ Root \in Paths /\ "none" \notin Paths
  BY DEF Paths, Root
<1>2. /\ step = "down" /\ step' = "read" /\ path' = p
      /\ disk' = IF root THEN [disk EXCEPT ![Root] = left] ELSE disk
      /\ troubles' = IF path \notin {"none", p} THEN troubles + 1 ELSE troubles
      /\ UNCHANGED <<identity, fresh, identities>>
  BY DEF resolve_uuid_path, StartWith
<1>3. disk \in [Paths -> Contents] /\ troubles \in Nat /\ fresh \in Nat
  BY DEF IdentityIInv, IdentityTypes
<1>4. left \in Contents /\ left.of = disk[Root].of
  BY <1>1, <1>3 DEF Contents, Absent, Empty
<1>5. /\ disk' \in [Paths -> Contents] /\ \A q \in Paths : disk'[q].of = disk[q].of
      /\ \A q \in Paths : disk'[q] # disk[q] => disk[q].of = 0
  BY <1>1, <1>2, <1>3, <1>4 DEF Absent
<1>6. IdentityTypes'
  BY <1>1, <1>2, <1>3, <1>5 DEF IdentityIInv, IdentityTypes
<1>7. Numbered'
  BY <1>1, <1>2, <1>5 DEF IdentityIInv, Numbered
<1>8. Cardinality(identities) \in Nat /\ Cardinality({}) = 0
  BY FS_CardinalityType, FS_EmptySet DEF IdentityIInv, IdentityTypes
<1>9. PaidFor'
  <2>1. CASE path \notin {"none", p}
    BY <1>1, <1>2, <1>3, <1>8, <2>1 DEF IdentityIInv, PaidFor
  <2>2. CASE path = "none"
    <3>1. identities' = {} /\ Cardinality(identities') = 0 /\ troubles' = troubles
      BY <1>1, <1>2, <1>8, <2>2 DEF IdentityIInv, Numbered
    <3> QED
      BY <1>2, <1>3, <3>1 DEF PaidFor
  <2>3. CASE path = p
    <3>1. Pending = disk[p] /\ Pending' = disk'[p]
      BY <1>2, <2>3 DEF Pending
    <3>2. Pending' \notin identities => Pending \notin identities
      BY <1>1, <1>5, <3>1 DEF IdentityIInv, Numbered
    <3> QED
      BY <1>1, <1>2, <2>3, <3>2 DEF IdentityIInv, PaidFor
  <2> QED
    BY <2>1, <2>2, <2>3
<1> QED
  BY <1>6, <1>7, <1>9 DEF IdentityIInv

\* A new identity is one the API does not know.
LEMMA IdentityGenerateInv ==
  ASSUME IdentityIInv, step = "read", Generate, Cardinality(identities) <= troubles',
         troubles' \in Nat, UNCHANGED <<disk, path, identities>>
  PROVE  IdentityIInv'
PROOF
<1>1. /\ fresh' = fresh + 1 /\ identity' = Whole(fresh + 1) /\ step' = "truncate"
      /\ fresh \in Nat
  BY DEF Generate, IdentityIInv, IdentityTypes
<1>2. IdentityTypes'
  BY <1>1 DEF IdentityIInv, IdentityTypes, Contents, Whole
<1>3. Numbered'
  <2>1. \A c \in identities : c.of \in Nat /\ c.of # 0 /\ c.of <= fresh
    BY DEF IdentityIInv, IdentityTypes, Numbered, Contents
  <2>2. \A q \in Paths : disk[q].of \in Nat /\ disk[q].of <= fresh
    BY DEF IdentityIInv, IdentityTypes, Numbered, Contents
  <2>3. identity'.of = fresh + 1 /\ path \in Paths /\ "none" \notin Paths
    BY <1>1 DEF Whole, IdentityIInv, IdentityTypes, Paths
  <2> QED
    BY <1>1, <2>1, <2>2, <2>3 DEF Numbered
<1>4. Cardinality(identities) \in Nat
  BY FS_CardinalityType DEF IdentityIInv, IdentityTypes
<1>5. PaidFor'
  BY <1>1, <1>4 DEF PaidFor
<1> QED
  BY <1>2, <1>3, <1>5 DEF IdentityIInv

LEMMA IdentityNextInv == IdentityIInv /\ [IdentityNext]_identityVars => IdentityIInv'
PROOF
<1> SUFFICES ASSUME IdentityIInv, [IdentityNext]_identityVars PROVE IdentityIInv'
  OBVIOUS
<1> DEFINE count == Cardinality(identities)
<1>0. /\ count \in Nat /\ troubles \in Nat /\ fresh \in Nat /\ "none" \notin Paths
      /\ \A p \in Paths : disk[p] \in Contents /\ disk[p].of \in Nat
      /\ Absent \in Contents /\ Absent.of = 0 /\ Empty \in Contents /\ Empty.of = 0
      /\ \A n \in Nat : Half(n) \in Contents /\ Half(n).of = n
      /\ \A n \in Nat : Whole(n) \in Contents /\ Whole(n).of = n
      /\ identity.of \in Nat
  BY FS_CardinalityType DEF IdentityIInv, IdentityTypes, Paths, Contents, Absent, Empty, Half, Whole
<1>1. ASSUME NEW root \in BOOLEAN, resolve_uuid_path(root) PROVE IdentityIInv'
  BY <1>1, IdentityStartInv
<1>2. CASE load_or_create
  <2>1. CASE disk[path].of # 0
    <3>1. /\ step = "read" /\ step' = "up" /\ identity' = disk[path] /\ path \in Paths
          /\ UNCHANGED <<disk, path, fresh, identities, troubles>>
      BY <1>2, <2>1 DEF load_or_create, IdentityIInv, IdentityTypes
    <3>2. IdentityTypes' /\ Numbered'
      BY <1>0, <2>1, <3>1 DEF IdentityIInv, IdentityTypes, Numbered
    <3>3. PaidFor'
      BY <3>1 DEF IdentityIInv, PaidFor, Pending
    <3> QED
      BY <3>2, <3>3 DEF IdentityIInv
  <2>2. CASE disk[path].of = 0
    <3>1. /\ step = "read" /\ path \in Paths /\ Generate
          /\ UNCHANGED <<disk, path, identities, troubles>>
      BY <1>2, <2>2 DEF load_or_create, IdentityIInv, IdentityTypes
    <3>2. Pending \notin identities
      BY <2>2, <3>1 DEF IdentityIInv, Numbered, Pending
    <3>3. Cardinality(identities) <= troubles'
      BY <3>1, <3>2 DEF IdentityIInv, PaidFor
    <3> QED
      BY <1>0, <3>1, <3>3, IdentityGenerateInv
  <2> QED
    BY <2>1, <2>2
<1>3. CASE ReadFails
  <2>1. /\ step = "read" /\ Generate /\ troubles' = troubles + 1
        /\ UNCHANGED <<disk, path, identities>>
    BY <1>3 DEF ReadFails
  <2>2. count <= troubles'
    BY <1>0, <2>1 DEF IdentityIInv, PaidFor
  <2> QED
    BY <1>0, <2>1, <2>2, IdentityGenerateInv
<1>4. CASE Truncate
  <2>1. /\ step = "truncate" /\ step' = "write" /\ disk' = [disk EXCEPT ![path] = Empty]
        /\ path \in Paths /\ UNCHANGED <<path, identity, fresh, identities, troubles>>
    BY <1>4 DEF Truncate, IdentityIInv, IdentityTypes
  <2>2. IdentityTypes' /\ Numbered'
    BY <1>0, <2>1 DEF IdentityIInv, IdentityTypes, Numbered
  <2>3. PaidFor'
    BY <2>1 DEF IdentityIInv, PaidFor, Pending
  <2> QED
    BY <2>2, <2>3 DEF IdentityIInv
<1>5. CASE Write
  <2>1. /\ step = "write" /\ step' = "up" /\ disk' = [disk EXCEPT ![path] = identity]
        /\ path \in Paths /\ UNCHANGED <<path, identity, fresh, identities, troubles>>
    BY <1>5 DEF Write, IdentityIInv, IdentityTypes
  <2>2. identity.of # 0
    BY <1>0, <2>1 DEF IdentityIInv, Numbered
  <2>3. IdentityTypes' /\ Numbered'
    BY <1>0, <2>1, <2>2 DEF IdentityIInv, IdentityTypes, Numbered
  <2>4. disk'[path'] = identity'
    BY <2>1 DEF IdentityIInv, IdentityTypes
  <2>5. PaidFor'
    BY <2>1, <2>4 DEF IdentityIInv, PaidFor, Pending
  <2> QED
    BY <2>3, <2>5 DEF IdentityIInv
<1>6. CASE WriteFails
  <2>1. /\ step \in {"truncate", "write"} /\ step' = "up" /\ troubles' = troubles + 1
        /\ disk' \in {disk, [disk EXCEPT ![path] = Half(identity.of)]}
        /\ path \in Paths /\ UNCHANGED <<path, identity, fresh, identities>>
    BY <1>6 DEF WriteFails, IdentityIInv, IdentityTypes
  <2>2. identity.of # 0 /\ identity.of <= fresh /\ identity \notin identities
    BY <1>0, <2>1 DEF IdentityIInv, Numbered
  <2>3. IdentityTypes' /\ Numbered'
    BY <1>0, <2>1, <2>2 DEF IdentityIInv, IdentityTypes, Numbered
  <2>4. count <= troubles
    BY <2>1, <2>2 DEF IdentityIInv, PaidFor, Pending
  <2>5. Cardinality(identities \cup {identity}) = count + 1
    BY <2>2, OneMore DEF IdentityIInv, IdentityTypes
  <2>6. PaidFor'
    BY <1>0, <2>1, <2>4, <2>5 DEF PaidFor
  <2> QED
    BY <2>3, <2>6 DEF IdentityIInv
<1>7. CASE Tell
  <2>1. /\ step = "up" /\ step' = "told" /\ identities' = identities \cup {identity}
        /\ path \in Paths /\ UNCHANGED <<disk, path, identity, fresh, troubles>>
    BY <1>7 DEF Tell, IdentityIInv, IdentityTypes
  <2>2. /\ IsFiniteSet(identities') /\ Cardinality(identities') \in Nat
        /\ identity \in identities => Cardinality(identities') = count
        /\ identity \notin identities => Cardinality(identities') = count + 1
    BY <2>1, OneMore DEF IdentityIInv, IdentityTypes
  <2>3. IdentityTypes' /\ Numbered'
    BY <1>0, <2>1, <2>2 DEF IdentityIInv, IdentityTypes, Numbered
  <2>4. identity \notin identities => count <= troubles
    BY <2>1 DEF IdentityIInv, PaidFor, Pending
  <2>5. Cardinality(identities') <= 1 + troubles
    BY <1>0, <2>2, <2>4 DEF IdentityIInv, PaidFor
  <2>6. Pending' \in identities' /\ identities' \cup {identity'} = identities \cup {identity}
    BY <2>1 DEF Pending
  <2>7. PaidFor'
    BY <2>1, <2>5, <2>6 DEF IdentityIInv, PaidFor
  <2> QED
    BY <2>3, <2>7 DEF IdentityIInv
<1>8. CASE Kill
  <2>1. /\ step # "down" /\ step' = "down" /\ identity' = NoId
        /\ path \in Paths /\ UNCHANGED <<path, fresh, identities>>
        /\ IF step = "write"
           THEN /\ troubles' = troubles + 1
                /\ disk' \in {disk, [disk EXCEPT ![path] = Half(identity.of)]}
           ELSE UNCHANGED <<troubles, disk>>
    BY <1>8 DEF Kill, IdentityIInv, IdentityTypes
  <2>2. IdentityTypes' /\ Numbered'
    BY <1>0, <2>1 DEF IdentityIInv, IdentityTypes, Numbered, NoId
  <2>3. count <= 1 + troubles' /\ (Pending' \notin identities => count <= troubles')
    <3>1. CASE step = "write"
      BY <1>0, <2>1, <3>1 DEF IdentityIInv, PaidFor
    <3>2. CASE step = "read"
      BY <2>1, <3>2 DEF IdentityIInv, PaidFor, Pending
    <3>3. CASE step = "truncate"
      <4>1. identity \notin identities
        BY <1>0, <3>3 DEF IdentityIInv, Numbered
      <4> QED
        BY <2>1, <3>3, <4>1 DEF IdentityIInv, PaidFor, Pending
    <3>4. CASE step \in {"up", "told"} /\ disk[path] = identity
      BY <2>1, <3>4 DEF IdentityIInv, PaidFor, Pending
    <3>5. CASE step \in {"up", "told"} /\ disk[path] # identity
      <4>1. count <= Cardinality(identities \cup {identity}) /\ Cardinality(identities \cup {identity}) \in Nat
        <5>1. Cardinality(identities \cup {identity}) \in {count, count + 1}
          BY OneMore DEF IdentityIInv, IdentityTypes
        <5> QED
          BY <1>0, <5>1
      <4>2. Cardinality(identities \cup {identity}) <= troubles
        BY <3>5 DEF IdentityIInv, PaidFor
      <4> QED
        BY <1>0, <2>1, <3>5, <4>1, <4>2 DEF IdentityIInv, PaidFor
    <3> QED
      BY <2>1, <3>1, <3>2, <3>3, <3>4, <3>5 DEF IdentityIInv, IdentityTypes
  <2>4. PaidFor'
    BY <2>1, <2>3 DEF PaidFor
  <2> QED
    BY <2>2, <2>4 DEF IdentityIInv
<1>9. CASE UNCHANGED identityVars
  BY <1>9 DEF identityVars, IdentityIInv, IdentityTypes, Numbered, PaidFor, Pending
<1> QED
  BY <1>1, <1>2, <1>3, <1>4, <1>5, <1>6, <1>7, <1>8, <1>9 DEF IdentityNext

\* The API learns of at most one new identity for each failed read or write, kill
\* within a write and start under another path (load_or_create, generate).
THEOREM IdentityIsKept == IdentitySpec => []IdentityKept
<1>1. IdentityIInv => IdentityKept
  BY DEF IdentityIInv, PaidFor, IdentityKept
<1> QED
  BY <1>1, IdentityInitInv, IdentityNextInv, PTL DEF IdentitySpec

------------------------------------------------------------------------------
(* The alternative addresses. *)

Answers == UNION {[alt -> Ips \cup {"none", "rejected", "failed"}] : alt \in SUBSET Ips}
Record == [pc : {"idle", "fetching", "ended", "lost"}, conn : Nat, main : Ips \cup {"?"},
           answers : Answers, late : BOOLEAN]

AltIpsTypes ==
  /\ begun \in 0..MaxRefreshes
  /\ conn \in Nat
  /\ refresh \in [Refreshes -> Record]
  /\ heard.from \in 0..begun
  /\ \A r \in Refreshes : r > begun => refresh[r] = Idle

\* A refresh asks by no address that was known when it began.
AsksOthers == \A r \in 1..begun : refresh[r].main \notin DOMAIN refresh[r].answers

\* A refresh that began while another one of its connection was under way knows
\* so, as long as that one can still tell something.
OverlapsAreLate ==
  \A r \in 1..begun : \A q \in 1..r - 1 :
    refresh[q].pc = "fetching" /\ refresh[q].conn = refresh[r].conn => refresh[r].late

\* What the API has heard is from a refresh that has ended.
HeardHasEnded == heard.from > 0 => refresh[heard.from].pc = "ended"

AltIpsIInv ==
  /\ AltIpsTypes
  /\ AsksOthers
  /\ OverlapsAreLate
  /\ HeardHasEnded
  /\ AltIpsFresh

\* A refresh that asks by no address has no answers.
LEMMA NoAnswers == [ip \in {} |-> "none"] = << >>
BY SMT

LEMMA IdleType == Idle \in Record /\ DOMAIN Idle.answers = {}
PROOF
<1>1. [ip \in {} |-> "none"] \in Answers
  BY DEF Answers
<1>2. << >> \in Answers /\ DOMAIN << >> = {}
  BY <1>1, NoAnswers
<1> QED
  BY <1>2 DEF Idle, Record

LEMMA AltIpsInitInv == MaxRefreshes \in Nat => (AltIpsInit => AltIpsIInv)
PROOF
<1> SUFFICES ASSUME MaxRefreshes \in Nat, AltIpsInit PROVE AltIpsIInv
  OBVIOUS
<1>1. AltIpsTypes
  BY IdleType DEF AltIpsInit, AltIpsTypes, Refreshes, Silence
<1> QED
  BY <1>1 DEF AltIpsInit, AltIpsIInv, AsksOthers, OverlapsAreLate, HeardHasEnded, AltIpsFresh, Silence

\* A refresh begins.
LEMMA RefreshBeginInv ==
  ASSUME MaxRefreshes \in Nat, AltIpsIInv, NEW main \in Ips \cup {"?"}, NEW local \in SUBSET Ips,
         OnConnectIp(main, local)
  PROVE  AltIpsIInv'
PROOF
<1> DEFINE r == begun + 1
           alt == local \ {main}
           overlaps == \E q \in 1..begun : refresh[q].pc = "fetching" /\ refresh[q].conn = conn
           new == [ pc |-> IF alt = {} THEN "ended" ELSE "fetching", conn |-> conn, main |-> main,
                    answers |-> [ip \in alt |-> "none"], late |-> overlaps ]
<1>1. /\ begun < MaxRefreshes /\ begun' = r /\ refresh' = [refresh EXCEPT ![r] = new]
      /\ conn' = conn /\ heard' = heard
  BY DEF OnConnectIp, Begin
<1>2. /\ begun \in Nat /\ r \in Refreshes /\ conn \in Nat /\ heard.from \in 0..begun
      /\ refresh \in [Refreshes -> Record]
      /\ 1..begun \subseteq Refreshes
  BY <1>1 DEF AltIpsIInv, AltIpsTypes, Refreshes
<1>3. new \in Record
  <2>1. [ip \in alt |-> "none"] \in Answers
    <3>1. alt \in SUBSET Ips
      OBVIOUS
    <3> HIDE DEF alt
    <3>2. [ip \in alt |-> "none"] \in [alt -> Ips \cup {"none", "rejected", "failed"}]
      OBVIOUS
    <3> QED
      BY <3>1, <3>2 DEF Answers
  <2>2. overlaps \in BOOLEAN
    OBVIOUS
  <2> HIDE DEF overlaps
  <2> QED
    BY <1>2, <2>1, <2>2 DEF Record
<1> HIDE DEF new
<1>4. refresh'[r] = new /\ \A q \in Refreshes : q # r => refresh'[q] = refresh[q]
  BY <1>1, <1>2
<1>5. AltIpsTypes'
  BY <1>1, <1>2, <1>3, <1>4 DEF AltIpsIInv, AltIpsTypes, Refreshes
<1>6. AsksOthers'
  <2>1. new.main \notin DOMAIN new.answers
    BY DEF new
  <2> QED
    BY <1>1, <1>2, <1>4, <2>1 DEF AltIpsIInv, AsksOthers
<1>7. OverlapsAreLate'
  <2> SUFFICES ASSUME NEW s \in 1..r, NEW q \in 1..s - 1,
                      refresh'[q].pc = "fetching", refresh'[q].conn = refresh'[s].conn
               PROVE  refresh'[s].late
    BY <1>1 DEF OverlapsAreLate
  <2>1. q \in 1..begun /\ q \in Refreshes /\ refresh'[q] = refresh[q]
    BY <1>2, <1>4
  <2>2. CASE s = r
    <3>1. new.conn = conn /\ new.late = overlaps
      BY DEF new
    <3> QED
      BY <1>4, <2>1, <2>2, <3>1
  <2>3. CASE s # r
    <3>1. s \in 1..begun /\ refresh'[s] = refresh[s]
      BY <1>2, <1>4, <2>3
    <3> QED
      BY <2>1, <3>1 DEF AltIpsIInv, OverlapsAreLate
  <2> QED
    BY <2>2, <2>3
<1>8. heard.from > 0 => heard.from \in 1..begun /\ refresh'[heard.from] = refresh[heard.from]
  BY <1>2, <1>4
<1>9. HeardHasEnded'
  BY <1>1, <1>8 DEF AltIpsIInv, HeardHasEnded
<1>10. AltIpsFresh'
  <2>1. new.pc = "ended" => new.answers = << >>
    BY NoAnswers DEF new
  <2> SUFFICES ASSUME heard.from > 0
               PROVE  /\ refresh'[heard.from].conn = conn
                      /\ heard.ips = Confirmed(refresh'[heard.from])
                      /\ refresh'[heard.from].main \notin DOMAIN refresh'[heard.from].answers
                      /\ \A s \in Refreshes :
                           s > heard.from /\ refresh'[s].pc = "ended" /\ refresh'[s].conn = conn
                             /\ refresh'[s].answers # << >> => refresh'[s].late
    BY <1>1 DEF AltIpsFresh, Confirmed
  <2>2. /\ refresh[heard.from].conn = conn
        /\ heard.ips = Confirmed(refresh[heard.from])
        /\ refresh[heard.from].main \notin DOMAIN refresh[heard.from].answers
        /\ \A s \in Refreshes :
             s > heard.from /\ refresh[s].pc = "ended" /\ refresh[s].conn = conn
               /\ refresh[s].answers # << >> => refresh[s].late
    BY DEF AltIpsIInv, AltIpsFresh
  <2> QED
    BY <1>4, <1>8, <2>1, <2>2
<1> QED
  BY <1>5, <1>6, <1>7, <1>9, <1>10 DEF AltIpsIInv

\* An answer comes in for a refresh that is under way, and nothing else changes.
LEMMA RefreshFetchInv ==
  ASSUME MaxRefreshes \in Nat, AltIpsIInv, NEW r \in Refreshes, NEW ip \in Ips,
         NEW answer \in Ips \cup {"rejected", "failed"}, Fetch(r, ip, answer)
  PROVE  AltIpsIInv'
PROOF
<1>1. /\ refresh[r].pc = "fetching" /\ ip \in DOMAIN refresh[r].answers
      /\ refresh' = [refresh EXCEPT ![r].answers[ip] = answer]
      /\ begun' = begun /\ conn' = conn /\ heard' = heard
  BY DEF Fetch
<1>2. /\ refresh \in [Refreshes -> Record] /\ refresh[r] \in Record /\ begun \in 0..MaxRefreshes
      /\ heard.from \in 0..begun /\ 1..begun \subseteq Refreshes
  BY DEF AltIpsIInv, AltIpsTypes, Refreshes
<1>3. [refresh[r].answers EXCEPT ![ip] = answer] \in Answers
  <2>1. PICK alt \in SUBSET Ips : refresh[r].answers \in [alt -> Ips \cup {"none", "rejected", "failed"}]
    BY <1>2 DEF Record, Answers
  <2>2. [refresh[r].answers EXCEPT ![ip] = answer] \in [alt -> Ips \cup {"none", "rejected", "failed"}]
    BY <2>1
  <2> QED
    BY <2>2 DEF Answers
<1>4. /\ refresh'[r] = [refresh[r] EXCEPT !.answers = [refresh[r].answers EXCEPT ![ip] = answer]]
      /\ \A q \in Refreshes : q # r => refresh'[q] = refresh[q]
      /\ refresh' \in [Refreshes -> Record]
  BY <1>1, <1>2, <1>3 DEF Record
<1>5. /\ refresh'[r].pc = refresh[r].pc /\ refresh'[r].conn = refresh[r].conn
      /\ refresh'[r].main = refresh[r].main /\ refresh'[r].late = refresh[r].late
      /\ DOMAIN refresh'[r].answers = DOMAIN refresh[r].answers
  BY <1>2, <1>4 DEF Record
<1>6. \A q \in Refreshes : /\ refresh'[q].pc = refresh[q].pc /\ refresh'[q].conn = refresh[q].conn
                           /\ refresh'[q].late = refresh[q].late
                           /\ refresh'[q].main = refresh[q].main
                           /\ DOMAIN refresh'[q].answers = DOMAIN refresh[q].answers
  BY <1>4, <1>5
<1>7. r <= begun
  BY <1>1 DEF AltIpsIInv, AltIpsTypes, Idle, Refreshes
<1>8. AltIpsTypes'
  BY <1>1, <1>2, <1>4, <1>7 DEF AltIpsIInv, AltIpsTypes, Refreshes
<1>9. AsksOthers' /\ OverlapsAreLate'
  <2>1. AsksOthers'
    BY <1>1, <1>2, <1>6 DEF AltIpsIInv, AsksOthers
  <2>2. OverlapsAreLate'
    <3> SUFFICES ASSUME NEW s \in 1..begun, NEW q \in 1..s - 1,
                        refresh'[q].pc = "fetching", refresh'[q].conn = refresh'[s].conn
                 PROVE  refresh'[s].late
      BY <1>1 DEF OverlapsAreLate
    <3>1. s \in Refreshes /\ q \in Refreshes
      BY <1>2 DEF Refreshes
    <3> QED
      BY <1>6, <3>1 DEF AltIpsIInv, OverlapsAreLate
  <2> QED
    BY <2>1, <2>2
<1>10. heard.from > 0 => /\ heard.from \in Refreshes /\ heard.from # r
                         /\ refresh'[heard.from] = refresh[heard.from]
  BY <1>1, <1>2, <1>4 DEF AltIpsIInv, HeardHasEnded, Refreshes
<1>11. HeardHasEnded'
  BY <1>1, <1>10 DEF AltIpsIInv, HeardHasEnded
<1>12. AltIpsFresh'
  <2> SUFFICES ASSUME heard.from > 0
               PROVE  /\ refresh'[heard.from].conn = conn
                      /\ heard.ips = Confirmed(refresh'[heard.from])
                      /\ refresh'[heard.from].main \notin DOMAIN refresh'[heard.from].answers
                      /\ \A s \in Refreshes :
                           s > heard.from /\ refresh'[s].pc = "ended" /\ refresh'[s].conn = conn
                             /\ refresh'[s].answers # << >> => refresh'[s].late
    BY <1>1 DEF AltIpsFresh, Confirmed
  <2>1. /\ refresh[heard.from].conn = conn
        /\ heard.ips = Confirmed(refresh[heard.from])
        /\ refresh[heard.from].main \notin DOMAIN refresh[heard.from].answers
        /\ \A s \in Refreshes :
             s > heard.from /\ refresh[s].pc = "ended" /\ refresh[s].conn = conn
               /\ refresh[s].answers # << >> => refresh[s].late
    BY DEF AltIpsIInv, AltIpsFresh
  <2>2. \A s \in Refreshes : refresh'[s].pc = "ended" => refresh'[s] = refresh[s]
    BY <1>1, <1>4, <1>5
  <2> QED
    BY <1>10, <2>1, <2>2
<1> QED
  BY <1>8, <1>9, <1>11, <1>12 DEF AltIpsIInv

\* A refresh ends; if its connection is still there the API has heard it.
LEMMA RefreshEmitInv ==
  ASSUME MaxRefreshes \in Nat, AltIpsIInv, NEW r \in Refreshes, Emit(r)
  PROVE  AltIpsIInv'
PROOF
<1>1. /\ refresh[r].pc = "fetching" /\ refresh' = [refresh EXCEPT ![r].pc = "ended"]
      /\ heard' = IF refresh[r].conn = conn
                  THEN [from |-> r, ips |-> Confirmed(refresh[r])] ELSE heard
      /\ begun' = begun /\ conn' = conn
  BY DEF Emit, EmitOver, Fetched
<1>2. /\ refresh \in [Refreshes -> Record] /\ refresh[r] \in Record /\ begun \in 0..MaxRefreshes
      /\ heard.from \in 0..begun /\ 1..begun \subseteq Refreshes
  BY DEF AltIpsIInv, AltIpsTypes, Refreshes
<1>3. /\ \A q \in Refreshes : q # r => refresh'[q] = refresh[q]
      /\ refresh' \in [Refreshes -> Record]
      /\ refresh'[r].pc = "ended" /\ refresh'[r].conn = refresh[r].conn
      /\ refresh'[r].main = refresh[r].main /\ refresh'[r].late = refresh[r].late
      /\ refresh'[r].answers = refresh[r].answers
  BY <1>1, <1>2 DEF Record
<1>4. \A q \in Refreshes : /\ refresh'[q].pc = "fetching" => refresh[q].pc = "fetching"
                           /\ refresh'[q].conn = refresh[q].conn
                           /\ refresh'[q].late = refresh[q].late
                           /\ refresh'[q].main = refresh[q].main
                           /\ refresh'[q].answers = refresh[q].answers
  BY <1>3
<1>5. r \in 1..begun
  BY <1>1 DEF AltIpsIInv, AltIpsTypes, Idle, Refreshes
<1>6. AltIpsTypes'
  <2>1. heard'.from \in 0..begun
    BY <1>1, <1>2, <1>5
  <2> QED
    BY <1>1, <1>2, <1>3, <1>5, <2>1 DEF AltIpsIInv, AltIpsTypes, Refreshes
<1>7. AsksOthers'
  BY <1>1, <1>2, <1>4 DEF AltIpsIInv, AsksOthers
<1>8. OverlapsAreLate'
  <2> SUFFICES ASSUME NEW s \in 1..begun, NEW q \in 1..s - 1,
                      refresh'[q].pc = "fetching", refresh'[q].conn = refresh'[s].conn
               PROVE  refresh'[s].late
    BY <1>1 DEF OverlapsAreLate
  <2>1. s \in Refreshes /\ q \in Refreshes
    BY <1>2 DEF Refreshes
  <2> QED
    BY <1>4, <2>1 DEF AltIpsIInv, OverlapsAreLate
<1>9. HeardHasEnded'
  <2>1. CASE refresh[r].conn = conn
    BY <1>1, <1>3, <2>1 DEF HeardHasEnded
  <2>2. CASE refresh[r].conn # conn
    <3>1. heard' = heard /\ (heard.from > 0 => heard.from \in Refreshes)
      BY <1>1, <1>2, <2>2
    <3> QED
      BY <1>3, <3>1 DEF AltIpsIInv, HeardHasEnded
  <2> QED
    BY <2>1, <2>2
<1>10. AltIpsFresh'
  <2> DEFINE from == heard'.from
  <2> SUFFICES ASSUME from > 0
               PROVE  /\ refresh'[from].conn = conn
                      /\ heard'.ips = Confirmed(refresh'[from])
                      /\ refresh'[from].main \notin DOMAIN refresh'[from].answers
                      /\ \A s \in Refreshes :
                           s > from /\ refresh'[s].pc = "ended" /\ refresh'[s].conn = conn
                             /\ refresh'[s].answers # << >> => refresh'[s].late
    BY <1>1 DEF AltIpsFresh, Confirmed
  <2>1. CASE refresh[r].conn = conn
    <3>1. from = r /\ heard'.ips = Confirmed(refresh[r])
      BY <1>1, <2>1
    <3>2. Confirmed(refresh'[r]) = Confirmed(refresh[r])
      BY <1>3 DEF Confirmed
    <3>3. refresh[r].main \notin DOMAIN refresh[r].answers
      BY <1>5 DEF AltIpsIInv, AsksOthers
    <3>4. ASSUME NEW s \in Refreshes, s > r, refresh'[s].pc = "ended", refresh'[s].conn = conn
          PROVE  refresh'[s].late
      <4>1. refresh[s].pc = "ended" /\ refresh[s].conn = conn
        BY <1>3, <3>4 DEF Refreshes
      <4>2. s <= begun
        BY <4>1 DEF AltIpsIInv, AltIpsTypes, Idle, Refreshes
      <4>3. s \in 1..begun /\ r \in 1..s - 1
        BY <1>2, <1>5, <3>4, <4>2 DEF Refreshes
      <4>4. refresh[s].late
        BY <1>1, <2>1, <4>1, <4>3 DEF AltIpsIInv, OverlapsAreLate
      <4> QED
        BY <1>4, <4>4
    <3> HIDE DEF from
    <3> QED
      BY <1>3, <2>1, <3>1, <3>2, <3>3, <3>4
  <2>2. CASE refresh[r].conn # conn
    <3>1. heard' = heard /\ from = heard.from /\ from \in Refreshes
      BY <1>1, <1>2, <2>2
    <3>2. /\ refresh[from].conn = conn /\ heard.ips = Confirmed(refresh[from])
          /\ refresh[from].main \notin DOMAIN refresh[from].answers
          /\ \A s \in Refreshes :
               s > from /\ refresh[s].pc = "ended" /\ refresh[s].conn = conn
                 /\ refresh[s].answers # << >> => refresh[s].late
      BY <3>1 DEF AltIpsIInv, AltIpsFresh
    <3>3. from # r
      BY <2>2, <3>2
    <3>4. \A s \in Refreshes : refresh'[s].conn = conn => refresh'[s] = refresh[s]
      BY <1>3, <2>2
    <3> HIDE DEF from
    <3> QED
      BY <1>3, <3>1, <3>2, <3>3, <3>4
  <2> QED
    BY <2>1, <2>2
<1> QED
  BY <1>6, <1>7, <1>8, <1>9, <1>10 DEF AltIpsIInv

\* A refresh is lost; what the API has heard is of another one.
LEMMA RefreshLostInv ==
  ASSUME MaxRefreshes \in Nat, AltIpsIInv, NEW r \in Refreshes, EmitFails(r)
  PROVE  AltIpsIInv'
PROOF
<1>1. /\ refresh[r].pc = "fetching" /\ refresh' = [refresh EXCEPT ![r].pc = "lost"]
      /\ heard' = heard /\ begun' = begun /\ conn' = conn
  BY DEF EmitFails, Fetched
<1>2. /\ refresh \in [Refreshes -> Record] /\ refresh[r] \in Record /\ begun \in 0..MaxRefreshes
      /\ heard.from \in 0..begun /\ 1..begun \subseteq Refreshes
  BY DEF AltIpsIInv, AltIpsTypes, Refreshes
<1>3. /\ \A q \in Refreshes : q # r => refresh'[q] = refresh[q]
      /\ refresh' \in [Refreshes -> Record]
      /\ refresh'[r].pc = "lost" /\ refresh'[r].conn = refresh[r].conn
      /\ refresh'[r].main = refresh[r].main /\ refresh'[r].late = refresh[r].late
      /\ refresh'[r].answers = refresh[r].answers
  BY <1>1, <1>2 DEF Record
<1>4. \A q \in Refreshes : /\ refresh'[q].pc \in {"fetching", "ended"} => refresh'[q].pc = refresh[q].pc
                           /\ refresh'[q].conn = refresh[q].conn
                           /\ refresh'[q].late = refresh[q].late
                           /\ refresh'[q].main = refresh[q].main
                           /\ refresh'[q].answers = refresh[q].answers
  BY <1>3
<1>5. r \in 1..begun
  BY <1>1 DEF AltIpsIInv, AltIpsTypes, Idle, Refreshes
<1>6. AltIpsTypes'
  BY <1>1, <1>2, <1>3, <1>5 DEF AltIpsIInv, AltIpsTypes, Refreshes
<1>7. AsksOthers'
  BY <1>1, <1>2, <1>4 DEF AltIpsIInv, AsksOthers
<1>8. OverlapsAreLate'
  <2> SUFFICES ASSUME NEW s \in 1..begun, NEW q \in 1..s - 1,
                      refresh'[q].pc = "fetching", refresh'[q].conn = refresh'[s].conn
               PROVE  refresh'[s].late
    BY <1>1 DEF OverlapsAreLate
  <2>1. s \in Refreshes /\ q \in Refreshes
    BY <1>2 DEF Refreshes
  <2> QED
    BY <1>4, <2>1 DEF AltIpsIInv, OverlapsAreLate
<1>9. heard.from > 0 => heard.from \in Refreshes /\ heard.from # r
  BY <1>1, <1>2 DEF AltIpsIInv, HeardHasEnded
<1>10. HeardHasEnded'
  BY <1>1, <1>3, <1>9 DEF AltIpsIInv, HeardHasEnded
<1>11. AltIpsFresh'
  <2> SUFFICES ASSUME heard.from > 0
               PROVE  /\ refresh'[heard.from].conn = conn
                      /\ heard.ips = Confirmed(refresh'[heard.from])
                      /\ refresh'[heard.from].main \notin DOMAIN refresh'[heard.from].answers
                      /\ \A s \in Refreshes :
                           s > heard.from /\ refresh'[s].pc = "ended" /\ refresh'[s].conn = conn
                             /\ refresh'[s].answers # << >> => refresh'[s].late
    BY <1>1 DEF AltIpsFresh, Confirmed
  <2>1. refresh'[heard.from] = refresh[heard.from]
    BY <1>3, <1>9
  <2> QED
    BY <1>4, <2>1 DEF AltIpsIInv, AltIpsFresh
<1> QED
  BY <1>6, <1>7, <1>8, <1>10, <1>11 DEF AltIpsIInv

LEMMA AltIpsNextInv == MaxRefreshes \in Nat => (AltIpsIInv /\ [AltIpsNext]_addressVars => AltIpsIInv')
PROOF
<1> SUFFICES ASSUME MaxRefreshes \in Nat, AltIpsIInv, [AltIpsNext]_addressVars PROVE AltIpsIInv'
  OBVIOUS
<1>1. CASE Reconnect
  <2>1. /\ conn' = conn + 1 /\ heard' = Silence /\ begun' = begun /\ refresh' = refresh
    BY <1>1 DEF Reconnect
  <2>2. AltIpsTypes'
    BY <2>1 DEF AltIpsIInv, AltIpsTypes, Silence
  <2> QED
    BY <2>1, <2>2 DEF AltIpsIInv, AsksOthers, OverlapsAreLate, HeardHasEnded, AltIpsFresh, Silence
<1>2. CASE UNCHANGED addressVars
  BY <1>2 DEF addressVars, AltIpsIInv, AltIpsTypes, AsksOthers, OverlapsAreLate, HeardHasEnded, AltIpsFresh, Confirmed
<1> QED
  BY <1>1, <1>2, RefreshBeginInv, RefreshFetchInv, RefreshEmitInv, RefreshLostInv DEF AltIpsNext

\* What the API has heard is of its connection, complete, and of the newest refresh
\* that told anything, unless refreshes overlapped (refresh_alt_ips).
THEOREM AlternativesAreFresh ==
  ASSUME MaxRefreshes \in Nat
  PROVE  AltIpsSpec => []AltIpsFresh
<1>1. AltIpsInit => AltIpsIInv
  BY AltIpsInitInv
<1>2. AltIpsIInv /\ [AltIpsNext]_addressVars => AltIpsIInv'
  BY AltIpsNextInv
<1>3. AltIpsIInv => AltIpsFresh
  BY DEF AltIpsIInv
<1> QED
  BY <1>1, <1>2, <1>3, PTL DEF AltIpsSpec

------------------------------------------------------------------------------
(* The services together. *)

\* A step of the services is a step of each, or leaves it alone.
LEMMA StepOfEach ==
  ASSUME [ServicesNext]_allVars
  PROVE  /\ [RunNext]_runVars /\ [StatusNext]_statusVars
         /\ [Next]_vars /\ [IdentityNext]_identityVars /\ [AltIpsNext]_addressVars
BY DEF ServicesNext, allVars

\* The logs keep their account, the skipped count and the one late payload,
\* whatever the other services do.
THEOREM ServicesKeepLogs ==
  ServicesSpec => [](TypeOK /\ Accounted /\ SkippedIsExact /\ AtMostOneLate)
<1>1. ServicesInit => IInv
  BY InitEstablishesIInv DEF ServicesInit
<1>2. IInv /\ [ServicesNext]_allVars => IInv'
  BY StepOfEach, StepKeepsIInv
<1>3. IInv => TypeOK /\ Accounted /\ SkippedIsExact /\ AtMostOneLate
  BY DEF IInv, LateIsTheLast, AtMostOneLate
<1>4. QED
  BY <1>1, <1>2, <1>3, PTL DEF ServicesSpec

\* Nor do the other services cost the probe its identity or make the alternative
\* addresses stale.
THEOREM ServicesKeepAddresses ==
  ASSUME MaxRefreshes \in Nat
  PROVE  ServicesSpec => [](IdentityKept /\ AltIpsFresh)
<1>1. ServicesInit => IdentityIInv /\ AltIpsIInv
  BY IdentityInitInv, AltIpsInitInv DEF ServicesInit
<1>2. IdentityIInv /\ AltIpsIInv /\ [ServicesNext]_allVars => (IdentityIInv /\ AltIpsIInv)'
  BY StepOfEach, IdentityNextInv, AltIpsNextInv
<1>3. IdentityIInv /\ AltIpsIInv => IdentityKept /\ AltIpsFresh
  BY DEF IdentityIInv, PaidFor, IdentityKept, AltIpsIInv
<1>4. QED
  BY <1>1, <1>2, <1>3, PTL DEF ServicesSpec

------------------------------------------------------------------------------
(* The progress buffer. *)

Chars == {"a", "u"}

Widths(v) == [i \in DOMAIN v |-> Buffer!Width(v[i])]

\* The widths of the characters of a value: as many as there are, and none is 0.
LEMMA WidthsTyped ==
  ASSUME NEW v \in Seq(Chars)
  PROVE  Widths(v) \in Seq(Nat \ {0}) /\ Len(Widths(v)) = Len(v)
<1> DEFINE len == Len(v)
<1>1. len \in Nat /\ DOMAIN v = 1..len
  OBVIOUS
<1>2. \A i \in 1..len : Buffer!Width(v[i]) \in Nat \ {0}
  BY DEF Buffer!Width
<1> HIDE DEF len
<1>3. Widths(v) \in [1..len -> Nat \ {0}]
  BY <1>1, <1>2 DEF Widths
<1>4. Widths(v) \in Seq(Nat \ {0}) /\ Len(Widths(v)) = len
  <2> DEFINE w == Widths(v)
  <2> HIDE DEF w
  <2>1. w \in Seq(Nat \ {0}) /\ Len(w) = len
    BY <1>1, <1>3 DEF w
  <2> QED BY <2>1 DEF w
<1> QED BY <1>4 DEF len

\* The sizes of beginnings are totals of beginnings.
LEMMA SizeOfBeginning ==
  ASSUME NEW v \in Seq(Chars), NEW i \in 0..Len(v)
  PROVE  Buffer!Size(SubSeq(v, 1, i)) = Total(SubSeq(Widths(v), 1, i))
<1> DEFINE p == SubSeq(v, 1, i)
           w == Widths(v)
           q == SubSeq(w, 1, i)
<1>1. p \in Seq(Chars) /\ Len(p) = i /\ \A k \in 1..i : p[k] = v[k]
  OBVIOUS
<1>2. w \in Seq(Nat \ {0}) /\ Len(w) = Len(v) /\ \A k \in DOMAIN v : w[k] = Buffer!Width(v[k])
  BY WidthsTyped DEF Widths
<1>3. q \in Seq(Nat \ {0}) /\ Len(q) = i /\ \A k \in 1..i : q[k] = w[k]
  <2> HIDE DEF w
  <2> QED BY <1>2
<1>4. \A k \in 1..i : k \in DOMAIN v
  OBVIOUS
<1>5. DOMAIN p = 1..i /\ DOMAIN q = 1..i /\ q = [k \in 1..i |-> q[k]]
  <2> HIDE DEF p, q
  <2> QED BY <1>1, <1>3
<1>6. [k \in DOMAIN p |-> Buffer!Width(p[k])] = q
  <2> HIDE DEF p, q, w
  <2>1. \A k \in 1..i : Buffer!Width(p[k]) = q[k]
    BY <1>1, <1>2, <1>3, <1>4
  <2> QED BY <1>5, <2>1
<1>7. Buffer!Size(p) = Buffer!Total(q)
  <2> HIDE DEF p, q
  <2> QED BY <1>6 DEF Buffer!Size
<1>8. \A s : Buffer!Total(s) = Total(s)
  BY DEF Buffer!Total, Total
<1> HIDE DEF p, q
<1>9. Buffer!Size(p) = Total(q)
  BY <1>7, <1>8
<1> QED BY <1>9 DEF p, q, w

\* From(value, at) is the rest after the beginning of that size.
LEMMA RestFromBeginning ==
  ASSUME NEW v \in Seq(Chars), NEW i \in 0..Len(v)
  PROVE  /\ Buffer!Size(SubSeq(v, 1, i)) \in Buffer!Starts(v)
         /\ Buffer!From(v, Buffer!Size(SubSeq(v, 1, i))) = SubSeq(v, i + 1, Len(v))
<1> DEFINE bytes(k) == Buffer!Size(SubSeq(v, 1, k))
           Fits(k) == k \in 0..Len(v) /\ bytes(k) = bytes(i)
           n == CHOOSE k \in 0..Len(v) : bytes(k) = bytes(i)
<1>1. bytes(i) \in Buffer!Starts(v)
  BY DEF Buffer!Starts
<1>2. ASSUME NEW a \in 0..Len(v), NEW b \in 0..Len(v), a < b PROVE bytes(a) < bytes(b)
  <2>1. Widths(v) \in Seq(Nat \ {0}) /\ a \in 0..Len(Widths(v)) /\ b \in 0..Len(Widths(v))
    BY WidthsTyped
  <2>2. Total(SubSeq(Widths(v), 1, a)) < Total(SubSeq(Widths(v), 1, b))
    BY <1>2, <2>1, TotalsGrow
  <2> QED BY <2>2, SizeOfBeginning
<1> HIDE DEF bytes
<1>3. n \in 0..Len(v) /\ bytes(n) = bytes(i)
  OBVIOUS
<1>4. \A a \in 0..Len(v) : bytes(a) \in Int
  <2> SUFFICES ASSUME NEW a \in 0..Len(v) PROVE bytes(a) \in Int
    OBVIOUS
  <2>1. Widths(v) \in Seq(Nat) /\ a \in 0..Len(Widths(v))
    BY WidthsTyped
  <2>2. Sums(Widths(v)) \in [0..Len(Widths(v)) -> Nat]
    BY <2>1, SumsUnfold
  <2> QED BY <2>1, <2>2, TotalIsSum, SizeOfBeginning, SMTT(20), ZenonT(20) DEF bytes
<1> HIDE DEF n
<1>5. n = i
  <2>1. n \in Int /\ i \in Int /\ (n < i \/ n = i \/ i < n)
    BY <1>3
  <2> QED BY <1>2, <1>3, <1>4, <2>1
<1> QED BY <1>1, <1>5 DEF Buffer!From, n, bytes

\* A prefix is a beginning, and a beginning is cut out by SubSeq.
LEMMA PrefixBegins ==
  ASSUME NEW s \in Seq(Chars), NEW t \in Seq(Chars)
  PROVE  /\ Buffer!IsPrefix(s, t) <=> Begins(s, t)
         /\ Begins(s, t) => s = SubSeq(t, 1, Len(s))
<1>1. SubSeq(s, 1, Len(s)) = s
  OBVIOUS
<1>2. ASSUME Begins(s, t) PROVE s = SubSeq(t, 1, Len(s))
  BY <1>2 DEF Begins
<1>3. ASSUME Len(s) <= Len(t), s = SubSeq(t, 1, Len(s)) PROVE Begins(s, t)
  <2>1. \A k \in 1..Len(s) : SubSeq(t, 1, Len(s))[k] = t[k]
    BY <1>3
  <2> QED BY <1>3, <2>1 DEF Begins
<1> QED BY <1>1, <1>2, <1>3 DEF Buffer!IsPrefix, Begins

\* What a field holds.
Kept(f) == IF f \in DOMAIN buffer THEN buffer[f] ELSE <<>>

BufferTypes ==
  /\ DOMAIN buffer \subseteq Fields
  /\ \A f \in DOMAIN buffer : buffer[f] \in Seq(Chars)
  /\ values \in [Fields -> Seq(Chars)]
  /\ received \in [Fields -> Seq(Chars)]
  /\ grown \in [Fields -> BOOLEAN]
  /\ broken \in BOOLEAN
  /\ DOMAIN offset = Fields /\ offset = [f \in Fields |-> offset[f]]

OwnerStands == broken => focus = "diff" /\ \E f \in Fields : ~grown[f]

\* What each mode promises of a field.
Reassembled(f) ==
  /\ focus = "append" => received[f] \o Kept(f) = values[f]
  /\ focus = "overwrite" => values[f] = IF f \in DOMAIN buffer THEN buffer[f] ELSE received[f]
  /\ focus = "diff" /\ ~broken /\ grown[f] =>
       /\ Kept(f) = values[f]
       /\ Begins(received[f], Kept(f))
       /\ Buffer!Size(received[f]) = offset[f]

BufferIInv ==
  focus \in {"append", "diff", "overwrite"} =>
    BufferTypes /\ OwnerStands /\ \A f \in Fields : Reassembled(f)

\* What is kept and what was received are values.
LEMMA KeptTyped == BufferTypes => \A f \in Fields : Kept(f) \in Seq(Chars) /\ received[f] \in Seq(Chars)
<1>1. <<>> \in Seq(Chars)
  OBVIOUS
<1> QED BY <1>1 DEF BufferTypes, Kept

\* What each mode promises, of every field, is the property the runs check.
LEMMA BufferImplies == BufferIInv => BufferReassembles
<1> SUFFICES ASSUME BufferIInv, focus \in {"append", "diff", "overwrite"} PROVE Buffer!BufferReassembles
  BY DEF BufferReassembles
<1>1. BufferTypes /\ OwnerStands /\ \A f \in Fields : Reassembled(f)
  BY DEF BufferIInv
<1>2. ASSUME NEW f \in Fields, focus = "append" PROVE received[f] \o Kept(f) = values[f]
  BY <1>1, <1>2 DEF Reassembled
<1>3. ASSUME NEW f \in Fields, focus = "overwrite"
      PROVE  values[f] = IF f \in DOMAIN buffer THEN Kept(f) ELSE received[f]
  BY <1>1, <1>3 DEF Reassembled, Kept
<1>4. ASSUME NEW f \in Fields, focus = "diff", ~broken, grown[f]
      PROVE  Kept(f) = values[f] /\ Buffer!IsPrefix(received[f], Kept(f)) /\ Buffer!Size(received[f]) = offset[f]
  BY <1>1, <1>4, KeptTyped, PrefixBegins DEF Reassembled
<1>5. broken => focus = "diff" /\ \E f \in Fields : ~grown[f]
  BY <1>1 DEF OwnerStands
<1>6. CASE focus = "append"
  BY <1>2, <1>5, <1>6 DEF Buffer!BufferReassembles, Kept
<1>7. CASE focus = "overwrite"
  BY <1>3, <1>5, <1>7 DEF Buffer!BufferReassembles, Kept
<1>8. CASE focus = "diff"
  BY <1>4, <1>5, <1>8 DEF Buffer!BufferReassembles, Kept
<1> QED BY <1>6, <1>7, <1>8

\* An empty buffer promises nothing wrong.
LEMMA BufferInitInv == ServicesInit => BufferIInv
<1> SUFFICES ASSUME ServicesInit, focus \in {"append", "diff", "overwrite"}
             PROVE  BufferTypes /\ OwnerStands /\ \A f \in Fields : Reassembled(f)
  BY DEF BufferIInv
<1>1. /\ buffer = <<>> /\ broken = FALSE
      /\ offset = [f \in Fields |-> 0] /\ values = [f \in Fields |-> <<>>]
      /\ received = [f \in Fields |-> <<>>] /\ grown = [f \in Fields |-> TRUE]
  BY DEF ServicesInit, Buffer!Init
<1>2. <<>> \in Seq(Chars) /\ DOMAIN buffer = {}
  BY <1>1
<1>3. BufferTypes /\ OwnerStands
  BY <1>1, <1>2 DEF BufferTypes, OwnerStands
<1>4. ASSUME NEW f \in Fields PROVE Reassembled(f)
  <2> DEFINE none == <<>>
  <2>1. Kept(f) = none /\ values[f] = none /\ received[f] = none /\ offset[f] = 0
    BY <1>1, <1>2 DEF Kept
  <2>2. none \o none = none /\ Begins(none, none)
    BY DEF Begins
  <2>3. Buffer!Size(none) = 0
    <3>1. none \in Seq(Chars) /\ 0 \in 0..Len(none) /\ SubSeq(none, 1, 0) = none
      OBVIOUS
    <3> HIDE DEF none
    <3>2. Widths(none) \in Seq(Nat) /\ 0 \in 0..Len(Widths(none))
      <4>1. Widths(none) \in Seq(Nat \ {0}) /\ Len(Widths(none)) = Len(none)
        BY <3>1, WidthsTyped
      <4> QED BY <3>1, <4>1
    <3>3. Buffer!Size(none) = Total(SubSeq(Widths(none), 1, 0))
      BY <3>1, SizeOfBeginning
    <3>4. Total(SubSeq(Widths(none), 1, 0)) = Sums(Widths(none))[0]
      BY <3>2, TotalIsSum
    <3>5. Sums(Widths(none))[0] = 0
      BY <3>2, SumsUnfold
    <3> QED BY <3>3, <3>4, <3>5
  <2> HIDE DEF none
  <2> QED BY <1>2, <2>1, <2>2, <2>3 DEF Reassembled
<1> QED BY <1>3, <1>4

\* A value that is pushed is kept, and what was kept goes on or is replaced.
LEMMA PushInv ==
  ASSUME BufferTypes, OwnerStands, \A f \in Fields : Reassembled(f),
         NEW field \in Fields, NEW text \in Seq(Chars), Buffer!push(field, text), UNCHANGED focus
  PROVE  BufferTypes' /\ OwnerStands' /\ \A f \in Fields : Reassembled(f)'
<1> DEFINE appends == focus = "append"
           old == IF field \in DOMAIN buffer THEN buffer[field] ELSE <<>>
           new == IF appends THEN old \o text ELSE text
           whole == IF appends THEN values[field] \o text ELSE text
<1>1. /\ ~broken /\ UNCHANGED <<offset, broken, received>>
      /\ buffer' = [f \in DOMAIN buffer \cup {field} |-> IF f # field THEN buffer[f] ELSE new]
      /\ values' = [values EXCEPT ![field] = whole]
      /\ grown' = [grown EXCEPT ![field] = @ /\ (appends \/ Buffer!IsPrefix(values[field], text))]
  BY DEF Buffer!push
<1>2. old \in Seq(Chars) /\ new \in Seq(Chars) /\ whole \in Seq(Chars)
  <2>1. old \in Seq(Chars)
    BY DEF BufferTypes
  <2>2. values[field] \in Seq(Chars)
    BY DEF BufferTypes
  <2> HIDE DEF old
  <2>3. old \o text \in Seq(Chars) /\ values[field] \o text \in Seq(Chars)
    BY <2>1, <2>2, ConcatProperties
  <2> QED BY <2>1, <2>3
<1>3. Kept(field) = old
  BY DEF Kept
<1> HIDE DEF old, new, whole
<1>4. Kept(field)' = new /\ values'[field] = whole
  BY <1>1 DEF Kept, BufferTypes
<1>5. ASSUME NEW f \in Fields, f # field PROVE Reassembled(f)'
  <2>1. /\ Kept(f)' = Kept(f) /\ (f \in DOMAIN buffer' <=> f \in DOMAIN buffer)
        /\ f \in DOMAIN buffer => buffer'[f] = buffer[f]
        /\ values'[f] = values[f] /\ grown'[f] = grown[f] /\ received' = received /\ offset' = offset
    BY <1>1, <1>5 DEF Kept, BufferTypes
  <2>2. Reassembled(f)
    OBVIOUS
  <2> QED BY <1>1, <2>1, <2>2 DEF Reassembled
<1>6. Reassembled(field)'
  <2>1. CASE appends
    <3>1. received[field] \o old = values[field] /\ received[field] \in Seq(Chars)
      BY <1>3, <2>1 DEF Reassembled, BufferTypes
    <3>2. received[field] \o (old \o text) = (received[field] \o old) \o text
      <4>1. \A s, t, u \in Seq(Chars) : s \o (t \o u) = (s \o t) \o u
        BY ConcatAssociative, SMTT(20), ZenonT(20)
      <4> QED BY <1>2, <3>1, <4>1
    <3>3. new = old \o text /\ whole = values[field] \o text
      BY <2>1 DEF new, whole
    <3>4. received'[field] \o Kept(field)' = values'[field]
      BY <1>1, <1>4, <3>1, <3>2, <3>3
    <3> QED BY <2>1, <3>4 DEF Reassembled
  <2>2. CASE focus = "overwrite"
    <3>1. field \in DOMAIN buffer' /\ buffer'[field] = new /\ new = whole
      BY <1>1, <2>2 DEF new, whole
    <3> QED BY <1>4, <2>2, <3>1 DEF Reassembled
  <2>3. CASE focus = "diff"
    <3> SUFFICES ASSUME ~broken', grown'[field]
                 PROVE  /\ Kept(field)' = values'[field]
                        /\ Begins(received'[field], Kept(field)')
                        /\ Buffer!Size(received'[field]) = offset'[field]
      BY <2>3 DEF Reassembled
    <3>1. grown[field] /\ Buffer!IsPrefix(values[field], text) /\ new = text /\ whole = text
      BY <1>1, <2>3 DEF BufferTypes, new, whole
    <3>2. Kept(field) = values[field] /\ Begins(received[field], values[field])
          /\ Buffer!Size(received[field]) = offset[field]
      BY <1>1, <2>3, <3>1 DEF Reassembled
    <3>3. values[field] \in Seq(Chars) /\ received[field] \in Seq(Chars)
      BY DEF BufferTypes
    <3>4. Begins(values[field], text)
      BY <3>1, <3>3, PrefixBegins
    <3>5. Begins(received[field], text)
      <4>1. Len(received[field]) \in Nat /\ Len(values[field]) \in Nat /\ Len(text) \in Nat
        BY <3>3
      <4> QED BY <3>2, <3>4, <4>1 DEF Begins
    <3> QED BY <1>1, <1>4, <3>1, <3>2, <3>5
  <2>4. CASE focus \notin {"append", "overwrite", "diff"}
    BY <1>1, <2>4 DEF Reassembled
  <2> QED BY <2>1, <2>2, <2>3, <2>4
<1>7. BufferTypes'
  <2>1. DOMAIN buffer' \subseteq Fields /\ \A f \in DOMAIN buffer' : buffer'[f] \in Seq(Chars)
    BY <1>1, <1>2 DEF BufferTypes
  <2>2. values' \in [Fields -> Seq(Chars)]
    BY <1>1, <1>2 DEF BufferTypes
  <2>3. grown' \in [Fields -> BOOLEAN]
    <3>1. (grown[field] /\ (appends \/ Buffer!IsPrefix(values[field], text))) \in BOOLEAN
      OBVIOUS
    <3> QED BY <1>1, <3>1 DEF BufferTypes
  <2> QED BY <1>1, <2>1, <2>2, <2>3 DEF BufferTypes
<1>8. OwnerStands'
  BY <1>1 DEF OwnerStands
<1> QED BY <1>5, <1>6, <1>7, <1>8

\* Append and overwrite hand the values over and begin again.
LEMMA TakeAllInv ==
  ASSUME BufferTypes, OwnerStands, \A f \in Fields : Reassembled(f), Buffer!TakeAll, UNCHANGED focus
  PROVE  BufferTypes' /\ OwnerStands' /\ \A f \in Fields : Reassembled(f)'
<1>1. /\ focus # "diff" /\ buffer' = <<>> /\ UNCHANGED <<offset, broken, values, grown>>
      /\ received' = [f \in Fields |-> IF f \notin DOMAIN buffer THEN received[f]
                        ELSE IF focus = "append" THEN received[f] \o buffer[f] ELSE buffer[f]]
  BY DEF Buffer!TakeAll
<1>2. DOMAIN buffer' = {} /\ \A f \in Fields : Kept(f)' = <<>>
  BY <1>1 DEF Kept
<1>3. \A f \in Fields : Kept(f) \in Seq(Chars) /\ received[f] \in Seq(Chars)
  BY KeptTyped
<1>4. ASSUME NEW f \in Fields PROVE Reassembled(f)' /\ received'[f] \in Seq(Chars)
  <2>1. received'[f] = IF f \notin DOMAIN buffer THEN received[f]
                       ELSE IF focus = "append" THEN received[f] \o buffer[f] ELSE buffer[f]
    BY <1>1
  <2>2. received[f] \o Kept(f) \in Seq(Chars)
    BY <1>3, ConcatProperties
  <2>3. CASE focus = "append"
    <3>1. received'[f] = received[f] \o Kept(f)
      <4>1. CASE f \in DOMAIN buffer
        BY <2>1, <2>3, <4>1 DEF Kept
      <4>2. CASE f \notin DOMAIN buffer
        <5>1. received[f] \o <<>> = received[f]
          BY <1>3
        <5> QED BY <2>1, <4>2, <5>1 DEF Kept
      <4> QED BY <4>1, <4>2
    <3>2. received[f] \o Kept(f) = values[f]
      BY <2>3 DEF Reassembled
    <3>3. received'[f] \o <<>> = received'[f]
      BY <2>2, <3>1
    <3> QED BY <1>1, <1>2, <2>2, <2>3, <3>1, <3>2, <3>3 DEF Reassembled
  <2>4. CASE focus # "append"
    <3>1. received'[f] = IF f \in DOMAIN buffer THEN buffer[f] ELSE received[f]
      BY <2>1, <2>4
    <3>2. received'[f] \in Seq(Chars)
      BY <1>3, <3>1 DEF Kept
    <3>3. focus = "overwrite" => values[f] = IF f \in DOMAIN buffer THEN buffer[f] ELSE received[f]
      BY DEF Reassembled
    <3> QED BY <1>1, <1>2, <2>4, <3>1, <3>2, <3>3 DEF Reassembled
  <2> QED BY <2>3, <2>4
<1>5. BufferTypes'
  BY <1>1, <1>2, <1>4 DEF BufferTypes
<1>6. OwnerStands'
  BY <1>1 DEF OwnerStands
<1> QED BY <1>4, <1>5, <1>6

\* What was taken begins with what is kept, so the offset is where a character begins.
LEMMA OffsetStarts ==
  ASSUME BufferTypes, NEW f \in Fields, Reassembled(f), f \in DOMAIN buffer,
         focus = "diff", ~broken, grown[f]
  PROVE  /\ offset[f] \in Buffer!Starts(buffer[f])
         /\ Buffer!From(buffer[f], offset[f]) = SubSeq(buffer[f], Len(received[f]) + 1, Len(buffer[f]))
<1> DEFINE v == buffer[f]
           r == received[f]
<1>1. v \in Seq(Chars) /\ r \in Seq(Chars) /\ Kept(f) = v
  BY KeptTyped DEF Kept, BufferTypes
<1>2. Begins(r, v) /\ Buffer!Size(r) = offset[f]
  BY <1>1 DEF Reassembled
<1> HIDE DEF v, r
<1>3. Len(r) \in 0..Len(v) /\ r = SubSeq(v, 1, Len(r))
  BY <1>1, <1>2, PrefixBegins DEF Begins
<1>4. Buffer!Size(SubSeq(v, 1, Len(r))) = offset[f]
  BY <1>2, <1>3
<1>5. /\ offset[f] \in Buffer!Starts(v)
      /\ Buffer!From(v, offset[f]) = SubSeq(v, Len(r) + 1, Len(v))
  BY <1>1, <1>3, <1>4, RestFromBeginning
<1> QED BY <1>5 DEF v, r

\* What goes on from a beginning of a value makes up the value.
LEMMA BeginningAndRest ==
  ASSUME NEW s \in Seq(Chars), NEW t \in Seq(Chars), Begins(s, t)
  PROVE  s \o SubSeq(t, Len(s) + 1, Len(t)) = t
<1> DEFINE n == Len(s)
           m == Len(t)
           rest == SubSeq(t, n + 1, m)
<1>1. n \in Nat /\ m \in Nat /\ n <= m /\ \A k \in 1..n : s[k] = t[k]
  BY DEF Begins
<1>2. rest \in Seq(Chars) /\ Len(rest) = m - n /\ \A k \in 1..m - n : rest[k] = t[n + k]
  BY <1>1
<1> HIDE DEF rest
<1>3. s \o rest \in Seq(Chars) /\ Len(s \o rest) = n + Len(rest)
      /\ \A k \in 1..n + Len(rest) : (s \o rest)[k] = IF k <= n THEN s[k] ELSE rest[k - n]
  BY <1>2, ConcatProperties
<1> DEFINE whole == s \o rest
<1>4. Len(whole) = m /\ \A k \in 1..m : whole[k] = t[k]
  <2> HIDE DEF whole, n, m
  <2>3. Len(whole) = m
    BY <1>1, <1>2, <1>3 DEF whole
  <2> SUFFICES ASSUME NEW k \in 1..m PROVE whole[k] = t[k]
    BY <2>3
  <2>1. CASE k <= n
    BY <1>1, <1>2, <1>3, <2>1 DEF whole
  <2>2. CASE k > n
    <3>1. k - n \in 1..m - n /\ n + (k - n) = k
      BY <1>1, <2>2
    <3> QED BY <1>1, <1>2, <1>3, <2>2, <3>1 DEF whole
  <2> QED BY <1>1, <2>1, <2>2
<1>5. whole \in Seq(Chars) /\ t \in Seq(Chars)
  BY <1>3
<1> HIDE DEF whole
<1>6. whole = t
  BY <1>4, <1>5
<1> QED BY <1>6 DEF whole, rest, n, m

\* Diff: each field that only grew is sent from where it was taken to last.
LEMMA TakeDiffInv ==
  ASSUME BufferTypes, OwnerStands, \A f \in Fields : Reassembled(f), Buffer!TakeDiff, UNCHANGED focus
  PROVE  BufferTypes' /\ OwnerStands' /\ \A f \in Fields : Reassembled(f)'
<1> DEFINE next == [f \in DOMAIN buffer |-> Buffer!Size(buffer[f])]
<1>1. /\ focus = "diff" /\ ~broken
      /\ broken' = \E f \in DOMAIN buffer : offset[f] \notin Buffer!Starts(buffer[f])
      /\ broken' => UNCHANGED <<offset, received>>
      /\ ~broken' =>
           /\ offset' = [f \in Fields |-> IF f \in DOMAIN buffer THEN next[f] ELSE offset[f]]
           /\ received' = [f \in Fields |-> IF f \in DOMAIN buffer
                THEN received[f] \o Buffer!From(buffer[f], offset[f]) ELSE received[f]]
      /\ UNCHANGED <<buffer, values, grown>>
  BY DEF Buffer!TakeDiff, Buffer!TakeFrom
<1>2. \A f \in DOMAIN buffer : f \in Fields /\ buffer[f] \in Seq(Chars)
  BY DEF BufferTypes
<1>3. broken' => \E f \in Fields : ~grown'[f]
  <2> SUFFICES ASSUME broken' PROVE \E f \in Fields : ~grown[f]
    BY <1>1
  <2>1. PICK f \in DOMAIN buffer : offset[f] \notin Buffer!Starts(buffer[f])
    BY <1>1
  <2>2. f \in Fields /\ Reassembled(f)
    BY <1>2
  <2>3. ~grown[f]
    BY <1>1, <2>1, <2>2, OffsetStarts
  <2> QED BY <2>2, <2>3
<1>4. OwnerStands'
  BY <1>1, <1>3 DEF OwnerStands
<1>5. \A f \in Fields : Kept(f)' = Kept(f)
  BY <1>1 DEF Kept
<1> HIDE DEF next
<1>6. ASSUME NEW f \in Fields, ~broken', f \in DOMAIN buffer
      PROVE  received'[f] \in Seq(Chars)
  <2> DEFINE v == buffer[f]
  <2>1. v \in Seq(Chars) /\ offset[f] \in Buffer!Starts(v) /\ received[f] \in Seq(Chars)
    BY <1>1, <1>2, <1>6 DEF BufferTypes
  <2> HIDE DEF v
  <2>2. PICK i \in 0..Len(v) : offset[f] = Buffer!Size(SubSeq(v, 1, i))
    BY <2>1 DEF Buffer!Starts
  <2>3. Buffer!From(v, offset[f]) = SubSeq(v, i + 1, Len(v))
    BY <2>1, <2>2, RestFromBeginning
  <2>4. Buffer!From(v, offset[f]) \in Seq(Chars)
    BY <2>1, <2>3
  <2>5. received[f] \o Buffer!From(v, offset[f]) \in Seq(Chars)
    BY <2>1, <2>4, ConcatProperties
  <2> QED BY <1>1, <1>6, <2>5 DEF v
<1>7. BufferTypes'
  <2>1. CASE broken'
    BY <1>1, <2>1 DEF BufferTypes
  <2>2. CASE ~broken'
    <3>1. received' \in [Fields -> Seq(Chars)]
      BY <1>1, <1>6, <2>2 DEF BufferTypes
    <3>2. DOMAIN offset' = Fields /\ offset' = [f \in Fields |-> offset'[f]]
      BY <1>1, <2>2
    <3> QED BY <1>1, <2>2, <3>1, <3>2 DEF BufferTypes
  <2> QED BY <2>1, <2>2
<1>8. ASSUME NEW f \in Fields, ~broken', grown'[f]
      PROVE  /\ Kept(f)' = values'[f]
             /\ Begins(received'[f], Kept(f)')
             /\ Buffer!Size(received'[f]) = offset'[f]
  <2>1. grown[f] /\ Kept(f) = values[f] /\ Begins(received[f], Kept(f)) /\ Buffer!Size(received[f]) = offset[f]
    BY <1>1, <1>8 DEF Reassembled
  <2>2. CASE f \in DOMAIN buffer
    <3>1. buffer[f] \in Seq(Chars) /\ received[f] \in Seq(Chars) /\ Kept(f) = buffer[f]
      BY <1>2, <2>2 DEF BufferTypes, Kept
    <3>2. Buffer!From(buffer[f], offset[f]) = SubSeq(buffer[f], Len(received[f]) + 1, Len(buffer[f]))
      BY <1>1, <2>1, <2>2, OffsetStarts
    <3>3. received'[f] = buffer[f]
      <4>1. received[f] \o SubSeq(buffer[f], Len(received[f]) + 1, Len(buffer[f])) = buffer[f]
        BY <2>1, <3>1, BeginningAndRest
      <4>2. received'[f] = received[f] \o Buffer!From(buffer[f], offset[f])
        BY <1>1, <1>8, <2>2
      <4> QED BY <3>2, <4>1, <4>2
    <3>4. Begins(buffer[f], buffer[f])
      BY <3>1 DEF Begins
    <3>5. offset'[f] = Buffer!Size(buffer[f])
      BY <1>1, <1>8, <2>2 DEF next
    <3> QED BY <1>1, <1>5, <2>1, <3>1, <3>3, <3>4, <3>5
  <2>3. CASE f \notin DOMAIN buffer
    BY <1>1, <1>5, <1>8, <2>1, <2>3
  <2> QED BY <2>2, <2>3
<1>9. \A f \in Fields : Reassembled(f)'
  BY <1>1, <1>8 DEF Reassembled
<1> QED BY <1>4, <1>7, <1>9

\* A value of the model is a sequence of characters.
LEMMA ValuesAreSequences == Buffer!Values \subseteq Seq(Chars)
<1> SUFFICES ASSUME NEW v \in Buffer!Values PROVE v \in Seq(Chars)
  OBVIOUS
<1>1. \E n \in 0..MaxLength : v \in [1..n -> Chars]
  BY DEF Buffer!Values, Buffer!BoundedSeq, Buffer!SeqOf, Chars
<1>2. PICK n \in 0..MaxLength : v \in [1..n -> Chars]
  BY <1>1
<1>3. n \in Nat
  BY BufferAssumption
<1> QED BY <1>2, <1>3

\* No step of the buffer breaks it, and no other service touches the buffer.
LEMMA BufferNextInv == BufferIInv /\ [ServicesNext]_allVars => BufferIInv'
<1> SUFFICES ASSUME BufferIInv, [ServicesNext]_allVars, focus' \in {"append", "diff", "overwrite"}
             PROVE  BufferTypes' /\ OwnerStands' /\ \A f \in Fields : Reassembled(f)'
  BY DEF BufferIInv
<1>1. UNCHANGED focus
  BY DEF ServicesNext, allVars
<1>2. BufferTypes /\ OwnerStands /\ \A f \in Fields : Reassembled(f)
  BY <1>1 DEF BufferIInv
<1>3. CASE Buffer!Next
  <2>1. CASE \E f \in Fields, v \in Buffer!Values : Buffer!push(f, v)
    <3>1. PICK f \in Fields, v \in Buffer!Values : Buffer!push(f, v)
      BY <2>1
    <3>2. v \in Seq(Chars)
      BY ValuesAreSequences
    <3> QED BY <1>1, <1>2, <3>1, <3>2, PushInv
  <2>2. CASE Buffer!TakeDiff
    BY <1>1, <1>2, <2>2, TakeDiffInv
  <2>3. CASE Buffer!TakeAll
    BY <1>1, <1>2, <2>3, TakeAllInv
  <2> QED BY <1>3, <2>1, <2>2, <2>3 DEF Buffer!Next
<1>4. CASE UNCHANGED bufferedVars
  <2>1. UNCHANGED <<buffer, offset, broken, values, received, grown>>
    BY <1>4 DEF bufferedVars
  <2>2. BufferTypes' /\ OwnerStands'
    BY <1>1, <1>2, <2>1 DEF BufferTypes, OwnerStands
  <2>3. \A f \in Fields : Reassembled(f)'
    BY <1>1, <1>2, <2>1 DEF Reassembled, Kept
  <2> QED BY <2>2, <2>3
<1> QED BY <1>1, <1>3, <1>4 DEF ServicesNext, allVars

\* Nothing pushed to a progress buffer is lost, in any of its modes, whatever the
\* order of pushes and takes and however long the values: and taking panics only
\* in diff mode, after a value that did not begin with the one before it.
THEOREM BufferIsReassembled == ServicesSpec => []BufferReassembles
<1>1. ServicesSpec => []BufferIInv
  BY BufferInitInv, BufferNextInv, PTL DEF ServicesSpec
<1> QED BY <1>1, BufferImplies, PTL
==============================================================================
