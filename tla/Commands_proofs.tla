---------------------------- MODULE Commands_proofs ----------------------------
(***************************************************************************)
(* What the commands keep, for every value of the constants.               *)
(***************************************************************************)
EXTENDS Commands, OperatorTheorems, FiniteSetTheorems, SequenceTheorems

----------------------------------------------------------------------------
(* Temporary files *)

\* Where an HTTP run is, how much time it has spent, and what that says of its
\* files.  Only while curl runs are there any, and then dispatch()'s timeout is
\* still to come.
FilesInv ==
  /\ ~Is("http") => files = {}
  /\ Is("http") =>
       /\ files # {} => pc = "curl"
       /\ pc \in {"new", "dig", "curl"} => result = Nothing
       /\ pc \in {"new", "dig"} => clock = 0
       /\ pc = "curl" => clock \in 0..5 /\ local.limit = 15

\* A run begins without files.
LEMMA InitFiles == Init => FilesInv
  BY DEF Init, Started, FilesInv, Is

\* Only http has files.
LEMMA OtherCommandsKeepFiles ==
  FilesInv /\ (PingNext \/ TracerouteNext \/ DnsNext \/ MtrNext \/ TcpNext \/ UnknownType)
    => ~Is("http") /\ job' = job /\ files' = files
<1> SUFFICES ASSUME FilesInv, PingNext \/ TracerouteNext \/ DnsNext \/ MtrNext \/ TcpNext \/ UnknownType
             PROVE  ~Is("http") /\ job' = job /\ files' = files
  OBVIOUS
<1>1. CASE PingNext
  BY <1>1 DEF PingNext, Reject, Spawn, SpawnFails, ReadFails, PingLine, PingEnds, Is
<1>2. CASE TracerouteNext
  BY <1>2 DEF TracerouteNext, Reject, Spawn, SpawnFails, ReadFails, TracerouteLine, TracerouteEnds, Is
<1>3. CASE DnsNext
  BY <1>3 DEF DnsNext, Reject, Spawn, SpawnFails, ReadFails, DnsEnds, Is
<1>4. CASE MtrNext
  BY <1>4 DEF MtrNext, Reject, Spawn, SpawnFails, MtrCollect, MtrLookup, Is
<1>5. CASE TcpNext
  BY <1>5 DEF TcpNext, tcp_ping_single, tcp_ping, Is
<1>6. CASE UnknownType
  BY <1>6 DEF UnknownType, Is
<1> QED BY <1>1, <1>2, <1>3, <1>4, <1>5, <1>6

\* Each step of http keeps to its files.
LEMMA HttpKeepsFiles == FilesInv /\ HttpNext => FilesInv'
<1> SUFFICES ASSUME FilesInv, HttpNext PROVE FilesInv'
  OBVIOUS
<1> USE DEF FilesInv, Is
<1>1. CASE Reject("http", HttpValid)
  BY <1>1 DEF Reject, Return
<1>2. CASE HttpResolve
  BY <1>2 DEF HttpResolve, Curl
<1>3. CASE HttpResolved
  BY <1>3 DEF HttpResolved, TakesUpTo, Return, Curl
<1>4. CASE HttpUnresolved
  BY <1>4 DEF HttpUnresolved, Return
<1>5. CASE CurlWrites
  BY <1>5 DEF CurlWrites
<1>6. CASE CurlFails
  BY <1>6 DEF CurlFails, CurlGone, Return
<1>7. CASE CurlEnds(CurlOutputs)
  BY <1>7 DEF CurlEnds, Return
<1>8. CASE SClient
  BY <1>8 DEF SClient, Return
<1>9. CASE X509
  BY <1>9 DEF X509, Return
<1> QED BY <1>1, <1>2, <1>3, <1>4, <1>5, <1>6, <1>7, <1>8, <1>9 DEF HttpNext

\* So does every step.
LEMMA NextFiles == FilesInv /\ [Next]_vars => FilesInv'
<1> SUFFICES ASSUME FilesInv, [Next]_vars PROVE FilesInv'
  OBVIOUS
<1>1. CASE PingNext \/ TracerouteNext \/ DnsNext \/ MtrNext \/ TcpNext \/ UnknownType
  BY <1>1, OtherCommandsKeepFiles DEF FilesInv, Is
<1>2. CASE HttpNext
  BY <1>2, HttpKeepsFiles
<1>3. CASE Drop
  BY <1>3, TimeoutAssumption DEF Drop, MayReach, Return, FilesInv, Is
<1>4. CASE Emit
  BY <1>4 DEF Emit, FilesInv, Is
<1>5. CASE UNCHANGED vars
  BY <1>5 DEF vars, FilesInv, Is
<1> QED BY <1>1, <1>2, <1>3, <1>4, <1>5 DEF Next

\* However an HTTP run ends, its temporary files are gone: the two steps before
\* curl's end take less than MEASUREMENT_TIMEOUT, for every such timeout.
THEOREM FilesAreRemoved == Spec => []NoTempFilesLeft
<1>1. FilesInv => NoTempFilesLeft
  BY DEF FilesInv, NoTempFilesLeft
<1> QED BY <1>1, InitFiles, NextFiles, PTL DEF Spec

----------------------------------------------------------------------------
(* The addresses of jobs *)

\* An address, or none.
Ip == Address \cup {NoIp}

\* What has none is neither private nor reserved.
LEMMA NoneIsReserved ==
  ASSUME NEW ip, ip.v = 0
  PROVE  ~Reserved(ip) /\ ~is_ip_private(ip)
<1>1. ip \notin LocalIps
  BY LocalIpsAssumption
<1>2. \A net \in PRIVATE_RANGES : net.v # 0
  BY DEF PRIVATE_RANGES, Net4, Net6
<1>3. \A r \in ReservedIntervals : r[1].v # 0
  BY DEF ReservedIntervals, Interval4, Interval6, IPv6
<1> QED BY <1>1, <1>2, <1>3 DEF Reserved, is_ip_private, canonicalize, InNet, Within

\* They agree on no address too.
LEMMA PrivateOrReserved == \A ip \in Ip : is_ip_private(ip) <=> Reserved(ip)
  BY PrivateIsReserved, NoneIsReserved DEF Ip, NoIp

JobType(j) ==
  /\ j.target.ip \in Ip
  /\ j.resolver.ip \in Ip
  /\ j.resolves \subseteq Ip

\* Four octets make an address.
LEMMA IPv4IsAddress ==
  ASSUME NEW a \in Octet, NEW b \in Octet, NEW c \in Octet, NEW d \in Octet
  PROVE  IPv4(a, b, c, d) \in Address
  BY InOctets DEF IPv4, Address

\* Eight groups make one.
LEMMA IPv6IsAddress ==
  ASSUME NEW s \in Groups
  PROVE  IPv6(s) \in Address
  BY DEF IPv6, Address

\* Both ends of an interval are addresses.
HasEnds(r) == r[1] \in Address /\ r[2] \in Address

\* The ends of an interval of IPv4 are addresses.
LEMMA EndsOfInterval4 ==
  ASSUME NEW s \in Octets, NEW t \in Octets
  PROVE  HasEnds(Interval4(s, t))
  BY DEF HasEnds, Interval4, Address

\* So are those of every one there is.
LEMMA EndsOfIntervals4 == \A r \in Intervals4 : HasEnds(r)
<1>1. 0 \in Octet /\ 2 \in Octet /\ 10 \in Octet /\ 16 \in Octet /\ 18 \in Octet /\ 19 \in Octet /\ 31 \in Octet /\ 51 \in Octet
      /\ 64 \in Octet /\ 88 \in Octet /\ 99 \in Octet /\ 100 \in Octet /\ 113 \in Octet /\ 127 \in Octet /\ 168 \in Octet /\ 169 \in Octet
      /\ 172 \in Octet /\ 192 \in Octet /\ 198 \in Octet /\ 203 \in Octet /\ 224 \in Octet /\ 254 \in Octet /\ 255 \in Octet
  BY DEF Octet
<1>2. HasEnds(Interval4(<<0, 0, 0, 0>>, <<0, 255, 255, 255>>))
  <2>1. <<0, 0, 0, 0>> \in Octets
    BY <1>1, InOctets, ZenonT(30)
  <2>2. <<0, 255, 255, 255>> \in Octets
    BY <1>1, InOctets, ZenonT(30)
  <2> QED BY <2>1, <2>2, EndsOfInterval4, ZenonT(30)
<1>3. HasEnds(Interval4(<<10, 0, 0, 0>>, <<10, 255, 255, 255>>))
  <2>1. <<10, 0, 0, 0>> \in Octets
    BY <1>1, InOctets, ZenonT(30)
  <2>2. <<10, 255, 255, 255>> \in Octets
    BY <1>1, InOctets, ZenonT(30)
  <2> QED BY <2>1, <2>2, EndsOfInterval4, ZenonT(30)
<1>4. HasEnds(Interval4(<<100, 64, 0, 0>>, <<100, 127, 255, 255>>))
  <2>1. <<100, 64, 0, 0>> \in Octets
    BY <1>1, InOctets, ZenonT(30)
  <2>2. <<100, 127, 255, 255>> \in Octets
    BY <1>1, InOctets, ZenonT(30)
  <2> QED BY <2>1, <2>2, EndsOfInterval4, Zenon
<1>5. HasEnds(Interval4(<<127, 0, 0, 0>>, <<127, 255, 255, 255>>))
  <2>1. <<127, 0, 0, 0>> \in Octets
    BY <1>1, InOctets, ZenonT(30)
  <2>2. <<127, 255, 255, 255>> \in Octets
    BY <1>1, InOctets, ZenonT(30)
  <2> QED BY <2>1, <2>2, EndsOfInterval4, ZenonT(30)
<1>6. HasEnds(Interval4(<<169, 254, 0, 0>>, <<169, 254, 255, 255>>))
  <2>1. <<169, 254, 0, 0>> \in Octets
    BY <1>1, InOctets, ZenonT(30)
  <2>2. <<169, 254, 255, 255>> \in Octets
    BY <1>1, InOctets, ZenonT(30)
  <2> QED BY <2>1, <2>2, EndsOfInterval4, ZenonT(30)
<1>7. HasEnds(Interval4(<<172, 16, 0, 0>>, <<172, 31, 255, 255>>))
  <2>1. <<172, 16, 0, 0>> \in Octets
    BY <1>1, InOctets, ZenonT(30)
  <2>2. <<172, 31, 255, 255>> \in Octets
    BY <1>1, InOctets, ZenonT(30)
  <2> QED BY <2>1, <2>2, EndsOfInterval4, Zenon
<1>8. HasEnds(Interval4(<<192, 0, 0, 0>>, <<192, 0, 0, 255>>))
  <2>1. <<192, 0, 0, 0>> \in Octets
    BY <1>1, InOctets, ZenonT(30)
  <2>2. <<192, 0, 0, 255>> \in Octets
    BY <1>1, InOctets, ZenonT(30)
  <2> QED BY <2>1, <2>2, EndsOfInterval4, Zenon
<1>9. HasEnds(Interval4(<<192, 0, 2, 0>>, <<192, 0, 2, 255>>))
  <2>1. <<192, 0, 2, 0>> \in Octets
    BY <1>1, InOctets, ZenonT(30)
  <2>2. <<192, 0, 2, 255>> \in Octets
    BY <1>1, InOctets, ZenonT(30)
  <2> QED BY <2>1, <2>2, EndsOfInterval4, Zenon
<1>10. HasEnds(Interval4(<<192, 88, 99, 0>>, <<192, 88, 99, 255>>))
  <2>1. <<192, 88, 99, 0>> \in Octets
    BY <1>1, InOctets, ZenonT(30)
  <2>2. <<192, 88, 99, 255>> \in Octets
    BY <1>1, InOctets, ZenonT(30)
  <2> QED BY <2>1, <2>2, EndsOfInterval4, ZenonT(30)
<1>11. HasEnds(Interval4(<<192, 168, 0, 0>>, <<192, 168, 255, 255>>))
  <2>1. <<192, 168, 0, 0>> \in Octets
    BY <1>1, InOctets, ZenonT(30)
  <2>2. <<192, 168, 255, 255>> \in Octets
    BY <1>1, InOctets, ZenonT(30)
  <2> QED BY <2>1, <2>2, EndsOfInterval4, ZenonT(30)
<1>12. HasEnds(Interval4(<<198, 18, 0, 0>>, <<198, 19, 255, 255>>))
  <2>1. <<198, 18, 0, 0>> \in Octets
    BY <1>1, InOctets, ZenonT(30)
  <2>2. <<198, 19, 255, 255>> \in Octets
    BY <1>1, InOctets, ZenonT(30)
  <2> QED BY <2>1, <2>2, EndsOfInterval4, Zenon
<1>13. HasEnds(Interval4(<<198, 51, 100, 0>>, <<198, 51, 100, 255>>))
  <2>1. <<198, 51, 100, 0>> \in Octets
    BY <1>1, InOctets, ZenonT(30)
  <2>2. <<198, 51, 100, 255>> \in Octets
    BY <1>1, InOctets, ZenonT(30)
  <2> QED BY <2>1, <2>2, EndsOfInterval4, Zenon
<1>14. HasEnds(Interval4(<<203, 0, 113, 0>>, <<203, 0, 113, 255>>))
  <2>1. <<203, 0, 113, 0>> \in Octets
    BY <1>1, InOctets, ZenonT(30)
  <2>2. <<203, 0, 113, 255>> \in Octets
    BY <1>1, InOctets, ZenonT(30)
  <2> QED BY <2>1, <2>2, EndsOfInterval4, Zenon
<1>15. HasEnds(Interval4(<<224, 0, 0, 0>>, <<255, 255, 255, 255>>))
  <2>1. <<224, 0, 0, 0>> \in Octets
    BY <1>1, InOctets, ZenonT(30)
  <2>2. <<255, 255, 255, 255>> \in Octets
    BY <1>1, InOctets, ZenonT(30)
  <2> QED BY <2>1, <2>2, EndsOfInterval4, ZenonT(30)
<1> HIDE DEF Octet
<1> QED BY <1>2, <1>3, <1>4, <1>5, <1>6, <1>7, <1>8, <1>9, <1>10, <1>11, <1>12, <1>13, <1>14, <1>15 DEF Intervals4

\* The ends of an interval of IPv6 are addresses.
LEMMA EndsOfInterval6 ==
  ASSUME NEW prefix \in Seq(Group), NEW last \in Group, Len(prefix) \in 1..8
  PROVE  HasEnds(Interval6(prefix, last))
<1> DEFINE n == Len(prefix)
<1>1. 0 \in Group /\ 65535 \in Group
  BY Six DEF Group
<1>2. Groups = [1..8 -> Group]
  <2>1. Groups = [Places(6) -> Group]
    BY SegmentsAreGroups DEF Segments, Group
  <2>2. Places(6) = 1..8
    BY Six
  <2> QED BY <2>1, <2>2
<1>3. [i \in 1..8 |-> IF i <= n THEN prefix[i] ELSE 0] \in [1..8 -> Group]
  BY <1>1
<1>4. [i \in 1..8 |-> IF i < n THEN prefix[i] ELSE IF i = n THEN last ELSE 65535] \in [1..8 -> Group]
  BY <1>1
<1> QED BY <1>2, <1>3, <1>4, IPv6IsAddress, SMTT(20), ZenonT(20) DEF HasEnds, Interval6

\* So are those of every one there is.
LEMMA EndsOfIntervals6 == \A r \in Intervals6 : HasEnds(r)
<1>1. 0 \in Group /\ 1 \in Group /\ 16 \in Group /\ 47 \in Group /\ 100 \in Group /\ 256 \in Group /\ 3512 \in Group
      /\ 8193 \in Group /\ 8194 \in Group /\ 64512 \in Group /\ 65023 \in Group /\ 65152 \in Group /\ 65215 \in Group /\ 65280 \in Group
      /\ 65435 \in Group /\ 65535 \in Group
  BY Six DEF Group
<1>2. HasEnds(Interval6(<<0, 0, 0, 0, 0, 0, 0, 0>>, 1))
  <2> DEFINE prefix == <<0, 0, 0, 0, 0, 0, 0, 0>>
             last == 1
  <2>1. 0 \in Group
    BY <1>1
  <2>2. prefix \in Seq(Group) /\ Len(prefix) \in 1..8
    BY <2>1
  <2>3. last \in Group
    BY <1>1
  <2> HIDE DEF prefix, last
  <2>4. HasEnds(Interval6(prefix, last))
    BY <2>2, <2>3, EndsOfInterval6, Zenon
  <2> QED BY <2>4 DEF prefix, last
<1>3. HasEnds(Interval6(<<100, 65435, 1>>, 1))
  <2> DEFINE prefix == <<100, 65435, 1>>
             last == 1
  <2>1. 1 \in Group /\ 100 \in Group /\ 65435 \in Group
    BY <1>1
  <2>2. prefix \in Seq(Group) /\ Len(prefix) \in 1..8
    BY <2>1
  <2>3. last \in Group
    BY <1>1
  <2> HIDE DEF prefix, last
  <2>4. HasEnds(Interval6(prefix, last))
    BY <2>2, <2>3, EndsOfInterval6, Zenon
  <2> QED BY <2>4 DEF prefix, last
<1>4. HasEnds(Interval6(<<256, 0, 0, 0>>, 0))
  <2> DEFINE prefix == <<256, 0, 0, 0>>
             last == 0
  <2>1. 0 \in Group /\ 256 \in Group
    BY <1>1
  <2>2. prefix \in Seq(Group) /\ Len(prefix) \in 1..8
    BY <2>1
  <2>3. last \in Group
    BY <1>1
  <2> HIDE DEF prefix, last
  <2>4. HasEnds(Interval6(prefix, last))
    BY <2>2, <2>3, EndsOfInterval6, Zenon
  <2> QED BY <2>4 DEF prefix, last
<1>5. HasEnds(Interval6(<<8193, 0>>, 0))
  <2> DEFINE prefix == <<8193, 0>>
             last == 0
  <2>1. 0 \in Group /\ 8193 \in Group
    BY <1>1
  <2>2. prefix \in Seq(Group) /\ Len(prefix) \in 1..8
    BY <2>1
  <2>3. last \in Group
    BY <1>1
  <2> HIDE DEF prefix, last
  <2>4. HasEnds(Interval6(prefix, last))
    BY <2>2, <2>3, EndsOfInterval6, Zenon
  <2> QED BY <2>4 DEF prefix, last
<1>6. HasEnds(Interval6(<<8193, 16>>, 47))
  <2> DEFINE prefix == <<8193, 16>>
             last == 47
  <2>1. 16 \in Group /\ 8193 \in Group
    BY <1>1
  <2>2. prefix \in Seq(Group) /\ Len(prefix) \in 1..8
    BY <2>1
  <2>3. last \in Group
    BY <1>1
  <2> HIDE DEF prefix, last
  <2>4. HasEnds(Interval6(prefix, last))
    BY <2>2, <2>3, EndsOfInterval6, Zenon
  <2> QED BY <2>4 DEF prefix, last
<1>7. HasEnds(Interval6(<<8193, 3512>>, 3512))
  <2> DEFINE prefix == <<8193, 3512>>
             last == 3512
  <2>1. 3512 \in Group /\ 8193 \in Group
    BY <1>1
  <2>2. prefix \in Seq(Group) /\ Len(prefix) \in 1..8
    BY <2>1
  <2>3. last \in Group
    BY <1>1
  <2> HIDE DEF prefix, last
  <2>4. HasEnds(Interval6(prefix, last))
    BY <2>2, <2>3, EndsOfInterval6, Zenon
  <2> QED BY <2>4 DEF prefix, last
<1>8. HasEnds(Interval6(<<8194>>, 8194))
  <2> DEFINE prefix == <<8194>>
             last == 8194
  <2>1. 8194 \in Group
    BY <1>1
  <2>2. prefix \in Seq(Group) /\ Len(prefix) \in 1..8
    BY <2>1
  <2>3. last \in Group
    BY <1>1
  <2> HIDE DEF prefix, last
  <2>4. HasEnds(Interval6(prefix, last))
    BY <2>2, <2>3, EndsOfInterval6, Zenon
  <2> QED BY <2>4 DEF prefix, last
<1>9. HasEnds(Interval6(<<64512>>, 65023))
  <2> DEFINE prefix == <<64512>>
             last == 65023
  <2>1. 64512 \in Group
    BY <1>1
  <2>2. prefix \in Seq(Group) /\ Len(prefix) \in 1..8
    BY <2>1
  <2>3. last \in Group
    BY <1>1
  <2> HIDE DEF prefix, last
  <2>4. HasEnds(Interval6(prefix, last))
    BY <2>2, <2>3, EndsOfInterval6, Zenon
  <2> QED BY <2>4 DEF prefix, last
<1>10. HasEnds(Interval6(<<65152>>, 65215))
  <2> DEFINE prefix == <<65152>>
             last == 65215
  <2>1. 65152 \in Group
    BY <1>1
  <2>2. prefix \in Seq(Group) /\ Len(prefix) \in 1..8
    BY <2>1
  <2>3. last \in Group
    BY <1>1
  <2> HIDE DEF prefix, last
  <2>4. HasEnds(Interval6(prefix, last))
    BY <2>2, <2>3, EndsOfInterval6, Zenon
  <2> QED BY <2>4 DEF prefix, last
<1>11. HasEnds(Interval6(<<65280>>, 65535))
  <2> DEFINE prefix == <<65280>>
             last == 65535
  <2>1. 65280 \in Group
    BY <1>1
  <2>2. prefix \in Seq(Group) /\ Len(prefix) \in 1..8
    BY <2>1
  <2>3. last \in Group
    BY <1>1
  <2> HIDE DEF prefix, last
  <2>4. HasEnds(Interval6(prefix, last))
    BY <2>2, <2>3, EndsOfInterval6, Zenon
  <2> QED BY <2>4 DEF prefix, last
<1> QED BY <1>2, <1>3, <1>4, <1>5, <1>6, <1>7, <1>8, <1>9, <1>10, <1>11 DEF Intervals6

\* The reserved intervals are those of IPv4 and of IPv6.
LEMMA OnlyIntervals == ReservedIntervals = Intervals4 \cup Intervals6
  BY DEF ReservedIntervals, Intervals4, Intervals6

\* The ends of every reserved interval are addresses.
LEMMA EndsOfReserved == \A r \in ReservedIntervals : HasEnds(r)
  BY OnlyIntervals, EndsOfIntervals4, EndsOfIntervals6, Zenon

\* What SelectLastInSeq and SelectInSeq choose: a set of numbers up to a bound
\* has a greatest and a least.
LEMMA MaxIsMember ==
  ASSUME NEW n \in Nat, NEW S \in SUBSET (0..n), S # {}
  PROVE  Max(S) \in S /\ \A x \in S : x <= Max(S)
<1> DEFINE HasMax(T) == \E x \in T : \A y \in T : x >= y
           N == {m \in Nat : \A T \in SUBSET (0..m) : T # {} => HasMax(T)}
<1>1. 0 \in N
  <2>1. ASSUME NEW T \in SUBSET (0..0), T # {} PROVE HasMax(T)
    <3>1. \A x \in T : x = 0
      BY <2>1
    <3>2. 0 \in T
      BY <2>1, <3>1
    <3>3. 0 >= 0
      OBVIOUS
    <3> QED BY <3>1, <3>2, <3>3
  <2> HIDE DEF HasMax
  <2> QED BY <2>1
<1>2. ASSUME NEW m \in Nat, m \in N PROVE m + 1 \in N
  <2>1. ASSUME NEW T \in SUBSET (0..m + 1), T # {} PROVE HasMax(T)
    <3>1. CASE m + 1 \in T
      BY <3>1
    <3>2. CASE m + 1 \notin T
      <4>1. T \in SUBSET (0..m)
        BY <3>2
      <4> QED BY <1>2, <2>1, <4>1
    <3> QED BY <3>1, <3>2
  <2> HIDE DEF HasMax
  <2> QED BY <2>1
<1> HIDE DEF N
<1>3. \A m \in Nat : m \in N
  BY <1>1, <1>2, SetInduction
<1>4. HasMax(S)
  BY <1>3 DEF N
<1> QED BY <1>4 DEF Max

\* And a least one.
LEMMA MinIsMember ==
  ASSUME NEW n \in Nat, NEW S \in SUBSET (0..n), S # {}
  PROVE  Min(S) \in S /\ \A x \in S : Min(S) <= x
<1> DEFINE HasMin(T) == \E x \in T : \A y \in T : x <= y
           N == {m \in Nat : \A T \in SUBSET (0..m) : T # {} => HasMin(T)}
<1>1. 0 \in N
  <2>1. ASSUME NEW T \in SUBSET (0..0), T # {} PROVE HasMin(T)
    <3>1. \A x \in T : x = 0
      BY <2>1
    <3>2. 0 \in T
      BY <2>1, <3>1
    <3>3. 0 <= 0
      OBVIOUS
    <3> QED BY <3>1, <3>2, <3>3
  <2> HIDE DEF HasMin
  <2> QED BY <2>1
<1>2. ASSUME NEW m \in Nat, m \in N PROVE m + 1 \in N
  <2>1. ASSUME NEW T \in SUBSET (0..m + 1), T # {} PROVE HasMin(T)
    <3>1. CASE T = {m + 1}
      BY <3>1
    <3>2. CASE T # {m + 1}
      <4> DEFINE R == T \ {m + 1}
      <4>1. R \in SUBSET (0..m) /\ R # {}
        BY <2>1, <3>2
      <4>2. PICK x \in R : \A y \in R : x <= y
        BY <1>2, <4>1
      <4>3. \A y \in T : x <= y
        BY <4>1, <4>2
      <4> QED BY <4>2, <4>3
    <3> QED BY <3>1, <3>2
  <2> HIDE DEF HasMin
  <2> QED BY <2>1
<1> HIDE DEF N
<1>3. \A m \in Nat : m \in N
  BY <1>1, <1>2, SetInduction
<1>4. HasMin(S)
  BY <1>3 DEF N
<1> QED BY <1>4 DEF Min

\* A version and its segments make an address.
LEMMA AddressOfSegments ==
  ASSUME NEW v \in {4, 6}, NEW s \in Segments(v)
  PROVE  [v |-> v, seg |-> s] \in Address
<1>1. CASE v = 4
  <2>1. Segments(4) = Octets
    BY DEF Segments, Octets, Places, Top
  <2> QED BY <1>1, <2>1 DEF Address
<1>2. CASE v = 6
  BY <1>2, SegmentsAreGroups DEF Address
<1> QED BY <1>1, <1>2

\* An address is a version and its segments.
LEMMA SegmentsOfAddress ==
  ASSUME NEW ip \in Address
  PROVE  ip.v \in {4, 6} /\ ip.seg \in Segments(ip.v) /\ ip = [v |-> ip.v, seg |-> ip.seg]
<1>1. CASE ip.v = 4
  <2>1. Segments(4) = Octets
    BY DEF Segments, Octets, Places, Top
  <2> QED BY <1>1, <2>1 DEF Address
<1>2. CASE ip.v = 6
  BY <1>2, SegmentsAreGroups DEF Address
<1> QED BY <1>1, <1>2 DEF Address

\* What comes just before or after an address is one.
LEMMA BesideIsAddress ==
  ASSUME NEW ip \in Address, NEW step \in {-1, 1}
  PROVE  Beside(ip, step) \in Address
<1> DEFINE v == ip.v
           s == ip.seg
           I == {i \in 1..Len(s) : s[i] + step \in 0..Top(v)}
           last == IF I # {} THEN Max(I) ELSE 0
           t == [i \in DOMAIN s |->
                  IF i < last THEN s[i] ELSE IF i = last THEN s[i] + step
                  ELSE IF step = 1 THEN 0 ELSE Top(v)]
<1>1. v \in {4, 6} /\ s \in Segments(v) /\ ip = [v |-> v, seg |-> s]
  BY SegmentsOfAddress, Zenon
<1>2. /\ Top(v) = IF v = 4 THEN 255 ELSE 65535
      /\ Top(v) \in Nat
  BY <1>1 DEF Top
<1>3. Beside(ip, step) = IF last = 0 THEN ip ELSE [v |-> v, seg |-> t]
  <2>1. Beside(ip, step) = IF last = 0 THEN ip ELSE [ip EXCEPT !.seg = t]
    BY <1>2 DEF Beside, SelectLastInSeq
  <2> HIDE DEF v, s, I, last, t
  <2> QED BY <1>1, <2>1
<1> HIDE DEF v, s
<1>4. DOMAIN s = Places(v) /\ \A i \in Places(v) : s[i] \in 0..Top(v)
  BY <1>1 DEF Segments
<1>5. CASE last # 0
  <2>1. I # {} /\ last = Max(I)
    BY <1>5
  <2>2. last \in I
    <3>1. DOMAIN s = 1..Len(s) /\ Len(s) \in Nat
      BY <1>1, <1>4 DEF Segments, Places
    <3>2. I \in SUBSET (0..Len(s))
      BY <3>1
    <3> HIDE DEF I
    <3> QED BY <2>1, <3>1, <3>2, MaxIsMember
  <2>3. s[last] + step \in 0..Top(v)
    BY <2>2
  <2> HIDE DEF I, last
  <2>4. \A i \in Places(v) : t[i] \in 0..Top(v)
    BY <1>2, <1>4, <2>3
  <2>5. t \in Segments(v)
    BY <1>4, <2>4 DEF Segments
  <2> HIDE DEF t
  <2> QED BY <1>1, <1>3, <1>5, <2>5, AddressOfSegments
<1>6. CASE last = 0
  BY <1>3, <1>6
<1> QED BY <1>5, <1>6

\* Two octets make a group.
LEMMA GroupOfOctets ==
  ASSUME NEW a \in Octet, NEW b \in Octet
  PROVE  a * 256 + b \in Group
<1> DEFINE x == a * 256 + b
<1>1. a \in Int /\ 0 <= a /\ a <= 255 /\ b \in Int /\ 0 <= b /\ b <= 255
  BY DEF Octet
<1>2. x \in Int /\ 0 <= x /\ x <= 65535
  BY <1>1
<1> HIDE DEF x
<1>3. Top(6) = 65535
  BY Six
<1>4. x \in 0..Top(6)
  BY <1>2, <1>3
<1> QED BY <1>4 DEF Group, x

\* What stands before an embedded IPv4 address are groups.
LEMMA PrefixesOfGroups == \A m \in EmbeddingPrefixes : \A i \in 1..6 : m[i] \in Group
<1> DEFINE m == <<0, 0, 0, 0, 0, 65535>>
           n == <<100, 65435, 0, 0, 0, 0>>
<1>1. 0 \in Group /\ 65535 \in Group /\ 100 \in Group /\ 65435 \in Group
  BY Six DEF Group
<1>2. \A i \in 1..6 : m[i] \in Group
  BY <1>1
<1>3. \A i \in 1..6 : n[i] \in Group
  BY <1>1
<1>4. EmbeddingPrefixes = {m, n}
  BY DEF EmbeddingPrefixes
<1> HIDE DEF m, n
<1> QED BY <1>2, <1>3, <1>4

\* An embedded IPv4 address is an IPv6 address.
LEMMA MappedIsAddress ==
  ASSUME NEW ip \in Address, ip.v = 4, NEW m \in EmbeddingPrefixes
  PROVE  Mapped(ip, m) \in Address
<1> DEFINE s == ip.seg
           x == s[1] * 256 + s[2]
           y == s[3] * 256 + s[4]
           n == <<x, y>>
           t == m \o n
<1>1. s \in Octets
  BY DEF Address
<1> HIDE DEF s
<1>2. s[1] \in Octet /\ s[2] \in Octet /\ s[3] \in Octet /\ s[4] \in Octet
  BY <1>1 DEF Octets, Octet
<1>3. x \in Group
  BY <1>2, GroupOfOctets, Zenon
<1>4. y \in Group
  BY <1>2, GroupOfOctets, Zenon
<1> HIDE DEF x, y
<1>5. Group \subseteq Int
  BY Six DEF Group
<1>6. n \in Seq(Int) /\ Len(n) = 2 /\ n[1] \in Group /\ n[2] \in Group
  <2>1. x \in Int /\ y \in Int
    BY <1>3, <1>4, <1>5
  <2>2. n \in Seq(Int) /\ Len(n) = 2
    BY <2>1
  <2>3. n[1] = x /\ n[2] = y
    OBVIOUS
  <2> QED BY <1>3, <1>4, <2>2, <2>3
<1> HIDE DEF n
<1>7. m \in Seq(Int) /\ Len(m) = 6
  BY PrefixesAreSix
<1>8. \A i \in 1..6 : m[i] \in Group
  BY PrefixesOfGroups
<1>9. t = [i \in 1..8 |-> IF i <= 6 THEN m[i] ELSE n[i - 6]]
  BY <1>6, <1>7, TwoAfterSix, Zenon
<1> HIDE DEF t
<1>10. \A i \in 1..8 : t[i] \in Group
  BY <1>6, <1>8, <1>9
<1>11. t \in Segments(6)
  <2>1. Places(6) = 1..8
    BY Six
  <2>2. t \in [Places(6) -> Group]
    BY <1>9, <1>10, <2>1
  <2> QED BY <2>2 DEF Segments, Group
<1>12. Mapped(ip, m) = IPv6(t)
  BY DEF Mapped, t, n, x, y, s
<1> QED BY <1>11, <1>12, SegmentsAreGroups, IPv6IsAddress

\* Those of the boundaries are too.
LEMMA EmbeddingsAreAddresses ==
  ASSUME NEW ip \in Address, ip.v = 4
  PROVE  Embeddings(ip) \subseteq Address
<1>1. Embeddings(ip) = {Mapped(ip, m) : m \in EmbeddingPrefixes}
  BY DEF Embeddings, EmbeddingPrefixes
<1> QED BY <1>1, MappedIsAddress

\* The boundaries of the ranges are addresses.
LEMMA BoundariesAreAddresses == BoundaryAddresses \subseteq Address
<1> DEFINE bounds == UNION {{r[1], r[2], Beside(r[1], -1), Beside(r[2], 1)} : r \in ReservedIntervals}
<1>1. ASSUME NEW r \in ReservedIntervals
      PROVE  {r[1], r[2], Beside(r[1], -1), Beside(r[2], 1)} \subseteq Address
  <2>1. r[1] \in Address /\ r[2] \in Address
    BY EndsOfReserved DEF HasEnds
  <2> QED BY <2>1, BesideIsAddress
<1>2. bounds \subseteq Address
  BY <1>1
<1> HIDE DEF bounds
<1>3. BoundaryAddresses = bounds \cup UNION {Embeddings(ip) : ip \in {b \in bounds : b.v = 4}}
  BY DEF BoundaryAddresses, bounds
<1> QED BY <1>2, <1>3, EmbeddingsAreAddresses

\* So are the usual targets.
LEMMA Literals == Public \in Address /\ Private \in Address
<1>1. 9 \in Octet /\ 192 \in Octet /\ 168 \in Octet /\ 0 \in Octet /\ 7 \in Octet
  BY DEF Octet
<1>2. IPv4(9, 9, 9, 9) \in Address
  BY <1>1, IPv4IsAddress, Zenon
<1>3. IPv4(192, 168, 0, 7) \in Address
  BY <1>1, IPv4IsAddress, Zenon
<1> QED BY <1>2, <1>3 DEF Public, Private

\* So is that of IPv6.
LEMMA SomeIPv6 == IPv6(<<8193, 18528, 0, 0, 0, 0, 0, 1>>) \in Address
<1> DEFINE s == <<8193, 18528, 0, 0, 0, 0, 0, 1>>
<1>1. 8193 \in Group /\ 18528 \in Group /\ 0 \in Group /\ 1 \in Group
  BY Six DEF Group
<1>2. s \in Segments(6)
  <2>1. Places(6) = 1..8
    BY Six
  <2>2. s \in [1..8 -> Group]
    BY <1>1
  <2> HIDE DEF s
  <2>3. s \in [Places(6) -> Group]
    BY <2>1, <2>2
  <2> QED BY <2>3 DEF Segments, Group
<1> HIDE DEF s
<1>3. IPv6(s) \in Address
  BY <1>2, SegmentsAreGroups, IPv6IsAddress
<1> QED BY <1>3 DEF s

\* The address of a target is one, or none.
LEMMA TargetsHaveIps ==
  /\ \A ip \in Address : LiteralTarget(ip).ip \in Ip
  /\ NameTarget.ip \in Ip /\ NoTarget.ip \in Ip
  BY DEF Target, LiteralTarget, NameTarget, NoTarget, Ip

\* The usual job has addresses where they belong.
LEMMA UsualIsTyped ==
  ASSUME NEW cmd
  PROVE  JobType(Usual(cmd))
  BY TargetsHaveIps, Literals DEF JobType, Usual, Ip


\* A job with addresses where addresses are expected.
TypedJob(j) == {"target", "resolver", "resolves"} \subseteq DOMAIN j /\ JobType(j)

\* Other options leave the addresses of a job alone.
LEMMA OtherOptions ==
  ASSUME NEW j, TypedJob(j), NEW f, f \notin {"target", "resolver", "resolves"}, NEW x
  PROVE  TypedJob([j EXCEPT ![f] = x])
  BY DEF TypedJob, JobType

\* Another target is another address, or none.
LEMMA OtherTarget ==
  ASSUME NEW j, TypedJob(j), NEW x, x.ip \in Ip
  PROVE  TypedJob([j EXCEPT !.target = x]) /\ TypedJob([j EXCEPT !.resolver = x])
  BY DEF TypedJob, JobType

\* A literal target resolves to itself.
LEMMA OtherAddress ==
  ASSUME NEW j, TypedJob(j), NEW ip \in Address
  PROVE  TypedJob([j EXCEPT !.target = LiteralTarget(ip), !.resolves = {ip}])
  BY TargetsHaveIps DEF TypedJob, JobType, Ip

\* The usual job of any command.
LEMMA TypedUsual == \A cmd : TypedJob(Usual(cmd))
  BY UsualIsTyped DEF TypedJob, Usual

\* Its variants.
LEMMA TypedVariants ==
  ASSUME NEW cmd \in {"ping", "traceroute", "mtr", "dns", "http"}
  PROVE  \A j \in Variants(cmd) : TypedJob(j)
<1> DEFINE u == Usual(cmd)
           dash == Target(NoIp, "-", {"alnum"}, "fits")
           shell == Target(NoIp, "alnum", {";"}, "fits")
           resolvers == {dash, LiteralTarget(Private), LiteralTarget(Public), NameTarget}
           v6 == IPv6(<<8193, 18528, 0, 0, 0, 0, 0, 1>>)
           literal(ip) == [u EXCEPT !.target = LiteralTarget(ip), !.resolves = {ip}]
           base == { u, literal(Public), literal(Private), literal(v6),
                     [u EXCEPT !.target = NoTarget], [u EXCEPT !.target = dash], [u EXCEPT !.target = shell],
                     [u EXCEPT !.ipVersion = 5], [u EXCEPT !.protocol = "SCTP"] }
           ping == {[u EXCEPT !.packets = n] : n \in {0, 17}} \cup {[u EXCEPT !.progress = FALSE]}
           mtr == {[u EXCEPT !.packets = n] : n \in {0, 17}}
           traceroute == {[u EXCEPT !.progress = FALSE]}
           dns == {[u EXCEPT !.resolver = r] : r \in resolvers}
                  \cup {[u EXCEPT !.type = "LOC"], [u EXCEPT !.trace = TRUE]}
           http == {[u EXCEPT !.resolver = r] : r \in resolvers}
                  \cup {[u EXCEPT !.method = m] : m \in {"POST", "head", "HEAD"}}
                  \cup {[u EXCEPT !.host = shell], [u EXCEPT !.path = {"control"}],
                        [u EXCEPT !.query = {"space"}], [u EXCEPT !.headers = {"control"}],
                        [u EXCEPT !.protocol = "HTTP"]}
<1>1. TypedJob(u)
  BY TypedUsual
<1>2. dash.ip \in Ip /\ shell.ip \in Ip /\ \A r \in resolvers : r.ip \in Ip
  BY TargetsHaveIps, Literals DEF Target, Ip
<1>3. v6 \in Address
  BY SomeIPv6
<1>4. Variants(cmd) = base \cup CASE cmd = "ping" -> ping
                                  [] cmd = "mtr" -> mtr
                                  [] cmd = "traceroute" -> traceroute
                                  [] cmd = "dns" -> dns
                                  [] cmd = "http" -> http
  BY DEF Variants
<1> HIDE DEF u, dash, shell, resolvers, v6
<1>5. \A j \in base : TypedJob(j)
  <2>1. TypedJob(literal(Public)) /\ TypedJob(literal(Private)) /\ TypedJob(literal(v6))
    BY <1>1, <1>3, Literals, OtherAddress, Zenon
  <2>2. NoTarget.ip \in Ip
    BY TargetsHaveIps
  <2>3. TypedJob([u EXCEPT !.target = NoTarget])
    BY <1>1, <2>2, OtherTarget, Zenon
  <2>4. TypedJob([u EXCEPT !.target = dash]) /\ TypedJob([u EXCEPT !.target = shell])
    BY <1>1, <1>2, OtherTarget, Zenon
  <2>5. TypedJob([u EXCEPT !.ipVersion = 5]) /\ TypedJob([u EXCEPT !.protocol = "SCTP"])
    BY <1>1, OtherOptions
  <2> HIDE DEF literal
  <2> QED BY <1>1, <2>1, <2>3, <2>4, <2>5, Zenon
<1>6. \A j \in ping \cup mtr \cup traceroute : TypedJob(j)
  BY <1>1, OtherOptions
<1>7. \A j \in {[u EXCEPT !.resolver = r] : r \in resolvers} : TypedJob(j)
  <2>1. \A r \in resolvers : TypedJob([u EXCEPT !.resolver = r])
    BY <1>1, <1>2, OtherTarget, Zenon
  <2> QED BY <2>1, Zenon
<1>8. \A j \in dns : TypedJob(j)
  <2>1. TypedJob([u EXCEPT !.type = "LOC"]) /\ TypedJob([u EXCEPT !.trace = TRUE])
    BY <1>1, OtherOptions
  <2> QED BY <1>7, <2>1, Zenon
<1>9. \A j \in http : TypedJob(j)
  <2>1. \A m : TypedJob([u EXCEPT !.method = m])
    BY <1>1, OtherOptions
  <2>2. TypedJob([u EXCEPT !.host = shell]) /\ TypedJob([u EXCEPT !.path = {"control"}])
    BY <1>1, OtherOptions
  <2>3. /\ TypedJob([u EXCEPT !.query = {"space"}]) /\ TypedJob([u EXCEPT !.headers = {"control"}])
        /\ TypedJob([u EXCEPT !.protocol = "HTTP"])
    BY <1>1, OtherOptions
  <2> QED BY <1>7, <2>1, <2>2, <2>3, Zenon
<1> HIDE DEF base, ping, mtr, traceroute, dns, http
<1> QED BY <1>4, <1>5, <1>6, <1>8, <1>9

\* Every job there is.
LEMMA JobsAreTyped == \A j \in Jobs : JobType(j)
<1> DEFINE variants == UNION {Variants(cmd) : cmd \in Cmds \ {"tcp", "unknown"}}
<1>1. \A j \in variants : TypedJob(j)
  BY CmdsAssumption, TypedVariants
<1>2. ASSUME NEW ip \in Address PROVE TypedJob(BoundaryJob(ip))
  <2> DEFINE i == [Usual("ping") EXCEPT !.target = LiteralTarget(ip), !.resolves = {ip}]
  <2>1. TypedJob(i)
    BY TypedUsual, OtherAddress, Zenon
  <2>2. BoundaryJob(ip) = [i EXCEPT !.progress = FALSE]
    BY DEF BoundaryJob
  <2> HIDE DEF i
  <2> QED BY <2>1, <2>2, OtherOptions
<1>3. ASSUME NEW t, t.ip \in Ip, NEW n PROVE TypedJob(TcpJob(t, n))
  <2> DEFINE i == [Usual("tcp") EXCEPT !.target = t]
  <2>1. TypedJob(i)
    BY <1>3, TypedUsual, OtherTarget, Zenon
  <2>2. TcpJob(t, n) = [i EXCEPT !["packets"] = n]
    BY DEF TcpJob
  <2> HIDE DEF i
  <2>3. \A x : TypedJob([i EXCEPT !["packets"] = x])
    BY <2>1, OtherOptions
  <2> QED BY <2>2, <2>3, Zenon
<1>4. \A t \in {LiteralTarget(Public), NameTarget} : t.ip \in Ip
  BY TargetsHaveIps, Literals
<1> HIDE DEF variants
<1>6. \A j : TypedJob(j) => JobType(j)
  BY DEF TypedJob
<1>5. ASSUME NEW j \in Jobs PROVE TypedJob(j)
  <2>1. \/ j \in variants
        \/ \E ip \in BoundaryAddresses : j = BoundaryJob(ip)
        \/ \E t \in {LiteralTarget(Public), NameTarget}, n \in {1, 4} : j = TcpJob(t, n)
        \/ \E cmd : j = Usual(cmd)
    BY DEF Jobs, variants, TcpJobs
  <2>2. BoundaryAddresses \subseteq Address
    BY BoundariesAreAddresses
  <2> QED BY <1>1, <1>2, <1>3, <1>4, <2>1, <2>2, TypedUsual
<1> QED BY <1>5, <1>6

----------------------------------------------------------------------------
(* What may run *)

\* A tool has been spawned, or there is what one has printed.
Working == pc \notin {"new", "done", "emitted"} \/ tool # <<>> \/ read # <<>>

\* The job's addresses were checked.
Checked ==
  /\ job.cmd \in Guarded => ~is_ip_private(job.target.ip)
  /\ job.cmd \in {"dns", "http"} => ~is_ip_private(job.resolver.ip)

CheckedInv == JobType(job) /\ (Working => Checked)

\* Options that are valid name no reserved target or resolver.
LEMMA ValidJobsAreChecked ==
  /\ Is("ping") /\ PingValid => Checked
  /\ Is("traceroute") /\ TracerouteValid => Checked
  /\ Is("mtr") /\ MtrValid => Checked
  /\ Is("dns") /\ DnsValid => Checked
  /\ Is("http") /\ HttpValid => Checked
<1>1. ~is_ip_private(NoTarget.ip)
  BY NoneIsReserved DEF NoTarget, Target, NoIp
<1> USE DEF Is, Checked, Guarded, IsPrivateLiteral
<1>2. Is("ping") /\ PingValid => Checked
  BY DEF PingValid
<1>3. Is("traceroute") /\ TracerouteValid => Checked
  BY DEF TracerouteValid
<1>4. Is("mtr") /\ MtrValid => Checked
  BY DEF MtrValid
<1>5. Is("dns") /\ DnsValid => Checked
  BY <1>1 DEF DnsValid
<1>6. Is("http") /\ HttpValid => Checked
  BY <1>1 DEF HttpValid
<1> QED BY <1>2, <1>3, <1>4, <1>5, <1>6

\* No step changes the job.
LEMMA NextKeepsJob == [Next]_vars => job' = job
<1> SUFFICES ASSUME [Next]_vars PROVE job' = job
  OBVIOUS
<1>1. CASE PingNext
  BY <1>1 DEF PingNext, Reject, Spawn, SpawnFails, ReadFails, PingLine, PingEnds
<1>2. CASE TracerouteNext
  BY <1>2 DEF TracerouteNext, Reject, Spawn, SpawnFails, ReadFails, TracerouteLine, TracerouteEnds
<1>3. CASE DnsNext
  BY <1>3 DEF DnsNext, Reject, Spawn, SpawnFails, ReadFails, DnsEnds
<1>4. CASE MtrNext
  BY <1>4 DEF MtrNext, Reject, Spawn, SpawnFails, MtrCollect, MtrLookup
<1>5. CASE TcpNext
  BY <1>5 DEF TcpNext, tcp_ping_single, tcp_ping
<1>6. CASE HttpNext
  <2> USE <1>6
  <2>1. CASE HttpResolve \/ HttpResolved \/ HttpUnresolved
    BY <2>1 DEF HttpResolve, HttpResolved, HttpUnresolved
  <2>2. CASE CurlWrites \/ CurlFails \/ CurlEnds(CurlOutputs)
    BY <2>2 DEF CurlWrites, CurlFails, CurlGone, CurlEnds
  <2>3. CASE SClient \/ X509 \/ Reject("http", HttpValid)
    BY <2>3 DEF SClient, X509, Reject
  <2> QED BY <2>1, <2>2, <2>3 DEF HttpNext
<1>7. CASE UnknownType \/ Drop \/ Emit \/ UNCHANGED vars
  BY <1>7 DEF UnknownType, Drop, Emit, vars
<1> QED BY <1>1, <1>2, <1>3, <1>4, <1>5, <1>6, <1>7 DEF Next

\* Nothing runs at first.
LEMMA InitChecked == Init => CheckedInv
  BY JobsAreTyped DEF Init, Started, CheckedInv, Working

\* What begins to run is checked, and the job stays as it is.
LEMMA NextChecked == CheckedInv /\ [Next]_vars => CheckedInv'
<1> SUFFICES ASSUME CheckedInv, [Next]_vars PROVE CheckedInv'
  OBVIOUS
<1>1. job' = job
  BY NextKeepsJob
<1>2. Checked => Checked'
  BY <1>1 DEF Checked
<1>3. Working' => Working \/ Checked
  <2> USE DEF Working, Return, Reject, SpawnFails, ReadFails
  <2>1. CASE PingNext
    <3>1. Spawn("ping", PingValid, PingOutputs) => Checked
      BY ValidJobsAreChecked DEF Spawn
    <3>2. PingLine \/ PingEnds => Working
      BY DEF PingLine, PingEnds
    <3> QED BY <2>1, <3>1, <3>2 DEF PingNext
  <2>2. CASE TracerouteNext
    <3>1. Spawn("traceroute", TracerouteValid, TracerouteOutputs) => Checked
      BY ValidJobsAreChecked DEF Spawn
    <3>2. TracerouteLine \/ TracerouteEnds => Working
      BY DEF TracerouteLine, TracerouteEnds
    <3> QED BY <2>2, <3>1, <3>2 DEF TracerouteNext
  <2>3. CASE DnsNext
    <3>1. Spawn("dns", DnsValid, DnsOutputs) => Checked
      BY ValidJobsAreChecked DEF Spawn
    <3>2. DnsEnds => Working
      BY DEF DnsEnds
    <3> QED BY <2>3, <3>1, <3>2 DEF DnsNext
  <2>4. CASE MtrNext
    <3>1. Spawn("mtr", MtrValid, MtrOutputs) => Checked
      BY ValidJobsAreChecked DEF Spawn
    <3>2. MtrCollect \/ MtrLookup => Working
      BY DEF MtrCollect, MtrLookup
    <3> QED BY <2>4, <3>1, <3>2 DEF MtrNext
  <2>5. CASE HttpNext
    <3>1. HttpResolve => Checked
      BY ValidJobsAreChecked DEF HttpResolve
    <3>2. HttpResolved \/ HttpUnresolved \/ CurlWrites \/ CurlFails => Working
      BY DEF HttpResolved, HttpUnresolved, CurlWrites, CurlFails, CurlGone
    <3>3. CurlEnds(CurlOutputs) \/ SClient \/ X509 => Working
      BY DEF CurlEnds, SClient, X509
    <3> QED BY <2>5, <3>1, <3>2, <3>3 DEF HttpNext
  <2>6. CASE TcpNext
    BY <2>6 DEF TcpNext, tcp_ping_single, tcp_ping, Is, Checked, Guarded
  <2>7. CASE UnknownType \/ Drop \/ Emit \/ UNCHANGED vars
    BY <2>7 DEF UnknownType, Drop, Emit, vars
  <2> QED BY <2>1, <2>2, <2>3, <2>4, <2>5, <2>6, <2>7 DEF Next
<1> QED BY <1>1, <1>2, <1>3 DEF CheckedInv

\* So a reserved address has nothing run.
LEMMA CheckedRunsNothing == CheckedInv => ReservedRunsNothing
<1> SUFFICES ASSUME CheckedInv PROVE ReservedRunsNothing
  OBVIOUS
<1>1. is_ip_private(job.target.ip) <=> Reserved(job.target.ip)
  BY PrivateOrReserved DEF CheckedInv, JobType
<1>2. is_ip_private(job.resolver.ip) <=> Reserved(job.resolver.ip)
  BY PrivateOrReserved DEF CheckedInv, JobType
<1> QED BY <1>1, <1>2 DEF CheckedInv, Checked, Working, ReservedRunsNothing

\* No tool ever runs for a reserved target or resolver, in whatever notation.
THEOREM ReservedStaysAlone == Spec => []ReservedRunsNothing
  BY InitChecked, NextChecked, CheckedRunsNothing, PTL DEF Spec

----------------------------------------------------------------------------
(* What the commands tell *)

\* A command's steps are its own, but for the end of its run.
LEMMA OwnSteps ==
  Next => \/ Is("ping") /\ PingNext
          \/ Is("traceroute") /\ TracerouteNext
          \/ Is("dns") /\ DnsNext
          \/ Is("mtr") /\ MtrNext
          \/ Is("tcp") /\ TcpNext
          \/ Is("http") /\ HttpNext
          \/ job.cmd \notin {"ping", "dns", "traceroute", "mtr", "http", "tcp"} /\ UnknownType
          \/ Drop
          \/ Emit
<1>1. PingNext => Is("ping")
  BY DEF PingNext, Reject, Spawn, SpawnFails, ReadFails, PingLine, PingEnds
<1>2. TracerouteNext => Is("traceroute")
  BY DEF TracerouteNext, Reject, Spawn, SpawnFails, ReadFails, TracerouteLine, TracerouteEnds
<1>3. DnsNext => Is("dns")
  BY DEF DnsNext, Reject, Spawn, SpawnFails, ReadFails, DnsEnds
<1>4. MtrNext => Is("mtr")
  BY DEF MtrNext, Reject, Spawn, SpawnFails, MtrCollect, MtrLookup
<1>5. TcpNext => Is("tcp")
  BY DEF TcpNext, tcp_ping_single, tcp_ping
<1>6. HttpNext => Is("http")
  <2>1. HttpResolve \/ HttpResolved \/ HttpUnresolved => Is("http")
    BY DEF HttpResolve, HttpResolved, HttpUnresolved
  <2>2. CurlWrites \/ CurlFails \/ CurlEnds(CurlOutputs) => Is("http")
    BY DEF CurlWrites, CurlFails, CurlGone, CurlEnds
  <2>3. SClient \/ X509 \/ Reject("http", HttpValid) => Is("http")
    BY DEF SClient, X509, Reject
  <2> QED BY <2>1, <2>2, <2>3 DEF HttpNext
<1>7. UnknownType => job.cmd \notin {"ping", "dns", "traceroute", "mtr", "http", "tcp"}
  BY DEF UnknownType
<1> QED BY <1>1, <1>2, <1>3, <1>4, <1>5, <1>6, <1>7 DEF Next

\* A result with the address of a public target, or of none.
TellsPublic(r) == "address" \in DOMAIN r /\ r.address \in Ip /\ ~is_ip_private(r.address)

\* If a result has an address, it is a public one.
TellsNothing == "address" \in DOMAIN result => TellsPublic(result)

\* What traceroute returns of a private target in place of its output.
HeldBack == result.status = "failed" /\ result.raw = PrivateNote

\* To have no address is to have a public one.
LEMMA NoneIsPublic == NoIp \in Ip /\ ~is_ip_private(NoIp)
  BY NoneIsReserved DEF NoIp, Ip

\* Other fields of a result tell no address.
LEMMA StillPublic ==
  ASSUME NEW r, TellsPublic(r), NEW f, f # "address", NEW x
  PROVE  TellsPublic([r EXCEPT ![f] = x])
  BY DEF TellsPublic

\* A run that ends without a result of the tool's own, or is cut to what may be sent.
LEMMA EndsTellNothing ==
  ASSUME TellsNothing, Drop \/ Emit \/ UNCHANGED vars
  PROVE  TellsNothing'
<1>1. CASE Drop
  BY <1>1 DEF Drop, Return, TimedOut, TellsNothing
<1>2. CASE Emit
  <2>1. CASE result' = result
    BY <2>1 DEF TellsNothing, TellsPublic
  <2>2. CASE result.status = "finished" /\ result' = [result EXCEPT !["raw"] = limit_raw_output(@)]
    <3>1. TellsPublic(result) => TellsPublic([result EXCEPT !["raw"] = limit_raw_output(result["raw"])])
      BY StillPublic
    <3>2. DOMAIN result' = DOMAIN result
      BY <2>2
    <3> QED BY <2>2, <3>1, <3>2 DEF TellsNothing, TellsPublic
  <2> QED BY <1>2, <2>1, <2>2 DEF Emit
<1>3. CASE UNCHANGED vars
  BY <1>3 DEF vars, TellsNothing, TellsPublic
<1> QED BY <1>1, <1>2, <1>3

\* Options that are wrong, and a tool that cannot be spawned.
LEMMA FailuresTellNothing ==
  ASSUME NEW cmd, NEW valid, Reject(cmd, valid) \/ SpawnFails(cmd, valid) \/ ReadFails(cmd)
  PROVE  TellsNothing'
  BY DEF Reject, SpawnFails, ReadFails, Return, Failure, TellsNothing

\* A tool that starts leaves the result alone.
LEMMA SpawnTellsNothing ==
  ASSUME TellsNothing, NEW cmd, NEW valid, NEW outputs, Spawn(cmd, valid, outputs)
  PROVE  TellsNothing'
  BY DEF Spawn, TellsNothing, TellsPublic

\* Where an HTTP run connects to, and what it tells.
HttpInv ==
  Is("http") =>
    /\ pc = "curl" =>
         /\ local.resolved \in Ip
         /\ ConnectsTo(local.args) \in Ip /\ ~is_ip_private(ConnectsTo(local.args))
    /\ pc \in {"s_client", "x509"} => TellsPublic(local.result)
    /\ TellsNothing

\* The first address of an answer is one of them, if there is one at all.
LEMMA FirstOfAnswer ==
  ASSUME NEW ip \in Ip, NEW answer \in {<<>>, <<NoIp, ip>>}
  PROVE  LET at == SelectInSeq(answer, LAMBDA x : x # NoIp)
         IN  at # 0 => answer[at] \in Ip
<1> DEFINE places == {i \in 1..Len(answer) : answer[i] # NoIp}
<1>1. \A i \in 1..Len(answer) : answer[i] \in Ip
  BY DEF Ip
<1>2. places \in SUBSET (0..2)
  OBVIOUS
<1>3. places # {} => Min(places) \in places
  BY <1>2, MinIsMember
<1>4. SelectInSeq(answer, LAMBDA x : x # NoIp) = IF places # {} THEN Min(places) ELSE 0
  BY DEF SelectInSeq
<1> QED BY <1>1, <1>3, <1>4

\* curl connects to the address that was looked up and checked.
LEMMA PinnedIsChecked ==
  ASSUME CheckedInv, Is("http"), NEW ip \in Ip, ~is_ip_private(ip), Checked,
         NEW n
  PROVE  LET c == Curl(ip, n)
         IN  /\ c.resolved = ip
             /\ ConnectsTo(c.args) \in Ip /\ ~is_ip_private(ConnectsTo(c.args))
<1>1. job.target.ip \in Ip /\ ~is_ip_private(job.target.ip)
  BY DEF CheckedInv, JobType, Checked, Is, Guarded
<1>2. Curl(ip, n).resolved = ip /\ Curl(ip, n).args = build_curl_args(ip)
  BY DEF Curl
<1>3. ConnectsTo(build_curl_args(ip)) \in {ip, job.target.ip}
  BY DEF ConnectsTo, build_curl_args, build_url
<1> QED BY <1>1, <1>2, <1>3

HasRemote(p) == "remote" \in DOMAIN p /\ p.remote \in Ip

\* Other fields leave the remote address alone.
LEMMA StillRemote ==
  ASSUME NEW p, HasRemote(p), NEW f, f # "remote", NEW x
  PROVE  HasRemote([p EXCEPT ![f] = x])
  BY DEF HasRemote

\* What curl tells it was connected to is an address.
LEMMA RemotesAreAddresses ==
  ASSUME CheckedInv, ConnectsTo(local.args) \in Ip
  PROVE  \A p \in CurlOutputs : HasRemote(p)
<1> DEFINE status == [kind |-> "status", text |-> "OK"]
           header(key, bytes, value) == [kind |-> "header", key |-> key, bytes |-> bytes, value |-> value]
           interim == [kind |-> "status", text |-> "Early Hints"]
           times == [lookup |-> 5, connect |-> 20, appconnect |-> 55, start |-> 91, total |-> 102]
           early == [lookup |-> 5, connect |-> 10, appconnect |-> 15, start |-> 20, total |-> 25]
           tls == <<[star |-> TRUE, sets |-> [cn |-> "name"]], [star |-> FALSE, sets |-> [cn |-> "noise"]],
                    [star |-> TRUE, sets |-> [protocol |-> "TLSv1.3", cipher |-> "cipher"]]>>
           usual == [ stats |-> TRUE, code |-> 200, remote |-> NoIp, version |-> "1.1", ssl |-> 0, times |-> times,
                      verbose |-> tls, headers |-> <<status, header("a", 1, <<1>>)>>, body |-> <<"a", "a">> ]
           values == {<<>>, <<2, 1>>, [i \in 1..4 |-> 1], [i \in 1..7 |-> 1], [i \in 1..4 |-> 2]}
           headers == {header("a", 1, v) : v \in values} \cup {header("b", 1, <<1>>), header("c", 14, <<1, 1, 1>>)}
           remotes == IF ConnectsTo(local.args) = NoIp THEN job.resolves ELSE {ConnectsTo(local.args)}
           bodies == BoundedSeq({"a", "lead", "trail", "x"}, 4)
           some == BoundedSeq(headers, 1)
           many == BoundedSeq(headers, 3)
           connected == {[usual EXCEPT !.remote = ip] : ip \in {NoIp} \cup remotes}
           secure == {[usual EXCEPT !.stats = FALSE], [usual EXCEPT !.code = 0], [usual EXCEPT !.ssl = 1],
                      [usual EXCEPT !.verbose = Tail(tls)], [usual EXCEPT !.verbose = <<>>]}
           plain == {[usual EXCEPT !.version = "none"], [usual EXCEPT !.times.appconnect = 0]}
           large == {[usual EXCEPT !.body = b] : b \in bodies}
           followed == {[usual EXCEPT !.headers = <<interim, status>> \o h] : h \in some}
           headed == {[usual EXCEPT !.headers = <<status>> \o h] : h \in many}
<1>1. CurlOutputs = connected \cup {[usual EXCEPT !.times = early]}
                    \cup IF IsHttps THEN secure ELSE plain \cup large \cup followed \cup headed
  BY DEF CurlOutputs
<1>2. HasRemote(usual)
  BY DEF HasRemote, Ip
<1>3. \A ip \in {NoIp} \cup remotes : ip \in Ip
  BY DEF CheckedInv, JobType, Ip
<1>4. "remote" \in DOMAIN usual
  OBVIOUS
<1> HIDE DEF usual, remotes, times, early, tls, status, header, interim, some, many, bodies
<1>5. \A p \in connected : HasRemote(p)
  BY <1>3, <1>4 DEF HasRemote
<1>6. /\ \A x : HasRemote([usual EXCEPT !.times = x])
      /\ \A x : HasRemote([usual EXCEPT !.headers = x])
      /\ \A x : HasRemote([usual EXCEPT !.body = x])
  BY <1>2, StillRemote
<1>7. \A p \in secure : HasRemote(p)
  <2>1. /\ HasRemote([usual EXCEPT !.stats = FALSE]) /\ HasRemote([usual EXCEPT !.code = 0])
        /\ HasRemote([usual EXCEPT !.ssl = 1])
    BY <1>2, StillRemote
  <2>2. \A x : HasRemote([usual EXCEPT !.verbose = x])
    BY <1>2, StillRemote
  <2> QED BY <2>1, <2>2, Zenon
<1>8. \A p \in plain : HasRemote(p)
  BY <1>2, StillRemote
<1>9. \A p \in large : HasRemote(p)
  BY <1>6, Zenon
<1>10. \A p \in followed : HasRemote(p)
  BY <1>6, Zenon
<1>11. \A p \in headed : HasRemote(p)
  BY <1>6, Zenon
<1> HIDE DEF connected, secure, plain, large, followed, headed
<1> QED BY <1>1, <1>5, <1>6, <1>7, <1>8, <1>9, <1>10, <1>11

\* Every step of http keeps to public addresses.
LEMMA HttpTellsPublic ==
  ASSUME CheckedInv, HttpInv, Is("http"), HttpNext
  PROVE  HttpInv'
<1>1. Is("http")' <=> Is("http")
  BY NextKeepsJob DEF Next, Is
<1>2. TellsNothing /\ (result' = result => TellsNothing')
  BY DEF HttpInv, TellsNothing, TellsPublic
<1> USE DEF HttpInv
<1>3. CASE Reject("http", HttpValid)
  <2>1. TellsNothing' /\ pc' = "done"
    BY <1>3, FailuresTellNothing DEF Reject, Return
  <2> QED BY <2>1
<1>4. CASE HttpResolve
  <2>1. CASE job.target.ip # NoIp
    <3>1. Checked /\ job.target.ip \in Ip /\ ~is_ip_private(job.target.ip)
      BY <1>4, ValidJobsAreChecked DEF HttpResolve, CheckedInv, JobType, Checked, Guarded, Is
    <3>2. pc' = "curl" /\ local' = Curl(job.target.ip, 0) /\ result' = result
      BY <1>4, <2>1 DEF HttpResolve
    <3> QED BY <1>2, <3>1, <3>2, PinnedIsChecked
  <2>2. CASE job.target.ip = NoIp
    <3>1. pc' = "dig" /\ result' = result
      BY <1>4, <2>2 DEF HttpResolve
    <3> QED BY <1>2, <3>1
  <2> QED BY <2>1, <2>2
<1>5. CASE HttpResolved
  <2>1. Checked
    BY <1>5 DEF HttpResolved, CheckedInv, Working
  <2>2. PICK answer \in {<<>>} \cup {<<NoIp, ip>> : ip \in job.resolves} :
          LET at == SelectInSeq(answer, LAMBDA ip : ip # NoIp)
          IN  IF at = 0 \/ is_ip_private(answer[at]) THEN Return(Failure)
              ELSE pc' = "curl" /\ local' = Curl(answer[at], 1) /\ result' = result
    BY <1>5 DEF HttpResolved
  <2> DEFINE at == SelectInSeq(answer, LAMBDA ip : ip # NoIp)
  <2>3. \E ip \in Ip : answer \in {<<>>, <<NoIp, ip>>}
    BY <2>2 DEF CheckedInv, JobType, Ip
  <2>4. at # 0 => answer[at] \in Ip
    BY <2>3, FirstOfAnswer
  <2> HIDE DEF at
  <2>5. CASE at = 0 \/ is_ip_private(answer[at])
    <3>1. pc' = "done" /\ result' = Failure
      BY <2>2, <2>5 DEF Return, at
    <3> QED BY <3>1 DEF Failure, TellsNothing
  <2>6. CASE ~(at = 0 \/ is_ip_private(answer[at]))
    <3>1. pc' = "curl" /\ local' = Curl(answer[at], 1) /\ result' = result
      BY <2>2, <2>6 DEF at
    <3> QED BY <1>2, <2>1, <2>4, <2>6, <3>1, PinnedIsChecked
  <2> QED BY <2>5, <2>6
<1>6. CASE HttpUnresolved \/ CurlFails
  <2>1. pc' = "done" /\ result' = Failure
    BY <1>6 DEF HttpUnresolved, CurlFails, CurlGone, Return
  <2> QED BY <2>1 DEF Failure, TellsNothing
<1>7. CASE CurlWrites
  <2>1. UNCHANGED <<pc, local, result>>
    BY <1>7 DEF CurlWrites
  <2> QED BY <1>2, <2>1
<1>8. CASE CurlEnds(CurlOutputs)
  <2>1. pc = "curl"
    BY <1>8 DEF CurlEnds
  <2>2. PICK printed \in CurlOutputs :
          LET out == [ printed EXCEPT !.headers = IF "headers" \in files THEN @ ELSE <<>>,
                                      !.body = IF "body" \in files THEN read_capped(@, BODY_LIMIT) ELSE <<>> ]
              remote == IF out.remote = NoIp THEN local.resolved ELSE out.remote
          IN  IF ~out.stats \/ out.code = 0 THEN Return(HttpFailed(<<[kind |-> "curl"]>>))
              ELSE IF is_ip_private(remote) THEN Return(HttpFailed(PrivateNote))
              ELSE \E h \in truncate_headers(parse_header_file(out.headers)) :
                     IF h.outcome = "panic" THEN Return([status |-> "panicked"])
                     ELSE LET r == HttpResult(out, h)
                          IN  IF r.tls = NoTls THEN Return(r)
                              ELSE pc' = "s_client" /\ local' = [result |-> r, limit |-> 10] /\ result' = result
    BY <1>8 DEF CurlEnds
  <2> DEFINE out == [ printed EXCEPT !.headers = IF "headers" \in files THEN @ ELSE <<>>,
                                     !.body = IF "body" \in files THEN read_capped(@, BODY_LIMIT) ELSE <<>> ]
             remote == IF out.remote = NoIp THEN local.resolved ELSE out.remote
  <2>3. HasRemote(printed)
    BY <2>1, RemotesAreAddresses
  <2>4. out.remote \in Ip
    BY <2>3 DEF HasRemote
  <2> HIDE DEF out
  <2>5. remote \in Ip
    BY <2>1, <2>4
  <2>6. \A h : HttpResult(out, h).address = remote /\ "address" \in DOMAIN HttpResult(out, h)
    BY DEF HttpResult
  <2>7. \/ pc' = "done" /\ ("address" \in DOMAIN result' => result'.address = NoIp)
        \/ ~is_ip_private(remote) /\ \E h : pc' = "done" /\ result' = HttpResult(out, h)
        \/ /\ ~is_ip_private(remote) /\ pc' = "s_client" /\ result' = result
           /\ \E h : local' = [result |-> HttpResult(out, h), limit |-> 10]
    <3> HIDE DEF remote
    <3>1. CASE ~out.stats \/ out.code = 0
      BY <2>2, <3>1 DEF out, Return, HttpFailed
    <3>2. CASE ~(~out.stats \/ out.code = 0) /\ is_ip_private(remote)
      BY <2>2, <3>2 DEF out, remote, Return, HttpFailed
    <3>3. CASE ~(~out.stats \/ out.code = 0) /\ ~is_ip_private(remote)
      <4>1. PICK h \in truncate_headers(parse_header_file(out.headers)) :
                     IF h.outcome = "panic" THEN Return([status |-> "panicked"])
                     ELSE LET r == HttpResult(out, h)
                          IN  IF r.tls = NoTls THEN Return(r)
                              ELSE pc' = "s_client" /\ local' = [result |-> r, limit |-> 10] /\ result' = result
        BY <2>2, <3>3 DEF out, remote
      <4> QED BY <3>3, <4>1 DEF Return
    <3> QED BY <3>1, <3>2, <3>3
  <2>8. ~is_ip_private(remote) => \A h : TellsPublic(HttpResult(out, h))
    BY <2>5, <2>6 DEF TellsPublic
  <2> HIDE DEF remote
  <2>9. CASE pc' = "done" /\ ("address" \in DOMAIN result' => result'.address = NoIp)
    BY <2>9, NoneIsPublic DEF TellsNothing, TellsPublic
  <2>10. CASE ~is_ip_private(remote) /\ \E h : pc' = "done" /\ result' = HttpResult(out, h)
    <3>1. TellsPublic(result') /\ pc' = "done"
      BY <2>8, <2>10, Zenon
    <3> QED BY <3>1 DEF TellsNothing, TellsPublic
  <2>11. CASE /\ ~is_ip_private(remote) /\ pc' = "s_client" /\ result' = result
              /\ \E h : local' = [result |-> HttpResult(out, h), limit |-> 10]
    <3>1. PICK h : local' = [result |-> HttpResult(out, h), limit |-> 10]
      BY <2>11
    <3>2. TellsPublic(HttpResult(out, h))
      BY <2>8, <2>11
    <3>3. local'.result = HttpResult(out, h)
      BY <3>1
    <3> QED BY <1>2, <2>11, <3>2, <3>3 DEF TellsPublic
  <2> QED BY <2>7, <2>9, <2>10, <2>11
<1>9. CASE SClient
  <2>1. TellsPublic(local.result)
    BY <1>9 DEF SClient
  <2>2. PICK verify \in {"none", "ok", "not ok"}, pem \in BOOLEAN :
          LET r == IF verify = "none" THEN local.result
                   ELSE [local.result EXCEPT !.tls.authorized = verify = "ok"]
          IN  IF pem THEN pc' = "x509" /\ local' = [result |-> r, limit |-> 4] /\ UNCHANGED result
              ELSE Return(r) /\ UNCHANGED local
    BY <1>9 DEF SClient
  <2> DEFINE r == IF verify = "none" THEN local.result
                  ELSE [local.result EXCEPT !.tls.authorized = verify = "ok"]
  <2>3. TellsPublic(r)
    BY <2>1, StillPublic
  <2>4. IF pem THEN pc' = "x509" /\ local' = [result |-> r, limit |-> 4] /\ UNCHANGED result
        ELSE Return(r) /\ UNCHANGED local
    BY <2>2
  <2> HIDE DEF r
  <2>5. CASE pem
    <3>0. local' = [result |-> r, limit |-> 4]
      BY <2>4, <2>5
    <3>1. pc' = "x509" /\ local'.result = r /\ result' = result
      BY <2>4, <2>5, <3>0
    <3>2. TellsPublic(local'.result)
      BY <2>3, <3>1
    <3>3. TellsPublic(local.result)' /\ TellsNothing'
      BY <1>2, <3>1, <3>2 DEF TellsPublic
    <3> QED BY <3>1, <3>3
  <2>6. CASE ~pem
    <3>1. pc' = "done" /\ result' = r
      BY <2>4, <2>6 DEF Return
    <3> QED BY <2>3, <3>1 DEF TellsNothing, TellsPublic
  <2> QED BY <2>5, <2>6
<1>10. CASE X509
  <2>1. TellsPublic(local.result) /\ pc' = "done"
    BY <1>10 DEF X509, Return
  <2>2. PICK x : result' = [local.result EXCEPT !.tls = x]
    BY <1>10 DEF X509, Return
  <2>3. TellsPublic([local.result EXCEPT !.tls = x])
    BY <2>1 DEF TellsPublic
  <2>4. TellsPublic(result')
    BY <2>2, <2>3
  <2> QED BY <2>1, <2>4 DEF TellsNothing
<1> QED BY <1>3, <1>4, <1>5, <1>6, <1>7, <1>8, <1>9, <1>10 DEF HttpNext

\* What lines of ping(8) there are.
PingLines ==
  {[kind |-> "header", ip |-> ip] : ip \in Ip}
  \cup {[kind |-> "reply", from |-> "host", rtt |-> n] : n \in 1..2}
  \cup {[kind |-> "summary", total |-> 2, rcv |-> n] : n \in 0..3}
  \cup {[kind |-> "silent"], [kind |-> "statistics"], [kind |-> "noise"], [kind |-> "rtt", times |-> <<1, 2>>]}

\* Lines after lines are lines.
LEMMA JoinedLines ==
  ASSUME NEW S, NEW a \in Seq(S), NEW b \in Seq(S)
  PROVE  a \o b \in Seq(S)
  BY ConcatProperties

\* All that ping may print are lines of ping.
LEMMA PingPrintsLines == CheckedInv => PingOutputs \subseteq Seq(PingLines)
<1> SUFFICES ASSUME CheckedInv PROVE PingOutputs \subseteq Seq(PingLines)
  OBVIOUS
<1> DEFINE L == Seq(PingLines)
           rtt == [kind |-> "rtt", times |-> <<1, 2>>]
           heard == {PingReply(1), PingReply(2), [kind |-> "silent"]}
<1>1. /\ \A n \in 1..2 : PingReply(n) \in PingLines
      /\ \A n \in 0..3 : [kind |-> "summary", total |-> 2, rcv |-> n] \in PingLines
      /\ [kind |-> "silent"] \in PingLines /\ [kind |-> "statistics"] \in PingLines
      /\ [kind |-> "noise"] \in PingLines /\ rtt \in PingLines
  BY DEF PingLines, PingReply
<1>2. \A ip \in job.resolves : [kind |-> "header", ip |-> ip] \in PingLines
  BY DEF PingLines, CheckedInv, JobType
<1>3. heard \subseteq PingLines
  BY <1>1
<1>4. \A body \in PingBodies : body \in L
  <2> HIDE DEF heard
  <2>1. \A n \in 0..2 : \A f \in [1..n -> heard] : f \in Seq(heard)
    OBVIOUS
  <2>2. Seq(heard) \subseteq L
    BY <1>3
  <2>3. PingBodies = UNION {[1..n -> heard] : n \in 0..2}
    BY DEF PingBodies, heard
  <2> QED BY <2>1, <2>2, <2>3
<1>5. \A tail \in PingTails : tail \in L
  <2>1. \A n \in 0..3 : PingSummary(n) \in L
    BY <1>1 DEF PingSummary
  <2> HIDE DEF rtt
  <2>2. \A n \in 1..3 : Append(PingSummary(n), rtt) \in L
    BY <1>1, <2>1
  <2>3. <<>> \in L
    OBVIOUS
  <2>4. PingTails = {<<>>} \cup {PingSummary(n) : n \in 0..3} \cup {Append(PingSummary(n), rtt) : n \in 1..3}
    BY DEF PingTails, rtt
  <2> HIDE DEF L
  <2> QED BY <2>1, <2>2, <2>3, <2>4, Zenon
<1>6. \A ip \in job.resolves : <<[kind |-> "header", ip |-> ip]>> \in L
  <2>1. \A l \in PingLines : <<l>> \in L
    OBVIOUS
  <2> QED BY <1>2, <2>1, Zenon
<1>7. \A ip \in job.resolves, body \in PingBodies, tail \in PingTails : PingPrints(ip, body, tail) \in L
  <2> SUFFICES ASSUME NEW ip \in job.resolves, NEW body \in PingBodies, NEW tail \in PingTails
               PROVE  PingPrints(ip, body, tail) \in L
    OBVIOUS
  <2> DEFINE header == <<[kind |-> "header", ip |-> ip]>>
  <2>1. header \in L /\ body \in L /\ tail \in L
    BY <1>4, <1>5, <1>6
  <2> HIDE DEF header
  <2>2. header \o body \in L
    BY <2>1, JoinedLines
  <2>3. header \o body \o tail \in L
    BY <2>1, <2>2, JoinedLines
  <2> QED BY <2>3 DEF PingPrints, header
<1>8. <<>> \in L /\ <<[kind |-> "noise"]>> \in L
  BY <1>1
<1> HIDE DEF L
<1>9. \A out \in PingOutputs : out \in L
  BY <1>7, <1>8 DEF PingOutputs
<1> QED BY <1>9 DEF L

\* What a ping has read, and what it tells.
PingInv ==
  Is("ping") =>
    /\ tool \in Seq(PingLines) /\ read \in Seq(PingLines)
    /\ pc = "reading" => ~is_ip_private(PingParse(read).address)
    /\ \E S : told \in Seq(S) /\ \A r \in S : TellsPublic(r)
    /\ TellsNothing
    /\ pc = "new" => read = <<>>

\* The address of a ping is that of the header, once there is one.
LEMMA AddressOfHeader ==
  ASSUME NEW lines \in Seq(PingLines)
  PROVE  /\ "address" \in DOMAIN PingParse(lines)
         /\ PingParse(lines).address = IF lines = <<>> \/ Head(lines).kind # "header" THEN NoIp ELSE Head(lines).ip
         /\ PingParse(lines).address \in Ip
<1>1. CASE lines = <<>> \/ Head(lines).kind # "header"
  <2>1. PingParse(lines) = PingFailed(lines)
    BY <1>1 DEF PingParse
  <2> QED BY <1>1, <2>1 DEF PingFailed, Ip
<1>2. CASE ~(lines = <<>> \/ Head(lines).kind # "header")
  <2>1. Head(lines) \in PingLines /\ Head(lines) = lines[1]
    BY <1>2
  <2>2. Head(lines).ip \in Ip
    BY <1>2, <2>1 DEF PingLines
  <2>3. "address" \in DOMAIN PingParse(lines) /\ PingParse(lines).address = lines[1].ip
    BY <1>2 DEF PingParse
  <2> QED BY <1>2, <2>1, <2>2, <2>3
<1> QED BY <1>1, <1>2

\* A further line changes the address only if there was none.
LEMMA AddressStays ==
  ASSUME NEW lines \in Seq(PingLines), NEW l \in PingLines,
         PingParse(lines).address # NoIp
  PROVE  PingParse(Append(lines, l)).address = PingParse(lines).address
<1>1. lines # <<>> /\ Head(lines).kind = "header"
  BY AddressOfHeader
<1>2. Append(lines, l) \in Seq(PingLines) /\ Append(lines, l) # <<>> /\ Head(Append(lines, l)) = Head(lines)
  BY <1>1
<1> QED BY <1>1, <1>2, AddressOfHeader

\* Every step of ping keeps its results and partial results public.
LEMMA PingTellsPublic ==
  ASSUME CheckedInv, PingInv, Is("ping"), PingNext
  PROVE  PingInv'
<1>1. Is("ping")' <=> Is("ping")
  BY NextKeepsJob DEF Next, Is
<1>2. TellsNothing /\ (result' = result => TellsNothing')
  BY DEF PingInv, TellsNothing, TellsPublic
<1>3. told' = told => (\E S : told \in Seq(S) /\ \A r \in S : TellsPublic(r))'
  BY DEF PingInv, TellsPublic
<1> USE DEF PingInv
<1>4. CASE Reject("ping", PingValid) \/ SpawnFails("ping", PingValid) \/ ReadFails("ping")
  <2>1. TellsNothing' /\ pc' = "done" /\ UNCHANGED <<tool, read, told>>
    BY <1>4, FailuresTellNothing DEF Reject, SpawnFails, ReadFails, Return
  <2> QED BY <1>3, <2>1
<1>5. CASE Spawn("ping", PingValid, PingOutputs)
  <2>1. tool' \in Seq(PingLines) /\ pc' = "reading" /\ UNCHANGED <<read, told, result>> /\ read = <<>>
    BY <1>5, PingPrintsLines DEF Spawn
  <2>2. PingParse(<<>>).address = NoIp
    BY DEF PingParse, PingFailed
  <2>3. ~is_ip_private(PingParse(read).address)
    BY <2>1, <2>2, NoneIsReserved DEF NoIp
  <2> QED BY <1>2, <1>3, <2>1, <2>3
<1>6. CASE PingLine
  <2> DEFINE lines == Append(read, Head(tool))
             partial == PingParse(lines)
             private == PingParse(read).address = NoIp /\ is_ip_private(partial.address)
             reports == job.progress /\ ~private /\ Head(tool).kind = "reply" /\ partial.items # <<>>
  <2>1. /\ read' = lines
        /\ tool' = IF private THEN <<>> ELSE Tail(tool)
        /\ told' = IF reports THEN Append(told, partial) ELSE told
        /\ IF private THEN Return(PingResult(lines, TRUE)) ELSE UNCHANGED <<pc, result>>
        /\ tool # <<>> /\ pc = "reading"
    BY <1>6 DEF PingLine
  <2>2. /\ Head(tool) \in PingLines /\ lines \in Seq(PingLines)
        /\ Tail(tool) \in Seq(PingLines) /\ <<>> \in Seq(PingLines)
    BY <2>1
  <2>3. ~private => TellsPublic(partial)
    <3>1. partial.address \in Ip /\ "address" \in DOMAIN partial
      BY <2>2, AddressOfHeader
    <3>2. CASE PingParse(read).address = NoIp
      BY <3>1, <3>2 DEF TellsPublic
    <3>3. CASE PingParse(read).address # NoIp
      BY <2>1, <2>2, <3>1, <3>3, AddressStays DEF TellsPublic
    <3> QED BY <3>2, <3>3
  <2> HIDE DEF partial, lines
  <2>4. (\E S : told \in Seq(S) /\ \A r \in S : TellsPublic(r))'
    <3>1. PICK S : told \in Seq(S) /\ \A r \in S : TellsPublic(r)
      OBVIOUS
    <3>2. CASE reports
      <4>1. told' = Append(told, partial) /\ TellsPublic(partial)
        BY <2>1, <2>3, <3>2
      <4>2. told \in Seq(S \cup {partial})
        BY <3>1
      <4>3. told' \in Seq(S \cup {partial})
        BY <4>1, <4>2
      <4>4. \A r \in S \cup {partial} : TellsPublic(r)
        BY <3>1, <4>1
      <4> QED BY <4>3, <4>4 DEF TellsPublic
    <3>3. CASE ~reports
      BY <1>3, <2>1, <3>3
    <3> QED BY <3>2, <3>3
  <2> HIDE DEF reports
  <2>5. CASE private
    <3>1. pc' = "done" /\ result' = PingFailed(PrivateNote) /\ tool' = <<>>
      BY <2>1, <2>5 DEF Return, PingResult
    <3>2. TellsNothing'
      BY <3>1, NoneIsPublic DEF TellsNothing, TellsPublic, PingFailed
    <3> QED BY <2>1, <2>2, <2>4, <3>1, <3>2
  <2>6. CASE ~private
    <3>1. tool' = Tail(tool) /\ UNCHANGED <<pc, result>>
      BY <2>1, <2>6
    <3>2. ~is_ip_private(PingParse(lines).address)
      BY <2>3, <2>6 DEF partial, TellsPublic
    <3> QED BY <1>2, <2>1, <2>2, <2>4, <3>1, <3>2
  <2> QED BY <2>5, <2>6
<1>7. CASE PingEnds
  <2>1. /\ PingResult(read, FALSE) = PingParse(read) /\ pc = "reading"
        /\ pc' = "done" /\ result' = PingResult(read, FALSE) /\ UNCHANGED <<tool, read, told>>
    BY <1>7 DEF PingEnds, PingResult, Return
  <2>2. TellsPublic(result')
    BY <2>1, AddressOfHeader DEF TellsPublic
  <2> QED BY <1>3, <2>1, <2>2 DEF TellsNothing, TellsPublic
<1> QED BY <1>4, <1>5, <1>6, <1>7 DEF PingNext

\* Lines of traceroute(8).
TracerouteLines == [kind : {"header", "hop", "other"}, ip : Ip, host : {"none", "host", "router", "target"}, rtts : Seq(Int)]

\* What a traceroute has read, and what its result tells.
TracerouteInv ==
  Is("traceroute") => tool \in Seq(TracerouteLines) /\ read \in Seq(TracerouteLines) /\ (TellsNothing \/ HeldBack)

\* A bounded sequence is a sequence.
LEMMA BoundedAreSequences ==
  ASSUME NEW S, NEW n \in Nat
  PROVE  BoundedSeq(S, n) \subseteq Seq(S)
  BY DEF BoundedSeq, SeqOf

\* A line of traceroute.
LEMMA TracerouteLineTyped ==
  ASSUME NEW kind \in {"header", "hop", "other"}, NEW ip \in Ip, NEW host \in {"none", "host", "router", "target"},
         NEW rtts \in Seq(Int)
  PROVE  TracerouteLineOf(kind, ip, host, rtts) \in TracerouteLines
  BY DEF TracerouteLineOf, TracerouteLines

\* The hops it prints are such lines.
LEMMA TracerouteHopsTyped == TracerouteHops \subseteq TracerouteLines
<1>1. NoIp \in Ip
  BY DEF Ip
<1>2. IPv4(192, 168, 0, 1) \in Ip /\ IPv4(9, 9, 9, 9) \in Ip
  <2>1. 192 \in Octet /\ 168 \in Octet /\ 0 \in Octet /\ 1 \in Octet /\ 9 \in Octet
    BY DEF Octet
  <2> QED BY <2>1, IPv4IsAddress DEF Ip
<1>3. <<1, 1>> \in Seq(Int) /\ <<2>> \in Seq(Int) /\ <<>> \in Seq(Int)
  OBVIOUS
<1>4. \A ip \in Ip, rtts \in Seq(Int) : TracerouteLineOf("hop", ip, "host", rtts) \in TracerouteLines
  BY TracerouteLineTyped
<1>5. \A ip \in Ip, rtts \in Seq(Int) : TracerouteLineOf("hop", ip, "router", rtts) \in TracerouteLines
  BY TracerouteLineTyped
<1>6. \A ip \in Ip, rtts \in Seq(Int) : TracerouteLineOf("hop", ip, "none", rtts) \in TracerouteLines
  BY TracerouteLineTyped
<1>7. \A ip \in Ip, rtts \in Seq(Int) : TracerouteLineOf("other", ip, "none", rtts) \in TracerouteLines
  BY TracerouteLineTyped
<1> DEFINE one == <<1, 1>> two == <<2>> none == <<>> router == IPv4(192, 168, 0, 1) host == IPv4(9, 9, 9, 9)
<1>8. TracerouteHops = { TracerouteLineOf("hop", router, "router", one), TracerouteLineOf("hop", host, "host", two),
                         TracerouteLineOf("hop", NoIp, "none", none), TracerouteLineOf("other", NoIp, "none", none) }
  BY DEF TracerouteHops
<1>9. one \in Seq(Int) /\ two \in Seq(Int) /\ none \in Seq(Int) /\ router \in Ip /\ host \in Ip
  BY <1>2, <1>3
<1> HIDE DEF one, two, none, router, host
<1> QED BY <1>1, <1>4, <1>5, <1>6, <1>7, <1>8, <1>9

\* All that traceroute may print are lines of traceroute.
LEMMA TraceroutePrintsLines == CheckedInv => TracerouteOutputs \subseteq Seq(TracerouteLines)
<1> SUFFICES ASSUME CheckedInv PROVE TracerouteOutputs \subseteq Seq(TracerouteLines)
  OBVIOUS
<1> DEFINE L == Seq(TracerouteLines)
           header(ip) == TracerouteLineOf("header", ip, "target", <<>>)
           other == TracerouteLineOf("other", NoIp, "none", <<>>)
           bodies == BoundedSeq(TracerouteHops, 3)
<1>0. <<>> \in Seq(Int) /\ NoIp \in Ip /\ job.resolves \subseteq Ip
  BY DEF Ip, CheckedInv, JobType
<1>1. \A ip \in job.resolves : header(ip) \in TracerouteLines
  <2>1. \A ip \in Ip, rtts \in Seq(Int) : TracerouteLineOf("header", ip, "target", rtts) \in TracerouteLines
    BY TracerouteLineTyped
  <2> QED BY <1>0, <2>1
<1>2. other \in TracerouteLines
  <2>1. \A ip \in Ip, rtts \in Seq(Int) : TracerouteLineOf("other", ip, "none", rtts) \in TracerouteLines
    BY TracerouteLineTyped
  <2> QED BY <1>0, <2>1
<1> HIDE DEF header, other
<1>3. \A ip \in job.resolves : <<header(ip)>> \in L
  <2>1. \A l \in TracerouteLines : <<l>> \in L
    OBVIOUS
  <2> QED BY <1>1, <2>1, Zenon
<1>4. <<other>> \in L /\ <<>> \in L
  BY <1>2
<1>5. \A body \in bodies : body \in L
  <2>1. bodies \subseteq Seq(TracerouteHops)
    BY BoundedAreSequences
  <2>2. Seq(TracerouteHops) \subseteq L
    BY TracerouteHopsTyped
  <2> QED BY <2>1, <2>2
<1> HIDE DEF bodies
<1>6. \A ip \in job.resolves, body \in bodies : TraceroutePrints(ip, body) \in L
  <2> SUFFICES ASSUME NEW ip \in job.resolves, NEW body \in bodies PROVE TraceroutePrints(ip, body) \in L
    OBVIOUS
  <2>1. <<header(ip)>> \in L /\ body \in L
    BY <1>3, <1>5
  <2> DEFINE first == <<header(ip)>>
  <2> HIDE DEF first
  <2>2. first \in L
    BY <2>1 DEF first
  <2>3. first \o body \in L
    BY <2>1, <2>2, JoinedLines
  <2> QED BY <2>3 DEF first, header, TraceroutePrints
<1> HIDE DEF L
<1>7. \A out \in TracerouteOutputs : out \in L
  BY <1>4, <1>6 DEF TracerouteOutputs, other, bodies
<1> QED BY <1>7 DEF L

\* The address of a traceroute is that of the header.
LEMMA AddressOfTraceroute ==
  ASSUME NEW lines \in Seq(TracerouteLines)
  PROVE  LET parsed == TracerouteParse(lines)
         IN  {"status", "address", "raw"} \subseteq DOMAIN parsed /\ parsed.address \in Ip
<1>1. CASE lines = <<>> \/ Head(lines).kind # "header"
  <2>1. TracerouteParse(lines) = TracerouteFailed(lines)
    BY <1>1 DEF TracerouteParse
  <2> QED BY <2>1 DEF TracerouteFailed, Ip
<1>2. CASE ~(lines = <<>> \/ Head(lines).kind # "header")
  <2>1. lines[1] \in TracerouteLines
    BY <1>2
  <2>2. lines[1].ip \in Ip
    BY <2>1 DEF TracerouteLines
  <2>3. {"status", "address", "raw"} \subseteq DOMAIN TracerouteParse(lines) /\ TracerouteParse(lines).address = lines[1].ip
    BY <1>2 DEF TracerouteParse
  <2> QED BY <2>2, <2>3
<1> QED BY <1>1, <1>2

\* Every step of traceroute keeps its result public.
LEMMA TracerouteTellsPublic ==
  ASSUME CheckedInv, TracerouteInv, Is("traceroute"), TracerouteNext
  PROVE  TracerouteInv'
<1>1. Is("traceroute")' <=> Is("traceroute")
  BY NextKeepsJob DEF Next, Is
<1>2. result' = result => (TellsNothing \/ HeldBack)'
  BY DEF TracerouteInv, TellsNothing, TellsPublic, HeldBack
<1> USE DEF TracerouteInv
<1>3. CASE Reject("traceroute", TracerouteValid) \/ SpawnFails("traceroute", TracerouteValid) \/ ReadFails("traceroute")
  <2>1. TellsNothing' /\ UNCHANGED <<tool, read>>
    BY <1>3, FailuresTellNothing DEF Reject, SpawnFails, ReadFails
  <2> QED BY <2>1
<1>4. CASE Spawn("traceroute", TracerouteValid, TracerouteOutputs)
  <2>1. tool' \in Seq(TracerouteLines) /\ UNCHANGED <<read, result>>
    BY <1>4, TraceroutePrintsLines DEF Spawn
  <2> QED BY <1>2, <2>1
<1>5. CASE TracerouteLine
  <2>1. tool # <<>> /\ read' = Append(read, Head(tool)) /\ tool' = Tail(tool) /\ result' = result
    BY <1>5 DEF TracerouteLine
  <2>2. Head(tool) \in TracerouteLines /\ Tail(tool) \in Seq(TracerouteLines)
    BY <2>1
  <2> QED BY <1>2, <2>1, <2>2
<1>6. CASE TracerouteEnds
  <2> DEFINE parsed == TracerouteParse(read)
             held == [parsed EXCEPT !.status = "failed", !.raw = PrivateNote, !.items = <<>>]
  <2>1. result' = (IF is_ip_private(parsed.address) THEN held ELSE parsed) /\ UNCHANGED <<tool, read>>
    BY <1>6 DEF TracerouteEnds, Return
  <2>2. {"status", "address", "raw"} \subseteq DOMAIN parsed /\ parsed.address \in Ip
    BY AddressOfTraceroute
  <2> HIDE DEF parsed
  <2>3. held.status = "failed" /\ held.raw = PrivateNote
    BY <2>2
  <2> HIDE DEF held
  <2> QED BY <2>1, <2>2, <2>3 DEF TellsNothing, TellsPublic, HeldBack
<1> QED BY <1>3, <1>4, <1>5, <1>6 DEF TracerouteNext

\* A line whose server, if it names one, is an address.
NamesServer(l) ==
  /\ "says" \in DOMAIN l
  /\ l.says[1] = "server" => 2 \in DOMAIN l.says /\ "ip" \in DOMAIN l.says[2] /\ l.says[2].ip \in Ip

HidesServer(l) == l.says[1] = "server" => ~Reserved(l.says[2].ip)

\* What dig has printed, and what a result tells of the resolver.
DnsInv ==
  Is("dns") /\ ~job.trace =>
    /\ \E S : tool \in Seq(S) /\ \A l \in S : NamesServer(l)
    /\ result.status = "finished" => \A i \in DOMAIN result.raw : HidesServer(result.raw[i])

\* rewrite_classic leaves no reserved server in any line.
LEMMA RewriteHides ==
  ASSUME NEW S, \A l \in S : NamesServer(l), NEW lines \in Seq(S)
  PROVE  LET shown == rewrite_classic(lines) IN \A i \in DOMAIN shown : HidesServer(shown[i])
<1> DEFINE shown == rewrite_classic(lines)
<1> SUFFICES ASSUME NEW i \in DOMAIN lines PROVE HidesServer(shown[i])
  BY DEF rewrite_classic
<1>1. NamesServer(lines[i])
  OBVIOUS
<1> DEFINE l == lines[i]
<1>2. shown[i] = IF l.says[1] = "server" /\ is_ip_private(l.says[2].ip)
                 THEN [l EXCEPT !.says[2].ip = HiddenIp] ELSE l
  BY DEF rewrite_classic
<1> HIDE DEF l, shown
<1>3. CASE l.says[1] = "server" /\ is_ip_private(l.says[2].ip)
  <2> DEFINE hidden == [l EXCEPT !.says[2].ip = HiddenIp]
  <2>1. hidden.says = [l.says EXCEPT ![2].ip = HiddenIp]
    BY <1>1 DEF NamesServer, l
  <2>2. hidden.says[2].ip = HiddenIp
    BY <1>1, <1>3, <2>1 DEF NamesServer, l
  <2>3. ~Reserved(HiddenIp)
    BY NoneIsReserved DEF HiddenIp
  <2> QED BY <1>2, <1>3, <2>2, <2>3 DEF HidesServer
<1>4. CASE ~(l.says[1] = "server" /\ is_ip_private(l.says[2].ip))
  <2>1. CASE l.says[1] = "server"
    BY <1>1, <1>2, <1>4, <2>1, PrivateOrReserved DEF HidesServer, NamesServer, l
  <2>2. CASE l.says[1] # "server"
    BY <1>2, <1>4, <2>2 DEF HidesServer
  <2> QED BY <2>1, <2>2
<1> QED BY <1>3, <1>4

DnsLines ==
  DnsBody \cup {DnsServer(ip, "none") : ip \in Ip} \cup {DnsServer(ip, "dns") : ip \in Ip}
  \cup {DnsComment, Saying(DnsComment, "status", "NOERROR"), Saying(DnsComment, "time", 7), Line("badpacket", "")}

\* The servers that dig's lines name are addresses.
LEMMA DnsLinesNameServers == \A l \in DnsLines : NamesServer(l)
<1>1. \A kind, v : NamesServer(Line(kind, v))
  BY DEF NamesServer, Line
<1>2. \A kind, v, f, x : f # "server" => NamesServer(Saying(Line(kind, v), f, x))
  BY DEF NamesServer, Line, Saying
<1>3. \A name : \A ip \in Ip : NamesServer(DnsServer(ip, name))
  <2> SUFFICES ASSUME NEW ip \in Ip, NEW name PROVE NamesServer(DnsServer(ip, name))
    OBVIOUS
  <2> DEFINE l == DnsServer(ip, name)
             server == [ip |-> ip, name |-> name]
  <2>1. l.says = <<"server", server>> /\ "says" \in DOMAIN l
    BY DEF DnsServer, DnsComment, Saying, Line
  <2>2. server.ip = ip /\ "ip" \in DOMAIN server
    OBVIOUS
  <2> HIDE DEF l, server
  <2> QED BY <2>1, <2>2 DEF NamesServer, l
<1>4. /\ NamesServer(Saying(DnsRecord("two"), "status", "REFUSED"))
      /\ NamesServer(Saying(DnsComment, "status", "NOERROR")) /\ NamesServer(Saying(DnsComment, "time", 7))
  BY <1>2 DEF DnsRecord, DnsComment
<1>5. \A l \in DnsBody : NamesServer(l)
  BY <1>1, <1>4 DEF DnsBody, Blank, DnsRecord
<1>6. NamesServer(DnsComment)
  BY <1>1 DEF DnsComment
<1> QED BY <1>1, <1>3, <1>4, <1>5, <1>6, Zenon DEF DnsLines

\* All that dig may print without trace are lines of dig.
LEMMA DigPrintsLines == CheckedInv /\ ~job.trace => DnsOutputs \subseteq Seq(DnsLines)
<1> SUFFICES ASSUME CheckedInv, ~job.trace PROVE DnsOutputs \subseteq Seq(DnsLines)
  OBVIOUS
<1> DEFINE L == Seq(DnsLines)
           bodies == BoundedSeq(DnsBody, 4)
<1>1. /\ DnsComment \in DnsLines /\ Saying(DnsComment, "status", "NOERROR") \in DnsLines
      /\ Saying(DnsComment, "time", 7) \in DnsLines /\ Line("badpacket", "") \in DnsLines
      /\ \A ip \in Ip : DnsServer(ip, "none") \in DnsLines /\ DnsServer(ip, "dns") \in DnsLines
      /\ DnsBody \subseteq DnsLines
  BY Zenon DEF DnsLines
<1>2. DnsHeader \in L /\ BadPacket \in L /\ <<>> \in L
  <2>1. \A a \in DnsLines, b \in DnsLines : <<a, b>> \in L /\ <<a, b, b, b, b, b>> \in L
    OBVIOUS
  <2>2. <<>> \in L
    OBVIOUS
  <2> HIDE DEF L
  <2> QED BY <1>1, <2>1, <2>2, Zenon DEF DnsHeader, BadPacket
<1>3. \A ip \in Ip : DnsFooter(ip, DnsServerName) \in L
  <2>1. \A a \in DnsLines, b \in DnsLines : <<a, b>> \in L
    OBVIOUS
  <2> HIDE DEF L
  <2>2. \A ip \in Ip : DnsServer(ip, DnsServerName) \in DnsLines
    BY <1>1 DEF DnsServerName
  <2> QED BY <1>1, <2>1, <2>2, Zenon DEF DnsFooter
<1>4. DnsServers \subseteq Ip
  <2>1. 127 \in Octet /\ 0 \in Octet /\ 53 \in Octet /\ 9 \in Octet /\ 10 \in Octet
    BY DEF Octet
  <2>2. IPv4(127, 0, 0, 53) \in Ip /\ IPv4(9, 9, 9, 9) \in Ip /\ IPv4(10, 0, 0, 53) \in Ip
    BY <2>1, IPv4IsAddress DEF Ip
  <2>3. job.resolver.ip \in Ip
    BY DEF CheckedInv, JobType
  <2> QED BY <2>2, <2>3 DEF DnsServers
<1>5. \A f \in DnsFooters : f \in L
  <2> HIDE DEF L
  <2> QED BY <1>2, <1>3, <1>4 DEF DnsFooters
<1>6. \A b \in bodies : b \in L
  <2>1. bodies \subseteq Seq(DnsBody)
    BY BoundedAreSequences
  <2>2. Seq(DnsBody) \subseteq L
    <3>1. DnsBody \subseteq DnsLines
      BY Zenon DEF DnsLines
    <3> HIDE DEF DnsBody, DnsLines
    <3> QED BY <3>1
  <2> QED BY <2>1, <2>2
<1> HIDE DEF bodies
<1>7. \A b \in bodies, f \in DnsFooters : DnsPrints(b, f) \in L
  <2> SUFFICES ASSUME NEW b \in bodies, NEW f \in DnsFooters PROVE DnsPrints(b, f) \in L
    OBVIOUS
  <2>1. DnsHeader \in L /\ b \in L /\ f \in L
    BY <1>2, <1>5, <1>6
  <2>2. DnsHeader \o b \in L
    BY <2>1, JoinedLines
  <2>3. DnsHeader \o b \o f \in L
    BY <2>1, <2>2, JoinedLines
  <2> QED BY <2>3 DEF DnsPrints
<1> HIDE DEF L
<1>8. \A out \in DnsOutputs : out \in L
  BY <1>2, <1>7 DEF DnsOutputs, bodies
<1> QED BY <1>8 DEF L

\* Every step of dns keeps the resolver hidden.
LEMMA DnsHidesResolver ==
  ASSUME CheckedInv, DnsInv, Is("dns"), DnsNext
  PROVE  DnsInv'
<1>1. job' = job
  BY NextKeepsJob DEF Next
<1> SUFFICES ASSUME ~job.trace PROVE DnsInv'
  BY <1>1 DEF DnsInv
<1> USE DEF DnsInv
<1>2. CASE Reject("dns", DnsValid) \/ SpawnFails("dns", DnsValid) \/ ReadFails("dns")
  <2>1. result'.status = "error" /\ tool' = tool
    BY <1>2 DEF Reject, SpawnFails, ReadFails, Return, Failure
  <2> QED BY <1>1, <2>1 DEF NamesServer
<1>3. CASE Spawn("dns", DnsValid, DnsOutputs)
  <2>1. tool' \in Seq(DnsLines) /\ result' = result
    BY <1>3, DigPrintsLines DEF Spawn
  <2> QED BY <1>1, <2>1, DnsLinesNameServers DEF NamesServer, HidesServer, Reserved
<1>4. CASE DnsEnds
  <2> DEFINE raw == Append(tool, Blank)
  <2>1. tool' = <<>> /\ result' = parse_classic(raw)
    BY <1>4 DEF DnsEnds, Return
  <2>2. PICK S : tool \in Seq(S) /\ \A l \in S : NamesServer(l)
    BY <1>1
  <2>3. \A l \in S \cup {Blank} : NamesServer(l)
    <3>1. NamesServer(Blank)
      BY DnsLinesNameServers DEF DnsLines, DnsBody
    <3> QED BY <2>2, <3>1
  <2>4. raw \in Seq(S \cup {Blank})
    BY <2>2
  <2> HIDE DEF raw
  <2>5. \A i \in DOMAIN rewrite_classic(raw) : HidesServer(rewrite_classic(raw)[i])
    BY <2>3, <2>4, RewriteHides
  <2>6. result'.status = "failed" \/ result'.raw = rewrite_classic(raw)
    BY <2>1 DEF parse_classic, DnsFailed
  <2>7. (\E T : tool \in Seq(T) /\ \A l \in T : NamesServer(l))'
    BY <2>1
  <2> QED BY <1>1, <2>5, <2>6, <2>7 DEF HidesServer, Reserved
<1> QED BY <1>2, <1>3, <1>4 DEF DnsNext

\* Of 0 and 1, the other one.
LEMMA ZeroOrOne == \A n \in 0..1 : n # 0 => n = 1
<1>1. ASSUME NEW n \in 0..1, n # 0 PROVE n = 1
  BY <1>1
<1> QED BY <1>1

\* A sequence that begins empty and has an element appended once.
LEMMA AppendedOnce ==
  ASSUME NEW a, NEW s, s = [n \in 0..1 |-> IF n = 0 THEN <<>> ELSE Append(s[n - 1], a)]
  PROVE  s[1] = <<a>>
<1>1. s[0] = <<>>
  OBVIOUS
<1>2. s[1] = Append(s[0], a)
  OBVIOUS
<1> QED BY <1>1, <1>2

\* There is such a sequence.
LEMMA AppendedOnceExists ==
  ASSUME NEW a
  PROVE  \E s : s = [n \in 0..1 |-> IF n = 0 THEN <<>> ELSE Append(s[n - 1], a)]
<1> DEFINE g == [n \in 0..1 |-> IF n = 0 THEN <<>> ELSE <<a>>]
           h == [n \in 0..1 |-> IF n = 0 THEN <<>> ELSE Append(g[n - 1], a)]
<1>1. g[0] = <<>> /\ g[1] = <<a>>
  OBVIOUS
<1>2. Append(<<>>, a) = <<a>>
  OBVIOUS
<1> HIDE DEF g
<1>3. h = [n \in 0..1 |-> IF n = 0 THEN <<>> ELSE <<a>>]
  <2>1. \A n \in 0..1 : (IF n = 0 THEN <<>> ELSE Append(g[n - 1], a)) = IF n = 0 THEN <<>> ELSE <<a>>
    <3> SUFFICES ASSUME NEW n \in 0..1, n # 0 PROVE Append(g[n - 1], a) = <<a>>
      OBVIOUS
    <3>1. n - 1 = 0
      OBVIOUS
    <3> QED BY <1>1, <1>2, <3>1
  <2> QED BY <2>1
<1>4. g = h
  BY <1>3 DEF g
<1> QED BY <1>4

\* One line of /etc/resolv.conf.
LEMMA ServerOfOneLine ==
  ASSUME NEW l, l.nameserver = TRUE, l.text # ""
  PROVE  parse_resolv_conf(<<l>>) = <<IF is_ip_private(l.ip) THEN "private" ELSE l.text>>
<1> DEFINE a == IF is_ip_private(l.ip) THEN "private" ELSE l.text
           once(s) == [n \in 0..1 |-> IF n = 0 THEN <<>> ELSE Append(s[n - 1], a)]
           servers == CHOOSE s : s = once(s)
<1>1. servers = once(servers)
  <2> HIDE DEF a
  <2>1. \E s : s = once(s)
    BY AppendedOnceExists
  <2> HIDE DEF once
  <2> QED BY <2>1
<1>2. servers[1] = <<a>>
  <2> HIDE DEF a, servers
  <2> QED BY <1>1, AppendedOnce
<1>3. parse_resolv_conf(<<l>>) = servers[1]
  <2> DEFINE says(k) == IF is_ip_private(k.ip) THEN "private" ELSE k.text
             step(lines, f) == [n \in 0..Len(lines) |->
                         IF n = 0 THEN <<>>
                         ELSE IF lines[n].nameserver /\ lines[n].text # ""
                              THEN Append(f[n - 1], says(lines[n])) ELSE f[n - 1]]
  <2>1. \A lines : parse_resolv_conf(lines) = (CHOOSE f : f = step(lines, f))[Len(lines)]
    BY DEF parse_resolv_conf
  <2>2. \A f : step(<<l>>, f) = once(f)
    <3> SUFFICES ASSUME NEW f PROVE step(<<l>>, f) = once(f)
      OBVIOUS
    <3> DEFINE lines == <<l>>
    <3>1. Len(lines) = 1 /\ lines[1] = l
      OBVIOUS
    <3> HIDE DEF lines
    <3>2. \A n \in 0..1 : n # 0 => lines[n] = l
      BY ZeroOrOne, <3>1, Zenon
    <3>3. says(l) = a
      OBVIOUS
    <3> HIDE DEF a, says
    <3>4. \A n \in 0..1 :
            (IF n = 0 THEN <<>>
             ELSE IF lines[n].nameserver /\ lines[n].text # ""
                  THEN Append(f[n - 1], says(lines[n])) ELSE f[n - 1])
            = IF n = 0 THEN <<>> ELSE Append(f[n - 1], a)
      <4> SUFFICES ASSUME NEW n \in 0..1, n # 0
                   PROVE  (IF lines[n].nameserver /\ lines[n].text # ""
                           THEN Append(f[n - 1], says(lines[n])) ELSE f[n - 1]) = Append(f[n - 1], a)
        OBVIOUS
      <4>1. lines[n] = l
        BY <3>2
      <4>2. lines[n].nameserver /\ lines[n].text # ""
        BY <4>1
      <4> QED BY <3>3, <4>1, <4>2
    <3>5. step(lines, f) = once(f)
      BY <3>1, <3>4
    <3> QED BY <3>5 DEF lines
  <2>3. Len(<<l>>) = 1
    OBVIOUS
  <2> HIDE DEF step, once
  <2>4. (CHOOSE f : f = step(<<l>>, f)) = servers
    BY <2>2
  <2> QED BY <2>1, <2>3, <2>4
<1> QED BY <1>2, <1>3

----------------------------------------------------------------------------
(* What mtr prints and what parse_raw makes of it *)

\* Sequences put one after another, those up to each of them.
Parts(seqs) == CHOOSE f : f =
  [i \in 1..Len(seqs) |-> IF i = 1 THEN seqs[i] ELSE f[i - 1] \o seqs[i]]

\* There are such parts, and they are what their recursive definition says.
LEMMA PartsUnfold ==
  ASSUME NEW E, NEW seqs \in Seq(Seq(E)), Len(seqs) # 0
  PROVE  /\ Parts(seqs) \in [1..Len(seqs) -> Seq(E)]
         /\ Parts(seqs)[1] = seqs[1]
         /\ \A i \in 2..Len(seqs) : Parts(seqs)[i] = Parts(seqs)[i - 1] \o seqs[i]
         /\ FlattenSeq(seqs) = Parts(seqs)[Len(seqs)]
<1> DEFINE T == Seq(E)
           n == Len(seqs)
           F(f) == [i \in 1..n |-> IF i = 1 THEN seqs[i] ELSE f[i - 1] \o seqs[i]]
           flatten == Parts(seqs)
           step == [p \in Nat \X T |-> IF p[1] + 2 <= n THEN p[2] \o seqs[p[1] + 2] ELSE p[2]]
<1>1. n \in Nat /\ n >= 1 /\ \A i \in 1..n : seqs[i] \in T
  OBVIOUS
<1>2. step \in Steps(T)
  <2>1. ASSUME NEW p \in Nat \X T PROVE (IF p[1] + 2 <= n THEN p[2] \o seqs[p[1] + 2] ELSE p[2]) \in T
    <3>1. CASE p[1] + 2 <= n
      <4>1. p[1] + 2 \in 1..n
        BY <1>1, <3>1
      <4>2. seqs[p[1] + 2] \in T /\ p[2] \in T
        BY <1>1, <4>1
      <4> QED BY <3>1, <4>2, ConcatProperties
    <3>2. CASE ~(p[1] + 2 <= n)
      BY <3>2
    <3> QED BY <3>1, <3>2
  <2> QED BY <2>1 DEF Steps
<1>13. PICK g : UnfoldsTo(g, T, seqs[1], step, n - 1)
  <2>1. n - 1 \in Nat /\ seqs[1] \in T
    BY <1>1
  <2> DEFINE m == n - 1
             a == seqs[1]
  <2>2. m \in Nat /\ a \in T
    BY <2>1
  <2> HIDE DEF m, a, T, step
  <2>3. \E f : UnfoldsTo(f, T, a, step, m)
    BY <1>2, <2>2, RecursionToLength
  <2> QED BY <2>3 DEF m, a
<1>14. flatten = CHOOSE f : f = F(f)
  BY DEF Parts
<1>7. FlattenSeq(seqs) = flatten[n]
  BY DEF FlattenSeq, Parts
<1> HIDE DEF n, flatten
<1>3. g \in [0..n - 1 -> T] /\ g[0] = seqs[1]
  BY <1>13 DEF UnfoldsTo
<1>12. \A i \in 1..n - 1 : g[i] = step[i - 1, g[i - 1]]
  <2> HIDE DEF step
  <2> QED BY <1>13 DEF UnfoldsTo
<1> DEFINE h == [i \in 1..n |-> g[i - 1]]
<1>4. h = F(h)
  <2>1. ASSUME NEW i \in 1..n, i # 1 PROVE g[i - 1] = h[i - 1] \o seqs[i]
    <3>1. i - 1 \in 1..n - 1 /\ i - 2 \in 0..n - 1 /\ i - 2 \in Nat /\ (i - 2) + 2 = i /\ (i - 1) - 1 = i - 2
      BY <1>1, <2>1
    <3>2. g[i - 1] = step[i - 2, g[i - 2]]
      <4> HIDE DEF step
      <4> QED BY <1>12, <3>1
    <3>3. g[i - 2] \in T /\ i <= n
      <4>1. g \in [0..n - 1 -> T] /\ i - 2 \in 0..n - 1 /\ i <= n
        BY <1>3, <3>1
      <4> HIDE DEF T
      <4> QED BY <4>1
    <3>4. step[i - 2, g[i - 2]] = g[i - 2] \o seqs[i]
      BY <3>1, <3>3
    <3>5. h[i - 1] = g[i - 2]
      BY <1>1, <3>1
    <3> QED BY <3>2, <3>4, <3>5
  <2>2. h[1] = seqs[1]
    <3>1. 1 \in 1..n /\ 1 - 1 = 0
      BY <1>1
    <3> QED BY <1>3, <3>1
  <2>3. \A i \in 1..n : h[i] = IF i = 1 THEN seqs[i] ELSE h[i - 1] \o seqs[i]
    BY <2>1, <2>2
  <2> QED BY <2>3
<1>5. flatten = F(flatten)
  <2> HIDE DEF F, h
  <2> QED BY <1>4, <1>14
<1>6. \A i \in 1..n : flatten[i] = IF i = 1 THEN seqs[i] ELSE flatten[i - 1] \o seqs[i]
  <2> QED BY <1>5
<1> DEFINE k == [i \in 0..n - 1 |-> flatten[i + 1]]
<1>8. \A i \in 0..n - 1 : k[i] \in T
  <2>1. k[0] \in T
    <3>1. 0 \in 0..n - 1 /\ 0 + 1 = 1 /\ 1 \in 1..n
      BY <1>1
    <3>2. flatten[1] = seqs[1] /\ seqs[1] \in T
      BY <1>1, <1>6, <3>1
    <3>3. k[0] = flatten[1]
      BY <3>1
    <3> QED BY <3>2, <3>3
  <2>2. ASSUME NEW i \in 1..n - 1, k[i - 1] \in T PROVE k[i] \in T
    <3>1. i + 1 \in 1..n /\ i + 1 # 1 /\ (i + 1) - 1 = i /\ i - 1 \in 0..n - 1 /\ i \in 0..n - 1 /\ (i - 1) + 1 = i
      BY <1>1
    <3>2. k[i] = flatten[i] \o seqs[i + 1] /\ k[i - 1] = flatten[i]
      BY <1>6, <3>1
    <3>3. seqs[i + 1] \in T
      BY <1>1, <3>1
    <3>4. flatten[i] \in T
      BY <2>2, <3>2
    <3> HIDE DEF k
    <3>5. flatten[i] \o seqs[i + 1] \in T
      BY <3>3, <3>4, ConcatProperties
    <3> QED BY <3>2, <3>5
  <2> DEFINE m == n - 1
  <2>3. m \in Nat
    BY <1>1
  <2>4. \A i \in 1..m : k[i - 1] \in T => k[i] \in T
    BY <2>2
  <2> HIDE DEF k, T, m
  <2>5. \A i \in 0..m : k[i] \in T
    BY <2>1, <2>3, <2>4, InductionToLength
  <2> QED BY <2>5 DEF m
<1>9. \A i \in 1..n : flatten[i] \in T
  <2> SUFFICES ASSUME NEW i \in 1..n PROVE flatten[i] \in T
    OBVIOUS
  <2>1. i - 1 \in 0..n - 1 /\ (i - 1) + 1 = i
    BY <1>1
  <2>2. k[i - 1] = flatten[i]
    BY <2>1
  <2>3. k[i - 1] \in T
    <3> HIDE DEF k, T
    <3> QED BY <1>8, <2>1
  <2> QED BY <2>2, <2>3
<1>10. flatten \in [1..n -> T]
  <2>1. flatten = [i \in 1..n |-> flatten[i]]
    BY <1>5
  <2> HIDE DEF T
  <2> QED BY <1>9, <2>1
<1>11. flatten[1] = seqs[1] /\ \A i \in 2..n : flatten[i] = flatten[i - 1] \o seqs[i]
  <2>1. 1 \in 1..n /\ \A i \in 2..n : i \in 1..n /\ i # 1
    BY <1>1
  <2> QED BY <1>6, <2>1
<1> QED BY <1>7, <1>10, <1>11 DEF flatten, n

\* Sequences put one after another are one.
LEMMA FlattenedSequences ==
  ASSUME NEW E, NEW seqs \in Seq(Seq(E))
  PROVE  FlattenSeq(seqs) \in Seq(E)
<1>1. CASE Len(seqs) = 0
  <2>1. FlattenSeq(seqs) = seqs
    BY <1>1 DEF FlattenSeq
  <2>2. seqs = <<>>
    BY <1>1
  <2>3. <<>> \in Seq(E)
    OBVIOUS
  <2> QED BY <2>1, <2>2, <2>3
<1>2. CASE Len(seqs) # 0
  <2>1. Len(seqs) \in 1..Len(seqs)
    BY <1>2
  <2>2. Parts(seqs) \in [1..Len(seqs) -> Seq(E)] /\ FlattenSeq(seqs) = Parts(seqs)[Len(seqs)]
    BY <1>2, PartsUnfold
  <2> QED BY <2>1, <2>2
<1> QED BY <1>1, <1>2

\* A sequence more is put after the others.
LEMMA FlattenOneMore ==
  ASSUME NEW E, NEW seqs \in Seq(Seq(E)), NEW s \in Seq(E)
  PROVE  FlattenSeq(Append(seqs, s)) = FlattenSeq(seqs) \o s
<1> DEFINE n == Len(seqs)
           more == Append(seqs, s)
           f == Parts(seqs)
           g == Parts(more)
<1>1. /\ n \in Nat /\ more \in Seq(Seq(E)) /\ Len(more) = n + 1 /\ Len(more) # 0
      /\ more[n + 1] = s /\ \A i \in 1..n : more[i] = seqs[i]
  OBVIOUS
<1> HIDE DEF more
<1>2. /\ g[1] = more[1]
      /\ \A i \in 2..n + 1 : g[i] = g[i - 1] \o more[i]
      /\ FlattenSeq(more) = g[n + 1]
  BY <1>1, PartsUnfold
<1>3. CASE n = 0
  <2>1. FlattenSeq(seqs) = seqs /\ seqs = <<>>
    BY <1>3 DEF FlattenSeq
  <2>2. FlattenSeq(more) = s
    BY <1>1, <1>2, <1>3
  <2>3. <<>> \o s = s
    OBVIOUS
  <2> QED BY <2>1, <2>2, <2>3 DEF more
<1>4. CASE n # 0
  <2>1. /\ f[1] = seqs[1] /\ \A i \in 2..n : f[i] = f[i - 1] \o seqs[i]
        /\ FlattenSeq(seqs) = f[n]
    BY <1>4, PartsUnfold
  <2> HIDE DEF f, g, n
  <2> DEFINE same == [i \in 0..n - 1 |-> f[i + 1] = g[i + 1]]
             yes == {TRUE}
             len == n - 1
  <2>2. len \in Nat /\ n \in 1..n /\ n = len + 1 /\ len \in 0..len
    BY <1>1, <1>4
  <2>3. same[0] \in yes
    <3>1. f[1] = g[1]
      BY <1>1, <1>2, <2>1, <2>2
    <3>2. 0 \in 0..n - 1 /\ 0 + 1 = 1
      BY <2>2
    <3>3. same[0] = (f[1] = g[1])
      BY <3>2
    <3> QED BY <3>1, <3>3
  <2>4. ASSUME NEW i \in 1..len, same[i - 1] \in yes PROVE same[i] \in yes
    <3>1. i - 1 \in 0..n - 1 /\ i \in 0..n - 1 /\ i + 1 \in 2..n /\ i + 1 \in 2..n + 1 /\ i + 1 \in 1..n
          /\ (i - 1) + 1 = i /\ (i + 1) - 1 = i
      BY <1>1, <2>2
    <3>2. f[i] = g[i]
      BY <2>4, <3>1
    <3>3. f[i + 1] = f[i] \o seqs[i + 1]
      BY <2>1, <3>1
    <3>4. g[i + 1] = g[i] \o more[i + 1]
      BY <1>2, <3>1
    <3>5. more[i + 1] = seqs[i + 1]
      BY <1>1, <3>1
    <3> QED BY <3>1, <3>2, <3>3, <3>4, <3>5
  <2> HIDE DEF same, yes
  <2>5. \A i \in 0..len : same[i] \in yes
    <3> HIDE DEF len
    <3> QED BY <2>2, <2>3, <2>4, InductionToLength
  <2>6. same[len] \in yes
    BY <2>2, <2>5
  <2>7. f[n] = g[n]
    BY <2>2, <2>6 DEF same, yes
  <2>8. g[n + 1] = g[n] \o s
    <3>1. n + 1 \in 2..n + 1 /\ (n + 1) - 1 = n
      BY <2>2
    <3> QED BY <1>1, <1>2, <3>1
  <2> QED BY <1>2, <2>1, <2>7, <2>8 DEF more
<1> QED BY <1>3, <1>4

\* What the state of parse_raw's loop is made of.
Probe == [seq : Nat, rtt : Int]
Builder == [ip : Ip, name : {"none", "one"}, timings : Seq(Probe), duplicate : BOOLEAN]
FunctionsOn(D, R) == UNION {[S -> R] : S \in SUBSET D}
RawState == [b : FunctionsOn(Nat, Builder), size : Nat, names : FunctionsOn(Ip, {"one"})]

MtrLines ==
  [kind : {"h"}, hop : Nat, ip : Ip, seq : Nat]
  \cup [kind : {"d"}, hop : Nat, name : {"one"}, seq : Nat]
  \cup [kind : {"x", "noise"}, hop : Nat, seq : Nat]
  \cup [kind : {"p"}, hop : Nat, seq : Nat, rtt : Nat]

\* A map with one more entry is a map of the same kind.
LEMMA FunctionPut ==
  ASSUME NEW D, NEW R, NEW f \in FunctionsOn(D, R), NEW x \in D, NEW y \in R
  PROVE  Inserted(f, x, y) \in FunctionsOn(D, R)
<1>1. PICK S \in SUBSET D : f \in [S -> R]
  BY DEF FunctionsOn
<1>2. DOMAIN Inserted(f, x, y) = S \cup {x}
  BY <1>1 DEF Inserted
<1>3. \A z \in S \cup {x} : Inserted(f, x, y)[z] \in R
  BY <1>1 DEF Inserted
<1>4. Inserted(f, x, y) \in [S \cup {x} -> R]
  BY <1>1 DEF Inserted
<1> QED BY <1>4 DEF FunctionsOn

\* A line of mtr makes builders of builders.
LEMMA RawStepTyped ==
  ASSUME NEW s \in RawState, NEW e \in MtrLines
  PROVE  RawStep(s, e) \in RawState
<1> DEFINE hop == IF e.hop \in DOMAIN s.b THEN s.b[e.hop] ELSE fresh
           put(h) == [s EXCEPT !.b = Inserted(@, e.hop, h), !.size = IF @ > e.hop THEN @ ELSE e.hop + 1]
           sent == {i \in DOMAIN hop.timings : hop.timings[i].seq = e.seq}
<1>1. s.b \in FunctionsOn(Nat, Builder) /\ s.size \in Nat /\ s.names \in FunctionsOn(Ip, {"one"})
  BY DEF RawState
<1>2. e.hop \in Nat /\ e.seq \in Nat
  BY DEF MtrLines
<1>3. hop \in Builder
  <2>1. fresh \in Builder
    <3>1. <<>> \in Seq(Probe)
      OBVIOUS
    <3> QED BY <3>1 DEF fresh, Builder, Ip
  <2>2. e.hop \in DOMAIN s.b => s.b[e.hop] \in Builder
    BY <1>1 DEF FunctionsOn
  <2> QED BY <2>1, <2>2
<1>4. ASSUME NEW h \in Builder PROVE put(h) \in RawState
  <2>1. Inserted(s.b, e.hop, h) \in FunctionsOn(Nat, Builder)
    BY <1>1, <1>2, FunctionPut
  <2>2. (IF s.size > e.hop THEN s.size ELSE e.hop + 1) \in Nat
    BY <1>1, <1>2
  <2> DEFINE b2 == Inserted(s.b, e.hop, h)
             size2 == IF s.size > e.hop THEN s.size ELSE e.hop + 1
  <2>3. put(h) = [s EXCEPT !.b = b2, !.size = size2]
    OBVIOUS
  <2> HIDE DEF b2, size2, put
  <2> QED BY <2>1, <2>2, <2>3 DEF RawState, b2, size2
<1> DEFINE named(h) == [put(h) EXCEPT !.names = IF hop.ip = NoIp THEN @ ELSE Inserted(@, hop.ip, e.name)]
<1>5. ASSUME NEW h \in Builder, e.name \in {"none", "one"}, e.kind = "d" PROVE named(h) \in RawState
  <2>1. hop.ip # NoIp => Inserted(s.names, hop.ip, e.name) \in FunctionsOn(Ip, {"one"})
    <3>1. e.name \in {"one"} /\ hop.ip \in Ip
      BY <1>3, <1>5 DEF MtrLines, Builder
    <3> HIDE DEF hop
    <3> QED BY <1>1, <3>1, FunctionPut
  <2>2. put(h).names = s.names /\ put(h) \in RawState
    BY <1>1, <1>4 DEF RawState
  <2> DEFINE names2 == IF hop.ip = NoIp THEN s.names ELSE Inserted(s.names, hop.ip, e.name)
  <2>3. names2 \in FunctionsOn(Ip, {"one"})
    BY <1>1, <2>1
  <2>4. named(h) = [put(h) EXCEPT !.names = names2]
    BY <2>2
  <2> HIDE DEF put, names2, named
  <2> QED BY <2>2, <2>3, <2>4 DEF RawState
<1>6. RawStep(s, e) =
        CASE e.kind = "h" ->
               put([hop EXCEPT !.ip = e.ip,
                      !.duplicate = \E j \in DOMAIN s.b : j < e.hop /\ s.b[j].ip = e.ip])
          [] e.kind = "d" -> named([hop EXCEPT !.name = e.name])
          [] e.kind = "x" ->
               put(IF sent # {} THEN hop
                   ELSE [hop EXCEPT !.timings = Append(@, [seq |-> e.seq, rtt |-> NoTime])])
          [] e.kind = "p" /\ sent # {} ->
               put([hop EXCEPT !.timings[CHOOSE i \in sent : TRUE].rtt = e.rtt])
          [] OTHER -> s
  BY DEF RawStep
<1> HIDE DEF put, named, hop
<1>7. CASE e.kind = "h"
  <2>1. e.ip \in Ip
    BY <1>7 DEF MtrLines
  <2> DEFINE d == \E j \in DOMAIN s.b : j < e.hop /\ s.b[j].ip = e.ip
  <2>2. d \in BOOLEAN
    OBVIOUS
  <2>3. RawStep(s, e) = put([hop EXCEPT !.ip = e.ip, !.duplicate = d])
    BY <1>6, <1>7
  <2> HIDE DEF d
  <2>4. [hop EXCEPT !.ip = e.ip, !.duplicate = d] \in Builder
    BY <1>3, <2>1, <2>2 DEF Builder
  <2> QED BY <1>4, <2>3, <2>4
<1>8. CASE e.kind = "d"
  <2>1. e.name \in {"none", "one"}
    BY <1>8 DEF MtrLines
  <2>2. RawStep(s, e) = named([hop EXCEPT !.name = e.name])
    BY <1>6, <1>8
  <2>3. [hop EXCEPT !.name = e.name] \in Builder
    BY <1>3, <2>1 DEF Builder
  <2> QED BY <1>5, <1>8, <2>1, <2>2, <2>3
<1>9. CASE e.kind = "x"
  <2> DEFINE new == [seq |-> e.seq, rtt |-> NoTime]
  <2>1. RawStep(s, e) = put(IF sent # {} THEN hop ELSE [hop EXCEPT !.timings = Append(@, new)])
    BY <1>6, <1>9
  <2>2. new \in Probe
    BY <1>2 DEF Probe, NoTime
  <2> HIDE DEF new, sent
  <2>3. Append(hop.timings, new) \in Seq(Probe)
    BY <1>3, <2>2 DEF Builder
  <2>4. [hop EXCEPT !.timings = Append(@, new)] \in Builder
    BY <1>3, <2>3 DEF Builder
  <2> QED BY <1>3, <1>4, <2>1, <2>4
<1>10. CASE e.kind = "p" /\ sent # {}
  <2> DEFINE i == CHOOSE i \in sent : TRUE
             t == hop.timings
             answered == [t EXCEPT ![i].rtt = e.rtt]
  <2>1. i \in DOMAIN t
    BY <1>10
  <2>2. RawStep(s, e) = put([hop EXCEPT !.timings = answered])
    BY <1>6, <1>10
  <2>3. t \in Seq(Probe) /\ e.rtt \in Int
    BY <1>3, <1>10 DEF Builder, MtrLines
  <2> HIDE DEF i, t, sent
  <2>4. [t[i] EXCEPT !.rtt = e.rtt] \in Probe
    <3>1. t[i] \in Probe
      BY <2>1, <2>3
    <3> HIDE DEF i
    <3> QED BY <2>3, <3>1 DEF Probe
  <2>5. answered \in Seq(Probe)
    <3> DEFINE p == [t[i] EXCEPT !.rtt = e.rtt]
    <3>1. answered = [t EXCEPT ![i] = p]
      OBVIOUS
    <3>2. p \in Probe
      BY <2>4
    <3> HIDE DEF p
    <3>3. \A q \in Probe : [t EXCEPT ![i] = q] \in Seq(Probe)
      BY <2>1, <2>3
    <3> QED BY <3>1, <3>2, <3>3
  <2> HIDE DEF answered
  <2>6. [hop EXCEPT !.timings = answered] \in Builder
    BY <1>3, <2>5 DEF Builder
  <2> QED BY <1>4, <2>2, <2>6
<1>11. CASE ~(e.kind \in {"h", "d", "x"} \/ (e.kind = "p" /\ sent # {}))
  <2> HIDE DEF sent
  <2>1. e.kind # "h" /\ e.kind # "d" /\ e.kind # "x" /\ ~(e.kind = "p" /\ sent # {})
    BY <1>11
  <2> QED BY <1>6, <2>1
<1> QED BY <1>7, <1>8, <1>9, <1>10, <1>11

NoBuilders == [b |-> <<>>, size |-> 0, names |-> <<>>]

\* There are none at first.
LEMMA NoBuildersTyped == NoBuilders \in RawState
<1> DEFINE none == <<>>
<1>1. \A D, R : none \in FunctionsOn(D, R)
  <2> SUFFICES ASSUME NEW D, NEW R PROVE none \in FunctionsOn(D, R)
    OBVIOUS
  <2>1. none \in [{} -> R]
    OBVIOUS
  <2> HIDE DEF none
  <2> QED BY <2>1 DEF FunctionsOn
<1>2. NoBuilders = [b |-> none, size |-> 0, names |-> none]
  BY DEF NoBuilders
<1> HIDE DEF none
<1> QED BY <1>1, <1>2 DEF RawState

\* What the loop of parse_raw has after each line.
RawLoop(events) == CHOOSE f : f =
  [n \in 0..Len(events) |-> IF n = 0 THEN NoBuilders ELSE RawStep(f[n - 1], events[n])]

\* There is such a loop, and it is what its recursive definition says.
LEMMA RawLoopUnfolds ==
  ASSUME NEW events \in Seq(MtrLines)
  PROVE  /\ RawLoop(events)[0] = NoBuilders
         /\ \A n \in 1..Len(events) : RawLoop(events)[n] = RawStep(RawLoop(events)[n - 1], events[n])
         /\ \A n \in 0..Len(events) : RawLoop(events)[n] \in RawState
<1> DEFINE after == RawLoop(events)
           len == Len(events)
           A(f) == [n \in 0..len |-> IF n = 0 THEN NoBuilders ELSE RawStep(f[n - 1], events[n])]
           step == [p \in Nat \X RawState |-> IF p[1] < len THEN RawStep(p[2], events[p[1] + 1]) ELSE p[2]]
<1>1. len \in Nat /\ \A i \in 1..len : events[i] \in MtrLines
  OBVIOUS
<1> HIDE DEF len
<1>2. step \in Steps(RawState)
  <2>1. ASSUME NEW p \in Nat \X RawState
        PROVE  (IF p[1] < len THEN RawStep(p[2], events[p[1] + 1]) ELSE p[2]) \in RawState
    <3>1. p[1] \in Nat /\ p[2] \in RawState
      OBVIOUS
    <3>2. CASE p[1] < len
      <4>1. p[1] + 1 \in 1..len
        BY <1>1, <3>1, <3>2
      <4> QED BY <1>1, <3>1, <3>2, <4>1, RawStepTyped
    <3>3. CASE ~(p[1] < len)
      BY <3>1, <3>3
    <3> QED BY <3>2, <3>3
  <2> QED BY <2>1 DEF Steps
<1>3. PICK g : UnfoldsTo(g, RawState, NoBuilders, step, len)
  <2> HIDE DEF step
  <2> QED BY <1>1, <1>2, NoBuildersTyped, RecursionToLength
<1>4. g \in [0..len -> RawState] /\ g[0] = NoBuilders
  BY <1>3 DEF UnfoldsTo
<1>5. \A i \in 1..len : g[i] = step[i - 1, g[i - 1]]
  <2> HIDE DEF step
  <2> QED BY <1>3 DEF UnfoldsTo
<1>6. g = A(g)
  <2>1. ASSUME NEW n \in 0..len, n # 0 PROVE g[n] = RawStep(g[n - 1], events[n])
    <3>1. n \in 1..len /\ n - 1 \in 0..len /\ n - 1 \in Nat /\ n - 1 < len /\ (n - 1) + 1 = n
      BY <1>1, <2>1
    <3>2. g[n - 1] \in RawState
      BY <1>4, <3>1
    <3>3. step[n - 1, g[n - 1]] = RawStep(g[n - 1], events[n])
      BY <3>1, <3>2
    <3>4. g[n] = step[n - 1, g[n - 1]]
      <4> HIDE DEF step
      <4> QED BY <1>5, <3>1
    <3> QED BY <3>3, <3>4
  <2>2. \A n \in 0..len : g[n] = IF n = 0 THEN NoBuilders ELSE RawStep(g[n - 1], events[n])
    BY <1>4, <2>1
  <2>3. g = [n \in 0..len |-> g[n]]
    BY <1>4
  <2> QED BY <2>2, <2>3
<1>7. after = A(after)
  <2>1. after = CHOOSE f : f = A(f)
    BY DEF len, RawLoop
  <2> HIDE DEF A
  <2> QED BY <1>6, <2>1
<1>8. after[0] = NoBuilders
  <2>1. 0 \in 0..len
    BY <1>1
  <2> HIDE DEF NoBuilders
  <2> QED BY <1>7, <2>1
<1>9. \A i \in 1..len : after[i] = RawStep(after[i - 1], events[i])
  <2> SUFFICES ASSUME NEW i \in 1..len PROVE after[i] = RawStep(after[i - 1], events[i])
    OBVIOUS
  <2>1. i \in 0..len /\ i # 0
    BY <1>1
  <2> QED BY <1>7, <2>1
<1>10. \A i \in 1..len : after[i - 1] \in RawState => after[i] \in RawState
  BY <1>1, <1>9, RawStepTyped
<1>11. after[0] \in RawState
  BY <1>8, NoBuildersTyped
<1> HIDE DEF after
<1>12. \A i \in 0..len : after[i] \in RawState
  BY <1>1, <1>10, <1>11, InductionToLength
<1> QED BY <1>8, <1>9, <1>12 DEF len, after

\* The hops of the kept builders below each index, in their order.
HopsBelow(size, kept, hop) == CHOOSE f : f =
  [n \in 0..size |-> IF n = 0 THEN <<>>
                     ELSE IF n - 1 \in kept THEN Append(f[n - 1], hop[n - 1]) ELSE f[n - 1]]

\* Builders are left out of the hops, and each hop is made of a kept one.
LEMMA HopsUnfold ==
  ASSUME NEW size \in Nat, NEW E, NEW hop, NEW kept,
         \A n \in kept : hop[n] \in E
  PROVE  /\ HopsBelow(size, kept, hop)[0] = <<>>
         /\ \A n \in 1..size : HopsBelow(size, kept, hop)[n] =
              IF n - 1 \in kept THEN Append(HopsBelow(size, kept, hop)[n - 1], hop[n - 1])
              ELSE HopsBelow(size, kept, hop)[n - 1]
         /\ \A n \in 0..size : HopsBelow(size, kept, hop)[n] \in Seq(E)
<1> DEFINE below == HopsBelow(size, kept, hop)
           B(f) == [n \in 0..size |-> IF n = 0 THEN <<>>
                                      ELSE IF n - 1 \in kept THEN Append(f[n - 1], hop[n - 1]) ELSE f[n - 1]]
           T == Seq(E)
           step == [p \in Nat \X T |-> IF p[1] \in kept THEN Append(p[2], hop[p[1]]) ELSE p[2]]
<1>1. step \in Steps(T)
  <2>1. \A p \in Nat \X T : (IF p[1] \in kept THEN Append(p[2], hop[p[1]]) ELSE p[2]) \in T
    OBVIOUS
  <2> QED BY <2>1 DEF Steps
<1>2. <<>> \in T
  OBVIOUS
<1> DEFINE none == <<>>
<1>3. PICK g : UnfoldsTo(g, T, none, step, size)
  <2>1. none \in T
    BY <1>2
  <2> HIDE DEF step, T, none
  <2> QED BY <1>1, <2>1, RecursionToLength
<1>4. g \in [0..size -> T] /\ g[0] = <<>>
  <2> HIDE DEF step, T
  <2> QED BY <1>3 DEF UnfoldsTo
<1>5. \A i \in 1..size : g[i] = step[i - 1, g[i - 1]]
  <2> HIDE DEF step
  <2> QED BY <1>3 DEF UnfoldsTo
<1>6. g = B(g)
  <2>1. ASSUME NEW n \in 0..size, n # 0
        PROVE  g[n] = IF n - 1 \in kept THEN Append(g[n - 1], hop[n - 1]) ELSE g[n - 1]
    <3>1. n \in 1..size /\ n - 1 \in 0..size /\ n - 1 \in Nat
      BY <2>1
    <3>2. g[n - 1] \in T
      <4> HIDE DEF T
      <4> QED BY <1>4, <3>1
    <3>3. step[n - 1, g[n - 1]] = IF n - 1 \in kept THEN Append(g[n - 1], hop[n - 1]) ELSE g[n - 1]
      <4> HIDE DEF T
      <4> QED BY <3>1, <3>2
    <3>4. g[n] = step[n - 1, g[n - 1]]
      <4> HIDE DEF step
      <4> QED BY <1>5, <3>1
    <3> QED BY <3>3, <3>4
  <2>2. \A n \in 0..size : g[n] = IF n = 0 THEN <<>>
                                  ELSE IF n - 1 \in kept THEN Append(g[n - 1], hop[n - 1]) ELSE g[n - 1]
    BY <1>4, <2>1
  <2>3. g = [n \in 0..size |-> g[n]]
    <3> HIDE DEF T
    <3> QED BY <1>4
  <2> QED BY <2>2, <2>3
<1>7. below = B(below)
  <2>1. below = CHOOSE f : f = B(f)
    BY DEF HopsBelow
  <2> HIDE DEF B
  <2> QED BY <1>6, <2>1
<1>8. below[0] = <<>>
  <2>1. 0 \in 0..size
    OBVIOUS
  <2> QED BY <1>7, <2>1
<1>8a. \A n \in 1..size :
         below[n] = IF n - 1 \in kept THEN Append(below[n - 1], hop[n - 1]) ELSE below[n - 1]
  <2> SUFFICES ASSUME NEW n \in 1..size
               PROVE  below[n] = IF n - 1 \in kept THEN Append(below[n - 1], hop[n - 1]) ELSE below[n - 1]
    OBVIOUS
  <2>1. n \in 0..size /\ n # 0
    OBVIOUS
  <2> QED BY <1>7, <2>1
<1> HIDE DEF below
<1>9. \A i \in 1..size : below[i - 1] \in T => below[i] \in T
  <2> SUFFICES ASSUME NEW i \in 1..size, below[i - 1] \in T PROVE below[i] \in T
    OBVIOUS
  <2>2. below[i] = IF i - 1 \in kept THEN Append(below[i - 1], hop[i - 1]) ELSE below[i - 1]
    BY <1>8a
  <2>3. i - 1 \in kept => hop[i - 1] \in E
    OBVIOUS
  <2>4. \A q \in T, e \in E : Append(q, e) \in T
    OBVIOUS
  <2> HIDE DEF T
  <2> QED BY <2>2, <2>3, <2>4
<1>10. below[0] \in T
  BY <1>2, <1>8
<1>11. \A i \in 0..size : below[i] \in T
  <2> HIDE DEF T
  <2> QED BY <1>9, <1>10, InductionToLength
<1> QED BY <1>8, <1>8a, <1>11 DEF below

\* A hop that names an address, or none.
IsHop(h) == "ip" \in DOMAIN h /\ h.ip \in Ip

\* The hop parse_raw makes of a builder, and which builders it keeps.
HopOf(end, i, final) ==
  LET rtts == [k \in DOMAIN end.b[i].timings |-> end.b[i].timings[k].rtt]
  IN  [ index |-> i, ip |-> end.b[i].ip, asn |-> "none",
        name  |-> IF end.b[i].name = "none" /\ end.b[i].ip \in DOMAIN end.names
                  THEN end.names[end.b[i].ip] ELSE end.b[i].name,
        stats |-> compute_stats(rtts, final), timings |-> Received(rtts) ]
KeptOf(end) == {n \in DOMAIN end.b : ~end.b[n].duplicate}
KeptHops(end, final) == [n \in KeptOf(end) |-> HopOf(end, n, final)]

\* parse_raw loops over the lines, and then over the builders.
LEMMA ParseRawUnfolds ==
  ASSUME NEW events \in Seq(MtrLines), NEW final, NEW end, end = RawLoop(events)[Len(events)]
  PROVE  parse_raw(events, final) = HopsBelow(end.size, KeptOf(end), KeptHops(end, final))[end.size]
<1> DEFINE size == end.size
           kept == KeptOf(end)
           hops == KeptHops(end, final)
           there(n) == n - 1 \in DOMAIN end.b /\ ~end.b[n - 1].duplicate
           kind(n) == HopOf(end, n - 1, final)
           plain == CHOOSE f : f = [n \in 0..size |->
                      IF n = 0 THEN <<>> ELSE IF there(n) THEN Append(f[n - 1], kind(n)) ELSE f[n - 1]]
           below == CHOOSE f : f = [n \in 0..size |->
                      IF n = 0 THEN <<>>
                      ELSE IF n - 1 \in kept THEN Append(f[n - 1], hops[n - 1]) ELSE f[n - 1]]
<1>1. parse_raw(events, final) = plain[size]
  <2> DEFINE after == CHOOSE f : f = [n \in 0..Len(events) |->
                                       IF n = 0 THEN NoBuilders ELSE RawStep(f[n - 1], events[n])]
             last == after[Len(events)]
             whole == CHOOSE f : f = [n \in 0..last.size |->
                        IF n = 0 THEN <<>>
                        ELSE IF n - 1 \in DOMAIN last.b /\ ~last.b[n - 1].duplicate
                             THEN Append(f[n - 1], HopOf(last, n - 1, final)) ELSE f[n - 1]]
  <2>1. parse_raw(events, final) = whole[last.size]
    BY DEF parse_raw, NoBuilders, HopOf
  <2>2. last = end
    BY DEF RawLoop
  <2> HIDE DEF last
  <2>3. whole[last.size] = plain[size]
    BY <2>2
  <2> QED BY <2>1, <2>3
<1>2. \A n \in 0..size : (n - 1 \in kept <=> there(n)) /\ (n - 1 \in kept => hops[n - 1] = kind(n))
  <2>1. \A m : m \in KeptOf(end) <=> (m \in DOMAIN end.b /\ ~end.b[m].duplicate)
    BY DEF KeptOf
  <2>2. \A m \in KeptOf(end) : KeptHops(end, final)[m] = HopOf(end, m, final)
    BY DEF KeptHops
  <2> QED BY <2>1, <2>2
<1> HIDE DEF kept, hops, there, kind, size
<1>3. \A f : [n \in 0..size |-> IF n = 0 THEN <<>>
                                ELSE IF there(n) THEN Append(f[n - 1], kind(n)) ELSE f[n - 1]]
            = [n \in 0..size |-> IF n = 0 THEN <<>>
                                ELSE IF n - 1 \in kept THEN Append(f[n - 1], hops[n - 1]) ELSE f[n - 1]]
  BY <1>2
<1>4. plain = below
  BY <1>3
<1>5. below = HopsBelow(size, kept, hops)
  BY DEF HopsBelow
<1> HIDE DEF plain, below
<1> QED BY <1>1, <1>4, <1>5 DEF size, kept, hops

\* The hops that parse_raw returns name an address each, or none.
LEMMA ParseRawTyped ==
  ASSUME NEW events \in Seq(MtrLines), NEW final
  PROVE  \E E : parse_raw(events, final) \in Seq(E) /\ \A h \in E : IsHop(h)
<1> DEFINE end == RawLoop(events)[Len(events)]
           size == end.size
           kept == KeptOf(end)
           hops == KeptHops(end, final)
           E == {hops[n] : n \in kept}
<1>1. end \in RawState
  <2>1. Len(events) \in 0..Len(events)
    OBVIOUS
  <2> QED BY <2>1, RawLoopUnfolds
<1>2. parse_raw(events, final) = HopsBelow(size, kept, hops)[size]
  BY ParseRawUnfolds
<1> HIDE DEF end
<1>3. size \in Nat
  BY <1>1 DEF RawState
<1>4. \A n \in kept : IsHop(hops[n])
  <2> SUFFICES ASSUME NEW n \in kept PROVE IsHop(hops[n])
    OBVIOUS
  <2>1. hops[n] = HopOf(end, n, final)
    BY DEF KeptHops
  <2>2. HopOf(end, n, final).ip = end.b[n].ip /\ "ip" \in DOMAIN HopOf(end, n, final)
    BY DEF HopOf
  <2>3. end.b[n] \in Builder
    BY <1>1 DEF RawState, FunctionsOn, KeptOf
  <2> HIDE DEF hops
  <2> QED BY <2>1, <2>2, <2>3 DEF IsHop, Builder
<1> HIDE DEF size, kept, hops
<1>5. \A n \in kept : hops[n] \in E
  OBVIOUS
<1>6. \A h \in E : IsHop(h)
  BY <1>4
<1> HIDE DEF E
<1>7. \A n \in 0..size : HopsBelow(size, kept, hops)[n] \in Seq(E)
  BY <1>3, <1>5, HopsUnfold
<1>8. size \in 0..size
  BY <1>3
<1>9. parse_raw(events, final) \in Seq(E)
  BY <1>2, <1>7, <1>8
<1> QED BY <1>6, <1>9

\* The lines of mtr, by their letters.
LEMMA MtrLinesTyped ==
  /\ \A hop \in Nat, ip \in Ip : MtrHost(hop, ip) \in MtrLines
  /\ \A hop \in Nat, seq \in Nat : MtrSent(hop, seq) \in MtrLines
  /\ \A hop \in Nat, seq \in Nat, rtt \in Nat : MtrReply(hop, seq, rtt) \in MtrLines
  /\ \A hop \in Nat : MtrName(hop, "one") \in MtrLines /\ [kind |-> "noise", hop |-> hop, seq |-> 0] \in MtrLines
<1>1. \A hop \in Nat, ip \in Ip : MtrHost(hop, ip) \in MtrLines
  BY DEF MtrHost, MtrLines
<1>2. \A hop \in Nat, seq \in Nat : MtrSent(hop, seq) \in MtrLines
  BY DEF MtrSent, MtrLines
<1>3. \A hop \in Nat, seq \in Nat, rtt \in Nat : MtrReply(hop, seq, rtt) \in MtrLines
  BY DEF MtrReply, MtrLines
<1>4. \A hop \in Nat : MtrName(hop, "one") \in MtrLines
  BY DEF MtrName, MtrLines
<1>5. \A hop \in Nat : [kind |-> "noise", hop |-> hop, seq |-> 0] \in MtrLines
  BY DEF MtrLines
<1> QED BY <1>1, <1>2, <1>3, <1>4, <1>5

\* The addresses of hops are addresses.
LEMMA MtrIps == IPv4(9, 9, 9, 9) \in Ip /\ IPv4(10, 0, 0, 1) \in Ip
<1>1. 9 \in Octet /\ 10 \in Octet /\ 0 \in Octet /\ 1 \in Octet
  BY DEF Octet
<1> QED BY <1>1, IPv4IsAddress DEF Ip

\* The probes of one hop are lines of mtr.
LEMMA MtrProbesTyped ==
  ASSUME NEW t \in MtrTimes
  PROVE  MtrProbes(t) \in Seq(MtrLines)
<1> DEFINE L == Seq(MtrLines)
           pair(i) == IF t[i] = NoTime THEN <<MtrSent(0, i)>> ELSE <<MtrSent(0, i), MtrReply(0, i, t[i])>>
           pairs == [i \in DOMAIN t |-> pair(i)]
<1>1. PICK n \in 3..4 : t \in [1..n -> {NoTime, 14, 37}]
  BY DEF MtrTimes
<1>2. DOMAIN t = 1..n /\ n \in Nat /\ \A i \in 1..n : i \in Nat /\ (t[i] = NoTime \/ t[i] \in Nat)
  BY <1>1 DEF NoTime
<1>3. \A i \in 1..n : pair(i) \in L
  <2> SUFFICES ASSUME NEW i \in 1..n PROVE pair(i) \in L
    OBVIOUS
  <2> DEFINE sent == MtrSent(0, i)
             reply == MtrReply(0, i, t[i])
  <2>1. sent \in MtrLines /\ (t[i] # NoTime => reply \in MtrLines)
    <3>1. 0 \in Nat
      OBVIOUS
    <3> QED BY <1>2, <3>1, MtrLinesTyped
  <2>2. <<sent>> \in L /\ (t[i] # NoTime => <<sent, reply>> \in L)
    <3> HIDE DEF sent, reply
    <3> QED BY <2>1
  <2> HIDE DEF L
  <2> QED BY <2>2
<1> HIDE DEF pair
<1>4. pairs \in Seq(L)
  <2>1. pairs \in [1..n -> L]
    <3> HIDE DEF L
    <3> QED BY <1>2, <1>3
  <2> HIDE DEF pairs, L
  <2> QED BY <1>2, <2>1
<1>5. MtrProbes(t) = FlattenSeq(pairs)
  BY DEF MtrProbes, pair
<1> HIDE DEF pairs
<1> QED BY <1>4, <1>5, FlattenedSequences

\* All that mtr may print are lines of mtr.
LEMMA MtrPrintsLines == CheckedInv => MtrOutputs \subseteq Seq(MtrLines)
<1> SUFFICES ASSUME CheckedInv PROVE MtrOutputs \subseteq Seq(MtrLines)
  OBVIOUS
<1> DEFINE L == Seq(MtrLines)
<1>0. 0 \in Nat /\ 1 \in Nat /\ 2 \in Nat /\ 3 \in Nat /\ 4 \in Nat /\ 24 \in Nat /\ 15 \in Nat
  OBVIOUS
<1>1. MtrEvents \subseteq MtrLines
  <2>1. \A e \in MtrEvents :
          \/ \E hop \in Nat : e = MtrHost(hop, IPv4(9, 9, 9, 9))
          \/ \E hop \in Nat, seq \in Nat : e = MtrSent(hop, seq)
          \/ \E hop \in Nat, seq \in Nat, rtt \in Nat : e = MtrReply(hop, seq, rtt)
          \/ \E hop \in Nat : e = MtrName(hop, "one") \/ e = [kind |-> "noise", hop |-> hop, seq |-> 0]
    BY <1>0, Zenon DEF MtrEvents
  <2> QED BY <2>1, MtrIps, MtrLinesTyped, Zenon
<1>2. BoundedSeq(MtrEvents, 4) \subseteq L
  <2>1. BoundedSeq(MtrEvents, 4) \subseteq Seq(MtrEvents)
    BY <1>0, BoundedAreSequences
  <2>2. Seq(MtrEvents) \subseteq L
    BY <1>1
  <2> QED BY <2>1, <2>2
<1>3. \A ip \in job.resolves : MtrEndsAt(ip) \in L
  <2> SUFFICES ASSUME NEW ip \in job.resolves PROVE MtrEndsAt(ip) \in L
    OBVIOUS
  <2>1. \A a \in MtrLines, b \in MtrLines, c \in MtrLines : <<a, b, c>> \in L
    OBVIOUS
  <2>2. ip \in Ip
    BY DEF Ip, CheckedInv, JobType
  <2>3. MtrHost(0, IPv4(10, 0, 0, 1)) \in MtrLines /\ MtrSent(0, 1) \in MtrLines /\ MtrHost(2, ip) \in MtrLines
    BY <1>0, <2>2, MtrIps, MtrLinesTyped, Zenon
  <2> HIDE DEF L
  <2> QED BY <2>1, <2>3, Zenon DEF MtrEndsAt
<1>4. \A t \in MtrTimes : MtrRun(t) \in L
  <2> SUFFICES ASSUME NEW t \in MtrTimes PROVE MtrRun(t) \in L
    OBVIOUS
  <2> DEFINE first == <<MtrHost(0, IPv4(9, 9, 9, 9))>>
             probes == MtrProbes(t)
  <2>1. MtrHost(0, IPv4(9, 9, 9, 9)) \in MtrLines
    BY <1>0, MtrIps, MtrLinesTyped, Zenon
  <2>2. \A a \in MtrLines : <<a>> \in L
    OBVIOUS
  <2>3. first \in L
    <3> HIDE DEF L
    <3> QED BY <2>1, <2>2, Zenon
  <2>4. probes \in L
    BY MtrProbesTyped
  <2> HIDE DEF first, probes
  <2>5. first \o probes \in L
    BY <2>3, <2>4, JoinedLines
  <2> QED BY <2>5 DEF first, probes, MtrRun
<1> HIDE DEF L
<1>5. \A out \in MtrOutputs : out \in L
  BY <1>2, <1>3, <1>4, Zenon DEF MtrOutputs
<1> QED BY <1>5 DEF L

\* What mtr has printed; while the AS numbers are looked up, the last hop with
\* an address has one that may be told.
MtrInv ==
  Is("mtr") =>
    /\ tool \in Seq(MtrLines)
    /\ pc = "asn" =>
         \/ local.last = 0
         \/ /\ local.last \in DOMAIN local.hops
            /\ IsHop(local.hops[local.last])
            /\ ~is_ip_private(local.hops[local.last].ip)
    /\ TellsNothing

\* The last hop with an address, if there is one, is a hop.
LEMMA LastIsHop ==
  ASSUME NEW E, NEW hops \in Seq(E), NEW Test(_)
  PROVE  LET last == SelectLastInSeq(hops, Test) IN last # 0 => last \in DOMAIN hops
<1> DEFINE I == {i \in 1..Len(hops) : Test(hops[i])}
           last == SelectLastInSeq(hops, Test)
<1>1. last = IF I # {} THEN Max(I) ELSE 0
  BY DEF SelectLastInSeq
<1>2. Len(hops) \in Nat /\ I \in SUBSET (0..Len(hops)) /\ \A i \in I : i \in DOMAIN hops
  OBVIOUS
<1> HIDE DEF I
<1>3. I # {} => Max(I) \in I
  BY <1>2, MaxIsMember
<1> QED BY <1>1, <1>2, <1>3

\* Every step of mtr keeps its result public.
LEMMA MtrTellsPublic ==
  ASSUME CheckedInv, MtrInv, Is("mtr"), MtrNext
  PROVE  MtrInv'
<1>1. Is("mtr")' <=> Is("mtr")
  BY NextKeepsJob DEF Next, Is
<1>2. TellsNothing /\ (result' = result => TellsNothing')
  BY DEF MtrInv, TellsNothing, TellsPublic
<1>3. tool \in Seq(MtrLines) /\ <<>> \in Seq(MtrLines)
  BY DEF MtrInv
<1>4. CASE Reject("mtr", MtrValid) \/ SpawnFails("mtr", MtrValid)
  <2>1. TellsNothing' /\ UNCHANGED tool /\ pc' = "done"
    BY <1>4, FailuresTellNothing DEF Reject, SpawnFails, Return
  <2> QED BY <1>3, <2>1 DEF MtrInv
<1>5. CASE Spawn("mtr", MtrValid, MtrOutputs)
  <2>1. tool' \in Seq(MtrLines) /\ result' = result /\ pc' = "reading"
    BY <1>5, MtrPrintsLines DEF Spawn
  <2> QED BY <1>2, <2>1 DEF MtrInv
<1>6. CASE MtrCollect
  <2> DEFINE hops == parse_raw(tool, TRUE)
             last == SelectLastInSeq(hops, LAMBDA h : h.ip # NoIp)
  <2>1. tool' = <<>>
    BY <1>6 DEF MtrCollect
  <2>2. \/ pc' = "done" /\ \E raw : result' = MtrFailed(raw)
        \/ /\ pc' = "asn" /\ result' = result
           /\ last = 0 \/ ~is_ip_private(hops[last].ip)
           /\ local' = [hops |-> hops, last |-> last, limit |-> 3]
    BY <1>6 DEF MtrCollect, Return
  <2>3. PICK E : hops \in Seq(E) /\ \A h \in E : IsHop(h)
    BY <1>3, ParseRawTyped
  <2>4. last # 0 => last \in DOMAIN hops
    <3> HIDE DEF hops
    <3> QED BY <2>3, LastIsHop
  <2> HIDE DEF hops, last
  <2>5. last # 0 => IsHop(hops[last])
    BY <2>3, <2>4
  <2>6. CASE pc' = "done" /\ \E raw : result' = MtrFailed(raw)
    BY <1>3, <2>1, <2>6, NoneIsPublic DEF MtrInv, MtrFailed, TellsNothing, TellsPublic
  <2>7. CASE /\ pc' = "asn" /\ result' = result
             /\ last = 0 \/ ~is_ip_private(hops[last].ip)
             /\ local' = [hops |-> hops, last |-> last, limit |-> 3]
    <3>1. local'.hops = hops /\ local'.last = last
      BY <2>7
    <3> QED BY <1>2, <1>3, <2>1, <2>4, <2>5, <2>7, <3>1 DEF MtrInv
  <2> QED BY <2>2, <2>6, <2>7
<1>7. CASE MtrLookup
  <2>1. PICK known : LET hops == [i \in DOMAIN local.hops |->
                           [local.hops[i] EXCEPT !.asn = IF local.hops[i].ip \in known THEN "AS" ELSE @]]
                     IN  Return([ status |-> "finished", hops |-> hops, raw |-> build_output(hops),
                                  address |-> IF local.last = 0 THEN NoIp ELSE hops[local.last].ip ])
    BY <1>7 DEF MtrLookup
  <2> DEFINE asked(h) == [h EXCEPT !.asn = IF h.ip \in known THEN "AS" ELSE @]
             hops == [i \in DOMAIN local.hops |-> asked(local.hops[i])]
             address == IF local.last = 0 THEN NoIp ELSE hops[local.last].ip
             raw == build_output(hops)
  <2>2. result' = [status |-> "finished", hops |-> hops, raw |-> raw, address |-> address] /\ pc' = "done"
    BY <2>1 DEF Return
  <2>3. pc = "asn" /\ UNCHANGED tool
    BY <1>7 DEF MtrLookup
  <2>4. address \in Ip /\ ~is_ip_private(address)
    <3>1. CASE local.last = 0
      <4>1. NoIp \in Ip /\ ~is_ip_private(NoIp)
        <5>1. NoIp \in Ip
          BY DEF Ip
        <5>2. NoIp.v = 0
          BY DEF NoIp
        <5> QED BY <5>1, <5>2, NoneIsReserved
      <4> QED BY <3>1, <4>1
    <3>2. CASE local.last # 0
      <4>1. /\ local.last \in DOMAIN local.hops
            /\ IsHop(local.hops[local.last])
            /\ ~is_ip_private(local.hops[local.last].ip)
        BY <2>3, <3>2 DEF MtrInv
      <4>2. \A h : IsHop(h) => asked(h).ip = h.ip
        BY DEF IsHop
      <4> HIDE DEF asked
      <4>3. hops[local.last].ip = local.hops[local.last].ip
        BY <4>1, <4>2
      <4> HIDE DEF hops
      <4>4. address = hops[local.last].ip
        BY <3>2
      <4> QED BY <4>1, <4>3, <4>4 DEF IsHop
    <3> QED BY <3>1, <3>2
  <2> HIDE DEF hops, address, raw
  <2>5. TellsPublic(result')
    BY <2>2, <2>4 DEF TellsPublic
  <2> QED BY <1>3, <2>2, <2>3, <2>5 DEF MtrInv, TellsNothing, TellsPublic
<1> QED BY <1>4, <1>5, <1>6, <1>7 DEF MtrNext

\* What every command keeps to, so that its result, its partial results and
\* its connections stay public.
UntoldInv == CheckedInv /\ HttpInv /\ PingInv /\ TracerouteInv /\ DnsInv /\ MtrInv

\* Nothing has been told at first.
LEMMA InitUntold == Init => UntoldInv
<1> SUFFICES ASSUME Init PROVE UntoldInv
  OBVIOUS
<1>1. pc = "new" /\ tool = <<>> /\ read = <<>> /\ told = <<>> /\ result.status = "none"
  BY DEF Init, Started, Nothing
<1>2. TellsNothing
  BY DEF TellsNothing, Init, Started, Nothing
<1>3. HttpInv /\ TracerouteInv /\ MtrInv
  BY <1>1, <1>2 DEF HttpInv, TracerouteInv, MtrInv
<1>4. PingInv
  <2>1. told \in Seq({}) /\ \A r \in {} : TellsPublic(r)
    BY <1>1
  <2> QED BY <1>1, <1>2, <2>1 DEF PingInv
<1>5. DnsInv
  <2>1. tool \in Seq({}) /\ \A l \in {} : NamesServer(l)
    BY <1>1
  <2> QED BY <1>1, <2>1 DEF DnsInv
<1> QED BY <1>3, <1>4, <1>5, InitChecked DEF UntoldInv

\* A run that ends otherwise tells nothing more.
LEMMA EndsKeepUntold ==
  ASSUME UntoldInv, Drop \/ Emit \/ UNCHANGED vars
  PROVE  HttpInv' /\ PingInv' /\ TracerouteInv' /\ DnsInv' /\ MtrInv'
<1>1. job' = job /\ tool' = tool /\ read' = read /\ told' = told
  BY DEF Drop, Emit, vars
<1>2. pc' \in {"done", "emitted"} \/ (pc' = pc /\ local' = local)
  BY DEF Drop, Emit, vars, Return
<1>3. TellsNothing => TellsNothing'
  BY EndsTellNothing
<1>4. HttpInv'
  <2> SUFFICES ASSUME Is("http")' PROVE HttpInv'
    BY DEF HttpInv
  <2>1. Is("http")
    BY <1>1 DEF Is
  <2> QED BY <1>1, <1>2, <1>3, <2>1 DEF UntoldInv, HttpInv, TellsPublic
<1>5. PingInv'
  BY <1>1, <1>2, <1>3 DEF UntoldInv, PingInv, Is
<1>6. TracerouteInv'
  <2>1. HeldBack /\ Is("traceroute") => (TellsNothing \/ HeldBack)'
    <3>1. Is("traceroute") => result' = result \/ result' = TimedOut
      BY DEF Drop, Emit, vars, Return, Is
    <3>2. DOMAIN TimedOut = {"status"}
      BY DEF TimedOut
    <3> QED BY <3>1, <3>2 DEF HeldBack, TellsNothing
  <2> QED BY <1>1, <1>3, <2>1 DEF UntoldInv, TracerouteInv, Is
<1>7. MtrInv'
  BY <1>1, <1>2, <1>3 DEF UntoldInv, MtrInv, Is
<1>8. DnsInv'
  <2>1. Is("dns") => result' = result \/ result'.status # "finished"
    BY DEF Drop, Emit, vars, Return, TimedOut, Is
  <2> QED BY <1>1, <2>1 DEF UntoldInv, DnsInv, Is
<1> QED BY <1>4, <1>5, <1>6, <1>7, <1>8

\* No step of any command tells more than it may.
LEMMA NextUntold == UntoldInv /\ [Next]_vars => UntoldInv'
<1> SUFFICES ASSUME UntoldInv, [Next]_vars PROVE UntoldInv'
  OBVIOUS
<1> DEFINE Kept == HttpInv' /\ PingInv' /\ TracerouteInv' /\ DnsInv' /\ MtrInv'
<1>1. CheckedInv'
  BY NextChecked DEF UntoldInv
<1>2. \A cmd : Is(cmd)' <=> Is(cmd)
  BY NextKeepsJob DEF Is
<1>3. /\ ~Is("http") => HttpInv'
      /\ ~Is("ping") => PingInv'
      /\ ~Is("traceroute") => TracerouteInv'
      /\ ~Is("dns") => DnsInv'
      /\ ~Is("mtr") => MtrInv'
  BY <1>2 DEF HttpInv, PingInv, TracerouteInv, DnsInv, MtrInv
<1>4. \A a, b : Is(a) /\ a # b => ~Is(b)
  BY DEF Is
<1>5. CASE Drop \/ Emit \/ UNCHANGED vars
  BY <1>1, <1>5, EndsKeepUntold DEF UntoldInv
<1>6. CASE Is("ping") /\ PingNext
  <2>1. PingInv'
    BY <1>6, PingTellsPublic DEF UntoldInv
  <2> QED BY <1>1, <1>3, <1>4, <1>6, <2>1 DEF UntoldInv
<1>7. CASE Is("traceroute") /\ TracerouteNext
  <2>1. TracerouteInv'
    BY <1>7, TracerouteTellsPublic DEF UntoldInv
  <2> QED BY <1>1, <1>3, <1>4, <1>7, <2>1 DEF UntoldInv
<1>8. CASE Is("dns") /\ DnsNext
  <2>1. DnsInv'
    BY <1>8, DnsHidesResolver DEF UntoldInv
  <2> QED BY <1>1, <1>3, <1>4, <1>8, <2>1 DEF UntoldInv
<1>9. CASE Is("mtr") /\ MtrNext
  <2>1. MtrInv'
    BY <1>9, MtrTellsPublic DEF UntoldInv
  <2> QED BY <1>1, <1>3, <1>4, <1>9, <2>1 DEF UntoldInv
<1>10. CASE Is("http") /\ HttpNext
  <2>1. HttpInv'
    BY <1>10, HttpTellsPublic DEF UntoldInv
  <2> QED BY <1>1, <1>3, <1>4, <1>10, <2>1 DEF UntoldInv
<1>11. CASE Is("tcp") /\ TcpNext
  BY <1>1, <1>3, <1>4, <1>11 DEF UntoldInv
<1>12. CASE job.cmd \notin {"ping", "dns", "traceroute", "mtr", "http", "tcp"} /\ UnknownType
  BY <1>1, <1>3, <1>12 DEF UntoldInv, Is
<1> QED BY <1>5, <1>6, <1>7, <1>8, <1>9, <1>10, <1>11, <1>12, OwnSteps

\* So what is filtered stays filtered.
LEMMA UntoldImplies == UntoldInv => ReservedIsFiltered
<1> SUFFICES ASSUME UntoldInv PROVE ReservedIsFiltered
  OBVIOUS
<1>1. ReservedRunsNothing
  BY CheckedRunsNothing DEF UntoldInv
<1>2. CurlGoesToPublic
  <2> SUFFICES ASSUME Is("http"), pc = "curl" PROVE ~Reserved(ConnectsTo(local.args))
    BY DEF CurlGoesToPublic
  <2>1. ConnectsTo(local.args) \in Ip /\ ~is_ip_private(ConnectsTo(local.args))
    BY DEF UntoldInv, HttpInv
  <2> QED BY <2>1, PrivateOrReserved
<1>3. \A r : TellsPublic(r) => ~Reserved(r.address)
  BY PrivateOrReserved DEF TellsPublic
<1>4. ResultTellsPublic
  <2> SUFFICES ASSUME job.cmd \in Guarded, "address" \in DOMAIN result, Reserved(result.address)
               PROVE  Is("traceroute") /\ HeldBack
    BY DEF ResultTellsPublic, HeldBack
  <2>1. TellsNothing \/ (Is("traceroute") /\ HeldBack)
    <3>1. Is("ping") \/ Is("traceroute") \/ Is("mtr") \/ Is("http")
      BY DEF Guarded, Is
    <3>2. Is("ping") => TellsNothing
      BY DEF UntoldInv, PingInv
    <3>3. Is("traceroute") => TellsNothing \/ HeldBack
      BY DEF UntoldInv, TracerouteInv
    <3>4. Is("mtr") => TellsNothing
      BY DEF UntoldInv, MtrInv
    <3>5. Is("http") => TellsNothing
      BY DEF UntoldInv, HttpInv
    <3> QED BY <3>1, <3>2, <3>3, <3>4, <3>5, Zenon
  <2>2. ~TellsPublic(result)
    BY <1>3
  <2>3. ~TellsNothing
    BY <2>2 DEF TellsNothing
  <2> QED BY <2>1, <2>3
<1>5. PartialsTellPublic
  <2> SUFFICES ASSUME Is("ping"), NEW i \in DOMAIN told PROVE ~Reserved(told[i].address)
    BY DEF PartialsTellPublic
  <2>1. PICK S : told \in Seq(S) /\ \A r \in S : TellsPublic(r)
    BY DEF UntoldInv, PingInv
  <2>2. told[i] \in S
    BY <2>1
  <2> QED BY <1>3, <2>1, <2>2
<1>6. ResolverIsHidden
  BY DEF ResolverIsHidden, UntoldInv, DnsInv, HidesServer, Finished
<1>7. ServersAreHidden
  <2> DEFINE l == [nameserver |-> TRUE, ip |-> job.target.ip, text |-> "address"]
  <2>1. parse_resolv_conf(<<l>>) = <<IF is_ip_private(l.ip) THEN "private" ELSE l.text>>
    <3>1. l.nameserver = TRUE /\ l.text # ""
      OBVIOUS
    <3> HIDE DEF l
    <3> QED BY <3>1, ServerOfOneLine
  <2>2. l.ip = job.target.ip /\ l.text = "address"
    OBVIOUS
  <2>3. job.target.ip \in Ip
    BY DEF UntoldInv, CheckedInv, JobType
  <2>4. is_ip_private(job.target.ip) <=> Reserved(job.target.ip)
    BY <2>3, PrivateOrReserved
  <2> QED BY <2>1, <2>2, <2>4 DEF ServersAreHidden
<1> QED BY <1>1, <1>2, <1>4, <1>5, <1>6, <1>7 DEF ReservedIsFiltered

\* The filter of reserved addresses holds, whatever the addresses of the machine,
\* the commands and the limits are: a literal target or resolver that is reserved
\* has no tool run, curl connects to checked addresses only, no result, finished
\* or failed, has a reserved address but the one with which traceroute holds its
\* output back, and none is in a partial result of ping, in dig's classic output
\* or in the list of servers.  Traces of dig, the hops on the way and resolvers
\* given by name are outside the filter, as they are in the code.
THEOREM ReservedStaysFiltered == Spec => []ReservedIsFiltered
  BY InitUntold, NextUntold, UntoldImplies, PTL DEF Spec

----------------------------------------------------------------------------
(* Partial results *)

\* A prefix is a beginning.
LEMMA PrefixIsBeginning ==
  ASSUME NEW S, NEW s \in Seq(S), NEW t \in Seq(S)
  PROVE  IsPrefix(s, t) <=> Begins(s, t)
<1>1. SubSeq(s, 1, Len(s)) = s
  OBVIOUS
<1>2. ASSUME Begins(s, t) PROVE s = SubSeq(t, 1, Len(s))
  BY <1>2 DEF Begins
<1>3. ASSUME Len(s) <= Len(t), s = SubSeq(t, 1, Len(s)) PROVE Begins(s, t)
  <2>1. \A k \in 1..Len(s) : SubSeq(t, 1, Len(s))[k] = t[k]
    BY <1>3
  <2> QED BY <1>3, <2>1 DEF Begins
<1> QED BY <1>1, <1>2, <1>3 DEF IsPrefix, Begins

\* The items of what a ping or a traceroute has read.
ItemsOf(cmd, lines) == IF cmd = "ping" THEN PingParse(lines).items ELSE TracerouteParse(lines).items

\* A beginning of the lines of a ping gives a beginning of its items.
LEMMA PingItemsGrow ==
  ASSUME NEW lines \in Seq(PingLines), NEW m \in 1..Len(lines), Head(lines).kind = "header"
  PROVE  IsPrefix(PingParse(SubSeq(lines, 1, m)).items, PingParse(lines).items)
<1> DEFINE p == SubSeq(lines, 1, m)
           P == {i \in 2..Len(p) : p[i].kind = "reply"}
           Q == {i \in 2..Len(lines) : lines[i].kind = "reply"}
           some == Chosen(p, P)
           all == Chosen(lines, Q)
           rtt(r) == [i \in DOMAIN r |-> r[i].rtt]
<1>1. p \in Seq(PingLines) /\ Len(p) = m /\ \A i \in 1..m : p[i] = lines[i]
  OBVIOUS
<1>2. m \in 0..Len(lines) /\ m \in Nat /\ Len(lines) \in Nat /\ m <= Len(lines) /\ lines # <<>> /\ p # <<>>
  BY <1>1
<1>3. Head(p).kind = "header"
  BY <1>1, <1>2
<1>4. PingParse(p).items = rtt(some) /\ PingParse(lines).items = rtt(all)
  <2> HIDE DEF p
  <2> QED BY <1>2, <1>3 DEF PingParse
<1>5. \A i \in 1..m : i \in P <=> i \in Q
  BY <1>1, <1>2
<1>6. Begins(some, all)
  <2> HIDE DEF P, Q
  <2> QED BY <1>2, <1>5, ChosenBegins
<1>7. some \in Seq(PingLines) /\ all \in Seq(PingLines)
  <2> HIDE DEF P, Q, p
  <2> QED BY <1>1, ChosenTyped
<1> HIDE DEF some, all
<1> DEFINE E == {some[i].rtt : i \in DOMAIN some} \cup {all[i].rtt : i \in DOMAIN all}
<1>8. rtt(some) \in Seq(E) /\ rtt(all) \in Seq(E)
  <2>1. \A s \in Seq(PingLines) : \A F : (\A i \in DOMAIN s : s[i].rtt \in F) => rtt(s) \in Seq(F)
    OBVIOUS
  <2> QED BY <1>7, <2>1
<1>9. Begins(rtt(some), rtt(all))
  <2>1. Len(rtt(some)) = Len(some) /\ Len(rtt(all)) = Len(all)
    BY <1>7
  <2> QED BY <1>6, <1>7, <2>1 DEF Begins
<1> HIDE DEF E, rtt
<1> QED BY <1>4, <1>8, <1>9, PrefixIsBeginning

\* A beginning of the lines of a traceroute gives a beginning of its hops.
LEMMA TracerouteItemsGrow ==
  ASSUME NEW lines \in Seq(TracerouteLines), NEW m \in 1..Len(lines), Head(lines).kind = "header"
  PROVE  IsPrefix(TracerouteParse(SubSeq(lines, 1, m)).items, TracerouteParse(lines).items)
<1> DEFINE p == SubSeq(lines, 1, m)
           hops(s) == [i \in 1..Len(s) - 1 |-> parse_hop_line(HideGateway(s)[i + 1])]
<1>1. p \in Seq(TracerouteLines) /\ Len(p) = m /\ \A i \in 1..m : p[i] = lines[i]
  OBVIOUS
<1>2. m \in 1..Len(lines) /\ m \in Nat /\ Len(lines) \in Nat /\ m <= Len(lines) /\ lines # <<>> /\ p # <<>>
  BY <1>1
<1>3. Head(p).kind = "header"
  BY <1>1, <1>2
<1> HIDE DEF p
<1>4. \A s \in Seq(TracerouteLines) :
        Len(HideGateway(s)) = Len(s)
        /\ \A i \in 1..Len(s) : HideGateway(s)[i] =
             IF i = 2 /\ s[2].host # "none" THEN [s[i] EXCEPT !.host = "_gateway"] ELSE s[i]
  <2> SUFFICES ASSUME NEW s \in Seq(TracerouteLines)
               PROVE  Len(HideGateway(s)) = Len(s)
                      /\ \A i \in 1..Len(s) : HideGateway(s)[i] =
                           IF i = 2 /\ s[2].host # "none" THEN [s[i] EXCEPT !.host = "_gateway"] ELSE s[i]
    OBVIOUS
  <2>1. CASE Len(s) > 1 /\ s[2].host # "none"
    <3>1. HideGateway(s) = [s EXCEPT ![2].host = "_gateway"]
      BY <2>1 DEF HideGateway
    <3> QED BY <2>1, <3>1
  <2>2. CASE ~(Len(s) > 1 /\ s[2].host # "none")
    <3>1. HideGateway(s) = s
      BY <2>2 DEF HideGateway
    <3>2. \A i \in 1..Len(s) : i = 2 => Len(s) > 1
      OBVIOUS
    <3> QED BY <2>2, <3>1, <3>2
  <2> QED BY <2>1, <2>2
<1>5. TracerouteParse(p).items = hops(p) /\ TracerouteParse(lines).items = hops(lines)
  <2>1. \A s \in Seq(TracerouteLines) : s # <<>> /\ Head(s).kind = "header" => TracerouteParse(s).items = hops(s)
    BY <1>4 DEF TracerouteParse
  <2> QED BY <1>1, <1>2, <1>3, <2>1
<1>6. \A i \in 1..m - 1 : hops(p)[i] = hops(lines)[i]
  <2> SUFFICES ASSUME NEW i \in 1..m - 1 PROVE hops(p)[i] = hops(lines)[i]
    OBVIOUS
  <2>1. i + 1 \in 1..m /\ i + 1 \in 1..Len(lines) /\ i \in 1..Len(lines) - 1 /\ i \in 1..Len(p) - 1
    BY <1>1, <1>2
  <2>2. p[i + 1] = lines[i + 1] /\ (i + 1 = 2 => p[2] = lines[2])
    BY <1>1, <2>1
  <2>3. HideGateway(p)[i + 1] = HideGateway(lines)[i + 1]
    <3> DEFINE one(l, t) == IF i + 1 = 2 /\ t.host # "none" THEN [l EXCEPT !.host = "_gateway"] ELSE l
    <3>1. i + 1 \in 1..Len(p)
      BY <1>1, <2>1
    <3>2. HideGateway(p)[i + 1] = one(p[i + 1], p[2])
      BY <1>1, <1>4, <3>1
    <3>3. HideGateway(lines)[i + 1] = one(lines[i + 1], lines[2])
      BY <1>4, <2>1
    <3>4. one(p[i + 1], p[2]) = one(lines[i + 1], lines[2])
      <4>1. CASE i + 1 = 2
        BY <2>2, <4>1
      <4>2. CASE i + 1 # 2
        BY <2>2, <4>2
      <4> QED BY <4>1, <4>2
    <3> HIDE DEF one
    <3> QED BY <3>2, <3>3, <3>4
  <2> QED BY <2>1, <2>3
<1> DEFINE E == {hops(p)[i] : i \in DOMAIN hops(p)} \cup {hops(lines)[i] : i \in DOMAIN hops(lines)}
<1>7. Len(p) - 1 \in Nat /\ Len(lines) - 1 \in Nat
  BY <1>1, <1>2
<1>8. hops(p) \in Seq(E) /\ hops(lines) \in Seq(E) /\ Len(hops(p)) = m - 1 /\ Len(hops(lines)) = Len(lines) - 1
  <2>1. \A s, n : n \in Nat /\ DOMAIN s = 1..n /\ s = [i \in 1..n |-> s[i]] /\ (\A i \in 1..n : s[i] \in E)
                   => s \in Seq(E) /\ Len(s) = n
    <3> HIDE DEF E
    <3> QED OBVIOUS
  <2>2. DOMAIN hops(p) = 1..Len(p) - 1 /\ hops(p) = [i \in 1..Len(p) - 1 |-> hops(p)[i]]
    OBVIOUS
  <2>3. DOMAIN hops(lines) = 1..Len(lines) - 1 /\ hops(lines) = [i \in 1..Len(lines) - 1 |-> hops(lines)[i]]
    OBVIOUS
  <2>4. (\A i \in 1..Len(p) - 1 : hops(p)[i] \in E) /\ \A i \in 1..Len(lines) - 1 : hops(lines)[i] \in E
    BY <2>2, <2>3
  <2> HIDE DEF hops, E
  <2> QED BY <1>1, <1>7, <2>1, <2>2, <2>3, <2>4
<1> HIDE DEF hops, E
<1>9. Begins(hops(p), hops(lines))
  BY <1>2, <1>6, <1>8 DEF Begins
<1>10. IsPrefix(hops(p), hops(lines))
  BY <1>8, <1>9, PrefixIsBeginning
<1> QED BY <1>5, <1>10 DEF p

\* Every partial result of a ping or traceroute is that of the lines read up to
\* one of them, a later one for a later result, and so is the result of them all.
PartialsInv ==
  Is("ping") \/ Is("traceroute") =>
    /\ \E S : told \in Seq(S)
    /\ pc = "new" => told = <<>> /\ read = <<>>
    /\ pc \in {"new", "reading"} => result = Nothing
    /\ told # <<>> => read # <<>> /\ Head(read).kind = "header"
    /\ \A i \in DOMAIN told :
         LET n == Len(told[i].raw)
         IN  /\ n \in 1..Len(read)
             /\ told[i].raw = SubSeq(read, 1, n)
             /\ told[i].items = ItemsOf(job.cmd, SubSeq(read, 1, n))
    /\ \A i, j \in DOMAIN told : i < j => Len(told[i].raw) < Len(told[j].raw)
    /\ result.status = "finished" => result.items = ItemsOf(job.cmd, read)

\* Nothing has been told at first.
LEMMA InitPartials == Init => PartialsInv
<1> SUFFICES ASSUME Init PROVE PartialsInv
  OBVIOUS
<1>1. pc = "new" /\ told = <<>> /\ read = <<>> /\ result = Nothing
  BY DEF Init, Started
<1>2. told \in Seq({})
  BY <1>1
<1>3. DOMAIN told = {}
  BY <1>1
<1>4. result.status # "finished"
  BY <1>1 DEF Nothing
<1> QED BY <1>1, <1>2, <1>3, <1>4 DEF PartialsInv

\* The partial results are those of the lines read, before one of them as after it.
LEMMA PartialsStay ==
  ASSUME NEW S, read \in Seq(S), NEW l \in S, NEW n \in 1..Len(read)
  PROVE  /\ n \in 1..Len(Append(read, l))
         /\ SubSeq(Append(read, l), 1, n) = SubSeq(read, 1, n)
  OBVIOUS

\* A further line is read, and a result that tells of all the lines may follow.
LEMMA OneMorePartial ==
  ASSUME Is("ping") \/ Is("traceroute"), PartialsInv, job' = job, pc = "reading",
         NEW S, read \in Seq(S), NEW l \in S, read' = Append(read, l),
         NEW partial,
         \/ told' = told
         \/ /\ told' = Append(told, partial)
            /\ partial.raw = read' /\ partial.items = ItemsOf(job.cmd, read')
            /\ Head(read').kind = "header",
         pc' \notin {"new", "reading"} \/ result' = Nothing, pc' # "new",
         result'.status # "finished"
  PROVE  PartialsInv'
<1>1. read' \in Seq(S) /\ Len(read') = Len(read) + 1 /\ read' # <<>> /\ Len(read) \in Nat
      /\ read # <<>> => Head(read') = Head(read)
  OBVIOUS
<1>2. PICK T : told \in Seq(T)
  BY DEF PartialsInv
<1>3. job'.cmd = job.cmd
  OBVIOUS
<1>4. ASSUME NEW i \in DOMAIN told
      PROVE  LET n == Len(told[i].raw)
             IN  /\ n \in 1..Len(read) /\ n \in 1..Len(read')
                 /\ told[i].raw = SubSeq(read', 1, n)
                 /\ told[i].items = ItemsOf(job.cmd, SubSeq(read', 1, n))
  <2>1. LET n == Len(told[i].raw)
        IN  n \in 1..Len(read) /\ told[i].raw = SubSeq(read, 1, n) /\ told[i].items = ItemsOf(job.cmd, SubSeq(read, 1, n))
    BY DEF PartialsInv
  <2> QED BY <2>1, PartialsStay
<1>5. CASE told' = told
  BY <1>1, <1>2, <1>3, <1>4, <1>5 DEF PartialsInv
<1>6. CASE /\ told' = Append(told, partial)
           /\ partial.raw = read' /\ partial.items = ItemsOf(job.cmd, read')
           /\ Head(read').kind = "header"
  <2> DEFINE new == Len(told) + 1
  <2>1. Len(told) \in Nat /\ DOMAIN told = 1..Len(told) /\ DOMAIN told' = 1..new
        /\ told'[new] = partial /\ \A i \in DOMAIN told : told'[i] = told[i]
    BY <1>2, <1>6
  <2>2. told' \in Seq(T \cup {partial})
    <3>1. told \in Seq(T \cup {partial})
      BY <1>2
    <3> QED BY <1>6, <3>1
  <2>3. Len(read') \in 1..Len(read') /\ SubSeq(read', 1, Len(read')) = read'
    BY <1>1
  <2>4. \A i \in DOMAIN told' : i = new \/ i \in DOMAIN told
    BY <2>1
  <2> HIDE DEF new
  <2>5. ASSUME NEW i \in DOMAIN told'
        PROVE  LET n == Len(told'[i].raw)
               IN  /\ n \in 1..Len(read')
                   /\ told'[i].raw = SubSeq(read', 1, n)
                   /\ told'[i].items = ItemsOf(job.cmd, SubSeq(read', 1, n))
    <3>1. CASE i = new
      BY <1>6, <2>1, <2>3, <3>1
    <3>2. CASE i \in DOMAIN told
      BY <1>4, <2>1, <3>2
    <3> QED BY <2>4, <3>1, <3>2
  <2>6. ASSUME NEW i \in DOMAIN told', NEW j \in DOMAIN told', i < j
        PROVE  Len(told'[i].raw) < Len(told'[j].raw)
    <3>1. i \in DOMAIN told
      BY <2>1, <2>6 DEF new
    <3>2. Len(told'[i].raw) \in 1..Len(read)
      BY <1>4, <2>1, <3>1
    <3>3. CASE j = new
      <4>1. told'[j].raw = read'
        BY <1>6, <2>1, <3>3
      <4>2. Len(told'[j].raw) = Len(read) + 1
        BY <1>1, <4>1
      <4> QED BY <1>1, <3>2, <4>2
    <3>4. CASE j \in DOMAIN told
      BY <2>1, <2>6, <3>1, <3>4 DEF PartialsInv
    <3> QED BY <2>4, <3>3, <3>4
  <2>8. \E R : told' \in Seq(R)
    BY <2>2
  <2>9. /\ pc' \in {"new", "reading"} => result' = Nothing
        /\ pc' # "new" /\ read' # <<>> /\ Head(read').kind = "header" /\ result'.status # "finished"
    BY <1>1, <1>6
  <2> QED BY <1>3, <2>5, <2>6, <2>8, <2>9 DEF PartialsInv
<1> QED BY <1>5, <1>6

\* A parser that finds items has found the header.
LEMMA ItemsFollowHeader ==
  /\ \A lines : PingParse(lines).items # <<>> => lines # <<>> /\ Head(lines).kind = "header"
  /\ \A lines : TracerouteParse(lines).items # <<>> => lines # <<>> /\ Head(lines).kind = "header"
  BY DEF PingParse, PingFailed, TracerouteParse, TracerouteFailed

\* Each step of ping.
LEMMA PingKeepsPartials == PingInv /\ PartialsInv /\ Is("ping") /\ PingNext => PartialsInv'
<1> SUFFICES ASSUME PingInv, PartialsInv, Is("ping"), PingNext PROVE PartialsInv'
  OBVIOUS
<1>0. job.cmd = "ping" /\ \E S : told \in Seq(S)
  BY DEF PartialsInv, Is
<1>1. CASE Reject("ping", PingValid) \/ SpawnFails("ping", PingValid) \/ ReadFails("ping")
  <2>1. pc' = "done" /\ result' = Failure /\ UNCHANGED <<job, read, told>>
    BY <1>1 DEF Reject, SpawnFails, ReadFails, Return
  <2>2. result'.status # "finished"
    BY <2>1 DEF Failure
  <2> QED BY <2>1, <2>2 DEF PartialsInv, Is
<1>2. CASE Spawn("ping", PingValid, PingOutputs)
  <2>1. pc = "new" /\ pc' = "reading" /\ UNCHANGED <<job, read, told, result>>
    BY <1>2 DEF Spawn
  <2> QED BY <2>1 DEF PartialsInv, Is
<1>3. CASE PingLine
  <2> DEFINE lines == Append(read, Head(tool))
             partial == PingParse(lines)
             private == PingParse(read).address = NoIp /\ is_ip_private(partial.address)
             reports == job.progress /\ ~private /\ Head(tool).kind = "reply" /\ partial.items # <<>>
  <2>1. /\ read' = lines /\ job' = job /\ tool # <<>> /\ pc = "reading"
        /\ told' = IF reports THEN Append(told, partial) ELSE told
        /\ IF private THEN Return(PingResult(lines, TRUE)) ELSE UNCHANGED <<pc, result>>
    BY <1>3 DEF PingLine
  <2>2. read \in Seq(PingLines) /\ Head(tool) \in PingLines
    BY <2>1 DEF PingInv
  <2>3. ~private => pc' = "reading" /\ result' = Nothing
    BY <2>1 DEF PartialsInv
  <2>4. private => pc' = "done" /\ result' = PingFailed(PrivateNote)
    BY <2>1 DEF Return, PingResult
  <2>5. result'.status # "finished" /\ pc' # "new" /\ (pc' \notin {"new", "reading"} \/ result' = Nothing)
    BY <2>3, <2>4 DEF Nothing, PingFailed
  <2>6. partial.items = ItemsOf(job.cmd, lines)
    BY <1>0 DEF ItemsOf
  <2>7. reports => Head(lines).kind = "header" /\ partial.raw = lines
    <3> SUFFICES ASSUME partial.items # <<>> PROVE Head(lines).kind = "header" /\ partial.raw = lines
      OBVIOUS
    <3> HIDE DEF lines
    <3>1. lines # <<>> /\ Head(lines).kind = "header"
      BY ItemsFollowHeader
    <3> QED BY <3>1 DEF PingParse
  <2> HIDE DEF partial, reports, private
  <2> QED BY <2>1, <2>2, <2>5, <2>6, <2>7, OneMorePartial
<1>4. CASE PingEnds
  <2>1. pc' = "done" /\ result' = PingParse(read) /\ UNCHANGED <<job, read, told>>
    BY <1>4 DEF PingEnds, PingResult, Return
  <2>2. result'.items = ItemsOf(job.cmd, read)
    BY <1>0, <2>1 DEF ItemsOf
  <2> QED BY <2>1, <2>2 DEF PartialsInv, Is
<1> QED BY <1>1, <1>2, <1>3, <1>4 DEF PingNext

\* Each step of traceroute.
LEMMA TracerouteKeepsPartials ==
  TracerouteInv /\ PartialsInv /\ Is("traceroute") /\ TracerouteNext => PartialsInv'
<1> SUFFICES ASSUME TracerouteInv, PartialsInv, Is("traceroute"), TracerouteNext PROVE PartialsInv'
  OBVIOUS
<1>0. job.cmd = "traceroute" /\ \E S : told \in Seq(S)
  BY DEF PartialsInv, Is
<1>1. CASE Reject("traceroute", TracerouteValid) \/ SpawnFails("traceroute", TracerouteValid) \/ ReadFails("traceroute")
  <2>1. pc' = "done" /\ result' = Failure /\ UNCHANGED <<job, read, told>>
    BY <1>1 DEF Reject, SpawnFails, ReadFails, Return
  <2>2. result'.status # "finished"
    BY <2>1 DEF Failure
  <2> QED BY <2>1, <2>2 DEF PartialsInv, Is
<1>2. CASE Spawn("traceroute", TracerouteValid, TracerouteOutputs)
  <2>1. pc = "new" /\ pc' = "reading" /\ UNCHANGED <<job, read, told, result>>
    BY <1>2 DEF Spawn
  <2> QED BY <2>1 DEF PartialsInv, Is
<1>3. CASE TracerouteLine
  <2> DEFINE lines == Append(read, Head(tool))
             parsed == TracerouteParse(lines)
             reports == job.progress /\ Head(tool).kind = "hop" /\ parsed.items # <<>>
  <2>1. /\ read' = lines /\ job' = job /\ tool # <<>> /\ pc = "reading"
        /\ told' = IF reports THEN Append(told, Partial(parsed, lines)) ELSE told
        /\ UNCHANGED <<pc, result>>
    BY <1>3 DEF TracerouteLine
  <2>2. read \in Seq(TracerouteLines) /\ Head(tool) \in TracerouteLines
    BY <2>1 DEF TracerouteInv
  <2>3. pc' = "reading" /\ result' = Nothing /\ result'.status # "finished"
    BY <2>1 DEF PartialsInv, Nothing
  <2>4. reports => /\ Head(lines).kind = "header" /\ Partial(parsed, lines).raw = lines
                   /\ Partial(parsed, lines).items = ItemsOf(job.cmd, lines)
    <3> SUFFICES ASSUME parsed.items # <<>>
                 PROVE  /\ Head(lines).kind = "header" /\ Partial(parsed, lines).raw = lines
                        /\ Partial(parsed, lines).items = TracerouteParse(lines).items
      BY <1>0 DEF ItemsOf
    <3> HIDE DEF lines
    <3>1. lines # <<>> /\ Head(lines).kind = "header"
      BY ItemsFollowHeader
    <3> QED BY <3>1 DEF TracerouteParse, Partial
  <2> HIDE DEF parsed, reports
  <2> QED BY <2>1, <2>2, <2>3, <2>4, OneMorePartial
<1>4. CASE TracerouteEnds
  <2> DEFINE parsed == TracerouteParse(read)
  <2>1. /\ pc' = "done" /\ UNCHANGED <<job, read, told>>
        /\ result' = IF is_ip_private(parsed.address)
                     THEN [parsed EXCEPT !.status = "failed", !.raw = PrivateNote, !.items = <<>>]
                     ELSE parsed
    BY <1>4 DEF TracerouteEnds, Return
  <2>2. "status" \in DOMAIN parsed
    BY DEF TracerouteParse, TracerouteFailed
  <2>3. result'.status = "finished" => result'.items = ItemsOf(job.cmd, read)
    <3> HIDE DEF parsed
    <3>1. CASE is_ip_private(parsed.address)
      BY <2>1, <2>2, <3>1
    <3>2. CASE ~is_ip_private(parsed.address)
      BY <1>0, <2>1, <3>2 DEF ItemsOf, parsed
    <3> QED BY <3>1, <3>2
  <2> HIDE DEF parsed
  <2> QED BY <2>1, <2>3 DEF PartialsInv, Is
<1> QED BY <1>1, <1>2, <1>3, <1>4 DEF TracerouteNext

\* Each step of any command.
LEMMA NextPartials == UntoldInv /\ PartialsInv /\ [Next]_vars => PartialsInv'
<1> SUFFICES ASSUME UntoldInv, PartialsInv, [Next]_vars, Is("ping") \/ Is("traceroute") PROVE PartialsInv'
  <2>1. [Next]_vars => \A cmd : Is(cmd)' <=> Is(cmd)
    BY NextKeepsJob DEF Is
  <2> QED BY <2>1 DEF PartialsInv
<1>1. CASE Is("ping") /\ PingNext
  BY <1>1, PingKeepsPartials DEF UntoldInv
<1>2. CASE Is("traceroute") /\ TracerouteNext
  BY <1>2, TracerouteKeepsPartials DEF UntoldInv
<1>3. CASE Drop
  <2>1. pc' = "done" /\ result' = TimedOut /\ UNCHANGED <<job, read, told>>
    BY <1>3 DEF Drop, Return
  <2>2. result'.status # "finished"
    BY <2>1 DEF TimedOut
  <2> QED BY <2>1, <2>2 DEF PartialsInv, Is
<1>4. CASE Emit
  <2>1. pc' = "emitted" /\ result' = result /\ UNCHANGED <<job, read, told>>
    BY <1>4 DEF Emit, Is
  <2> QED BY <2>1 DEF PartialsInv, Is
<1>5. CASE UNCHANGED vars
  BY <1>5 DEF vars, PartialsInv, Is
<1> QED BY <1>1, <1>2, <1>3, <1>4, <1>5, OwnSteps DEF Is

\* A result of some of the lines tells the beginning of what one of more tells.
LEMMA ItemsGrow ==
  ASSUME UntoldInv, Is("ping") \/ Is("traceroute"), read # <<>>, Head(read).kind = "header",
         NEW m \in 1..Len(read), NEW n \in 1..Len(read), m <= n
  PROVE  IsPrefix(ItemsOf(job.cmd, SubSeq(read, 1, m)), ItemsOf(job.cmd, SubSeq(read, 1, n)))
<1> DEFINE q == SubSeq(read, 1, n)
<1>1. \A S : read \in Seq(S) => /\ q \in Seq(S) /\ Len(q) = n /\ Head(q) = Head(read)
                                /\ SubSeq(q, 1, m) = SubSeq(read, 1, m)
  <2> SUFFICES ASSUME NEW S, read \in Seq(S)
               PROVE  /\ q \in Seq(S) /\ Len(q) = n /\ Head(q) = Head(read)
                      /\ SubSeq(q, 1, m) = SubSeq(read, 1, m)
    OBVIOUS
  <2>1. q \in Seq(S) /\ Len(q) = n /\ \A i \in 1..n : q[i] = read[i]
    OBVIOUS
  <2>2. 1 \in 1..n /\ \A i \in 1..m : i \in 1..n
    OBVIOUS
  <2> QED BY <2>1, <2>2
<1>2. m \in 1..n
  OBVIOUS
<1> HIDE DEF q
<1>3. CASE Is("ping")
  <2>1. read \in Seq(PingLines)
    BY <1>3 DEF UntoldInv, PingInv
  <2>2. IsPrefix(PingParse(SubSeq(q, 1, m)).items, PingParse(q).items)
    BY <1>1, <1>2, <2>1, PingItemsGrow
  <2> QED BY <1>1, <1>3, <2>1, <2>2 DEF ItemsOf, q, Is
<1>4. CASE Is("traceroute")
  <2>1. read \in Seq(TracerouteLines)
    BY <1>4 DEF UntoldInv, TracerouteInv
  <2>2. IsPrefix(TracerouteParse(SubSeq(q, 1, m)).items, TracerouteParse(q).items)
    BY <1>1, <1>2, <2>1, TracerouteItemsGrow
  <2> QED BY <1>1, <1>4, <2>1, <2>2 DEF ItemsOf, q, Is
<1> QED BY <1>3, <1>4

\* No partial result is told but by ping and traceroute.
ToldByTwo == Is("ping") \/ Is("traceroute") \/ told = <<>>

\* The others never tell any.
LEMMA NextToldByTwo == ToldByTwo /\ [Next]_vars => ToldByTwo'
<1> SUFFICES ASSUME told = <<>>, [Next]_vars, ~Is("ping"), ~Is("traceroute") PROVE told' = told
  <2>1. [Next]_vars => \A cmd : Is(cmd)' <=> Is(cmd)
    BY NextKeepsJob DEF Is
  <2> QED BY <2>1 DEF ToldByTwo
<1>1. CASE DnsNext
  BY <1>1 DEF DnsNext, Reject, Spawn, SpawnFails, ReadFails, DnsEnds
<1>2. CASE MtrNext
  BY <1>2 DEF MtrNext, Reject, Spawn, SpawnFails, MtrCollect, MtrLookup
<1>3. CASE TcpNext
  BY <1>3 DEF TcpNext, tcp_ping_single, tcp_ping
<1>4. CASE HttpNext
  BY <1>4 DEF HttpNext, Reject, HttpResolve, HttpResolved, HttpUnresolved, CurlWrites, CurlFails, CurlGone,
              CurlEnds, SClient, X509
<1>5. CASE UnknownType
  BY <1>5 DEF UnknownType
<1>6. CASE Drop \/ Emit
  BY <1>6 DEF Drop, Emit
<1>7. CASE UNCHANGED vars
  BY <1>7 DEF vars
<1> QED BY <1>1, <1>2, <1>3, <1>4, <1>5, <1>6, <1>7, OwnSteps

\* What is known of the lines read makes every partial result extend those before.
LEMMA PartialsImply == UntoldInv /\ PartialsInv /\ ToldByTwo => PartialsExtend
<1> SUFFICES ASSUME UntoldInv, PartialsInv, ToldByTwo, Is("ping") \/ Is("traceroute"), told # <<>>
             PROVE  PartialsExtend
  <2>1. told = <<>> => PartialsExtend
    BY DEF PartialsExtend
  <2> QED BY <2>1 DEF ToldByTwo
<1>1. /\ read # <<>> /\ Head(read).kind = "header"
      /\ \A i \in DOMAIN told :
           LET n == Len(told[i].raw)
           IN  /\ n \in 1..Len(read)
               /\ told[i].raw = SubSeq(read, 1, n)
               /\ told[i].items = ItemsOf(job.cmd, SubSeq(read, 1, n))
      /\ \A i, j \in DOMAIN told : i < j => Len(told[i].raw) < Len(told[j].raw)
      /\ result.status = "finished" => result.items = ItemsOf(job.cmd, read)
  BY DEF PartialsInv
<1>2. PICK S : read \in Seq(S)
  BY DEF UntoldInv, PingInv, TracerouteInv
<1>3. ASSUME NEW i \in DOMAIN told, NEW j \in DOMAIN told, i < j
      PROVE  IsPrefix(told[i].items, told[j].items) /\ IsStrictPrefix(told[i].raw, told[j].raw)
  <2> DEFINE m == Len(told[i].raw)
             n == Len(told[j].raw)
  <2>1. /\ m \in 1..Len(read) /\ n \in 1..Len(read) /\ m < n
        /\ told[i].raw = SubSeq(read, 1, m) /\ told[j].raw = SubSeq(read, 1, n)
        /\ told[i].items = ItemsOf(job.cmd, SubSeq(read, 1, m))
        /\ told[j].items = ItemsOf(job.cmd, SubSeq(read, 1, n))
    BY <1>1, <1>3
  <2>2. m <= n /\ m # n
    BY <2>1
  <2> HIDE DEF m, n
  <2>3. IsPrefix(told[i].items, told[j].items)
    BY <1>1, <2>1, <2>2, ItemsGrow
  <2>4. Begins(SubSeq(read, 1, m), SubSeq(read, 1, n))
    BY <1>2, <2>1 DEF Begins
  <2>5. SubSeq(read, 1, m) \in Seq(S) /\ SubSeq(read, 1, n) \in Seq(S)
    BY <1>2, <2>1
  <2>6. IsPrefix(told[i].raw, told[j].raw)
    BY <2>1, <2>4, <2>5, PrefixIsBeginning
  <2>7. told[i].raw # told[j].raw
    BY <2>2 DEF m, n
  <2> QED BY <2>3, <2>6, <2>7 DEF IsStrictPrefix
<1>4. ASSUME NEW i \in DOMAIN told, result.status = "finished"
      PROVE  IsPrefix(told[i].items, result.items)
  <2> DEFINE m == Len(told[i].raw)
             n == Len(read)
  <2>1. m \in 1..n /\ told[i].items = ItemsOf(job.cmd, SubSeq(read, 1, m)) /\ result.items = ItemsOf(job.cmd, read)
    BY <1>1, <1>4
  <2>2. n \in 1..n /\ m <= n /\ SubSeq(read, 1, n) = read
    BY <1>1, <1>2, <2>1
  <2> HIDE DEF m, n
  <2>3. IsPrefix(ItemsOf(job.cmd, SubSeq(read, 1, m)), ItemsOf(job.cmd, SubSeq(read, 1, n)))
    BY <1>1, <2>1, <2>2, ItemsGrow DEF n
  <2> QED BY <2>1, <2>2, <2>3
<1> QED BY <1>3, <1>4 DEF PartialsExtend, Finished

\* A listener may replace each partial result of a ping or a traceroute by the
\* next one and the last by the finished result, and loses nothing.
THEOREM PartialsOnlyExtend == Spec => []PartialsExtend
<1>1. Init => ToldByTwo
  BY DEF Init, Started, ToldByTwo
<1>2. Init => UntoldInv /\ PartialsInv /\ ToldByTwo
  BY <1>1, InitUntold, InitPartials
<1>3. UntoldInv /\ PartialsInv /\ ToldByTwo /\ [Next]_vars => (UntoldInv /\ PartialsInv /\ ToldByTwo)'
  BY NextUntold, NextPartials, NextToldByTwo
<1> QED BY <1>2, <1>3, PartialsImply, PTL DEF Spec
----------------------------------------------------------------------------
(* Texts and what is emitted of them *)

Text == Seq(Nat \ {0})

\* Longer beginnings of a text have more bytes.
LEMMA BytesGrow ==
  ASSUME NEW text \in Text
  PROVE  /\ \A i \in 0..Len(text) : Bytes(SubSeq(text, 1, i)) \in Nat
         /\ \A i, j \in 0..Len(text) : i < j => Bytes(SubSeq(text, 1, i)) < Bytes(SubSeq(text, 1, j))
         /\ Bytes(SubSeq(text, 1, 0)) = 0 /\ Bytes(text) = Bytes(SubSeq(text, 1, Len(text)))
<1>1. text \in Seq(Nat) /\ text \in Seq(Nat \ {0}) /\ 0 \in 0..Len(text) /\ SubSeq(text, 1, Len(text)) = text
  BY DEF Text
<1>2. ASSUME NEW i \in 0..Len(text) PROVE Bytes(SubSeq(text, 1, i)) = Sums(text)[i] /\ Sums(text)[i] \in Nat
  <2>1. Sums(text) \in [0..Len(text) -> Nat]
    BY <1>1, SumsUnfold
  <2>2. Sums(text)[i] \in Nat
    BY <2>1
  <2>3. Total(SubSeq(text, 1, i)) = Sums(text)[i]
    BY <1>1, TotalIsSum
  <2> QED BY <2>2, <2>3 DEF Bytes
<1>3. ASSUME NEW i \in 0..Len(text), NEW j \in 0..Len(text), i < j
      PROVE  Bytes(SubSeq(text, 1, i)) < Bytes(SubSeq(text, 1, j))
  BY <1>1, <1>3, TotalsGrow DEF Bytes
<1>4. Sums(text)[0] = 0
  BY <1>1, SumsUnfold
<1> QED BY <1>1, <1>2, <1>3, <1>4

\* A text is cut where it has as many bytes as asked for.
LEMMA CutAtBoundary ==
  ASSUME NEW text \in Text, NEW i \in 0..Len(text)
  PROVE  UpTo(text, Bytes(SubSeq(text, 1, i))) = SubSeq(text, 1, i)
<1> DEFINE bytes(k) == Bytes(SubSeq(text, 1, k))
           n == CHOOSE k \in 0..Len(text) : bytes(k) = bytes(i)
<1>1. UpTo(text, bytes(i)) = SubSeq(text, 1, n)
  BY DEF UpTo
<1>2. (\A k \in 0..Len(text) : bytes(k) \in Nat) /\ \A a, b \in 0..Len(text) : a < b => bytes(a) < bytes(b)
  BY BytesGrow
<1> HIDE DEF bytes
<1>3. n \in 0..Len(text) /\ bytes(n) = bytes(i)
  OBVIOUS
<1> HIDE DEF n
<1>4. n = i
  <2>1. n < i \/ n = i \/ i < n
    BY <1>3
  <2> QED BY <1>2, <1>3, <2>1
<1> QED BY <1>1, <1>4 DEF bytes

\* The marker is text.
LEMMA MarkerIsText == \A n \in Nat : [i \in 1..n |-> 1] \in Text /\ Len([i \in 1..n |-> 1]) = n
<1> SUFFICES ASSUME NEW n \in Nat PROVE [i \in 1..n |-> 1] \in Text /\ Len([i \in 1..n |-> 1]) = n
  OBVIOUS
<1> DEFINE m == [i \in 1..n |-> 1]
<1>1. m \in [1..n -> Nat \ {0}]
  OBVIOUS
<1> HIDE DEF m
<1>2. m \in Seq(Nat \ {0}) /\ Len(m) = n
  BY <1>1
<1> QED BY <1>2 DEF m, Text

\* What truncate_output cuts, it cuts as late as the limit allows.
LEMMA TruncatedAsLateAsCan ==
  ASSUME NEW text \in Text, NEW max \in Nat, Bytes(text) > max
  PROVE  \E i \in 0..Len(text) - 1 :
           /\ truncate_output(text, max) = SubSeq(text, 1, i) \o [k \in 1..MARKER |-> 1]
           /\ Bytes(SubSeq(text, 1, i)) <= max
           /\ Bytes(SubSeq(text, 1, i + 1)) > max
<1> DEFINE len == Len(text)
           bytes(k) == Bytes(SubSeq(text, 1, k))
           offsets == {bytes(k) : k \in 0..len} \cap (0..max)
           last == CHOOSE b \in offsets : \A c \in offsets : c <= b
           fits == [k \in 0..len |-> bytes(k) <= max]
           yes == {TRUE}
<1>1. truncate_output(text, max) = UpTo(text, last) \o [k \in 1..MARKER |-> 1]
  <2>1. ~(Bytes(text) <= max)
    <3>1. Len(text) \in 0..Len(text)
      BY DEF Text
    <3>2. Bytes(text) \in Nat
      BY <3>1, BytesGrow
    <3> QED BY <3>2
  <2> QED BY <2>1 DEF truncate_output, Marked, CharBoundaries
<1>2. len \in Nat /\ 0 \in 0..len /\ len \in 0..len /\ \A n \in 1..len : n \in 0..len /\ n - 1 \in 0..len
  BY DEF Text
<1>3. /\ \A k \in 0..len : bytes(k) \in Nat
      /\ \A a, b \in 0..len : a < b => bytes(a) < bytes(b)
      /\ bytes(0) = 0 /\ bytes(len) > max
  BY BytesGrow
<1> HIDE DEF bytes, len
<1>4. PICK i \in 0..len - 1 : bytes(i) <= max /\ bytes(i + 1) > max
  <2> SUFFICES ASSUME \A i \in 0..len - 1 : bytes(i) <= max => ~(bytes(i + 1) > max) PROVE FALSE
    OBVIOUS
  <2>1. fits[0] \in yes
    <3>1. bytes(0) <= max
      BY <1>3
    <3> QED BY <1>2, <3>1
  <2>2. ASSUME NEW n \in 1..len, fits[n - 1] \in yes PROVE fits[n] \in yes
    <3>1. n - 1 \in 0..len - 1 /\ (n - 1) + 1 = n /\ n \in 0..len /\ n - 1 \in 0..len
      BY <1>2
    <3>2. bytes(n - 1) <= max
      BY <2>2, <3>1
    <3>3. ~(bytes(n) > max)
      BY <3>1, <3>2
    <3>4. bytes(n) \in Nat
      BY <1>3, <3>1
    <3>5. bytes(n) <= max
      BY <3>3, <3>4
    <3> QED BY <3>1, <3>5
  <2> HIDE DEF fits, yes
  <2>3. \A n \in 0..len : fits[n] \in yes
    BY <1>2, <2>1, <2>2, InductionToLength
  <2>4. fits[len] \in yes
    BY <1>2, <2>3
  <2>5. bytes(len) <= max
    BY <1>2, <2>4 DEF fits, yes
  <2> QED BY <1>2, <1>3, <2>5
<1>5. i \in 0..len /\ i + 1 \in 0..len /\ i \in Nat
  BY <1>2
<1>6. bytes(i) \in offsets
  BY <1>3, <1>4, <1>5
<1>7. ASSUME NEW c \in offsets PROVE c <= bytes(i)
  <2>1. PICK k \in 0..len : c = bytes(k) /\ c <= max
    OBVIOUS
  <2>2. k <= i
    <3> SUFFICES ASSUME k > i PROVE FALSE
      BY <1>5
    <3>1. k = i + 1 \/ i + 1 < k
      BY <1>5
    <3>2. bytes(k) \in Nat /\ bytes(i + 1) \in Nat
      BY <1>3, <1>5
    <3>3. bytes(k) >= bytes(i + 1)
      BY <1>3, <1>5, <3>1, <3>2
    <3> QED BY <1>4, <2>1, <3>2, <3>3
  <2>3. bytes(k) \in Nat /\ bytes(i) \in Nat
    BY <1>3, <1>5
  <2>4. k = i \/ k < i
    BY <1>5, <2>2
  <2> QED BY <1>3, <1>5, <2>1, <2>3, <2>4
<1>8. \A c \in offsets : c \in Nat
  BY <1>3
<1> HIDE DEF offsets
<1>9. last = bytes(i)
  <2>1. last \in offsets /\ \A c \in offsets : c <= last
    BY <1>6, <1>7
  <2>2. last <= bytes(i) /\ bytes(i) <= last /\ last \in Nat /\ bytes(i) \in Nat
    BY <1>6, <1>7, <1>8, <2>1
  <2> HIDE DEF last
  <2> QED BY <2>2
<1> HIDE DEF last
<1>10. UpTo(text, last) = SubSeq(text, 1, i)
  BY <1>5, <1>9, CutAtBoundary DEF bytes, len
<1>11. truncate_output(text, max) = SubSeq(text, 1, i) \o [k \in 1..MARKER |-> 1]
  BY <1>1, <1>10
<1> QED BY <1>4, <1>11 DEF bytes, len

\* The beginning before the marker.
LEMMA BeforeTheMarker ==
  ASSUME NEW text \in Text, NEW i \in 0..Len(text), NEW mark \in Text
  PROVE  /\ Len(SubSeq(text, 1, i) \o mark) = i + Len(mark)
         /\ SubSeq(SubSeq(text, 1, i) \o mark, 1, i) = SubSeq(text, 1, i)
<1> DEFINE p == SubSeq(text, 1, i)
           whole == p \o mark
<1>1. p \in Text /\ Len(p) = i /\ mark \in Text /\ i \in Nat /\ Len(mark) \in Nat
  BY DEF Text
<1>2. \A k \in 1..i : p[k] = text[k]
  BY DEF Text
<1> HIDE DEF p
<1>3. whole \in Text /\ Len(whole) = i + Len(mark) /\ \A k \in 1..i : whole[k] = p[k]
  <2>1. \A s, t \in Seq(Nat \ {0}) : /\ s \o t \in Seq(Nat \ {0}) /\ Len(s \o t) = Len(s) + Len(t)
                                      /\ \A k \in 1..Len(s) + Len(t) : (s \o t)[k] =
                                           IF k <= Len(s) THEN s[k] ELSE t[k - Len(s)]
    BY ConcatProperties
  <2>2. \A k \in 1..i : k \in 1..Len(p) + Len(mark) /\ k <= Len(p)
    BY <1>1
  <2> QED BY <1>1, <2>1, <2>2 DEF Text
<1> HIDE DEF whole
<1>4. SubSeq(whole, 1, i) = p
  <2>1. SubSeq(whole, 1, i) \in Text /\ Len(SubSeq(whole, 1, i)) = i
        /\ \A k \in 1..i : SubSeq(whole, 1, i)[k] = whole[k]
    BY <1>1, <1>3 DEF Text
  <2> QED BY <1>1, <1>3, <2>1 DEF Text
<1> QED BY <1>3, <1>4 DEF p, whole

\* Headers, and the lines of the file curl leaves of them.
Headers == [kind : {"header"}, key : {"a", "b", "c"}, bytes : Nat, value : Text]
HeaderLines == Headers \cup [kind : {"status"}, text : {"OK", "Early Hints"}]

\* Parts of texts, and texts together, are texts.
LEMMA TextParts ==
  /\ \A s, t \in Text : s \o t \in Text
  /\ \A s \in Text : \A i \in 0..Len(s) : SubSeq(s, 1, i) \in Text
  /\ <<>> \in Text /\ <<1>> \in Text /\ <<1, 1>> \in Text
<1>1. \A s, t \in Seq(Nat \ {0}) : s \o t \in Seq(Nat \ {0})
  BY ConcatProperties
<1>2. \A s \in Seq(Nat \ {0}) : \A i \in 0..Len(s) : SubSeq(s, 1, i) \in Seq(Nat \ {0})
  OBVIOUS
<1>3. 1 \in Nat \ {0}
  OBVIOUS
<1>4. <<>> \in Seq(Nat \ {0}) /\ <<1>> \in Seq(Nat \ {0}) /\ <<1, 1>> \in Seq(Nat \ {0})
  BY <1>3
<1> QED BY <1>1, <1>2, <1>4 DEF Text

\* The lines with a header are headers.
LEMMA ParsedHeaders == \A lines \in Seq(HeaderLines) : parse_header_file(lines) \in Seq(Headers)
<1> SUFFICES ASSUME NEW lines \in Seq(HeaderLines) PROVE parse_header_file(lines) \in Seq(Headers)
  OBVIOUS
<1> DEFINE places == {i \in 2..Len(lines) : lines[i].kind = "header"}
<1>1. \A i \in 1..Len(lines) : i \in places => lines[i] \in Headers
  <2>1. \A l \in HeaderLines : l.kind = "header" => l \in Headers
    BY DEF HeaderLines, Headers
  <2>2. \A i \in 1..Len(lines) : lines[i] \in HeaderLines
    OBVIOUS
  <2> QED BY <2>1, <2>2
<1> HIDE DEF places
<1>2. Chosen(lines, places) \in Seq(Headers)
  BY <1>1, ChosenAt
<1> QED BY <1>2 DEF parse_header_file, places

\* Headers that were truncated are headers.
LEMMA TruncatedHeaders ==
  ASSUME NEW pairs \in Seq(Headers), NEW h \in truncate_headers(pairs), h.outcome # "panic"
  PROVE  h.headers \in Seq(Headers)
<1> DEFINE lengths(kept) == [i \in DOMAIN kept |-> Bytes(kept[i].value)]
           cap(kept) == Larger(MARK, value_cap(lengths(kept), HEADERS_SIZE_LIMIT + Bytes(lengths(kept)) - headers_size(kept)))
           long(l, c) == Bytes(l.value) > c
           cut(l, c) == IF long(l, c) THEN [l EXCEPT !.value = UpTo(@, c - MARK) \o [i \in 1..MARK |-> 1]] ELSE l
           shrink(kept, c) ==
             IF \E i \in DOMAIN kept : long(kept[i], c) /\ c - MARK \notin CharBoundaries(kept[i].value)
             THEN [outcome |-> "panic"]
             ELSE [outcome |-> "ok", truncated |-> TRUE, headers |-> [i \in DOMAIN kept |-> cut(kept[i], c)]]
           Kept(D) == Chosen(pairs, DOMAIN pairs \ D)
           short(kept) == kept = <<>> \/ headers_size(kept) <= HEADERS_SIZE_LIMIT
           whole(kept) == [outcome |-> "ok", truncated |-> TRUE, headers |-> kept]
<1>1. \/ h = [outcome |-> "ok", truncated |-> FALSE, headers |-> pairs]
      \/ \E D \in DropSets(pairs) :
           h = IF short(Kept(D)) THEN whole(Kept(D)) ELSE shrink(Kept(D), cap(Kept(D)))
  <2>1. \/ h \in {[outcome |-> "ok", truncated |-> FALSE, headers |-> pairs]}
        \/ h \in {IF short(Kept(D)) THEN whole(Kept(D)) ELSE shrink(Kept(D), cap(Kept(D))) : D \in DropSets(pairs)}
    BY DEF truncate_headers
  <2> QED BY <2>1
<1>2. CASE h = [outcome |-> "ok", truncated |-> FALSE, headers |-> pairs]
  BY <1>2
<1>3. ASSUME NEW D, h = IF short(Kept(D)) THEN whole(Kept(D)) ELSE shrink(Kept(D), cap(Kept(D)))
      PROVE  h.headers \in Seq(Headers)
  <2> DEFINE kept == Kept(D)
             c == cap(kept)
  <2>1. kept \in Seq(Headers)
    BY ChosenTyped
  <2>2. h = whole(kept) \/ h = shrink(kept, c)
    BY <1>3
  <2> HIDE DEF kept, c, cap
  <2>3. CASE h = whole(kept)
    BY <2>1, <2>3
  <2>4. CASE h = shrink(kept, c)
    <3>1. ~\E i \in DOMAIN kept : long(kept[i], c) /\ c - MARK \notin CharBoundaries(kept[i].value)
      BY <2>4
    <3>2. h.headers = [i \in DOMAIN kept |-> cut(kept[i], c)]
      BY <2>4, <3>1
    <3>3. ASSUME NEW i \in DOMAIN kept PROVE cut(kept[i], c) \in Headers
      <4> DEFINE l == kept[i]
      <4>1. l \in Headers
        BY <2>1
      <4>2. long(l, c) => c - MARK \in CharBoundaries(l.value)
        BY <3>1
      <4> HIDE DEF l
      <4>3. CASE ~long(l, c)
        BY <4>1, <4>3 DEF l
      <4>4. CASE long(l, c)
        <5> DEFINE value == UpTo(l.value, c - MARK)
                   mark == [k \in 1..MARK |-> 1]
        <5>1. l.value \in Text
          BY <4>1 DEF Headers
        <5>2. PICK k \in 0..Len(l.value) : c - MARK = Bytes(SubSeq(l.value, 1, k))
          BY <4>2, <4>4 DEF CharBoundaries
        <5>3. value = SubSeq(l.value, 1, k)
          BY <5>1, <5>2, CutAtBoundary
        <5>4. value \in Text /\ mark \in Text
          BY <5>1, <5>3, TextParts, MarkerIsText, HttpAssumption
        <5> HIDE DEF value, mark
        <5>5. value \o mark \in Text
          BY <5>4, TextParts
        <5>6. [l EXCEPT !.value = value \o mark] \in Headers
          BY <4>1, <5>5 DEF Headers
        <5>7. cut(l, c) = [l EXCEPT !.value = value \o mark]
          BY <4>4 DEF value, mark
        <5> QED BY <5>6, <5>7 DEF l
      <4> QED BY <4>3, <4>4
    <3> HIDE DEF cut
    <3>4. [i \in DOMAIN kept |-> cut(kept[i], c)] \in Seq(Headers)
      <4>1. Len(kept) \in Nat /\ DOMAIN kept = 1..Len(kept)
        BY <2>1
      <4>2. [i \in DOMAIN kept |-> cut(kept[i], c)] \in [1..Len(kept) -> Headers]
        BY <3>3, <4>1
      <4> QED BY <4>1, <4>2
    <3> QED BY <3>2, <3>4
  <2> QED BY <2>2, <2>3, <2>4
<1> HIDE DEF Kept, short, whole, shrink, cap
<1> QED BY <1>1, <1>2, <1>3

\* The output made of headers and a text is a text.
LEMMA RawOutputIsText ==
  ASSUME NEW headers \in Seq(Headers), NEW body \in Text, NEW version, NEW method
  PROVE  build_raw_output(version, headers, body, method) \in Text
<1> DEFINE status == [i \in 1..4 |-> 1]
           name(l) == [i \in 1..l.bytes + 2 |-> 1]
           end(i) == IF i < Len(headers) THEN <<1>> ELSE <<>>
           line(i) == (name(headers[i]) \o headers[i].value) \o end(i)
           lines == [i \in DOMAIN headers |-> line(i)]
           base == status \o FlattenSeq(lines)
           two == <<1, 1>>
<1>1. build_raw_output(version, headers, body, method) \in {<<>>, base, base \o two \o body}
  BY DEF build_raw_output
<1>2. ASSUME NEW i \in DOMAIN headers PROVE line(i) \in Text
  <2> DEFINE l == headers[i]
  <2>1. l.value \in Text /\ l.bytes + 2 \in Nat
    <3>1. l \in Headers
      OBVIOUS
    <3> HIDE DEF l
    <3> QED BY <3>1 DEF Headers
  <2>2. name(l) \in Text
    BY <2>1, MarkerIsText
  <2>3. end(i) \in Text
    BY TextParts
  <2> HIDE DEF l, name, end
  <2>4. name(l) \o l.value \in Text
    BY <2>1, <2>2, TextParts
  <2>5. (name(l) \o l.value) \o end(i) \in Text
    BY <2>3, <2>4, TextParts
  <2> QED BY <2>5 DEF l
<1> HIDE DEF line
<1>3. lines \in Seq(Text)
  <2>1. Len(headers) \in Nat /\ DOMAIN headers = 1..Len(headers)
    OBVIOUS
  <2>2. lines \in [1..Len(headers) -> Text]
    BY <1>2, <2>1
  <2> HIDE DEF lines
  <2> QED BY <2>1, <2>2
<1> HIDE DEF lines
<1>4. FlattenSeq(lines) \in Text
  BY <1>3, FlattenedSequences DEF Text
<1>5. status \in Text
  BY MarkerIsText
<1> HIDE DEF status
<1>6. base \in Text
  BY <1>4, <1>5, TextParts
<1> HIDE DEF base, two
<1>7. base \o two \in Text
  BY <1>6, TextParts DEF two
<1>8. base \o two \o body \in Text
  BY <1>7, TextParts
<1> QED BY <1>1, <1>6, <1>8, TextParts

\* One byte of from_utf8_lossy, and all bytes up to each place.
LossyStep(s, b) ==
  LET before == IF s.lead /\ b # "trail" THEN Append(s.text, 3) ELSE s.text
  IN  CASE b = "a" -> [text |-> Append(before, 1), lead |-> FALSE]
        [] b = "lead" -> [text |-> before, lead |-> TRUE]
        [] OTHER -> [text |-> Append(before, IF s.lead /\ b = "trail" THEN 2 ELSE 3), lead |-> FALSE]
Lossy(bytes) == CHOOSE f : f =
  [n \in 0..Len(bytes) |->
     IF n = 0 THEN [text |-> <<>>, lead |-> FALSE] ELSE LossyStep(f[n - 1], bytes[n])]

\* The text of any bytes is a text.
LEMMA LossyIsText ==
  ASSUME NEW S, NEW bytes \in Seq(S)
  PROVE  from_utf8_lossy(bytes) \in Text
<1> DEFINE len == Len(bytes)
           T == [text : Text, lead : BOOLEAN]
           start == [text |-> <<>>, lead |-> FALSE]
           L(f) == [n \in 0..len |-> IF n = 0 THEN start ELSE LossyStep(f[n - 1], bytes[n])]
           next(p) == IF p[1] + 1 \in 1..len THEN LossyStep(p[2], bytes[p[1] + 1]) ELSE p[2]
           step == [p \in Nat \X T |-> next(p)]
           f == Lossy(bytes)
<1>1. len \in Nat /\ len \in 0..len /\ start \in T
  BY TextParts
<1>2. /\ f = (CHOOSE g : g = L(g))
      /\ from_utf8_lossy(bytes) = IF f[len].lead THEN Append(f[len].text, 3) ELSE f[len].text
  BY DEF Lossy, from_utf8_lossy, LossyStep
<1> HIDE DEF len, start, f
<1>3. \A s \in T : \A b : LossyStep(s, b) \in T
  <2>1. \A t \in Text : \A n \in {1, 2, 3} : Append(t, n) \in Text
    BY DEF Text
  <2> SUFFICES ASSUME NEW s \in T, NEW b PROVE LossyStep(s, b) \in T
    OBVIOUS
  <2> DEFINE before == IF s.lead /\ b # "trail" THEN Append(s.text, 3) ELSE s.text
  <2>2. s.text \in Text
    OBVIOUS
  <2>3. before \in Text
    BY <2>1, <2>2
  <2> HIDE DEF before
  <2>4. /\ b = "a" => LossyStep(s, b) = [text |-> Append(before, 1), lead |-> FALSE]
        /\ b = "lead" => LossyStep(s, b) = [text |-> before, lead |-> TRUE]
        /\ b # "a" /\ b # "lead" =>
             \/ LossyStep(s, b) = [text |-> Append(before, 2), lead |-> FALSE]
             \/ LossyStep(s, b) = [text |-> Append(before, 3), lead |-> FALSE]
    BY DEF LossyStep, before
  <2>5. Append(before, 1) \in Text /\ Append(before, 2) \in Text /\ Append(before, 3) \in Text
    BY <2>1, <2>3
  <2>6. \A t \in Text : [text |-> t, lead |-> FALSE] \in T /\ [text |-> t, lead |-> TRUE] \in T
    OBVIOUS
  <2> HIDE DEF T
  <2> QED BY <2>3, <2>4, <2>5, <2>6
<1> HIDE DEF T
<1>4. step \in Steps(T)
  <2>1. \A p \in Nat \X T : next(p) \in T
    BY <1>3
  <2> HIDE DEF next
  <2> QED BY <2>1 DEF Steps
<1>5. PICK g : UnfoldsTo(g, T, start, step, len)
  <2> HIDE DEF step
  <2> QED BY <1>1, <1>4, RecursionToLength
<1>6. g \in [0..len -> T] /\ g[0] = start
  BY <1>5 DEF UnfoldsTo
<1>7. ASSUME NEW n \in 1..len PROVE g[n] = LossyStep(g[n - 1], bytes[n])
  <2>1. n - 1 \in Nat /\ n - 1 \in 0..len /\ (n - 1) + 1 = n
    BY <1>1
  <2>2. g[n] = step[<<n - 1, g[n - 1]>>]
    <3> HIDE DEF step
    <3> QED BY <1>5 DEF UnfoldsTo
  <2>3. g[n - 1] \in T
    BY <1>6, <2>1
  <2>4. step[<<n - 1, g[n - 1]>>] = next(<<n - 1, g[n - 1]>>)
    <3> HIDE DEF next
    <3> QED BY <2>1, <2>3
  <2> HIDE DEF step
  <2> QED BY <2>1, <2>2, <2>4
<1>8. g = L(g)
  <2>1. \A n \in 0..len : g[n] = IF n = 0 THEN start ELSE LossyStep(g[n - 1], bytes[n])
    <3> SUFFICES ASSUME NEW n \in 0..len PROVE g[n] = IF n = 0 THEN start ELSE LossyStep(g[n - 1], bytes[n])
      OBVIOUS
    <3>1. n # 0 => n \in 1..len
      BY <1>1
    <3> QED BY <1>6, <1>7, <3>1
  <2>2. g = [n \in 0..len |-> g[n]]
    BY <1>6
  <2> QED BY <2>1, <2>2
<1>9. f = L(f)
  <2> HIDE DEF L
  <2> QED BY <1>2, <1>8
<1>10. f[0] \in T
  <2>1. 0 \in 0..len
    BY <1>1
  <2> QED BY <1>1, <1>9, <2>1
<1>11. ASSUME NEW n \in 1..len, f[n - 1] \in T PROVE f[n] \in T
  <2>1. n \in 0..len /\ n # 0
    BY <1>1
  <2>2. f[n] = LossyStep(f[n - 1], bytes[n])
    BY <1>9, <2>1
  <2> QED BY <1>3, <1>11, <2>2
<1>12. \A n \in 0..len : f[n] \in T
  BY <1>1, <1>10, <1>11, InductionToLength
<1>13. f[len].text \in Text
  BY <1>1, <1>12 DEF T
<1>14. Append(f[len].text, 3) \in Text
  BY <1>13 DEF Text
<1> QED BY <1>2, <1>13, <1>14

\* What curl may leave of the headers and of the body.
LeavesText(p) ==
  /\ p = [k \in DOMAIN p |-> p[k]] /\ {"headers", "body"} \subseteq DOMAIN p
  /\ p.headers \in Seq(HeaderLines)
  /\ p.body \in Seq({"a", "lead", "trail", "x"})

\* Setting anything else leaves them.
LEMMA StillLeavesText ==
  ASSUME NEW p, LeavesText(p), NEW f, f \notin {"headers", "body"}, NEW x
  PROVE  LeavesText([p EXCEPT ![f] = x])
<1> DEFINE q == [p EXCEPT ![f] = x]
<1>1. p = [k \in DOMAIN p |-> p[k]] /\ {"headers", "body"} \subseteq DOMAIN p
  BY DEF LeavesText
<1>2. DOMAIN q = DOMAIN p /\ q = [k \in DOMAIN q |-> q[k]] /\ q.headers = p.headers /\ q.body = p.body
  BY <1>1
<1> HIDE DEF q
<1> QED BY <1>1, <1>2 DEF LeavesText, q

\* Nor does it matter which headers and which body.
LEMMA LeavesOther ==
  ASSUME NEW p, LeavesText(p)
  PROVE  /\ \A h \in Seq(HeaderLines) : LeavesText([p EXCEPT !.headers = h])
         /\ \A b \in Seq({"a", "lead", "trail", "x"}) : LeavesText([p EXCEPT !.body = b])
<1>1. p = [k \in DOMAIN p |-> p[k]] /\ {"headers", "body"} \subseteq DOMAIN p
  BY DEF LeavesText
<1>2. ASSUME NEW h \in Seq(HeaderLines) PROVE LeavesText([p EXCEPT !.headers = h])
  <2> DEFINE q == [p EXCEPT !.headers = h]
  <2>1. DOMAIN q = DOMAIN p /\ q = [k \in DOMAIN q |-> q[k]] /\ q.headers = h /\ q.body = p.body
    BY <1>1
  <2> HIDE DEF q
  <2> QED BY <1>1, <2>1 DEF LeavesText, q
<1>3. ASSUME NEW b \in Seq({"a", "lead", "trail", "x"}) PROVE LeavesText([p EXCEPT !.body = b])
  <2> DEFINE q == [p EXCEPT !.body = b]
  <2>1. DOMAIN q = DOMAIN p /\ q = [k \in DOMAIN q |-> q[k]] /\ q.body = b /\ q.headers = p.headers
    BY <1>1
  <2> HIDE DEF q
  <2> QED BY <1>1, <2>1 DEF LeavesText, q
<1> QED BY <1>2, <1>3

\* Whatever it is that curl leaves.
LEMMA CurlLeavesText == \A p \in CurlOutputs : LeavesText(p)
<1> DEFINE status == [kind |-> "status", text |-> "OK"]
           header(key, bytes, value) == [kind |-> "header", key |-> key, bytes |-> bytes, value |-> value]
           interim == [kind |-> "status", text |-> "Early Hints"]
           times == [lookup |-> 5, connect |-> 20, appconnect |-> 55, start |-> 91, total |-> 102]
           early == [lookup |-> 5, connect |-> 10, appconnect |-> 15, start |-> 20, total |-> 25]
           tls == <<[star |-> TRUE, sets |-> [cn |-> "name"]], [star |-> FALSE, sets |-> [cn |-> "noise"]],
                    [star |-> TRUE, sets |-> [protocol |-> "TLSv1.3", cipher |-> "cipher"]]>>
           first == <<status, header("a", 1, <<1>>)>>
           letters == <<"a", "a">>
           usual == [ stats |-> TRUE, code |-> 200, remote |-> NoIp, version |-> "1.1", ssl |-> 0, times |-> times,
                      verbose |-> tls, headers |-> first, body |-> letters ]
           values == {<<>>, <<2, 1>>, [i \in 1..4 |-> 1], [i \in 1..7 |-> 1], [i \in 1..4 |-> 2]}
           headers == {header("a", 1, v) : v \in values} \cup {header("b", 1, <<1>>), header("c", 14, <<1, 1, 1>>)}
           remotes == IF ConnectsTo(local.args) = NoIp THEN job.resolves ELSE {ConnectsTo(local.args)}
           Bytes4 == {"a", "lead", "trail", "x"}
           bodies == BoundedSeq(Bytes4, 4)
           some == BoundedSeq(headers, 1)
           many == BoundedSeq(headers, 3)
           later == <<interim, status>>
           one == <<status>>
           connected == {[usual EXCEPT !.remote = ip] : ip \in {NoIp} \cup remotes}
           secure == {[usual EXCEPT !.stats = FALSE], [usual EXCEPT !.code = 0], [usual EXCEPT !.ssl = 1],
                      [usual EXCEPT !.verbose = Tail(tls)], [usual EXCEPT !.verbose = <<>>]}
           plain == {[usual EXCEPT !.version = "none"], [usual EXCEPT !.times.appconnect = 0]}
           large == {[usual EXCEPT !.body = b] : b \in bodies}
           followed == {[usual EXCEPT !.headers = later \o h] : h \in some}
           headed == {[usual EXCEPT !.headers = one \o h] : h \in many}
<1>1. CurlOutputs = connected \cup {[usual EXCEPT !.times = early]}
                    \cup IF IsHttps THEN secure ELSE plain \cup large \cup followed \cup headed
  BY DEF CurlOutputs
<1>2. /\ \A v \in values : v \in Text
      /\ <<1>> \in Text /\ <<1, 1, 1>> \in Text
  <2>1. <<2, 1>> \in Text /\ <<1, 1, 1>> \in Text
    <3>1. 1 \in Nat \ {0} /\ 2 \in Nat \ {0}
      OBVIOUS
    <3> QED BY <3>1 DEF Text
  <2>2. [i \in 1..4 |-> 1] \in Text /\ [i \in 1..7 |-> 1] \in Text
    BY MarkerIsText
  <2>3. [i \in 1..4 |-> 2] \in Text
    <3> DEFINE m == [i \in 1..4 |-> 2]
    <3>1. m \in [1..4 -> Nat \ {0}]
      OBVIOUS
    <3> HIDE DEF m
    <3>2. \A n \in Nat : \A t \in [1..n -> Nat \ {0}] : t \in Seq(Nat \ {0})
      OBVIOUS
    <3>3. m \in Seq(Nat \ {0})
      BY <3>1, <3>2
    <3> QED BY <3>3 DEF Text, m
  <2> QED BY <2>1, <2>2, <2>3, TextParts
<1> HIDE DEF values
<1>3. headers \subseteq HeaderLines /\ header("a", 1, <<1>>) \in HeaderLines
  <2>1. \A key \in {"a", "b", "c"} : \A n \in Nat : \A v \in Text : header(key, n, v) \in HeaderLines
    BY DEF HeaderLines, Headers
  <2> HIDE DEF header
  <2> QED BY <1>2, <2>1
<1>4. status \in HeaderLines /\ interim \in HeaderLines
  BY DEF HeaderLines
<1> HIDE DEF header, headers, status, interim
<1>5. first \in Seq(HeaderLines) /\ later \in Seq(HeaderLines) /\ one \in Seq(HeaderLines)
  BY <1>3, <1>4
<1>6. letters \in Seq(Bytes4)
  OBVIOUS
<1> HIDE DEF first, later, one, letters
<1>7. \A b \in bodies : b \in Seq(Bytes4)
  BY BoundedAreSequences
<1>8. \A h \in some \cup many : h \in Seq(HeaderLines)
  <2>1. some \subseteq Seq(headers) /\ many \subseteq Seq(headers)
    BY BoundedAreSequences
  <2>2. Seq(headers) \subseteq Seq(HeaderLines)
    BY <1>3
  <2> QED BY <2>1, <2>2
<1> HIDE DEF Bytes4, bodies, some, many
<1>9. LeavesText(usual)
  BY <1>5, <1>6 DEF LeavesText, Bytes4
<1>10. [usual EXCEPT !.times.appconnect = 0] = [usual EXCEPT !.times = [times EXCEPT !.appconnect = 0]]
  OBVIOUS
<1> HIDE DEF usual, tls, times, early, remotes
<1>11. /\ \A x : LeavesText([usual EXCEPT !.stats = x])
       /\ \A x : LeavesText([usual EXCEPT !.code = x])
       /\ \A x : LeavesText([usual EXCEPT !.ssl = x])
       /\ \A x : LeavesText([usual EXCEPT !.verbose = x])
       /\ \A x : LeavesText([usual EXCEPT !.version = x])
       /\ \A x : LeavesText([usual EXCEPT !.times = x])
       /\ \A x : LeavesText([usual EXCEPT !.remote = x])
  BY <1>9, StillLeavesText
<1>12. \A h \in Seq(HeaderLines) : LeavesText([usual EXCEPT !.headers = h])
  BY <1>9, LeavesOther
<1>13. \A b \in Seq(Bytes4) : LeavesText([usual EXCEPT !.body = b])
  BY <1>9, LeavesOther DEF Bytes4
<1>14. \A p \in connected : LeavesText(p)
  BY <1>11
<1>15. \A p \in secure : LeavesText(p)
  BY <1>11
<1>16. \A p \in plain : LeavesText(p)
  BY <1>10, <1>11
<1>17. \A p \in large : LeavesText(p)
  BY <1>7, <1>13
<1>18. \A s, t \in Seq(HeaderLines) : s \o t \in Seq(HeaderLines)
  BY ConcatProperties
<1>19. \A p \in followed \cup headed : LeavesText(p)
  BY <1>5, <1>8, <1>12, <1>18
<1> HIDE DEF connected, secure, plain, large, followed, headed
<1> QED BY <1>1, <1>11, <1>14, <1>15, <1>16, <1>17, <1>19

\* A result with all of the output, made of its own headers and body.
WellMade(r, version, method) ==
  /\ r = [k \in DOMAIN r |-> r[k]] /\ {"status", "headers", "rawBody", "tls", "raw"} \subseteq DOMAIN r
  /\ r.raw = build_raw_output(version, r.headers, r.rawBody, method)
  /\ r.raw \in Text

\* What the certificate adds to a result leaves its output alone.
LEMMA StillWellMade ==
  ASSUME NEW r, NEW version, NEW method, WellMade(r, version, method), NEW x
  PROVE  WellMade([r EXCEPT !.tls = x], version, method)
<1> DEFINE q == [r EXCEPT !.tls = x]
<1>1. r = [k \in DOMAIN r |-> r[k]] /\ {"headers", "rawBody", "tls", "raw"} \subseteq DOMAIN r
  BY DEF WellMade
<1>2. /\ DOMAIN q = DOMAIN r /\ q = [k \in DOMAIN q |-> q[k]]
      /\ q.headers = r.headers /\ q.rawBody = r.rawBody /\ q.raw = r.raw
  BY <1>1
<1> HIDE DEF q
<1> QED BY <1>1, <1>2 DEF WellMade, q

\* What run_http() makes of what curl may leave has such an output.
LEMMA ResultIsWellMade ==
  ASSUME NEW printed, LeavesText(printed), NEW kept, kept \in {printed.headers, <<>>},
         NEW body, body \in {read_capped(printed.body, BODY_LIMIT), <<>>},
         NEW out, out = [printed EXCEPT !.headers = kept, !.body = body],
         NEW h \in truncate_headers(parse_header_file(out.headers)), h.outcome # "panic"
  PROVE  WellMade(HttpResult(out, h), out.version, job.method)
<1> DEFINE Bytes4 == {"a", "lead", "trail", "x"}
           some == SubSeq(out.body, 1, Smaller(Len(out.body), BODY_LIMIT))
           text == from_utf8_lossy(some)
           raw == build_raw_output(out.version, h.headers, text, job.method)
<1>1. \A b \in Seq(Bytes4) : \A n \in Nat : SubSeq(b, 1, Smaller(Len(b), n)) \in Seq(Bytes4)
  <2> SUFFICES ASSUME NEW b \in Seq(Bytes4), NEW n \in Nat PROVE SubSeq(b, 1, Smaller(Len(b), n)) \in Seq(Bytes4)
    OBVIOUS
  <2>1. Smaller(Len(b), n) \in 0..Len(b)
    BY DEF Smaller
  <2>2. \A m \in 0..Len(b) : SubSeq(b, 1, m) \in Seq(Bytes4)
    OBVIOUS
  <2> QED BY <2>1, <2>2
<1>2. out.headers = kept /\ out.body = body
  BY DEF LeavesText
<1>3. printed.headers \in Seq(HeaderLines) /\ printed.body \in Seq(Bytes4)
  BY DEF LeavesText
<1>4. out.headers \in Seq(HeaderLines)
  <2>1. <<>> \in Seq(HeaderLines)
    OBVIOUS
  <2> QED BY <1>2, <1>3, <2>1
<1>5. out.body \in Seq(Bytes4)
  <2>1. BODY_LIMIT + 1 \in Nat /\ BODY_LIMIT \in Nat
    BY HttpAssumption
  <2>2. read_capped(printed.body, BODY_LIMIT) \in Seq(Bytes4)
    BY <1>1, <1>3, <2>1 DEF read_capped
  <2>3. <<>> \in Seq(Bytes4)
    OBVIOUS
  <2> QED BY <1>2, <2>2, <2>3
<1>6. h.headers \in Seq(Headers)
  BY <1>4, ParsedHeaders, TruncatedHeaders
<1>7. some \in Seq(Bytes4)
  BY <1>1, <1>5, HttpAssumption
<1> HIDE DEF Bytes4, some
<1>8. text \in Text
  BY <1>7, LossyIsText
<1> HIDE DEF text
<1>9. raw \in Text
  BY <1>6, <1>8, RawOutputIsText
<1>10. /\ HttpResult(out, h).headers = h.headers /\ HttpResult(out, h).rawBody = text
       /\ HttpResult(out, h).raw = raw
       /\ HttpResult(out, h) = [k \in DOMAIN HttpResult(out, h) |-> HttpResult(out, h)[k]]
       /\ {"status", "headers", "rawBody", "tls", "raw"} \subseteq DOMAIN HttpResult(out, h)
  BY DEF HttpResult, text, some, raw
<1> QED BY <1>9, <1>10 DEF WellMade, raw

\* Until it is emitted, the output of a result is whole.
RawInv ==
  Is("http") =>
    /\ pc \in {"s_client", "x509"} => WellMade(local.result, read[1].version, job.method)
    /\ pc = "done" /\ result.status = "finished" => WellMade(result, read[1].version, job.method)
    /\ RawOutputFits

\* There is no output at first.
LEMMA InitRaw == Init => RawInv
<1> SUFFICES ASSUME Init PROVE RawInv
  OBVIOUS
<1>1. pc = "new"
  BY DEF Init, Started
<1> QED BY <1>1 DEF RawInv, RawOutputFits

\* What has curl's output read makes the result, or the result s_client adds to.
LEMMA CurlKeepsRaw == RawInv /\ [Next]_vars /\ Is("http") /\ CurlEnds(CurlOutputs) => RawInv'
<1> SUFFICES ASSUME RawInv, [Next]_vars, Is("http"), CurlEnds(CurlOutputs) PROVE RawInv'
  OBVIOUS
<1>1. job' = job
  BY NextKeepsJob
<1>2. PICK printed, out :
        /\ printed \in CurlOutputs
        /\ out = [ printed EXCEPT !.headers = IF "headers" \in files THEN @ ELSE <<>>,
                                  !.body = IF "body" \in files THEN read_capped(@, BODY_LIMIT) ELSE <<>> ]
        /\ read' = <<out>>
        /\ \/ \E note : Return(HttpFailed(note))
           \/ \E h \in truncate_headers(parse_header_file(out.headers)) :
                \/ h.outcome = "panic" /\ Return([status |-> "panicked"])
                \/ h.outcome # "panic" /\ Return(HttpResult(out, h))
                \/ /\ h.outcome # "panic" /\ pc' = "s_client"
                   /\ local' = [result |-> HttpResult(out, h), limit |-> 10]
  BY SMTT(20), ZenonT(20) DEF CurlEnds
<1>3. read'[1].version = out.version
  BY <1>2
<1>4. ASSUME NEW h \in truncate_headers(parse_header_file(out.headers)), h.outcome # "panic"
      PROVE  WellMade(HttpResult(out, h), out.version, job.method)
  <2> DEFINE kept == IF "headers" \in files THEN printed.headers ELSE <<>>
             body == IF "body" \in files THEN read_capped(printed.body, BODY_LIMIT) ELSE <<>>
  <2>1. out = [printed EXCEPT !.headers = kept, !.body = body]
    BY <1>2
  <2>2. kept \in {printed.headers, <<>>} /\ body \in {read_capped(printed.body, BODY_LIMIT), <<>>}
    OBVIOUS
  <2>3. LeavesText(printed)
    BY <1>2, CurlLeavesText
  <2> HIDE DEF kept, body
  <2> QED BY <1>4, <2>1, <2>2, <2>3, ResultIsWellMade
<1>5. CASE \E note : Return(HttpFailed(note))
  BY <1>5 DEF Return, HttpFailed, RawInv, RawOutputFits
<1>6. CASE Return([status |-> "panicked"])
  BY <1>6 DEF Return, RawInv, RawOutputFits
<1>7. ASSUME NEW h \in truncate_headers(parse_header_file(out.headers)), h.outcome # "panic",
             Return(HttpResult(out, h))
      PROVE  RawInv'
  <2>1. pc' = "done" /\ WellMade(result', read'[1].version, job'.method)
    BY <1>1, <1>3, <1>4, <1>7 DEF Return
  <2> QED BY <2>1 DEF RawInv, RawOutputFits
<1>8. ASSUME NEW h \in truncate_headers(parse_header_file(out.headers)), h.outcome # "panic",
             pc' = "s_client", local' = [result |-> HttpResult(out, h), limit |-> 10]
      PROVE  RawInv'
  <2>1. WellMade(local'.result, read'[1].version, job'.method)
    BY <1>1, <1>3, <1>4, <1>8
  <2> QED BY <1>8, <2>1 DEF RawInv, RawOutputFits
<1> QED BY <1>2, <1>5, <1>6, <1>7, <1>8

\* The other steps of an HTTP run leave the output of its result alone.
LEMMA HttpKeepsRaw == RawInv /\ [Next]_vars /\ Is("http") /\ HttpNext => RawInv'
<1> SUFFICES ASSUME RawInv, [Next]_vars, Is("http"), HttpNext PROVE RawInv'
  OBVIOUS
<1>1. job' = job
  BY NextKeepsJob
<1>2. CASE Reject("http", HttpValid) \/ HttpUnresolved \/ CurlFails
  <2>1. pc' = "done" /\ result' = Failure
    BY <1>2 DEF Reject, HttpUnresolved, CurlFails, CurlGone, Return
  <2> QED BY <2>1 DEF RawInv, RawOutputFits, Failure
<1>3. CASE HttpResolve \/ HttpResolved \/ CurlWrites
  <2>1. pc' \in {"dig", "curl"} \/ (pc' = "done" /\ result' = Failure)
    BY <1>3 DEF HttpResolve, HttpResolved, CurlWrites, Return
  <2> QED BY <2>1 DEF RawInv, RawOutputFits, Failure
<1>4. CASE CurlEnds(CurlOutputs)
  BY <1>4, CurlKeepsRaw
<1>5. CASE SClient
  <2>1. WellMade(local.result, read[1].version, job.method) /\ read' = read
    BY <1>5 DEF SClient, RawInv
  <2>2. PICK r :
          /\ r = local.result \/ \E v : r = [local.result EXCEPT !.tls.authorized = v]
          /\ (pc' = "x509" /\ local' = [result |-> r, limit |-> 4]) \/ Return(r)
    BY <1>5 DEF SClient
  <2>3. \A v : [local.result EXCEPT !.tls.authorized = v]
                 = [local.result EXCEPT !.tls = [local.result.tls EXCEPT !.authorized = v]]
    OBVIOUS
  <2>4. WellMade(r, read'[1].version, job'.method)
    BY <1>1, <2>1, <2>2, <2>3, StillWellMade
  <2>5. CASE pc' = "x509" /\ local' = [result |-> r, limit |-> 4]
    BY <2>4, <2>5 DEF RawInv, RawOutputFits
  <2>6. CASE Return(r)
    BY <2>4, <2>6 DEF RawInv, RawOutputFits, Return
  <2> QED BY <2>2, <2>5, <2>6
<1>6. CASE X509
  <2>1. WellMade(local.result, read[1].version, job.method) /\ read' = read
    BY <1>6 DEF X509, RawInv
  <2>2. PICK x : Return([local.result EXCEPT !.tls = x])
    BY <1>6 DEF X509
  <2>3. pc' = "done" /\ WellMade(result', read'[1].version, job'.method)
    BY <1>1, <2>1, <2>2, StillWellMade DEF Return
  <2> QED BY <2>3 DEF RawInv, RawOutputFits
<1> QED BY <1>2, <1>3, <1>4, <1>5, <1>6 DEF HttpNext

\* Emitting a result cuts its output where it should.
LEMMA EmitKeepsRaw == RawInv /\ [Next]_vars /\ Is("http") /\ Emit => RawInv'
<1> SUFFICES ASSUME RawInv, [Next]_vars, Is("http"), Emit PROVE RawInv'
  OBVIOUS
<1>1. job' = job /\ read' = read /\ pc' = "emitted" /\ pc = "done"
  BY DEF Emit
<1>2. CASE result.status # "finished"
  <2>1. result' = result
    BY <1>2 DEF Emit
  <2> QED BY <1>1, <1>2, <2>1 DEF RawInv, RawOutputFits, Finished
<1>3. CASE result.status = "finished"
  <2> DEFINE full == result.raw
             mark == [k \in 1..MARKER |-> 1]
             limited == limit_raw_output(full)
  <2>1. WellMade(result, read[1].version, job.method)
    BY <1>1, <1>3 DEF RawInv
  <2>2. result' = [result EXCEPT !.raw = limited]
    BY <1>3 DEF Emit
  <2> HIDE DEF limited
  <2>3. result'.raw = limited /\ result'.headers = result.headers /\ result'.rawBody = result.rawBody
    BY <2>1, <2>2 DEF WellMade
  <2>4. build_raw_output(read'[1].version, result'.headers, result'.rawBody, job'.method) = full
    BY <1>1, <2>1, <2>3 DEF WellMade
  <2>5. full \in Text /\ MAX_RAW_OUTPUT_BYTES \in Nat /\ MARKER \in Nat
    BY <2>1, OutputAssumption DEF WellMade
  <2>6. Bytes(full) \in Nat
    <3>1. Len(full) \in 0..Len(full)
      BY <2>5, TextParts
    <3> QED BY <2>5, <3>1, BytesGrow
  <2> HIDE DEF full
  <2>7. CASE Bytes(full) <= MAX_RAW_OUTPUT_BYTES
    <3>1. limited = full
      BY <2>7 DEF limited, limit_raw_output, truncate_output
    <3>2. RawOutputFits'
      BY <2>3, <2>4, <2>7, <3>1 DEF RawOutputFits
    <3> QED BY <1>1, <3>2 DEF RawInv
  <2>8. CASE Bytes(full) > MAX_RAW_OUTPUT_BYTES
    <3>1. PICK i \in 0..Len(full) - 1 :
            /\ limited = SubSeq(full, 1, i) \o mark
            /\ Bytes(SubSeq(full, 1, i)) <= MAX_RAW_OUTPUT_BYTES
            /\ Bytes(SubSeq(full, 1, i + 1)) > MAX_RAW_OUTPUT_BYTES
      BY <2>5, <2>8, TruncatedAsLateAsCan DEF limited, limit_raw_output
    <3>2. mark \in Text /\ Len(mark) = MARKER
      BY <2>5, MarkerIsText
    <3>3. Len(full) \in Nat
      BY <2>5, TextParts
    <3>4. i \in 0..Len(full) /\ i \in Nat
      BY <3>3
    <3> HIDE DEF mark
    <3>5. Len(limited) = i + MARKER /\ SubSeq(limited, 1, i) = SubSeq(full, 1, i)
      BY <2>5, <3>1, <3>2, <3>4, BeforeTheMarker
    <3>6. Len(limited) - MARKER = i
      BY <2>5, <3>4, <3>5
    <3>7. RawOutputFits'
      BY <2>3, <2>4, <2>8, <3>1, <3>5, <3>6 DEF RawOutputFits
    <3> QED BY <1>1, <3>7 DEF RawInv
  <2> QED BY <2>5, <2>6, <2>7, <2>8
<1> QED BY <1>2, <1>3

\* Every step keeps the output of a result.
LEMMA NextRaw == RawInv /\ [Next]_vars => RawInv'
<1> SUFFICES ASSUME RawInv, [Next]_vars PROVE RawInv'
  OBVIOUS
<1>1. Is("http")' <=> Is("http")
  BY NextKeepsJob DEF Is
<1>2. CASE ~Is("http")
  BY <1>1, <1>2 DEF RawInv
<1>3. CASE Is("http") /\ HttpNext
  BY <1>3, HttpKeepsRaw
<1>4. CASE Is("http") /\ Emit
  BY <1>4, EmitKeepsRaw
<1>5. CASE Drop
  <2>1. pc' = "done" /\ result'.status = "timeout"
    BY <1>5 DEF Drop, Return, TimedOut
  <2> QED BY <2>1 DEF RawInv, RawOutputFits
<1>6. CASE UNCHANGED vars
  BY <1>6 DEF vars, RawInv, RawOutputFits, Finished, Is
<1>7. job.cmd = "http" => Is("http") /\ ~Is("ping") /\ ~Is("traceroute") /\ ~Is("dns") /\ ~Is("mtr") /\ ~Is("tcp")
  BY DEF Is
<1>8. Next /\ Is("http") => HttpNext \/ Drop \/ Emit
  BY <1>7, OwnSteps DEF Is
<1> QED BY <1>2, <1>3, <1>4, <1>5, <1>6, <1>8

\* What is emitted of an HTTP run's output is all of it, or its beginning cut
\* between characters as late as MAX_RAW_OUTPUT_BYTES allows, and the marker
\* (dispatch()'s limit_raw_output, truncate_output).
THEOREM RawOutputIsLimited == Spec => []RawOutputFits
<1>1. RawInv => RawOutputFits
  BY DEF RawInv, RawOutputFits, Finished
<1> QED BY <1>1, InitRaw, NextRaw, PTL DEF Spec


----------------------------------------------------------------------------
(* What is parsed of dig's answer *)

\* A line has its parts, and no other line begins the section of the answers.
LineLike(l) ==
  /\ l = [k \in DOMAIN l |-> l[k]] /\ {"kind", "v", "says"} \subseteq DOMAIN l
  /\ l.kind = "section" /\ l.v = "answer" => l = Line("section", "answer")

\* All lines of dig are such lines.
LEMMA DnsLinesAreLines == \A l \in DnsLines : LineLike(l)
<1>1. \A kind, v : /\ DOMAIN Line(kind, v) = {"kind", "v", "says"}
                   /\ Line(kind, v) = [k \in DOMAIN Line(kind, v) |-> Line(kind, v)[k]]
                   /\ Line(kind, v).kind = kind /\ Line(kind, v).v = v
  BY DEF Line
<1>2. \A kind, v, f, x : LET l == Saying(Line(kind, v), f, x) IN
        /\ DOMAIN l = {"kind", "v", "says"}
        /\ l = [k \in DOMAIN l |-> l[k]]
        /\ l.kind = kind /\ l.v = v
  BY DEF Line, Saying
<1>3. \A kind, v : LineLike(Line(kind, v))
  BY <1>1 DEF LineLike
<1>4. \A kind, v, f, x : kind # "section" => LineLike(Saying(Line(kind, v), f, x))
  BY <1>2 DEF LineLike
<1>5. \A l \in DnsBody : LineLike(l)
  BY <1>3, <1>4 DEF DnsBody, Blank, DnsRecord
<1>6. \A ip, name : LineLike(DnsServer(ip, name))
  BY <1>4 DEF DnsServer, DnsComment
<1> QED BY <1>3, <1>4, <1>5, <1>6 DEF DnsLines, DnsComment

\* To hide the server changes neither the kind of a line nor its record.
LEMMA RewriteKeeps ==
  ASSUME NEW S, \A l \in S : LineLike(l), NEW lines \in Seq(S)
  PROVE  LET shown == rewrite_classic(lines)
         IN  /\ Len(shown) = Len(lines)
             /\ shown \in Seq({shown[i] : i \in 1..Len(lines)})
             /\ \A i \in 1..Len(lines) : shown[i].kind = lines[i].kind /\ shown[i].v = lines[i].v
<1> DEFINE shown == rewrite_classic(lines)
           len == Len(lines)
           hidden(l) == IF l.says[1] = "server" /\ is_ip_private(l.says[2].ip)
                        THEN [l EXCEPT !.says[2].ip = HiddenIp] ELSE l
<1>1. len \in Nat /\ DOMAIN lines = 1..len /\ \A i \in 1..len : LineLike(lines[i])
  OBVIOUS
<1>2. shown = [i \in 1..len |-> hidden(lines[i])]
  BY <1>1 DEF rewrite_classic
<1>3. \A l : LineLike(l) => hidden(l).kind = l.kind /\ hidden(l).v = l.v
  <2> SUFFICES ASSUME NEW l, LineLike(l) PROVE hidden(l).kind = l.kind /\ hidden(l).v = l.v
    OBVIOUS
  <2>1. l = [k \in DOMAIN l |-> l[k]] /\ {"kind", "v", "says"} \subseteq DOMAIN l
    BY DEF LineLike
  <2>2. \A x : [l EXCEPT !.says = x].kind = l.kind /\ [l EXCEPT !.says = x].v = l.v
    BY <2>1
  <2>3. [l EXCEPT !.says[2].ip = HiddenIp] = [l EXCEPT !.says = [l.says EXCEPT ![2].ip = HiddenIp]]
    OBVIOUS
  <2> QED BY <2>2, <2>3
<1> HIDE DEF hidden, len
<1>4. \A i \in 1..len : shown[i].kind = lines[i].kind /\ shown[i].v = lines[i].v
  BY <1>1, <1>2, <1>3
<1>5. \A E : \A n \in Nat : \A s \in [1..n -> E] : s \in Seq(E) /\ Len(s) = n
  OBVIOUS
<1>6. shown \in [1..len -> {shown[i] : i \in 1..len}]
  BY <1>2
<1>7. shown \in Seq({shown[i] : i \in 1..len}) /\ Len(shown) = len
  <2> HIDE DEF shown
  <2> QED BY <1>1, <1>5, <1>6
<1> QED BY <1>4, <1>7 DEF len

\* A sequence with one more element.
LEMMA AppendToSeq == \A X : \A t \in Seq(X) : \A e \in X : Append(t, e) \in Seq(X)
OBVIOUS

\* The states of the loop in parse_classic, after each line.
ClassicStart == [section |-> "header", answers |-> <<>>, time |-> 0, code |-> "none", resolver |-> "none"]
ClassicStates(lines) == CHOOSE f : f =
  [n \in 0..Len(lines) |-> IF n = 0 THEN ClassicStart ELSE ClassicStep(f[n - 1], lines[n])]

\* There are such states, and they are what their recursive definition says.
LEMMA ClassicUnfolds ==
  ASSUME NEW S, NEW lines \in Seq(S)
  PROVE  /\ ClassicStates(lines)[0] = ClassicStart
         /\ \A n \in 1..Len(lines) :
              LET before == ClassicStates(lines)[n - 1]
                  now == ClassicStates(lines)[n]
                  l == lines[n]
              IN  /\ now.section = SectionAt(before.section, l)
                  /\ now.answers = IF now.section = "answer" /\ l.kind = "record"
                                   THEN Append(before.answers, l.v) ELSE before.answers
<1> DEFINE len == Len(lines)
           V == {lines[i].v : i \in 1..len}
           Said == {lines[i].says[2] : i \in 1..len}
           Names == {"none"} \cup {ResolverIn(x) : x \in Said}
           Sections == {"header", ""} \cup V
           Times == {0} \cup Said
           Codes == {"none"} \cup Said
           Answers == Seq(V)
           T == [section : Sections, answers : Answers, time : Times, code : Codes, resolver : Names]
           L(f) == [n \in 0..len |-> IF n = 0 THEN ClassicStart ELSE ClassicStep(f[n - 1], lines[n])]
           next(p) == IF p[1] + 1 \in 1..len THEN ClassicStep(p[2], lines[p[1] + 1]) ELSE p[2]
           step == [p \in Nat \X T |-> next(p)]
           f == ClassicStates(lines)
<1>1. len \in Nat /\ len \in 0..len
  OBVIOUS
<1>2. f = CHOOSE g : g = L(g)
  BY DEF ClassicStates
<1> HIDE DEF len, f
<1>3. ASSUME NEW s \in T, NEW n \in 1..len
      PROVE  /\ ClassicStep(s, lines[n]) \in T
             /\ ClassicStep(s, lines[n]).section = SectionAt(s.section, lines[n])
             /\ ClassicStep(s, lines[n]).answers =
                  IF SectionAt(s.section, lines[n]) = "answer" /\ lines[n].kind = "record"
                  THEN Append(s.answers, lines[n].v) ELSE s.answers
  <2> DEFINE l == lines[n]
             time == IF l.says[1] = "time" THEN l.says[2] ELSE s.time
             code == IF l.says[1] = "status" THEN l.says[2] ELSE s.code
             resolver == IF l.says[1] = "server" THEN ResolverIn(l.says[2]) ELSE s.resolver
             section == SectionAt(s.section, l)
             answers == IF section = "answer" /\ l.kind = "record" THEN Append(s.answers, l.v) ELSE s.answers
  <2>1. l.v \in V /\ l.says[2] \in Said
    OBVIOUS
  <2>2. ResolverIn(l.says[2]) \in Names
    <3> HIDE DEF Said
    <3> QED BY <2>1
  <2>3. /\ s.section \in Sections /\ s.answers \in Answers /\ s.time \in Times
        /\ s.code \in Codes /\ s.resolver \in Names
    <3> HIDE DEF Sections, Answers, Times, Codes, Names
    <3> QED OBVIOUS
  <2>4. section \in Sections
    <3> HIDE DEF V
    <3> QED BY <2>1, <2>3 DEF SectionAt
  <2>5. answers \in Answers
    <3>1. \A t \in Answers : \A e \in V : Append(t, e) \in Answers
      BY AppendToSeq
    <3> HIDE DEF Answers, V
    <3> QED BY <2>1, <2>3, <3>1
  <2>6. time \in Times /\ code \in Codes /\ resolver \in Names
    <3>1. l.says[2] \in Times /\ l.says[2] \in Codes
      <4> HIDE DEF Said
      <4> QED BY <2>1
    <3> HIDE DEF Times, Codes, Names
    <3> QED BY <2>2, <2>3, <3>1
  <2>7. ClassicStep(s, l) =
          [s EXCEPT !.time = time, !.code = code, !.resolver = resolver, !.section = section, !.answers = answers]
    BY DEF ClassicStep
  <2> HIDE DEF time, code, resolver, section, answers, l, Sections, Answers, Times, Codes, Names
  <2>8. /\ ClassicStep(s, l) \in T
        /\ ClassicStep(s, l).section = section /\ ClassicStep(s, l).answers = answers
    BY <2>4, <2>5, <2>6, <2>7
  <2> QED BY <2>8 DEF section, answers, l
<1>4. ClassicStart \in T
  <2>1. <<>> \in Answers
    <3> HIDE DEF V
    <3> QED OBVIOUS
  <2>2. "header" \in Sections /\ 0 \in Times /\ "none" \in Codes /\ "none" \in Names
    OBVIOUS
  <2> HIDE DEF Sections, Answers, Times, Codes, Names
  <2> QED BY <2>1, <2>2 DEF ClassicStart
<1> HIDE DEF T
<1>5. step \in Steps(T)
  <2>1. \A p \in Nat \X T : next(p) \in T
    BY <1>3
  <2> HIDE DEF next
  <2> QED BY <2>1 DEF Steps
<1>6. PICK g : UnfoldsTo(g, T, ClassicStart, step, len)
  <2> HIDE DEF step
  <2> QED BY <1>1, <1>4, <1>5, RecursionToLength
<1>7. g \in [0..len -> T] /\ g[0] = ClassicStart
  BY <1>6 DEF UnfoldsTo
<1>8. ASSUME NEW n \in 1..len PROVE g[n] = ClassicStep(g[n - 1], lines[n])
  <2>1. n - 1 \in Nat /\ n - 1 \in 0..len /\ (n - 1) + 1 = n
    BY <1>1
  <2>2. g[n] = step[<<n - 1, g[n - 1]>>]
    <3> HIDE DEF step
    <3> QED BY <1>6 DEF UnfoldsTo
  <2>3. g[n - 1] \in T
    BY <1>7, <2>1
  <2>4. step[<<n - 1, g[n - 1]>>] = next(<<n - 1, g[n - 1]>>)
    <3> HIDE DEF next
    <3> QED BY <2>1, <2>3
  <2> HIDE DEF step
  <2> QED BY <2>1, <2>2, <2>4
<1>9. g = L(g)
  <2>1. \A n \in 0..len : g[n] = IF n = 0 THEN ClassicStart ELSE ClassicStep(g[n - 1], lines[n])
    <3> SUFFICES ASSUME NEW n \in 0..len
                 PROVE  g[n] = IF n = 0 THEN ClassicStart ELSE ClassicStep(g[n - 1], lines[n])
      OBVIOUS
    <3>1. n # 0 => n \in 1..len
      BY <1>1
    <3> QED BY <1>7, <1>8, <3>1
  <2>2. g = [n \in 0..len |-> g[n]]
    BY <1>7
  <2> QED BY <2>1, <2>2
<1>10. f = L(f)
  <2> HIDE DEF L
  <2> QED BY <1>2, <1>9
<1>11. f[0] = ClassicStart /\ \A n \in 1..len : f[n] = ClassicStep(f[n - 1], lines[n])
  <2>1. 0 \in 0..len /\ \A n \in 1..len : n \in 0..len /\ n # 0
    BY <1>1
  <2> QED BY <1>10, <2>1
<1> HIDE DEF L
<1>12. \A n \in 0..len : f[n] \in T
  <2>1. f[0] \in T
    BY <1>4, <1>11
  <2>2. \A n \in 1..len : f[n - 1] \in T => f[n] \in T
    BY <1>3, <1>11
  <2> QED BY <1>1, <2>1, <2>2, InductionToLength
<1>13. ASSUME NEW n \in 1..len
       PROVE  /\ f[n].section = SectionAt(f[n - 1].section, lines[n])
              /\ f[n].answers = IF f[n].section = "answer" /\ lines[n].kind = "record"
                                THEN Append(f[n - 1].answers, lines[n].v) ELSE f[n - 1].answers
  <2>1. n - 1 \in 0..len
    BY <1>1
  <2>2. f[n - 1] \in T
    BY <1>12, <2>1
  <2>3. f[n] = ClassicStep(f[n - 1], lines[n])
    BY <1>11
  <2> QED BY <1>3, <2>2, <2>3
<1> QED BY <1>11, <1>13 DEF f, len

\* Whether the section of the answers has begun before a line and not ended.
InAnswer(lines, i) == \E k \in 1..i - 1 :
  /\ lines[k] = Line("section", "answer")
  /\ \A m \in k + 1..i - 1 : lines[m].kind \notin {"blank", "section"}

\* The lines with the records of the answer.
AnswersIn(lines) == {i \in DOMAIN lines : lines[i].kind = "record" /\ InAnswer(lines, i)}

\* One line more: the section ends at a blank line, and begins where its name is.
LEMMA AnswerGoesOn ==
  ASSUME NEW S, \A l \in S : LineLike(l), NEW lines \in Seq(S), NEW n \in 1..Len(lines)
  PROVE  /\ lines[n].kind = "blank" => ~InAnswer(lines, n + 1)
         /\ lines[n].kind = "section" => (InAnswer(lines, n + 1) <=> lines[n].v = "answer")
         /\ lines[n].kind \notin {"blank", "section"} => (InAnswer(lines, n + 1) <=> InAnswer(lines, n))
<1> DEFINE l == lines[n]
           title == Line("section", "answer")
<1>1. n \in Nat /\ n >= 1 /\ (n + 1) - 1 = n
  OBVIOUS
<1>2. LineLike(l) /\ (l = title => l.kind = "section" /\ l.v = "answer")
  BY DEF Line
<1>3. l.kind = "section" /\ l.v = "answer" => l = title
  BY <1>2 DEF LineLike
<1>4. InAnswer(lines, n + 1) <=> \E k \in 1..n : /\ lines[k] = title
                                                /\ \A m \in k + 1..n : lines[m].kind \notin {"blank", "section"}
  BY <1>1 DEF InAnswer
<1> HIDE DEF title
<1>5. CASE l.kind \in {"blank", "section"}
  <2>1. ASSUME InAnswer(lines, n + 1) PROVE l = title
    <3>1. PICK k \in 1..n : lines[k] = title /\ \A m \in k + 1..n : lines[m].kind \notin {"blank", "section"}
      BY <1>4, <2>1
    <3>2. k = n \/ n \in k + 1..n
      BY <1>1
    <3> QED BY <1>5, <3>1, <3>2
  <2>2. ASSUME l = title PROVE InAnswer(lines, n + 1)
    <3>1. n \in 1..n /\ \A m \in n + 1..n : FALSE
      BY <1>1
    <3> QED BY <1>4, <2>2, <3>1
  <2>3. l.kind = "blank" => l # title
    BY <1>2
  <2> QED BY <1>2, <1>3, <1>5, <2>1, <2>2, <2>3
<1>6. CASE l.kind \notin {"blank", "section"}
  <2>1. ASSUME InAnswer(lines, n + 1) PROVE InAnswer(lines, n)
    <3>1. PICK k \in 1..n : lines[k] = title /\ \A m \in k + 1..n : lines[m].kind \notin {"blank", "section"}
      BY <1>4, <2>1
    <3>2. k # n
      BY <1>2, <1>6, <3>1
    <3>3. k \in 1..n - 1 /\ \A m \in k + 1..n - 1 : m \in k + 1..n
      BY <1>1, <3>2
    <3> QED BY <3>1, <3>3 DEF InAnswer, title
  <2>2. ASSUME InAnswer(lines, n) PROVE InAnswer(lines, n + 1)
    <3>1. PICK k \in 1..n - 1 : lines[k] = title /\ \A m \in k + 1..n - 1 : lines[m].kind \notin {"blank", "section"}
      BY <2>2 DEF InAnswer, title
    <3>2. k \in 1..n /\ \A m \in k + 1..n : m = n \/ m \in k + 1..n - 1
      BY <1>1
    <3> QED BY <1>4, <1>6, <3>1, <3>2
  <2> QED BY <1>6, <2>1, <2>2
<1> QED BY <1>5, <1>6

\* What parse_classic has collected are the records of the answer.
LEMMA ClassicCollects ==
  ASSUME NEW S, \A l \in S : LineLike(l), NEW lines \in Seq(S), NEW R, NEW shown \in Seq(R),
         Len(shown) = Len(lines) + 1, shown[Len(lines) + 1].kind = "blank",
         \A i \in 1..Len(lines) : shown[i].kind = lines[i].kind /\ shown[i].v = lines[i].v
  PROVE  ClassicStates(shown)[Len(shown)].answers
           = Chosen([i \in DOMAIN lines |-> lines[i].v], AnswersIn(lines))
<1> DEFINE len == Len(lines)
           f == ClassicStates(shown)
           values == [i \in DOMAIN lines |-> lines[i].v]
           E == {lines[i].v : i \in 1..len}
           p == Picks(values, AnswersIn(lines))
           right == [n \in 0..len |-> /\ (f[n].section = "answer") <=> InAnswer(lines, n + 1)
                                      /\ f[n].answers = p[n]]
           yes == {TRUE}
<1>1. len \in Nat /\ len \in 0..len /\ DOMAIN lines = 1..len
  OBVIOUS
<1>2. values \in Seq(E) /\ Len(values) = len /\ \A i \in 1..len : values[i] = lines[i].v
  <2>1. \A X : \A n \in Nat : \A s \in [1..n -> X] : s \in Seq(X) /\ Len(s) = n
    OBVIOUS
  <2>2. values \in [1..len -> E]
    BY <1>1
  <2>3. \A i \in 1..len : values[i] = lines[i].v
    BY <1>1
  <2> HIDE DEF values, E
  <2> QED BY <1>1, <2>1, <2>2, <2>3
<1> HIDE DEF values, E
<1>3. /\ p[0] = <<>> /\ Chosen(values, AnswersIn(lines)) = p[len]
      /\ \A n \in 1..len : p[n] = IF n \in AnswersIn(lines) THEN Append(p[n - 1], values[n]) ELSE p[n - 1]
  BY <1>2, PicksUnfold
<1>4. /\ f[0] = ClassicStart
      /\ \A n \in 1..len + 1 :
           /\ f[n].section = SectionAt(f[n - 1].section, shown[n])
           /\ f[n].answers = IF f[n].section = "answer" /\ shown[n].kind = "record"
                             THEN Append(f[n - 1].answers, shown[n].v) ELSE f[n - 1].answers
  BY ClassicUnfolds
<1> HIDE DEF f, p, len
<1>5. right[0] \in yes
  <2>1. 0 \in 0..len /\ ~InAnswer(lines, 1)
    BY <1>1 DEF InAnswer
  <2>2. f[0].section # "answer" /\ f[0].answers = <<>>
    BY <1>4 DEF ClassicStart
  <2>3. 0 + 1 = 1
    OBVIOUS
  <2> QED BY <1>3, <2>1, <2>2, <2>3
<1>6. ASSUME NEW n \in 1..len, right[n - 1] \in yes PROVE right[n] \in yes
  <2>1. n \in 0..len /\ n - 1 \in 0..len /\ (n - 1) + 1 = n /\ n \in 1..len + 1
    BY <1>1
  <2>2. (f[n - 1].section = "answer" <=> InAnswer(lines, n)) /\ f[n - 1].answers = p[n - 1]
    BY <1>6, <2>1
  <2>3. shown[n].kind = lines[n].kind /\ shown[n].v = lines[n].v
    BY DEF len
  <2>4. /\ f[n].section = SectionAt(f[n - 1].section, lines[n])
        /\ f[n].answers = IF f[n].section = "answer" /\ lines[n].kind = "record"
                          THEN Append(f[n - 1].answers, lines[n].v) ELSE f[n - 1].answers
    BY <1>4, <2>1, <2>3 DEF SectionAt
  <2>5. /\ lines[n].kind = "blank" => ~InAnswer(lines, n + 1)
        /\ lines[n].kind = "section" => (InAnswer(lines, n + 1) <=> lines[n].v = "answer")
        /\ lines[n].kind \notin {"blank", "section"} => (InAnswer(lines, n + 1) <=> InAnswer(lines, n))
    BY AnswerGoesOn DEF len
  <2>6. f[n].section = "answer" <=> InAnswer(lines, n + 1)
    BY <2>2, <2>4, <2>5 DEF SectionAt
  <2>7. f[n].answers = p[n]
    <3>1. n \in AnswersIn(lines) <=> lines[n].kind = "record" /\ InAnswer(lines, n)
      BY <1>1 DEF AnswersIn
    <3>2. p[n] = IF n \in AnswersIn(lines) THEN Append(p[n - 1], lines[n].v) ELSE p[n - 1]
      BY <1>2, <1>3
    <3>3. lines[n].kind = "record" => (f[n].section = "answer" <=> InAnswer(lines, n))
      BY <2>5, <2>6
    <3> QED BY <2>2, <2>4, <3>1, <3>2, <3>3
  <2> QED BY <2>1, <2>6, <2>7
<1> HIDE DEF right, yes
<1>7. \A n \in 0..len : right[n] \in yes
  BY <1>1, <1>5, <1>6, InductionToLength
<1>8. f[len].answers = p[len]
  <2>1. right[len] \in yes
    BY <1>1, <1>7
  <2> QED BY <1>1, <2>1 DEF right, yes
<1>9. f[len + 1].answers = f[len].answers
  <2>1. len + 1 \in 1..len + 1 /\ (len + 1) - 1 = len /\ shown[len + 1].kind # "record"
    BY <1>1 DEF len
  <2> QED BY <1>4, <2>1
<1> QED BY <1>3, <1>8, <1>9 DEF f, len, values

----------------------------------------------------------------------------
(* What is parsed of dig's trace *)

\* A hop to tell of.
Tells(hop) == hop.answers # <<>> \/ hop.resolver # "none"

\* The hops that lines may make.
HopsOf(lines) ==
  [ answers : Seq({lines[i].v : i \in 1..Len(lines)}),
    time : {0} \cup {lines[i].says[2].time : i \in 1..Len(lines)},
    resolver : {"none"} \cup {lines[i].says[2].name : i \in 1..Len(lines)} ]

\* The states of the loop in parse_trace_hops, after each line.
TraceStart == [hops |-> <<>>, hop |-> NoHop]
TraceStates(lines) == CHOOSE f : f =
  [n \in 0..Len(lines) |-> IF n = 0 THEN TraceStart ELSE TraceStep(f[n - 1], lines[n])]

\* Who has sent a block, as a comment says.
SaysFrom(l) == l.kind \in {"comment", "badpacket"} /\ l.says[1] = "received"

\* What a line makes of the hops and of the one that is being read.
TraceGoesOn(before, l, now) ==
  /\ l.kind = "blank" /\ Tells(before.hop) => now.hops = Append(before.hops, before.hop) /\ now.hop = NoHop
  /\ l.kind = "blank" /\ ~Tells(before.hop) => now = before
  /\ l.kind = "record" => /\ now.hops = before.hops
                          /\ now.hop.answers = Append(before.hop.answers, l.v)
  /\ SaysFrom(l) => /\ now.hops = before.hops /\ now.hop.answers = before.hop.answers
                    /\ now.hop.resolver = l.says[2].name
  /\ l.kind \notin {"blank", "record"} /\ ~SaysFrom(l) => now = before

\* push_hop adds a hop that tells something.
LEMMA PushTells ==
  ASSUME NEW H, NEW hops \in Seq(H), NEW hop \in H
  PROVE  /\ Tells(hop) => push_hop(hops, hop) = Append(hops, hop) /\ push_hop(hops, hop) # hops
         /\ ~Tells(hop) => push_hop(hops, hop) = hops
<1>1. Len(Append(hops, hop)) = Len(hops) + 1 /\ Len(hops) \in Nat
  OBVIOUS
<1>2. Append(hops, hop) # hops
  BY <1>1
<1> QED BY <1>2 DEF push_hop, Tells

\* One line of the loop.
LEMMA TraceStepIs ==
  ASSUME NEW S, NEW lines \in Seq(S), NEW n \in 1..Len(lines),
         NEW s \in [hops : Seq(HopsOf(lines)), hop : HopsOf(lines)]
  PROVE  /\ TraceStep(s, lines[n]) \in [hops : Seq(HopsOf(lines)), hop : HopsOf(lines)]
         /\ TraceGoesOn(s, lines[n], TraceStep(s, lines[n]))
<1> DEFINE len == Len(lines)
           V == {lines[i].v : i \in 1..len}
           Times == {0} \cup {lines[i].says[2].time : i \in 1..len}
           Names == {"none"} \cup {lines[i].says[2].name : i \in 1..len}
           Answers == Seq(V)
           H == HopsOf(lines)
           Many == Seq(H)
           T == [hops : Many, hop : H]
           l == lines[n]
           now == TraceStep(s, l)
<1>1. H = [answers : Answers, time : Times, resolver : Names]
  BY DEF HopsOf
<1>2. s.hops \in Many /\ s.hop \in H /\ s = [hops |-> s.hops, hop |-> s.hop]
  OBVIOUS
<1>3. l.v \in V /\ l.says[2].time \in Times /\ l.says[2].name \in Names
  OBVIOUS
<1>4. NoHop \in H
  <2>1. <<>> \in Answers /\ 0 \in Times /\ "none" \in Names
    OBVIOUS
  <2> HIDE DEF Answers, Times, Names, H
  <2> QED BY <1>1, <2>1 DEF NoHop
<1>5. \A h \in H : Append(s.hops, h) \in Many
  BY <1>2, AppendToSeq
<1>6. \A t \in Answers : \A e \in V : Append(t, e) \in Answers
  BY AppendToSeq
<1> HIDE DEF H
<1>7. /\ Tells(s.hop) => push_hop(s.hops, s.hop) = Append(s.hops, s.hop) /\ push_hop(s.hops, s.hop) # s.hops
      /\ ~Tells(s.hop) => push_hop(s.hops, s.hop) = s.hops
  BY <1>2, PushTells
<1> HIDE DEF V, Times, Names, Answers, Many, l
<1>8. CASE l.kind = "blank"
  <2>1. now = IF push_hop(s.hops, s.hop) = s.hops THEN s ELSE [hops |-> push_hop(s.hops, s.hop), hop |-> NoHop]
    BY <1>8 DEF TraceStep
  <2> HIDE DEF now
  <2>2. CASE Tells(s.hop)
    <3>1. now = [hops |-> Append(s.hops, s.hop), hop |-> NoHop]
      BY <1>7, <2>1, <2>2
    <3>2. now.hops = Append(s.hops, s.hop) /\ now.hop = NoHop
      BY <3>1
    <3>3. now \in T
      BY <1>2, <1>4, <1>5, <3>1
    <3> QED BY <1>8, <2>2, <3>2, <3>3 DEF TraceGoesOn, SaysFrom, T, Many, H, l, now
  <2>3. CASE ~Tells(s.hop)
    <3>1. now = s
      BY <1>7, <2>1, <2>3
    <3> QED BY <1>8, <2>3, <3>1 DEF TraceGoesOn, SaysFrom, T, Many, H, l, now
  <2> QED BY <2>2, <2>3
<1>9. CASE l.kind = "record"
  <2> DEFINE hop == [s.hop EXCEPT !.answers = Append(@, l.v)]
  <2>1. now = [s EXCEPT !.hop = hop]
    BY <1>9 DEF TraceStep
  <2>2. hop \in H /\ hop.answers = Append(s.hop.answers, l.v)
    BY <1>1, <1>2, <1>3, <1>6
  <2> HIDE DEF hop, now
  <2>3. now = [hops |-> s.hops, hop |-> hop]
    BY <1>2, <2>1
  <2>4. now.hops = s.hops /\ now.hop = hop /\ now \in T
    BY <1>2, <2>2, <2>3
  <2> QED BY <1>9, <2>2, <2>4 DEF TraceGoesOn, SaysFrom, T, Many, H, l, now
<1>10. CASE SaysFrom(l)
  <2> DEFINE hop == [s.hop EXCEPT !.resolver = l.says[2].name, !.time = l.says[2].time]
  <2>1. now = [s EXCEPT !.hop = hop]
    BY <1>10 DEF TraceStep, SaysFrom
  <2>2. hop \in H /\ hop.answers = s.hop.answers /\ hop.resolver = l.says[2].name
    BY <1>1, <1>2, <1>3
  <2> HIDE DEF hop, now
  <2>3. now = [hops |-> s.hops, hop |-> hop]
    BY <1>2, <2>1
  <2>4. now.hops = s.hops /\ now.hop = hop /\ now \in T
    BY <1>2, <2>2, <2>3
  <2> QED BY <1>10, <2>2, <2>4 DEF TraceGoesOn, SaysFrom, T, Many, H, l, now
<1>11. CASE l.kind \notin {"blank", "record"} /\ ~SaysFrom(l)
  <2>1. now = s
    BY <1>11 DEF TraceStep, SaysFrom
  <2> QED BY <1>11, <2>1 DEF TraceGoesOn, SaysFrom, T, Many, H, l, now
<1> QED BY <1>8, <1>9, <1>10, <1>11

\* There are such states, and they are what their recursive definition says.
LEMMA TraceUnfolds ==
  ASSUME NEW S, NEW lines \in Seq(S)
  PROVE  /\ TraceStates(lines)[0] = TraceStart
         /\ \A n \in 0..Len(lines) : TraceStates(lines)[n] \in [hops : Seq(HopsOf(lines)), hop : HopsOf(lines)]
         /\ \A n \in 1..Len(lines) :
              /\ TraceStates(lines)[n] = TraceStep(TraceStates(lines)[n - 1], lines[n])
              /\ TraceGoesOn(TraceStates(lines)[n - 1], lines[n], TraceStates(lines)[n])
<1> DEFINE len == Len(lines)
           H == HopsOf(lines)
           T == [hops : Seq(H), hop : H]
           L(f) == [n \in 0..len |-> IF n = 0 THEN TraceStart ELSE TraceStep(f[n - 1], lines[n])]
           next(p) == IF p[1] + 1 \in 1..len THEN TraceStep(p[2], lines[p[1] + 1]) ELSE p[2]
           step == [p \in Nat \X T |-> next(p)]
           f == TraceStates(lines)
<1>1. len \in Nat /\ len \in 0..len
  OBVIOUS
<1>2. f = CHOOSE g : g = L(g)
  BY DEF TraceStates
<1>3. ASSUME NEW s \in T, NEW n \in 1..len
      PROVE  TraceStep(s, lines[n]) \in T /\ TraceGoesOn(s, lines[n], TraceStep(s, lines[n]))
  BY TraceStepIs
<1>4. TraceStart \in T
  <2>1. <<>> \in Seq({lines[i].v : i \in 1..Len(lines)})
    OBVIOUS
  <2>2. NoHop \in H
    BY <2>1 DEF HopsOf, NoHop
  <2>3. <<>> \in Seq(H)
    OBVIOUS
  <2> HIDE DEF H
  <2> QED BY <2>2, <2>3 DEF TraceStart
<1> HIDE DEF len, f, H, T
<1>5. step \in Steps(T)
  <2>1. \A p \in Nat \X T : next(p) \in T
    BY <1>3
  <2> HIDE DEF next
  <2> QED BY <2>1 DEF Steps
<1>6. PICK g : UnfoldsTo(g, T, TraceStart, step, len)
  <2> HIDE DEF step
  <2> QED BY <1>1, <1>4, <1>5, RecursionToLength
<1>7. g \in [0..len -> T] /\ g[0] = TraceStart
  BY <1>6 DEF UnfoldsTo
<1>8. ASSUME NEW n \in 1..len PROVE g[n] = TraceStep(g[n - 1], lines[n])
  <2>1. n - 1 \in Nat /\ n - 1 \in 0..len /\ (n - 1) + 1 = n
    BY <1>1
  <2>2. g[n] = step[<<n - 1, g[n - 1]>>]
    <3> HIDE DEF step
    <3> QED BY <1>6 DEF UnfoldsTo
  <2>3. g[n - 1] \in T
    BY <1>7, <2>1
  <2>4. step[<<n - 1, g[n - 1]>>] = next(<<n - 1, g[n - 1]>>)
    <3> HIDE DEF next
    <3> QED BY <2>1, <2>3
  <2> HIDE DEF step
  <2> QED BY <2>1, <2>2, <2>4
<1>9. g = L(g)
  <2>1. \A n \in 0..len : g[n] = IF n = 0 THEN TraceStart ELSE TraceStep(g[n - 1], lines[n])
    <3> SUFFICES ASSUME NEW n \in 0..len
                 PROVE  g[n] = IF n = 0 THEN TraceStart ELSE TraceStep(g[n - 1], lines[n])
      OBVIOUS
    <3>1. n # 0 => n \in 1..len
      BY <1>1
    <3> QED BY <1>7, <1>8, <3>1
  <2>2. g = [n \in 0..len |-> g[n]]
    BY <1>7
  <2> QED BY <2>1, <2>2
<1>10. f = L(f)
  <2> HIDE DEF L
  <2> QED BY <1>2, <1>9
<1>11. f[0] = TraceStart /\ \A n \in 1..len : f[n] = TraceStep(f[n - 1], lines[n])
  <2>1. 0 \in 0..len /\ \A n \in 1..len : n \in 0..len /\ n # 0
    BY <1>1
  <2> QED BY <1>10, <2>1
<1> HIDE DEF L
<1>12. \A n \in 0..len : f[n] \in T
  <2>1. f[0] \in T
    BY <1>4, <1>11
  <2>2. \A n \in 1..len : f[n - 1] \in T => f[n] \in T
    BY <1>3, <1>11
  <2> QED BY <1>1, <2>1, <2>2, InductionToLength
<1>13. ASSUME NEW n \in 1..len PROVE TraceGoesOn(f[n - 1], lines[n], f[n])
  <2>1. n - 1 \in 0..len
    BY <1>1
  <2>2. f[n - 1] \in T
    BY <1>12, <2>1
  <2>3. f[n] = TraceStep(f[n - 1], lines[n])
    BY <1>11
  <2> QED BY <1>3, <2>2, <2>3
<1> QED BY <1>11, <1>12, <1>13 DEF f, len, T, H

\* Lines of a trace: only a comment says who has sent a block, and it names them.
TraceLike(l) ==
  /\ {"kind", "v", "says"} \subseteq DOMAIN l
  /\ l.says[1] = "received" => l.kind = "comment" /\ l.says[2].name # "none"

\* The lines that tell something of a hop, whether one before a line is in its
\* block, and the lines with which blocks begin to tell.
Telling(lines) ==
  {i \in DOMAIN lines : lines[i].kind = "record"} \cup {i \in DOMAIN lines : lines[i].says[1] = "received"}
InTold(lines, i) == \E k \in Telling(lines) : k < i /\ \A m \in k + 1..i - 1 : lines[m].kind # "blank"
Firsts(lines) == {i \in Telling(lines) : ~InTold(lines, i)}

\* The answers of hops, one after another.
AnswersOf(hops) == FlattenSeq([h \in DOMAIN hops |-> hops[h].answers])

\* The answers of one hop more come last.
LEMMA AnswersOfOneMore ==
  ASSUME NEW E, NEW H, \A h \in H : h.answers \in Seq(E), NEW hops \in Seq(H), NEW hop \in H
  PROVE  /\ AnswersOf(hops) \in Seq(E)
         /\ AnswersOf(Append(hops, hop)) = AnswersOf(hops) \o hop.answers
<1> DEFINE n == Len(hops)
           lists == [h \in DOMAIN hops |-> hops[h].answers]
           more == Append(hops, hop)
           longer == [h \in DOMAIN more |-> more[h].answers]
<1>1. \A X : \A m \in Nat : \A s \in [1..m -> X] : s \in Seq(X) /\ Len(s) = m
  OBVIOUS
<1>2. n \in Nat /\ DOMAIN hops = 1..n /\ \A h \in 1..n : hops[h].answers \in Seq(E)
  OBVIOUS
<1>3. lists \in [1..n -> Seq(E)]
  BY <1>2
<1>4. lists \in Seq(Seq(E)) /\ Len(lists) = n
  <2> HIDE DEF lists
  <2> QED BY <1>1, <1>2, <1>3
<1>5. /\ DOMAIN more = 1..n + 1 /\ more[n + 1] = hop
      /\ \A h \in 1..n : more[h] = hops[h]
  OBVIOUS
<1>6. longer = Append(lists, hop.answers)
  <2>1. longer = [h \in 1..n + 1 |-> IF h = n + 1 THEN hop.answers ELSE lists[h]]
    BY <1>2, <1>5
  <2> DEFINE joined == Append(lists, hop.answers)
  <2>2. \A X : \A s \in Seq(X) : \A x \in X :
          /\ Append(s, x) \in Seq(X) /\ Len(Append(s, x)) = Len(s) + 1
          /\ \A h \in 1..Len(s) + 1 : Append(s, x)[h] = IF h = Len(s) + 1 THEN x ELSE s[h]
    OBVIOUS
  <2>3. hop.answers \in Seq(E)
    OBVIOUS
  <2>4. /\ joined \in Seq(Seq(E)) /\ Len(joined) = n + 1
        /\ \A h \in 1..n + 1 : joined[h] = IF h = n + 1 THEN hop.answers ELSE lists[h]
    BY <1>4, <2>2, <2>3
  <2> HIDE DEF joined
  <2>5. joined = [h \in 1..n + 1 |-> joined[h]]
    BY <2>4
  <2>6. joined = [h \in 1..n + 1 |-> IF h = n + 1 THEN hop.answers ELSE lists[h]]
    BY <2>4, <2>5
  <2> QED BY <2>1, <2>6 DEF joined
<1> HIDE DEF lists, longer
<1>7. FlattenSeq(Append(lists, hop.answers)) = FlattenSeq(lists) \o hop.answers
  BY <1>4, FlattenOneMore
<1>8. FlattenSeq(lists) \in Seq(E)
  BY <1>4, FlattenedSequences
<1> QED BY <1>6, <1>7, <1>8 DEF AnswersOf, lists, longer

\* One line more: a block ends at a blank line, and tells when a line of it does.
LEMMA BlockGoesOn ==
  ASSUME NEW S, \A l \in S : TraceLike(l), NEW lines \in Seq(S), NEW n \in 1..Len(lines)
  PROVE  /\ lines[n].kind = "blank" => ~InTold(lines, n + 1) /\ n \notin Telling(lines)
         /\ n \in Telling(lines) => InTold(lines, n + 1)
         /\ lines[n].kind # "blank" /\ n \notin Telling(lines) => (InTold(lines, n + 1) <=> InTold(lines, n))
<1>1. n \in Nat /\ n >= 1 /\ (n + 1) - 1 = n /\ DOMAIN lines = 1..Len(lines) /\ Len(lines) \in Nat
  OBVIOUS
<1>2. TraceLike(lines[n])
  OBVIOUS
<1>3. lines[n].kind = "blank" => n \notin Telling(lines)
  BY <1>2 DEF TraceLike, Telling
<1>4. \A k \in Telling(lines) : k \in Nat
  BY <1>1 DEF Telling
<1>5. InTold(lines, n + 1) <=> \E k \in Telling(lines) : k <= n /\ \A m \in k + 1..n : lines[m].kind # "blank"
  BY <1>1, <1>4 DEF InTold
<1> HIDE DEF Telling
<1>6. ASSUME lines[n].kind = "blank" PROVE ~InTold(lines, n + 1)
  <2> SUFFICES ASSUME NEW k \in Telling(lines), k <= n, \A m \in k + 1..n : lines[m].kind # "blank" PROVE FALSE
    BY <1>5
  <2>1. k # n
    BY <1>3, <1>6
  <2>2. n \in k + 1..n
    BY <1>1, <1>4, <2>1
  <2> QED BY <1>6, <2>2
<1>7. ASSUME n \in Telling(lines) PROVE InTold(lines, n + 1)
  <2>1. n <= n /\ \A m \in n + 1..n : FALSE
    BY <1>1
  <2> QED BY <1>5, <1>7, <2>1
<1>8. ASSUME lines[n].kind # "blank", n \notin Telling(lines) PROVE InTold(lines, n + 1) <=> InTold(lines, n)
  <2>1. ASSUME InTold(lines, n + 1) PROVE InTold(lines, n)
    <3>1. PICK k \in Telling(lines) : k <= n /\ \A m \in k + 1..n : lines[m].kind # "blank"
      BY <1>5, <2>1
    <3>2. k # n
      BY <1>8
    <3>3. k < n /\ \A m \in k + 1..n - 1 : m \in k + 1..n
      BY <1>1, <1>4, <3>1, <3>2
    <3> QED BY <3>1, <3>3 DEF InTold
  <2>2. ASSUME InTold(lines, n) PROVE InTold(lines, n + 1)
    <3>1. PICK k \in Telling(lines) : k < n /\ \A m \in k + 1..n - 1 : lines[m].kind # "blank"
      BY <2>2 DEF InTold
    <3>2. k <= n /\ \A m \in k + 1..n : m = n \/ m \in k + 1..n - 1
      BY <1>1, <1>4, <3>1
    <3> QED BY <1>5, <1>8, <3>1, <3>2
  <2> QED BY <2>1, <2>2
<1> QED BY <1>3, <1>6, <1>7, <1>8

\* The first lines up to a line are those before it, and it, if it is one.
LEMMA FirstsUpTo ==
  ASSUME NEW S, NEW lines \in Seq(S), NEW n \in 1..Len(lines)
  PROVE  /\ Cardinality(Firsts(lines) \cap (1..n - 1)) \in Nat
         /\ Cardinality(Firsts(lines) \cap (1..n)) =
              IF n \in Firsts(lines) THEN Cardinality(Firsts(lines) \cap (1..n - 1)) + 1
              ELSE Cardinality(Firsts(lines) \cap (1..n - 1))
<1> DEFINE F == Firsts(lines)
           before == F \cap (1..n - 1)
<1>1. n \in Nat /\ n - 1 \in Int
  OBVIOUS
<1> HIDE DEF F
<1>2. F \cap (1..n) = IF n \in F THEN before \cup {n} ELSE before
  BY <1>1
<1>3. IsFiniteSet(before) /\ n \notin before
  <2>1. IsFiniteSet(1..n - 1)
    BY <1>1, FS_Interval
  <2>2. IsFiniteSet(before)
    BY <2>1, FS_Subset
  <2> QED BY <1>1, <2>2
<1>4. Cardinality(before) \in Nat
  BY <1>3, FS_CardinalityType
<1>5. Cardinality(before \cup {n}) = Cardinality(before) + 1
  BY <1>3, FS_AddElement
<1> QED BY <1>2, <1>4, <1>5 DEF F

\* What a trace has collected after a line: all records so far, a hop under way
\* just when its block has told something, and a hop for each block that did.
TraceRight(lines, now, picked, n) ==
  /\ AnswersOf(now.hops) \o now.hop.answers = picked
  /\ Tells(now.hop) <=> InTold(lines, n + 1)
  /\ Len(now.hops) + (IF InTold(lines, n + 1) THEN 1 ELSE 0) = Cardinality(Firsts(lines) \cap (1..n))

\* At first nothing is collected.
LEMMA TraceStartsRight ==
  ASSUME NEW S, NEW lines \in Seq(S)
  PROVE  TraceRight(lines, TraceStart, <<>>, 0)
<1>1. TraceStart.hops = <<>> /\ TraceStart.hop.answers = <<>> /\ ~Tells(TraceStart.hop)
  BY DEF TraceStart, NoHop, Tells
<1>2. AnswersOf(<<>>) = <<>>
  BY DEF AnswersOf, FlattenSeq
<1>3. ~InTold(lines, 0 + 1)
  <2>1. \A k \in Telling(lines) : k \in Nat /\ k >= 1
    BY DEF Telling
  <2> QED BY <2>1 DEF InTold
<1>4. Firsts(lines) \cap (1..0) = {}
  OBVIOUS
<1>5. Cardinality(Firsts(lines) \cap (1..0)) = 0
  BY <1>4, FS_EmptySet
<1>6. <<>> \o <<>> = <<>> /\ Len(<<>>) = 0
  OBVIOUS
<1>7. AnswersOf(TraceStart.hops) \o TraceStart.hop.answers = <<>>
  BY <1>1, <1>2, <1>6
<1>8. Len(TraceStart.hops) + (IF InTold(lines, 0 + 1) THEN 1 ELSE 0) = Cardinality(Firsts(lines) \cap (1..0))
  BY <1>1, <1>3, <1>5, <1>6
<1> QED BY <1>1, <1>3, <1>7, <1>8 DEF TraceRight

\* Sequences are joined in any order.
LEMMA JoinedInAnyOrder == ASSUME NEW E PROVE \A a, b, c \in Seq(E) : (a \o b) \o c = a \o (b \o c)
BY ConcatAssociative

\* What is appended to the second of two is appended to both.
LEMMA JoinAppended ==
  ASSUME NEW E
  PROVE  \A a, b \in Seq(E) : \A x \in E : a \o Append(b, x) = Append(a \o b, x)
<1>1. \A a \in Seq(E) : \A x \in E : Append(a, x) = a \o <<x>>
  BY AppendIsConcat
<1>2. \A a, b \in Seq(E) : a \o b \in Seq(E)
  BY ConcatProperties
<1>3. \A x \in E : <<x>> \in Seq(E)
  OBVIOUS
<1> QED BY <1>1, <1>2, <1>3, JoinedInAnyOrder

\* One line more.
LEMMA TraceStaysRight ==
  ASSUME NEW S, \A l \in S : TraceLike(l), NEW lines \in Seq(S), NEW n \in 1..Len(lines),
         NEW E, NEW H, \A h \in H : h.answers \in Seq(E),
         NEW before \in [hops : Seq(H), hop : H], NEW now \in [hops : Seq(H), hop : H],
         TraceGoesOn(before, lines[n], now),
         NEW picked \in Seq(E), TraceRight(lines, before, picked, n - 1),
         lines[n].kind = "record" => lines[n].v \in E
  PROVE  TraceRight(lines, now, IF lines[n].kind = "record" THEN Append(picked, lines[n].v) ELSE picked, n)
<1> DEFINE l == lines[n]
           old == Cardinality(Firsts(lines) \cap (1..n - 1))
           new == Cardinality(Firsts(lines) \cap (1..n))
<1>1. n \in Nat /\ (n - 1) + 1 = n /\ n \in DOMAIN lines
  OBVIOUS
<1>2. TraceLike(l)
  OBVIOUS
<1>3. /\ AnswersOf(before.hops) \o before.hop.answers = picked
      /\ Tells(before.hop) <=> InTold(lines, n)
      /\ Len(before.hops) + (IF InTold(lines, n) THEN 1 ELSE 0) = old
  BY <1>1 DEF TraceRight
<1>4. old \in Nat /\ new = IF n \in Firsts(lines) THEN old + 1 ELSE old
  BY FirstsUpTo
<1>5. n \in Firsts(lines) <=> n \in Telling(lines) /\ ~InTold(lines, n)
  BY DEF Firsts
<1>6. n \in Telling(lines) <=> l.kind = "record" \/ l.says[1] = "received"
  BY <1>1 DEF Telling
<1>7. SaysFrom(l) <=> l.says[1] = "received"
  BY <1>2 DEF TraceLike, SaysFrom
<1>8. l.says[1] = "received" => l.kind = "comment" /\ l.says[2].name # "none"
  BY <1>2 DEF TraceLike
<1>9. /\ l.kind = "blank" => ~InTold(lines, n + 1) /\ n \notin Telling(lines)
      /\ n \in Telling(lines) => InTold(lines, n + 1)
      /\ l.kind # "blank" /\ n \notin Telling(lines) => (InTold(lines, n + 1) <=> InTold(lines, n))
  BY BlockGoesOn
<1>10. /\ before.hops \in Seq(H) /\ before.hop \in H /\ before.hop.answers \in Seq(E)
       /\ Len(before.hops) \in Nat
  OBVIOUS
<1>11. /\ AnswersOf(before.hops) \in Seq(E)
       /\ AnswersOf(Append(before.hops, before.hop)) = AnswersOf(before.hops) \o before.hop.answers
  BY <1>10, AnswersOfOneMore, SMTT(20), ZenonT(20)
<1> HIDE DEF l, old, new
<1>12. CASE l.kind = "blank" /\ Tells(before.hop)
  <2>1. now.hops = Append(before.hops, before.hop) /\ now.hop = NoHop
    BY <1>12 DEF TraceGoesOn, l
  <2>2. AnswersOf(now.hops) \o now.hop.answers = picked
    <3>1. AnswersOf(now.hops) = picked
      BY <1>3, <1>11, <2>1
    <3>2. \A s \in Seq(E) : s \o <<>> = s
      OBVIOUS
    <3> QED BY <2>1, <3>1, <3>2 DEF NoHop
  <2>3. ~Tells(now.hop) /\ ~InTold(lines, n + 1) /\ InTold(lines, n)
    BY <1>3, <1>9, <1>12, <2>1 DEF Tells, NoHop
  <2>4. Len(now.hops) = Len(before.hops) + 1
    BY <1>10, <2>1
  <2>5. new = old
    BY <1>4, <1>5, <1>9, <1>12
  <2>6. Len(now.hops) + 0 = new
    BY <1>3, <1>10, <2>3, <2>4, <2>5
  <2> QED BY <1>12, <2>2, <2>3, <2>6 DEF TraceRight, new, l
<1>13. CASE l.kind = "blank" /\ ~Tells(before.hop)
  <2>1. now = before
    BY <1>13 DEF TraceGoesOn, l
  <2>2. ~InTold(lines, n + 1) /\ ~InTold(lines, n)
    BY <1>3, <1>9, <1>13
  <2>3. new = old
    BY <1>4, <1>5, <1>9, <1>13
  <2> QED BY <1>3, <1>13, <2>1, <2>2, <2>3 DEF TraceRight, new, l
<1>14. CASE l.kind = "record"
  <2>1. now.hops = before.hops /\ now.hop.answers = Append(before.hop.answers, l.v)
    BY <1>14 DEF TraceGoesOn, l
  <2>2. AnswersOf(now.hops) \o now.hop.answers = Append(picked, l.v)
    <3>1. l.v \in E
      BY <1>14 DEF l
    <3>2. \A s, t \in Seq(E) : \A e \in E : s \o Append(t, e) = Append(s \o t, e)
      BY JoinAppended, SMTT(20), ZenonT(20)
    <3>3. AnswersOf(before.hops) \o Append(before.hop.answers, l.v)
            = Append(AnswersOf(before.hops) \o before.hop.answers, l.v)
      BY <1>10, <1>11, <3>1, <3>2
    <3> QED BY <1>3, <2>1, <3>3
  <2>3. Tells(now.hop) /\ InTold(lines, n + 1)
    <3>1. Len(now.hop.answers) = Len(before.hop.answers) + 1 /\ Len(before.hop.answers) \in Nat
      BY <1>10, <2>1
    <3>2. now.hop.answers # <<>>
      BY <3>1
    <3> QED BY <1>6, <1>9, <1>14, <3>2 DEF Tells
  <2>4. new = IF InTold(lines, n) THEN old ELSE old + 1
    BY <1>4, <1>5, <1>6, <1>14
  <2>5. Len(now.hops) + 1 = new
    BY <1>3, <1>4, <1>10, <2>1, <2>4
  <2> QED BY <1>14, <2>2, <2>3, <2>5 DEF TraceRight, new, l
<1>15. CASE l.says[1] = "received"
  <2>1. /\ now.hops = before.hops /\ now.hop.answers = before.hop.answers
        /\ now.hop.resolver = l.says[2].name
    BY <1>7, <1>15 DEF TraceGoesOn, l
  <2>2. Tells(now.hop) /\ InTold(lines, n + 1) /\ l.kind # "record"
    BY <1>6, <1>8, <1>9, <1>15, <2>1 DEF Tells
  <2>3. new = IF InTold(lines, n) THEN old ELSE old + 1
    BY <1>4, <1>5, <1>6, <1>15
  <2>4. Len(now.hops) + 1 = new
    BY <1>3, <1>4, <1>10, <2>1, <2>3
  <2> QED BY <1>3, <2>1, <2>2, <2>4 DEF TraceRight, new, l
<1>16. CASE l.kind \notin {"blank", "record"} /\ l.says[1] # "received"
  <2>1. now = before
    BY <1>7, <1>16 DEF TraceGoesOn, l
  <2>2. n \notin Telling(lines) /\ (InTold(lines, n + 1) <=> InTold(lines, n))
    BY <1>6, <1>9, <1>16
  <2>3. new = old
    BY <1>4, <1>5, <2>2
  <2> QED BY <1>3, <1>16, <2>1, <2>2, <2>3 DEF TraceRight, new, l
<1> QED BY <1>12, <1>13, <1>14, <1>15, <1>16

\* What parse_trace has collected are all records, and a hop for each block.
LEMMA TraceCollects ==
  ASSUME NEW S, \A l \in S : TraceLike(l), NEW lines \in Seq(S), NEW raw, raw = Append(lines, Blank)
  PROVE  LET end == TraceStates(raw)[Len(raw)]
             hops == push_hop(end.hops, end.hop)
         IN  /\ AnswersOf(hops)
                  = Chosen([i \in DOMAIN lines |-> lines[i].v], {i \in DOMAIN lines : lines[i].kind = "record"})
             /\ Len(hops) = Cardinality(Firsts(lines))
<1> DEFINE len == Len(lines)
           f == TraceStates(raw)
           E == {raw[i].v : i \in 1..Len(raw)}
           H == HopsOf(raw)
           values == [i \in DOMAIN lines |-> lines[i].v]
           records == {i \in DOMAIN lines : lines[i].kind = "record"}
           p == Picks(values, records)
           right == [n \in 0..len |-> TraceRight(lines, f[n], p[n], n)]
           yes == {TRUE}
<1>1. len \in Nat /\ len \in 0..len /\ DOMAIN lines = 1..len
  OBVIOUS
<1>2. /\ raw \in Seq(S \cup {Blank}) /\ Len(raw) = len + 1 /\ raw[len + 1] = Blank
      /\ \A i \in 1..len : raw[i] = lines[i]
  OBVIOUS
<1>3. \A h \in H : h.answers \in Seq(E)
  BY DEF HopsOf
<1>4. /\ f[0] = TraceStart
      /\ \A n \in 0..len + 1 : f[n] \in [hops : Seq(H), hop : H]
      /\ \A n \in 1..len + 1 : TraceGoesOn(f[n - 1], raw[n], f[n])
  BY <1>2, TraceUnfolds
<1>5. values \in Seq(E) /\ Len(values) = len /\ \A i \in 1..len : values[i] = lines[i].v
  <2>1. \A X : \A n \in Nat : \A s \in [1..n -> X] : s \in Seq(X) /\ Len(s) = n
    OBVIOUS
  <2>2. values \in [1..len -> E]
    <3>1. \A i \in 1..len : i \in 1..Len(raw) /\ lines[i].v = raw[i].v
      BY <1>1, <1>2
    <3>2. \A i \in 1..len : lines[i].v \in E
      BY <3>1
    <3> HIDE DEF E
    <3> QED BY <1>1, <3>2
  <2>3. \A i \in 1..len : values[i] = lines[i].v
    BY <1>1
  <2> HIDE DEF values, E
  <2> QED BY <1>1, <2>1, <2>2, <2>3
<1> HIDE DEF values, E, H
<1>6. /\ p \in [0..len -> Seq(E)] /\ p[0] = <<>> /\ Chosen(values, records) = p[len]
      /\ \A n \in 1..len : p[n] = IF n \in records THEN Append(p[n - 1], values[n]) ELSE p[n - 1]
  BY <1>5, PicksUnfold, SMTT(20), ZenonT(20)
<1>7. \A n \in 1..len : n \in records <=> lines[n].kind = "record"
  BY <1>1
<1> HIDE DEF f, p, records
<1>8. right[0] \in yes
  <2>1. TraceRight(lines, f[0], p[0], 0)
    <3>1. TraceRight(lines, TraceStart, <<>>, 0)
      BY TraceStartsRight
    <3> QED BY <1>4, <1>6, <3>1
  <2> DEFINE true(n) == TraceRight(lines, f[n], p[n], n)
  <2>2. right = [n \in 0..len |-> true(n)] /\ 0 \in 0..len
    BY <1>1
  <2>3. true(0)
    BY <2>1
  <2> HIDE DEF true, right
  <2> QED BY <2>2, <2>3
<1>9. ASSUME NEW n \in 1..len, right[n - 1] \in yes PROVE right[n] \in yes
  <2>1. /\ n \in 0..len /\ n - 1 \in 0..len /\ n - 1 \in 0..len + 1 /\ n \in 0..len + 1
        /\ n \in 1..len + 1 /\ n \in 1..Len(lines)
    BY <1>1
  <2>2. TraceRight(lines, f[n - 1], p[n - 1], n - 1)
    BY <1>9, <2>1
  <2>3. /\ f[n - 1] \in [hops : Seq(H), hop : H] /\ f[n] \in [hops : Seq(H), hop : H]
        /\ TraceGoesOn(f[n - 1], lines[n], f[n])
    BY <1>2, <1>4, <2>1
  <2>4. p[n - 1] \in Seq(E)
    BY <1>6, <2>1
  <2>5. values[n] = lines[n].v /\ values[n] \in E
    BY <1>5, <2>1
  <2>6. p[n] = IF lines[n].kind = "record" THEN Append(p[n - 1], lines[n].v) ELSE p[n - 1]
    BY <1>6, <1>7, <2>5
  <2> HIDE DEF right
  <2>7. TraceRight(lines, f[n], IF lines[n].kind = "record" THEN Append(p[n - 1], lines[n].v) ELSE p[n - 1], n)
    BY <1>3, <2>1, <2>2, <2>3, <2>4, <2>5, TraceStaysRight
  <2>8. TraceRight(lines, f[n], p[n], n)
    BY <2>6, <2>7
  <2> QED BY <2>1, <2>8 DEF right
<1> HIDE DEF right, yes
<1>10. \A n \in 0..len : right[n] \in yes
  BY <1>1, <1>8, <1>9, InductionToLength
<1>11. TraceRight(lines, f[len], p[len], len)
  <2>1. right[len] \in yes
    BY <1>1, <1>10
  <2> QED BY <1>1, <2>1 DEF right, yes
<1> DEFINE last == f[len]
           end == f[len + 1]
<1>12. last.hops \in Seq(H) /\ last.hop \in H /\ last.hop.answers \in Seq(E)
  <2>1. last \in [hops : Seq(H), hop : H]
    BY <1>1, <1>4
  <2> QED BY <1>3, <2>1
<1>13. push_hop(end.hops, end.hop) = IF Tells(last.hop) THEN Append(last.hops, last.hop) ELSE last.hops
  <2>1. TraceGoesOn(last, Blank, end)
    <3>1. len + 1 \in 1..len + 1 /\ (len + 1) - 1 = len
      BY <1>1
    <3> QED BY <1>2, <1>4, <3>1
  <2>2. Blank.kind = "blank"
    BY DEF Blank, Line
  <2> HIDE DEF last, end
  <2>3. CASE Tells(last.hop)
    <3>1. end.hops = Append(last.hops, last.hop) /\ end.hop = NoHop
      BY <2>1, <2>2, <2>3 DEF TraceGoesOn
    <3>2. ~Tells(NoHop)
      BY DEF Tells, NoHop
    <3> QED BY <2>3, <3>1, <3>2 DEF push_hop, Tells
  <2>4. CASE ~Tells(last.hop)
    <3>1. end = last
      BY <2>1, <2>2, <2>4 DEF TraceGoesOn
    <3> QED BY <1>12, <2>4, <3>1 DEF push_hop, Tells
  <2> QED BY <2>3, <2>4
<1>14. /\ AnswersOf(last.hops) \in Seq(E)
       /\ AnswersOf(Append(last.hops, last.hop)) = AnswersOf(last.hops) \o last.hop.answers
  <2>1. \A hs \in Seq(H) : \A h \in H :
          /\ AnswersOf(hs) \in Seq(E)
          /\ AnswersOf(Append(hs, h)) = AnswersOf(hs) \o h.answers
    BY <1>3, AnswersOfOneMore
  <2> HIDE DEF last
  <2> QED BY <1>12, <2>1
<1>15. Firsts(lines) \cap (1..len) = Firsts(lines)
  BY <1>1 DEF Firsts, Telling
<1>16. /\ AnswersOf(last.hops) \o last.hop.answers = p[len]
       /\ Tells(last.hop) <=> InTold(lines, len + 1)
       /\ Len(last.hops) + (IF InTold(lines, len + 1) THEN 1 ELSE 0) = Cardinality(Firsts(lines))
  BY <1>11, <1>15 DEF TraceRight
<1> HIDE DEF last
<1>17. CASE Tells(last.hop)
  <2>1. Len(Append(last.hops, last.hop)) = Len(last.hops) + 1
    BY <1>12
  <2> QED BY <1>2, <1>6, <1>13, <1>14, <1>16, <1>17, <2>1 DEF f, values, records
<1>18. CASE ~Tells(last.hop)
  <2>1. last.hop.answers = <<>>
    BY <1>18 DEF Tells
  <2>2. \A s \in Seq(E) : s \o <<>> = s
    OBVIOUS
  <2>3. AnswersOf(last.hops) = p[len]
    BY <1>14, <1>16, <2>1, <2>2
  <2>4. Len(last.hops) \in Nat
    BY <1>12
  <2>5. Len(last.hops) = Cardinality(Firsts(lines))
    <3>1. ~InTold(lines, len + 1)
      BY <1>16, <1>18
    <3>2. Len(last.hops) + 0 = Cardinality(Firsts(lines))
      BY <1>16, <3>1
    <3> QED BY <2>4, <3>2
  <2> QED BY <1>2, <1>6, <1>13, <1>18, <2>3, <2>5 DEF f, values, records
<1> QED BY <1>17, <1>18

\* What parse_classic and parse_trace return of their last state.
LEMMA ClassicResult ==
  ASSUME NEW raw, parse_classic(raw).status = "finished"
  PROVE  LET shown == rewrite_classic(raw)
         IN  parse_classic(raw).answers = ClassicStates(shown)[Len(shown)].answers
BY DEF parse_classic, ClassicStates, ClassicStart, DnsFailed

\* Likewise of a trace.
LEMMA TraceResult ==
  ASSUME NEW raw, parse_trace(raw).status = "finished"
  PROVE  LET end == TraceStates(raw)[Len(raw)] IN parse_trace(raw).hops = push_hop(end.hops, end.hop)
BY DEF parse_trace, TraceStates, TraceStart

\* What dig prints of a trace.
TraceLines == DnsTraced \cup {DnsComment, Line("badpacket", "")}

\* All of them are such lines.
LEMMA TraceLinesAreTraces == \A l \in TraceLines : TraceLike(l)
<1>1. \A kind, v : /\ DOMAIN Line(kind, v) = {"kind", "v", "says"}
                   /\ Line(kind, v).says = <<"nothing">> /\ Line(kind, v).kind = kind
  BY DEF Line
<1>2. \A kind, v : TraceLike(Line(kind, v))
  BY <1>1 DEF TraceLike
<1>3. TraceLike(Saying(DnsComment, "received", [name |-> "ns", time |-> 3]))
  <2> DEFINE l == Saying(DnsComment, "received", [name |-> "ns", time |-> 3])
  <2>1. /\ DOMAIN l = {"kind", "v", "says"} /\ l.kind = "comment"
        /\ l.says = <<"received", [name |-> "ns", time |-> 3]>>
    BY DEF Saying, DnsComment, Line
  <2>2. l.says[2].name = "ns"
    BY <2>1
  <2> HIDE DEF l
  <2> QED BY <2>1, <2>2 DEF TraceLike, l
<1> QED BY <1>2, <1>3 DEF TraceLines, DnsTraced, DnsComment, DnsRecord, Blank

\* Dig prints no other lines.
LEMMA DigTracesLines == job.trace => DnsOutputs \subseteq Seq(TraceLines)
<1> SUFFICES ASSUME job.trace PROVE DnsOutputs \subseteq Seq(TraceLines)
  OBVIOUS
<1>1. DnsOutputs = {<<>>, BadPacket} \cup BoundedSeq(DnsTraced, 5)
  BY DEF DnsOutputs
<1>2. BoundedSeq(DnsTraced, 5) \subseteq Seq(TraceLines)
  <2>1. BoundedSeq(DnsTraced, 5) \subseteq Seq(DnsTraced)
    BY BoundedAreSequences
  <2>2. \A X, Y : X \subseteq Y => Seq(X) \subseteq Seq(Y)
    OBVIOUS
  <2>3. DnsTraced \subseteq TraceLines
    BY Zenon DEF TraceLines
  <2> QED BY <2>1, <2>2, <2>3
<1>3. BadPacket \in Seq(TraceLines)
  <2>1. DnsComment \in TraceLines /\ Line("badpacket", "") \in TraceLines
    BY Zenon DEF TraceLines
  <2>2. \A X : \A a, b \in X : <<a, b, b, b, b, b>> \in Seq(X)
    OBVIOUS
  <2> QED BY <2>1, <2>2, Zenon DEF BadPacket
<1>4. <<>> \in Seq(TraceLines)
  OBVIOUS
<1> QED BY <1>1, <1>2, <1>3, <1>4

\* What dig has still to print, and that what is told are its answers.
AnswersInv ==
  Is("dns") =>
    /\ job.trace => tool \in Seq(TraceLines)
    /\ ~job.trace => tool \in Seq(DnsLines)
    /\ DnsAnswersAreAnswers

\* Nothing is told at first.
LEMMA InitAnswers == Init => AnswersInv
<1> SUFFICES ASSUME Init PROVE AnswersInv
  OBVIOUS
<1>1. tool = <<>> /\ result.status = "none"
  BY DEF Init, Started, Nothing
<1>2. \A X : <<>> \in Seq(X)
  OBVIOUS
<1> QED BY <1>1, <1>2 DEF AnswersInv, DnsAnswersAreAnswers, Finished

\* The answers of a trace are its records, its hops its blocks.
LEMMA TraceTellsAnswers ==
  ASSUME tool \in Seq(TraceLines), job.trace, job' = job, read' = tool,
         result' = parse_trace(Append(tool, Blank))
  PROVE  DnsAnswersAreAnswers'
<1> SUFFICES ASSUME result'.status = "finished" PROVE DnsAnswersAreAnswers'
  BY DEF DnsAnswersAreAnswers, Finished
<1> DEFINE lines == tool
           raw == Append(lines, Blank)
           values == [i \in DOMAIN lines |-> lines[i].v]
           records == {i \in DOMAIN lines : lines[i].kind = "record"}
<1>1. result'.hops = push_hop(TraceStates(raw)[Len(raw)].hops, TraceStates(raw)[Len(raw)].hop)
  BY TraceResult
<1>2. AnswersOf(result'.hops) = Chosen(values, records) /\ Len(result'.hops) = Cardinality(Firsts(lines))
  <2> HIDE DEF raw
  <2>1. raw = Append(lines, Blank)
    BY DEF raw
  <2>2. \A l \in TraceLines : TraceLike(l)
    BY TraceLinesAreTraces
  <2> QED BY <1>1, <2>1, <2>2, TraceCollects
<1> DEFINE telling == records \cup {i \in DOMAIN lines : lines[i].says[1] = "received"}
           first(i) == ~\E k \in telling : k < i /\ \A m \in k + 1..i - 1 : lines[m].kind # "blank"
<1>3. Firsts(lines) = {i \in telling : first(i)}
  BY DEF Firsts, InTold, Telling
<1>4. FlattenSeq([h \in DOMAIN result'.hops |-> result'.hops[h].answers]) = Chosen(values, records)
  BY <1>2 DEF AnswersOf
<1>5. Len(result'.hops) = Cardinality({i \in telling : first(i)})
  BY <1>2, <1>3
<1> QED BY <1>4, <1>5 DEF DnsAnswersAreAnswers

\* The answers otherwise are the records of the section of the answers.
LEMMA ClassicTellsAnswers ==
  ASSUME tool \in Seq(DnsLines), ~job.trace, job' = job, read' = tool,
         result' = parse_classic(Append(tool, Blank))
  PROVE  DnsAnswersAreAnswers'
<1> SUFFICES ASSUME result'.status = "finished" PROVE DnsAnswersAreAnswers'
  BY DEF DnsAnswersAreAnswers, Finished
<1> DEFINE lines == tool
           raw == Append(lines, Blank)
           shown == rewrite_classic(raw)
           values == [i \in DOMAIN lines |-> lines[i].v]
           records == {i \in DOMAIN lines : lines[i].kind = "record"}
           inAnswer(i) == \E k \in 1..i - 1 :
             /\ lines[k] = Line("section", "answer")
             /\ \A m \in k + 1..i - 1 : lines[m].kind \notin {"blank", "section"}
<1>1. result'.answers = ClassicStates(shown)[Len(shown)].answers
  BY ClassicResult
<1>2. /\ raw \in Seq(DnsLines) /\ Len(raw) = Len(lines) + 1 /\ raw[Len(lines) + 1] = Blank
      /\ \A i \in 1..Len(lines) : raw[i] = lines[i]
      /\ Len(lines) \in Nat
  <2>1. Blank \in DnsLines
    BY Zenon DEF DnsLines, DnsBody
  <2>2. \A X : \A s \in Seq(X) : \A e \in X :
          /\ Append(s, e) \in Seq(X) /\ Len(Append(s, e)) = Len(s) + 1 /\ Append(s, e)[Len(s) + 1] = e
          /\ \A i \in 1..Len(s) : Append(s, e)[i] = s[i]
          /\ Len(s) \in Nat
    OBVIOUS
  <2> QED BY <2>1, <2>2
<1> HIDE DEF raw
<1>3. /\ Len(shown) = Len(raw) /\ shown \in Seq({shown[i] : i \in 1..Len(raw)})
      /\ \A i \in 1..Len(raw) : shown[i].kind = raw[i].kind /\ shown[i].v = raw[i].v
  BY <1>2, DnsLinesAreLines, RewriteKeeps
<1> HIDE DEF shown
<1>4. /\ Len(shown) = Len(lines) + 1 /\ shown[Len(lines) + 1].kind = "blank"
      /\ \A i \in 1..Len(lines) : shown[i].kind = lines[i].kind /\ shown[i].v = lines[i].v
  <2>1. Blank.kind = "blank"
    BY DEF Blank, Line
  <2>2. Len(lines) + 1 \in 1..Len(raw) /\ \A i \in 1..Len(lines) : i \in 1..Len(raw)
    BY <1>2
  <2> QED BY <1>2, <1>3, <2>1, <2>2
<1>5. ClassicStates(shown)[Len(shown)].answers = Chosen(values, AnswersIn(lines))
  BY <1>3, <1>4, DnsLinesAreLines, ClassicCollects
<1>6. AnswersIn(lines) = {i \in records : inAnswer(i)}
  BY DEF AnswersIn, InAnswer
<1>7. result'.answers = Chosen(values, {i \in records : inAnswer(i)})
  BY <1>1, <1>5, <1>6
<1> QED BY <1>7 DEF DnsAnswersAreAnswers

\* Every step keeps it so.
LEMMA NextAnswers == CheckedInv /\ AnswersInv /\ [Next]_vars => AnswersInv'
<1> SUFFICES ASSUME CheckedInv, AnswersInv, [Next]_vars PROVE AnswersInv'
  OBVIOUS
<1>1. job' = job /\ (Is("dns")' <=> Is("dns"))
  BY NextKeepsJob DEF Is
<1>2. CASE ~Is("dns")
  BY <1>1, <1>2 DEF AnswersInv
<1>3. ASSUME Is("dns"), tool' = tool, read' = read, result' = result \/ result'.status # "finished"
      PROVE  AnswersInv'
  <2>1. DnsAnswersAreAnswers'
    <3>1. CASE result'.status # "finished"
      BY <3>1 DEF DnsAnswersAreAnswers, Finished
    <3>2. CASE result' = result
      <4>1. DnsAnswersAreAnswers
        BY <1>3 DEF AnswersInv
      <4>2. (DnsAnswersAreAnswers)' <=> DnsAnswersAreAnswers
        BY <1>1, <1>3, <3>2 DEF DnsAnswersAreAnswers, Finished, Is
      <4> QED BY <4>1, <4>2
    <3> QED BY <1>3, <3>1, <3>2
  <2>2. job.trace' = job.trace
    BY <1>1
  <2> QED BY <1>1, <1>3, <2>1, <2>2 DEF AnswersInv
<1>4. CASE Is("dns") /\ DnsNext
  <2>1. CASE Reject("dns", DnsValid) \/ SpawnFails("dns", DnsValid) \/ ReadFails("dns")
    <3>1. tool' = tool /\ read' = read /\ result' = Failure
      BY <2>1 DEF Reject, SpawnFails, ReadFails, Return
    <3>2. result'.status # "finished"
      BY <3>1 DEF Failure
    <3> QED BY <1>3, <1>4, <3>1, <3>2
  <2>2. CASE Spawn("dns", DnsValid, DnsOutputs)
    <3>1. tool' \in DnsOutputs /\ read' = read /\ result' = result
      BY <2>2 DEF Spawn
    <3>2. /\ job.trace => tool' \in Seq(TraceLines)
          /\ ~job.trace => tool' \in Seq(DnsLines)
      BY <3>1, DigTracesLines, DigPrintsLines
    <3>3. DnsAnswersAreAnswers'
      BY <1>1, <1>4, <3>1 DEF AnswersInv, DnsAnswersAreAnswers, Finished, Is
    <3> QED BY <1>1, <3>2, <3>3 DEF AnswersInv
  <2>3. CASE DnsEnds
    <3>1. /\ tool' = <<>> /\ read' = tool
          /\ result' = IF job.trace THEN parse_trace(Append(tool, Blank)) ELSE parse_classic(Append(tool, Blank))
      BY <2>3 DEF DnsEnds, Return
    <3>2. DnsAnswersAreAnswers'
      BY <1>1, <1>4, <3>1, TraceTellsAnswers, ClassicTellsAnswers DEF AnswersInv
    <3>3. \A X : <<>> \in Seq(X)
      OBVIOUS
    <3> QED BY <1>1, <3>1, <3>2, <3>3 DEF AnswersInv
  <2> QED BY <1>4, <2>1, <2>2, <2>3 DEF DnsNext
<1>5. CASE Is("dns") /\ Drop
  <2>1. tool' = tool /\ read' = read /\ result' = TimedOut
    BY <1>5 DEF Drop, Return
  <2> QED BY <1>3, <1>5, <2>1 DEF TimedOut
<1>6. CASE Is("dns") /\ Emit
  <2>1. ~Is("http")
    BY <1>6 DEF Is
  <2>2. tool' = tool /\ read' = read /\ result' = result
    BY <1>6, <2>1 DEF Emit
  <2> QED BY <1>3, <1>6, <2>2
<1>7. CASE Is("dns") /\ UNCHANGED vars
  <2>1. tool' = tool /\ read' = read /\ result' = result
    BY <1>7 DEF vars
  <2> QED BY <1>3, <1>7, <2>1
<1>8. Next /\ Is("dns") => DnsNext \/ Drop \/ Emit
  BY OwnSteps DEF Is
<1> QED BY <1>2, <1>4, <1>5, <1>6, <1>7, <1>8

\* The answers a DNS result tells are the records of dig's answer section, and a
\* trace's hops are the blocks dig has printed, with every record in one of them
\* (parse_classic, parse_trace_hops).
THEOREM AnswersAreDigsAnswers == Spec => []DnsAnswersAreAnswers
<1>1. AnswersInv => DnsAnswersAreAnswers
  BY DEF AnswersInv, DnsAnswersAreAnswers, Finished
<1> QED BY <1>1, InitAnswers, NextAnswers, InitChecked, NextChecked, PTL DEF Spec

----------------------------------------------------------------------------
(* What is counted and what it is counted of *)

\* A duration in tenths, rounded, and how far that may be off.
Rounded(d) == Larger((d + 5) \div 10, 0)

LEMMA RoundedIsNear ==
  ASSUME NEW d \in Nat
  PROVE  Rounded(d) \in Nat /\ 10 * Rounded(d) <= d + 5 /\ d < 10 * Rounded(d) + 5
<1>1. PICK q \in Int, r \in 0..9 : d + 5 = 10 * q + r /\ q = (d + 5) \div 10
  OBVIOUS
<1>2. q >= 0
  BY <1>1
<1>3. Rounded(d) = q
  BY <1>1, <1>2 DEF Rounded, Larger
<1> QED BY <1>1, <1>2, <1>3

\* The times curl tells are in the order of what they tell of.
InOrder(t) ==
  /\ t.lookup \in Nat /\ t.connect \in Nat /\ t.start \in Nat /\ t.total \in Nat
  /\ t.lookup <= t.connect /\ t.connect <= t.start /\ t.start <= t.total
  /\ IsHttps => t.appconnect \in Nat /\ t.connect <= t.appconnect /\ t.appconnect <= t.start

\* The phases make up the time but for their rounding.
MakeUp(t) == (t.dns + t.tcp + t.tls + t.firstByte + t.download) - t.total \in -3..3

LEMMA PhasesMakeUpTheTime ==
  ASSUME NEW t, InOrder(t), NEW dns \in Nat
  PROVE  MakeUp(Phases(t, IsHttps, dns))
<1> DEFINE p == Phases(t, IsHttps, dns)
           connected == IF IsHttps THEN t.appconnect ELSE t.connect
           tls == IF IsHttps THEN Rounded(t.appconnect - t.connect) ELSE 0
<1>1. /\ p.total = dns + Rounded(t.total) /\ p.dns = dns
      /\ p.tcp = Rounded(t.connect - t.lookup) + Rounded(t.lookup)
      /\ p.tls = tls
      /\ p.firstByte = Rounded(t.start - connected) /\ p.download = Rounded(t.total - t.start)
  BY DEF Phases, Rounded
<1>2. t.connect - t.lookup \in Nat /\ t.total - t.start \in Nat /\ t.lookup \in Nat /\ t.total \in Nat
  BY DEF InOrder
<1>3. t.start - connected \in Nat
  BY DEF InOrder
<1>4. IsHttps => t.appconnect - t.connect \in Nat
  BY DEF InOrder
<1> DEFINE near(r, d) == r \in Nat /\ 10 * r <= d + 5 /\ d < 10 * r + 5
<1>5. /\ near(Rounded(t.connect - t.lookup), t.connect - t.lookup)
      /\ near(Rounded(t.total - t.start), t.total - t.start)
      /\ near(Rounded(t.lookup), t.lookup) /\ near(Rounded(t.total), t.total)
      /\ near(Rounded(t.start - connected), t.start - connected)
  BY <1>2, <1>3, RoundedIsNear
<1>6. IsHttps => near(Rounded(t.appconnect - t.connect), t.appconnect - t.connect)
  BY <1>4, RoundedIsNear
<1>7. t.lookup \in Nat /\ t.connect \in Nat /\ t.start \in Nat /\ t.total \in Nat
  BY DEF InOrder
<1> DEFINE a == Rounded(t.lookup)
           b == Rounded(t.connect - t.lookup)
           c == IF IsHttps THEN Rounded(t.appconnect - t.connect) ELSE 0
           d == Rounded(t.start - connected)
           e == Rounded(t.total - t.start)
           f == Rounded(t.total)
<1>10. /\ p.total = dns + f /\ p.dns = dns /\ p.tcp = b + a /\ p.tls = c
       /\ p.firstByte = d /\ p.download = e
  BY <1>1
<1>8. a + b + c + d + e - f \in -3..3 /\ a + b + c + d + e \in Nat /\ f \in Nat /\ c \in Nat
  <2>1. CASE IsHttps
    <3>1. t.appconnect \in Nat /\ connected = t.appconnect
      BY <2>1 DEF InOrder
    <3>2. /\ near(a, t.lookup) /\ near(b, t.connect - t.lookup) /\ near(c, t.appconnect - t.connect)
          /\ near(d, t.start - t.appconnect) /\ near(e, t.total - t.start) /\ near(f, t.total)
      BY <1>5, <1>6, <2>1, <3>1
    <3> HIDE DEF a, b, c, d, e, f
    <3> QED BY <1>7, <3>1, <3>2
  <2>2. CASE ~IsHttps
    <3>1. /\ near(a, t.lookup) /\ near(b, t.connect - t.lookup) /\ c = 0
          /\ near(d, t.start - t.connect) /\ near(e, t.total - t.start) /\ near(f, t.total)
      BY <1>5, <2>2
    <3> HIDE DEF a, b, c, d, e, f
    <3> QED BY <1>7, <3>1
  <2> QED BY <2>1, <2>2
<1>9. a \in Nat /\ b \in Nat /\ d \in Nat /\ e \in Nat
  BY <1>5
<1> HIDE DEF a, b, c, d, e, f, p
<1>11. (p.dns + p.tcp + p.tls + p.firstByte + p.download) - p.total \in -3..3
  <2>1. p.dns + p.tcp + p.tls + p.firstByte + p.download = dns + (b + a) + c + d + e
    BY <1>10
  <2>2. (dns + (b + a) + c + d + e) - (dns + f) \in -3..3
    BY <1>8, <1>9
  <2> QED BY <1>10, <2>1, <2>2
<1> QED BY <1>11 DEF MakeUp, p

\* What curl leaves tells times, in their order.
TellsTimes(p) == "times" \in DOMAIN p /\ p = [k \in DOMAIN p |-> p[k]] /\ InOrder(p.times)

LEMMA StillTellsTimes ==
  ASSUME NEW p, TellsTimes(p)
  PROVE  /\ \A x : TellsTimes([p EXCEPT !.remote = x]) /\ TellsTimes([p EXCEPT !.stats = x])
         /\ \A x : TellsTimes([p EXCEPT !.code = x]) /\ TellsTimes([p EXCEPT !.ssl = x])
         /\ \A x : TellsTimes([p EXCEPT !.verbose = x]) /\ TellsTimes([p EXCEPT !.version = x])
         /\ \A x : TellsTimes([p EXCEPT !.body = x]) /\ TellsTimes([p EXCEPT !.headers = x])
<1> DEFINE with(k, x) == [p EXCEPT ![k] = x]
<1>1. ASSUME NEW k, k # "times", NEW x PROVE TellsTimes(with(k, x))
  <2> DEFINE q == with(k, x)
  <2>1. DOMAIN q = DOMAIN p /\ q = [i \in DOMAIN q |-> q[i]] /\ q.times = p.times
    BY <1>1 DEF TellsTimes
  <2> HIDE DEF q
  <2> QED BY <2>1 DEF TellsTimes, q
<1>2. "remote" # "times" /\ "stats" # "times" /\ "code" # "times" /\ "ssl" # "times"
  OBVIOUS
<1>3. "verbose" # "times" /\ "version" # "times" /\ "body" # "times" /\ "headers" # "times"
  OBVIOUS
<1>4. \A x : /\ TellsTimes(with("remote", x)) /\ TellsTimes(with("stats", x))
             /\ TellsTimes(with("code", x)) /\ TellsTimes(with("ssl", x))
             /\ TellsTimes(with("verbose", x)) /\ TellsTimes(with("version", x))
             /\ TellsTimes(with("body", x)) /\ TellsTimes(with("headers", x))
  <2> HIDE DEF with
  <2> QED BY <1>1, <1>2, <1>3
<1> QED BY <1>4

LEMMA CurlTellsTimes == \A p \in CurlOutputs : TellsTimes(p)
<1> DEFINE status == [kind |-> "status", text |-> "OK"]
           header(key, bytes, value) == [kind |-> "header", key |-> key, bytes |-> bytes, value |-> value]
           interim == [kind |-> "status", text |-> "Early Hints"]
           times == [lookup |-> 5, connect |-> 20, appconnect |-> 55, start |-> 91, total |-> 102]
           early == [lookup |-> 5, connect |-> 10, appconnect |-> 15, start |-> 20, total |-> 25]
           bare == [lookup |-> 5, connect |-> 20, appconnect |-> 0, start |-> 91, total |-> 102]
           tls == <<[star |-> TRUE, sets |-> [cn |-> "name"]], [star |-> FALSE, sets |-> [cn |-> "noise"]],
                    [star |-> TRUE, sets |-> [protocol |-> "TLSv1.3", cipher |-> "cipher"]]>>
           first == <<status, header("a", 1, <<1>>)>>
           letters == <<"a", "a">>
           usual == [ stats |-> TRUE, code |-> 200, remote |-> NoIp, version |-> "1.1", ssl |-> 0, times |-> times,
                      verbose |-> tls, headers |-> first, body |-> letters ]
           values == {<<>>, <<2, 1>>, [i \in 1..4 |-> 1], [i \in 1..7 |-> 1], [i \in 1..4 |-> 2]}
           headers == {header("a", 1, v) : v \in values} \cup {header("b", 1, <<1>>), header("c", 14, <<1, 1, 1>>)}
           remotes == IF ConnectsTo(local.args) = NoIp THEN job.resolves ELSE {ConnectsTo(local.args)}
           bodies == BoundedSeq({"a", "lead", "trail", "x"}, 4)
           some == BoundedSeq(headers, 1)
           many == BoundedSeq(headers, 3)
           later == <<interim, status>>
           one == <<status>>
           connected == {[usual EXCEPT !.remote = ip] : ip \in {NoIp} \cup remotes}
           secure == {[usual EXCEPT !.stats = FALSE], [usual EXCEPT !.code = 0], [usual EXCEPT !.ssl = 1],
                      [usual EXCEPT !.verbose = Tail(tls)], [usual EXCEPT !.verbose = <<>>]}
           plain == {[usual EXCEPT !.version = "none"], [usual EXCEPT !.times.appconnect = 0]}
           large == {[usual EXCEPT !.body = b] : b \in bodies}
           followed == {[usual EXCEPT !.headers = later \o h] : h \in some}
           headed == {[usual EXCEPT !.headers = one \o h] : h \in many}
<1>1. CurlOutputs = connected \cup {[usual EXCEPT !.times = early]}
                    \cup IF IsHttps THEN secure ELSE plain \cup large \cup followed \cup headed
  BY DEF CurlOutputs
<1>2. InOrder(times) /\ InOrder(early) /\ (~IsHttps => InOrder(bare))
  BY DEF InOrder
<1>3. [usual EXCEPT !.times.appconnect = 0] = [usual EXCEPT !.times = bare]
  <2>1. [times EXCEPT !.appconnect = 0] = bare
    OBVIOUS
  <2>2. usual.times = times
    OBVIOUS
  <2> HIDE DEF times, bare, first, tls, letters
  <2> QED BY <2>1, <2>2
<1> HIDE DEF times, early, bare, first, tls, letters, bodies, some, many, later, one, remotes
<1>4. ASSUME NEW t PROVE
        /\ [usual EXCEPT !.times = t].times = t
        /\ "times" \in DOMAIN [usual EXCEPT !.times = t]
        /\ [usual EXCEPT !.times = t] = [k \in DOMAIN [usual EXCEPT !.times = t] |-> [usual EXCEPT !.times = t][k]]
  OBVIOUS
<1>5. TellsTimes(usual)
  BY <1>2 DEF TellsTimes
<1>6. TellsTimes([usual EXCEPT !.times = early]) /\ (~IsHttps => TellsTimes([usual EXCEPT !.times = bare]))
  <2> HIDE DEF usual
  <2> QED BY <1>2, <1>4 DEF TellsTimes
<1> HIDE DEF usual
<1>7. /\ \A x : TellsTimes([usual EXCEPT !.remote = x]) /\ TellsTimes([usual EXCEPT !.stats = x])
      /\ \A x : TellsTimes([usual EXCEPT !.code = x]) /\ TellsTimes([usual EXCEPT !.ssl = x])
      /\ \A x : TellsTimes([usual EXCEPT !.verbose = x]) /\ TellsTimes([usual EXCEPT !.version = x])
      /\ \A x : TellsTimes([usual EXCEPT !.body = x]) /\ TellsTimes([usual EXCEPT !.headers = x])
  BY <1>5, StillTellsTimes
<1>8. /\ \A p \in connected : TellsTimes(p)
      /\ \A p \in secure : TellsTimes(p)
      /\ \A p \in large : TellsTimes(p)
      /\ \A p \in followed : TellsTimes(p)
      /\ \A p \in headed : TellsTimes(p)
  BY <1>7, Zenon
<1>9. ~IsHttps => \A p \in plain : TellsTimes(p)
  BY <1>3, <1>6, <1>7, ZenonT(30)
<1> HIDE DEF connected, secure, plain, large, followed, headed
<1> QED BY <1>1, <1>6, <1>8, <1>9

\* A result whose phases make up its time, however it is changed elsewhere.
Measured(r) ==
  /\ r = [k \in DOMAIN r |-> r[k]] /\ {"status", "timings", "tls", "raw"} \subseteq DOMAIN r
  /\ MakeUp(r.timings)

LEMMA StillMeasured ==
  ASSUME NEW r, Measured(r), NEW x
  PROVE  Measured([r EXCEPT !.tls = x]) /\ Measured([r EXCEPT !.raw = x])
<1> DEFINE q == [r EXCEPT !.tls = x]
           p == [r EXCEPT !.raw = x]
<1>1. DOMAIN q = DOMAIN r /\ q = [k \in DOMAIN q |-> q[k]] /\ q.timings = r.timings
  BY DEF Measured
<1>2. DOMAIN p = DOMAIN r /\ p = [k \in DOMAIN p |-> p[k]] /\ p.timings = r.timings
  BY DEF Measured
<1> HIDE DEF q, p
<1> QED BY <1>1, <1>2 DEF Measured, q, p

\* dig's time is known when curl runs, and the phases of a result make up its time.
HttpCounts ==
  Is("http") =>
    /\ pc = "curl" => local.dns \in Nat
    /\ pc \in {"s_client", "x509"} => Measured(local.result)
    /\ result.status = "finished" => Measured(result)

LEMMA InitHttpCounts == Init => HttpCounts
BY DEF Init, Started, HttpCounts, Nothing

\* What has curl's output read makes the result, or the result s_client adds to.
LEMMA CurlIsMeasured == HttpCounts /\ [Next]_vars /\ Is("http") /\ CurlEnds(CurlOutputs) => HttpCounts'
<1> SUFFICES ASSUME HttpCounts, [Next]_vars, Is("http"), CurlEnds(CurlOutputs) PROVE HttpCounts'
  OBVIOUS
<1>1. PICK printed, out :
        /\ printed \in CurlOutputs
        /\ out = [ printed EXCEPT !.headers = IF "headers" \in files THEN @ ELSE <<>>,
                                  !.body = IF "body" \in files THEN read_capped(@, BODY_LIMIT) ELSE <<>> ]
        /\ \/ \E note : Return(HttpFailed(note)) /\ UNCHANGED local
           \/ \E h \in truncate_headers(parse_header_file(out.headers)) :
                \/ Return([status |-> "panicked"]) /\ UNCHANGED local
                \/ Return(HttpResult(out, h)) /\ UNCHANGED local
                \/ /\ pc' = "s_client" /\ result' = result
                   /\ local' = [result |-> HttpResult(out, h), limit |-> 10]
  BY SMTT(20), ZenonT(20) DEF CurlEnds
<1>2. pc = "curl" /\ local.dns \in Nat
  BY DEF CurlEnds, HttpCounts
<1>3. InOrder(out.times)
  <2> DEFINE head == IF "headers" \in files THEN printed.headers ELSE <<>>
             body == IF "body" \in files THEN read_capped(printed.body, BODY_LIMIT) ELSE <<>>
  <2>1. out = [printed EXCEPT !.headers = head, !.body = body]
    BY <1>1
  <2>2. TellsTimes(printed)
    BY <1>1, CurlTellsTimes
  <2> HIDE DEF head, body
  <2>3. out.times = printed.times
    BY <2>1, <2>2 DEF TellsTimes
  <2> QED BY <2>2, <2>3 DEF TellsTimes
<1>4. \A h : Measured(HttpResult(out, h)) /\ HttpResult(out, h).status = "finished"
  <2> SUFFICES ASSUME NEW h PROVE Measured(HttpResult(out, h)) /\ HttpResult(out, h).status = "finished"
    OBVIOUS
  <2> DEFINE phases == Phases(out.times, IsHttps, local.dns)
  <2>1. MakeUp(phases)
    BY <1>2, <1>3, PhasesMakeUpTheTime
  <2> HIDE DEF phases
  <2>2. /\ HttpResult(out, h).timings = phases /\ HttpResult(out, h).status = "finished"
        /\ HttpResult(out, h) = [k \in DOMAIN HttpResult(out, h) |-> HttpResult(out, h)[k]]
        /\ {"status", "timings", "tls", "raw"} \subseteq DOMAIN HttpResult(out, h)
    BY DEF HttpResult, phases
  <2> QED BY <2>1, <2>2 DEF Measured
<1>5. CASE \E note : Return(HttpFailed(note))
  <2>1. pc' = "done" /\ result'.status # "finished"
    BY <1>5 DEF Return, HttpFailed
  <2> QED BY <2>1 DEF HttpCounts
<1>6. CASE Return([status |-> "panicked"])
  <2>1. pc' = "done" /\ result'.status # "finished"
    BY <1>6 DEF Return
  <2> QED BY <2>1 DEF HttpCounts
<1>7. ASSUME NEW h, Return(HttpResult(out, h)) PROVE HttpCounts'
  <2>1. pc' = "done" /\ Measured(result')
    BY <1>4, <1>7 DEF Return
  <2> QED BY <2>1 DEF HttpCounts
<1>8. ASSUME NEW h, pc' = "s_client", result' = result, local' = [result |-> HttpResult(out, h), limit |-> 10]
      PROVE  HttpCounts'
  <2>1. Measured(local'.result)
    BY <1>4, <1>8
  <2>2. result.status = "finished" => Measured(result')
    BY <1>8 DEF HttpCounts
  <2> QED BY <1>8, <2>1, <2>2 DEF HttpCounts
<1> QED BY <1>1, <1>5, <1>6, <1>7, <1>8

\* Every step of an HTTP run keeps that.
LEMMA HttpKeepsCounts == HttpCounts /\ [Next]_vars /\ Is("http") /\ HttpNext => HttpCounts'
<1> SUFFICES ASSUME HttpCounts, [Next]_vars, Is("http"), HttpNext PROVE HttpCounts'
  OBVIOUS
<1>1. CASE Reject("http", HttpValid) \/ HttpUnresolved \/ CurlFails
  <2>1. pc' = "done" /\ result' = Failure
    BY <1>1 DEF Reject, HttpUnresolved, CurlFails, CurlGone, Return
  <2> QED BY <2>1 DEF HttpCounts, Failure
<1>2. CASE HttpResolve
  <2>1. result' = result /\ (pc' = "dig" \/ (pc' = "curl" /\ local'.dns = 0))
    BY <1>2 DEF HttpResolve, Curl
  <2> QED BY <2>1 DEF HttpCounts
<1>3. CASE HttpResolved
  <2>1. \/ pc' = "done" /\ result' = Failure
        \/ pc' = "curl" /\ result' = result /\ \E ip : local' = Curl(ip, 1)
    BY <1>3 DEF HttpResolved, Return
  <2>2. \A ip : Curl(ip, 1).dns = 1
    BY DEF Curl
  <2>3. CASE pc' = "done" /\ result' = Failure
    BY <2>3 DEF HttpCounts, Failure
  <2>4. CASE pc' = "curl" /\ result' = result /\ \E ip : local' = Curl(ip, 1)
    <3>1. local'.dns = 1
      BY <2>2, <2>4
    <3> QED BY <2>4, <3>1 DEF HttpCounts
  <2> QED BY <2>1, <2>3, <2>4
<1>4. CASE CurlWrites
  BY <1>4 DEF CurlWrites, HttpCounts
<1>5. CASE CurlEnds(CurlOutputs)
  BY <1>5, CurlIsMeasured
<1>6. CASE SClient
  <2>1. Measured(local.result)
    BY <1>6 DEF SClient, HttpCounts
  <2>2. PICK r :
          /\ r = local.result \/ \E v : r = [local.result EXCEPT !.tls.authorized = v]
          /\ \/ pc' = "x509" /\ local' = [result |-> r, limit |-> 4] /\ result' = result
             \/ Return(r)
    BY <1>6 DEF SClient
  <2>3. \A v : [local.result EXCEPT !.tls.authorized = v]
                 = [local.result EXCEPT !.tls = [local.result.tls EXCEPT !.authorized = v]]
    OBVIOUS
  <2>4. Measured(r)
    <3>1. \A x : Measured([local.result EXCEPT !.tls = x])
      BY <2>1, StillMeasured
    <3>2. CASE r = local.result
      BY <2>1, <3>2
    <3>3. CASE \E v : r = [local.result EXCEPT !.tls.authorized = v]
      <4>1. PICK v : r = [local.result EXCEPT !.tls.authorized = v]
        BY <3>3
      <4>2. r = [local.result EXCEPT !.tls = [local.result.tls EXCEPT !.authorized = v]]
        BY <2>3, <4>1
      <4> QED BY <3>1, <4>2
    <3> QED BY <2>2, <3>2, <3>3
  <2>5. CASE pc' = "x509" /\ local' = [result |-> r, limit |-> 4] /\ result' = result
    BY <2>4, <2>5 DEF HttpCounts
  <2>6. CASE Return(r)
    BY <2>4, <2>6 DEF HttpCounts, Return
  <2> QED BY <2>2, <2>5, <2>6
<1>7. CASE X509
  <2>1. Measured(local.result)
    BY <1>7 DEF X509, HttpCounts
  <2>2. PICK x : Return([local.result EXCEPT !.tls = x])
    BY <1>7 DEF X509
  <2>3. pc' = "done" /\ Measured(result')
    BY <2>1, <2>2, StillMeasured DEF Return
  <2> QED BY <2>3 DEF HttpCounts
<1> QED BY <1>1, <1>2, <1>3, <1>4, <1>5, <1>6, <1>7 DEF HttpNext

\* Numbers have a lowest and a highest, which are among them.
LEMMA ExtremesExist ==
  ASSUME NEW s \in Seq(Int), s # <<>>
  PROVE  /\ \E i \in 1..Len(s) : Lowest(s) = s[i]
         /\ \E i \in 1..Len(s) : Highest(s) = s[i]
         /\ \A i \in 1..Len(s) : Lowest(s) <= s[i] /\ s[i] <= Highest(s)
         /\ Lowest(s) \in Int /\ Highest(s) \in Int /\ Lowest(s) <= Highest(s)
<1> DEFINE len == Len(s)
           least(i, n) == \A k \in 1..n : s[i] <= s[k]
           most(i, n) == \A k \in 1..n : s[k] <= s[i]
           both(n) == n > 0 => (\E i \in 1..n : least(i, n)) /\ (\E i \in 1..n : most(i, n))
           right == {n \in 0..len : both(n)}
<1>1. len \in Nat /\ len > 0 /\ len \in 0..len /\ 0 \in 0..len /\ \A n \in 1..len : s[n] \in Int
  OBVIOUS
<1> HIDE DEF len
<1>2. both(0)
  OBVIOUS
<1>3. 0 \in right
  <2> HIDE DEF both
  <2> QED BY <1>1, <1>2
<1>4. ASSUME NEW n \in 1..len, n - 1 \in right PROVE n \in right
  <2>1. n \in Nat /\ n >= 1 /\ n - 1 \in 0..len /\ n \in 0..len /\ s[n] \in Int
    BY <1>1
  <2>2. both(n - 1)
    <3> HIDE DEF both
    <3> QED BY <1>4, <2>1
  <2>3. CASE n = 1
    <3>1. n \in 1..n /\ \A k \in 1..n : k = n
      BY <2>3
    <3>2. least(n, n) /\ most(n, n)
      BY <2>1, <3>1
    <3> HIDE DEF least, most
    <3>3. both(n)
      BY <3>1, <3>2
    <3> HIDE DEF both
    <3> QED BY <2>1, <3>3
  <2>4. CASE n > 1
    <3>1. PICK i \in 1..n - 1, j \in 1..n - 1 : least(i, n - 1) /\ most(j, n - 1)
      BY <2>1, <2>2, <2>4
    <3>2. \A k \in 1..n : k = n \/ k \in 1..n - 1
      BY <2>1
    <3>3. \A k \in 1..n - 1 : k \in 1..n /\ s[k] \in Int
      BY <1>1, <2>1
    <3>4. least(i, n) \/ least(n, n)
      <4>1. s[i] \in Int /\ \A k \in 1..n - 1 : s[i] <= s[k]
        BY <3>1, <3>3
      <4>2. CASE s[i] <= s[n]
        BY <3>2, <4>1, <4>2
      <4>3. CASE s[n] <= s[i]
        <5>1. \A k \in 1..n - 1 : s[n] <= s[k]
          BY <2>1, <3>3, <4>1, <4>3
        <5> QED BY <2>1, <3>2, <5>1
      <4> QED BY <2>1, <4>1, <4>2, <4>3
    <3>5. most(j, n) \/ most(n, n)
      <4>1. s[j] \in Int /\ \A k \in 1..n - 1 : s[k] <= s[j]
        BY <3>1, <3>3
      <4>2. CASE s[n] <= s[j]
        BY <3>2, <4>1, <4>2
      <4>3. CASE s[j] <= s[n]
        <5>1. \A k \in 1..n - 1 : s[k] <= s[n]
          BY <2>1, <3>3, <4>1, <4>3
        <5> QED BY <2>1, <3>2, <5>1
      <4> QED BY <2>1, <4>1, <4>2, <4>3
    <3>6. both(n)
      <4>1. i \in 1..n /\ j \in 1..n /\ n \in 1..n
        BY <2>1, <3>3
      <4> HIDE DEF least, most
      <4> QED BY <3>4, <3>5, <4>1
    <3> HIDE DEF both
    <3> QED BY <2>1, <3>6
  <2>5. both(n) => n \in right
    <3> HIDE DEF both
    <3> QED BY <2>1
  <2> QED BY <2>1, <2>3, <2>4, <2>5
<1> HIDE DEF right, both
<1>5. \A n \in 0..len : n \in right
  BY <1>1, <1>3, <1>4, InductionUpTo
<1>6. both(len)
  BY <1>1, <1>5 DEF right
<1>7. PICK i \in 1..len, j \in 1..len : least(i, len) /\ most(j, len)
  BY <1>1, <1>6 DEF both
<1>8. ToSet(s) = {s[k] : k \in 1..len}
  BY DEF ToSet, len
<1>9. s[i] \in ToSet(s) /\ \A y \in ToSet(s) : s[i] <= y
  BY <1>7, <1>8
<1>10. s[j] \in ToSet(s) /\ \A y \in ToSet(s) : s[j] >= y
  BY <1>1, <1>7, <1>8
<1>11. Lowest(s) \in ToSet(s) /\ \A y \in ToSet(s) : Lowest(s) <= y
  BY <1>9 DEF Lowest
<1>12. Highest(s) \in ToSet(s) /\ \A y \in ToSet(s) : Highest(s) >= y
  BY <1>10 DEF Highest
<1>13. (\E k \in 1..len : Lowest(s) = s[k]) /\ (\E k \in 1..len : Highest(s) = s[k])
  BY <1>8, <1>11, <1>12
<1>14. \A k \in 1..len : Lowest(s) <= s[k] /\ Highest(s) >= s[k]
  BY <1>8, <1>11, <1>12
<1>15. Lowest(s) \in Int /\ Highest(s) \in Int
  BY <1>1, <1>13
<1>16. \A k \in 1..len : s[k] <= Highest(s)
  BY <1>1, <1>14, <1>15
<1>17. Lowest(s) <= Highest(s)
  BY <1>1, <1>7, <1>14, <1>15, <1>16
<1> QED BY <1>13, <1>14, <1>15, <1>16, <1>17 DEF len

\* Times are all but those of lost probes.
Answered(timings) == {i \in DOMAIN timings : timings[i] # NoTime}

\* The times received are as many as there are, and none is missing.
LEMMA ReceivedTimes ==
  ASSUME NEW timings \in Seq(Nat \cup {NoTime})
  PROVE  /\ Received(timings) \in Seq(Nat)
         /\ Len(Received(timings)) = Cardinality(Answered(timings))
<1> DEFINE E == Nat \cup {NoTime}
           places == Answered(timings)
<1>1. \A i \in 1..Len(timings) : timings[i] \in E
  OBVIOUS
<1>2. \A i \in 1..Len(timings) : i \in places => timings[i] \in Nat
  BY <1>1 DEF Answered
<1>3. places \cap (1..Len(timings)) = places /\ timings \in Seq(E)
  BY DEF Answered
<1>4. Received(timings) = Chosen(timings, places)
  BY DEF Received, Answered
<1> HIDE DEF places, E
<1>5. Chosen(timings, places) \in Seq(Nat)
  BY <1>2, <1>3, ChosenAt
<1>6. Len(Chosen(timings, places)) = Cardinality(places \cap (1..Len(timings)))
  BY <1>3, ChosenCount
<1> QED BY <1>3, <1>4, <1>5, <1>6 DEF places

\* A factor may be left out of an inequality.
LEMMA FactorsCancel ==
  ASSUME NEW a \in Int, NEW b \in Int, NEW d \in Nat, d > 0
  PROVE  (a * d <= b * d => a <= b) /\ (a * d < b * d => a < b)
<1>1. ASSUME a >= b + 1 PROVE a * d >= b * d + d
  <2>1. a - b - 1 \in Nat /\ (a - b - 1) * d \in Nat
    BY <1>1
  <2>2. (a - b - 1) * d = a * d - b * d - d
    OBVIOUS
  <2> QED BY <2>1, <2>2
<1>2. a * d \in Int /\ b * d \in Int
  OBVIOUS
<1>3. ASSUME a = b PROVE a * d = b * d
  BY <1>3
<1> QED BY <1>1, <1>2, <1>3

\* What r1 makes of a fraction: a multiple of ten, five off at most.
LEMMA R1Rounds ==
  ASSUME NEW n \in Nat, NEW d \in Nat, d > 0
  PROVE  \E q \in Int : /\ r1(n, d) = 10 * q
                        /\ (10 * q) * d <= n + 5 * d
                        /\ n < (10 * q) * d + 5 * d
<1> DEFINE k == 10 * d
           m == n + 5 * d
           q == m \div k
<1>1. k \in Nat /\ k > 0 /\ m \in Nat
  OBVIOUS
<1>2. \A x \in Nat, y \in Nat : y > 0 => x \div y \in Int /\ y * (x \div y) <= x /\ x < y * (x \div y) + y
  OBVIOUS
<1>3. q \in Int /\ k * q <= m /\ m < k * q + k
  <2> HIDE DEF k, m
  <2> QED BY <1>1, <1>2
<1>4. k * q = (10 * q) * d
  <2>1. \A x \in Int : (10 * d) * x = (10 * x) * d
    OBVIOUS
  <2> HIDE DEF q
  <2> QED BY <1>3, <2>1
<1>5. r1(n, d) = 10 * q
  BY DEF r1
<1>6. (10 * q) * d \in Int
  BY <1>3
<1> HIDE DEF q
<1> QED BY <1>3, <1>4, <1>5, <1>6

\* A rounded average lies between the bounds of what it is of, but for rounding,
\* and between the rounded bounds.
LEMMA R1Between ==
  ASSUME NEW n \in Nat, NEW d \in Nat, d > 0, NEW lo \in Nat, NEW hi \in Nat, lo * d <= n, n <= hi * d
  PROVE  /\ r1(n, d) \in Int
         /\ lo - 5 <= r1(n, d) /\ r1(n, d) <= hi + 5
         /\ r1(lo, 1) <= r1(n, d) /\ r1(n, d) <= r1(hi, 1)
<1>0. ASSUME NEW x \in Nat
      PROVE  \E q \in Int : r1(x, 1) = 10 * q /\ 10 * q <= x + 5 /\ x < 10 * q + 5
  <2> DEFINE one == 1
  <2>1. one \in Nat /\ one > 0
    OBVIOUS
  <2> HIDE DEF one
  <2>2. PICK q \in Int : r1(x, one) = 10 * q /\ (10 * q) * one <= x + 5 * one /\ x < (10 * q) * one + 5 * one
    BY <2>1, R1Rounds
  <2>3. r1(x, 1) = 10 * q /\ (10 * q) * 1 <= x + 5 * 1 /\ x < (10 * q) * 1 + 5 * 1
    BY <2>2 DEF one
  <2>4. 10 * q <= x + 5 /\ x < 10 * q + 5
    BY <2>3
  <2> QED BY <2>3, <2>4
<1>1. PICK q \in Int : r1(n, d) = 10 * q /\ (10 * q) * d <= n + 5 * d /\ n < (10 * q) * d + 5 * d
  BY R1Rounds
<1>2. PICK a \in Int : r1(lo, 1) = 10 * a /\ 10 * a <= lo + 5 /\ lo < 10 * a + 5
  BY <1>0
<1>3. PICK b \in Int : r1(hi, 1) = 10 * b /\ 10 * b <= hi + 5 /\ hi < 10 * b + 5
  BY <1>0
<1>4. 10 * a <= lo + 5 /\ lo < 10 * a + 5 /\ 10 * b <= hi + 5 /\ hi < 10 * b + 5
  BY <1>2, <1>3
<1>5. /\ (10 * q) * d \in Int /\ lo * d \in Int /\ hi * d \in Int /\ 10 * q \in Int
      /\ (10 * q - 5) * d = (10 * q) * d - 5 * d /\ (10 * q + 5) * d = (10 * q) * d + 5 * d
  OBVIOUS
<1>6. lo * d < (10 * q + 5) * d /\ (10 * q - 5) * d <= hi * d
  BY <1>1, <1>5
<1>7. lo < 10 * q + 5 /\ 10 * q - 5 <= hi
  BY <1>5, <1>6, FactorsCancel
<1>8. 10 * a < 10 * q + 10 /\ 10 * q < 10 * b + 10
  BY <1>4, <1>7
<1> QED BY <1>1, <1>2, <1>3, <1>7, <1>8

\* Products grow with their factors.
LEMMA SquaresGrow ==
  ASSUME NEW a \in Nat, NEW b \in Nat
  PROVE  (a <= b => a * a <= b * b) /\ (a * a <= b * b => a <= b)
<1>1. ASSUME NEW x \in Nat, NEW y \in Nat, x <= y PROVE x * x <= y * y
  <2>1. y - x \in Nat /\ (y - x) * (y + x) \in Nat
    BY <1>1
  <2>2. (y - x) * (y + x) = y * y - x * x
    OBVIOUS
  <2> QED BY <2>1, <2>2
<1>2. ASSUME b < a PROVE b * b < a * a
  <2>1. a - b \in Nat /\ a - b > 0 /\ a + b \in Nat /\ a + b > 0
    BY <1>2
  <2>2. \A x \in Nat, y \in Nat : x > 0 /\ y > 0 => x * y > 0
    OBVIOUS
  <2>3. (a - b) * (a + b) > 0
    BY <2>1, <2>2
  <2>4. (a - b) * (a + b) = a * a - b * b
    OBVIOUS
  <2> QED BY <2>3, <2>4
<1>3. a * a \in Nat /\ b * b \in Nat
  OBVIOUS
<1> QED BY <1>1, <1>2, <1>3

\* RootOf finds a root, which is no more than half a step above the root of a bound.
LEMMA RootIsBounded ==
  ASSUME NEW n \in Nat, NEW d \in Nat, d > 0, NEW D \in Nat, n <= (D * D) * d
  PROVE  RootOf(n, d) \in Nat /\ RootOf(n, d) <= D + 5
<1> DEFINE low(s) == s > 0 => 25 * (2 * s - 1) * (2 * s - 1) * d <= n
           high(s) == n < 25 * (2 * s + 1) * (2 * s + 1) * d
           good == \E s \in 0..n : low(s) /\ high(s)
           reached(k) == good \/ low(k)
           right == {k \in 0..n : reached(k)}
<1>1. low(0)
  OBVIOUS
<1>2. ASSUME NEW s \in Nat, s + 1 \in 0..n, low(s), ~low(s + 1) PROVE good
  <2>1. 2 * (s + 1) - 1 = 2 * s + 1
    OBVIOUS
  <2>2. 25 * (2 * s + 1) * (2 * s + 1) * d \in Int
    OBVIOUS
  <2>3. high(s)
    BY <1>2, <2>1, <2>2
  <2>4. s \in 0..n
    BY <1>2
  <2> HIDE DEF low, high
  <2> QED BY <1>2, <2>3, <2>4
<1>3. high(n)
  <2>1. \A x \in Nat : x > 0 => x * d > 0 /\ x * d >= x
    <3> SUFFICES ASSUME NEW x \in Nat, x > 0 PROVE x * d >= x
      OBVIOUS
    <3>1. d - 1 \in Nat /\ x * (d - 1) \in Nat /\ x * (d - 1) = x * d - x
      OBVIOUS
    <3> QED BY <3>1
  <2> DEFINE m == 2 * n + 1
             w == 25 * m * m
  <2>2. m \in Nat /\ m > n /\ m >= 1
    OBVIOUS
  <2>3. w \in Nat /\ w >= m /\ w > 0
    <3> HIDE DEF m
    <3>1. m * m >= m /\ m * m \in Nat
      <4>1. (m - 1) * m \in Nat /\ (m - 1) * m = m * m - m
        BY <2>2
      <4> QED BY <2>2, <4>1
    <3>2. w = 25 * (m * m)
      BY <2>2
    <3> HIDE DEF w
    <3> QED BY <2>2, <3>1, <3>2
  <2>4. w * d >= w /\ w * d \in Nat
    <3> HIDE DEF w
    <3> QED BY <2>1, <2>3
  <2>5. n < w * d
    <3> HIDE DEF w, m
    <3> QED BY <2>2, <2>3, <2>4
  <2> QED BY <2>5
<1> HIDE DEF low, high
<1>4. n \in 0..n /\ 0 \in 0..n
  OBVIOUS
<1>5. 0 \in right
  <2>1. reached(0)
    BY <1>1
  <2> HIDE DEF reached
  <2> QED BY <1>4, <2>1
<1>6. ASSUME NEW k \in 1..n, k - 1 \in right PROVE k \in right
  <2>1. k \in 0..n /\ k - 1 \in 0..n /\ k - 1 \in Nat /\ (k - 1) + 1 = k
    OBVIOUS
  <2>2. reached(k - 1)
    <3> HIDE DEF reached
    <3> QED BY <1>6, <2>1
  <2>3. low(k - 1) /\ ~low(k) => good
    <3> HIDE DEF good
    <3> QED BY <1>2, <2>1
  <2>4. reached(k)
    <3> HIDE DEF good
    <3> QED BY <2>2, <2>3
  <2> HIDE DEF reached
  <2> QED BY <2>1, <2>4
<1> HIDE DEF right
<1>7. \A k \in 0..n : k \in right
  BY <1>5, <1>6, InductionUpTo
<1>8. good
  <2>1. reached(n)
    <3> HIDE DEF reached
    <3> QED BY <1>4, <1>7 DEF right
  <2> QED BY <1>3, <1>4, <2>1
<1> DEFINE root == CHOOSE s \in 0..n : low(s) /\ high(s)
<1>9. root \in 0..n /\ low(root)
  BY <1>8
<1>10. RootOf(n, d) = 10 * root
  BY DEF RootOf, root, low, high
<1> HIDE DEF root
<1>11. 10 * root <= D + 5
  <2>1. CASE root = 0
    BY <2>1
  <2>2. CASE root > 0
    <3> DEFINE m == 5 * (2 * root - 1)
    <3>1. root \in Nat /\ m \in Nat
      BY <1>9, <2>2
    <3>2. 25 * (2 * root - 1) * (2 * root - 1) * d = (m * m) * d
      <4>1. 25 * (2 * root - 1) * (2 * root - 1) = m * m
        BY <3>1
      <4> HIDE DEF m
      <4> QED BY <4>1
    <3>3. 25 * (2 * root - 1) * (2 * root - 1) * d <= n
      BY <1>9, <2>2 DEF low
    <3> HIDE DEF m
    <3>4. (m * m) * d \in Int /\ (D * D) * d \in Int /\ m * m \in Int /\ D * D \in Int
      BY <3>1
    <3>5. (m * m) * d <= (D * D) * d
      BY <3>2, <3>3, <3>4
    <3>6. m * m <= D * D
      BY <3>4, <3>5, FactorsCancel
    <3>7. m <= D
      BY <3>1, <3>6, SquaresGrow
    <3> QED BY <3>1, <3>7 DEF m
  <2> QED BY <1>9, <2>1, <2>2
<1> QED BY <1>9, <1>10, <1>11

\* What a hop's statistics agree with.
InStats(st) ==
  /\ st.drop + st.rcv = st.total
  /\ st.min <= st.max
  /\ st.min - 5 <= st.avg /\ st.avg <= st.max + 5
  /\ st.jMin <= st.jAvg /\ st.jAvg <= st.jMax
  /\ st.stDev <= st.max - st.min + 10

\* The average of times lies between the lowest and the highest, but for rounding.
LEMMA AverageBetween ==
  ASSUME NEW s \in Seq(Nat), s # <<>>
  PROVE  /\ Average(s) \in Int /\ Lowest(s) \in Nat /\ Highest(s) \in Nat /\ Lowest(s) <= Highest(s)
         /\ \A i \in 1..Len(s) : Lowest(s) <= s[i] /\ s[i] <= Highest(s)
         /\ Lowest(s) - 5 <= Average(s) /\ Average(s) <= Highest(s) + 5
         /\ r1(Lowest(s), 1) <= Average(s) /\ Average(s) <= r1(Highest(s), 1)
<1>1. s \in Seq(Int) /\ Len(s) \in Nat /\ Len(s) > 0 /\ \A i \in 1..Len(s) : s[i] \in Nat
  OBVIOUS
<1>2. /\ \E i \in 1..Len(s) : Lowest(s) = s[i]
      /\ \E i \in 1..Len(s) : Highest(s) = s[i]
      /\ \A i \in 1..Len(s) : Lowest(s) <= s[i] /\ s[i] <= Highest(s)
      /\ Lowest(s) \in Int /\ Highest(s) \in Int /\ Lowest(s) <= Highest(s)
  BY <1>1, ExtremesExist
<1>3. Lowest(s) \in Nat /\ Highest(s) \in Nat
  BY <1>1, <1>2
<1>4. Total(s) \in Nat /\ Lowest(s) * Len(s) <= Total(s) /\ Total(s) <= Highest(s) * Len(s)
  BY <1>2, TotalBetween
<1>5. Average(s) = r1(Total(s), Len(s))
  BY DEF Average
<1>6. /\ r1(Total(s), Len(s)) \in Int
      /\ Lowest(s) - 5 <= r1(Total(s), Len(s)) /\ r1(Total(s), Len(s)) <= Highest(s) + 5
      /\ r1(Lowest(s), 1) <= r1(Total(s), Len(s)) /\ r1(Total(s), Len(s)) <= r1(Highest(s), 1)
  BY <1>1, <1>3, <1>4, R1Between
<1> QED BY <1>2, <1>3, <1>5, <1>6

\* No deviation is greater than the distance of the lowest and the highest time,
\* but for rounding.
LEMMA DeviationIsBounded ==
  ASSUME NEW s \in Seq(Nat), s # <<>>,
         NEW squares, squares = [i \in DOMAIN s |-> (s[i] - Average(s)) * (s[i] - Average(s))]
  PROVE  RootOf(Total(squares), Len(s)) <= Highest(s) - Lowest(s) + 10
<1> DEFINE D == Highest(s) - Lowest(s) + 5
           avg == Average(s)
<1>1. /\ avg \in Int /\ Lowest(s) \in Nat /\ Highest(s) \in Nat /\ Lowest(s) <= Highest(s)
      /\ \A i \in 1..Len(s) : Lowest(s) <= s[i] /\ s[i] <= Highest(s)
      /\ Lowest(s) - 5 <= avg /\ avg <= Highest(s) + 5
  BY AverageBetween
<1>2. D \in Nat /\ Len(s) \in Nat /\ Len(s) > 0 /\ DOMAIN s = 1..Len(s) /\ \A i \in 1..Len(s) : s[i] \in Nat
  BY <1>1, SMTT(20), ZenonT(20)
<1>3. \A i \in 1..Len(s) : s[i] - avg \in Int /\ s[i] - avg <= D /\ avg - s[i] <= D
  BY <1>1, <1>2, SMTT(20), ZenonT(20)
<1>4. \A i \in 1..Len(s) : squares[i] = (s[i] - avg) * (s[i] - avg)
  BY <1>2
<1> HIDE DEF D, avg
<1>5. \A x \in Int : x <= D /\ 0 - x <= D => x * x \in Nat /\ x * x <= D * D
  <2> SUFFICES ASSUME NEW x \in Int, x <= D, 0 - x <= D PROVE x * x \in Nat /\ x * x <= D * D
    OBVIOUS
  <2>1. CASE x >= 0
    BY <1>2, <2>1, SquaresGrow
  <2>2. CASE x < 0
    <3>1. 0 - x \in Nat /\ (0 - x) * (0 - x) = x * x
      BY <2>2
    <3>2. (0 - x) * (0 - x) <= D * D /\ (0 - x) * (0 - x) \in Nat
      BY <1>2, <3>1, SquaresGrow
    <3> QED BY <3>1, <3>2
  <2> QED BY <2>1, <2>2
<1>6. \A i \in 1..Len(s) : squares[i] \in Nat /\ squares[i] <= D * D
  <2> SUFFICES ASSUME NEW i \in 1..Len(s) PROVE squares[i] \in Nat /\ squares[i] <= D * D
    OBVIOUS
  <2> DEFINE x == s[i] - avg
  <2>1. x \in Int /\ x <= D /\ 0 - x <= D
    BY <1>1, <1>2, <1>3 DEF avg
  <2>2. squares[i] = x * x
    BY <1>4
  <2> HIDE DEF x
  <2> QED BY <1>5, <2>1, <2>2
<1>7. squares \in Seq(Nat) /\ Len(squares) = Len(s)
  <2>1. \A n \in Nat : \A f \in [1..n -> Nat] : f \in Seq(Nat) /\ Len(f) = n
    OBVIOUS
  <2>2. DOMAIN squares = 1..Len(s) /\ squares = [i \in 1..Len(s) |-> squares[i]]
    BY <1>2
  <2>3. squares \in [1..Len(s) -> Nat]
    BY <1>6, <2>2
  <2> QED BY <1>2, <2>1, <2>3
<1>8. 0 \in Int /\ D * D \in Int /\ \A i \in 1..Len(squares) : 0 <= squares[i] /\ squares[i] <= D * D
  BY <1>2, <1>6, <1>7
<1>9. Total(squares) \in Nat /\ Total(squares) <= (D * D) * Len(squares)
  BY <1>7, <1>8, TotalBetween
<1>10. RootOf(Total(squares), Len(s)) \in Nat /\ RootOf(Total(squares), Len(s)) <= D + 5
  BY <1>2, <1>7, <1>9, RootIsBounded
<1> QED BY <1>1, <1>10 DEF D

\* The jitter's average lies between its extremes, rounded as they are.
LEMMA JitterInOrder ==
  ASSUME NEW s \in Seq(Nat)
  PROVE  /\ (IF s = <<>> THEN 0 ELSE r1(Lowest(s), 1)) <= Average(s)
         /\ Average(s) <= (IF s = <<>> THEN 0 ELSE r1(Highest(s), 1))
<1>1. CASE s = <<>>
  BY <1>1 DEF Average
<1>2. CASE s # <<>>
  BY <1>2, AverageBetween
<1> QED BY <1>1, <1>2

\* The final statistics of a hop agree with each other and with its probes.
LEMMA StatsAddUp ==
  ASSUME NEW timings \in Seq(Nat \cup {NoTime})
  PROVE  LET st == compute_stats(timings, TRUE)
         IN  /\ InStats(st)
             /\ st.total = Len(timings) /\ st.rcv = Cardinality(Answered(timings))
             /\ st.rcv = Len(Received(timings))
<1> DEFINE st == compute_stats(timings, TRUE)
           rtts == Received(timings)
           rcv == Len(rtts)
           total == Len(timings)
           avg == Average(rtts)
           squares == [i \in DOMAIN rtts |-> (rtts[i] - avg) * (rtts[i] - avg)]
           gap(a, b) == IF a < b THEN b - a ELSE a - b
           jitter == [i \in 1..Len(rtts) \div 2 |-> gap(rtts[2 * i - 1], rtts[2 * i])]
<1>1. Settled(timings, TRUE) = timings
  BY DEF Settled
<1>2. /\ st.total = total /\ st.rcv = rcv /\ st.drop = total - rcv
      /\ st.min = (IF rtts = <<>> THEN 0 ELSE Lowest(rtts))
      /\ st.max = (IF rtts = <<>> THEN 0 ELSE Highest(rtts))
      /\ st.avg = avg
      /\ st.stDev = (IF rtts = <<>> THEN 0 ELSE RootOf(Total(squares), Len(rtts)))
      /\ st.jMin = (IF jitter = <<>> THEN 0 ELSE r1(Lowest(jitter), 1))
      /\ st.jMax = (IF jitter = <<>> THEN 0 ELSE r1(Highest(jitter), 1))
      /\ st.jAvg = Average(jitter)
  <2> DEFINE settled == Settled(timings, TRUE)
             lost == Len(settled) - Len(Received(settled))
             loss == IF total = 0 THEN 0 ELSE r1(10000 * lost, total)
             lowest == IF rtts = <<>> THEN 0 ELSE Lowest(rtts)
             highest == IF rtts = <<>> THEN 0 ELSE Highest(rtts)
             deviation == IF rtts = <<>> THEN 0 ELSE RootOf(Total(squares), Len(rtts))
             jLowest == IF jitter = <<>> THEN 0 ELSE r1(Lowest(jitter), 1)
             jHighest == IF jitter = <<>> THEN 0 ELSE r1(Highest(jitter), 1)
  <2>1. st = [ total |-> total, rcv |-> Len(Received(settled)), drop |-> lost, loss |-> loss,
               min |-> lowest, max |-> highest, avg |-> avg, stDev |-> deviation,
               jMin |-> jLowest, jMax |-> jHighest, jAvg |-> Average(jitter) ]
    BY SMTT(60) DEF compute_stats
  <2>2. Len(Received(settled)) = rcv /\ lost = total - rcv
    BY <1>1
  <2> HIDE DEF st, lost, loss, lowest, highest, deviation, jLowest, jHighest, settled, squares, jitter, rtts, total
  <2>3. /\ st.total = total /\ st.rcv = Len(Received(settled)) /\ st.drop = lost
        /\ st.min = lowest /\ st.max = highest /\ st.avg = avg /\ st.stDev = deviation
        /\ st.jMin = jLowest /\ st.jMax = jHighest /\ st.jAvg = Average(jitter)
    BY <2>1
  <2> QED BY <2>2, <2>3 DEF lowest, highest, deviation, jLowest, jHighest
<1> HIDE DEF st
<1>3. rtts \in Seq(Nat) /\ rcv = Cardinality(Answered(timings))
  BY ReceivedTimes
<1>4. total \in Nat /\ rcv \in Nat
  BY <1>3
<1> HIDE DEF rtts
<1>5. jitter \in Seq(Nat)
  <2> DEFINE half == Len(rtts) \div 2
  <2>1. half \in Nat /\ 2 * half <= Len(rtts)
    BY <1>4
  <2>2. \A i \in 1..half : 2 * i - 1 \in 1..Len(rtts) /\ 2 * i \in 1..Len(rtts)
    BY <1>4, <2>1
  <2>3. \A i \in 1..Len(rtts) : rtts[i] \in Nat
    BY <1>3
  <2>4. \A a \in Nat, b \in Nat : gap(a, b) \in Nat
    OBVIOUS
  <2> HIDE DEF gap, half
  <2>5. \A i \in 1..half : gap(rtts[2 * i - 1], rtts[2 * i]) \in Nat
    BY <2>2, <2>3, <2>4
  <2>6. \A n \in Nat : \A f \in [1..n -> Nat] : f \in Seq(Nat)
    OBVIOUS
  <2>7. [i \in 1..half |-> gap(rtts[2 * i - 1], rtts[2 * i])] \in [1..half -> Nat]
    BY <2>5
  <2>8. [i \in 1..half |-> gap(rtts[2 * i - 1], rtts[2 * i])] \in Seq(Nat)
    BY <2>1, <2>6, <2>7
  <2> QED BY <2>8 DEF half
<1> HIDE DEF jitter
<1>6. st.jMin <= st.jAvg /\ st.jAvg <= st.jMax
  BY <1>2, <1>5, JitterInOrder
<1>7. st.drop + st.rcv = st.total
  BY <1>2, <1>4
<1>8. /\ st.min <= st.max
      /\ st.min - 5 <= st.avg /\ st.avg <= st.max + 5
      /\ st.stDev <= st.max - st.min + 10
  <2>1. CASE rtts = <<>>
    <3>1. avg = 0
      BY <2>1 DEF Average
    <3> HIDE DEF avg, squares
    <3>2. st.min = 0 /\ st.max = 0 /\ st.avg = 0 /\ st.stDev = 0
      BY <1>2, <2>1, <3>1
    <3> QED BY <3>2
  <2>2. CASE rtts # <<>>
    <3>1. /\ avg \in Int /\ Lowest(rtts) \in Nat /\ Highest(rtts) \in Nat /\ Lowest(rtts) <= Highest(rtts)
          /\ Lowest(rtts) - 5 <= avg /\ avg <= Highest(rtts) + 5
      BY <1>3, <2>2, AverageBetween
    <3>2. RootOf(Total(squares), Len(rtts)) <= Highest(rtts) - Lowest(rtts) + 10
      BY <1>3, <2>2, DeviationIsBounded
    <3> HIDE DEF avg, squares
    <3>3. st.min = Lowest(rtts) /\ st.max = Highest(rtts) /\ st.avg = avg /\ st.stDev = RootOf(Total(squares), Len(rtts))
      BY <1>2, <2>2
    <3> QED BY <3>1, <3>2, <3>3
  <2> QED BY <2>1, <2>2
<1>9. InStats(st)
  BY <1>6, <1>7, <1>8 DEF InStats
<1> QED BY <1>2, <1>3, <1>9 DEF st, rtts

\* What was read of TCP probes, and what was made of it.
TcpCounts ==
  Is("tcp") =>
    /\ local = Nothing
    /\ pc \in {"new", "probing", "done"}
    /\ read \in Seq(Nat \cup {NoTime})
    /\ pc \in {"new", "probing"} => result = Nothing
    /\ result # Nothing =>
         result = compute_tcp_stats(read, job.packets) /\ Len(read) = job.packets

LEMMA InitTcpCounts == Init => TcpCounts
<1> SUFFICES ASSUME Init PROVE TcpCounts
  OBVIOUS
<1>1. local = Nothing /\ pc = "new" /\ read = <<>> /\ result = Nothing
  BY DEF Init, Started
<1>2. <<>> \in Seq(Nat \cup {NoTime})
  OBVIOUS
<1> QED BY <1>1, <1>2 DEF TcpCounts

\* A probe adds a time or none; the counts come after the last one, and nothing drops them.
LEMMA NextTcpCounts == TcpCounts /\ [Next]_vars /\ Is("tcp") => TcpCounts'
<1> SUFFICES ASSUME TcpCounts, [Next]_vars, Is("tcp") PROVE TcpCounts'
  OBVIOUS
<1>1. job' = job /\ (Is("tcp"))'
  BY NextKeepsJob DEF Is
<1>2. CASE tcp_ping_single
  <2>1. PICK t \in {NoTime, 10, 25} : read' = Append(read, t)
    BY <1>2 DEF tcp_ping_single
  <2>2. read' \in Seq(Nat \cup {NoTime})
    BY <2>1 DEF TcpCounts
  <2>3. pc \in {"new", "probing"} /\ pc' = "probing" /\ UNCHANGED <<local, result>>
    BY <1>2 DEF tcp_ping_single
  <2> QED BY <2>2, <2>3 DEF TcpCounts
<1>3. CASE tcp_ping
  <2>1. /\ pc' = "done" /\ result' = compute_tcp_stats(read, job.packets)
        /\ Len(read) = job.packets /\ UNCHANGED <<local, read>>
    BY <1>3 DEF tcp_ping, Return
  <2> QED BY <1>1, <2>1 DEF TcpCounts
<1>4. CASE UNCHANGED vars
  BY <1>1, <1>4 DEF vars, TcpCounts
<1>5. ~Drop /\ ~Emit
  BY DEF Drop, Emit, MayReach, TcpCounts
<1>6. job.cmd = "tcp"
  BY DEF Is
<1>7. Next => TcpNext \/ Drop \/ Emit
  BY <1>6, OwnSteps DEF Is
<1> QED BY <1>2, <1>3, <1>4, <1>5, <1>7 DEF TcpNext

\* The counts of TCP probes are of the probes that were made.
LEMMA TcpAddsUp ==
  ASSUME TcpCounts, Is("tcp"), result # Nothing
  PROVE  /\ result.rcv + result.drop = job.packets
         /\ result.rcv = Cardinality({i \in DOMAIN read : read[i] # NoTime})
         /\ result.rcv > 0 => result.min * result.rcv <= result.sum /\ result.sum <= result.max * result.rcv
<1> DEFINE rtts == Received(read)
           rcv == Len(rtts)
           total == job.packets
           none == [status |-> "stats", total |-> total, rcv |-> 0, drop |-> total]
           some == [ status |-> "stats", total |-> total, rcv |-> rcv, drop |-> total - rcv,
                     min |-> Lowest(rtts), max |-> Highest(rtts), sum |-> Total(rtts) ]
<1>1. read \in Seq(Nat \cup {NoTime}) /\ Len(read) = total /\ result = compute_tcp_stats(read, total)
  BY DEF TcpCounts
<1>2. rtts \in Seq(Nat) /\ rcv = Cardinality(Answered(read))
  BY <1>1, ReceivedTimes
<1>3. total \in Nat /\ rcv \in Nat
  BY <1>1, <1>2
<1>4. result = IF rtts = <<>> THEN none ELSE some
  BY <1>1 DEF compute_tcp_stats
<1> HIDE DEF rtts
<1>5. result.rcv = rcv /\ result.drop = total - rcv
  <2>1. rtts = <<>> => rcv = 0
    OBVIOUS
  <2> QED BY <1>3, <1>4, <2>1
<1>6. rcv > 0 => rtts # <<>>
  BY <1>2
<1>7. rcv > 0 => result.min = Lowest(rtts) /\ result.max = Highest(rtts) /\ result.sum = Total(rtts)
  BY <1>4, <1>6
<1>8. rcv > 0 => Lowest(rtts) * rcv <= Total(rtts) /\ Total(rtts) <= Highest(rtts) * rcv
  <2> SUFFICES ASSUME rcv > 0 PROVE Lowest(rtts) * rcv <= Total(rtts) /\ Total(rtts) <= Highest(rtts) * rcv
    OBVIOUS
  <2>1. rtts \in Seq(Int) /\ rtts # <<>>
    BY <1>2, <1>6
  <2>2. /\ \A i \in 1..Len(rtts) : Lowest(rtts) <= rtts[i] /\ rtts[i] <= Highest(rtts)
        /\ Lowest(rtts) \in Int /\ Highest(rtts) \in Int
    BY <2>1, ExtremesExist
  <2> QED BY <1>2, <2>2, TotalBetween
<1> QED BY <1>2, <1>3, <1>5, <1>7, <1>8 DEF Answered

\* The probes that were sent to a hop, by the first events, and those of them
\* that were answered after they were sent.
SentTo(events, n, h) == {events[i].seq : i \in {k \in 1..n : events[k].kind = "x" /\ events[k].hop = h}}
RepliedTo(events, n, h) ==
  {q \in SentTo(events, n, h) : \E i, j \in 1..n :
     /\ i < j /\ events[i].kind = "x" /\ events[j].kind = "p"
     /\ \A k \in {i, j} : events[k].hop = h /\ events[k].seq = q}

\* The places of a probe among them.
PlacesOf(t, q) == {i \in DOMAIN t : t[i].seq = q}

\* The probes of a hop's builder, if there is one.
TimingsOf(s, h) == IF h \in DOMAIN s.b THEN s.b[h].timings ELSE <<>>

\* They are those that were sent, each once, and the answered ones have times.
TimingsRight(t, sent, replied) ==
  /\ t \in Seq(Probe)
  /\ \A i, j \in 1..Len(t) : t[i].seq = t[j].seq => i = j
  /\ {t[i].seq : i \in 1..Len(t)} = sent
  /\ \A i \in 1..Len(t) : t[i].rtt \in Nat \cup {NoTime} /\ (t[i].rtt # NoTime <=> t[i].seq \in replied)

\* What a line does to the probes of the hops.
LEMMA RawStepTimings ==
  ASSUME NEW s \in RawState, NEW e \in MtrLines
  PROVE  /\ \A k : k # e.hop => TimingsOf(RawStep(s, e), k) = TimingsOf(s, k)
         /\ e.kind = "x" /\ PlacesOf(TimingsOf(s, e.hop), e.seq) = {} =>
              TimingsOf(RawStep(s, e), e.hop) = Append(TimingsOf(s, e.hop), [seq |-> e.seq, rtt |-> NoTime])
         /\ e.kind = "p" /\ PlacesOf(TimingsOf(s, e.hop), e.seq) # {} =>
              \E i \in PlacesOf(TimingsOf(s, e.hop), e.seq) :
                TimingsOf(RawStep(s, e), e.hop) = [TimingsOf(s, e.hop) EXCEPT ![i].rtt = e.rtt]
         /\ ~(e.kind = "x" /\ PlacesOf(TimingsOf(s, e.hop), e.seq) = {})
            /\ ~(e.kind = "p" /\ PlacesOf(TimingsOf(s, e.hop), e.seq) # {}) =>
              TimingsOf(RawStep(s, e), e.hop) = TimingsOf(s, e.hop)
<1> PICK t, sent : t = TimingsOf(s, e.hop) /\ sent = PlacesOf(t, e.seq)
  OBVIOUS
<1> SUFFICES
         /\ \A k : k # e.hop => TimingsOf(RawStep(s, e), k) = TimingsOf(s, k)
         /\ e.kind = "x" /\ sent = {} =>
              TimingsOf(RawStep(s, e), e.hop) = Append(t, [seq |-> e.seq, rtt |-> NoTime])
         /\ e.kind = "p" /\ sent # {} =>
              \E i \in sent : TimingsOf(RawStep(s, e), e.hop) = [t EXCEPT ![i].rtt = e.rtt]
         /\ ~(e.kind = "x" /\ sent = {}) /\ ~(e.kind = "p" /\ sent # {}) =>
              TimingsOf(RawStep(s, e), e.hop) = t
  OBVIOUS
<1> DEFINE hop == IF e.hop \in DOMAIN s.b THEN s.b[e.hop] ELSE fresh
           put(h) == [s EXCEPT !.b = Inserted(@, e.hop, h), !.size = IF @ > e.hop THEN @ ELSE e.hop + 1]
           named(h) == [put(h) EXCEPT !.names = IF hop.ip = NoIp THEN @ ELSE Inserted(@, hop.ip, e.name)]
           now == RawStep(s, e)
           others(r) == \A k : k # e.hop => TimingsOf(r, k) = TimingsOf(s, k)
<1>1. hop.timings = t
  BY DEF TimingsOf, fresh
<1>2. hop \in Builder
  <2>1. fresh \in Builder
    <3>1. <<>> \in Seq(Probe)
      OBVIOUS
    <3> QED BY <3>1 DEF fresh, Builder, Ip
  <2>2. e.hop \in DOMAIN s.b => s.b[e.hop] \in Builder
    BY SMTT(20), ZenonT(20) DEF FunctionsOn, RawState
  <2> QED BY <2>1, <2>2
<1>3. ASSUME NEW h PROVE TimingsOf(put(h), e.hop) = h.timings /\ others(put(h))
  <2> DEFINE b2 == Inserted(s.b, e.hop, h)
  <2>1. put(h).b = b2
    BY DEF RawState
  <2>2. DOMAIN b2 = DOMAIN s.b \cup {e.hop} /\ b2[e.hop] = h
    BY DEF Inserted
  <2>3. \A k \in DOMAIN s.b : k # e.hop => b2[k] = s.b[k]
    BY DEF Inserted
  <2> HIDE DEF b2, put
  <2> QED BY <2>1, <2>2, <2>3 DEF TimingsOf
<1>4. ASSUME NEW h PROVE TimingsOf(named(h), e.hop) = h.timings /\ others(named(h))
  <2>1. named(h).b = put(h).b
    BY DEF RawState
  <2> HIDE DEF named, put
  <2> QED BY <1>3, <2>1 DEF TimingsOf
<1>5. now =
        CASE e.kind = "h" ->
               put([hop EXCEPT !.ip = e.ip,
                      !.duplicate = \E j \in DOMAIN s.b : j < e.hop /\ s.b[j].ip = e.ip])
          [] e.kind = "d" -> named([hop EXCEPT !.name = e.name])
          [] e.kind = "x" ->
               put(IF sent # {} THEN hop
                   ELSE [hop EXCEPT !.timings = Append(@, [seq |-> e.seq, rtt |-> NoTime])])
          [] e.kind = "p" /\ sent # {} ->
               put([hop EXCEPT !.timings[CHOOSE i \in sent : TRUE].rtt = e.rtt])
          [] OTHER -> s
  <2>1. sent = {i \in DOMAIN hop.timings : hop.timings[i].seq = e.seq}
    BY <1>1 DEF PlacesOf
  <2> QED BY <2>1 DEF RawStep
<1> HIDE DEF put, named, hop, now
<1>6. CASE e.kind = "h"
  <2> DEFINE d == \E j \in DOMAIN s.b : j < e.hop /\ s.b[j].ip = e.ip
             h == [hop EXCEPT !.ip = e.ip, !.duplicate = d]
  <2>1. now = put(h)
    BY <1>5, <1>6
  <2> HIDE DEF d
  <2>2. h.timings = t
    BY <1>1, <1>2 DEF Builder
  <2> HIDE DEF h
  <2> QED BY <1>3, <1>6, <2>1, <2>2 DEF now
<1>7. CASE e.kind = "d"
  <2> DEFINE h == [hop EXCEPT !.name = e.name]
  <2>1. now = named(h)
    BY <1>5, <1>7
  <2>2. h.timings = t
    BY <1>1, <1>2 DEF Builder
  <2> HIDE DEF h
  <2> QED BY <1>4, <1>7, <2>1, <2>2 DEF now
<1>8. CASE e.kind = "x" /\ sent # {}
  <2>1. now = put(hop)
    BY <1>5, <1>8
  <2> QED BY <1>1, <1>3, <1>8, <2>1 DEF now
<1>9. CASE e.kind = "x" /\ sent = {}
  <2> DEFINE new == [seq |-> e.seq, rtt |-> NoTime]
             h == [hop EXCEPT !.timings = Append(@, new)]
  <2>1. now = put(h)
    BY <1>5, <1>9
  <2> HIDE DEF new
  <2>2. h.timings = Append(t, new)
    BY <1>1, <1>2 DEF Builder
  <2> HIDE DEF h
  <2> QED BY <1>3, <1>9, <2>1, <2>2 DEF now, new
<1>10. CASE e.kind = "p" /\ sent # {}
  <2> DEFINE i == CHOOSE i \in sent : TRUE
             answered == [t EXCEPT ![i].rtt = e.rtt]
             h == [hop EXCEPT !.timings = answered]
  <2>1. i \in sent
    BY <1>10
  <2>2. now = put(h)
    BY <1>1, <1>5, <1>10
  <2> HIDE DEF answered
  <2>3. h.timings = answered
    BY <1>2 DEF Builder
  <2> HIDE DEF h
  <2>4. TimingsOf(now, e.hop) = answered /\ others(now)
    BY <1>3, <2>2, <2>3
  <2> QED BY <1>10, <2>1, <2>4 DEF now, answered
<1>11. CASE e.kind # "h" /\ e.kind # "d" /\ e.kind # "x" /\ ~(e.kind = "p" /\ sent # {})
  <2>1. now = s
    BY <1>5, <1>11
  <2> QED BY <1>11, <2>1 DEF now
<1> QED BY <1>6, <1>7, <1>8, <1>9, <1>10, <1>11

\* A probe more is a probe that was sent and not answered yet.
LEMMA ProbeIsAdded ==
  ASSUME NEW t, NEW sent, NEW replied, TimingsRight(t, sent, replied), replied \subseteq sent,
         NEW q \in Nat, q \notin sent
  PROVE  TimingsRight(Append(t, [seq |-> q, rtt |-> NoTime]), sent \cup {q}, replied)
<1> DEFINE new == [seq |-> q, rtt |-> NoTime]
           u == Append(t, new)
           len == Len(t)
<1>1. new \in Probe /\ new.seq = q /\ new.rtt = NoTime
  BY DEF Probe, NoTime
<1> HIDE DEF new
<1>2. t \in Seq(Probe)
  BY DEF TimingsRight
<1>3. /\ u \in Seq(Probe) /\ len \in Nat /\ Len(u) = len + 1
      /\ u[len + 1] = new /\ \A i \in 1..len : u[i] = t[i]
  BY <1>1, <1>2
<1>4. \A i \in 1..len + 1 : i = len + 1 \/ i \in 1..len
  BY <1>3
<1>5. \A i \in 1..len : i \in 1..len + 1 /\ t[i].seq \in sent
  BY <1>3 DEF TimingsRight
<1> HIDE DEF u
<1>6. \A i, j \in 1..len + 1 : u[i].seq = u[j].seq => i = j
  <2> SUFFICES ASSUME NEW i \in 1..len + 1, NEW j \in 1..len + 1, u[i].seq = u[j].seq PROVE i = j
    OBVIOUS
  <2>1. CASE i \in 1..len /\ j \in 1..len
    BY <1>3, <2>1 DEF TimingsRight
  <2>2. CASE i = len + 1 /\ j \in 1..len
    BY <1>1, <1>3, <1>5, <2>2
  <2>3. CASE j = len + 1 /\ i \in 1..len
    BY <1>1, <1>3, <1>5, <2>3
  <2> QED BY <1>4, <2>1, <2>2, <2>3
<1>7. {u[i].seq : i \in 1..len + 1} = sent \cup {q}
  <2>1. \A i \in 1..len + 1 : u[i].seq \in sent \cup {q}
    BY <1>1, <1>3, <1>4, <1>5
  <2>2. \A x \in sent : \E i \in 1..len + 1 : u[i].seq = x
    <3> SUFFICES ASSUME NEW x \in sent PROVE \E i \in 1..len + 1 : u[i].seq = x
      OBVIOUS
    <3>1. PICK i \in 1..len : t[i].seq = x
      BY DEF TimingsRight
    <3> QED BY <1>3, <1>5, <3>1
  <2>3. u[len + 1].seq = q /\ len + 1 \in 1..len + 1
    BY <1>1, <1>3
  <2> QED BY <2>1, <2>2, <2>3
<1>8. \A i \in 1..len + 1 : u[i].rtt \in Nat \cup {NoTime} /\ (u[i].rtt # NoTime <=> u[i].seq \in replied)
  <2> SUFFICES ASSUME NEW i \in 1..len + 1
               PROVE  u[i].rtt \in Nat \cup {NoTime} /\ (u[i].rtt # NoTime <=> u[i].seq \in replied)
    OBVIOUS
  <2>1. CASE i \in 1..len
    BY <1>3, <2>1 DEF TimingsRight
  <2>2. CASE i = len + 1
    BY <1>1, <1>3, <2>2
  <2> QED BY <1>4, <2>1, <2>2
<1> QED BY <1>3, <1>6, <1>7, <1>8 DEF TimingsRight, u, new

\* A reply makes an answered probe of one that was sent.
LEMMA ProbeIsAnswered ==
  ASSUME NEW t, NEW sent, NEW replied, TimingsRight(t, sent, replied),
         NEW i \in 1..Len(t), NEW r \in Nat
  PROVE  TimingsRight([t EXCEPT ![i].rtt = r], sent, replied \cup {t[i].seq})
<1> DEFINE p == [t[i] EXCEPT !.rtt = r]
           u == [t EXCEPT ![i] = p]
           len == Len(t)
<1>1. t \in Seq(Probe) /\ t[i] \in Probe
  BY DEF TimingsRight
<1>2. p \in Probe /\ p.seq = t[i].seq /\ p.rtt = r
  BY <1>1 DEF Probe
<1> HIDE DEF p
<1>3. u \in Seq(Probe) /\ Len(u) = len /\ u[i] = p /\ \A j \in 1..len : j # i => u[j] = t[j]
  BY <1>1, <1>2
<1> HIDE DEF u
<1>4. \A j \in 1..len : u[j].seq = t[j].seq
  BY <1>2, <1>3
<1>5. \A j, k \in 1..len : u[j].seq = u[k].seq => j = k
  BY <1>4 DEF TimingsRight
<1>6. {u[j].seq : j \in 1..len} = sent
  <2>1. {u[j].seq : j \in 1..len} = {t[j].seq : j \in 1..len}
    BY <1>4
  <2> QED BY <2>1 DEF TimingsRight
<1>7. ASSUME NEW j \in 1..len
      PROVE  /\ u[j].rtt \in Nat \cup {NoTime}
             /\ u[j].rtt # NoTime <=> u[j].seq \in replied \cup {t[i].seq}
  <2>1. CASE j = i
    <3>1. u[j].rtt = r /\ u[j].seq = t[i].seq
      BY <1>2, <1>3, <2>1
    <3> QED BY <3>1 DEF NoTime
  <2>2. CASE j # i
    <3>1. u[j] = t[j] /\ t[j].seq # t[i].seq
      BY <1>3, <2>2 DEF TimingsRight
    <3>2. t[j].rtt \in Nat \cup {NoTime} /\ (t[j].rtt # NoTime <=> t[j].seq \in replied)
      BY DEF TimingsRight
    <3> QED BY <3>1, <3>2
  <2> QED BY <2>1, <2>2
<1>8. [t EXCEPT ![i].rtt = r] = u
  BY DEF u, p
<1> DEFINE all == replied \cup {t[i].seq}
<1>9. \A j \in 1..len : u[j].rtt \in Nat \cup {NoTime} /\ (u[j].rtt # NoTime <=> u[j].seq \in all)
  BY <1>7
<1> HIDE DEF all
<1>10. 1..Len(u) = 1..len
  BY <1>3
<1> HIDE DEF len
<1>11. TimingsRight(u, sent, all)
  BY <1>3, <1>5, <1>6, <1>9, <1>10 DEF TimingsRight
<1> QED BY <1>8, <1>11 DEF all

\* Values that differ from place to place are as many as the places.
LEMMA DifferentValues ==
  ASSUME NEW I, IsFiniteSet(I), NEW g, DOMAIN g = I, g = [i \in I |-> g[i]],
         \A i, j \in I : g[i] = g[j] => i = j
  PROVE  Cardinality({g[i] : i \in I}) = Cardinality(I)
<1> DEFINE T == {g[i] : i \in I}
<1>1. g \in [I -> T]
  OBVIOUS
<1>2. \A y \in T : \E i \in I : g[i] = y
  OBVIOUS
<1> HIDE DEF T
<1>3. g \in Surjection(I, T)
  BY <1>1, <1>2 DEF Surjection
<1>4. g \in Injection(I, T)
  BY <1>1 DEF Injection, IsInjective
<1>5. Cardinality(T) = Cardinality(I)
  BY <1>3, <1>4, FS_Surjection
<1> QED BY <1>5 DEF T

\* There are as many probes as were sent, and as many with times as were answered.
LEMMA ProbesAreCounted ==
  ASSUME NEW t, NEW sent, NEW replied, TimingsRight(t, sent, replied), replied \subseteq sent,
         NEW rtts, rtts = [k \in DOMAIN t |-> t[k].rtt]
  PROVE  /\ rtts \in Seq(Nat \cup {NoTime})
         /\ Len(rtts) = Cardinality(sent)
         /\ Cardinality(Answered(rtts)) = Cardinality(replied)
<1> DEFINE len == Len(t)
           g == [i \in 1..len |-> t[i].seq]
           some == {i \in 1..len : t[i].rtt # NoTime}
           part == [i \in some |-> t[i].seq]
<1>1. t \in Seq(Probe) /\ len \in Nat /\ DOMAIN t = 1..len
  BY DEF TimingsRight
<1>2. IsFiniteSet(1..len) /\ Cardinality(1..len) = len
  <2>1. \A n \in Nat : IsFiniteSet(1..n) /\ Cardinality(1..n) = n
    BY FS_Interval
  <2> QED BY <1>1, <2>1
<1>3. /\ \A i, j \in 1..len : g[i] = g[j] => i = j
      /\ {g[i] : i \in 1..len} = sent
  BY DEF TimingsRight
<1>4. Cardinality(sent) = len
  <2> DEFINE I == 1..len
  <2>1. DOMAIN g = I /\ g = [i \in I |-> g[i]]
    OBVIOUS
  <2>2. IsFiniteSet(I) /\ \A i, j \in I : g[i] = g[j] => i = j
    BY <1>2, <1>3
  <2>3. {g[i] : i \in I} = sent /\ Cardinality(I) = len
    BY <1>2, <1>3
  <2> HIDE DEF g, len, I
  <2>4. Cardinality({g[i] : i \in I}) = Cardinality(I)
    BY <2>1, <2>2, DifferentValues
  <2> QED BY <2>3, <2>4
<1>5. rtts \in Seq(Nat \cup {NoTime}) /\ Len(rtts) = len /\ \A i \in 1..len : rtts[i] = t[i].rtt
  <2> DEFINE E == Nat \cup {NoTime}
  <2>1. \A i \in 1..len : t[i].rtt \in E
    BY DEF TimingsRight
  <2>2. \A n \in Nat : \A f \in [1..n -> E] : f \in Seq(E) /\ Len(f) = n
    OBVIOUS
  <2> HIDE DEF E
  <2>3. rtts \in [1..len -> E] /\ \A i \in 1..len : rtts[i] = t[i].rtt
    BY <1>1, <2>1
  <2> QED BY <1>1, <2>2, <2>3 DEF E
<1>6. Answered(rtts) = some
  BY <1>5 DEF Answered
<1>7. Cardinality(replied) = Cardinality(some)
  <2>1. {part[i] : i \in some} = replied
    <3>1. \A i \in some : part[i] = t[i].seq /\ t[i].seq \in replied
      BY DEF TimingsRight
    <3>2. \A q \in replied : \E i \in some : t[i].seq = q
      <4> SUFFICES ASSUME NEW q \in replied PROVE \E i \in some : t[i].seq = q
        OBVIOUS
      <4>1. q \in sent
        OBVIOUS
      <4>2. PICK i \in 1..len : t[i].seq = q
        BY <4>1 DEF TimingsRight
      <4>3. t[i].rtt # NoTime
        BY <4>2 DEF TimingsRight
      <4> QED BY <4>2, <4>3
    <3> HIDE DEF part, some
    <3> QED BY <3>1, <3>2
  <2>2. \A i, j \in some : part[i] = part[j] => i = j
    BY DEF TimingsRight
  <2>3. IsFiniteSet(some)
    <3>1. some \subseteq 1..len
      OBVIOUS
    <3> QED BY <1>2, <3>1, FS_Subset
  <2>4. DOMAIN part = some /\ part = [i \in some |-> part[i]]
    OBVIOUS
  <2> HIDE DEF part, some
  <2>5. Cardinality({part[i] : i \in some}) = Cardinality(some)
    BY <2>2, <2>3, <2>4, DifferentValues
  <2> QED BY <2>1, <2>5
<1> QED BY <1>4, <1>5, <1>6, <1>7

\* Another line: another probe is sent, or answered, or neither.
LEMMA SentGrows ==
  ASSUME NEW events \in Seq(MtrLines), NEW n \in 1..Len(events), NEW h, NEW e, e = events[n]
  PROVE  SentTo(events, n, h) =
           IF e.kind = "x" /\ e.hop = h THEN SentTo(events, n - 1, h) \cup {e.seq} ELSE SentTo(events, n - 1, h)
<1>1. \A k : k \in 1..n <=> k = n \/ k \in 1..n - 1
  OBVIOUS
<1>2. \A q : q \in SentTo(events, n, h) <=> \E k \in 1..n : events[k].kind = "x" /\ events[k].hop = h /\ events[k].seq = q
  BY DEF SentTo
<1>3. \A q : q \in SentTo(events, n - 1, h) <=>
               \E k \in 1..n - 1 : events[k].kind = "x" /\ events[k].hop = h /\ events[k].seq = q
  BY DEF SentTo
<1>4. \A q : q \in SentTo(events, n, h) <=>
               q \in SentTo(events, n - 1, h) \/ (e.kind = "x" /\ e.hop = h /\ e.seq = q)
  BY <1>1, <1>2, <1>3
<1> QED BY <1>4

LEMMA RepliedGrows ==
  ASSUME NEW events \in Seq(MtrLines), NEW n \in 1..Len(events), NEW h, NEW e, e = events[n]
  PROVE  /\ RepliedTo(events, n - 1, h) \subseteq SentTo(events, n - 1, h)
         /\ RepliedTo(events, n, h) =
              IF e.kind = "p" /\ e.hop = h /\ e.seq \in SentTo(events, n - 1, h)
              THEN RepliedTo(events, n - 1, h) \cup {e.seq} ELSE RepliedTo(events, n - 1, h)
<1> DEFINE is(k, kind, q) == events[k].kind = kind /\ events[k].hop = h /\ events[k].seq = q
<1>1. \A k : k \in 1..n <=> k = n \/ k \in 1..n - 1
  OBVIOUS
<1>2. \A q : q \in SentTo(events, n - 1, h) <=> \E i \in 1..n - 1 : is(i, "x", q)
  BY DEF SentTo
<1>3. \A q : q \in SentTo(events, n, h) <=> \E i \in 1..n : is(i, "x", q)
  BY DEF SentTo
<1>4. \A q : q \in RepliedTo(events, n, h) <=> \E i, j \in 1..n : i < j /\ is(i, "x", q) /\ is(j, "p", q)
  <2>1. \A q : q \in RepliedTo(events, n, h) <=>
                 /\ q \in SentTo(events, n, h)
                 /\ \E i, j \in 1..n : i < j /\ is(i, "x", q) /\ is(j, "p", q)
    BY DEF RepliedTo
  <2> QED BY <1>3, <2>1
<1>5. \A q : q \in RepliedTo(events, n - 1, h) <=> \E i, j \in 1..n - 1 : i < j /\ is(i, "x", q) /\ is(j, "p", q)
  <2>1. \A q : q \in RepliedTo(events, n - 1, h) <=>
                 /\ q \in SentTo(events, n - 1, h)
                 /\ \E i, j \in 1..n - 1 : i < j /\ is(i, "x", q) /\ is(j, "p", q)
    BY DEF RepliedTo
  <2> QED BY <1>2, <2>1
<1>6. \A i, j \in 1..n : i < j => i \in 1..n - 1 /\ (j = n \/ j \in 1..n - 1)
  OBVIOUS
<1>7. \A i \in 1..n - 1 : i < n /\ i \in 1..n /\ n \in 1..n
  OBVIOUS
<1> HIDE DEF is
<1>8. \A q : q \in RepliedTo(events, n, h) <=>
               q \in RepliedTo(events, n - 1, h) \/ (is(n, "p", q) /\ q \in SentTo(events, n - 1, h))
  BY <1>2, <1>4, <1>5, <1>6, <1>7
<1>9. RepliedTo(events, n - 1, h) \subseteq SentTo(events, n - 1, h)
  BY <1>2, <1>5
<1>10. RepliedTo(events, n, h) =
         IF e.kind = "p" /\ e.hop = h /\ e.seq \in SentTo(events, n - 1, h)
         THEN RepliedTo(events, n - 1, h) \cup {e.seq} ELSE RepliedTo(events, n - 1, h)
  BY <1>8 DEF is
<1> QED BY <1>9, <1>10

\* What a line does to the probes of one hop agrees with what it says.
LEMMA LineIsFollowed ==
  ASSUME NEW s \in RawState, NEW e \in MtrLines, NEW h, NEW sent, NEW replied,
         TimingsRight(TimingsOf(s, h), sent, replied), replied \subseteq sent,
         NEW sentNow, sentNow = (IF e.kind = "x" /\ e.hop = h THEN sent \cup {e.seq} ELSE sent),
         NEW repliedNow,
         repliedNow = (IF e.kind = "p" /\ e.hop = h /\ e.seq \in sent THEN replied \cup {e.seq} ELSE replied)
  PROVE  TimingsRight(TimingsOf(RawStep(s, e), h), sentNow, repliedNow)
<1> DEFINE t == TimingsOf(s, e.hop)
           places == PlacesOf(t, e.seq)
           now == TimingsOf(RawStep(s, e), e.hop)
<1>1. /\ \A k : k # e.hop => TimingsOf(RawStep(s, e), k) = TimingsOf(s, k)
      /\ e.kind = "x" /\ places = {} => now = Append(t, [seq |-> e.seq, rtt |-> NoTime])
      /\ e.kind = "p" /\ places # {} => \E i \in places : now = [t EXCEPT ![i].rtt = e.rtt]
      /\ ~(e.kind = "x" /\ places = {}) /\ ~(e.kind = "p" /\ places # {}) => now = t
  BY RawStepTimings
<1>2. e.seq \in Nat /\ (e.kind = "p" => e.rtt \in Nat)
  BY DEF MtrLines
<1>3. CASE h # e.hop
  <2>1. sentNow = sent /\ repliedNow = replied
    BY <1>3
  <2> QED BY <1>1, <1>3, <2>1
<1>4. CASE h = e.hop
  <2>1. TimingsRight(t, sent, replied)
    BY <1>4
  <2>2. DOMAIN t = 1..Len(t)
    BY <2>1 DEF TimingsRight
  <2>3. places = {} <=> e.seq \notin sent
    <3>1. \A q : q \in sent <=> \E i \in 1..Len(t) : t[i].seq = q
      BY <2>1 DEF TimingsRight
    <3> HIDE DEF t
    <3> QED BY <2>2, <3>1 DEF PlacesOf
  <2> HIDE DEF t, places, now
  <2>4. CASE e.kind = "x" /\ places = {}
    <3>1. sentNow = sent \cup {e.seq} /\ repliedNow = replied
      BY <1>4, <2>4
    <3>2. TimingsRight(Append(t, [seq |-> e.seq, rtt |-> NoTime]), sent \cup {e.seq}, replied)
      BY <1>2, <2>1, <2>3, <2>4, ProbeIsAdded
    <3>3. TimingsRight(now, sentNow, repliedNow)
      BY <1>1, <2>4, <3>1, <3>2
    <3> QED BY <1>4, <3>3 DEF now
  <2>5. CASE e.kind = "p" /\ places # {}
    <3>1. PICK i \in places : now = [t EXCEPT ![i].rtt = e.rtt]
      BY <1>1, <2>5
    <3>2. i \in 1..Len(t) /\ t[i].seq = e.seq
      BY <2>2 DEF places, PlacesOf
    <3>3. sentNow = sent /\ repliedNow = replied \cup {t[i].seq}
      BY <1>4, <2>3, <2>5, <3>2
    <3>4. TimingsRight([t EXCEPT ![i].rtt = e.rtt], sent, replied \cup {t[i].seq})
      BY <1>2, <2>1, <2>5, <3>2, ProbeIsAnswered
    <3>5. TimingsRight(now, sentNow, repliedNow)
      BY <3>1, <3>3, <3>4
    <3> QED BY <1>4, <3>5 DEF now
  <2>6. CASE ~(e.kind = "x" /\ places = {}) /\ ~(e.kind = "p" /\ places # {})
    <3>1. sentNow = sent
      BY <1>4, <2>3, <2>6
    <3>2. repliedNow = replied
      BY <1>4, <2>3, <2>6
    <3>3. now = t
      BY <1>1, <2>6
    <3> QED BY <1>4, <2>1, <3>1, <3>2, <3>3 DEF now
  <2> QED BY <2>4, <2>5, <2>6
<1> QED BY <1>3, <1>4

\* After every line the probes of each hop are those that were sent to it.
LEMMA TimingsFollow ==
  ASSUME NEW events \in Seq(MtrLines), NEW h
  PROVE  \A n \in 0..Len(events) :
           TimingsRight(TimingsOf(RawLoop(events)[n], h), SentTo(events, n, h), RepliedTo(events, n, h))
<1> DEFINE len == Len(events)
           after == RawLoop(events)
           follows(n) == TimingsRight(TimingsOf(after[n], h), SentTo(events, n, h), RepliedTo(events, n, h))
           right == {n \in 0..len : follows(n)}
<1>1. len \in Nat /\ 0 \in 0..len /\ \A i \in 1..len : events[i] \in MtrLines
  OBVIOUS
<1>2. /\ after[0] = NoBuilders
      /\ \A n \in 1..len : after[n] = RawStep(after[n - 1], events[n])
      /\ \A n \in 0..len : after[n] \in RawState
  BY RawLoopUnfolds
<1>3. \A n \in 1..len :
        /\ RepliedTo(events, n - 1, h) \subseteq SentTo(events, n - 1, h)
        /\ SentTo(events, n, h) =
             IF events[n].kind = "x" /\ events[n].hop = h
             THEN SentTo(events, n - 1, h) \cup {events[n].seq} ELSE SentTo(events, n - 1, h)
        /\ RepliedTo(events, n, h) =
             IF events[n].kind = "p" /\ events[n].hop = h /\ events[n].seq \in SentTo(events, n - 1, h)
             THEN RepliedTo(events, n - 1, h) \cup {events[n].seq} ELSE RepliedTo(events, n - 1, h)
  <2> SUFFICES ASSUME NEW n \in 1..len
               PROVE  /\ RepliedTo(events, n - 1, h) \subseteq SentTo(events, n - 1, h)
                      /\ SentTo(events, n, h) =
                           IF events[n].kind = "x" /\ events[n].hop = h
                           THEN SentTo(events, n - 1, h) \cup {events[n].seq} ELSE SentTo(events, n - 1, h)
                      /\ RepliedTo(events, n, h) =
                           IF events[n].kind = "p" /\ events[n].hop = h /\ events[n].seq \in SentTo(events, n - 1, h)
                           THEN RepliedTo(events, n - 1, h) \cup {events[n].seq} ELSE RepliedTo(events, n - 1, h)
    OBVIOUS
  <2>1. n \in 1..Len(events) /\ events[n] = events[n]
    OBVIOUS
  <2>2. SentTo(events, n, h) =
          IF events[n].kind = "x" /\ events[n].hop = h
          THEN SentTo(events, n - 1, h) \cup {events[n].seq} ELSE SentTo(events, n - 1, h)
    BY <2>1, SentGrows
  <2>3. /\ RepliedTo(events, n - 1, h) \subseteq SentTo(events, n - 1, h)
        /\ RepliedTo(events, n, h) =
             IF events[n].kind = "p" /\ events[n].hop = h /\ events[n].seq \in SentTo(events, n - 1, h)
             THEN RepliedTo(events, n - 1, h) \cup {events[n].seq} ELSE RepliedTo(events, n - 1, h)
    BY <2>1, RepliedGrows
  <2> QED BY <2>2, <2>3
<1> HIDE DEF len, after
<1>4. follows(0)
  <2>1. TimingsOf(after[0], h) = <<>>
    BY <1>2 DEF TimingsOf, NoBuilders
  <2>2. SentTo(events, 0, h) = {} /\ RepliedTo(events, 0, h) = {}
    BY DEF SentTo, RepliedTo
  <2>3. <<>> \in Seq(Probe) /\ Len(<<>>) = 0 /\ 1..0 = {}
    OBVIOUS
  <2>4. TimingsRight(<<>>, {}, {})
    BY <2>3 DEF TimingsRight
  <2> QED BY <2>1, <2>2, <2>4
<1>5. 0 \in right
  <2> HIDE DEF follows
  <2> QED BY <1>1, <1>4
<1>6. ASSUME NEW n \in 1..len, n - 1 \in right PROVE n \in right
  <2>1. n \in 0..len /\ n - 1 \in 0..len
    BY <1>1
  <2>2. follows(n - 1)
    BY <1>6
  <2> DEFINE s == after[n - 1]
             e == events[n]
             sent == SentTo(events, n - 1, h)
             replied == RepliedTo(events, n - 1, h)
             sentNow == SentTo(events, n, h)
             repliedNow == RepliedTo(events, n, h)
  <2>3. s \in RawState /\ e \in MtrLines /\ after[n] = RawStep(s, e)
    BY <1>1, <1>2, <2>1
  <2>4. /\ replied \subseteq sent
        /\ sentNow = IF e.kind = "x" /\ e.hop = h THEN sent \cup {e.seq} ELSE sent
        /\ repliedNow = IF e.kind = "p" /\ e.hop = h /\ e.seq \in sent THEN replied \cup {e.seq} ELSE replied
    BY <1>3
  <2>5. TimingsRight(TimingsOf(s, h), sent, replied)
    BY <2>2
  <2> HIDE DEF s, e, sent, replied, sentNow, repliedNow
  <2>6. TimingsRight(TimingsOf(RawStep(s, e), h), sentNow, repliedNow)
    BY <2>3, <2>4, <2>5, LineIsFollowed
  <2>7. follows(n)
    BY <2>3, <2>6 DEF sentNow, repliedNow
  <2> HIDE DEF follows
  <2> QED BY <2>1, <2>7
<1> HIDE DEF right
<1>7. \A n \in 0..len : n \in right
  BY <1>1, <1>5, <1>6, InductionUpTo
<1> HIDE DEF follows
<1>8. \A n \in 0..len : follows(n)
  BY <1>7 DEF right
<1> QED BY <1>8 DEF follows, len, after

\* Hops keep the order of the numbers they are made of.
LEMMA HopsInOrder ==
  ASSUME NEW size \in Nat, NEW kept, NEW hop, \A k \in kept : k \in Nat /\ hop[k].index = k,
         NEW all, all = HopsBelow(size, kept, hop)[size]
  PROVE  /\ all \in Seq({hop[k] : k \in kept})
         /\ \A i \in 1..Len(all) : \A j \in 1..i - 1 : j \in 1..Len(all) /\ all[j].index < all[i].index
<1> DEFINE E == {hop[k] : k \in kept}
           below == HopsBelow(size, kept, hop)
           placed(n) == \A i \in 1..Len(below[n]) :
                          /\ below[n][i].index \in 0..n - 1
                          /\ \A j \in 1..i - 1 : below[n][j].index < below[n][i].index
           right == {n \in 0..size : placed(n)}
<1>1. \A k \in kept : hop[k] \in E
  OBVIOUS
<1> HIDE DEF E
<1>2. /\ below[0] = <<>>
      /\ \A n \in 1..size : below[n] = IF n - 1 \in kept THEN Append(below[n - 1], hop[n - 1]) ELSE below[n - 1]
      /\ \A n \in 0..size : below[n] \in Seq(E)
  BY <1>1, HopsUnfold
<1> HIDE DEF below
<1>3. 0 \in right
  <2>1. 0 \in 0..size /\ 1..Len(below[0]) = {}
    BY <1>2
  <2> QED BY <2>1
<1>4. ASSUME NEW n \in 1..size, n - 1 \in right PROVE n \in right
  <2> DEFINE f == below[n - 1]
             g == below[n]
             len == Len(f)
  <2>1. n \in 0..size /\ n - 1 \in 0..size
    OBVIOUS
  <2>2. placed(n - 1)
    BY <1>4
  <2>3. f \in Seq(E) /\ len \in Nat
    BY <1>2, <2>1
  <2>4. \A i \in 1..len : f[i].index \in 0..n - 2 /\ \A j \in 1..i - 1 : f[j].index < f[i].index
    BY <2>2
  <2>5. g = IF n - 1 \in kept THEN Append(f, hop[n - 1]) ELSE f
    BY <1>2
  <2> HIDE DEF f, g
  <2>6. \A i \in 1..Len(g) : g[i].index \in 0..n - 1 /\ \A j \in 1..i - 1 : g[j].index < g[i].index
    <3>1. CASE n - 1 \in kept
      <4>1. /\ Len(g) = len + 1 /\ g[len + 1] = hop[n - 1] /\ hop[n - 1].index = n - 1
            /\ \A i \in 1..len : g[i] = f[i]
        BY <2>3, <2>5, <3>1
      <4> SUFFICES ASSUME NEW i \in 1..len + 1
                   PROVE  g[i].index \in 0..n - 1 /\ \A j \in 1..i - 1 : g[j].index < g[i].index
        BY <4>1
      <4> HIDE DEF len
      <4>2. CASE i = len + 1
        <5>1. g[i].index = n - 1 /\ \A j \in 1..i - 1 : j \in 1..len
          BY <2>3, <4>1, <4>2
        <5>2. \A j \in 1..i - 1 : g[j] = f[j] /\ f[j].index \in 0..n - 2
          BY <2>4, <4>1, <5>1
        <5>3. \A j \in 1..i - 1 : g[j].index \in 0..n - 2
          BY <5>2
        <5> QED BY <5>1, <5>3
      <4>3. CASE i \in 1..len
        <5>1. g[i] = f[i] /\ \A j \in 1..i - 1 : j \in 1..len /\ g[j] = f[j]
          BY <2>3, <4>1, <4>3
        <5>2. f[i].index \in 0..n - 2 /\ \A j \in 1..i - 1 : f[j].index < f[i].index
          BY <2>4, <4>3
        <5> QED BY <5>1, <5>2
      <4> QED BY <2>3, <4>2, <4>3
    <3>2. CASE n - 1 \notin kept
      <4>1. g = f
        BY <2>5, <3>2
      <4>2. \A m \in Int : m \in 0..n - 2 => m \in 0..n - 1
        OBVIOUS
      <4>3. \A i \in 1..Len(g) : g[i].index \in 0..n - 1
        BY <2>4, <4>1, <4>2
      <4> QED BY <2>4, <4>1, <4>3
    <3> QED BY <3>1, <3>2
  <2> QED BY <2>1, <2>6 DEF g
<1> HIDE DEF right
<1>5. \A n \in 0..size : n \in right
  BY <1>3, <1>4, InductionUpTo
<1>6. placed(size)
  <2> HIDE DEF placed
  <2>1. size \in right
    BY <1>5
  <2> QED BY <2>1 DEF right
<1>7. all = below[size] /\ all \in Seq(E)
  BY <1>2 DEF below
<1>8. \A i \in 1..Len(all) : \A j \in 1..i - 1 : all[j].index < all[i].index
  BY <1>6, <1>7
<1>9. Len(all) \in Nat
  BY <1>7
<1>10. \A i \in 1..Len(all) : \A j \in 1..i - 1 : j \in 1..Len(all)
  BY <1>9
<1> QED BY <1>7, <1>8, <1>10 DEF E

\* A hop of parse_raw's counts the probes that were sent to it.
HopCounts(h, events) ==
  /\ h = [k \in DOMAIN h |-> h[k]] /\ {"index", "stats", "timings", "asn"} \subseteq DOMAIN h
  /\ InStats(h.stats)
  /\ h.stats.total = Cardinality(SentTo(events, Len(events), h.index))
  /\ h.stats.rcv = Cardinality(RepliedTo(events, Len(events), h.index))
  /\ h.stats.rcv = Len(h.timings)
HopsCount(hops, events) ==
  /\ DOMAIN events = 1..Len(events)
  /\ \A i \in DOMAIN hops :
       /\ HopCounts(hops[i], events)
       /\ \A j \in 1..i - 1 : j \in DOMAIN hops /\ hops[j].index < hops[i].index

LEMMA HopOfCounts ==
  ASSUME NEW events \in Seq(MtrLines), NEW end, end = RawLoop(events)[Len(events)],
         NEW n \in DOMAIN end.b
  PROVE  HopCounts(HopOf(end, n, TRUE), events) /\ HopOf(end, n, TRUE).index = n
<1> DEFINE h == HopOf(end, n, TRUE)
           len == Len(events)
           t == end.b[n].timings
           rtts == [k \in DOMAIN t |-> t[k].rtt]
           st == compute_stats(rtts, TRUE)
           times == Received(rtts)
           sent == SentTo(events, len, n)
           replied == RepliedTo(events, len, n)
<1>1. len \in 0..len
  OBVIOUS
<1>2. TimingsRight(TimingsOf(end, n), sent, replied)
  BY <1>1, TimingsFollow
<1>3. TimingsOf(end, n) = t
  BY DEF TimingsOf
<1>4. replied \subseteq sent
  BY DEF RepliedTo
<1>5. rtts = [k \in DOMAIN t |-> t[k].rtt]
  OBVIOUS
<1>6. h = [ index |-> n, ip |-> end.b[n].ip, asn |-> "none",
            name  |-> IF end.b[n].name = "none" /\ end.b[n].ip \in DOMAIN end.names
                      THEN end.names[end.b[n].ip] ELSE end.b[n].name,
            stats |-> st, timings |-> times ]
  BY DEF HopOf
<1> HIDE DEF h, t, sent, replied, len, st, times
<1>7. /\ h.index = n /\ h.stats = st /\ h.timings = times
      /\ h = [k \in DOMAIN h |-> h[k]] /\ {"index", "stats", "timings", "asn"} \subseteq DOMAIN h
  BY <1>6
<1> HIDE DEF rtts
<1>8. TimingsRight(t, sent, replied)
  BY <1>2, <1>3
<1>9. /\ rtts \in Seq(Nat \cup {NoTime}) /\ Len(rtts) = Cardinality(sent)
      /\ Cardinality(Answered(rtts)) = Cardinality(replied)
  BY <1>4, <1>5, <1>8, ProbesAreCounted
<1>10. /\ InStats(st) /\ st.total = Len(rtts) /\ st.rcv = Cardinality(Answered(rtts))
       /\ st.rcv = Len(times)
  BY <1>9, StatsAddUp DEF st, times
<1>11. /\ st.total = Cardinality(SentTo(events, Len(events), n))
       /\ st.rcv = Cardinality(RepliedTo(events, Len(events), n))
  BY <1>9, <1>10 DEF sent, replied, len
<1>12. HopCounts(h, events)
  BY <1>7, <1>10, <1>11 DEF HopCounts
<1> QED BY <1>7, <1>12 DEF h

LEMMA ParseRawCounts ==
  ASSUME NEW events \in Seq(MtrLines)
  PROVE  HopsCount(parse_raw(events, TRUE), events)
<1> DEFINE end == RawLoop(events)[Len(events)]
           size == end.size
           kept == KeptOf(end)
           hop == KeptHops(end, TRUE)
           all == parse_raw(events, TRUE)
<1>1. end \in RawState
  <2>1. Len(events) \in 0..Len(events)
    OBVIOUS
  <2> QED BY <2>1, RawLoopUnfolds
<1>2. all = HopsBelow(size, kept, hop)[size]
  BY ParseRawUnfolds
<1>3. \A k \in DOMAIN end.b : HopCounts(HopOf(end, k, TRUE), events) /\ HopOf(end, k, TRUE).index = k
  BY HopOfCounts
<1> HIDE DEF end
<1>4. size \in Nat
  BY <1>1 DEF RawState
<1>5. \A k \in kept : k \in DOMAIN end.b /\ k \in Nat /\ hop[k] = HopOf(end, k, TRUE)
  BY <1>1 DEF RawState, FunctionsOn, KeptOf, KeptHops
<1> HIDE DEF size, kept, hop, all
<1>6. \A k \in kept : k \in Nat /\ hop[k].index = k /\ HopCounts(hop[k], events)
  BY <1>3, <1>5
<1>7. /\ all \in Seq({hop[k] : k \in kept})
      /\ \A i \in 1..Len(all) : \A j \in 1..i - 1 : j \in 1..Len(all) /\ all[j].index < all[i].index
  BY <1>2, <1>4, <1>6, HopsInOrder, SMTT(20), ZenonT(20)
<1>8. DOMAIN all = 1..Len(all) /\ \A i \in 1..Len(all) : \E k \in kept : all[i] = hop[k]
  BY <1>7
<1>9. \A i \in 1..Len(all) : HopCounts(all[i], events)
  BY <1>6, <1>8
<1>10. DOMAIN events = 1..Len(events)
  OBVIOUS
<1>11. HopsCount(all, events)
  BY <1>7, <1>8, <1>9, <1>10 DEF HopsCount
<1> QED BY <1>11 DEF all

\* The hops that are looked up, and those of the result, count what was printed.
MtrCounts ==
  Is("mtr") =>
    /\ pc \in {"new", "reading", "asn"} => result.status # "finished"
    /\ pc = "asn" => HopsCount(local.hops, read)
    /\ result.status = "finished" => HopsCount(result.hops, read)

LEMMA InitMtrCounts == Init => MtrCounts
BY DEF Init, Started, MtrCounts, Nothing

\* A lookup leaves the numbers of a hop alone.
LEMMA LookupKeepsCounts ==
  ASSUME NEW h, NEW events, HopCounts(h, events), NEW known
  PROVE  LET found == [h EXCEPT !.asn = IF h.ip \in known THEN "AS" ELSE @]
         IN  HopCounts(found, events) /\ found.index = h.index
<1> DEFINE found == [h EXCEPT !.asn = IF h.ip \in known THEN "AS" ELSE @]
<1>1. h = [k \in DOMAIN h |-> h[k]] /\ {"index", "stats", "timings", "asn"} \subseteq DOMAIN h
  BY DEF HopCounts
<1>2. DOMAIN found = DOMAIN h /\ found = [k \in DOMAIN found |-> found[k]]
  BY <1>1
<1>3. found.index = h.index /\ found.stats = h.stats /\ found.timings = h.timings
  BY <1>1
<1> HIDE DEF found
<1>4. HopCounts(found, events)
  BY <1>1, <1>2, <1>3 DEF HopCounts
<1> QED BY <1>3, <1>4 DEF found

\* The hops are made of the whole output, and looking them up keeps their numbers.
LEMMA MtrKeepsCounts == MtrInv /\ MtrCounts /\ [Next]_vars /\ Is("mtr") /\ MtrNext => MtrCounts'
<1> SUFFICES ASSUME MtrInv, MtrCounts, [Next]_vars, Is("mtr"), MtrNext PROVE MtrCounts'
  OBVIOUS
<1>1. CASE Reject("mtr", MtrValid) \/ SpawnFails("mtr", MtrValid)
  <2>1. pc' = "done" /\ result'.status = "error"
    BY <1>1 DEF Reject, SpawnFails, Return, Failure
  <2> QED BY <2>1 DEF MtrCounts
<1>2. CASE Spawn("mtr", MtrValid, MtrOutputs)
  <2>1. pc = "new" /\ pc' = "reading" /\ result' = result
    BY <1>2 DEF Spawn
  <2> QED BY <2>1 DEF MtrCounts
<1>3. CASE MtrCollect
  <2> DEFINE hops == parse_raw(tool, TRUE)
             last == SelectLastInSeq(hops, LAMBDA h : h.ip # NoIp)
  <2>1. pc = "reading" /\ read' = tool
    BY <1>3 DEF MtrCollect
  <2>2. \/ pc' = "done" /\ \E raw : result' = MtrFailed(raw)
        \/ pc' = "asn" /\ result' = result /\ local' = [hops |-> hops, last |-> last, limit |-> 3]
    BY <1>3 DEF MtrCollect, Return
  <2>3. HopsCount(hops, tool)
    BY ParseRawCounts DEF MtrInv
  <2> HIDE DEF hops, last
  <2>4. CASE pc' = "done" /\ \E raw : result' = MtrFailed(raw)
    <3>1. result'.status = "failed"
      BY <2>4 DEF MtrFailed
    <3> QED BY <2>4, <3>1 DEF MtrCounts
  <2>5. CASE pc' = "asn" /\ result' = result /\ local' = [hops |-> hops, last |-> last, limit |-> 3]
    <3>1. local'.hops = hops
      BY <2>5
    <3>2. result'.status # "finished"
      BY <2>1, <2>5 DEF MtrCounts
    <3> QED BY <2>1, <2>3, <2>5, <3>1, <3>2 DEF MtrCounts
  <2> QED BY <2>2, <2>4, <2>5
<1>4. CASE MtrLookup
  <2>1. PICK known : LET hops == [i \in DOMAIN local.hops |->
                           [local.hops[i] EXCEPT !.asn = IF local.hops[i].ip \in known THEN "AS" ELSE @]]
                     IN  Return([ status |-> "finished", hops |-> hops, raw |-> build_output(hops),
                                  address |-> IF local.last = 0 THEN NoIp ELSE hops[local.last].ip ])
    BY <1>4 DEF MtrLookup
  <2> DEFINE found(h) == [h EXCEPT !.asn = IF h.ip \in known THEN "AS" ELSE @]
             hops == [i \in DOMAIN local.hops |-> found(local.hops[i])]
             address == IF local.last = 0 THEN NoIp ELSE hops[local.last].ip
             raw == build_output(hops)
  <2>2. result' = [status |-> "finished", hops |-> hops, raw |-> raw, address |-> address] /\ pc' = "done"
    BY <2>1 DEF Return
  <2>3. pc = "asn" /\ read' = read
    BY <1>4 DEF MtrLookup
  <2>4. HopsCount(local.hops, read)
    BY <2>3 DEF MtrCounts
  <2>5. \A h : HopCounts(h, read) => HopCounts(found(h), read) /\ found(h).index = h.index
    BY LookupKeepsCounts
  <2> HIDE DEF found
  <2>6. DOMAIN hops = DOMAIN local.hops /\ \A i \in DOMAIN hops : hops[i] = found(local.hops[i])
    OBVIOUS
  <2> HIDE DEF hops, address, raw
  <2>7. \A i \in DOMAIN hops : HopCounts(hops[i], read) /\ hops[i].index = local.hops[i].index
    BY <2>4, <2>5, <2>6 DEF HopsCount
  <2>8. HopsCount(hops, read)
    BY <2>4, <2>6, <2>7 DEF HopsCount
  <2> QED BY <2>2, <2>3, <2>8 DEF MtrCounts
<1> QED BY <1>1, <1>2, <1>3, <1>4 DEF MtrNext

\* The three invariants together, and that every step keeps them.
CountsInv == UntoldInv /\ HttpCounts /\ TcpCounts /\ MtrCounts

LEMMA InitCounts == Init => CountsInv
BY InitUntold, InitHttpCounts, InitTcpCounts, InitMtrCounts DEF CountsInv

LEMMA NextCounts == CountsInv /\ [Next]_vars => CountsInv'
<1> SUFFICES ASSUME CountsInv, [Next]_vars PROVE CountsInv'
  OBVIOUS
<1>1. (Is("http")' <=> Is("http")) /\ (Is("tcp")' <=> Is("tcp")) /\ (Is("mtr")' <=> Is("mtr"))
  BY NextKeepsJob DEF Is
<1>2. HttpCounts /\ TcpCounts /\ MtrCounts /\ MtrInv /\ UntoldInv'
  BY NextUntold DEF CountsInv, UntoldInv
<1>3. ~Is("http") => HttpCounts'
  BY <1>1 DEF HttpCounts
<1>4. ~Is("tcp") => TcpCounts'
  BY <1>1 DEF TcpCounts
<1>5. ~Is("mtr") => MtrCounts'
  BY <1>1 DEF MtrCounts
<1>6. Is("tcp") => TcpCounts'
  BY <1>2, NextTcpCounts
<1>7. /\ Next /\ Is("http") => HttpNext \/ Drop \/ Emit
      /\ Next /\ Is("mtr") => MtrNext \/ Drop \/ Emit
  BY OwnSteps DEF Is
<1>8. CASE Drop
  <2>1. pc' = "done" /\ result'.status = "timeout"
    BY <1>8 DEF Drop, Return, TimedOut
  <2>2. HttpCounts' /\ MtrCounts'
    BY <2>1 DEF HttpCounts, MtrCounts
  <2> QED BY <1>2, <1>4, <1>6, <2>2 DEF CountsInv
<1>9. CASE Emit
  <2>1. pc = "done" /\ pc' = "emitted" /\ read' = read /\ local' = local
    BY <1>9 DEF Emit
  <2>2. CASE Is("http") /\ result.status = "finished"
    <3>1. result' = [result EXCEPT !.raw = limit_raw_output(@)]
      BY <1>9, <2>2 DEF Emit
    <3>2. Measured(result)
      BY <1>2, <2>2 DEF HttpCounts
    <3>3. Measured(result')
      <4> DEFINE limited == limit_raw_output(result.raw)
      <4>1. result' = [result EXCEPT !.raw = limited]
        BY <3>1
      <4> HIDE DEF limited
      <4> QED BY <3>2, <4>1, StillMeasured
    <3>4. HttpCounts'
      BY <2>1, <3>3 DEF HttpCounts
    <3>5. ~Is("mtr")
      BY <2>2 DEF Is
    <3> QED BY <1>2, <1>4, <1>5, <1>6, <3>4, <3>5 DEF CountsInv
  <2>3. CASE ~(Is("http") /\ result.status = "finished")
    <3>1. result' = result
      BY <1>9, <2>3 DEF Emit
    <3>2. HttpCounts' /\ MtrCounts'
      BY <1>1, <1>2, <2>1, <3>1 DEF HttpCounts, MtrCounts
    <3> QED BY <1>2, <1>4, <1>6, <3>2 DEF CountsInv
  <2> QED BY <2>2, <2>3
<1>10. CASE UNCHANGED vars
  <2>1. UNCHANGED <<pc, result, local, read>>
    BY <1>10 DEF vars
  <2>2. HttpCounts' /\ MtrCounts'
    BY <1>1, <1>2, <2>1 DEF HttpCounts, MtrCounts
  <2> QED BY <1>2, <1>4, <1>6, <2>2 DEF CountsInv
<1>11. CASE Is("http") /\ HttpNext
  <2>1. HttpCounts' /\ ~Is("mtr")
    BY <1>2, <1>11, HttpKeepsCounts DEF Is
  <2> QED BY <1>2, <1>4, <1>5, <1>6, <2>1 DEF CountsInv
<1>12. CASE Is("mtr") /\ MtrNext
  <2>1. MtrCounts' /\ ~Is("http")
    BY <1>2, <1>12, MtrKeepsCounts DEF Is
  <2> QED BY <1>2, <1>3, <1>4, <1>6, <2>1 DEF CountsInv
<1>13. ~Is("http") /\ ~Is("mtr") => CountsInv'
  BY <1>2, <1>3, <1>4, <1>5, <1>6 DEF CountsInv
<1> QED BY <1>7, <1>8, <1>9, <1>10, <1>11, <1>12, <1>13

\* What is sent and answered, as the property says it.
LEMMA SentAndReplied ==
  ASSUME NEW events, DOMAIN events = 1..Len(events), NEW hop, NEW seqs,
         seqs = {e.seq : e \in {x \in ToSet(events) : x.kind = "x" /\ x.hop = hop}}
  PROVE  /\ seqs = SentTo(events, Len(events), hop)
         /\ {s \in seqs : \E i, j \in DOMAIN events :
               /\ i < j /\ events[i].kind = "x" /\ events[j].kind = "p"
               /\ \A k \in {i, j} : events[k].hop = hop /\ events[k].seq = s}
            = RepliedTo(events, Len(events), hop)
<1> DEFINE len == Len(events)
<1>1. \A q : q \in seqs <=> \E k \in 1..len : events[k].kind = "x" /\ events[k].hop = hop /\ events[k].seq = q
  BY DEF ToSet
<1>2. \A q : q \in SentTo(events, len, hop) <=>
               \E k \in 1..len : events[k].kind = "x" /\ events[k].hop = hop /\ events[k].seq = q
  BY DEF SentTo
<1>3. seqs = SentTo(events, len, hop)
  BY <1>1, <1>2
<1> QED BY <1>3 DEF RepliedTo

\* A hop's counts in the terms of the property.
LEMMA HopAddsUp ==
  ASSUME NEW hops, NEW events, HopsCount(hops, events), NEW n \in DOMAIN hops
  PROVE  LET seqs(hop) == {e.seq : e \in {x \in ToSet(events) : x.kind = "x" /\ x.hop = hop}}
             answered(hop) == {s \in seqs(hop) : \E i, j \in DOMAIN events :
               /\ i < j /\ events[i].kind = "x" /\ events[j].kind = "p"
               /\ \A k \in {i, j} : events[k].hop = hop /\ events[k].seq = s}
             h == hops[n]
         IN  /\ h.stats.drop + h.stats.rcv = h.stats.total
             /\ h.stats.min <= h.stats.max
             /\ h.stats.min - 5 <= h.stats.avg /\ h.stats.avg <= h.stats.max + 5
             /\ h.stats.total = Cardinality(seqs(h.index))
             /\ h.stats.rcv = Cardinality(answered(h.index))
             /\ h.stats.rcv = Len(h.timings)
             /\ h.stats.jMin <= h.stats.jAvg /\ h.stats.jAvg <= h.stats.jMax
             /\ h.stats.stDev <= h.stats.max - h.stats.min + 10
             /\ \A j \in 1..n - 1 : hops[j].index < h.index
<1> DEFINE h == hops[n]
           seqs == {e.seq : e \in {x \in ToSet(events) : x.kind = "x" /\ x.hop = h.index}}
           answered == {s \in seqs : \E i, j \in DOMAIN events :
             /\ i < j /\ events[i].kind = "x" /\ events[j].kind = "p"
             /\ \A k \in {i, j} : events[k].hop = h.index /\ events[k].seq = s}
<1>1. HopCounts(h, events) /\ \A j \in 1..n - 1 : hops[j].index < h.index
  BY DEF HopsCount
<1>2. DOMAIN events = 1..Len(events)
  BY DEF HopsCount
<1>3. seqs = SentTo(events, Len(events), h.index) /\ answered = RepliedTo(events, Len(events), h.index)
  BY <1>2, SentAndReplied
<1> HIDE DEF seqs, answered
<1>4. h.stats.total = Cardinality(seqs) /\ h.stats.rcv = Cardinality(answered)
  BY <1>1, <1>3 DEF HopCounts
<1>5. InStats(h.stats) /\ h.stats.rcv = Len(h.timings)
  BY <1>1 DEF HopCounts
<1> QED BY <1>1, <1>4, <1>5 DEF InStats, seqs, answered

\* In a finished mtr run every hop's counts are those of the events mtr printed
\* of it, its lowest, average and highest times and jitter are in order, and the
\* hops keep mtr's order (parse_raw, compute_stats); a TCP ping has an answer or
\* a loss for every probe and its sum lies between the extremes
\* (compute_tcp_stats); the phases of an HTTP request make up its time but for
\* one rounding each (parse_output's timings).
THEOREM CountsAgree == Spec => []CountsAddUp
<1>1. CountsInv => CountsAddUp
  <2> SUFFICES ASSUME CountsInv PROVE CountsAddUp
    OBVIOUS
  <2>1. HttpCounts /\ TcpCounts /\ MtrCounts
    BY DEF CountsInv
  <2>2. ASSUME Finished("mtr"), NEW n \in DOMAIN result.hops
        PROVE  LET seqs(hop) == {e.seq : e \in {x \in ToSet(read) : x.kind = "x" /\ x.hop = hop}}
                   answered(hop) == {s \in seqs(hop) : \E i, j \in DOMAIN read :
                     /\ i < j /\ read[i].kind = "x" /\ read[j].kind = "p"
                     /\ \A k \in {i, j} : read[k].hop = hop /\ read[k].seq = s}
                   h == result.hops[n]
               IN  /\ h.stats.drop + h.stats.rcv = h.stats.total
                   /\ h.stats.min <= h.stats.max
                   /\ h.stats.min - 5 <= h.stats.avg /\ h.stats.avg <= h.stats.max + 5
                   /\ h.stats.total = Cardinality(seqs(h.index))
                   /\ h.stats.rcv = Cardinality(answered(h.index))
                   /\ h.stats.rcv = Len(h.timings)
                   /\ h.stats.jMin <= h.stats.jAvg /\ h.stats.jAvg <= h.stats.jMax
                   /\ h.stats.stDev <= h.stats.max - h.stats.min + 10
                   /\ \A j \in 1..n - 1 : result.hops[j].index < h.index
    <3>1. HopsCount(result.hops, read)
      BY <2>1, <2>2 DEF Finished, MtrCounts
    <3> QED BY <2>2, <3>1, HopAddsUp
  <2>3. Is("tcp") /\ result # Nothing =>
          /\ result.rcv + result.drop = job.packets
          /\ result.rcv = Cardinality({i \in DOMAIN read : read[i] # NoTime})
          /\ result.rcv > 0 => result.min * result.rcv <= result.sum /\ result.sum <= result.max * result.rcv
    BY <2>1, TcpAddsUp
  <2>4. Finished("http") =>
          LET t == result.timings
          IN  (t.dns + t.tcp + t.tls + t.firstByte + t.download) - t.total \in -3..3
    BY <2>1 DEF Finished, HttpCounts, Measured, MakeUp
  <2>5. LET seqs(hop) == {e.seq : e \in {x \in ToSet(read) : x.kind = "x" /\ x.hop = hop}}
            answered(hop) == {s \in seqs(hop) : \E i, j \in DOMAIN read :
              /\ i < j /\ read[i].kind = "x" /\ read[j].kind = "p"
              /\ \A k \in {i, j} : read[k].hop = hop /\ read[k].seq = s}
        IN  Finished("mtr") => \A i \in DOMAIN result.hops :
              LET h == result.hops[i]
              IN  /\ h.stats.drop + h.stats.rcv = h.stats.total
                  /\ h.stats.min <= h.stats.max
                  /\ h.stats.min - 5 <= h.stats.avg /\ h.stats.avg <= h.stats.max + 5
                  /\ h.stats.total = Cardinality(seqs(h.index))
                  /\ h.stats.rcv = Cardinality(answered(h.index))
                  /\ h.stats.rcv = Len(h.timings)
                  /\ h.stats.jMin <= h.stats.jAvg /\ h.stats.jAvg <= h.stats.jMax
                  /\ h.stats.stDev <= h.stats.max - h.stats.min + 10
                  /\ \A j \in 1..i - 1 : result.hops[j].index < h.index
    BY <2>2, Zenon
  <2> QED BY <2>3, <2>4, <2>5 DEF CountsAddUp
<1> QED BY <1>1, InitCounts, NextCounts, PTL DEF Spec

----------------------------------------------------------------------------
(* The headers of a response, and what is left of them *)

\* A quotient rounded up.
LEMMA RoundedUp ==
  ASSUME NEW d \in Nat, NEW n \in Nat, n > 0
  PROVE  /\ (d + n - 1) \div n \in Nat
         /\ d <= ((d + n - 1) \div n) * n
         /\ ((d + n - 1) \div n) * n < d + n
<1> DEFINE a == d + n - 1
           q == a \div n
<1>1. a \in Nat /\ n \in Nat \ {0}
  OBVIOUS
<1> HIDE DEF a
<1>2. q \in Nat /\ a = n * q + (a % n) /\ a % n \in 0..n - 1
  BY <1>1
<1>3. n * q = q * n /\ q * n \in Nat
  BY <1>2
<1> HIDE DEF q
<1>4. a < q * n + n /\ q * n <= a
  BY <1>1, <1>2, <1>3
<1>5. a = d + n - 1
  BY DEF a
<1>6. q * n < d + n /\ d <= q * n
  BY <1>1, <1>3, <1>4, <1>5
<1> QED BY <1>2, <1>6 DEF q, a

\* No length is more than the cap.
Capped(lengths, c) == [i \in DOMAIN lengths |-> Smaller(lengths[i], c)]

LEMMA CappedTyped ==
  ASSUME NEW lengths \in Seq(Nat), NEW c \in Nat
  PROVE  /\ Capped(lengths, c) \in Seq(Nat) /\ Len(Capped(lengths, c)) = Len(lengths)
         /\ \A i \in 1..Len(lengths) : Capped(lengths, c)[i] = Smaller(lengths[i], c)
         /\ Total(Capped(lengths, c)) \in Nat
<1> DEFINE len == Len(lengths)
           capped == Capped(lengths, c)
<1>1. len \in Nat /\ DOMAIN lengths = 1..len /\ \A i \in 1..len : lengths[i] \in Nat
  OBVIOUS
<1>2. capped \in [1..len -> Nat] /\ \A i \in 1..len : capped[i] = Smaller(lengths[i], c)
  BY <1>1 DEF Capped, Smaller
<1> HIDE DEF capped, len
<1>3. \A n \in Nat : \A t \in [1..n -> Nat] : t \in Seq(Nat) /\ Len(t) = n
  OBVIOUS
<1>4. capped \in Seq(Nat) /\ Len(capped) = len
  BY <1>1, <1>2, <1>3
<1>5. \A i \in 1..Len(capped) : capped[i] <= capped[i]
  <2>1. \A i \in 1..Len(capped) : capped[i] \in Nat
    BY <1>4
  <2> QED BY <2>1
<1>6. Total(capped) \in Nat
  BY <1>4, <1>5, TotalsOrdered
<1> QED BY <1>2, <1>4, <1>6 DEF capped, len

\* Two caps that no length lies between differ by as much for every longer one.
LEMMA CapsApart ==
  ASSUME NEW lengths \in Seq(Nat), NEW low \in Nat, NEW high \in Nat, low <= high, NEW S,
         \A i \in 1..Len(lengths) : IF i \in S THEN lengths[i] >= high ELSE lengths[i] <= low
  PROVE  /\ Cardinality(S \cap (1..Len(lengths))) \in Nat
         /\ Total(Capped(lengths, high))
              = Total(Capped(lengths, low)) + (high - low) * Cardinality(S \cap (1..Len(lengths)))
<1> DEFINE u == Capped(lengths, high)
           w == Capped(lengths, low)
           d == high - low
<1>1. /\ u \in Seq(Nat) /\ Len(u) = Len(lengths) /\ w \in Seq(Nat) /\ Len(w) = Len(lengths)
      /\ \A i \in 1..Len(lengths) : u[i] = Smaller(lengths[i], high) /\ w[i] = Smaller(lengths[i], low)
  BY CappedTyped
<1>2. d \in Nat /\ low + d = high
  OBVIOUS
<1> HIDE DEF u, w, d
<1>3. \A i \in 1..Len(lengths) : u[i] = IF i \in S THEN w[i] + d ELSE w[i]
  <2> SUFFICES ASSUME NEW i \in 1..Len(lengths) PROVE u[i] = IF i \in S THEN w[i] + d ELSE w[i]
    OBVIOUS
  <2>1. lengths[i] \in Nat /\ u[i] = Smaller(lengths[i], high) /\ w[i] = Smaller(lengths[i], low)
    BY <1>1
  <2>2. IF i \in S THEN lengths[i] >= high ELSE lengths[i] <= low
    BY <1>1
  <2>3. CASE i \in S
    <3>1. u[i] = high /\ w[i] = low
      BY <2>1, <2>2, <2>3, <1>2 DEF Smaller
    <3> QED BY <1>2, <2>3, <3>1
  <2>4. CASE i \notin S
    <3>1. u[i] = lengths[i] /\ w[i] = lengths[i]
      BY <2>1, <2>2, <2>4 DEF Smaller
    <3> QED BY <2>4, <3>1
  <2> QED BY <2>3, <2>4
<1>4. u = Raised(w, S, d)
  <2>1. DOMAIN w = 1..Len(lengths) /\ DOMAIN u = 1..Len(lengths) /\ u = [i \in DOMAIN u |-> u[i]]
    BY <1>1
  <2>2. u = [i \in 1..Len(lengths) |-> IF i \in S THEN w[i] + d ELSE w[i]]
    BY <1>3, <2>1
  <2> QED BY <2>1, <2>2 DEF Raised
<1>5. /\ Cardinality(S \cap (1..Len(w))) \in Nat
      /\ Total(Raised(w, S, d)) = Total(w) + d * Cardinality(S \cap (1..Len(w)))
  BY <1>1, <1>2, TotalOfRaised
<1> QED BY <1>1, <1>4, <1>5 DEF u, w, d

\* A greater cap leaves no less.
LEMMA CapsInOrder ==
  ASSUME NEW lengths \in Seq(Nat), NEW low \in Nat, NEW high \in Nat, low <= high
  PROVE  Total(Capped(lengths, low)) <= Total(Capped(lengths, high))
<1> DEFINE u == Capped(lengths, high)
           w == Capped(lengths, low)
<1>1. /\ u \in Seq(Nat) /\ Len(u) = Len(lengths) /\ w \in Seq(Nat) /\ Len(w) = Len(lengths)
      /\ \A i \in 1..Len(lengths) : u[i] = Smaller(lengths[i], high) /\ w[i] = Smaller(lengths[i], low)
  BY CappedTyped
<1> HIDE DEF u, w
<1>2. \A i \in 1..Len(u) : w[i] <= u[i]
  <2> SUFFICES ASSUME NEW i \in 1..Len(u) PROVE w[i] <= u[i]
    OBVIOUS
  <2>1. lengths[i] \in Nat /\ u[i] = Smaller(lengths[i], high) /\ w[i] = Smaller(lengths[i], low)
    BY <1>1
  <2> QED BY <2>1 DEF Smaller
<1>3. Total(w) <= Total(u)
  BY <1>1, <1>2, TotalsOrdered
<1> QED BY <1>3 DEF u, w

\* value_cap is the greatest cap that keeps the lengths within the budget.
LEMMA CapFits ==
  ASSUME NEW lengths \in Seq(Nat), NEW budget \in Nat, Total(lengths) > budget
  PROVE  /\ value_cap(lengths, budget) \in Nat
         /\ Total(Capped(lengths, value_cap(lengths, budget))) <= budget
         /\ Total(Capped(lengths, value_cap(lengths, budget) + 1)) > budget
<1> DEFINE len == Len(lengths)
           sum(c) == Total(Capped(lengths, c))
           values == {0} \cup ToSet(lengths)
           within == {c \in values : sum(c) <= budget}
           fits == Max(within)
           longer == {i \in DOMAIN lengths : lengths[i] > fits}
           above == {lengths[i] : i \in longer}
           least == Min(above)
           count == Cardinality(longer)
           part == (sum(least) - budget + count - 1) \div count
           top == Highest(lengths)
<1>1. len \in Nat /\ DOMAIN lengths = 1..len /\ \A i \in 1..len : lengths[i] \in Nat
  OBVIOUS
<1>2. value_cap(lengths, budget) = least - part
  BY DEF value_cap, CapBy, Bytes, Capped
<1> DEFINE zero == 0
<1>0. zero \in Int /\ (\A n \in Nat : zero * n = 0) /\ \A x \in {0} : zero <= x /\ x <= zero
  OBVIOUS
<1> HIDE DEF zero
<1>3. lengths # <<>> /\ lengths \in Seq(Int)
  <2>1. ASSUME lengths = <<>> PROVE FALSE
    <3>1. \A i \in 1..Len(lengths) : zero <= lengths[i] /\ lengths[i] <= zero
      BY <2>1
    <3>2. Total(lengths) <= zero * Len(lengths)
      BY <1>0, <3>1, TotalBetween
    <3>3. Total(lengths) <= 0 /\ Total(lengths) \in Nat
      BY <1>0, <1>1, <3>1, <3>2, TotalBetween
    <3> QED BY <3>3
  <2> QED BY <2>1
<1>4. top \in Nat /\ (\A i \in 1..len : lengths[i] <= top) /\ \E i \in 1..len : top = lengths[i]
  <2>1. \E i \in 1..Len(lengths) : Highest(lengths) = lengths[i]
    BY <1>3, ExtremesExist
  <2>2. \A i \in 1..Len(lengths) : lengths[i] <= Highest(lengths)
    BY <1>3, ExtremesExist
  <2> QED BY <1>1, <2>1, <2>2
<1>5. values \subseteq 0..top /\ \A i \in 1..len : lengths[i] \in values
  <2>1. \A i \in 1..len : lengths[i] \in 0..top
    BY <1>1, <1>4
  <2>2. 0 \in 0..top
    BY <1>4
  <2>3. ToSet(lengths) = {lengths[i] : i \in 1..len}
    BY <1>1 DEF ToSet
  <2> QED BY <2>1, <2>2, <2>3
<1>6. \A c \in Nat : sum(c) \in Nat
  BY CappedTyped
<1> HIDE DEF len, sum, values, top
<1>7. fits \in within /\ \A c \in within : c <= fits
  <2>1. sum(0) <= budget
    <3> DEFINE none == Capped(lengths, 0)
    <3>1. none \in Seq(Nat) /\ Len(none) = len /\ \A i \in 1..len : none[i] = Smaller(lengths[i], 0)
      BY CappedTyped DEF len
    <3> HIDE DEF none
    <3>2. \A i \in 1..Len(none) : zero <= none[i] /\ none[i] <= zero
      <4>1. \A i \in 1..Len(none) : none[i] = 0
        BY <1>1, <3>1 DEF Smaller
      <4> QED BY <1>0, <4>1
    <3>3. Total(none) <= zero * Len(none) /\ Total(none) \in Nat
      BY <1>0, <3>1, <3>2, TotalBetween
    <3>4. zero * Len(none) = 0
      BY <1>0, <1>1, <3>1
    <3> QED BY <3>3, <3>4 DEF sum, none
  <2>2. 0 \in within
    BY <2>1 DEF values
  <2>3. within \in SUBSET (0..top)
    BY <1>5
  <2> HIDE DEF within
  <2> QED BY <1>4, <2>2, <2>3, MaxIsMember
<1> HIDE DEF fits
<1>8. fits \in Nat /\ sum(fits) <= budget
  BY <1>4, <1>5, <1>7
<1>9. sum(top) > budget
  <2>1. Capped(lengths, top) = lengths
    <3>1. \A i \in 1..len : Smaller(lengths[i], top) = lengths[i]
      BY <1>1, <1>4 DEF Smaller
    <3>2. Capped(lengths, top) = [i \in 1..len |-> lengths[i]]
      BY <1>1, <3>1 DEF Capped
    <3> QED BY <1>1, <3>2
  <2> QED BY <2>1 DEF sum
<1>10. \E i \in 1..len : lengths[i] > fits
  <2>1. fits # top
    BY <1>6, <1>8, <1>9
  <2>2. fits <= top
    BY <1>4, <1>5, <1>7
  <2> QED BY <1>1, <1>4, <1>8, <2>1, <2>2
<1>11. least \in above /\ \A x \in above : least <= x
  <2>1. above \in SUBSET (0..top)
    BY <1>1, <1>4
  <2>2. above # {}
    BY <1>1, <1>10
  <2> HIDE DEF above
  <2> QED BY <1>4, <2>1, <2>2, MinIsMember
<1>12. /\ least \in Nat /\ least > fits /\ least \in values
       /\ \A i \in 1..len : IF i \in longer THEN lengths[i] >= least ELSE lengths[i] <= fits
  <2> HIDE DEF least
  <2>1. PICK i \in longer : least = lengths[i]
    BY <1>11
  <2>2. \A j \in longer : least <= lengths[j]
    BY <1>11
  <2>3. \A j \in 1..len : j \in longer \/ lengths[j] <= fits
    BY <1>1, <1>8
  <2>4. \A j \in longer : j \in 1..len /\ lengths[j] > fits
    BY <1>1
  <2> HIDE DEF longer
  <2>5. \A j \in 1..len : IF j \in longer THEN lengths[j] >= least ELSE lengths[j] <= fits
    BY <1>1, <2>1, <2>2, <2>3, <2>4
  <2> QED BY <1>1, <1>5, <2>1, <2>4, <2>5
<1>13. longer \cap (1..len) = longer
  BY <1>1
<1> HIDE DEF least, longer
<1>14. ASSUME NEW c \in Nat, fits <= c, c <= least
       PROVE  count \in Nat /\ sum(least) = sum(c) + (least - c) * count
  <2>1. \A i \in 1..Len(lengths) : IF i \in longer THEN lengths[i] >= least ELSE lengths[i] <= c
    BY <1>1, <1>8, <1>12, <1>14 DEF len
  <2>2. /\ Cardinality(longer \cap (1..Len(lengths))) \in Nat
        /\ Total(Capped(lengths, least))
             = Total(Capped(lengths, c)) + (least - c) * Cardinality(longer \cap (1..Len(lengths)))
    BY <1>12, <1>14, <2>1, CapsApart
  <2> QED BY <1>13, <2>2 DEF len, sum
<1>15. sum(least) > budget
  BY <1>6, <1>7, <1>8, <1>12
<1>16. count \in Nat /\ sum(least) = sum(fits) + (least - fits) * count
  BY <1>8, <1>12, <1>14
<1> HIDE DEF count, within, above
<1> DEFINE diff == sum(least) - budget
<1>17. diff \in Nat /\ diff > 0 /\ diff <= (least - fits) * count
  <2> DEFINE product == (least - fits) * count
  <2>1. product \in Int /\ sum(least) = sum(fits) + product /\ sum(fits) \in Nat /\ sum(least) \in Nat
    BY <1>6, <1>8, <1>12, <1>16
  <2> HIDE DEF product
  <2>2. diff \in Nat /\ diff > 0 /\ diff <= product
    BY <1>8, <1>15, <2>1
  <2> QED BY <2>2 DEF product
<1>18. count > 0
  <2>1. count = 0 => (least - fits) * count = 0
    BY <1>8, <1>12
  <2> QED BY <1>16, <1>17, <2>1
<1>19. part \in Nat /\ diff <= part * count /\ part * count < diff + count
  BY <1>16, <1>17, <1>18, RoundedUp
<1> HIDE DEF diff
<1> HIDE DEF part
<1>20. part > 0 /\ part <= least - fits
  <2>1. part = 0 => part * count = 0
    BY <1>16
  <2>2. (part - 1) * count = part * count - count /\ part * count \in Nat
    BY <1>16, <1>19
  <2>3. (part - 1) * count < (least - fits) * count
    <3> DEFINE product == (least - fits) * count
               all == part * count
    <3>1. product \in Int /\ all \in Nat /\ diff <= product /\ all < diff + count
      BY <1>8, <1>12, <1>16, <1>17, <1>19, <2>2
    <3>2. (part - 1) * count = all - count
      BY <2>2
    <3> HIDE DEF product, all
    <3>3. (part - 1) * count < product
      BY <1>16, <1>17, <3>1, <3>2
    <3> QED BY <3>3 DEF product
  <2>4. part - 1 < least - fits
    BY <1>8, <1>12, <1>16, <1>18, <1>19, <2>3, FactorsCancel
  <2> QED BY <1>8, <1>12, <1>17, <1>19, <2>1, <2>4
<1> DEFINE cap == least - part
<1>21. cap \in Nat /\ fits <= cap /\ cap <= least /\ cap + 1 \in Nat /\ fits <= cap + 1 /\ cap + 1 <= least
  BY <1>8, <1>12, <1>19, <1>20
<1>22. sum(least) = sum(cap) + part * count
  <2>1. sum(least) = sum(cap) + (least - cap) * count
    BY <1>14, <1>21
  <2>2. least - cap = part
    BY <1>12, <1>19
  <2> QED BY <2>1, <2>2
<1>23. sum(least) = sum(cap + 1) + (part * count - count)
  <2> DEFINE more == cap + 1
  <2>1. more \in Nat /\ fits <= more /\ more <= least
    BY <1>21
  <2>2. least - more = part - 1
    BY <1>12, <1>19
  <2> HIDE DEF more
  <2>3. sum(least) = sum(more) + (least - more) * count
    BY <1>14, <2>1
  <2>4. (part - 1) * count = part * count - count
    BY <1>16, <1>19
  <2> QED BY <2>2, <2>3, <2>4 DEF more
<1>24. part * count \in Nat /\ sum(cap) \in Nat /\ sum(cap + 1) \in Nat /\ sum(least) \in Nat
  BY <1>6, <1>12, <1>16, <1>19, <1>21
<1>25. value_cap(lengths, budget) = cap
  BY <1>2 DEF cap
<1> HIDE DEF cap
<1>26. sum(cap) <= budget
  BY <1>17, <1>19, <1>22, <1>24 DEF diff
<1>27. sum(cap + 1) > budget
  BY <1>16, <1>17, <1>19, <1>23, <1>24 DEF diff
<1> QED BY <1>21, <1>25, <1>26, <1>27 DEF sum

\* What the names and the values of headers take.
NameSizes(hs) == [i \in DOMAIN hs |-> hs[i].bytes + 3]
ValueSizes(hs) == [i \in DOMAIN hs |-> Bytes(hs[i].value)]

LEMMA HeaderSizes ==
  ASSUME NEW hs \in Seq(Headers)
  PROVE  /\ ValueSizes(hs) \in Seq(Nat) /\ Len(ValueSizes(hs)) = Len(hs)
         /\ \A i \in 1..Len(hs) : ValueSizes(hs)[i] = Bytes(hs[i].value)
         /\ Total(NameSizes(hs)) \in Nat /\ Total(ValueSizes(hs)) \in Nat
         /\ headers_size(hs) = Total(NameSizes(hs)) + Total(ValueSizes(hs)) - 1
         /\ headers_min_size(hs) = Total(NameSizes(hs)) + Total(Capped(ValueSizes(hs), MARK)) - 1
<1> DEFINE len == Len(hs)
           names == NameSizes(hs)
           values == ValueSizes(hs)
           capped == Capped(values, MARK)
           sizes == [i \in DOMAIN hs |-> pair_size(hs[i])]
           least == [i \in DOMAIN hs |-> pair_min_size(hs[i])]
<1>1. len \in Nat /\ DOMAIN hs = 1..len /\ MARK \in Nat
  BY HttpAssumption
<1>2. \A i \in 1..len : hs[i].bytes \in Nat /\ Bytes(hs[i].value) \in Nat
  <2> SUFFICES ASSUME NEW i \in 1..len PROVE hs[i].bytes \in Nat /\ Bytes(hs[i].value) \in Nat
    OBVIOUS
  <2>1. hs[i] \in Headers
    OBVIOUS
  <2>2. hs[i].bytes \in Nat /\ hs[i].value \in Text
    BY <2>1 DEF Headers
  <2>3. Len(hs[i].value) \in 0..Len(hs[i].value)
    BY <2>2 DEF Text
  <2> QED BY <2>2, <2>3, BytesGrow
<1> HIDE DEF len
<1>3. \A t \in [1..len -> Nat] : t \in Seq(Nat) /\ Len(t) = len
  BY <1>1
<1>4. names \in [1..len -> Nat] /\ \A i \in 1..len : names[i] = hs[i].bytes + 3
  BY <1>1, <1>2 DEF NameSizes
<1>5. values \in [1..len -> Nat] /\ \A i \in 1..len : values[i] = Bytes(hs[i].value)
  BY <1>1, <1>2 DEF ValueSizes
<1>6. sizes \in [1..len -> Nat] /\ \A i \in 1..len : sizes[i] = (hs[i].bytes + 3) + Bytes(hs[i].value)
  <2>1. \A i \in 1..len : pair_size(hs[i]) = (hs[i].bytes + 3) + Bytes(hs[i].value)
    BY <1>2 DEF pair_size
  <2>2. \A i \in 1..len : (hs[i].bytes + 3) + Bytes(hs[i].value) \in Nat
    BY <1>2
  <2> QED BY <1>1, <2>1, <2>2
<1>7. least \in [1..len -> Nat] /\ \A i \in 1..len : least[i] = (hs[i].bytes + 3) + Smaller(Bytes(hs[i].value), MARK)
  <2>1. \A i \in 1..len : Smaller(Bytes(hs[i].value), MARK) \in Nat
    BY <1>1, <1>2 DEF Smaller
  <2>2. \A i \in 1..len : pair_min_size(hs[i]) = (hs[i].bytes + 3) + Smaller(Bytes(hs[i].value), MARK)
    BY <1>2, <2>1 DEF pair_min_size
  <2>3. \A i \in 1..len : (hs[i].bytes + 3) + Smaller(Bytes(hs[i].value), MARK) \in Nat
    BY <1>2, <2>1
  <2> QED BY <1>1, <2>2, <2>3
<1>8. headers_size(hs) = Total(sizes) - 1 /\ headers_min_size(hs) = Total(least) - 1
  BY DEF headers_size, headers_min_size, Bytes
<1> HIDE DEF names, values, sizes, least
<1>9. /\ names \in Seq(Nat) /\ values \in Seq(Nat) /\ sizes \in Seq(Nat) /\ least \in Seq(Nat)
      /\ Len(names) = len /\ Len(values) = len /\ Len(sizes) = len /\ Len(least) = len
  BY <1>3, <1>4, <1>5, <1>6, <1>7
<1>10. capped \in Seq(Nat) /\ Len(capped) = len /\ \A i \in 1..len : capped[i] = Smaller(values[i], MARK)
  BY <1>1, <1>9, CappedTyped
<1> HIDE DEF capped
<1>11. /\ Total(sizes) = Total(names) + Total(values)
       /\ Total(sizes) \in Nat /\ Total(names) \in Nat /\ Total(values) \in Nat
  <2>1. \A i \in 1..Len(values) : sizes[i] = names[i] + values[i]
    BY <1>4, <1>5, <1>6, <1>9
  <2> QED BY <1>9, <2>1, TotalsAdd
<1>12. Total(least) = Total(names) + Total(capped) /\ Total(capped) \in Nat /\ Total(least) \in Nat
  <2>1. \A i \in 1..Len(capped) : least[i] = names[i] + capped[i]
    <3>1. \A i \in 1..len : capped[i] = Smaller(Bytes(hs[i].value), MARK)
      BY <1>5, <1>10
    <3> QED BY <1>4, <1>7, <1>10, <3>1
  <2>2. /\ capped \in Seq(Nat) /\ names \in Seq(Nat) /\ least \in Seq(Nat)
        /\ Len(least) = Len(capped) /\ Len(names) = Len(capped)
    BY <1>9, <1>10
  <2> QED BY <2>1, <2>2, TotalsAdd
<1>13. /\ headers_size(hs) = Total(names) + Total(values) - 1
       /\ headers_min_size(hs) = Total(names) + Total(capped) - 1
  BY <1>8, <1>11, <1>12
<1> QED BY <1>5, <1>9, <1>11, <1>13 DEF names, values, capped, len

\* A marker takes as many bytes as it has.
LEMMA MarkerBytes == \A n \in Nat : Bytes([i \in 1..n |-> 1]) = n
<1> SUFFICES ASSUME NEW n \in Nat PROVE Bytes([i \in 1..n |-> 1]) = n
  OBVIOUS
<1> DEFINE m == [i \in 1..n |-> 1]
           one == 1
<1>1. m \in Seq(Nat) /\ Len(m) = n
  BY MarkerIsText DEF Text
<1>2. \A i \in 1..n : m[i] = one
  OBVIOUS
<1>3. one \in Int /\ one <= one /\ one * n = n
  OBVIOUS
<1> HIDE DEF m, one
<1>4. \A i \in 1..Len(m) : one <= m[i] /\ m[i] <= one
  BY <1>1, <1>2, <1>3
<1>5. Total(m) \in Nat /\ one * Len(m) <= Total(m) /\ Total(m) <= one * Len(m)
  BY <1>1, <1>3, <1>4, TotalBetween
<1>6. Total(m) = n
  BY <1>1, <1>3, <1>5
<1> QED BY <1>6 DEF m, Bytes

\* The value of a header cut to a cap that may be had there.
LEMMA CutValue ==
  ASSUME NEW value \in Text, NEW cap \in Nat, MARK <= cap, cap - MARK \in CharBoundaries(value)
  PROVE  /\ UpTo(value, cap - MARK) \o [i \in 1..MARK |-> 1] \in Text
         /\ Bytes(UpTo(value, cap - MARK) \o [i \in 1..MARK |-> 1]) = cap
<1> DEFINE mark == [i \in 1..MARK |-> 1]
           start == UpTo(value, cap - MARK)
<1>1. MARK \in Nat
  BY HttpAssumption
<1>2. PICK k \in 0..Len(value) : cap - MARK = Bytes(SubSeq(value, 1, k))
  BY DEF CharBoundaries
<1>3. start = SubSeq(value, 1, k)
  BY <1>2, CutAtBoundary
<1>4. Bytes(start) = cap - MARK /\ start \in Text
  BY <1>2, <1>3, TextParts
<1>5. mark \in Text /\ Bytes(mark) = MARK
  BY <1>1, MarkerIsText, MarkerBytes
<1> HIDE DEF mark, start
<1>6. start \in Seq(Nat) /\ mark \in Seq(Nat)
  BY <1>4, <1>5 DEF Text
<1>7. Bytes(start \o mark) = Bytes(start) + Bytes(mark)
  BY <1>6, TotalOfJoined DEF Bytes
<1>8. start \o mark \in Text
  BY <1>4, <1>5, TextParts
<1>9. Bytes(start \o mark) = cap
  BY <1>1, <1>4, <1>5, <1>7
<1> QED BY <1>8, <1>9 DEF start, mark

\* The cap of the values that are kept, and the headers with their values cut to it.
CapOf(kept) ==
  Larger(MARK, value_cap(ValueSizes(kept), HEADERS_SIZE_LIMIT + Bytes(ValueSizes(kept)) - headers_size(kept)))
Shrunk(kept, cap) ==
  [i \in DOMAIN kept |->
     IF Bytes(kept[i].value) > cap
     THEN [kept[i] EXCEPT !.value = UpTo(@, cap - MARK) \o [j \in 1..MARK |-> 1]]
     ELSE kept[i]]

\* With that cap the headers fit, and with the next they do not.
LEMMA CapOfFits ==
  ASSUME NEW kept \in Seq(Headers),
         headers_min_size(kept) <= HEADERS_SIZE_LIMIT, headers_size(kept) > HEADERS_SIZE_LIMIT
  PROVE  /\ CapOf(kept) \in Nat /\ MARK <= CapOf(kept)
         /\ Total(NameSizes(kept)) + Total(Capped(ValueSizes(kept), CapOf(kept))) <= HEADERS_SIZE_LIMIT + 1
         /\ Total(NameSizes(kept)) + Total(Capped(ValueSizes(kept), CapOf(kept) + 1)) > HEADERS_SIZE_LIMIT + 1
<1> DEFINE lengths == ValueSizes(kept)
           names == Total(NameSizes(kept))
           sum(c) == Total(Capped(lengths, c))
           budget == HEADERS_SIZE_LIMIT + Bytes(lengths) - headers_size(kept)
           fit == value_cap(lengths, budget)
           cap == CapOf(kept)
<1>1. /\ lengths \in Seq(Nat) /\ names \in Nat /\ Total(lengths) \in Nat
      /\ headers_size(kept) = names + Total(lengths) - 1
      /\ headers_min_size(kept) = names + sum(MARK) - 1
  BY HeaderSizes
<1>2. MARK \in Nat /\ HEADERS_SIZE_LIMIT \in Nat
  BY HttpAssumption
<1>3. \A c \in Nat : sum(c) \in Nat
  BY <1>1, CappedTyped
<1>4. \A c, d \in Nat : c <= d => sum(c) <= sum(d)
  BY <1>1, CapsInOrder
<1>5. budget = (HEADERS_SIZE_LIMIT + Total(lengths)) - headers_size(kept)
  BY <1>1, <1>2 DEF Bytes
<1> HIDE DEF lengths, names, budget, sum
<1>6. budget \in Nat /\ names + budget = HEADERS_SIZE_LIMIT + 1 /\ sum(MARK) <= budget /\ Total(lengths) > budget
  <2> DEFINE values == Total(lengths)
             least == sum(MARK)
             size == headers_size(kept)
             minimum == headers_min_size(kept)
  <2>1. /\ names \in Nat /\ values \in Nat /\ least \in Nat
        /\ size = names + (values - 1) /\ minimum = names + (least - 1)
        /\ minimum <= HEADERS_SIZE_LIMIT /\ size > HEADERS_SIZE_LIMIT
    BY <1>1, <1>2, <1>3
  <2>2. budget = (HEADERS_SIZE_LIMIT + values) - size
    BY <1>5
  <2> HIDE DEF values, least, size, minimum
  <2>3. size \in Int /\ minimum \in Int
    BY <2>1
  <2>4. budget \in Nat /\ names + budget = HEADERS_SIZE_LIMIT + 1 /\ least <= budget /\ values > budget
    BY <1>2, <2>1, <2>2, <2>3
  <2> QED BY <2>4 DEF values, least
<1>7. fit \in Nat /\ sum(fit) <= budget /\ sum(fit + 1) > budget
  BY <1>1, <1>6, CapFits DEF sum
<1>8. cap = IF MARK > fit THEN MARK ELSE fit
  BY DEF CapOf, Larger, lengths, budget
<1> HIDE DEF fit, cap
<1>9. cap \in Nat /\ MARK <= cap /\ fit <= cap /\ sum(cap) <= budget
  BY <1>2, <1>6, <1>7, <1>8
<1>10. sum(cap + 1) > budget
  <2>1. fit + 1 \in Nat /\ cap + 1 \in Nat /\ fit + 1 <= cap + 1
    BY <1>7, <1>9
  <2>2. sum(fit + 1) <= sum(cap + 1) /\ sum(fit + 1) \in Nat /\ sum(cap + 1) \in Nat
    BY <1>3, <1>4, <2>1
  <2> DEFINE first == sum(fit + 1)
             second == sum(cap + 1)
  <2>3. budget \in Nat /\ first > budget /\ first <= second /\ first \in Nat /\ second \in Nat
    BY <1>6, <1>7, <2>2, Zenon
  <2> HIDE DEF first, second
  <2>4. second > budget
    BY <2>3
  <2> QED BY <2>4, Zenon DEF second
<1>11. sum(cap) \in Nat /\ sum(cap + 1) \in Nat
  <2>1. cap \in Nat /\ cap + 1 \in Nat
    BY <1>9
  <2> QED BY <1>3, <2>1, Zenon
<1>12. names + sum(cap) <= HEADERS_SIZE_LIMIT + 1 /\ names + sum(cap + 1) > HEADERS_SIZE_LIMIT + 1
  BY <1>1, <1>2, <1>6, <1>9, <1>10, <1>11
<1> QED BY <1>9, <1>12 DEF names, sum, lengths, cap

\* Headers with their values cut to a cap.
LEMMA ShrunkHeaders ==
  ASSUME NEW kept \in Seq(Headers), NEW cap \in Nat, MARK <= cap,
         \A i \in 1..Len(kept) : Bytes(kept[i].value) > cap => cap - MARK \in CharBoundaries(kept[i].value)
  PROVE  /\ Shrunk(kept, cap) \in Seq(Headers) /\ Len(Shrunk(kept, cap)) = Len(kept)
         /\ \A i \in 1..Len(kept) :
              /\ Shrunk(kept, cap)[i].key = kept[i].key
              /\ Bytes(Shrunk(kept, cap)[i].value) = Smaller(Bytes(kept[i].value), cap)
              /\ Shrunk(kept, cap)[i].value # kept[i].value <=> Bytes(kept[i].value) > cap
         /\ headers_size(Shrunk(kept, cap)) = Total(NameSizes(kept)) + Total(Capped(ValueSizes(kept), cap)) - 1
<1> DEFINE len == Len(kept)
           shrunk == Shrunk(kept, cap)
           cut(i) == UpTo(kept[i].value, cap - MARK) \o [j \in 1..MARK |-> 1]
           long(i) == Bytes(kept[i].value) > cap
<1>1. len \in Nat /\ DOMAIN kept = 1..len /\ \A i \in 1..len : kept[i] \in Headers
  OBVIOUS
<1>2. /\ DOMAIN shrunk = 1..len /\ shrunk = [i \in 1..len |-> shrunk[i]]
      /\ \A i \in 1..len : shrunk[i] = IF long(i) THEN [kept[i] EXCEPT !.value = cut(i)] ELSE kept[i]
  BY <1>1 DEF Shrunk
<1> HIDE DEF shrunk
<1>3. \A i \in 1..len : Bytes(kept[i].value) \in Nat /\ Bytes(kept[i].value) = ValueSizes(kept)[i]
  <2>1. /\ ValueSizes(kept) \in Seq(Nat) /\ Len(ValueSizes(kept)) = len
        /\ \A i \in 1..len : ValueSizes(kept)[i] = Bytes(kept[i].value)
    BY HeaderSizes
  <2> QED BY <2>1
<1>4. ASSUME NEW i \in 1..len
      PROVE  /\ shrunk[i] \in Headers /\ shrunk[i].key = kept[i].key /\ shrunk[i].bytes = kept[i].bytes
             /\ Bytes(shrunk[i].value) = Smaller(Bytes(kept[i].value), cap)
             /\ shrunk[i].value # kept[i].value <=> long(i)
  <2> DEFINE l == kept[i]
  <2>1. l \in Headers /\ Bytes(l.value) \in Nat
    BY <1>1, <1>3
  <2>2. CASE ~long(i)
    <3>1. shrunk[i] = kept[i]
      BY <1>2, <2>2
    <3> QED BY <2>1, <2>2, <3>1 DEF Smaller
  <2>3. CASE long(i)
    <3>1. shrunk[i] = [kept[i] EXCEPT !.value = cut(i)]
      BY <1>2, <2>3
    <3>2. kept[i].value \in Text
      BY <2>1 DEF Headers
    <3>3. cut(i) \in Text /\ Bytes(cut(i)) = cap
      BY <2>3, <3>2, CutValue
    <3> DEFINE value == cut(i)
    <3>4. value \in Text /\ Bytes(value) = cap /\ shrunk[i] = [kept[i] EXCEPT !.value = value]
      BY <3>1, <3>3
    <3> HIDE DEF value, cut
    <3>5. /\ shrunk[i] \in Headers /\ shrunk[i].key = kept[i].key /\ shrunk[i].bytes = kept[i].bytes
          /\ shrunk[i].value = value
      BY <2>1, <3>4 DEF Headers
    <3>6. Smaller(Bytes(kept[i].value), cap) = cap
      BY <2>1, <2>3 DEF Smaller
    <3>7. value # kept[i].value
      BY <2>1, <2>3, <3>4
    <3> QED BY <2>3, <3>4, <3>5, <3>6, <3>7
  <2> QED BY <2>2, <2>3
<1> HIDE DEF cut
<1>5. shrunk \in Seq(Headers) /\ Len(shrunk) = len
  <2>1. shrunk \in [1..len -> Headers]
    BY <1>2, <1>4
  <2> QED BY <1>1, <2>1
<1>6. NameSizes(shrunk) = NameSizes(kept)
  <2>1. \A i \in 1..len : shrunk[i].bytes + 3 = kept[i].bytes + 3
    BY <1>4
  <2>2. NameSizes(shrunk) = [i \in 1..len |-> kept[i].bytes + 3]
    BY <1>2, <2>1 DEF NameSizes
  <2> QED BY <1>1, <2>2 DEF NameSizes
<1>7. ValueSizes(shrunk) = Capped(ValueSizes(kept), cap)
  <2>1. DOMAIN ValueSizes(kept) = 1..len
    BY <1>1 DEF ValueSizes
  <2>2. \A i \in 1..len : Bytes(shrunk[i].value) = Smaller(ValueSizes(kept)[i], cap)
    BY <1>3, <1>4
  <2>3. ValueSizes(shrunk) = [i \in 1..len |-> Smaller(ValueSizes(kept)[i], cap)]
    BY <1>2, <2>2 DEF ValueSizes
  <2> QED BY <2>1, <2>3 DEF Capped
<1>8. headers_size(shrunk) = Total(NameSizes(shrunk)) + Total(ValueSizes(shrunk)) - 1
  BY <1>5, HeaderSizes
<1>9. \A i \in 1..len :
        /\ shrunk[i].key = kept[i].key
        /\ Bytes(shrunk[i].value) = Smaller(Bytes(kept[i].value), cap)
        /\ shrunk[i].value # kept[i].value <=> Bytes(kept[i].value) > cap
  BY <1>4
<1> QED BY <1>5, <1>6, <1>7, <1>8, <1>9 DEF shrunk, len

\* Where every character takes one byte, a text may be cut anywhere.
LEMMA CutAnywhere ==
  ASSUME NEW text \in Text, \A k \in 1..Len(text) : ~(text[k] > 1), NEW n \in Nat, n <= Bytes(text)
  PROVE  n \in CharBoundaries(text)
<1> DEFINE len == Len(text)
           one == 1
<1>1. text \in Seq(Nat) /\ len \in Nat /\ len \in 0..len /\ \A k \in 1..len : text[k] = one
  <2>1. text \in Seq(Nat \ {0})
    BY DEF Text
  <2>2. \A k \in 1..len : text[k] \in Nat \ {0}
    BY <2>1
  <2> QED BY <2>1, <2>2
<1>2. one \in Int /\ one <= one /\ \A i \in Nat : one * i = i
  OBVIOUS
<1> HIDE DEF one
<1>3. ASSUME NEW i \in 0..len PROVE Bytes(SubSeq(text, 1, i)) = i
  <2> DEFINE part == SubSeq(text, 1, i)
  <2>1. part \in Seq(Nat) /\ Len(part) = i /\ i \in Nat /\ \A k \in 1..i : part[k] = one
    BY <1>1
  <2> HIDE DEF part
  <2>2. \A k \in 1..Len(part) : one <= part[k] /\ part[k] <= one
    BY <1>2, <2>1
  <2>3. Total(part) \in Nat /\ one * Len(part) <= Total(part) /\ Total(part) <= one * Len(part)
    BY <1>2, <2>1, <2>2, TotalBetween
  <2>4. Total(part) = i
    BY <1>2, <2>1, <2>3
  <2> QED BY <2>4 DEF Bytes, part
<1>4. Bytes(text) = Bytes(SubSeq(text, 1, len))
  BY BytesGrow
<1>5. n \in 0..len /\ Bytes(SubSeq(text, 1, n)) = n
  BY <1>1, <1>3, <1>4
<1> QED BY <1>5 DEF CharBoundaries

\* Where the headers that are kept come from, and why they are what they are.
Origins(kept, sent) ==
  {f \in [DOMAIN kept -> DOMAIN sent] :
     /\ \A a, b \in DOMAIN kept : a < b => f[a] < f[b]
     /\ \A a \in DOMAIN kept : kept[a].key = sent[f[a]].key}
IsCut(f, kept, sent, a) == kept[a].value # sent[f[a]].value
CutOnes(f, kept, sent) == {a \in DOMAIN kept : IsCut(f, kept, sent, a)}
HasRoom(f, kept, sent) == headers_size(kept) + Cardinality(CutOnes(f, kept, sent)) <= HEADERS_SIZE_LIMIT
Explains(f, kept, sent) ==
  /\ \A a \in DOMAIN kept : IsCut(f, kept, sent, a) =>
       /\ Bytes(kept[a].value) < Bytes(sent[f[a]].value)
       /\ \A b \in DOMAIN kept : Bytes(kept[b].value) <= Bytes(kept[a].value)
  /\ (\E a \in DOMAIN kept : IsCut(f, kept, sent, a)) => ~HasRoom(f, kept, sent)
  /\ Len(kept) < Len(sent) => headers_min_size(sent) > HEADERS_SIZE_LIMIT
Fitted(kept, sent) ==
  /\ kept # <<>> => headers_size(kept) <= HEADERS_SIZE_LIMIT
  /\ headers_size(sent) <= HEADERS_SIZE_LIMIT => kept = sent
  /\ \E f \in Origins(kept, sent) : Explains(f, kept, sent)

\* One of the values has a character of several bytes.
Wide(sent) == \E i \in DOMAIN sent : \E k \in DOMAIN sent[i].value : sent[i].value[k] > 1

\* Headers that are kept whole.
LEMMA WholeIsExplained ==
  ASSUME NEW kept, NEW sent, NEW f \in Origins(kept, sent), \A a \in DOMAIN kept : kept[a] = sent[f[a]],
         Len(kept) < Len(sent) => headers_min_size(sent) > HEADERS_SIZE_LIMIT
  PROVE  Explains(f, kept, sent)
<1>1. \A a \in DOMAIN kept : ~IsCut(f, kept, sent, a)
  BY DEF IsCut
<1> QED BY <1>1 DEF Explains

\* The headers that DropSets leaves fit when their values are cut, and none is
\* left out when all would.
LEMMA LeftFit ==
  ASSUME NEW pairs \in Seq(Headers), NEW D \in DropSets(pairs)
  PROVE  /\ headers_min_size(Chosen(pairs, DOMAIN pairs \ D)) <= HEADERS_SIZE_LIMIT
         /\ \/ Chosen(pairs, DOMAIN pairs \ D) = pairs
            \/ headers_min_size(pairs) > HEADERS_SIZE_LIMIT
<1> DEFINE without == headers_min_size(Chosen(pairs, DOMAIN pairs \ D))
<1>1. CASE headers_min_size(pairs) <= HEADERS_SIZE_LIMIT
  <2>1. D = {}
    BY <1>1 DEF DropSets
  <2>2. Chosen(pairs, DOMAIN pairs \ D) = pairs
    <3> DEFINE places == DOMAIN pairs \ D
    <3>1. \A i \in 1..Len(pairs) : i \in places
      BY <2>1
    <3> HIDE DEF places
    <3>2. Chosen(pairs, places) = pairs
      BY <3>1, ChosenWhole
    <3> QED BY <3>2 DEF places
  <2> QED BY <1>1, <2>2
<1>2. CASE ~(headers_min_size(pairs) <= HEADERS_SIZE_LIMIT)
  <2>1. without <= HEADERS_SIZE_LIMIT
    BY <1>2 DEF DropSets
  <2>2. headers_min_size(pairs) \in Int /\ HEADERS_SIZE_LIMIT \in Nat
    <3>1. /\ headers_min_size(pairs) = Total(NameSizes(pairs)) + (Total(Capped(ValueSizes(pairs), MARK)) - 1)
          /\ Total(NameSizes(pairs)) \in Nat /\ ValueSizes(pairs) \in Seq(Nat)
      BY HeaderSizes
    <3>2. Total(Capped(ValueSizes(pairs), MARK)) \in Nat
      BY <3>1, CappedTyped, HttpAssumption
    <3> QED BY <3>1, <3>2, HttpAssumption
  <2>3. headers_min_size(pairs) > HEADERS_SIZE_LIMIT
    BY <1>2, <2>2
  <2> QED BY <2>1, <2>3
<1> QED BY <1>1, <1>2

\* Headers cut to the cap are explained by where they come from.
LEMMA ShrunkIsFitted ==
  ASSUME NEW pairs \in Seq(Headers), NEW kept \in Seq(Headers), NEW f \in Origins(kept, pairs),
         \A a \in DOMAIN kept : kept[a] = pairs[f[a]],
         Len(kept) < Len(pairs) => headers_min_size(pairs) > HEADERS_SIZE_LIMIT,
         headers_min_size(kept) <= HEADERS_SIZE_LIMIT, headers_size(kept) > HEADERS_SIZE_LIMIT,
         \A i \in 1..Len(kept) : Bytes(kept[i].value) > CapOf(kept) =>
           CapOf(kept) - MARK \in CharBoundaries(kept[i].value)
  PROVE  /\ headers_size(Shrunk(kept, CapOf(kept))) <= HEADERS_SIZE_LIMIT
         /\ f \in Origins(Shrunk(kept, CapOf(kept)), pairs)
         /\ Explains(f, Shrunk(kept, CapOf(kept)), pairs)
<1> DEFINE cap == CapOf(kept)
           shrunk == Shrunk(kept, cap)
           len == Len(kept)
           lengths == ValueSizes(kept)
           names == Total(NameSizes(kept))
           sum(c) == Total(Capped(lengths, c))
           long == {i \in 1..len : lengths[i] > cap}
           more == cap + 1
<1>1. /\ cap \in Nat /\ MARK <= cap
      /\ names + sum(cap) <= HEADERS_SIZE_LIMIT + 1 /\ names + sum(more) > HEADERS_SIZE_LIMIT + 1
  BY CapOfFits
<1>2. /\ lengths \in Seq(Nat) /\ Len(lengths) = len /\ names \in Nat
      /\ \A i \in 1..len : lengths[i] = Bytes(kept[i].value)
  BY HeaderSizes
<1>3. /\ shrunk \in Seq(Headers) /\ Len(shrunk) = len
      /\ \A i \in 1..len :
           /\ shrunk[i].key = kept[i].key
           /\ Bytes(shrunk[i].value) = Smaller(Bytes(kept[i].value), cap)
           /\ shrunk[i].value # kept[i].value <=> Bytes(kept[i].value) > cap
      /\ headers_size(shrunk) = names + (sum(cap) - 1)
  <2> HIDE DEF cap
  <2> QED BY <1>1, ShrunkHeaders DEF cap
<1>4. len \in Nat /\ DOMAIN kept = 1..len /\ DOMAIN shrunk = 1..len /\ \A i \in 1..len : lengths[i] \in Nat
  BY <1>2, <1>3
<1>5. \A i \in 1..len : kept[i] = pairs[f[i]]
  BY <1>4
<1> HIDE DEF cap, shrunk, lengths, names, len
<1>6. sum(cap) \in Nat /\ sum(more) \in Nat /\ more \in Nat
  BY <1>1, <1>2, CappedTyped
<1>7. Cardinality(long) \in Nat /\ sum(more) = sum(cap) + Cardinality(long)
  <2>1. \A i \in 1..Len(lengths) : IF i \in long THEN lengths[i] >= more ELSE lengths[i] <= cap
    BY <1>1, <1>2, <1>4
  <2>2. more \in Nat /\ cap \in Nat /\ cap <= more /\ more - cap = 1
    BY <1>1
  <2>3. long \cap (1..Len(lengths)) = long
    BY <1>2
  <2> HIDE DEF more, long
  <2>4. /\ Cardinality(long \cap (1..Len(lengths))) \in Nat
        /\ Total(Capped(lengths, more))
             = Total(Capped(lengths, cap)) + (more - cap) * Cardinality(long \cap (1..Len(lengths)))
    <3>1. lengths \in Seq(Nat) /\ more \in Nat /\ cap \in Nat /\ cap <= more
      BY <1>2, <2>2
    <3> QED BY <2>1, <3>1, CapsApart
  <2>5. 1 * Cardinality(long) = Cardinality(long)
    <3>1. Cardinality(long) \in Nat
      BY <2>3, <2>4
    <3>2. \A n \in Nat : 1 * n = n
      OBVIOUS
    <3> QED BY <3>1, <3>2
  <2> QED BY <2>2, <2>3, <2>4, <2>5
<1>8. \A a \in 1..len : IsCut(f, shrunk, pairs, a) <=> a \in long
  <2> SUFFICES ASSUME NEW a \in 1..len PROVE IsCut(f, shrunk, pairs, a) <=> a \in long
    OBVIOUS
  <2>1. IsCut(f, shrunk, pairs, a) <=> shrunk[a].value # kept[a].value
    BY <1>5 DEF IsCut
  <2>2. shrunk[a].value # kept[a].value <=> lengths[a] > cap
    BY <1>2, <1>3
  <2> QED BY <2>1, <2>2
<1>9. headers_size(shrunk) <= HEADERS_SIZE_LIMIT
  BY <1>1, <1>2, <1>3, <1>6, HttpAssumption
<1>10. f \in Origins(shrunk, pairs)
  BY <1>3, <1>4 DEF Origins
<1>11. ~HasRoom(f, shrunk, pairs)
  <2>1. CutOnes(f, shrunk, pairs) = long
    BY <1>4, <1>8 DEF CutOnes
  <2> HIDE DEF long, sum, more
  <2>2. headers_size(shrunk) + Cardinality(long) > HEADERS_SIZE_LIMIT
    <3> DEFINE count == Cardinality(long)
               less == sum(cap)
               size == headers_size(shrunk)
    <3>1. /\ names \in Nat /\ less \in Nat /\ count \in Nat /\ size = names + (less - 1)
          /\ names + (less + count) > HEADERS_SIZE_LIMIT + 1
      BY <1>1, <1>2, <1>3, <1>6, <1>7
    <3> HIDE DEF count, less, size
    <3>2. size + count > HEADERS_SIZE_LIMIT
      BY <3>1, HttpAssumption
    <3> QED BY <3>2 DEF size, count
  <2>3. headers_size(shrunk) + Cardinality(long) \in Int
    BY <1>2, <1>3, <1>6, <1>7
  <2> QED BY <2>1, <2>2, <2>3, HttpAssumption DEF HasRoom
<1>12. ASSUME NEW a \in 1..len, a \in long
       PROVE  /\ Bytes(shrunk[a].value) < Bytes(pairs[f[a]].value)
              /\ \A b \in 1..len : Bytes(shrunk[b].value) <= Bytes(shrunk[a].value)
  <2>1. \A b \in 1..len : Bytes(shrunk[b].value) = Smaller(lengths[b], cap) /\ lengths[b] \in Nat
    BY <1>2, <1>3, <1>4
  <2>2. \A b \in 1..len : Bytes(shrunk[b].value) <= cap
    BY <1>1, <2>1 DEF Smaller
  <2>3. lengths[a] > cap /\ lengths[a] = Bytes(pairs[f[a]].value)
    BY <1>2, <1>5, <1>12
  <2>4. Bytes(shrunk[a].value) = cap
    BY <1>1, <2>1, <2>3 DEF Smaller
  <2> QED BY <1>1, <2>1, <2>2, <2>3, <2>4
<1>13. Len(shrunk) < Len(pairs) => headers_min_size(pairs) > HEADERS_SIZE_LIMIT
  BY <1>3 DEF len
<1>14. Explains(f, shrunk, pairs)
  BY <1>4, <1>8, <1>11, <1>12, <1>13 DEF Explains
<1> QED BY <1>9, <1>10, <1>14 DEF shrunk, cap

\* truncate_headers leaves headers that fit, and says so; it panics only where a
\* value has a character of several bytes.
LEMMA TruncatedFits ==
  ASSUME NEW pairs \in Seq(Headers), NEW h \in truncate_headers(pairs)
  PROVE  \/ h.outcome = "panic" /\ Wide(pairs)
         \/ /\ h.outcome = "ok"
            /\ Fitted(h.headers, pairs) /\ (h.truncated <=> h.headers # pairs)
<1> DEFINE Kept(D) == Chosen(pairs, DOMAIN pairs \ D)
           cap(kept) == CapOf(kept)
           split(kept, c) == \E i \in DOMAIN kept : Bytes(kept[i].value) > c /\ c - MARK \notin CharBoundaries(kept[i].value)
           untouched == [outcome |-> "ok", truncated |-> FALSE, headers |-> pairs]
           whole(kept) == [outcome |-> "ok", truncated |-> TRUE, headers |-> kept]
           cut(kept, c) == [outcome |-> "ok", truncated |-> TRUE, headers |-> Shrunk(kept, c)]
           panic == [outcome |-> "panic"]
           short(kept) == kept = <<>> \/ headers_size(kept) <= HEADERS_SIZE_LIMIT
<1>1. \/ h = untouched /\ (pairs = <<>> \/ headers_size(pairs) <= HEADERS_SIZE_LIMIT)
      \/ /\ ~(pairs = <<>> \/ headers_size(pairs) <= HEADERS_SIZE_LIMIT)
         /\ \E D \in DropSets(pairs) :
              h = IF short(Kept(D)) THEN whole(Kept(D))
                  ELSE IF split(Kept(D), cap(Kept(D))) THEN panic ELSE cut(Kept(D), cap(Kept(D)))
  BY DEF truncate_headers, CapOf, ValueSizes, Shrunk
<1>2. Len(pairs) \in Nat /\ DOMAIN pairs = 1..Len(pairs)
  OBVIOUS
<1>3. \A hs \in Seq(Headers) : headers_size(hs) \in Int
  <2> SUFFICES ASSUME NEW hs \in Seq(Headers) PROVE headers_size(hs) \in Int
    OBVIOUS
  <2>1. /\ headers_size(hs) = Total(NameSizes(hs)) + (Total(ValueSizes(hs)) - 1)
        /\ Total(NameSizes(hs)) \in Nat /\ Total(ValueSizes(hs)) \in Nat
    BY HeaderSizes
  <2> QED BY <2>1
<1>4. CASE h = untouched /\ (pairs = <<>> \/ headers_size(pairs) <= HEADERS_SIZE_LIMIT)
  <2> DEFINE f == [a \in DOMAIN pairs |-> a]
  <2>1. f \in Origins(pairs, pairs) /\ \A a \in DOMAIN pairs : pairs[a] = pairs[f[a]]
    BY DEF Origins
  <2> HIDE DEF f
  <2>2. Explains(f, pairs, pairs)
    <3>1. ~(Len(pairs) < Len(pairs))
      BY <1>2
    <3> QED BY <2>1, <3>1, WholeIsExplained
  <2>3. Fitted(pairs, pairs)
    BY <1>4, <2>1, <2>2 DEF Fitted
  <2> QED BY <1>4, <2>3
<1>5. ASSUME ~(pairs = <<>> \/ headers_size(pairs) <= HEADERS_SIZE_LIMIT), NEW D \in DropSets(pairs),
             h = IF short(Kept(D)) THEN whole(Kept(D))
                 ELSE IF split(Kept(D), cap(Kept(D))) THEN panic ELSE cut(Kept(D), cap(Kept(D)))
      PROVE  \/ h.outcome = "panic" /\ Wide(pairs)
             \/ /\ h.outcome = "ok"
                /\ Fitted(h.headers, pairs) /\ (h.truncated <=> h.headers # pairs)
  <2> DEFINE kept == Kept(D)
             c == CapOf(kept)
             places == DOMAIN pairs \ D
  <2>1. kept \in Seq(Headers)
    BY ChosenTyped
  <2>2. headers_min_size(kept) <= HEADERS_SIZE_LIMIT /\ (kept = pairs \/ headers_min_size(pairs) > HEADERS_SIZE_LIMIT)
    BY LeftFit
  <2>3. PICK f \in [1..Len(kept) -> 1..Len(pairs)] :
          /\ \A a, b \in 1..Len(kept) : a < b => f[a] < f[b]
          /\ \A a \in 1..Len(kept) : kept[a] = pairs[f[a]]
    <3> HIDE DEF places
    <3>1. \E f \in [1..Len(Chosen(pairs, places)) -> 1..Len(pairs)] :
            /\ \A a, b \in 1..Len(Chosen(pairs, places)) : a < b => f[a] < f[b]
            /\ \A a \in 1..Len(Chosen(pairs, places)) : f[a] \in places /\ Chosen(pairs, places)[a] = pairs[f[a]]
      BY ChosenPlaces
    <3>2. kept = Chosen(pairs, places)
      BY DEF places
    <3> HIDE DEF kept
    <3> QED BY <3>1, <3>2
  <2> HIDE DEF places
  <2>4. \/ short(kept) /\ h = whole(kept)
        \/ ~short(kept) /\ split(kept, c) /\ h = panic
        \/ ~short(kept) /\ ~split(kept, c) /\ h = cut(kept, c)
    BY <1>5
  <2> HIDE DEF kept
  <2>5. DOMAIN kept = 1..Len(kept) /\ Len(kept) \in Nat
    BY <2>1
  <2>6. f \in Origins(kept, pairs) /\ \A a \in DOMAIN kept : kept[a] = pairs[f[a]]
    BY <1>2, <2>3, <2>5 DEF Origins
  <2>7. Len(kept) < Len(pairs) => headers_min_size(pairs) > HEADERS_SIZE_LIMIT
    BY <1>2, <2>2
  <2>8. HEADERS_SIZE_LIMIT \in Nat /\ MARK \in Nat
    BY HttpAssumption
  <2>9. CASE short(kept) /\ h = whole(kept)
    <3>1. Explains(f, kept, pairs)
      BY <2>6, <2>7, WholeIsExplained
    <3>2. kept # pairs
      BY <1>5, <2>9
    <3>3. Fitted(kept, pairs)
      BY <1>5, <2>6, <2>9, <3>1 DEF Fitted
    <3> QED BY <2>9, <3>2, <3>3
  <2>10. ~short(kept) => headers_size(kept) > HEADERS_SIZE_LIMIT
    BY <1>3, <2>1, <2>8
  <2>11. CASE ~short(kept) /\ split(kept, c) /\ h = panic
    <3>1. c \in Nat /\ MARK <= c
      BY <2>1, <2>2, <2>10, <2>11, CapOfFits
    <3> HIDE DEF c
    <3>2. PICK i \in DOMAIN kept : Bytes(kept[i].value) > c /\ c - MARK \notin CharBoundaries(kept[i].value)
      BY <2>11
    <3> DEFINE value == kept[i].value
               n == c - MARK
    <3>3. value \in Text
      <4>1. kept[i] \in Headers
        BY <2>1, <2>5
      <4> QED BY <4>1 DEF Headers
    <3>4. Bytes(value) \in Nat
      <4>1. Len(value) \in 0..Len(value)
        BY <3>3 DEF Text
      <4> HIDE DEF value
      <4> QED BY <3>3, <4>1, BytesGrow
    <3>5. n \in Nat /\ n <= Bytes(value) /\ n \notin CharBoundaries(value)
      BY <2>8, <3>1, <3>2, <3>4
    <3>6. \E k \in 1..Len(value) : value[k] > 1
      <4> HIDE DEF n, value
      <4> QED BY <3>3, <3>5, CutAnywhere
    <3>7. DOMAIN value = 1..Len(value)
      <4> HIDE DEF value
      <4> QED BY <3>3 DEF Text
    <3>8. f[i] \in DOMAIN pairs /\ pairs[f[i]].value = value
      BY <1>2, <2>3, <2>5, <2>6, <3>2
    <3> HIDE DEF value
    <3>9. Wide(pairs)
      BY <3>6, <3>7, <3>8 DEF Wide
    <3> QED BY <2>11, <3>9
  <2>12. CASE ~short(kept) /\ ~split(kept, c) /\ h = cut(kept, c)
    <3>1. \A i \in 1..Len(kept) : Bytes(kept[i].value) > c => c - MARK \in CharBoundaries(kept[i].value)
      BY <2>5, <2>12
    <3> DEFINE shrunk == Shrunk(kept, c)
    <3>2. /\ headers_size(shrunk) <= HEADERS_SIZE_LIMIT
          /\ f \in Origins(shrunk, pairs) /\ Explains(f, shrunk, pairs)
      BY <2>1, <2>2, <2>6, <2>7, <2>10, <2>12, <3>1, ShrunkIsFitted
    <3> HIDE DEF shrunk
    <3>3. Fitted(shrunk, pairs) /\ shrunk # pairs
      BY <1>5, <3>2 DEF Fitted
    <3>4. h = [outcome |-> "ok", truncated |-> TRUE, headers |-> shrunk]
      BY <2>12 DEF shrunk
    <3> QED BY <3>3, <3>4
  <2> QED BY <2>4, <2>9, <2>11, <2>12
<1> HIDE DEF Kept, cap, split, whole, cut, panic, short, untouched
<1> QED BY <1>1, <1>4, <1>5

\* Every header has its value under its name.
LEMMA HeadersAreMapped ==
  ASSUME NEW S, NEW pairs \in Seq(S), NEW a \in DOMAIN pairs
  PROVE  \E v \in DOMAIN dedup_headers(pairs)[pairs[a].key] :
           dedup_headers(pairs)[pairs[a].key][v] = pairs[a].value
<1> DEFINE key == pairs[a].key
           places == {i \in DOMAIN pairs : pairs[i].key = key}
           same == Chosen(pairs, places)
<1>1. key \in {pairs[i].key : i \in DOMAIN pairs}
  OBVIOUS
<1>2. dedup_headers(pairs)[key] = [i \in DOMAIN same |-> same[i].value]
  BY <1>1 DEF dedup_headers
<1>3. a \in places /\ a \in 1..Len(pairs)
  OBVIOUS
<1> HIDE DEF places
<1>4. \E f \in [1..Len(same) -> 1..Len(pairs)] :
        /\ \A b \in 1..Len(same) : f[b] \in places /\ same[b] = pairs[f[b]]
        /\ \A i \in 1..Len(pairs) : i \in places => \E b \in 1..Len(same) : f[b] = i
  BY ChosenPlaces
<1>5. PICK v \in 1..Len(same) : same[v] = pairs[a]
  BY <1>3, <1>4
<1>6. DOMAIN same = 1..Len(same)
  <2>1. same \in Seq(S)
    BY ChosenTyped
  <2> QED BY <2>1
<1> HIDE DEF same
<1>7. v \in DOMAIN dedup_headers(pairs)[key] /\ dedup_headers(pairs)[key][v] = pairs[a].value
  BY <1>2, <1>5, <1>6
<1> QED BY <1>7 DEF key

\* A result whose headers are those that were received, as far as they fit.
FitResult(r, out) ==
  LET sent == parse_header_file(out.headers)
  IN  /\ r = [k \in DOMAIN r |-> r[k]] /\ {"status", "headers", "map", "truncated", "tls", "raw"} \subseteq DOMAIN r
      /\ r.status = "finished"
      /\ Fitted(r.headers, sent)
      /\ r.truncated <=> r.headers # sent \/ Len(out.body) > BODY_LIMIT
      /\ \A a \in DOMAIN r.headers : \E v \in DOMAIN r.map[r.headers[a].key] :
           r.map[r.headers[a].key][v] = r.headers[a].value

\* Setting what is known of the certificate, or the output, leaves them alone.
LEMMA StillFits ==
  ASSUME NEW r, NEW out, FitResult(r, out), NEW f, f \in {"tls", "raw"}, NEW x
  PROVE  FitResult([r EXCEPT ![f] = x], out)
<1> DEFINE q == [r EXCEPT ![f] = x]
<1>1. r = [k \in DOMAIN r |-> r[k]] /\ {"status", "headers", "map", "truncated", "tls", "raw"} \subseteq DOMAIN r
  BY DEF FitResult
<1>2. /\ DOMAIN q = DOMAIN r /\ q = [k \in DOMAIN q |-> q[k]]
      /\ q.status = r.status /\ q.headers = r.headers /\ q.map = r.map /\ q.truncated = r.truncated
  BY <1>1
<1> HIDE DEF q
<1> QED BY <1>1, <1>2 DEF FitResult, q

\* What curl may leave, in the files or not, has headers.
LEMMA CurlLeavesHeaders ==
  ASSUME NEW printed, LeavesText(printed), NEW kept, kept \in {printed.headers, <<>>}, NEW body
  PROVE  /\ [printed EXCEPT !.headers = kept, !.body = body].headers = kept
         /\ parse_header_file([printed EXCEPT !.headers = kept, !.body = body].headers) \in Seq(Headers)
<1>1. [printed EXCEPT !.headers = kept, !.body = body].headers = kept
  BY DEF LeavesText
<1>2. printed.headers \in Seq(HeaderLines) /\ <<>> \in Seq(HeaderLines)
  BY DEF LeavesText
<1>3. parse_header_file(kept) \in Seq(Headers)
  BY <1>2, ParsedHeaders
<1> QED BY <1>1, <1>3

\* What run_http() makes of it.
LEMMA ResultFits ==
  ASSUME NEW out, parse_header_file(out.headers) \in Seq(Headers),
         NEW h \in truncate_headers(parse_header_file(out.headers)), h.outcome # "panic"
  PROVE  FitResult(HttpResult(out, h), out)
<1> DEFINE sent == parse_header_file(out.headers)
           r == HttpResult(out, h)
<1>1. Fitted(h.headers, sent) /\ (h.truncated <=> h.headers # sent)
  <2> HIDE DEF sent
  <2>1. sent \in Seq(Headers) /\ h \in truncate_headers(sent)
    BY DEF sent
  <2> QED BY <2>1, TruncatedFits
<1>2. h.headers \in Seq(Headers)
  BY TruncatedHeaders
<1>3. /\ r = [k \in DOMAIN r |-> r[k]] /\ {"status", "headers", "map", "truncated", "tls", "raw"} \subseteq DOMAIN r
      /\ r.status = "finished" /\ r.headers = h.headers /\ r.map = dedup_headers(h.headers)
      /\ r.truncated = (h.truncated \/ Len(out.body) > BODY_LIMIT)
  BY DEF HttpResult
<1> HIDE DEF r, sent
<1>4. r.truncated <=> r.headers # sent \/ Len(out.body) > BODY_LIMIT
  BY <1>1, <1>3
<1>5. \A a \in DOMAIN r.headers : \E v \in DOMAIN r.map[r.headers[a].key] :
        r.map[r.headers[a].key][v] = r.headers[a].value
  <2> DEFINE hs == h.headers
  <2>1. hs \in Seq(Headers)
    BY <1>2
  <2>2. r.headers = hs /\ r.map = dedup_headers(hs)
    BY <1>3
  <2> HIDE DEF hs
  <2>3. \A a \in DOMAIN hs : \E v \in DOMAIN dedup_headers(hs)[hs[a].key] :
          dedup_headers(hs)[hs[a].key][v] = hs[a].value
    BY <2>1, HeadersAreMapped
  <2> QED BY <2>2, <2>3
<1> QED BY <1>1, <1>3, <1>4, <1>5 DEF FitResult, r, sent

\* Until the command has returned there is no result; from when curl's output is
\* read, the result has the headers that were received, as far as they fit.
HeadersInv ==
  Is("http") =>
    /\ pc \notin {"done", "emitted"} => result = Nothing
    /\ pc \in {"s_client", "x509"} => FitResult(local.result, read[1])
    /\ result.status = "finished" => FitResult(result, read[1])
    /\ result.status = "panicked" => Wide(parse_header_file(read[1].headers))

LEMMA InitHeaders == Init => HeadersInv
<1> SUFFICES ASSUME Init PROVE HeadersInv
  OBVIOUS
<1>1. pc = "new" /\ result = Nothing
  BY DEF Init, Started
<1> QED BY <1>1 DEF HeadersInv, Nothing

\* What has curl's output read makes the result, or the result s_client adds to.
LEMMA CurlKeepsHeaders == HeadersInv /\ [Next]_vars /\ Is("http") /\ CurlEnds(CurlOutputs) => HeadersInv'
<1> SUFFICES ASSUME HeadersInv, [Next]_vars, Is("http"), CurlEnds(CurlOutputs) PROVE HeadersInv'
  OBVIOUS
<1>1. PICK printed, out :
        /\ printed \in CurlOutputs
        /\ out = [ printed EXCEPT !.headers = IF "headers" \in files THEN @ ELSE <<>>,
                                  !.body = IF "body" \in files THEN read_capped(@, BODY_LIMIT) ELSE <<>> ]
        /\ read' = <<out>>
        /\ \/ \E note : Return(HttpFailed(note))
           \/ \E h \in truncate_headers(parse_header_file(out.headers)) :
                \/ h.outcome = "panic" /\ Return([status |-> "panicked"])
                \/ h.outcome # "panic" /\ Return(HttpResult(out, h))
                \/ /\ h.outcome # "panic" /\ pc' = "s_client" /\ result' = result
                   /\ local' = [result |-> HttpResult(out, h), limit |-> 10]
  BY SMTT(20), ZenonT(20) DEF CurlEnds
<1>2. read'[1] = out
  BY <1>1
<1>3. parse_header_file(out.headers) \in Seq(Headers)
  <2> DEFINE kept == IF "headers" \in files THEN printed.headers ELSE <<>>
             body == IF "body" \in files THEN read_capped(printed.body, BODY_LIMIT) ELSE <<>>
  <2>1. out = [printed EXCEPT !.headers = kept, !.body = body]
    BY <1>1
  <2>2. kept \in {printed.headers, <<>>}
    OBVIOUS
  <2>3. LeavesText(printed)
    BY <1>1, CurlLeavesText
  <2> HIDE DEF kept, body
  <2> QED BY <2>1, <2>2, <2>3, CurlLeavesHeaders
<1>4. \A h \in truncate_headers(parse_header_file(out.headers)) :
        /\ h.outcome # "panic" => FitResult(HttpResult(out, h), out)
        /\ h.outcome = "panic" => Wide(parse_header_file(out.headers))
  BY <1>3, ResultFits, TruncatedFits
<1>5. CASE \E note : Return(HttpFailed(note))
  BY <1>5 DEF Return, HttpFailed, HeadersInv
<1>6. ASSUME NEW h \in truncate_headers(parse_header_file(out.headers)), h.outcome = "panic",
             Return([status |-> "panicked"])
      PROVE  HeadersInv'
  BY <1>2, <1>4, <1>6 DEF Return, HeadersInv
<1>7. ASSUME NEW h \in truncate_headers(parse_header_file(out.headers)), h.outcome # "panic",
             Return(HttpResult(out, h))
      PROVE  HeadersInv'
  <2>1. pc' = "done" /\ FitResult(result', read'[1])
    BY <1>2, <1>4, <1>7 DEF Return
  <2>2. result'.status = "finished"
    BY <1>7 DEF Return, HttpResult
  <2> QED BY <2>1, <2>2 DEF HeadersInv
<1>8. ASSUME NEW h \in truncate_headers(parse_header_file(out.headers)), h.outcome # "panic",
             pc' = "s_client", result' = result, local' = [result |-> HttpResult(out, h), limit |-> 10]
      PROVE  HeadersInv'
  <2>1. FitResult(local'.result, read'[1])
    BY <1>2, <1>4, <1>8
  <2>2. result' = Nothing
    BY <1>8 DEF HeadersInv, CurlEnds
  <2> QED BY <1>8, <2>1, <2>2 DEF HeadersInv, Nothing
<1> QED BY <1>1, <1>5, <1>6, <1>7, <1>8

\* The other steps of an HTTP run leave its result's headers alone.
LEMMA HttpKeepsHeaders == HeadersInv /\ [Next]_vars /\ Is("http") /\ HttpNext => HeadersInv'
<1> SUFFICES ASSUME HeadersInv, [Next]_vars, Is("http"), HttpNext PROVE HeadersInv'
  OBVIOUS
<1>1. CASE Reject("http", HttpValid) \/ HttpUnresolved \/ CurlFails
  <2>1. pc' = "done" /\ result' = Failure
    BY <1>1 DEF Reject, HttpUnresolved, CurlFails, CurlGone, Return
  <2> QED BY <2>1 DEF HeadersInv, Failure
<1>2. CASE HttpResolve \/ HttpResolved \/ CurlWrites
  <2>1. \/ pc' \in {"dig", "curl"} /\ result' = result /\ pc \in {"new", "dig", "curl"}
        \/ pc' = "done" /\ result' = Failure
    BY <1>2 DEF HttpResolve, HttpResolved, CurlWrites, Return
  <2>2. pc \in {"new", "dig", "curl"} => result = Nothing
    BY DEF HeadersInv
  <2> QED BY <2>1, <2>2 DEF HeadersInv, Failure, Nothing
<1>3. CASE CurlEnds(CurlOutputs)
  BY <1>3, CurlKeepsHeaders
<1>4. CASE SClient
  <2>1. FitResult(local.result, read[1]) /\ read' = read /\ result = Nothing
    BY <1>4 DEF SClient, HeadersInv
  <2>2. PICK r :
          /\ r = local.result \/ \E v : r = [local.result EXCEPT !.tls.authorized = v]
          /\ (pc' = "x509" /\ local' = [result |-> r, limit |-> 4] /\ result' = result) \/ Return(r)
    BY <1>4 DEF SClient
  <2>3. \A v : [local.result EXCEPT !.tls.authorized = v]
                 = [local.result EXCEPT !["tls"] = [local.result.tls EXCEPT !.authorized = v]]
    OBVIOUS
  <2>4. \A x : FitResult([local.result EXCEPT !["tls"] = x], read[1])
    BY <2>1, StillFits
  <2>5. FitResult(r, read'[1])
    BY <2>1, <2>2, <2>3, <2>4
  <2>6. CASE pc' = "x509" /\ local' = [result |-> r, limit |-> 4] /\ result' = result
    BY <2>1, <2>5, <2>6 DEF HeadersInv, Nothing
  <2>7. CASE Return(r)
    <3>1. r.status = "finished"
      BY <2>5 DEF FitResult
    <3> QED BY <2>5, <2>7, <3>1 DEF HeadersInv, Return
  <2> QED BY <2>2, <2>6, <2>7
<1>5. CASE X509
  <2>1. FitResult(local.result, read[1]) /\ read' = read
    BY <1>5 DEF X509, HeadersInv
  <2>2. PICK x : Return([local.result EXCEPT !["tls"] = x])
    BY <1>5 DEF X509
  <2> DEFINE r == [local.result EXCEPT !["tls"] = x]
  <2>3. FitResult(r, read'[1])
    BY <2>1, StillFits
  <2>4. pc' = "done" /\ result' = r
    BY <2>2 DEF Return
  <2> HIDE DEF r
  <2>5. r.status = "finished"
    BY <2>3 DEF FitResult
  <2> QED BY <2>3, <2>4, <2>5 DEF HeadersInv
<1> QED BY <1>1, <1>2, <1>3, <1>4, <1>5 DEF HttpNext

\* Emitting a result changes its output only.
LEMMA EmitKeepsHeaders == HeadersInv /\ [Next]_vars /\ Is("http") /\ Emit => HeadersInv'
<1> SUFFICES ASSUME HeadersInv, [Next]_vars, Is("http"), Emit PROVE HeadersInv'
  OBVIOUS
<1>1. read' = read /\ pc' = "emitted"
  BY DEF Emit
<1>2. CASE result.status # "finished"
  <2>1. result' = result
    BY <1>2 DEF Emit
  <2> QED BY <1>1, <1>2, <2>1 DEF HeadersInv
<1>3. CASE result.status = "finished"
  <2> DEFINE x == limit_raw_output(result.raw)
             r == [result EXCEPT !["raw"] = x]
  <2>1. result' = r
    BY <1>3 DEF Emit
  <2> HIDE DEF x
  <2>2. FitResult(r, read'[1])
    BY <1>1, <1>3, StillFits DEF HeadersInv
  <2> HIDE DEF r
  <2>3. r.status = "finished"
    BY <2>2 DEF FitResult
  <2> QED BY <1>1, <2>1, <2>2, <2>3 DEF HeadersInv
<1> QED BY <1>2, <1>3

\* Every step keeps the headers of a result.
LEMMA NextHeaders == HeadersInv /\ [Next]_vars => HeadersInv'
<1> SUFFICES ASSUME HeadersInv, [Next]_vars PROVE HeadersInv'
  OBVIOUS
<1>1. Is("http")' <=> Is("http")
  BY NextKeepsJob DEF Is
<1>2. CASE ~Is("http")
  BY <1>1, <1>2 DEF HeadersInv
<1>3. CASE Is("http") /\ HttpNext
  BY <1>3, HttpKeepsHeaders
<1>4. CASE Is("http") /\ Emit
  BY <1>4, EmitKeepsHeaders
<1>5. CASE Drop
  <2>1. pc' = "done" /\ result'.status = "timeout"
    BY <1>5 DEF Drop, Return, TimedOut
  <2> QED BY <2>1 DEF HeadersInv
<1>6. CASE UNCHANGED vars
  BY <1>6 DEF vars, HeadersInv, Is
<1>7. job.cmd = "http" => Is("http") /\ ~Is("ping") /\ ~Is("traceroute") /\ ~Is("dns") /\ ~Is("mtr") /\ ~Is("tcp")
  BY DEF Is
<1>8. Next /\ Is("http") => HttpNext \/ Drop \/ Emit
  BY <1>7, OwnSteps DEF Is
<1> QED BY <1>2, <1>3, <1>4, <1>5, <1>6, <1>8

\* The headers an HTTP run sends fit HEADERS_SIZE_LIMIT and come, in their order
\* and each under its name, from those that were received; values are cut to the
\* greatest length that fits, headers left out only when nothing else helps, and
\* only a value with a character of several bytes ends in a panic
\* (truncate_headers, dedup_headers).
THEOREM HeadersAreFitted == Spec => []HeadersFit
<1>1. HeadersInv => HeadersFit
  <2> SUFFICES ASSUME HeadersInv PROVE HeadersFit
    OBVIOUS
  <2> DEFINE sent == parse_header_file(read[1].headers)
  <2>1. ASSUME Finished("http") PROVE FitResult(result, read[1])
    BY <2>1 DEF Finished, HeadersInv
  <2>2. Is("http") /\ result.status = "panicked" => Wide(sent)
    BY DEF HeadersInv
  <2> QED BY <2>1, <2>2 DEF HeadersFit, FitResult, Fitted, Origins, Explains, HasRoom, CutOnes, IsCut, Wide
<1> QED BY <1>1, InitHeaders, NextHeaders, PTL DEF Spec
=============================================================================
