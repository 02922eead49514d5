---------------------------- MODULE ReservedRanges ----------------------------
(***************************************************************************)
(* What is reserved, as a list of first and last addresses, and how an     *)
(* address compares with them: the reference for the check of Addresses,   *)
(* which looks at leading bits.                                            *)
(***************************************************************************)
EXTENDS Addresses, SequencesExt

Interval4(a, b) == <<[v |-> 4, seg |-> a], [v |-> 4, seg |-> b]>>

\* From a prefix of groups, the last one up to a bound.
Interval6(prefix, last) ==
  LET n == Len(prefix)
  IN  << IPv6([i \in 1..8 |-> IF i <= n THEN prefix[i] ELSE 0]),
         IPv6([i \in 1..8 |-> IF i < n THEN prefix[i] ELSE IF i = n THEN last ELSE 65535]) >>

ReservedIntervals ==
  { Interval4(<<0, 0, 0, 0>>, <<0, 255, 255, 255>>), Interval4(<<10, 0, 0, 0>>, <<10, 255, 255, 255>>),
    Interval4(<<100, 64, 0, 0>>, <<100, 127, 255, 255>>), Interval4(<<127, 0, 0, 0>>, <<127, 255, 255, 255>>),
    Interval4(<<169, 254, 0, 0>>, <<169, 254, 255, 255>>), Interval4(<<172, 16, 0, 0>>, <<172, 31, 255, 255>>),
    Interval4(<<192, 0, 0, 0>>, <<192, 0, 0, 255>>), Interval4(<<192, 0, 2, 0>>, <<192, 0, 2, 255>>),
    Interval4(<<192, 88, 99, 0>>, <<192, 88, 99, 255>>), Interval4(<<192, 168, 0, 0>>, <<192, 168, 255, 255>>),
    Interval4(<<198, 18, 0, 0>>, <<198, 19, 255, 255>>), Interval4(<<198, 51, 100, 0>>, <<198, 51, 100, 255>>),
    Interval4(<<203, 0, 113, 0>>, <<203, 0, 113, 255>>), Interval4(<<224, 0, 0, 0>>, <<255, 255, 255, 255>>),
    Interval6(<<0, 0, 0, 0, 0, 0, 0, 0>>, 1), Interval6(<<100, 65435, 1>>, 1), Interval6(<<256, 0, 0, 0>>, 0),
    Interval6(<<8193, 0>>, 0), Interval6(<<8193, 16>>, 47), Interval6(<<8193, 3512>>, 3512), Interval6(<<8194>>, 8194),
    Interval6(<<64512>>, 65023), Interval6(<<65152>>, 65215), Interval6(<<65280>>, 65535) }

\* Addresses of one version in their order.
UpToAddress(a, b) ==
  \/ a = b
  \/ \E i \in DOMAIN a.seg : a.seg[i] < b.seg[i] /\ \A j \in 1..i - 1 : a.seg[j] = b.seg[j]

\* The two ways an IPv4 address is written as an IPv6 address.
Mapped(ip, prefix) ==
  IPv6(prefix \o <<ip.seg[1] * 256 + ip.seg[2], ip.seg[3] * 256 + ip.seg[4]>>)
Embeddings(ip) ==
  {Mapped(ip, <<0, 0, 0, 0, 0, 65535>>), Mapped(ip, <<100, 65435, 0, 0, 0, 0>>)}

Within(ip, interval) ==
  ip.v = interval[1].v /\ UpToAddress(interval[1], ip) /\ UpToAddress(ip, interval[2])

Reserved(ip) ==
  \/ ip \in LocalIps \/ \E r \in ReservedIntervals : Within(ip, r)
  \/ /\ ip.v = 6 /\ ip \in Embeddings(IPv4In(ip))
     /\ IPv4In(ip) \in LocalIps \/ \E r \in ReservedIntervals : Within(IPv4In(ip), r)

\* The address before or after one, in a place that does not carry.
Beside(ip, step) ==
  LET top == IF ip.v = 4 THEN 255 ELSE 65535
      last == SelectLastInSeq(ip.seg, LAMBDA s : s + step \in 0..top)
  IN  IF last = 0 THEN ip
      ELSE [ip EXCEPT !.seg = [i \in DOMAIN @ |->
              IF i < last THEN @[i] ELSE IF i = last THEN @[i] + step ELSE IF step = 1 THEN 0 ELSE top]]

BoundaryAddresses ==
  LET bounds == UNION {{r[1], r[2], Beside(r[1], -1), Beside(r[2], 1)} : r \in ReservedIntervals}
  IN  bounds \cup UNION {Embeddings(ip) : ip \in {b \in bounds : b.v = 4}}

==============================================================================
