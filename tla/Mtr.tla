-------------------------------- MODULE Mtr --------------------------------
(***************************************************************************)
(* The mtr command (src/src/command/mtr.rs).  run_mtr collects the events  *)
(* mtr --raw prints, parses them into hops, refuses a private target, and  *)
(* looks up the AS numbers of the hops.                                    *)
(*                                                                         *)
(* Events: [kind "h", hop, ip] a hop has answered from ip; [kind "d", hop, *)
(* name] it is called name; [kind "x", hop, seq] a probe was sent to it;   *)
(* [kind "p", hop, seq, rtt] that probe was answered; "noise" is a line    *)
(* with fewer parts or another letter.  Times are hundredths of            *)
(* milliseconds, which r1() rounds to tenths, as it does shares, which are *)
(* hundredths of percents.                                                 *)
(***************************************************************************)
EXTENDS CommandRun

NoTime == -1        \* a probe without an answer

fresh == [ip |-> NoIp, name |-> "none", timings |-> <<>>, duplicate |-> FALSE]

\* n/d, rounded to tens.
r1(n, d) == 10 * ((n + 5 * d) \div (10 * d))

Received(timings) == Chosen(timings, {i \in DOMAIN timings : timings[i] # NoTime})

\* r1() of the root of n/d, for the deviation of times from their average.
RootOf(n, d) == 10 * CHOOSE s \in 0..n :
  /\ s > 0 => 25 * (2 * s - 1) * (2 * s - 1) * d <= n
  /\ n < 25 * (2 * s + 1) * (2 * s + 1) * d

Lowest(s) == CHOOSE x \in ToSet(s) : \A y \in ToSet(s) : x <= y
Highest(s) == CHOOSE x \in ToSet(s) : \A y \in ToSet(s) : x >= y
Average(s) == IF s = <<>> THEN 0 ELSE r1(Total(s), Len(s))

\* Mutant of Settled: the last probe never counts.
SettledButLast(timings, is_final) ==
  IF timings = <<>> THEN timings ELSE SubSeq(timings, 1, Len(timings) - 1)

\* While the run goes on, the last probe is neither answered nor lost yet.
Settled(timings, is_final) ==
  IF is_final \/ timings = <<>> THEN timings ELSE SubSeq(timings, 1, Len(timings) - 1)

\* The statistics of one hop: only the minimum and the maximum are not rounded,
\* and the deviation is from the rounded average.
compute_stats(timings, is_final) ==
  LET total == Len(timings)
      rtts == Received(timings)
      settled == Settled(timings, is_final)
      rcv == Len(Received(settled))
      avg == Average(rtts)
      squares == [i \in DOMAIN rtts |-> (rtts[i] - avg) * (rtts[i] - avg)]
      \* pairs of answers that share none, in the order the probes were sent
      gap(a, b) == IF a < b THEN b - a ELSE a - b
      jitter == [i \in 1..Len(rtts) \div 2 |-> gap(rtts[2 * i - 1], rtts[2 * i])]
  IN  [ total |-> total, rcv |-> rcv, drop |-> Len(settled) - rcv,
        loss  |-> IF total = 0 THEN 0 ELSE r1(10000 * (Len(settled) - rcv), total),
        min   |-> IF rtts = <<>> THEN 0 ELSE Lowest(rtts),
        max   |-> IF rtts = <<>> THEN 0 ELSE Highest(rtts),
        avg   |-> avg,
        stDev |-> IF rtts = <<>> THEN 0 ELSE RootOf(Total(squares), Len(rtts)),
        jMin  |-> IF jitter = <<>> THEN 0 ELSE r1(Lowest(jitter), 1),
        jMax  |-> IF jitter = <<>> THEN 0 ELSE r1(Highest(jitter), 1),
        jAvg  |-> Average(jitter) ]

\* A map with one more entry, or another one.
Inserted(map, key, value) ==
  [k \in DOMAIN map \cup {key} |-> IF k = key THEN value ELSE map[k]]

\* One line of the loop in parse_raw: b are the builders there are, by hop, below
\* size, and names what the addresses are called.
RawStep(s, e) ==
  LET hop == IF e.hop \in DOMAIN s.b THEN s.b[e.hop] ELSE fresh
      put(h) == [s EXCEPT !.b = Inserted(@, e.hop, h), !.size = IF @ > e.hop THEN @ ELSE e.hop + 1]
      sent == {i \in DOMAIN hop.timings : hop.timings[i].seq = e.seq}
  IN  CASE e.kind = "h" ->
             put([hop EXCEPT !.ip = e.ip,
                    !.duplicate = \E j \in DOMAIN s.b : j < e.hop /\ s.b[j].ip = e.ip])
        [] e.kind = "d" ->
             [put([hop EXCEPT !.name = e.name]) EXCEPT
                !.names = IF hop.ip = NoIp THEN @ ELSE Inserted(@, hop.ip, e.name)]
        [] e.kind = "x" ->
             put(IF sent # {} THEN hop
                 ELSE [hop EXCEPT !.timings = Append(@, [seq |-> e.seq, rtt |-> NoTime])])
        [] e.kind = "p" /\ sent # {} ->
             put([hop EXCEPT !.timings[CHOOSE i \in sent : TRUE].rtt = e.rtt])
        [] OTHER -> s

\* Hops that share an address share its name; a hop at an address that a lower
\* one had when it answered is left out; times of lost probes are left out when
\* the statistics are done.
parse_raw(events, is_final) ==
  LET after[n \in 0..Len(events)] ==
        IF n = 0 THEN [b |-> <<>>, size |-> 0, names |-> <<>>] ELSE RawStep(after[n - 1], events[n])
      end == after[Len(events)]
      hop(i) ==
        LET b == end.b[i]
            rtts == [k \in DOMAIN b.timings |-> b.timings[k].rtt]
        IN  [ index |-> i, ip |-> b.ip, asn |-> "none",
              name  |-> IF b.name = "none" /\ b.ip \in DOMAIN end.names
                        THEN end.names[b.ip] ELSE b.name,
              stats |-> compute_stats(rtts, is_final), timings |-> Received(rtts) ]
      below[n \in 0..end.size] ==
        IF n = 0 THEN <<>>
        ELSE IF n - 1 \in DOMAIN end.b /\ ~end.b[n - 1].duplicate
             THEN Append(below[n - 1], hop(n - 1)) ELSE below[n - 1]
  IN  below[end.size]

\* The rows of the table: stars at the end are left out, but for the first of
\* them; the first row is the gateway, whatever its name.
build_output(hops) ==
  LET star(i) == hops[i].ip = NoIp
      trailing(i) == star(i) /\ \A j \in (IF i = 1 THEN 1 ELSE i - 1)..Len(hops) : star(j)
      rows == SetToSortSeq({i \in DOMAIN hops : ~trailing(i)}, <)
  IN  [r \in DOMAIN rows |->
         [kind |-> "row", ip |-> hops[rows[r]].ip,
          host |-> IF star(rows[r]) THEN "(waiting for reply)"
                   ELSE IF r = 1 THEN "_gateway" ELSE hops[rows[r]].name]]

MtrFailed(raw) == [status |-> "failed", address |-> NoIp, hops |-> <<>>, raw |-> raw]

MtrValid ==
  /\ is_safe_host(job.target)
  /\ job.ipVersion \in {4, 6}
  /\ job.protocol \in {"ICMP", "TCP", "UDP"}      \* in any case of letters
  /\ job.packets \in 1..16
  /\ ~IsPrivateLiteral(job.target)

\* What mtr --raw may print: its own order of the events of two hops, and
\* longer runs of one hop.
MtrHost(hop, ip) == [kind |-> "h", hop |-> hop, ip |-> ip, seq |-> 0]
MtrSent(hop, seq) == [kind |-> "x", hop |-> hop, seq |-> seq]
MtrReply(hop, seq, rtt) == [kind |-> "p", hop |-> hop, seq |-> seq, rtt |-> rtt]
MtrName(hop, name) == [kind |-> "d", hop |-> hop, name |-> name, seq |-> 0]

MtrEvents == {  \* the second hop is the target or still on the way to it
  MtrHost(0, IPv4(9, 9, 9, 9)), MtrHost(1, IPv4(9, 9, 9, 9)), MtrSent(0, 1), MtrSent(1, 2), MtrSent(1, 3),
  MtrReply(1, 2, 24), MtrReply(1, 3, 15), MtrName(0, "one"), [kind |-> "noise", hop |-> 1, seq |-> 0] }

MtrProbes(t) == FlattenSeq([i \in DOMAIN t |->
  IF t[i] = NoTime THEN <<MtrSent(0, i)>> ELSE <<MtrSent(0, i), MtrReply(0, i, t[i])>>])

MtrTimes == UNION {[1..n -> {NoTime, 14, 37}] : n \in 3..4}

MtrEndsAt(ip) == <<MtrHost(0, IPv4(10, 0, 0, 1)), MtrSent(0, 1), MtrHost(2, ip)>>
MtrRun(t) == <<MtrHost(0, IPv4(9, 9, 9, 9))>> \o MtrProbes(t)

MtrOutputs ==
  BoundedSeq(MtrEvents, 4) \cup {MtrEndsAt(ip) : ip \in job.resolves} \cup {MtrRun(t) : t \in MtrTimes}

\* The output has ended.  The timeout of 60 s is beyond MEASUREMENT_TIMEOUT:
\* Drop comes first.  An output without text fails.
MtrCollect ==
  /\ Is("mtr") /\ pc = "reading"
  /\ read' = tool
  /\ tool' = <<>>
  /\ LET hops == parse_raw(tool, TRUE)
         last == SelectLastInSeq(hops, LAMBDA h : h.ip # NoIp)
     IN  IF tool = <<>> THEN Return(MtrFailed(<<>>)) /\ UNCHANGED local
         ELSE IF last # 0 /\ is_ip_private(hops[last].ip)
         THEN Return(MtrFailed(PrivateNote)) /\ UNCHANGED local
         ELSE /\ pc' = "asn"
              /\ local' = [hops |-> hops, last |-> last, limit |-> 3]
              /\ UNCHANGED result
  /\ UNCHANGED <<job, clock, files, told>>

\* The lookups run in parallel; each may fail or take its whole timeout, and
\* only public IPv4 addresses are looked up.
MtrLookup ==
  /\ Is("mtr") /\ pc = "asn"
  /\ \E known \in SUBSET {h.ip : h \in {x \in ToSet(local.hops) :
                            x.ip.v = 4 /\ ~is_ip_private(x.ip)}} :
       LET hops == [i \in DOMAIN local.hops |->
             [local.hops[i] EXCEPT !.asn = IF local.hops[i].ip \in known THEN "AS" ELSE @]]
       IN  Return([ status |-> "finished", hops |-> hops, raw |-> build_output(hops),
                    address |-> IF local.last = 0 THEN NoIp ELSE hops[local.last].ip ])
  /\ local' = Nothing
  /\ TakesUpTo(3)
  /\ UNCHANGED <<job, tool, read, files, told>>

MtrNext ==
  \/ Reject("mtr", MtrValid)
  \/ Spawn("mtr", MtrValid, MtrOutputs)
  \/ SpawnFails("mtr", MtrValid)
  \/ MtrCollect
  \/ MtrLookup
============================================================================
