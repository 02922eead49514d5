-------------------------------- MODULE Ping --------------------------------
(***************************************************************************)
(* The ping command (src/src/command/ping).  run_icmp reads ping(8) line   *)
(* by line: it stops the tool as soon as the output tells that the target  *)
(* is a private address, and sends a partial result after every reply.     *)
(*                                                                         *)
(* Lines of ping(8): "header" with the address the target resolved to,     *)
(* "reply" with its sender's name and time, "silent" for a request without *)
(* a reply, "statistics", "summary", "rtt", and "noise" for what no        *)
(* pattern matches.                                                        *)
(***************************************************************************)
EXTENDS CommandRun

NoStats == [total |-> "none", rcv |-> "none", drop |-> "none", times |-> "none"]

PingFailed(raw) ==
  [status |-> "failed", address |-> NoIp, hostname |-> "none", items |-> <<>>,
   stats |-> NoStats, raw |-> raw]

\* The line after "--- statistics ---" counts, the one after it times.
parse_summary(lines) ==
  LET at(i, kind) == Len(lines) >= i /\ lines[i].kind = kind
      counts == IF at(1, "summary")
                THEN [total |-> lines[1].total, rcv |-> lines[1].rcv,
                      drop |-> IF lines[1].rcv > lines[1].total THEN 0
                               ELSE lines[1].total - lines[1].rcv]
                ELSE [total |-> "none", rcv |-> "none", drop |-> "none"]
  IN  counts @@ [times |-> IF at(2, "rtt") THEN lines[2].times ELSE "none"]

PingParse(lines) ==
  IF lines = <<>> \/ Head(lines).kind # "header" THEN PingFailed(lines)
  ELSE LET replies == Chosen(lines, {i \in 2..Len(lines) : lines[i].kind = "reply"})
           at == SelectInSeq(lines, LAMBDA l : l.kind = "statistics")
       IN  [ status   |-> "finished",
             address  |-> lines[1].ip,
             \* the sender of the first reply, if that is the line after the header
             hostname |-> IF Len(lines) > 1 /\ lines[2].kind = "reply"
                          THEN lines[2].from ELSE "",
             items    |-> [i \in DOMAIN replies |-> replies[i].rtt],
             stats    |-> IF at = 0 THEN NoStats
                          ELSE parse_summary(SubSeq(lines, at + 1, Len(lines))),
             raw      |-> lines ]

\* validate(): the protocol is not looked at.
PingValid ==
  /\ is_safe_host(job.target)
  /\ job.packets \in 1..16
  /\ job.ipVersion \in {4, 6}
  /\ ~IsPrivateLiteral(job.target)

\* What ping(8) may print when it is asked for two packets: an address that
\* need not be a public one, replies, and, unless it is cut short, a summary,
\* where replies that came twice make rcv exceed total.
PingReply(n) == [kind |-> "reply", from |-> "host", rtt |-> n]
PingBodies == UNION {[1..n -> {PingReply(1), PingReply(2), [kind |-> "silent"]}] : n \in 0..2}
PingSummary(n) == <<[kind |-> "statistics"], [kind |-> "summary", total |-> 2, rcv |-> n]>>
PingTails ==
  {<<>>} \cup {PingSummary(n) : n \in 0..3}
  \cup {Append(PingSummary(n), [kind |-> "rtt", times |-> <<1, 2>>]) : n \in 1..3}
PingPrints(ip, body, tail) == <<[kind |-> "header", ip |-> ip]>> \o body \o tail

PingOutputs ==
  {<<>>, <<[kind |-> "noise"]>>}
  \cup {PingPrints(ip, body, tail) : ip \in job.resolves, body \in PingBodies, tail \in PingTails}

\* run_icmp() after the child has been waited for.
PingResult(lines, private) == IF private THEN PingFailed(PrivateNote) ELSE PingParse(lines)

\* The loop over the lines, up to the line that resolves the target, which is
\* the header: a private address kills the tool.  Later lines only report.
PingLine ==
  /\ Is("ping") /\ pc = "reading" /\ tool # <<>>
  /\ LET lines == Append(read, Head(tool))
         partial == PingParse(lines)
         private == PingParse(read).address = NoIp /\ is_ip_private(partial.address)
         reports == job.progress /\ ~private
                    /\ Head(tool).kind = "reply" /\ partial.items # <<>>
     IN  /\ read' = lines
         /\ tool' = IF private THEN <<>> ELSE Tail(tool)
         /\ told' = IF reports THEN Append(told, partial) ELSE told
         /\ IF private THEN Return(PingResult(lines, TRUE)) ELSE UNCHANGED <<pc, result>>
  /\ UNCHANGED <<job, clock, local, files>>

\* The end of the output.
PingEnds ==
  /\ Is("ping") /\ pc = "reading" /\ tool = <<>>
  /\ Return(PingResult(read, FALSE))
  /\ UNCHANGED <<job, clock, tool, read, local, files, told>>

PingNext ==
  \/ Reject("ping", PingValid)
  \/ Spawn("ping", PingValid, PingOutputs)
  \/ SpawnFails("ping", PingValid)
  \/ ReadFails("ping")
  \/ PingLine
  \/ PingEnds
=============================================================================
