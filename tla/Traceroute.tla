----------------------------- MODULE Traceroute -----------------------------
(***************************************************************************)
(* The traceroute command (src/src/command/traceroute).  run_traceroute    *)
(* reads traceroute(8) line by line and sends what it has parsed after     *)
(* every hop; whether the target was a private address is looked at when   *)
(* the tool has ended.                                                     *)
(*                                                                         *)
(* Lines: "header" with the address of the target, "hop" with the name and *)
(* address of who answered, if anyone did, and the times of its answers,   *)
(* "other" for a line that does not begin with the number of a hop.        *)
(***************************************************************************)
EXTENDS CommandRun

TracerouteFailed(raw) ==
  [status |-> "failed", address |-> NoIp, hostname |-> "none", items |-> <<>>, raw |-> raw]

\* The router next to the probe is not named.
HideGateway(lines) ==
  IF Len(lines) > 1 /\ lines[2].host # "none"
  THEN [lines EXCEPT ![2].host = "_gateway"] ELSE lines

parse_hop_line(l) == [address |-> l.ip, hostname |-> l.host, rtts |-> l.rtts]

TracerouteParse(lines) ==
  IF lines = <<>> \/ Head(lines).kind # "header" THEN TracerouteFailed(lines)
  ELSE LET shown == HideGateway(lines)
           hops == [i \in 1..Len(shown) - 1 |-> parse_hop_line(shown[i + 1])]
           named == SelectLastInSeq(hops, LAMBDA h : h.hostname # "none")
       IN  [ status   |-> "finished",
             address  |-> lines[1].ip,
             hostname |-> IF named = 0 THEN "none" ELSE hops[named].hostname,
             items    |-> hops,
             raw      |-> shown ]

TracerouteValid ==
  /\ is_safe_host(job.target)
  /\ job.ipVersion \in {4, 6}
  /\ job.protocol \in {"ICMP", "TCP", "UDP"}      \* in any case of letters
  /\ ~IsPrivateLiteral(job.target)

\* What traceroute(8) may print: up to three lines of hops after the header.
TracerouteLineOf(kind, ip, host, rtts) == [kind |-> kind, ip |-> ip, host |-> host, rtts |-> rtts]

TracerouteHops == {
  TracerouteLineOf("hop", IPv4(192, 168, 0, 1), "router", <<1, 1>>),
  TracerouteLineOf("hop", IPv4(9, 9, 9, 9), "host", <<2>>),
  TracerouteLineOf("hop", NoIp, "none", <<>>),
  TracerouteLineOf("other", NoIp, "none", <<>>) }

TraceroutePrints(ip, body) == <<TracerouteLineOf("header", ip, "target", <<>>)>> \o body

TracerouteOutputs ==
  {<<>>, <<TracerouteLineOf("other", NoIp, "none", <<>>)>>}
  \cup {TraceroutePrints(ip, body) : ip \in job.resolves, body \in BoundedSeq(TracerouteHops, 3)}

\* Mutant of Partial: only the hop that is new.
PartialNewest(parsed, lines) == [parsed EXCEPT !.raw = lines, !.items = <<Last(@)>>]

\* A partial result has the lines as the tool printed them.
Partial(parsed, lines) == [parsed EXCEPT !.raw = lines]

\* A line is read; a hop is reported.
TracerouteLine ==
  /\ Is("traceroute") /\ pc = "reading" /\ tool # <<>>
  /\ LET lines == Append(read, Head(tool))
         partial == TracerouteParse(lines)
         reports == job.progress /\ Head(tool).kind = "hop" /\ partial.items # <<>>
     IN  /\ read' = lines
         /\ tool' = Tail(tool)
         /\ told' = IF reports THEN Append(told, Partial(partial, lines)) ELSE told
  /\ UNCHANGED <<job, pc, clock, local, files, result>>

\* The end of the output: of a private target only the address is told.
TracerouteEnds ==
  /\ Is("traceroute") /\ pc = "reading" /\ tool = <<>>
  /\ LET parsed == TracerouteParse(read)
     IN  Return(IF is_ip_private(parsed.address)
                THEN [parsed EXCEPT !.status = "failed", !.raw = PrivateNote, !.items = <<>>]
                ELSE parsed)
  /\ UNCHANGED <<job, clock, tool, read, local, files, told>>

TracerouteNext ==
  \/ Reject("traceroute", TracerouteValid)
  \/ Spawn("traceroute", TracerouteValid, TracerouteOutputs)
  \/ SpawnFails("traceroute", TracerouteValid)
  \/ ReadFails("traceroute")
  \/ TracerouteLine
  \/ TracerouteEnds
=============================================================================
