-------------------------------- MODULE Dns --------------------------------
(***************************************************************************)
(* The DNS command (src/src/command/dns).  run_dig reads all dig prints;   *)
(* parse_classic and parse_trace then go over the lines.                   *)
(*                                                                         *)
(* A line is its kind, "blank", "section" (v its name), "record" (v the    *)
(* answer it parses to), "comment" (begins with ;;), "badpacket" or        *)
(* "other", and what the unanchored patterns find in it: says is a field   *)
(* and its value.  Any line may say something, a TXT record included.      *)
(***************************************************************************)
EXTENDS CommandRun

Line(kind, v) == [kind |-> kind, v |-> v, says |-> <<"nothing">>]
Saying(line, field, value) == [line EXCEPT !.says = <<field, value>>]
Blank == Line("blank", "")

\* SERVER: ip#port(name).  What stands for a private address once it is hidden:
HiddenIp == [v |-> 0, seg |-> <<"x.x.x.x">>]

STATUS_MAP == [
  NOERROR |-> 0, FORMERR |-> 1, SERVFAIL |-> 2, NXDOMAIN |-> 3, NOTIMP |-> 4,
  REFUSED |-> 5, YXDOMAIN |-> 6, YXRRSET |-> 7, NXRRSET |-> 8, NOTAUTH |-> 9,
  NOTZONE |-> 10, DSOTYPENI |-> 11, BADVERS |-> 16, BADSIG |-> 16, BADKEY |-> 17,
  BADTIME |-> 18, BADMODE |-> 19, BADNAME |-> 20, BADALG |-> 21, BADTRUNC |-> 22,
  BADCOOKIE |-> 23 ]

ALLOWED_TYPES == {"A", "AAAA", "ANY", "CNAME", "DNSKEY", "DS", "HTTPS", "MX", "NS",
                  "NSEC", "PTR", "RRSIG", "SOA", "TXT", "SRV", "SVCB"}

\* validate(): a private target is allowed, a private resolver is not.
DnsValid ==
  /\ job.type \in ALLOWED_TYPES
  /\ job.protocol \in {"UDP", "TCP"}       \* in any case of letters
  /\ job.ipVersion \in {4, 6}
  /\ is_safe_host(job.target)
  /\ job.resolver # NoTarget => is_safe_host(job.resolver) /\ ~IsPrivateLiteral(job.resolver)

rewrite_classic(lines) ==
  [i \in DOMAIN lines |->
     IF lines[i].says[1] = "server" /\ is_ip_private(lines[i].says[2].ip)
     THEN [lines[i] EXCEPT !.says[2].ip = HiddenIp] ELSE lines[i]]

\* The resolver is what the parentheses hold: a name, or the address again.
ResolverIn(server) ==
  IF server.name # "none" THEN server.name
  ELSE IF server.ip = HiddenIp THEN "private" ELSE server.ip

DnsFailed(raw) == [status |-> "failed", answers |-> <<>>, raw |-> raw]

Unreadable(lines, least) == Len(lines) < least \/ Head(lines).kind = "badpacket"

\* Mutant of SectionAt: a blank line does not end the section.
SectionUnended(section, l) == IF l.kind = "section" THEN l.v ELSE section

\* The section a line is in.
SectionAt(section, l) ==
  IF l.kind = "blank" THEN "" ELSE IF l.kind = "section" THEN l.v ELSE section

\* One line of the loop in parse_classic.
ClassicStep(s, l) ==
  LET field(f, value) == IF l.says[1] = f THEN l.says[2] ELSE value
      section == SectionAt(s.section, l)
  IN  [ s EXCEPT
        !.time = field("time", @),
        !.code = field("status", @),
        !.resolver = IF l.says[1] = "server" THEN ResolverIn(l.says[2]) ELSE @,
        !.section = section,
        !.answers = IF section = "answer" /\ l.kind = "record" THEN Append(@, l.v) ELSE @ ]

parse_classic(raw) ==
  LET lines == rewrite_classic(raw)
      start == [section |-> "header", answers |-> <<>>, time |-> 0, code |-> "none", resolver |-> "none"]
      after[n \in 0..Len(lines)] == IF n = 0 THEN start ELSE ClassicStep(after[n - 1], lines[n])
      end == after[Len(lines)]
  IN  IF Unreadable(lines, 6) THEN DnsFailed(lines)
      ELSE [ status |-> "finished", answers |-> end.answers, time |-> end.time,
             resolver |-> end.resolver, statusCodeName |-> end.code,
             statusCode |-> IF end.code \in DOMAIN STATUS_MAP THEN STATUS_MAP[end.code] ELSE -1,
             raw |-> lines ]

NoHop == [answers |-> <<>>, time |-> 0, resolver |-> "none"]

push_hop(hops, hop) ==
  IF hop.answers # <<>> \/ hop.resolver # "none" THEN Append(hops, hop) ELSE hops

\* One line of the loop in parse_trace_hops.  Without anything to push the
\* current hop is left as it is.
TraceStep(s, l) ==
  CASE l.kind = "blank" ->
         IF push_hop(s.hops, s.hop) = s.hops THEN s
         ELSE [hops |-> push_hop(s.hops, s.hop), hop |-> NoHop]
    [] l.kind \in {"comment", "badpacket"} /\ l.says[1] = "received" ->
         [s EXCEPT !.hop.resolver = l.says[2].name, !.hop.time = l.says[2].time]
    [] l.kind = "record" -> [s EXCEPT !.hop.answers = Append(@, l.v)]
    [] OTHER -> s

parse_trace(raw) ==
  LET start == [hops |-> <<>>, hop |-> NoHop]
      after[n \in 0..Len(raw)] == IF n = 0 THEN start ELSE TraceStep(after[n - 1], raw[n])
      end == after[Len(raw)]
  IN  IF Unreadable(raw, 3) THEN [status |-> "failed", hops |-> <<>>, raw |-> raw]
      ELSE [status |-> "finished", hops |-> push_hop(end.hops, end.hop), raw |-> raw]

\* What dig may print.  A classic answer has a header with the status, sections
\* and a footer; a trace has blocks of records, each ended by who sent them.
DnsComment == Line("comment", "")
DnsRecord(n) == Line("record", n)
DnsServer(ip, name) == Saying(DnsComment, "server", [ip |-> ip, name |-> name])

DnsHeader == <<DnsComment, Saying(DnsComment, "status", "NOERROR")>>
DnsFooter(ip, name) == <<Saying(DnsComment, "time", 7), DnsServer(ip, name)>>

\* The servers that may answer: the system's, or the job's; dig looks up the
\* address of one that is given by its name.
DnsServers ==
  IF job.resolver = NoTarget THEN {IPv4(127, 0, 0, 53), IPv4(9, 9, 9, 9)}
  ELSE IF job.resolver.ip = NoIp THEN {IPv4(10, 0, 0, 53), IPv4(9, 9, 9, 9)}
  ELSE {job.resolver.ip}
DnsServerName == IF job.resolver # NoTarget /\ job.resolver.ip = NoIp THEN "dns" ELSE "none"
DnsFooters == {<<>>} \cup {DnsFooter(ip, DnsServerName) : ip \in DnsServers}

DnsBody == {Blank, Line("section", "answer"), Line("section", "authority"), DnsRecord("one"),
            Saying(DnsRecord("two"), "status", "REFUSED"), Line("other", "")}
DnsPrints(body, footer) == DnsHeader \o body \o footer

DnsTraced == {Blank, DnsRecord("one"), DnsRecord("two"), DnsComment,
              Saying(DnsComment, "received", [name |-> "ns", time |-> 3])}

BadPacket == <<Line("badpacket", ""), DnsComment, DnsComment, DnsComment, DnsComment, DnsComment>>

DnsOutputs ==
  {<<>>, BadPacket}
  \cup IF job.trace THEN BoundedSeq(DnsTraced, 5)
       ELSE {DnsPrints(b, f) : b \in BoundedSeq(DnsBody, 4), f \in DnsFooters}

\* dig has no timeout but Drop; the text ends with a newline, after which
\* split() finds one more, empty, line.
DnsEnds ==
  /\ Is("dns") /\ pc = "reading"
  /\ LET raw == Append(tool, Blank)
     IN  Return(IF job.trace THEN parse_trace(raw) ELSE parse_classic(raw))
  /\ read' = tool
  /\ tool' = <<>>
  /\ UNCHANGED <<job, clock, local, files, told>>

DnsNext ==
  \/ Reject("dns", DnsValid)
  \/ Spawn("dns", DnsValid, DnsOutputs)
  \/ SpawnFails("dns", DnsValid)
  \/ ReadFails("dns")
  \/ DnsEnds
============================================================================
