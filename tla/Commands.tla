------------------------------ MODULE Commands ------------------------------
(***************************************************************************)
(* The measurement commands together: dispatch() makes the command of a    *)
(* job, runs it under MEASUREMENT_TIMEOUT, and limits its output before    *)
(* the result is emitted (src/src/probe/client.rs; how dispatch() shares   *)
(* the probe with others is the subject of Session and Measurement).  TCP  *)
(* ping, which the status loop runs, is a further case.                    *)
(*                                                                         *)
(* The jobs are those the API may send: each command's usual one, with     *)
(* targets and resolvers that resolve to public and private addresses, one *)
(* option wrong at a time, and addresses at the bounds of every reserved   *)
(* range.                                                                  *)
(***************************************************************************)
EXTENDS Ping, Traceroute, Dns, TcpPing, Http, ReservedRanges

CONSTANT Cmds       \* the commands that are looked at

ASSUME CmdsAssumption ==
  Cmds \subseteq {"ping", "traceroute", "mtr", "dns", "http", "tcp", "unknown"}

----------------------------------------------------------------------------
(* Jobs *)

Public == IPv4(9, 9, 9, 9)
Private == IPv4(192, 168, 0, 7)

Usual(cmd) ==
  [ cmd |-> cmd, target |-> NameTarget, resolves |-> {Public, Private}, packets |-> 2,
    ipVersion |-> 4, protocol |-> IF cmd = "http" THEN "HTTPS" ELSE "UDP", progress |-> TRUE,
    type |-> "A", resolver |-> NoTarget, trace |-> FALSE, host |-> NoTarget,
    method |-> "GET", path |-> {}, query |-> {}, headers |-> {} ]

\* One option wrong, or unusual.
Variants(cmd) ==
  LET u == Usual(cmd)
      literal(ip) == [u EXCEPT !.target = LiteralTarget(ip), !.resolves = {ip}]
      dash == Target(NoIp, "-", {"alnum"}, "fits")
      shell == Target(NoIp, "alnum", {";"}, "fits")
      resolvers == {dash, LiteralTarget(Private), LiteralTarget(Public), NameTarget}
  IN  { u, literal(Public), literal(Private), literal(IPv6(<<8193, 18528, 0, 0, 0, 0, 0, 1>>)),
        [u EXCEPT !.target = NoTarget], [u EXCEPT !.target = dash], [u EXCEPT !.target = shell],
        [u EXCEPT !.ipVersion = 5], [u EXCEPT !.protocol = "SCTP"] }
      \cup CASE cmd = "ping" -> {[u EXCEPT !.packets = n] : n \in {0, 17}} \cup {[u EXCEPT !.progress = FALSE]}
             [] cmd = "mtr" -> {[u EXCEPT !.packets = n] : n \in {0, 17}}
             [] cmd = "traceroute" -> {[u EXCEPT !.progress = FALSE]}
             [] cmd = "dns" ->
                  {[u EXCEPT !.resolver = r] : r \in resolvers}
                  \cup {[u EXCEPT !.type = "LOC"], [u EXCEPT !.trace = TRUE]}
             [] cmd = "http" ->
                  {[u EXCEPT !.resolver = r] : r \in resolvers}
                  \cup {[u EXCEPT !.method = m] : m \in {"POST", "head", "HEAD"}}
                  \cup {[u EXCEPT !.host = shell], [u EXCEPT !.path = {"control"}],
                        [u EXCEPT !.query = {"space"}], [u EXCEPT !.headers = {"control"}],
                        [u EXCEPT !.protocol = "HTTP"]}

BoundaryJob(ip) ==
  [Usual("ping") EXCEPT !.target = LiteralTarget(ip), !.resolves = {ip}, !.progress = FALSE]

TcpJob(target, n) == [Usual("tcp") EXCEPT !.target = target, !.packets = n]

TcpJobs(targets) == UNION {{TcpJob(t, n) : n \in {1, 4}} : t \in targets}

Jobs ==
  (UNION {Variants(cmd) : cmd \in Cmds \ {"tcp", "unknown"}})
  \cup {BoundaryJob(ip) : ip \in IF "ping" \in Cmds THEN BoundaryAddresses ELSE {}}
  \cup TcpJobs(IF "tcp" \in Cmds THEN {LiteralTarget(Public), NameTarget} ELSE {})
  \cup {Usual(cmd) : cmd \in Cmds \cap {"unknown"}}

----------------------------------------------------------------------------
(* Runs *)

Init == \E j \in Jobs : Started(j)

\* make_command() knows no such type: a result of dispatch()'s own.
UnknownType ==
  /\ pc = "new" /\ job.cmd \notin {"ping", "dns", "traceroute", "mtr", "http", "tcp"}
  /\ Return([status |-> "failed", raw |-> <<[kind |-> "unknown"]>>])
  /\ UNCHANGED <<job, clock, tool, read, local, files, told>>

\* The result goes to the API; of raw outputs only that of HTTP is modelled by
\* its bytes.  A panic ends the task without one.
Emit ==
  /\ pc = "done" /\ ~Is("tcp") /\ result.status # "panicked"
  /\ pc' = "emitted"
  /\ result' = IF Is("http") /\ result.status = "finished"
               THEN [result EXCEPT !.raw = limit_raw_output(@)] ELSE result
  /\ UNCHANGED <<job, clock, tool, read, local, files, told>>

Next ==
  \/ PingNext
  \/ TracerouteNext
  \/ DnsNext
  \/ MtrNext
  \/ TcpNext
  \/ HttpNext
  \/ UnknownType
  \/ Drop
  \/ Emit

Spec == Init /\ [][Next]_vars

----------------------------------------------------------------------------
(* Properties *)

\* The commands whose target must not be reserved; dig may ask for any name.
Guarded == {"ping", "traceroute", "mtr", "http"}

Finished(cmd) == Is(cmd) /\ result.status = "finished"

\* A literal that is a reserved address, in any notation, as target or resolver,
\* never has a tool run.
ReservedRunsNothing ==
  \/ job.cmd \in Guarded /\ Reserved(job.target.ip)
  \/ job.cmd \in {"dns", "http"} /\ Reserved(job.resolver.ip)
  => pc \in {"new", "done", "emitted"} /\ tool = <<>> /\ read = <<>>

\* curl is only sent to an address that was checked.
CurlGoesToPublic == Is("http") /\ pc = "curl" => ~Reserved(ConnectsTo(local.args))

\* When a name turns out to be a reserved address, no result has that address,
\* finished or failed, but the note by which traceroute holds its output back.
\* No partial result of ping has it; those of a traceroute have gone before the
\* target is looked at.
ResultTellsPublic ==
  job.cmd \in Guarded /\ "address" \in DOMAIN result /\ Reserved(result.address) =>
    Is("traceroute") /\ result.status = "failed" /\ result.raw = PrivateNote
PartialsTellPublic == Is("ping") => \A i \in DOMAIN told : ~Reserved(told[i].address)

\* Nor does dig's classic answer tell of a reserved resolver.
ResolverIsHidden ==
  Finished("dns") /\ ~job.trace =>
    \A i \in DOMAIN result.raw :
      result.raw[i].says[1] = "server" => ~Reserved(result.raw[i].says[2].ip)

\* Nor does the probe's list of DNS servers.
ServersAreHidden ==
  Is("ping") /\ pc = "new" /\ job.target.ip # NoIp =>
    parse_resolv_conf(<<[nameserver |-> TRUE, ip |-> job.target.ip, text |-> "address"]>>)
      = <<IF Reserved(job.target.ip) THEN "private" ELSE "address">>

\* What is filtered of reserved addresses, and where: before a tool is spawned,
\* after a name is resolved, in results and in dig's classic output.  The lines
\* of a trace and the addresses of hops on the way are not filtered at all, and
\* a resolver given by its name is asked wherever it is (ResolverIsPublic).
ReservedIsFiltered ==
  /\ ReservedRunsNothing
  /\ CurlGoesToPublic
  /\ ResultTellsPublic
  /\ PartialsTellPublic
  /\ ResolverIsHidden
  /\ ServersAreHidden

\* An HTTP run leaves no temporary file behind, however it ends: curl's time
\* and dig's before it are less than MEASUREMENT_TIMEOUT, so that dispatch()
\* never drops the command while the files exist, and a panic comes later.
NoTempFilesLeft == result # Nothing => files = {}

\* Partial results only ever add: what one of them has told the next ones and
\* the finished result repeat, so that a listener may replace each by the next.
PartialsExtend ==
  /\ \A i, j \in DOMAIN told : i < j =>
       IsPrefix(told[i].items, told[j].items) /\ IsStrictPrefix(told[i].raw, told[j].raw)
  /\ Finished("ping") \/ Finished("traceroute") =>
       \A i \in DOMAIN told : IsPrefix(told[i].items, result.items)

\* The headers that are sent fit HEADERS_SIZE_LIMIT, in their order, every one
\* under its name; without need none is touched; values are cut to one length,
\* as long as the limit allows, and a header is left out only when all of them
\* would not fit with their values cut as short as can be.  The rest is told by
\* "truncated".  A run whose values are of single bytes never panics; that one
\* with a character of several bytes may is what HeaderCapsAreSafe is about.
HeadersFit ==
  LET sent == parse_header_file(read[1].headers)
      kept == result.headers
      \* where the kept headers come from
      Origins == {f \in [DOMAIN kept -> DOMAIN sent] :
                    /\ \A a, b \in DOMAIN kept : a < b => f[a] < f[b]
                    /\ \A a \in DOMAIN kept : kept[a].key = sent[f[a]].key}
      cut(f, a) == kept[a].value # sent[f[a]].value
      roomFor(f) ==     \* one more byte for each value that was cut
        headers_size(kept) + Cardinality({a \in DOMAIN kept : cut(f, a)}) <= HEADERS_SIZE_LIMIT
      explained(f) ==
        /\ \A a \in DOMAIN kept : cut(f, a) =>
             /\ Bytes(kept[a].value) < Bytes(sent[f[a]].value)
             /\ \A b \in DOMAIN kept : Bytes(kept[b].value) <= Bytes(kept[a].value)
        /\ (\E a \in DOMAIN kept : cut(f, a)) => ~roomFor(f)
        /\ Len(kept) < Len(sent) => headers_min_size(sent) > HEADERS_SIZE_LIMIT
  IN  /\ Finished("http") =>
           /\ kept # <<>> => headers_size(kept) <= HEADERS_SIZE_LIMIT
           /\ headers_size(sent) <= HEADERS_SIZE_LIMIT => kept = sent
           /\ \E f \in Origins : explained(f)
           /\ result.truncated <=> kept # sent \/ Len(read[1].body) > BODY_LIMIT
           /\ \A a \in DOMAIN kept : \E v \in DOMAIN result.map[kept[a].key] :
                result.map[kept[a].key][v] = kept[a].value
      /\ Is("http") /\ result.status = "panicked" =>
           \E i \in DOMAIN sent : \E k \in DOMAIN sent[i].value : sent[i].value[k] > 1

\* What is counted agrees with what happened.  mtr: a probe is answered when
\* its answer follows it among the events, every probe counts once, and minimum,
\* average and maximum are in order, but for what rounding makes of them; TCP
\* ping: every probe is answered or lost; HTTP: the phases of a request make up
\* its time, but for one rounding each.
CountsAddUp ==
  LET near(a, b, by) == a - b \in -by..by
      seqs(hop) == {e.seq : e \in {x \in ToSet(read) : x.kind = "x" /\ x.hop = hop}}
      answered(hop) == {s \in seqs(hop) : \E i, j \in DOMAIN read :
        /\ i < j /\ read[i].kind = "x" /\ read[j].kind = "p"
        /\ \A k \in {i, j} : read[k].hop = hop /\ read[k].seq = s}
      t == result.timings
  IN  /\ Finished("mtr") => \A i \in DOMAIN result.hops :
           LET h == result.hops[i]
           IN  /\ h.stats.drop + h.stats.rcv = h.stats.total
               /\ h.stats.min <= h.stats.max
               /\ h.stats.min - 5 <= h.stats.avg /\ h.stats.avg <= h.stats.max + 5
               /\ h.stats.total = Cardinality(seqs(h.index))
               /\ h.stats.rcv = Cardinality(answered(h.index))
               /\ h.stats.rcv = Len(h.timings)
               /\ h.stats.jMin <= h.stats.jAvg /\ h.stats.jAvg <= h.stats.jMax
               /\ h.stats.stDev <= h.stats.max - h.stats.min + 10
               /\ \A j \in 1..i - 1 : result.hops[j].index < h.index
      /\ Is("tcp") /\ result # Nothing =>
           /\ result.rcv + result.drop = job.packets
           /\ result.rcv = Cardinality({i \in DOMAIN read : read[i] # NoTime})
           /\ result.rcv > 0 => result.min * result.rcv <= result.sum /\ result.sum <= result.max * result.rcv
      /\ Finished("http") =>
           near(t.dns + t.tcp + t.tls + t.firstByte + t.download, t.total, 3)

\* dig's answers are the records of the section called answer and no others, in
\* their order; a trace's hops are the blocks between blank lines that hold a
\* record or name who sent them, and no record is lost or told twice.
DnsAnswersAreAnswers ==
  LET kind(i) == read[i].kind
      inAnswer(i) == \E k \in 1..i - 1 :
        /\ read[k] = Line("section", "answer")
        /\ \A m \in k + 1..i - 1 : kind(m) \notin {"blank", "section"}
      values(S) == Chosen([i \in DOMAIN read |-> read[i].v], S)
      records == {i \in DOMAIN read : kind(i) = "record"}
      telling == records \cup {i \in DOMAIN read : read[i].says[1] = "received"}
      \* the first line that tells something in its block
      first(i) == ~\E k \in telling : k < i /\ \A m \in k + 1..i - 1 : kind(m) # "blank"
  IN  Finished("dns") =>
        IF job.trace
        THEN /\ FlattenSeq([h \in DOMAIN result.hops |-> result.hops[h].answers]) = values(records)
             /\ Len(result.hops) = Cardinality({i \in telling : first(i)})
        ELSE result.answers = values({i \in records : inAnswer(i)})

\* What is emitted is the whole output, or its beginning, cut between characters
\* as late as MAX_RAW_OUTPUT_BYTES allows, and the marker that says so.
\* That the marker comes on top is what RawOutputWithinLimit is about.
RawOutputFits ==
  pc = "emitted" /\ Finished("http") =>
    LET full == build_raw_output(read[1].version, result.headers, result.rawBody, job.method)
        cut == Len(result.raw) - MARKER
    IN  \/ result.raw = full /\ Bytes(full) <= MAX_RAW_OUTPUT_BYTES
        \/ /\ Bytes(full) > MAX_RAW_OUTPUT_BYTES
           /\ SubSeq(result.raw, 1, cut) = SubSeq(full, 1, cut)
           /\ Bytes(SubSeq(full, 1, cut)) <= MAX_RAW_OUTPUT_BYTES
           /\ Bytes(SubSeq(full, 1, cut + 1)) > MAX_RAW_OUTPUT_BYTES

\* "hide real gateway hostname for privacy" (traceroute/parse.rs): no output a
\* traceroute sends names the router next to the probe.
GatewayHidden ==
  Is("traceroute") => \A i \in DOMAIN told :
    Len(told[i].raw) > 1 => told[i].raw[2].host \in {"none", "_gateway"}

\* "A custom resolver must be a clean host and must not be a private/internal
\* address" (validate() of dns/mod.rs), and "Private/SSRF filtering runs both
\* before spawning (on the requested target) and after name resolution (on the
\* address actually used), in every command" (README.md): the server dig was told
\* to ask is never at a reserved address.
ResolverIsPublic ==
  Is("dns") /\ job.resolver # NoTarget =>
    \A i \in DOMAIN read : read[i].says[1] = "server" => ~Reserved(read[i].says[2].ip)

\* "10 KiB rawOutput / body / header caps (UTF-8-boundary-safe)" (README.md): no
\* header, whatever its characters, ends a run in a panic.
HeaderCapsAreSafe == Is("http") => result.status # "panicked"

\* "Maximum size of the rawOutput field in any measurement result"
\* (output_limit.rs): what is emitted is not longer.
RawOutputWithinLimit ==
  pc = "emitted" /\ Finished("http") => Bytes(result.raw) <= MAX_RAW_OUTPUT_BYTES
============================================================================
