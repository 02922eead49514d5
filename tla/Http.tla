-------------------------------- MODULE Http --------------------------------
(***************************************************************************)
(* The HTTP command (src/src/command/http.rs).  run_http resolves the      *)
(* target with dig, has curl fetch the URL from the address it checked,    *)
(* with temporary files for the headers and the body, and asks openssl for *)
(* the certificate.                                                        *)
(*                                                                         *)
(* A header is [key, bytes, value]: its name in lower case, the length of  *)
(* the name, and the widths of its value's characters.  A body is a        *)
(* sequence of bytes: "a", the two bytes "lead" and "trail" of a           *)
(* character, and "x", which no character has.  A line of curl -v or of    *)
(* openssl x509 is what it "sets".                                         *)
(***************************************************************************)
EXTENDS CommandRun

CONSTANTS
  HEADERS_SIZE_LIMIT, BODY_LIMIT,
  MARK              \* bytes of TRUNCATION_MARK

ASSUME HttpAssumption == HEADERS_SIZE_LIMIT \in Nat /\ BODY_LIMIT \in Nat /\ MARK \in Nat

Smaller(a, b) == IF a < b THEN a ELSE b
Larger(a, b) == IF a > b THEN a ELSE b

----------------------------------------------------------------------------
(* Headers *)

\* The first line is the status line, whatever it says; a later one without a
\* colon, such as that of the response after an interim one, is skipped.
parse_header_file(lines) == Chosen(lines, {i \in 2..Len(lines) : lines[i].kind = "header"})

parse_status_text(lines) == IF lines = <<>> THEN "none" ELSE Head(lines).text

pair_size(h) == h.bytes + Bytes(h.value) + 3
pair_min_size(h) == h.bytes + Smaller(Bytes(h.value), MARK) + 3

\* What headers take together, and what they take at least; without the last "\n".
headers_size(pairs) == Bytes([i \in DOMAIN pairs |-> pair_size(pairs[i])]) - 1
headers_min_size(pairs) == Bytes([i \in DOMAIN pairs |-> pair_min_size(pairs[i])]) - 1

\* What may be dropped: the largest ones by what they need at least, no more
\* of them than it takes.  The sort is not stable, so ties are open.
DropSets(pairs) ==
  LET without(D) == headers_min_size(Chosen(pairs, DOMAIN pairs \ D))
      largest(D) == \A i \in D, j \in DOMAIN pairs \ D :
                      pair_min_size(pairs[i]) >= pair_min_size(pairs[j])
      needed(D) == \E i \in D :
                     /\ \A j \in D : pair_min_size(pairs[i]) <= pair_min_size(pairs[j])
                     /\ without(D \ {i}) > HEADERS_SIZE_LIMIT
  IN  IF headers_min_size(pairs) <= HEADERS_SIZE_LIMIT THEN {{}}
      ELSE {D \in SUBSET DOMAIN pairs :
              largest(D) /\ needed(D) /\ without(D) <= HEADERS_SIZE_LIMIT}

\* The length all values may have so that they fit the budget together: those
\* longer than the greatest length that is known to fit share what the shortest
\* of them is too much.
CapBy(Part(_, _), lengths, budget) ==
  LET capped(c) == Bytes([i \in DOMAIN lengths |-> Smaller(lengths[i], c)])
      fits == Max({c \in {0} \cup ToSet(lengths) : capped(c) <= budget})
      longer == {i \in DOMAIN lengths : lengths[i] > fits}
      least == Min({lengths[i] : i \in longer})
  IN  least - Part(capped(least) - budget, Cardinality(longer))

\* Mutant of value_cap: the excess is divided rounding down.
ValueCapFloor(lengths, budget) == CapBy(LAMBDA d, n : d \div n, lengths, budget)

value_cap(lengths, budget) == CapBy(LAMBDA d, n : (d + n - 1) \div n, lengths, budget)

\* All results truncate_headers may have.  "panic": a value is cut inside a
\* character.  Without any header left, the sums have wrapped and it ends there.
truncate_headers(pairs) ==
  LET shrink(kept) ==
        LET lengths == [i \in DOMAIN kept |-> Bytes(kept[i].value)]
            cap == Larger(MARK, value_cap(lengths, HEADERS_SIZE_LIMIT + Bytes(lengths) - headers_size(kept)))
            long(h) == Bytes(h.value) > cap
            cut(h) == IF long(h) THEN [h EXCEPT !.value = UpTo(@, cap - MARK) \o [i \in 1..MARK |-> 1]]
                      ELSE h
        IN  IF \E i \in DOMAIN kept : long(kept[i]) /\ cap - MARK \notin CharBoundaries(kept[i].value)
            THEN [outcome |-> "panic"]
            ELSE [outcome |-> "ok", truncated |-> TRUE, headers |-> [i \in DOMAIN kept |-> cut(kept[i])]]
  IN  IF pairs = <<>> \/ headers_size(pairs) <= HEADERS_SIZE_LIMIT
      THEN {[outcome |-> "ok", truncated |-> FALSE, headers |-> pairs]}
      ELSE {LET kept == Chosen(pairs, DOMAIN pairs \ D)
            IN  IF kept = <<>> \/ headers_size(kept) <= HEADERS_SIZE_LIMIT
                THEN [outcome |-> "ok", truncated |-> TRUE, headers |-> kept]
                ELSE shrink(kept) : D \in DropSets(pairs)}

\* Every name with its values, in order.
dedup_headers(pairs) ==
  [key \in {pairs[i].key : i \in DOMAIN pairs} |->
     LET same == Chosen(pairs, {i \in DOMAIN pairs : pairs[i].key = key})
     IN  [i \in DOMAIN same |-> same[i].value]]

----------------------------------------------------------------------------
(* Body, times, TLS *)

\* String::from_utf8_lossy: a byte that is part of no character becomes one of
\* three bytes.
from_utf8_lossy(bytes) ==
  LET step(s, b) ==
        LET before == IF s.lead /\ b # "trail" THEN Append(s.text, 3) ELSE s.text
        IN  CASE b = "a" -> [text |-> Append(before, 1), lead |-> FALSE]
              [] b = "lead" -> [text |-> before, lead |-> TRUE]
              [] OTHER -> [text |-> Append(before, IF s.lead /\ b = "trail" THEN 2 ELSE 3), lead |-> FALSE]
      after[n \in 0..Len(bytes)] ==
        IF n = 0 THEN [text |-> <<>>, lead |-> FALSE] ELSE step(after[n - 1], bytes[n])
      end == after[Len(bytes)]
  IN  IF end.lead THEN Append(end.text, 3) ELSE end.text

\* At most one byte more than is kept, which tells that there was more.
read_capped(bytes, cap) == SubSeq(bytes, 1, Smaller(Len(bytes), cap + 1))

\* curl's times count from the start, here in tenths of milliseconds.  Every
\* difference is rounded for itself; what would be negative is zero.
Phases(t, https, dns) ==
  LET round(d) == Larger((d + 5) \div 10, 0)
      span(a, b) == round(b - a)
      connected == IF https THEN t.appconnect ELSE t.connect
  IN  [ total |-> dns + round(t.total), dns |-> dns, tcp |-> span(t.lookup, t.connect) + round(t.lookup),
        tls |-> IF https THEN span(t.connect, t.appconnect) ELSE 0,
        firstByte |-> span(connected, t.start), download |-> span(t.start, t.total) ]

NoTls == [protocol |-> "none"]

\* The lines that begin with a star and say something of the connection or the
\* certificate; without the connection's there is no TLS.
parse_tls_verbose(verbose, ssl_verify_result) ==
  LET starred == SelectSeq(verbose, LAMBDA l : l.star)
      found == FoldLeft(LAMBDA t, l : l.sets @@ t, NoTls, starred)
  IN  IF \A i \in DOMAIN starred : "protocol" \notin DOMAIN starred[i].sets THEN NoTls
      ELSE [authorized |-> ssl_verify_result = 0] @@ found

\* HEAD is compared as the API spelled it, not as validate() does.
build_raw_output(version, headers, body, method) ==
  IF version = "none" THEN <<>>
  ELSE LET status == [i \in 1..4 |-> 1]     \* "HTTP/" version code "\n"
           text(h) == [i \in 1..h.bytes + 2 |-> 1] \o h.value
           base == status \o FlattenSeq([i \in DOMAIN headers |->
                                           text(headers[i]) \o (IF i < Len(headers) THEN <<1>> ELSE <<>>)])
       IN  IF method = "HEAD" \/ body = <<>> THEN base ELSE base \o <<1, 1>> \o body

----------------------------------------------------------------------------
(* The run *)

HttpFailed(note) == [status |-> "failed", address |-> NoIp, raw |-> note]

IsHttps == job.protocol # "HTTP"

HttpValid ==
  /\ is_safe_host(job.target)
  /\ job.ipVersion \in {4, 6}
  /\ job.protocol \in {"HTTP", "HTTPS", "HTTP2"}           \* in any case of letters
  /\ job.method \in {"GET", "HEAD", "head", "OPTIONS"}     \* in any case of letters
  /\ job.resolver # NoTarget => is_safe_host(job.resolver) /\ ~IsPrivateLiteral(job.resolver)
  /\ job.host # NoTarget => is_safe_host(job.host)
  /\ is_safe_url_component(job.path) /\ is_safe_url_component(job.query)
  /\ "control" \notin job.headers
  /\ ~IsPrivateLiteral(job.target)

build_url ==
  [ scheme |-> IF IsHttps THEN "https" ELSE "http", host |-> job.target,
    path |-> job.path, query |-> job.query ]

\* What curl is told: a name is pinned to the address that was checked.
build_curl_args(resolved) ==
  [ method  |-> IF job.method = "head" THEN "HEAD" ELSE job.method,
    version |-> job.ipVersion,
    host    |-> IF job.host = NoTarget THEN job.target ELSE job.host,
    http    |-> IF job.protocol = "HTTPS" THEN "default" ELSE job.protocol,
    pin     |-> IF job.target.ip = NoIp THEN resolved ELSE NoIp,
    url     |-> build_url ]

\* The address curl connects to.
ConnectsTo(args) == IF args.pin # NoIp THEN args.pin ELSE args.url.host.ip

Curl(resolved, dns) == [resolved |-> resolved, dns |-> dns, args |-> build_curl_args(resolved), limit |-> 15]

\* A literal needs no DNS; a name is asked of dig, with the job's resolver.
HttpResolve ==
  /\ Is("http") /\ pc = "new" /\ HttpValid
  /\ IF job.target.ip # NoIp
     THEN pc' = "curl" /\ local' = Curl(job.target.ip, 0)
     ELSE pc' = "dig" /\ local' = [limit |-> 5]
  /\ UNCHANGED <<job, clock, tool, read, files, told, result>>

\* dig +short answers with names and addresses; the first address counts.
HttpResolved ==
  /\ Is("http") /\ pc = "dig"
  /\ \E answer \in {<<>>} \cup {<<NoIp, ip>> : ip \in job.resolves} :
       LET at == SelectInSeq(answer, LAMBDA ip : ip # NoIp)
       IN  IF at = 0 \/ is_ip_private(answer[at])
           THEN Return(Failure) /\ UNCHANGED <<local, clock>>
           ELSE /\ pc' = "curl"
                /\ local' = Curl(answer[at], 1)
                /\ TakesUpTo(5)
                /\ UNCHANGED result
  /\ UNCHANGED <<job, tool, read, files, told>>

\* dig cannot be spawned, or takes longer than it may.
HttpUnresolved ==
  /\ Is("http") /\ pc = "dig"
  /\ TakesUpTo(5)
  /\ Return(Failure)
  /\ UNCHANGED <<job, tool, read, local, files, told>>

\* curl, while it runs, writes what it receives.
CurlWrites ==
  /\ Is("http") /\ pc = "curl"
  /\ \E f \in {"headers", "body"} \ files : files' = files \cup {f}
  /\ UNCHANGED <<job, pc, clock, tool, read, local, told, result>>

CurlGone ==
  /\ Is("http") /\ pc = "curl"
  /\ clock' \in IF files = {} THEN {clock, clock + 15} ELSE {clock + 15}
  /\ clock' <= MEASUREMENT_TIMEOUT
  /\ Return(Failure)
  /\ UNCHANGED <<job, tool, read, local, told>>

\* Mutant of CurlFails: the error returns past the clean-up.
CurlFailsUnclean == CurlGone /\ UNCHANGED files

\* curl cannot be spawned, or takes longer than it may.
CurlFails == CurlGone /\ files' = {}

\* What run_http() makes of what curl has left; h is what truncate_headers() does.
HttpResult(out, h) ==
  LET body == from_utf8_lossy(SubSeq(out.body, 1, Smaller(Len(out.body), BODY_LIMIT)))
  IN  [ status |-> "finished", address |-> IF out.remote = NoIp THEN local.resolved ELSE out.remote,
        statusCodeName |-> parse_status_text(out.headers),
        headers |-> h.headers, map |-> dedup_headers(h.headers), rawBody |-> body,
        truncated |-> h.truncated \/ Len(out.body) > BODY_LIMIT,
        timings |-> Phases(out.times, IsHttps, local.dns),
        tls |-> IF IsHttps THEN parse_tls_verbose(out.verbose, out.ssl) ELSE NoTls,
        raw |-> build_raw_output(out.version, h.headers, body, job.method) ]

\* curl has ended.  The files are read and removed before its output is looked
\* at; a file that it has not written, or that is not text, is empty.
CurlEnds(outputs) ==
  /\ Is("http") /\ pc = "curl"
  /\ TakesUpTo(15)
  /\ files' = {}
  /\ \E printed \in outputs :
       LET out == [ printed EXCEPT !.headers = IF "headers" \in files THEN @ ELSE <<>>,
                                   !.body = IF "body" \in files THEN read_capped(@, BODY_LIMIT) ELSE <<>> ]
           remote == IF out.remote = NoIp THEN local.resolved ELSE out.remote
       IN  /\ read' = <<out>>
           /\ IF ~out.stats \/ out.code = 0 THEN Return(HttpFailed(<<[kind |-> "curl"]>>)) /\ UNCHANGED local
              ELSE IF is_ip_private(remote) THEN Return(HttpFailed(PrivateNote)) /\ UNCHANGED local
              ELSE \E h \in truncate_headers(parse_header_file(out.headers)) :
                     IF h.outcome = "panic" THEN Return([status |-> "panicked"]) /\ UNCHANGED local
                     ELSE LET r == HttpResult(out, h)
                          IN  IF r.tls = NoTls THEN Return(r) /\ UNCHANGED local
                              ELSE /\ pc' = "s_client"
                                   /\ local' = [result |-> r, limit |-> 10]
                                   /\ UNCHANGED result
  /\ UNCHANGED <<job, tool, told>>

\* openssl s_client: whether the chain verifies, and the certificate.
SClient ==
  /\ Is("http") /\ pc = "s_client"
  /\ TakesUpTo(10)
  /\ \E verify \in {"none", "ok", "not ok"}, pem \in BOOLEAN :
       LET r == IF verify = "none" THEN local.result
                ELSE [local.result EXCEPT !.tls.authorized = verify = "ok"]
       IN  IF pem THEN pc' = "x509" /\ local' = [result |-> r, limit |-> 4] /\ UNCHANGED result
           ELSE Return(r) /\ UNCHANGED local
  /\ UNCHANGED <<job, tool, read, files, told>>

\* openssl x509, piped the certificate: what its lines set, and the names on
\* the first line with text after the title of the extension.
enrich_tls(tls, lines) ==
  LET step(s, l) ==
        CASE l.kind = "title" -> [s EXCEPT !.san = TRUE]
          [] l.kind = "field" -> [s EXCEPT !.tls = l.sets @@ @]
          [] l.kind = "text" /\ s.san -> [tls |-> [alt |-> l.names] @@ s.tls, san |-> FALSE]
          [] OTHER -> s
  IN  FoldLeft(step, [tls |-> tls, san |-> FALSE], lines).tls

X509Outputs ==
  LET field(name) == [kind |-> "field", sets |-> (name :> "certificate")]
  IN  {<<>>, <<field("serial"), field("keyBits"), [kind |-> "title"], field("fingerprint256"),
              [kind |-> "text", names |-> "certificate"], [kind |-> "text", names |-> "other"]>>}

X509 ==
  /\ Is("http") /\ pc = "x509"
  /\ TakesUpTo(4)
  /\ \E lines \in X509Outputs : Return([local.result EXCEPT !.tls = enrich_tls(@, lines)])
  /\ UNCHANGED <<job, tool, read, local, files, told>>

\* What curl may leave: one aspect at a time, the others as usual; what it has
\* received without TLS, what it tells of the connection with it.
CurlOutputs ==
  LET status == [kind |-> "status", text |-> "OK"]
      header(key, bytes, value) == [kind |-> "header", key |-> key, bytes |-> bytes, value |-> value]
      interim == [kind |-> "status", text |-> "Early Hints"]
      times == [lookup |-> 5, connect |-> 20, appconnect |-> 55, start |-> 91, total |-> 102]
      early == [lookup |-> 5, connect |-> 10, appconnect |-> 15, start |-> 20, total |-> 25]
      tls == <<[star |-> TRUE, sets |-> [cn |-> "name"]], [star |-> FALSE, sets |-> [cn |-> "noise"]],
               [star |-> TRUE, sets |-> [protocol |-> "TLSv1.3", cipher |-> "cipher"]]>>
      usual == [ stats |-> TRUE, code |-> 200, remote |-> NoIp, version |-> "1.1", ssl |-> 0, times |-> times,
                 verbose |-> tls, headers |-> <<status, header("a", 1, <<1>>)>>, body |-> <<"a", "a">> ]
      values == {<<>>, <<2, 1>>, [i \in 1..4 |-> 1], [i \in 1..7 |-> 1], [i \in 1..4 |-> 2]}
      headers == {header("a", 1, v) : v \in values} \cup {header("b", 1, <<1>>), header("c", 14, <<1, 1, 1>>)}
      remotes == IF ConnectsTo(local.args) = NoIp THEN job.resolves ELSE {ConnectsTo(local.args)}
  IN  {[usual EXCEPT !.remote = ip] : ip \in {NoIp} \cup remotes} \cup {[usual EXCEPT !.times = early]}
      \cup IF IsHttps
           THEN {[usual EXCEPT !.stats = FALSE], [usual EXCEPT !.code = 0], [usual EXCEPT !.ssl = 1],
                 [usual EXCEPT !.verbose = Tail(tls)], [usual EXCEPT !.verbose = <<>>]}
           ELSE {[usual EXCEPT !.version = "none"], [usual EXCEPT !.times.appconnect = 0]}
                \cup {[usual EXCEPT !.body = b] : b \in BoundedSeq({"a", "lead", "trail", "x"}, 4)}
                \cup {[usual EXCEPT !.headers = <<interim, status>> \o h] : h \in BoundedSeq(headers, 1)}
                \cup {[usual EXCEPT !.headers = <<status>> \o h] : h \in BoundedSeq(headers, 3)}

HttpNext ==
  \/ Reject("http", HttpValid)
  \/ HttpResolve
  \/ HttpResolved
  \/ HttpUnresolved
  \/ CurlWrites
  \/ CurlFails
  \/ CurlEnds(CurlOutputs)
  \/ SClient
  \/ X509
=============================================================================
