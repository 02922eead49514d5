# A TLA+ model of the Globalping probe

The probe (`src/`) is a long-running Rust process. It keeps one socket.io
connection to the Globalping API, runs the measurements the API asks for as
subprocesses, and reports its health, its statistics and its logs. This
directory models the parts of it where tasks, events and failures interleave, and
what its commands make of their tools' output, checks them with TLC and proves the
central results with TLAPS.

## 1. The system

| Component | State it keeps | Operations | Interacts with |
|---|---|---|---|
| `connect_once` (`probe/client.rs`) | limiter, statistics, `OutcomeSignal`, `already_connected`, three background loops | dial, wait, announce sigterm, drain, disconnect | everything below |
| `dispatch` (`probe/client.rs`) | one task for each request: its slot, its command, its result | take a slot, check the status, ack, run, answer | limiter, status, statistics, socket |
| Limiter (`probe/limiter.rs`) | a semaphore of 3 permits | `try_acquire`, `in_flight`, `wait_idle`, drop of a slot | `dispatch`, drain |
| `run` and reconnect policy (`probe/client.rs`, `probe/reconnect.rs`) | `ExponentialBackoff`, watch channel | classify, wait, dial again, stop | signal task, handlers |
| Status manager, status loop (`status/`) | ping verdict, VPN verdict, disconnect window, sigterm | tests every 10 minutes, isProxy, disconnects | handlers, `dispatch`, `connect_once` |
| Progress and statistics (`probe/progress.rs`, `probe/stats.rs`) | a channel for each streaming job; two atomic counters for each connection | send, forward, record, take, report | `dispatch`, stats loop |
| Logs transport (`util/logs_transport.rs`) | a bounded buffer and its settings | push, update, take, flush loop | every log call, a handler |
| Identity (`probe/uuid.rs`) | a file | load or create | start-up |
| Alternative IPs (`probe/alt_ips.rs`) | none; one task for each `api:connect:ip` | fetch tokens, emit | socket |
| Commands (`command/`) | a subprocess and its output | validate, run, parse, compute | `dispatch` |
| Utilities (`util/`) | the progress buffer has state, the others are functions | truncate, diff, check addresses | commands, `dispatch` |

What is hard here: dispatch tasks outlive their connection; the drain, the
status check and new requests race; both arms of the `select!` may be ready;
the status is read under a lock and emitted after it; `take()` is two atomic
operations; timeouts cut off futures that hold a slot and a channel; handlers
report several outcomes, of which one must decide.

What makes each component correct:

- limiter and dispatch: slots are conserved, on every way out; never more than
  the cap; a slot comes back however a command behaves;
- drain: what was acked is answered, nothing starts after it, it ends;
- reconnect: the first outcome decides, its delay follows the policy, no
  wake-up is lost, a shutdown always stops the loop;
- status: what the API believes converges to what is, and a probe that drains
  or fails its tests is not told ready for long;
- measurement: counted once, its events heard in order and passed over only if
  their own emit was lost, nothing left running by it;
- commands and utilities: their output agrees with a reference definition and
  stays within its limits.

`PROJECT.json` lists every component with its status, and the hazards at the
lines where they bite with the properties that would catch them.

## 2. Modules

```
The connection and its jobs

  Limiter -- Session -- Session_proofs
                `-----> MeasurementService   (abstract; refinement mapping)
  Probe = Session (second connection) + an instance of it (first) -- Probe_proofs
  Measurement -- Measurement_proofs

Services beside the jobs

  Reconnect -- Reconnect_proofs      Status -- Status_proofs
  LogsTransport, Identity, AltIps, ProgressBuffer
  Services = all six -- Services_proofs

What a job runs

  Addresses -- CommandRun -- Ping, Traceroute, Dns, Http, Mtr -- TcpPing
  Commands = all of them, from the job to the emitted result -- Commands_proofs

  Lists               (Total and Chosen: recursive functions on sequences)
  Addresses -- ReservedRanges   (what is reserved, by first and last addresses)
  OperatorTheorems    (functions defined by recursion on the naturals; what is
                       known of Total and Chosen, and of the check of addresses)
```

- **Limiter** is the tokio semaphore. It is FIFO-fair, so a queued
  `wait_idle()` takes the free permits and then each permit that is released
  (`gathered`); `try_acquire` fails meanwhile, and `in_flight` counts these
  permits as busy.
- **Session** is one established connection: `pc[j]` is the position of each
  `dispatch()` between two awaits, `mpc` that of `connect_once` after
  `connect()`. One action stands for the code between two await points.
  `shutdown` is the watch channel, `signalled` the `OutcomeSignal`, `health`
  what `get_status` says apart from `sigterm`, `link` whether an emit succeeds.
  The environment sends signals, breaks and restores the link (rust_socketio
  reconnects by itself), changes the health and kills the process.
- **MeasurementService** is what a connection promises the API, with no slots,
  tasks or drain: at most `Cap` in hand, none admitted after the stop, none in
  hand after a quiet stop, each closed in the end. `Session` defines the
  refinement mapping (`ServiceJob`, `ServicePhase`).
- **Reconnect** is `run()` with `OutcomeSignal`, `classify_error`,
  `reconnect_delay` and `ExponentialBackoff`, interleaved with the handlers of
  the current connection. Delays are in seconds and are the code's own numbers.
  A message is the set of keywords `classify_error` finds in it.
- **Status** is the `StatusManager` under its lock, the status loop, the
  handlers (one at a time, as rust_socketio runs them) and the status the API
  heard last. A test's differences are counted by class: below 60 ms, 60 to 100
  ms, above.
- **Measurement** is `dispatch()` after its ack: the command's future under its
  timeout, the progress channel and its forwarder, `MeasurementStats`, the stats
  loop and the end of the connection. Each emit succeeds or fails by itself while
  the connection is there, since `forward()` only warns of one that failed and goes
  on, and always fails after the end; `missed` records what was lost.
- **LogsTransport** is the process-wide log buffer, the settings the API sends and
  the flush loop of the current connection. Entries are numbered; `told` and
  `lost` record where a payload went. Push, update and take hold one mutex and are
  atomic; the loop is aborted at its sleep or at its emit.
- **Identity** is the UUID file over starts, kills and failing file operations.
  `load_or_create` reads, `Truncate` and `Write` are the two halves of
  `fs::write`, `Tell` the handshake. A path holds the identity its content begins
  with and how much of it is there; a start as root or not chooses the path.
- **AltIps** has one record for each task that `api:connect:ip` spawns: the
  connection it belongs to, the addresses it asks by and their answers. `Fetch`
  answers come in any order, `Emit` is the one after `join_all`, `EmitFails` the same
  when the emit fails with the link up.
- **ProgressBuffer** is the buffer in its three modes, with the receiver each mode
  asks for; a character has one byte or two, so that the offset of the diff mode
  can fall inside one.
- **Services** puts these, LogsTransport, Reconnect and Status side by side. As they
  are modelled they share nothing (what Reconnect and Status see of a connection are
  free choices), so it looks at one of them at a time.
- **Addresses** is `private_ip.rs`, `validate.rs` and `dns_servers.rs`: the ranges
  with their prefix lengths over real octets and groups, the IPv4 address embedded
  in an IPv6 one, hosts and URL parts as classes of characters. **ReservedRanges** says
  what is reserved another way, by first and last addresses, for the properties.
- **CommandRun** is what all commands share: a job, its tool's output still to come
  (`tool`) and read (`read`), partial results (`told`), the result, the clock that
  runs against `MEASUREMENT_TIMEOUT`, output that is not UTF-8 (`ReadFails`), and the
  truncation of raw output. A line of
  a tool is a record of the patterns of the parser that match it.
- **Ping**, **Traceroute**, **Dns**, **Mtr**, **Http**, **TcpPing** are `validate`,
  `run` and the parser of each command. Their `...Outputs` say what a tool may
  print, out of order, twice, cut short or not at all.
- **Commands** is `make_command`, the run under the timeout and the emission, over
  the jobs the API may send: usual ones and each with one option wrong, and resolvers
  given by a name.
- **Probe** is two connections in sequence, each with its own limiter, socket
  and outcome, over one StatusManager, one watch channel and one process: it
  extends Session for the second and instantiates it for the first.

Definitions named `...Missing`, `...Unchecked`, `...LastWins` and so on, each
introduced by "Mutant of", are faulty variants of the definition that follows
them. No specification uses them; `PROJECT.json` says which property rejects
which variant.

## 3. Runs

| Run | Instance | What it shows |
|---|---|---|
| `session` | 3 jobs, 2 slots; 333,000 states | one job more than slots: permits conserved, drain complete, acked work answered after a clean drain, no needless refusal, slots come back, shutdown ends the session, Session implements MeasurementService with its fairness |
| `status_proxy` | status loop alone, 3 targets, 3 disconnects | *violated*: isProxy re-evaluates the existing differences |
| `measurement` | 1 streaming and 1 plain job, 3 partial results; 335,000 states | counted once, heard in order and passed over only for a lost emit, silent after the verdict, forwarders end |
| `measurement_take` | same | *violated*: the snapshot of the counters is atomic |
| `services` | 165,000 states. Loop of connections: delays 1..300, 3600 and 60 s, streaks up to 10; status: 3 targets, 3 disconnects, up to 4 recent ones; logs: 6 entries, sizes 0 to 3, default 2; identity: 4 starts, 3 troubles; 2 addresses, 2 refreshes; 2 fields of up to 2 characters | first outcome wins, backoff follows the streak up to the clamp (reached at 9), no lost wake-up, one late dial at most, shutdown stops the loop; the API's view converges, disconnects are forgiven, a cycle tells its own verdict, few stale statuses after sigterm; entries accounted for, `skipped` exact, at most one late payload, entries move on while logs are wanted; an identity changes only for a trouble; alternative addresses are fresh unless refreshes overlap; what is pushed to a buffer is received |
| `commands` | every command, each option; 822,000 states | reserved addresses are filtered where the code filters them, no file is left, partial results extend, headers and raw output are cut as the limits say, counts add up, DNS answers are those of the answer section |
| `gateway` | traceroute only | *violated*: no output names the gateway |
| `dns_resolver` | dns only | *violated*: no server at a private address is asked |
| `header_caps` | http only | *violated*: header limits are safe at character boundaries |
| `raw_cap` | http only | *violated*: `rawOutput` is within its limit |
| `probe` | 1 job on each of 2 connections, 1 slot each | leftovers do not disturb the next drain and are not acked; a shutdown stops the process |
| `probe_cap` | same | *violated*: at most the cap's number of commands run in the process |

Bounds. Jobs are requests, each used once; jobs that are done leave no trace but
the free slot, so more of them repeat what fewer show. Three jobs on two slots
give a full limiter, a refused request and a drain that waits for several; the code's
cap of three is covered by the theorems, which hold for every cap.
`MaxStreak` caps a history variable above the point where the backoff is clamped;
`stale` and `lateDials` count to one more than the property allows;
`MaxRecent` is one more than the threshold; `MaxPartials` is three, the least that can
have one lost between two that are heard. Deadlock is not checked, since the process may stop.

Six entries overflow every size twice and leave payloads of several entries.
Four starts are one more than three troubles can separate; two refreshes and two
addresses are the least that can overlap and be told apart. Two characters of one or
two bytes reach an offset inside a character.

Limits of bytes are scaled down, so that a few characters reach them:
`MAX_RAW_OUTPUT_BYTES` is 14 for 10 KiB, `HEADERS_SIZE_LIMIT` 16, `BODY_LIMIT` 3, the
marks 2 and 3 bytes. Outputs that are parsed line by line are all sequences of the kinds of line
there are: up to three lines after the header for traceroute, up to four for dig and
mtr, up to five for a trace of dig; longer runs of probes to one hop besides. A line
acts on the parser's state only through its kind, and the states are few. HTTP has up
to three headers, from values below, at and above the mark, of one-byte and two-byte
characters, and bodies of up to four bytes, one more than the limit. Addresses are
not scaled: private ranges are checked at both ends of every range and one beyond,
written as IPv4, mapped and NAT64 addresses. `MEASUREMENT_TIMEOUT` and the limits of
dig, curl and openssl are the code's seconds.

Fairness. Each task is polled while it can run (`WF` on a job's steps, on
`connect_once`, on `run`, on the status loop, on handlers): tokio's scheduler
gives every woken task its turn. Timeouts fire: `MEASUREMENT_TIMEOUT`,
`DRAIN_TIMEOUT`, sleeps, and the bounds both health tests put on their
subprocesses. Nothing is assumed of commands, of the network, of the API or of
signals: `Finish` and `Panic` are not fair, `Timeout` is. Reconnect assumes that
`connect()` of rust_socketio returns. `Redial` is not fair: a network may stay
away for good. The flush loop's sleep ends, whatever interval the API has set.

Two timeouts back each other: with `MEASUREMENT_TIMEOUT` alone, or with
`DRAIN_TIMEOUT` alone, a shutdown would still end a session whose commands hang.

### What the violated properties say

- "Rewrite first hop: hide real gateway hostname for privacy"
  (`traceroute/parse.rs:73`): `run_inner` puts the lines as they were read into the
  `rawOutput` of each partial result (`traceroute/mod.rs:128`); the rewrite applies to
  the parsed hops and to the final output only.
- `on_proxy_status` says it re-evaluates "with existing diffs", but the loop
  measures with a fresh `IcmpTcpTest` and stores the verdict only. isProxy thus
  clears a detected VPN until the next cycle, and the medium threshold that a
  proxy would lower never counts.
- `take()` resets "both counters to zero atomically", but swaps them one by one: a
  measurement between the swaps is reported as finished, not as started. The
  next window makes up for it (`CountedOnce` holds).
- A custom resolver "must not be a private/internal address" (`dns/mod.rs:70-71`), and
  filtering runs "after name resolution (on the address actually used), in every
  command" (`src/README.md:265-266`): a resolver given by a name is looked at only as a
  host name (`dns/mod.rs:73-82`), and dig asks it wherever it is. `http.rs:555-566`
  is the same for the lookups of an HTTP job.
- The caps are "UTF-8-boundary-safe" (`src/README.md:267-268`): `truncate_headers`
  cuts a value at a byte (`http.rs:191`); inside a character of several bytes the
  task panics and no result is sent.
- `MAX_RAW_OUTPUT_BYTES` is the "Maximum size of the `rawOutput` field"
  (`output_limit.rs:3`): `truncate_output` keeps up to that many bytes and then appends
  its marker.
- The limiter documents the maximum "the probe will run simultaneously"; it is
  made anew for each connection, and commands of a lost connection run on for up
  to 30 s.

## 4. Proofs

`Session_proofs` holds for every `Cap` in `Nat \ {0}` and every finite `Jobs`
(`CapAssumption`, `JobsAssumption`). The inductive invariant `IInv` is

- `TypeOK` and `PermitsConserved`, which need each other: that a released permit
  stays within `0..Cap` follows from the conservation, because the job that
  releases it is counted among the holders;
- `WaiterIsMain`: the semaphore has a waiter exactly while `connect_once` drains;
- `ShutdownOrder`: the outcome is fixed when the `select!` ends and sigterm is set
  before the limiter is looked at;
- `OpenWhileRunning` and `LossHasReason`: a job is open from its ack to its result,
  and a link that is down, or a result that was not sent, has a reason;
- `DrainIsComplete`: with all permits on the counter or gathered, conservation
  leaves no holder; sigterm then keeps the gate shut.

From it follow type correctness, conservation, completeness of the drain,
`GracefulShutdownAnswers` and `OnlyFullOrStoppingTurnsAway`. The lemmas on
`Holders` (a job enters, leaves, stays) rest on the library's facts about
cardinalities.

It also proves that each step of a session is a step of
`MeasurementService` or a stutter. The step that needs the invariant most is
the status check: the job that passes it holds a slot and is not yet admitted, so
fewer than `Cap` are in hand.

`Probe_proofs` carries this over to two connections, for any cap and any finite sets
of jobs. A step of the lost connection changes, of what the second one can see, only what its
environment may change anyway (health, sigterm, the watch channel), so `IInv` of the
second survives it, and `LastDrainIsItsOwn` follows. `NoAckAfterClose` needs that a
closed connection's link stays down (`FirstStaysClosed`) and that what was not acked is not past
its ack (`FirstUnacked`).

`Reconnect_proofs` proves type correctness (the backoff stays within its bounds
for all delays), `AtMostOneLateDial` and `FirstOutcomeWins`, from the
invariant that the signal's value is the first report, that a late dial is the
last, and that a connection that has ended has an outcome. `BackoffFollowsStreak` says
that the wait is the least delay doubled once for each failure in a row, up to the
greatest; `StreakAssumption` has the clamp reached where the history of failures stops
counting. Doubling is a recursive function, so the proof needs that it satisfies
its own equation.

`OperatorTheorems` proves that such functions do: a first value and a step from
each value to the next make exactly one function on the naturals. The library states
this with an operator as a parameter, which the provers cannot instantiate; here the
step is a function, which is a value, and induction is over a set of numbers. From it
follow the lemmas on the two functions of `Lists`: totals grow with the place and add up
over concatenation (`TotalsGrow`, `TotalIsSum`), and what is chosen from a sequence
is at a known place of the result and begins what is chosen from a longer one (`ChosenAt`,
`ChosenBegins`).

`Services_proofs` proves, for the log transport, type correctness (the trimming
never underflows), `Accounted`, `SkippedIsExact` and `AtMostOneLate` for all sizes: the
invariant that makes them inductive is `Contiguous`, that the buffer holds the last
entries pushed, so the first one taken has the number that the counts predict. For the
identity it proves `IdentityKept` for any number of starts and troubles: the identities
the API knows are at most one more than the troubles, and `PaidFor` says that a new
identity that is pending, or in use but not on the disk, has been paid for already. For
the alternative addresses it proves `AltIpsFresh` for any set of them and any bound on
refreshes (`MaxRefreshes \in Nat`): a refresh that began while another of its connection was under
way knows so as long as that one can still tell something (`OverlapsAreLate`). All of
them hold of the services composed. `BufferIsReassembled` proves `BufferReassembles` of the
progress buffer for any `MaxLength` in `Nat` (`BufferAssumption`), mode by mode
(`Reassembled`): appending, what was received followed by what is buffered is what was
pushed; overwriting, the newest of the two is; for diffs the buffer keeps the
whole value, and the offset is the size of its beginning that was received.

`Status_proofs` proves type correctness, `CycleTellsItsVerdict` and
`FewStaleStatuses`. The argument of the last: once sigterm is set the loop does not
begin another cycle and there is no way back to a connection (`SigtermIsFinal`), so
that a stale status is one the loop or the running handler already owed, one each
(`StaleOrOwed` counts what was told together with what is owed).

`Measurement_proofs` proves type correctness, `CountedOnce`, `SilentAfterVerdict` and
`HeardInOrder` for any finite set of jobs and any number of partial results. Between the
two swaps of `take()` the snapshot's second half is empty (`SnapshotInHand`), which is
what makes the sum survive the interleaving; the sender lives only while the command runs
(`SenderRuns`). `HeardInOrder` does not say that nothing is missing, which would be wrong:
an emit may be lost between two that are heard. It says that what is passed over is
what was lost. What was heard or lost, what the forwarder has in hand and
what is in the channel is what the command has sent; each of these lies before the next, and
the result is heard at most once (`StreamInv`).

`Commands_proofs` is about what a job runs, for any `MEASUREMENT_TIMEOUT` longer than
the steps before the last file is removed (`TimeoutAssumption`), any addresses of the
machine (`LocalIpsAssumption`) and any commands (`CmdsAssumption`).

- `FilesAreRemoved`: files exist only while curl runs, and by then less time has gone
  by than the timeout allows, so that no drop finds them.
- `PrivateIsReserved` (in `OperatorTheorems`): the code compares leading bits with the prefixes of ranges;
  the property it is checked against compares whole addresses with the first and the last of
  each range. Both come down to blocks: the segments before a place are given, the one
  at that place lies between two values, the rest are free. The theorem holds of every IPv4 and every
  IPv6 address; TLC tries the ends of the ranges and their neighbours.
- `ReservedStaysFiltered`: `ReservedIsFiltered` from the invariant `UntoldInv`. It is about
  what the code filters: literal targets and resolvers before a tool runs, the
  address a name turned out to be in results finished or failed (traceroute's failed
  result with `PrivateNote` excepted, which keeps `resolvedAddress`), ping's partial results, the
  servers of dig's classic output, the probe's own servers. It is not about what the
  code does not filter: the addresses of hops, the lines of a trace, traceroute's partial
  results, and resolvers given by name. A tool runs only for a
  job whose target and resolver were checked (`CheckedInv`), which gives
`ReservedStaysAlone` by itself. Each command then has a part of its own: curl is
  pinned to the address that was looked up and checked; ping's header gives the address that
  every partial result repeats, and is checked as it is read; traceroute's and mtr's
  output is held back when the address is private, and a run whose output cannot be
  read has a result without any (`TellsNothing`, `HeldBack`); `rewrite_classic` leaves no private server
  in any line of dig's. The lines a tool may print are typed first, and what the
  parsers make of them after: `parse_raw` of mtr loops over lines and then over builders, and both
  loops are recursive functions (`RawLoopUnfolds`, `HopsUnfold`).
- `PartialsOnlyExtend`: `PartialsExtend` from `PartialsInv`. Each partial result is what
  its parser makes of the lines read when it was told, those are fewer than the lines
  read now, and what is chosen from a beginning of the lines begins what is chosen
  from all of them (`ChosenBegins`).
- `RawOutputIsLimited`: `RawOutputFits` for any `MAX_RAW_OUTPUT_BYTES`, widths of the marker and
  limits of headers and body (`OutputAssumption`, `HttpAssumption`). `RawInv` says that
  an HTTP result is put together from characters of one to four bytes; bytes then grow strictly
  with the place (`BytesGrow`), so that there is exactly one last boundary within the
  limit (`CutAtBoundary`, `TruncatedAsLateAsCan`), and a marker is found by where the
  bytes of the output end (`BeforeTheMarker`). `LossyIsText` shows that decoding a body
  that was cut within a character leaves only such characters.
- `AnswersAreDigsAnswers`: `DnsAnswersAreAnswers` from `AnswersInv`. The state of
  `parse_classic` after n lines is the section the n-th line lies in and the answers
  among the first n (`ClassicCollects`); that of `parse_trace` is a block that is still open and
  the blocks that were closed, whose answers, one hop after the other, are the records among
  the first n lines, and whose number is that of the lines that are first to tell
  something in their block (`TraceCollects`).
- `CountsAgree`: `CountsAddUp` from `CountsInv`, one part per command. Of mtr: after any
  number of lines the probes in a hop's builder are those that were sent to it, each once, and
  those with a time are the ones that were answered after they were sent (`TimingsFollow`), for
  events in any order, repeated or missing; so the lengths and counts that
  `compute_stats` takes are those of the events (`ProbesAreCounted`). The sum of times lies
  between their number times the lowest and times the highest (`TotalBetween`),
  `r1` is off by at most half a tenth of a millisecond (`R1Rounds`), and the root of
  the deviation exists and is at most the largest deviation but for rounding (`RootIsBounded`). The hops
  have the order of their numbers (`HopsInOrder`). Of TCP ping: a probe is appended once, nothing
  returns before the last one and nothing drops it (`NextTcpCounts`). Of HTTP: every duration curl may
  print that is in order makes phases that make up the time but for roundings
  (`PhasesMakeUpTheTime`), and the steps after curl keep them.
- `HeadersAreFitted`: `HeadersFit` from `HeadersInv`, for any `HEADERS_SIZE_LIMIT` and `MARK`.
  What is kept is the headers at a set of places, in order (`ChosenPlaces`), and its size
  is that of all without those left out (`TotalOfJoined`). No value's length lies between the
  greatest one that fits as a cap and the least longer one, so from there the total grows by
  the number of longer values with each byte, and the excess divided by that number rounding
  up leads back to the greatest cap that fits (`CapFits`, `CapOfFits`). Shrinking to it keeps
  the names and the order (`ShrunkHeaders`), fits, and one byte more would not
  (`ShrunkIsFitted`). A value of single bytes can be cut anywhere (`CutAnywhere`), so a
  panic tells of a character of several.

Six things in the model changed for these proofs. `Drop` now leaves alone a run whose
result has been emitted: before, the model could drop it afterwards, which `dispatch()`
cannot, since its timeout ends with the command. Loops that were folds (`parse_resolv_conf`,
`parse_raw`, `parse_classic`, `parse_trace`, `from_utf8_lossy`, the bytes of a text) are
recursive functions, as facts about folds need induction with an operator as a parameter.
What a tool may print is put together from named parts. The limits that were only bounded in a
configuration have assumptions of their own. The times received by mtr and TCP ping are
chosen by their places, and the statistics of TCP ping are one record with times and one
without, in place of one record extended by another. `value_cap` names the greatest length that
fits as a cap and the least longer one, between which the loop over the sorted lengths
stops, instead of sorting, and the sizes of a list of headers are operators of their own. None of these changes what the runs find.

Every invariant the passing runs check is stated by a theorem. Model-checked only is liveness
(fairness and ENABLED are beyond the prover), and with it the liveness half of
`ImplementsService`.

## 5. What is abstracted

Payloads, logging and wording are left out. In Session a measurement's type is known or
unknown and its command is something that sends partial results and returns, hangs
or panics; what it really does is in the modules of the commands, where nothing
else of the process appears. The two meet in the timeout: dropping the future is
`Timeout` in Session and Measurement, `Drop` in CommandRun. In Session what is checked
of `health` is only that it changes at any time; Status says how. Handlers of a
closed connection may still spawn jobs (Session) but no longer signal anything
that is read (Reconnect).

Regular expressions are not modelled character by character: a line is the set of
patterns that match it. Where a pattern is not anchored, any line may match it (the
status, the query time and the server of dig's output, `Dns`). Times are integers in
the unit in which the code rounds; the deviation of TCP ping, which nothing uses, is
left out. A tool's exit code is left out where the code does not look at it.

`HeadersFit` and `RawOutputFits` describe the truncation as it is, the panic and the
marker included; what the documents say instead is `HeaderCapsAreSafe` and
`RawOutputWithinLimit`, which are violated.

What the models show of the code beside the properties, each as the model has it:

- `rawBody` may be three times `BODY_LIMIT` long after the lossy conversion.
- The status name of an HTTP result is that of the first status line, an interim
  one included; HEAD is recognised in any case by `validate` but only in
  capitals when the raw output is put together.
- mtr's average is rounded to tenths of a millisecond and its minimum is not, so either may be the larger by
  half of that tenth of a millisecond; a hop is called a duplicate of one above it by the order of events.
- When `select!` takes the outcome signal although the shutdown is ready too
  (`client.rs:524`), the process stops without sigterm or drain, and jobs acked before are
  not answered; `GracefulShutdownAnswers` is about clean drains only.
- A job that has been answered holds its slot until its task returns
  (`client.rs:234`), so `OnlyFullOrStoppingTurnsAway` counts it as busy: a request that
  follows a result at once may be refused.
- Refreshes of the alternative addresses within one connection are not ordered, so an
  older answer may come last; `AltIpsFresh` exempts those that overlap.
- A DNS job without a type gets the empty type and is rejected. The raw output of a
  trace is not rewritten: a private local resolver in it is told.
- The reconnect delays of `README.md:214-215` (60 s and 5 s) are an hour and a minute
  in `reconnect.rs:43-44`; the messages the code logs agree with the code.

## 6. Not modelled, and why

- Configuration (`config.rs`: `AppConfig` is not used by the program), log formatting,
  memory and disk sizes, and `lib.rs`, which only lists modules: nothing depends on
  their state.
- `is_first_progress` and `by_line` of the progress buffer: a flag that is read once and
  a variant nothing constructs. The buffer itself is used by no command yet; it is
  modelled because it has state and its own contract.
- `GP_UUID_PATH`, which only fixes the path of the identity.
- The IPv4 and IPv6 support flags, which are emitted and forgotten, and
  `run_ping_test` and `run_icmp_tcp_test` of the StatusManager, which the client
  does not call.
- Subprocesses that outlive their command: what an operating system does with a
  child whose handle was dropped is outside the code. A curl that outlives its 15 s
  is bounded by its own `--max-time`, but a process that ends while curl runs leaves
  its temporary files.
- `connect()` of rust_socketio, which is taken to return.
- More than two connections of one process in a row (Probe).

What is left of the plan: the commands under Session's dispatch in one composition,
which today is two models that meet in the timeout.
