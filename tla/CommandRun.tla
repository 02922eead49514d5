----------------------------- MODULE CommandRun -----------------------------
(***************************************************************************)
(* What every measurement command is made of (src/src/command/mod.rs): a   *)
(* job is validated, a system tool is spawned, what it prints is read and  *)
(* parsed, partial results go to the progress channel, and the run ends    *)
(* with a result or an error, or is dropped at MEASUREMENT_TIMEOUT.        *)
(*                                                                         *)
(* One line a tool prints is a record whose "kind" says which patterns of  *)
(* the parser match it; what else the record holds is what they capture.   *)
(* The commands extend this module; Commands composes them.                *)
(***************************************************************************)
EXTENDS Addresses, Lists, FiniteSets, SequencesExt

CONSTANTS
  MEASUREMENT_TIMEOUT,  \* seconds after which dispatch() drops the command
  MAX_RAW_OUTPUT_BYTES,
  MARKER                \* bytes of TRUNCATION_MARKER

\* The command outlives dig's 5 seconds and curl's 15 after them (30 in the code).
ASSUME TimeoutAssumption == MEASUREMENT_TIMEOUT \in Nat /\ MEASUREMENT_TIMEOUT > 5 + 15

ASSUME OutputAssumption == MAX_RAW_OUTPUT_BYTES \in Nat /\ MARKER \in Nat

VARIABLES
  job,      \* the measurement, as the API sent it
  pc,       \* "new", where the command is, "done"
  clock,    \* seconds spent in steps with a timeout of their own
  tool,     \* what the running tool has still to print
  read,     \* what has been read of it
  local,    \* the command's local variables, or Nothing
  files,    \* temporary files that exist
  told,     \* partial results, in the order they were sent
  result    \* what the command returned, or Nothing

vars == <<job, pc, clock, tool, read, local, files, told, result>>

Nothing == [status |-> "none"]
Failure == [status |-> "error"]        \* Err(...): no result of the tool's own
TimedOut == [status |-> "timeout"]     \* dispatch() has dropped the command

\* The output of a command that found its target to be a private address.
PrivateNote == <<[kind |-> "private"]>>

Started(j) ==
  /\ job = j
  /\ pc = "new"
  /\ clock = 0
  /\ tool = <<>> /\ read = <<>> /\ told = <<>>
  /\ files = {}
  /\ local = Nothing /\ result = Nothing

Is(cmd) == job.cmd = cmd

Return(r) ==
  /\ pc' = "done"
  /\ result' = r

\* Err before anything has run: the options are not those the command allows.
Reject(cmd, valid) ==
  /\ Is(cmd) /\ pc = "new" /\ ~valid
  /\ Return(Failure)
  /\ UNCHANGED <<job, clock, tool, read, local, files, told>>

\* The tool is spawned; what it will print is not up to the probe.
Spawn(cmd, valid, outputs) ==
  /\ Is(cmd) /\ pc = "new" /\ valid
  /\ \E out \in outputs : tool' = out
  /\ pc' = "reading"
  /\ UNCHANGED <<job, clock, read, local, files, told, result>>

\* The tool cannot be spawned.
SpawnFails(cmd, valid) ==
  /\ Is(cmd) /\ pc = "new" /\ valid
  /\ Return(Failure)
  /\ UNCHANGED <<job, clock, tool, read, local, files, told>>

\* next_line() finds that what the tool prints is not UTF-8, at whichever line.
ReadFails(cmd) ==
  /\ Is(cmd) /\ pc = "reading"
  /\ Return(Failure)
  /\ UNCHANGED <<job, clock, tool, read, local, files, told>>

\* A step of at most limit seconds that is in no way told apart while it lasts:
\* it takes no time to speak of, or all it may.  What would end after
\* MEASUREMENT_TIMEOUT has been dropped.
TakesUpTo(limit) ==
  /\ clock' \in {clock, clock + limit}
  /\ clock' <= MEASUREMENT_TIMEOUT

\* tokio::time::timeout drops the command's future where it awaits.  A tool that
\* is read to its end may take for ever; a step with a limit cannot.
MayReach(deadline) ==
  \/ pc = "reading"
  \/ local # Nothing /\ "limit" \in DOMAIN local /\ clock + local.limit >= deadline

Drop ==
  /\ pc \notin {"new", "done", "emitted"}
  /\ MayReach(MEASUREMENT_TIMEOUT)
  /\ Return(TimedOut)
  /\ UNCHANGED <<job, clock, tool, read, local, files, told>>

----------------------------------------------------------------------------
(* Texts of which only the bytes count: the widths of their characters.    *)

Bytes(text) == Total(text)

\* The offsets at which a text may be cut.
CharBoundaries(text) == {Bytes(SubSeq(text, 1, i)) : i \in 0..Len(text)}

\* &s[..n], for an n that is a boundary.
UpTo(text, n) ==
  LET i == CHOOSE i \in 0..Len(text) : Bytes(SubSeq(text, 1, i)) = n
  IN  SubSeq(text, 1, i)

\* The text up to the last of some offsets, and the marker.
Marked(text, offsets) ==
  UpTo(text, CHOOSE b \in offsets : \A c \in offsets : c <= b) \o [i \in 1..MARKER |-> 1]

\* Mutant of truncate_output: looks for a boundary below the limit only.
TruncateBelow(text, max) ==
  IF Bytes(text) <= max THEN text ELSE Marked(text, CharBoundaries(text) \cap (0..max - 1))

truncate_output(text, max) ==
  IF Bytes(text) <= max THEN text ELSE Marked(text, CharBoundaries(text) \cap (0..max))

\* dispatch() limits rawOutput before it emits the result.
limit_raw_output(text) == truncate_output(text, MAX_RAW_OUTPUT_BYTES)
=============================================================================
