------------------------------ MODULE Identity ------------------------------
(***************************************************************************)
(* The probe's identity (src/src/probe/uuid.rs): at its start the process  *)
(* reads it from a file, or makes a new one and writes it, and every       *)
(* handshake tells it to the API.  The process may be killed anywhere,     *)
(* and started again by another user; the file is written in place.        *)
(***************************************************************************)
EXTENDS Integers, Sequences, FiniteSets

CONSTANTS
  MaxStarts,    \* bound on the starts of the process
  MaxTroubles   \* bound on what goes wrong

VARIABLES
  disk,         \* what each path holds
  step,         \* "down", "read", "truncate", "write", "up", "told"
  path,         \* the path this process uses, "none" before the first start
  identity,     \* ProbeUuid.id, or NoId
  starts,       \* number of starts
  fresh,        \* number of identities made, which are 1, 2, ...
  identities,   \* history: the identities the API was told
  troubles      \* history: failed reads and writes, kills in between, moves

identityVars == <<disk, step, path, identity, starts, fresh, identities, troubles>>

Paths == {"/.globalping-probe-uuid", "$HOME/.globalping-probe-uuid"}
Root == "/.globalping-probe-uuid"

\* The contents of a file: the identity it begins with and how much of it is
\* there.  An empty file, or blanks only, is as good as none.
Absent == [of |-> 0, part |-> "absent"]
Empty == [of |-> 0, part |-> "empty"]
Half(n) == [of |-> n, part |-> "half"]
Whole(n) == [of |-> n, part |-> "whole"]
NoId == Absent

IdentityInit ==
  /\ disk = [p \in Paths |-> Absent]
  /\ step = "down" /\ path = "none" /\ identity = NoId
  /\ starts = 0 /\ fresh = 0 /\ identities = {} /\ troubles = 0

\* The process starts and settles on a path; the one in the root directory then
\* holds what it is left with.
StartWith(root, left) ==
  /\ step = "down" /\ starts < MaxStarts
  /\ LET p == IF root THEN Root ELSE CHOOSE q \in Paths : q # Root
         moved == path \notin {"none", p}
     IN  /\ moved => troubles < MaxTroubles
         /\ path' = p
         /\ troubles' = IF moved THEN troubles + 1 ELSE troubles
         /\ disk' = IF root THEN [disk EXCEPT ![Root] = left] ELSE disk
  /\ step' = "read" /\ starts' = starts + 1
  /\ UNCHANGED <<identity, fresh, identities>>

\* Mutant of resolve_uuid_path: trying the path truncates the file.
ResolveTruncating(root) == StartWith(root, Empty)

\* The path in the root directory, if it can be opened for writing, which
\* creates the file; else the one in the home directory.
resolve_uuid_path(root) ==
  StartWith(root, IF disk[Root] = Absent THEN Empty ELSE disk[Root])

Generate ==
  /\ fresh' = fresh + 1
  /\ identity' = Whole(fresh + 1)
  /\ step' = "truncate"

\* load_or_create(): what the file holds is the identity, be it complete or
\* not; without a file, or with nothing in it, a new one is made.
load_or_create ==
  /\ step = "read"
  /\ IF disk[path].of # 0
     THEN identity' = disk[path] /\ step' = "up" /\ UNCHANGED fresh
     ELSE Generate
  /\ UNCHANGED <<disk, path, starts, identities, troubles>>

\* Any other error in reading: a new identity replaces the one in the file.
ReadFails ==
  /\ step = "read" /\ troubles < MaxTroubles
  /\ Generate
  /\ troubles' = troubles + 1
  /\ UNCHANGED <<disk, path, starts, identities>>

\* fs::write() empties the file before it writes.
Truncate ==
  /\ step = "truncate"
  /\ disk' = [disk EXCEPT ![path] = Empty]
  /\ step' = "write"
  /\ UNCHANGED <<path, identity, starts, fresh, identities, troubles>>

Write ==
  /\ step = "write"
  /\ disk' = [disk EXCEPT ![path] = identity]
  /\ step' = "up"
  /\ UNCHANGED <<path, identity, starts, fresh, identities, troubles>>

\* The write fails, before the file is emptied or within it: a warning, and
\* the process goes on with an identity that is not on disk.
WriteFails ==
  /\ step \in {"truncate", "write"} /\ troubles < MaxTroubles
  /\ disk' \in IF step = "truncate" THEN {disk}
               ELSE {disk, [disk EXCEPT ![path] = Half(identity.of)]}
  /\ step' = "up"
  /\ troubles' = troubles + 1
  /\ UNCHANGED <<path, identity, starts, fresh, identities>>

\* connection_url() puts the identity in the handshake.
Tell ==
  /\ step = "up"
  /\ identities' = identities \cup {identity}
  /\ step' = "told"
  /\ UNCHANGED <<disk, path, identity, starts, fresh, troubles>>

\* The process ends or is killed; while it writes, part of it may be on disk.
Kill ==
  /\ step # "down"
  /\ IF step = "write"
     THEN /\ troubles < MaxTroubles
          /\ troubles' = troubles + 1
          /\ disk' \in {disk, [disk EXCEPT ![path] = Half(identity.of)]}
     ELSE UNCHANGED <<troubles, disk>>
  /\ step' = "down" /\ identity' = NoId
  /\ UNCHANGED <<path, starts, fresh, identities>>

IdentityNext ==
  \/ \E root \in BOOLEAN : resolve_uuid_path(root)
  \/ load_or_create
  \/ ReadFails
  \/ Truncate
  \/ Write
  \/ WriteFails
  \/ Tell
  \/ Kill

IdentitySpec == IdentityInit /\ [][IdentityNext]_identityVars

\* The identity is kept across restarts: each failed read or write, each kill
\* within a write and each start under another path makes the API learn of at
\* most one new identity, and without them it only ever learns of one.
IdentityKept == Cardinality(identities) <= 1 + troubles
=============================================================================
