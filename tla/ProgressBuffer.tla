--------------------------- MODULE ProgressBuffer ---------------------------
(***************************************************************************)
(* The progress buffer (src/src/util/progress_buffer.rs): values that are  *)
(* pushed field by field and taken from time to time, in one of three      *)
(* modes.  No command uses it yet; the receiver in this module does what   *)
(* each mode asks of one.                                                  *)
(*                                                                         *)
(* A value is a sequence of characters, "a" of one byte and "u" of two.    *)
(***************************************************************************)
EXTENDS Lists, SequencesExt

CONSTANTS
  Fields,
  MaxLength     \* bound on the characters of a value

VARIABLES
  mode,         \* BufferMode: "append", "diff", "overwrite"
  buffer,       \* the fields that hold something, with their values
  offset,       \* the bytes of each field that were taken
  broken,       \* a slice was taken that is none: the owner has panicked
  pushed,       \* history: the value the receiver should come to know
  heard,        \* history: the value the receiver has put together
  grown         \* history: every value pushed began with the one before it

vars == <<mode, buffer, offset, broken, pushed, heard, grown>>

Values == BoundedSeq({"a", "u"}, MaxLength)
Width(c) == IF c = "a" THEN 1 ELSE 2
Size(v) == Total([i \in DOMAIN v |-> Width(v[i])])

Init ==
  /\ buffer = <<>> /\ broken = FALSE
  /\ offset = [f \in Fields |-> 0]
  /\ pushed = [f \in Fields |-> <<>>]
  /\ heard = [f \in Fields |-> <<>>]
  /\ grown = [f \in Fields |-> TRUE]

push(field, value) ==
  LET appends == mode = "append"
      old == IF field \in DOMAIN buffer THEN buffer[field] ELSE <<>>
  IN  /\ ~broken
      /\ appends => Len(pushed[field] \o value) <= MaxLength
      /\ buffer' = [f \in DOMAIN buffer \cup {field} |->
           IF f # field THEN buffer[f] ELSE IF appends THEN old \o value ELSE value]
      /\ pushed' = [pushed EXCEPT ![field] = IF appends THEN @ \o value ELSE value]
      /\ grown' = [grown EXCEPT ![field] = @ /\ (appends \/ IsPrefix(pushed[field], value))]
      /\ UNCHANGED <<mode, offset, broken, heard>>

\* value[offset..]: the characters from that byte on, if it is the first byte
\* of one or the end.
Starts(value) == {Size(SubSeq(value, 1, i)) : i \in 0..Len(value)}
From(value, at) ==
  LET i == CHOOSE i \in 0..Len(value) : Size(SubSeq(value, 1, i)) = at
  IN  SubSeq(value, i + 1, Len(value))

\* Diff keeps the values and sends each from where it was taken to last.
TakeFrom(next) ==
  /\ mode = "diff" /\ ~broken /\ buffer # <<>>
  /\ broken' = \E f \in DOMAIN buffer : offset[f] \notin Starts(buffer[f])
  /\ IF broken' THEN UNCHANGED <<offset, heard>>
     ELSE /\ offset' = [f \in Fields |-> IF f \in DOMAIN buffer THEN next[f] ELSE offset[f]]
          /\ heard' = [f \in Fields |-> IF f \in DOMAIN buffer
                         THEN heard[f] \o From(buffer[f], offset[f]) ELSE heard[f]]
  /\ UNCHANGED <<mode, buffer, pushed, grown>>

\* Mutant of TakeDiff: the offset is not moved.
TakeDiffUnmoved == TakeFrom(offset)

TakeDiff == TakeFrom([f \in DOMAIN buffer |-> Size(buffer[f])])

\* The other modes hand the values over and begin again.
TakeAll ==
  /\ mode # "diff" /\ buffer # <<>>
  /\ heard' = [f \in Fields |->
       IF f \notin DOMAIN buffer THEN heard[f]
       ELSE IF mode = "append" THEN heard[f] \o buffer[f] ELSE buffer[f]]
  /\ buffer' = <<>>
  /\ UNCHANGED <<mode, offset, broken, pushed, grown>>

Next ==
  \/ \E f \in Fields, v \in Values : push(f, v)
  \/ TakeDiff
  \/ TakeAll

Spec == Init /\ mode \in {"append", "diff", "overwrite"} /\ [][Next]_vars

\* Nothing is lost between pushes and takes: what the receiver has and what is
\* in the buffer make up what was pushed.  In diff mode that, and that taking
\* does not panic, holds for values that only grow.
BufferReassembles ==
  /\ broken => mode = "diff" /\ \E f \in Fields : ~grown[f]
  /\ \A f \in Fields :
       LET kept == IF f \in DOMAIN buffer THEN buffer[f] ELSE <<>>
       IN  CASE mode = "append" -> heard[f] \o kept = pushed[f]
             [] mode = "overwrite" -> pushed[f] = IF f \in DOMAIN buffer THEN kept ELSE heard[f]
             [] mode = "diff" -> ~broken /\ grown[f] =>
                  /\ kept = pushed[f]
                  /\ IsPrefix(heard[f], kept) /\ Size(heard[f]) = offset[f]
=============================================================================
