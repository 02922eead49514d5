-------------------------------- MODULE Lists --------------------------------
(***************************************************************************)
(* What is put together from a sequence place by place.  These say what    *)
(* FoldLeft, SelectSeq and SetToSortSeq of the libraries say, as recursive *)
(* functions, which can be reasoned about.                                 *)
(***************************************************************************)
EXTENDS Integers, Sequences

\* What the numbers add up to: the bytes of a text whose characters are known
\* by their widths.
Total(numbers) ==
  LET upTo[n \in 0..Len(numbers)] == IF n = 0 THEN 0 ELSE upTo[n - 1] + numbers[n]
  IN  upTo[Len(numbers)]

\* What is at some of the places of a sequence, in order.
Chosen(s, places) ==
  LET upTo[n \in 0..Len(s)] ==
        IF n = 0 THEN <<>>
        ELSE IF n \in places THEN Append(upTo[n - 1], s[n]) ELSE upTo[n - 1]
  IN  upTo[Len(s)]
=============================================================================
