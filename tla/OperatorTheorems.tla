--------------------------- MODULE OperatorTheorems ---------------------------
(***************************************************************************)
(* What the operators compute that the models are built from, where more   *)
(* than one definition of them meets.  First induction and recursion over  *)
(* the naturals, stated for sets and functions, with no operator as a      *)
(* parameter: what the proofs about recursively defined functions of the   *)
(* models rest on, and what they give for the functions of Lists.  Then    *)
(* the check of addresses of Addresses, which is what ReservedRanges says. *)
(***************************************************************************)
EXTENDS Lists, ReservedRanges, WellFoundedInduction, FiniteSetTheorems, SequenceTheorems, TLAPS

\* The order of the naturals is well founded.
LEMMA LessIsWellFounded == IsWellFoundedOn({p \in Nat \X Nat : p[1] < p[2]}, Nat)
BY NatLessThanWellFounded DEF OpToRel

\* A set of naturals with 0 and every successor of a member has all of them.
LEMMA SetInduction ==
  ASSUME NEW S, 0 \in S, \A n \in Nat : n \in S => n + 1 \in S
  PROVE  \A n \in Nat : n \in S
<1> DEFINE T == Nat \ S
           R == {p \in Nat \X Nat : p[1] < p[2]}
<1>1. SUFFICES ASSUME T # {} PROVE FALSE
  OBVIOUS
<1>2. PICK x \in T : \A y \in T : ~ (<<y, x>> \in R)
  <2>1. IsWellFoundedOn(R, Nat)
    BY LessIsWellFounded
  <2>2. T \subseteq Nat
    OBVIOUS
  <2> HIDE DEF T, R
  <2>3. QED
    BY <1>1, <2>1, <2>2, WFMin
<1>3. x \in Nat /\ x # 0
  OBVIOUS
<1>4. x - 1 \in Nat /\ x - 1 \notin T
  <2>1. x - 1 \in Nat /\ x - 1 < x
    BY <1>3
  <2>2. <<x - 1, x>> \in R
    BY <1>3, <2>1
  <2>3. QED
    BY <1>2, <2>1, <2>2
<1>5. QED
  BY <1>3, <1>4

\* What leads from the value at a number to the value at the next.
Steps(T) == [Nat \X T -> T]

\* The beginnings, up to n, of the function that starts with a and goes on by step.
Beginnings(T, a, step, n) ==
  {g \in [0..n -> T] : g[0] = a /\ \A i \in 0..n - 1 : g[i + 1] = step[<<i, g[i]>>]}

\* There is one of each length.
LEMMA BeginningExists ==
  ASSUME NEW T, NEW a \in T, NEW step \in Steps(T)
  PROVE  \A n \in Nat : Beginnings(T, a, step, n) # {}
<1> DEFINE S == {n \in Nat : Beginnings(T, a, step, n) # {}}
<1>1. 0 \in S
  <2>1. [i \in 0..0 |-> a] \in Beginnings(T, a, step, 0)
    BY DEF Beginnings
  <2>2. QED
    BY <2>1
<1>2. ASSUME NEW n \in Nat, n \in S PROVE n + 1 \in S
  <2>1. PICK g \in Beginnings(T, a, step, n) : TRUE
    BY <1>2
  <2>2. /\ g \in [0..n -> T] /\ g[0] = a /\ g[n] \in T
        /\ \A i \in 0..n - 1 : g[i + 1] = step[<<i, g[i]>>]
    BY <2>1 DEF Beginnings
  <2> DEFINE h == [i \in 0..n + 1 |-> IF i <= n THEN g[i] ELSE step[<<n, g[n]>>]]
  <2>3. step[<<n, g[n]>>] \in T
    BY <2>2 DEF Steps
  <2>4. h \in [0..n + 1 -> T]
    BY <2>2, <2>3
  <2>5. h[0] = a
    BY <2>2
  <2>6. ASSUME NEW i \in 0..n PROVE h[i + 1] = step[<<i, h[i]>>]
    <3>1. CASE i = n
      <4>1. h[n + 1] = step[<<n, g[n]>>] /\ h[n] = g[n]
        OBVIOUS
      <4>2. QED
        BY <3>1, <4>1
    <3>2. CASE i # n
      <4>1. i \in 0..n - 1 /\ i + 1 \in 0..n
        BY <3>2
      <4>2. h[i + 1] = g[i + 1] /\ h[i] = g[i]
        BY <4>1
      <4>3. QED
        BY <2>2, <4>1, <4>2
    <3>3. QED
      BY <3>1, <3>2
  <2> HIDE DEF h
  <2>7. h \in Beginnings(T, a, step, n + 1)
    <3>1. (n + 1) - 1 = n
      OBVIOUS
    <3>2. QED
      BY <2>4, <2>5, <2>6, <3>1 DEF Beginnings
  <2>8. QED
    BY <2>7
<1> HIDE DEF S
<1>3. \A n \in Nat : n \in S
  BY <1>1, <1>2, SetInduction
<1>4. QED
  BY <1>3 DEF S

\* Two of them agree where both are defined.
LEMMA BeginningsAgree ==
  ASSUME NEW T, NEW a \in T, NEW step \in Steps(T),
         NEW k \in Nat, NEW m \in Nat,
         NEW g \in Beginnings(T, a, step, k), NEW h \in Beginnings(T, a, step, m)
  PROVE  \A n \in Nat : n <= k /\ n <= m => g[n] = h[n]
<1> DEFINE S == {n \in Nat : n <= k /\ n <= m => g[n] = h[n]}
<1>1. /\ g[0] = a /\ \A i \in 0..k - 1 : g[i + 1] = step[<<i, g[i]>>]
      /\ h[0] = a /\ \A i \in 0..m - 1 : h[i + 1] = step[<<i, h[i]>>]
  BY DEF Beginnings
<1>2. 0 \in S
  BY <1>1
<1>3. ASSUME NEW n \in Nat, n \in S PROVE n + 1 \in S
  <2> SUFFICES ASSUME n + 1 <= k, n + 1 <= m PROVE g[n + 1] = h[n + 1]
    OBVIOUS
  <2>1. n \in 0..k - 1 /\ n \in 0..m - 1 /\ g[n] = h[n]
    BY <1>3
  <2>2. QED
    BY <1>1, <2>1
<1> HIDE DEF S
<1>4. \A n \in Nat : n \in S
  BY <1>2, <1>3, SetInduction
<1>5. QED
  BY <1>4 DEF S

\* The function that starts with a and goes on by step.
Unfolds(f, T, a, step) ==
  /\ f \in [Nat -> T]
  /\ f[0] = a
  /\ \A n \in Nat : f[n + 1] = step[<<n, f[n]>>]

\* A function on the naturals may be defined by its first value and the step from
\* each value to the next.
LEMMA RecursiveFunction ==
  ASSUME NEW T, NEW a \in T, NEW step \in Steps(T)
  PROVE  \E f : Unfolds(f, T, a, step)
<1> DEFINE B(n) == Beginnings(T, a, step, n)
           pick == [n \in Nat |-> CHOOSE g \in B(n) : TRUE]
           f == [n \in Nat |-> pick[n][n]]
<1>1. \A n \in Nat : pick[n] \in B(n)
  BY BeginningExists
<1>2. \A n \in Nat : /\ pick[n] \in [0..n -> T] /\ pick[n][0] = a
                     /\ \A i \in 0..n - 1 : pick[n][i + 1] = step[<<i, pick[n][i]>>]
  BY <1>1 DEF Beginnings
<1> HIDE DEF pick
<1>3. f \in [Nat -> T] /\ f[0] = a
  BY <1>2
<1>4. ASSUME NEW n \in Nat PROVE f[n + 1] = step[<<n, f[n]>>]
  <2>1. pick[n + 1][n + 1] = step[<<n, pick[n + 1][n]>>]
    BY <1>2
  <2>2. pick[n + 1][n] = pick[n][n]
    <3>1. n + 1 \in Nat /\ n <= n + 1 /\ n <= n
      OBVIOUS
    <3>2. pick[n + 1] \in Beginnings(T, a, step, n + 1) /\ pick[n] \in Beginnings(T, a, step, n)
      BY <1>1, <3>1
    <3> HIDE DEF B
    <3>3. QED
      BY <3>1, <3>2, BeginningsAgree
  <2>3. QED
    BY <2>1, <2>2
<1>5. QED
  BY <1>3, <1>4 DEF Unfolds

\* A recursion over an interval of the naturals that begins at 0.
UnfoldsTo(f, T, a, step, len) ==
  /\ f \in [0..len -> T]
  /\ f[0] = a
  /\ \A i \in 1..len : f[i] = step[i - 1, f[i - 1]]

\* A step and a first value make a sequence of values of any length.
LEMMA RecursionToLength ==
  ASSUME NEW T, NEW a \in T, NEW step \in Steps(T), NEW len \in Nat
  PROVE  \E f : UnfoldsTo(f, T, a, step, len)
<1>1. PICK g : Unfolds(g, T, a, step)
  BY RecursiveFunction
<1>2. g \in [Nat -> T] /\ g[0] = a
  BY <1>1 DEF Unfolds
<1>0. \A n \in Nat : g[n + 1] = step[n, g[n]]
  BY <1>1 DEF Unfolds
<1> DEFINE f == [i \in 0..len |-> g[i]]
<1>3. f \in [0..len -> T] /\ f[0] = a
  <2>1. ASSUME NEW i \in 0..len PROVE g[i] \in T
    <3>1. i \in Nat /\ g \in [Nat -> T]
      BY <1>2
    <3> QED BY <3>1
  <2>2. 0 \in 0..len
    OBVIOUS
  <2>3. f[0] = g[0]
    BY <2>2
  <2> QED BY <1>2, <2>1, <2>3
<1>4. ASSUME NEW i \in 1..len PROVE f[i] = step[i - 1, f[i - 1]]
  <2>1. i - 1 \in Nat /\ (i - 1) + 1 = i /\ i - 1 \in 0..len /\ i \in 0..len
    OBVIOUS
  <2>2. g[i] = step[i - 1, g[i - 1]]
    BY <1>0, <2>1
  <2> QED BY <2>1, <2>2
<1> QED BY <1>3, <1>4 DEF UnfoldsTo

\* What holds at first, and after each step if before it, holds up to the end.
LEMMA InductionToLength ==
  ASSUME NEW len \in Nat, NEW T, NEW f, f[0] \in T, \A i \in 1..len : f[i - 1] \in T => f[i] \in T
  PROVE  \A i \in 0..len : f[i] \in T
<1> DEFINE S == {n \in Nat : n <= len => f[n] \in T}
<1>1. 0 \in S
  OBVIOUS
<1>2. ASSUME NEW n \in Nat, n \in S PROVE n + 1 \in S
  <2>1. CASE n + 1 <= len
    <3>1. n + 1 \in 1..len /\ (n + 1) - 1 = n /\ n <= len
      BY <2>1
    <3>2. f[n] \in T
      BY <1>2, <3>1
    <3> QED BY <3>1, <3>2
  <2>2. CASE ~(n + 1 <= len)
    BY <2>2
  <2> QED BY <2>1, <2>2
<1> HIDE DEF S
<1>3. \A n \in Nat : n \in S
  BY <1>1, <1>2, SetInduction
<1> QED BY <1>3 DEF S

\* The same of the steps themselves.
LEMMA InductionUpTo ==
  ASSUME NEW len \in Nat, NEW S, 0 \in S, \A n \in 1..len : n - 1 \in S => n \in S
  PROVE  \A n \in 0..len : n \in S
<1> DEFINE f == [n \in 0..len |-> n]
<1>1. \A n \in 0..len : f[n] = n
  OBVIOUS
<1>2. 0 \in 0..len /\ \A n \in 1..len : n \in 0..len /\ n - 1 \in 0..len
  OBVIOUS
<1> HIDE DEF f
<1>3. f[0] \in S /\ \A n \in 1..len : f[n - 1] \in S => f[n] \in S
  BY <1>1, <1>2
<1>4. \A n \in 0..len : f[n] \in S
  BY <1>3, InductionToLength
<1> QED BY <1>1, <1>4

----------------------------------------------------------------------------
(* Totals *)

\* The numbers up to each place, added up.
Sums(w) == CHOOSE f : f = [n \in 0..Len(w) |-> IF n = 0 THEN 0 ELSE f[n - 1] + w[n]]

\* There are such sums, and they are what their recursive definition says.
LEMMA SumsUnfold ==
  ASSUME NEW w \in Seq(Nat)
  PROVE  /\ Sums(w) \in [0..Len(w) -> Nat]
         /\ Sums(w)[0] = 0
         /\ \A n \in 1..Len(w) : Sums(w)[n] = Sums(w)[n - 1] + w[n]
<1> DEFINE len == Len(w)
           S(f) == [n \in 0..len |-> IF n = 0 THEN 0 ELSE f[n - 1] + w[n]]
           step == [p \in Nat \X Nat |-> IF p[1] + 1 \in 1..len THEN p[2] + w[p[1] + 1] ELSE 0]
<1>1. len \in Nat /\ \A n \in 1..len : w[n] \in Nat
  OBVIOUS
<1>2. step \in Steps(Nat)
  <2>1. \A p \in Nat \X Nat : (IF p[1] + 1 \in 1..len THEN p[2] + w[p[1] + 1] ELSE 0) \in Nat
    <3> HIDE DEF len
    <3> QED BY <1>1
  <2> QED BY <2>1 DEF Steps
<1> HIDE DEF len
<1>3. PICK g : UnfoldsTo(g, Nat, 0, step, len)
  <2>1. 0 \in Nat
    OBVIOUS
  <2> HIDE DEF step
  <2> QED BY <1>1, <1>2, <2>1, RecursionToLength
<1>4. g \in [0..len -> Nat] /\ g[0] = 0
  BY <1>3 DEF UnfoldsTo
<1>5. ASSUME NEW n \in 1..len PROVE g[n] = g[n - 1] + w[n]
  <2>1. n - 1 \in Nat /\ n - 1 \in 0..len /\ (n - 1) + 1 = n
    BY <1>1
  <2>2. g[n] = step[n - 1, g[n - 1]]
    <3> HIDE DEF step
    <3> QED BY <1>3 DEF UnfoldsTo
  <2>3. g[n - 1] \in Nat
    BY <1>4, <2>1
  <2>4. step[n - 1, g[n - 1]] = g[n - 1] + w[n]
    BY <2>1, <2>3
  <2> QED BY <2>2, <2>4
<1>6. g = S(g)
  <2>1. \A n \in 0..len : g[n] = IF n = 0 THEN 0 ELSE g[n - 1] + w[n]
    <3> SUFFICES ASSUME NEW n \in 0..len PROVE g[n] = IF n = 0 THEN 0 ELSE g[n - 1] + w[n]
      OBVIOUS
    <3>1. n # 0 => n \in 1..len
      BY <1>1
    <3> QED BY <1>4, <1>5, <3>1
  <2>2. g = [n \in 0..len |-> g[n]]
    BY <1>4
  <2> QED BY <2>1, <2>2
<1> DEFINE f == Sums(w)
<1>7. f = S(f)
  <2>1. f = CHOOSE s : s = S(s)
    BY DEF Sums, len
  <2> HIDE DEF S, f
  <2> QED BY <1>6, <2>1
<1> HIDE DEF f
<1>8. f[0] = 0
  <2>1. 0 \in 0..len
    BY <1>1
  <2> QED BY <1>7, <2>1
<1>9. \A n \in 1..len : f[n] = f[n - 1] + w[n]
  <2> SUFFICES ASSUME NEW n \in 1..len PROVE f[n] = f[n - 1] + w[n]
    OBVIOUS
  <2>1. n \in 0..len /\ n # 0
    BY <1>1
  <2> QED BY <1>7, <2>1
<1>10. \A n \in 0..len : f[n] \in Nat
  <2>1. f[0] \in Nat
    BY <1>8
  <2>2. ASSUME NEW n \in 1..len, f[n - 1] \in Nat PROVE f[n] \in Nat
    <3>1. w[n] \in Nat
      BY <1>1
    <3>2. f[n] = f[n - 1] + w[n]
      BY <1>9
    <3> QED BY <2>2, <3>1, <3>2
  <2> QED BY <1>1, <2>1, <2>2, InductionToLength
<1>11. f \in [0..len -> Nat]
  BY <1>7, <1>10
<1> QED BY <1>8, <1>9, <1>11 DEF f, len

\* The sums of a beginning are those of the whole.
LEMMA TotalIsSum ==
  ASSUME NEW w \in Seq(Nat), NEW m \in 0..Len(w)
  PROVE  Total(SubSeq(w, 1, m)) = Sums(w)[m]
<1> DEFINE p == SubSeq(w, 1, m)
           d == [n \in 0..m |-> Sums(p)[n] - Sums(w)[n]]
<1>1. p \in Seq(Nat) /\ Len(p) = m /\ m \in Nat /\ m <= Len(w) /\ \A n \in 1..m : p[n] = w[n]
  OBVIOUS
<1>2. Total(p) = Sums(p)[m]
  <2> HIDE DEF p
  <2> QED BY <1>1 DEF Total, Sums
<1>3. /\ Sums(p) \in [0..m -> Nat] /\ Sums(p)[0] = 0
      /\ \A n \in 1..m : Sums(p)[n] = Sums(p)[n - 1] + p[n]
  <2> HIDE DEF p
  <2> QED BY <1>1, SumsUnfold
<1>4. /\ Sums(w) \in [0..Len(w) -> Nat] /\ Sums(w)[0] = 0
      /\ \A n \in 1..Len(w) : Sums(w)[n] = Sums(w)[n - 1] + w[n]
  BY SumsUnfold
<1> HIDE DEF p
<1>0. \A n \in 0..m : Sums(p)[n] \in Nat /\ Sums(w)[n] \in Nat
  <2>1. \A n \in 0..m : n \in 0..Len(w)
    BY <1>1
  <2>2. Sums(p) \in [0..m -> Nat] /\ Sums(w) \in [0..Len(w) -> Nat]
    BY <1>3, <1>4
  <2> QED BY <2>1, <2>2
<1>5. d[0] \in {0}
  BY <1>1, <1>3, <1>4
<1>6. ASSUME NEW n \in 1..m, d[n - 1] \in {0} PROVE d[n] \in {0}
  <2>1. n - 1 \in 0..m /\ n \in 0..m /\ n \in 1..Len(w) /\ n - 1 \in 0..Len(w) /\ n \in 0..Len(w)
    BY <1>1
  <2>2. Sums(p)[n - 1] \in Nat /\ Sums(w)[n - 1] \in Nat /\ w[n] \in Nat
    <3>1. w[n] \in Nat
      BY <2>1
    <3> QED BY <1>0, <2>1, <3>1
  <2>3. Sums(p)[n - 1] = Sums(w)[n - 1]
    BY <1>6, <2>1, <2>2
  <2>4. Sums(p)[n] = Sums(w)[n]
    BY <1>1, <1>3, <1>4, <2>1, <2>2, <2>3
  <2>5. Sums(w)[n] \in Nat
    BY <1>0, <2>1
  <2> QED BY <2>1, <2>4, <2>5
<1> HIDE DEF d
<1>7. \A n \in 0..m : d[n] \in {0}
  <2>1. m \in Nat
    BY <1>1
  <2> DEFINE zero == {0}
  <2>2. d[0] \in zero /\ \A n \in 1..m : d[n - 1] \in zero => d[n] \in zero
    BY <1>5, <1>6
  <2> HIDE DEF zero
  <2>3. \A n \in 0..m : d[n] \in zero
    BY <2>1, <2>2, InductionToLength
  <2> QED BY <2>3 DEF zero
<1>8. m \in 0..m /\ Sums(p)[m] \in Nat /\ Sums(w)[m] \in Nat
  <2>1. m \in 0..m
    BY <1>1
  <2> QED BY <1>0, <2>1
<1>9. Sums(p)[m] = Sums(w)[m]
  BY <1>7, <1>8 DEF d
<1> QED BY <1>2, <1>9 DEF p

\* Longer beginnings have greater totals.
LEMMA TotalsGrow ==
  ASSUME NEW w \in Seq(Nat \ {0}), NEW i \in 0..Len(w), NEW j \in 0..Len(w), i < j
  PROVE  Total(SubSeq(w, 1, i)) < Total(SubSeq(w, 1, j))
<1> DEFINE f == Sums(w)
           above == [n \in 0..Len(w) |-> \A k \in 0..n - 1 : f[k] < f[n]]
<1>1. w \in Seq(Nat) /\ Len(w) \in Nat /\ \A n \in 1..Len(w) : w[n] \in Nat /\ w[n] > 0
  OBVIOUS
<1>2. /\ f \in [0..Len(w) -> Nat]
      /\ \A n \in 1..Len(w) : f[n] = f[n - 1] + w[n]
  BY <1>1, SumsUnfold
<1> HIDE DEF f
<1>3. above[0] \in {TRUE}
  BY <1>1
<1>4. ASSUME NEW n \in 1..Len(w), above[n - 1] \in {TRUE} PROVE above[n] \in {TRUE}
  <2>1. n - 1 \in 0..Len(w) /\ n \in 0..Len(w)
    BY <1>1
  <2>2. f[n - 1] \in Nat /\ f[n] = f[n - 1] + w[n] /\ w[n] \in Nat /\ w[n] > 0
    BY <1>1, <1>2, <2>1
  <2>3. \A k \in 0..n - 2 : f[k] < f[n - 1]
    BY <1>4, <2>1
  <2>4. ASSUME NEW k \in 0..n - 1 PROVE f[k] < f[n]
    <3>1. CASE k = n - 1
      BY <2>2, <3>1
    <3>2. CASE k # n - 1
      <4>1. k \in 0..n - 2 /\ k \in 0..Len(w)
        BY <2>1, <3>2
      <4>2. f[k] \in Nat
        BY <1>2, <4>1
      <4> QED BY <2>2, <2>3, <4>1, <4>2
    <3> QED BY <3>1, <3>2
  <2> QED BY <2>1, <2>4
<1> HIDE DEF above
<1>5. \A n \in 0..Len(w) : above[n] \in {TRUE}
  <2> DEFINE yes == {TRUE}
             len == Len(w)
  <2>1. len \in Nat /\ above[0] \in yes /\ \A n \in 1..len : above[n - 1] \in yes => above[n] \in yes
    BY <1>1, <1>3, <1>4
  <2> HIDE DEF yes, len
  <2>2. \A n \in 0..len : above[n] \in yes
    BY <2>1, InductionToLength
  <2> QED BY <2>2 DEF yes, len
<1>6. f[i] < f[j]
  <2>1. i \in 0..j - 1
    OBVIOUS
  <2> QED BY <1>5, <2>1 DEF above
<1> QED BY <1>1, <1>6, TotalIsSum DEF f

----------------------------------------------------------------------------
(* What is chosen *)

\* What is chosen up to each place.
Picks(s, places) == CHOOSE f : f =
  [n \in 0..Len(s) |->
     IF n = 0 THEN <<>> ELSE IF n \in places THEN Append(f[n - 1], s[n]) ELSE f[n - 1]]

\* There are such picks, and they are what their recursive definition says.
LEMMA PicksUnfold ==
  ASSUME NEW S, NEW s \in Seq(S), NEW places
  PROVE  /\ Picks(s, places) \in [0..Len(s) -> Seq(S)]
         /\ Picks(s, places)[0] = <<>>
         /\ \A n \in 1..Len(s) : Picks(s, places)[n] =
              IF n \in places THEN Append(Picks(s, places)[n - 1], s[n]) ELSE Picks(s, places)[n - 1]
         /\ Chosen(s, places) = Picks(s, places)[Len(s)]
<1> DEFINE len == Len(s)
           T == Seq(S)
           none == <<>>
           C(f) == [n \in 0..len |->
             IF n = 0 THEN none ELSE IF n \in places THEN Append(f[n - 1], s[n]) ELSE f[n - 1]]
           next(p) == IF p[1] + 1 \in 1..len /\ p[1] + 1 \in places THEN Append(p[2], s[p[1] + 1]) ELSE p[2]
           step == [p \in Nat \X T |-> next(p)]
           f == Picks(s, places)
<1>1. len \in Nat /\ none \in T /\ \A n \in 1..len : s[n] \in S
  OBVIOUS
<1>2. f = (CHOOSE g : g = C(g)) /\ Chosen(s, places) = f[len]
  BY DEF Picks, Chosen
<1> HIDE DEF len, none, f
<1>3. step \in Steps(T)
  <2>1. \A p \in Nat \X T : next(p) \in T
    BY <1>1
  <2> HIDE DEF T, next
  <2> QED BY <2>1 DEF Steps
<1>4. PICK g : UnfoldsTo(g, T, none, step, len)
  <2> HIDE DEF step, T
  <2> QED BY <1>1, <1>3, RecursionToLength
<1>5. g \in [0..len -> T] /\ g[0] = none
  BY <1>4 DEF UnfoldsTo
<1>6. ASSUME NEW n \in 1..len
      PROVE  g[n] = IF n \in places THEN Append(g[n - 1], s[n]) ELSE g[n - 1]
  <2>1. n - 1 \in Nat /\ n - 1 \in 0..len /\ (n - 1) + 1 = n
    BY <1>1
  <2>2. g[n] = step[<<n - 1, g[n - 1]>>]
    <3> HIDE DEF step, T
    <3> QED BY <1>4 DEF UnfoldsTo
  <2>3. g[n - 1] \in T
    <3> HIDE DEF T
    <3> QED BY <1>5, <2>1
  <2>4. step[<<n - 1, g[n - 1]>>] = next(<<n - 1, g[n - 1]>>)
    <3> HIDE DEF T
    <3> QED BY <2>1, <2>3
  <2> HIDE DEF step
  <2> QED BY <2>1, <2>2, <2>4
<1>7. g = C(g)
  <2>1. \A n \in 0..len : g[n] = IF n = 0 THEN none
                                 ELSE IF n \in places THEN Append(g[n - 1], s[n]) ELSE g[n - 1]
    <3> SUFFICES ASSUME NEW n \in 0..len
                 PROVE  g[n] = IF n = 0 THEN none
                               ELSE IF n \in places THEN Append(g[n - 1], s[n]) ELSE g[n - 1]
      OBVIOUS
    <3>1. n # 0 => n \in 1..len
      BY <1>1
    <3> QED BY <1>5, <1>6, <3>1
  <2>2. g = [n \in 0..len |-> g[n]]
    BY <1>5
  <2> QED BY <2>1, <2>2
<1>8. f = C(f)
  <2> HIDE DEF C
  <2> QED BY <1>2, <1>7
<1>9. f[0] = none
  <2>1. 0 \in 0..len
    BY <1>1
  <2> QED BY <1>8, <2>1
<1>10. ASSUME NEW n \in 1..len
       PROVE  f[n] = IF n \in places THEN Append(f[n - 1], s[n]) ELSE f[n - 1]
  <2>1. n \in 0..len /\ n # 0
    BY <1>1
  <2> QED BY <1>8, <2>1
<1>11. \A n \in 0..len : f[n] \in T
  <2>1. f[0] \in T
    BY <1>1, <1>9
  <2>2. ASSUME NEW n \in 1..len, f[n - 1] \in T PROVE f[n] \in T
    <3>1. \A t \in T, e \in S : Append(t, e) \in T
      OBVIOUS
    <3>2. s[n] \in S /\ f[n] = IF n \in places THEN Append(f[n - 1], s[n]) ELSE f[n - 1]
      BY <1>1, <1>10
    <3> HIDE DEF T
    <3> QED BY <2>2, <3>1, <3>2
  <2> HIDE DEF T
  <2> QED BY <1>1, <2>1, <2>2, InductionToLength
<1>12. f \in [0..len -> T]
  <2> HIDE DEF T
  <2>1. DOMAIN f = 0..len /\ f = [n \in 0..len |-> f[n]]
    BY <1>8
  <2> QED BY <1>11, <2>1
<1> QED BY <1>2, <1>9, <1>10, <1>12 DEF f, len, none

\* What is chosen is of the same kind.
LEMMA ChosenTyped ==
  ASSUME NEW S, NEW s \in Seq(S), NEW places
  PROVE  Chosen(s, places) \in Seq(S)
<1>1. Len(s) \in 0..Len(s)
  OBVIOUS
<1> QED BY <1>1, PicksUnfold

\* What is chosen is what was at the places.
LEMMA ChosenAt ==
  ASSUME NEW S, NEW s \in Seq(S), NEW places, NEW E, \A i \in 1..Len(s) : i \in places => s[i] \in E
  PROVE  Chosen(s, places) \in Seq(E)
<1> DEFINE len == Len(s)
           T == Seq(E)
           f == Picks(s, places)
<1>1. len \in Nat /\ len \in 0..len /\ <<>> \in T
  OBVIOUS
<1>2. /\ f[0] = <<>> /\ Chosen(s, places) = f[len]
      /\ \A n \in 1..len : f[n] = IF n \in places THEN Append(f[n - 1], s[n]) ELSE f[n - 1]
  BY PicksUnfold
<1>3. \A t \in T : \A e \in E : Append(t, e) \in T
  OBVIOUS
<1> HIDE DEF f
<1>4. ASSUME NEW n \in 1..len, f[n - 1] \in T PROVE f[n] \in T
  <2>1. n \in places => s[n] \in E
    OBVIOUS
  <2>2. f[n] = IF n \in places THEN Append(f[n - 1], s[n]) ELSE f[n - 1]
    BY <1>2
  <2> HIDE DEF T
  <2> QED BY <1>3, <1>4, <2>1, <2>2
<1>5. f[0] \in T
  BY <1>1, <1>2
<1> HIDE DEF T, len
<1>6. \A n \in 0..len : f[n] \in T
  BY <1>1, <1>4, <1>5, InductionToLength
<1>7. f[len] \in T
  BY <1>1, <1>6
<1> QED BY <1>2, <1>7 DEF T

\* What is chosen of a beginning is what was chosen of the whole that far.
LEMMA ChosenIsPick ==
  ASSUME NEW S, NEW s \in Seq(S), NEW m \in 0..Len(s), NEW P, NEW Q,
         \A i \in 1..m : i \in P <=> i \in Q
  PROVE  Chosen(SubSeq(s, 1, m), P) = Picks(s, Q)[m]
<1> DEFINE p == SubSeq(s, 1, m)
           f == Picks(p, P)
           g == Picks(s, Q)
           same == [n \in 0..m |-> f[n] = g[n]]
           yes == {TRUE}
<1>1. p \in Seq(S) /\ Len(p) = m /\ \A n \in 1..m : p[n] = s[n]
  OBVIOUS
<1>2. m \in Nat /\ 0 \in 0..m /\ m \in 0..m /\ \A n \in 1..m : n \in 1..Len(s) /\ n \in 0..m /\ n - 1 \in 0..m
  OBVIOUS
<1> HIDE DEF p
<1>3. f[0] = <<>> /\ Chosen(p, P) = f[m]
      /\ \A n \in 1..m : f[n] = IF n \in P THEN Append(f[n - 1], p[n]) ELSE f[n - 1]
  BY <1>1, PicksUnfold
<1>4. g[0] = <<>> /\ \A n \in 1..Len(s) : g[n] = IF n \in Q THEN Append(g[n - 1], s[n]) ELSE g[n - 1]
  BY PicksUnfold
<1> HIDE DEF f, g
<1>5. same[0] \in yes
  BY <1>2, <1>3, <1>4
<1>6. ASSUME NEW n \in 1..m, same[n - 1] \in yes PROVE same[n] \in yes
  <2>1. f[n - 1] = g[n - 1] /\ n \in 1..Len(s) /\ n \in 0..m
    BY <1>2, <1>6
  <2>2. f[n] = g[n]
    BY <1>1, <1>3, <1>4, <2>1
  <2> QED BY <2>1, <2>2
<1> HIDE DEF same, yes
<1>7. \A n \in 0..m : same[n] \in yes
  BY <1>2, <1>5, <1>6, InductionToLength
<1>8. same[m] \in yes
  BY <1>2, <1>7
<1>9. f[m] = g[m]
  BY <1>2, <1>8 DEF same, yes
<1> QED BY <1>3, <1>9 DEF p, f, g

\* A sequence begins with another one.
Begins(s, t) == Len(s) <= Len(t) /\ \A k \in 1..Len(s) : s[k] = t[k]

\* The more places there are to choose from, the more is chosen after the same.
LEMMA PicksGrow ==
  ASSUME NEW S, NEW s \in Seq(S), NEW places, NEW a \in 0..Len(s), NEW b \in 0..Len(s), a <= b
  PROVE  Begins(Picks(s, places)[a], Picks(s, places)[b])
<1> DEFINE len == Len(s)
           f == Picks(s, places)
           grows == [n \in 0..len |-> a <= n => Begins(f[a], f[n])]
           yes == {TRUE}
<1>1. len \in Nat /\ 0 \in 0..len /\ \A n \in 1..len : n \in 0..len /\ n - 1 \in 0..len
  OBVIOUS
<1>2. /\ \A n \in 0..len : f[n] \in Seq(S)
      /\ \A n \in 1..len : f[n] = IF n \in places THEN Append(f[n - 1], s[n]) ELSE f[n - 1]
      /\ \A n \in 1..len : s[n] \in S
  <2>1. \A n \in 1..len : s[n] \in S
    OBVIOUS
  <2>2. /\ f \in [0..len -> Seq(S)]
        /\ \A n \in 1..len : f[n] = IF n \in places THEN Append(f[n - 1], s[n]) ELSE f[n - 1]
    BY PicksUnfold
  <2> HIDE DEF f, len
  <2> QED BY <2>1, <2>2
<1> HIDE DEF f, len
<1>3. a \in 0..len /\ b \in 0..len
  BY DEF len
<1>4. Begins(f[a], f[a])
  BY <1>2, <1>3 DEF Begins
<1>5. grows[0] \in yes
  <2>1. a <= 0 => a = 0
    BY <1>3
  <2> QED BY <1>1, <1>4, <2>1
<1>6. ASSUME NEW n \in 1..len, grows[n - 1] \in yes PROVE grows[n] \in yes
  <2>1. n \in 0..len /\ n - 1 \in 0..len
    BY <1>1
  <2>2. a <= n - 1 => Begins(f[a], f[n - 1])
    BY <1>6, <2>1
  <2>3. ASSUME a <= n PROVE Begins(f[a], f[n])
    <3>1. CASE a = n
      BY <1>4, <3>1, Zenon
    <3>2. CASE a # n
      <4>1. Begins(f[a], f[n - 1])
        <5>1. a <= n - 1
          BY <1>3, <2>1, <2>3, <3>2
        <5> QED BY <2>2, <5>1, Zenon
      <4>2. f[n] = f[n - 1] \/ f[n] = Append(f[n - 1], s[n])
        BY <1>2
      <4>3. f[n - 1] \in Seq(S) /\ f[a] \in Seq(S) /\ s[n] \in S
        BY <1>2, <1>3, <2>1
      <4>4. CASE f[n] = f[n - 1]
        BY <4>1, <4>4, Zenon
      <4>5. CASE f[n] = Append(f[n - 1], s[n])
        <5>1. Len(f[n]) = Len(f[n - 1]) + 1 /\ \A k \in 1..Len(f[n - 1]) : f[n][k] = f[n - 1][k]
          BY <4>3, <4>5
        <5>2. Len(f[n - 1]) \in Nat /\ Len(f[a]) \in Nat
          BY <4>3
        <5>3. Len(f[a]) <= Len(f[n - 1]) /\ \A k \in 1..Len(f[a]) : f[a][k] = f[n - 1][k]
          BY <4>1, Zenon DEF Begins
        <5>4. Len(f[a]) <= Len(f[n])
          BY <5>1, <5>2, <5>3
        <5>5. \A k \in 1..Len(f[a]) : k \in 1..Len(f[n - 1])
          BY <5>2, <5>3
        <5>6. \A k \in 1..Len(f[a]) : f[a][k] = f[n][k]
          BY <5>1, <5>3, <5>5, Zenon
        <5> QED BY <5>4, <5>6, Zenon DEF Begins
      <4> QED BY <4>2, <4>4, <4>5, Zenon
    <3> QED BY <3>1, <3>2, Zenon
  <2> QED BY <2>1, <2>3
<1> HIDE DEF grows, yes
<1>7. \A n \in 0..len : grows[n] \in yes
  BY <1>1, <1>5, <1>6, InductionToLength
<1>8. grows[b] \in yes
  BY <1>3, <1>7
<1> QED BY <1>3, <1>8 DEF grows, yes, f

\* So what is chosen of a beginning begins that of the whole.
LEMMA ChosenBegins ==
  ASSUME NEW S, NEW s \in Seq(S), NEW m \in 0..Len(s), NEW P, NEW Q,
         \A i \in 1..m : i \in P <=> i \in Q
  PROVE  Begins(Chosen(SubSeq(s, 1, m), P), Chosen(s, Q))
<1>1. Len(s) \in 0..Len(s) /\ m <= Len(s)
  OBVIOUS
<1>2. Chosen(SubSeq(s, 1, m), P) = Picks(s, Q)[m]
  BY ChosenIsPick
<1>3. Chosen(s, Q) = Picks(s, Q)[Len(s)]
  BY PicksUnfold
<1> QED BY <1>1, <1>2, <1>3, PicksGrow

\* What lies between two bounds adds up to what lies between their multiples.
LEMMA TotalBetween ==
  ASSUME NEW w \in Seq(Nat), NEW lo \in Int, NEW hi \in Int,
         \A i \in 1..Len(w) : lo <= w[i] /\ w[i] <= hi
  PROVE  /\ Total(w) \in Nat
         /\ lo * Len(w) <= Total(w) /\ Total(w) <= hi * Len(w)
<1> DEFINE len == Len(w)
           f == Sums(w)
           bounded(n) == lo * n <= f[n] /\ f[n] <= hi * n
           right == {n \in 0..len : bounded(n)}
<1>1. len \in Nat /\ len \in 0..len
  OBVIOUS
<1>2. f \in [0..len -> Nat] /\ f[0] = 0 /\ \A n \in 1..len : f[n] = f[n - 1] + w[n]
  BY SumsUnfold
<1>3. Total(w) = f[len]
  <2>1. SubSeq(w, 1, len) = w
    OBVIOUS
  <2> QED BY <1>1, <2>1, TotalIsSum
<1>4. \A n \in 1..len : w[n] \in Nat /\ lo <= w[n] /\ w[n] <= hi
  OBVIOUS
<1> HIDE DEF f, len
<1>5. \A a \in Int : a * 0 = 0
  OBVIOUS
<1>6. \A a \in Int, n \in Int : a * n = a * (n - 1) + a
  OBVIOUS
<1>7. bounded(0)
  BY <1>2, <1>5
<1>8. 0 \in right
  <2> HIDE DEF bounded
  <2> QED BY <1>1, <1>7
<1>9. ASSUME NEW n \in 1..len, n - 1 \in right PROVE n \in right
  <2>1. n \in Int /\ n - 1 \in 0..len /\ n \in 0..len
    BY <1>1
  <2>2. bounded(n - 1)
    <3> HIDE DEF bounded
    <3> QED BY <1>9, <2>1
  <2>3. f[n] = f[n - 1] + w[n] /\ f[n - 1] \in Nat /\ w[n] \in Nat /\ lo <= w[n] /\ w[n] <= hi
    BY <1>2, <1>4, <2>1
  <2>4. lo * n = lo * (n - 1) + lo /\ hi * n = hi * (n - 1) + hi
    BY <1>6, <2>1
  <2>5. lo * (n - 1) \in Int /\ hi * (n - 1) \in Int
    BY <2>1
  <2>6. bounded(n)
    BY <2>2, <2>3, <2>4, <2>5, SMTT(20), ZenonT(20)
  <2> HIDE DEF bounded
  <2> QED BY <2>1, <2>6
<1> HIDE DEF right, bounded
<1>10. \A n \in 0..len : n \in right
  BY <1>1, <1>8, <1>9, InductionUpTo
<1>11. bounded(len)
  BY <1>1, <1>10 DEF right
<1> QED BY <1>1, <1>2, <1>3, <1>11 DEF bounded, len

\* Numbers of which some are larger by the same, and their total.
Raised(w, S, d) == [i \in DOMAIN w |-> IF i \in S THEN w[i] + d ELSE w[i]]

LEMMA TotalOfRaised ==
  ASSUME NEW w \in Seq(Nat), NEW S, NEW d \in Nat
  PROVE  /\ Cardinality(S \cap (1..Len(w))) \in Nat
         /\ Total(Raised(w, S, d)) = Total(w) + d * Cardinality(S \cap (1..Len(w)))
<1> DEFINE u == Raised(w, S, d)
<1>0. u \in Seq(Nat) /\ Len(u) = Len(w) /\ \A i \in 1..Len(w) : u[i] = IF i \in S THEN w[i] + d ELSE w[i]
  <2>1. Len(w) \in Nat /\ DOMAIN w = 1..Len(w) /\ \A i \in 1..Len(w) : w[i] \in Nat
    OBVIOUS
  <2>2. u \in [1..Len(w) -> Nat] /\ \A i \in 1..Len(w) : u[i] = IF i \in S THEN w[i] + d ELSE w[i]
    BY <2>1 DEF Raised
  <2> HIDE DEF u
  <2>3. \A n \in Nat : \A t \in [1..n -> Nat] : t \in Seq(Nat) /\ Len(t) = n
    OBVIOUS
  <2> QED BY <2>1, <2>2, <2>3
<1> HIDE DEF u
<1> DEFINE len == Len(w)
           f == Sums(w)
           g == Sums(u)
           upTo(n) == S \cap (1..n)
           size(n) == Cardinality(upTo(n))
           apart(n) == g[n] = f[n] + d * size(n)
           right == {n \in 0..len : apart(n)}
<1>1. len \in Nat /\ len \in 0..len
  OBVIOUS
<1>2. f \in [0..len -> Nat] /\ f[0] = 0 /\ \A n \in 1..len : f[n] = f[n - 1] + w[n]
  BY SumsUnfold
<1>3. g \in [0..len -> Nat] /\ g[0] = 0 /\ \A n \in 1..len : g[n] = g[n - 1] + u[n]
  BY <1>0, SumsUnfold
<1>4. Total(w) = f[len] /\ Total(u) = g[len]
  <2>1. SubSeq(w, 1, len) = w /\ SubSeq(u, 1, len) = u
    BY <1>0
  <2> QED BY <1>0, <1>1, <2>1, TotalIsSum
<1>5. \A n \in 1..len : w[n] \in Nat /\ u[n] = IF n \in S THEN w[n] + d ELSE w[n]
  BY <1>0
<1> HIDE DEF f, g, len
<1>6. \A n \in Nat : IsFiniteSet(upTo(n)) /\ size(n) \in Nat
  <2> SUFFICES ASSUME NEW n \in Nat PROVE IsFiniteSet(upTo(n)) /\ size(n) \in Nat
    OBVIOUS
  <2>1. IsFiniteSet(1..n)
    BY FS_Interval
  <2>2. IsFiniteSet(upTo(n))
    BY <2>1, FS_Subset
  <2> QED BY <2>2, FS_CardinalityType
<1>7. 0 \in right
  <2>1. upTo(0) = {}
    OBVIOUS
  <2>2. size(0) = 0
    BY <2>1, FS_EmptySet
  <2> HIDE DEF size
  <2>3. apart(0) /\ 0 \in 0..len
    BY <1>1, <1>2, <1>3, <2>2
  <2> HIDE DEF apart
  <2> QED BY <2>3
<1>8. ASSUME NEW n \in 1..len, n - 1 \in right PROVE n \in right
  <2>1. n \in Nat /\ n - 1 \in Nat /\ n - 1 \in 0..len /\ n \in 0..len
    BY <1>1
  <2>2. apart(n - 1)
    <3> HIDE DEF apart
    <3> QED BY <1>8
  <2>3. size(n) = IF n \in S THEN size(n - 1) + 1 ELSE size(n - 1)
    <3>1. CASE n \in S
      <4>1. upTo(n) = upTo(n - 1) \cup {n} /\ n \notin upTo(n - 1)
        BY <2>1, <3>1
      <4>2. IsFiniteSet(upTo(n - 1))
        BY <1>6, <2>1
      <4> HIDE DEF upTo
      <4>3. size(n) = size(n - 1) + 1
        BY <4>1, <4>2, FS_AddElement
      <4> QED BY <3>1, <4>3
    <3>2. CASE n \notin S
      <4>1. upTo(n) = upTo(n - 1)
        BY <2>1, <3>2
      <4> QED BY <3>2, <4>1
    <3> QED BY <3>1, <3>2
  <2>4. size(n - 1) \in Nat
    BY <1>6, <2>1
  <2> DEFINE c == size(n - 1)
  <2>5. size(n) = IF n \in S THEN c + 1 ELSE c
    BY <2>3
  <2>6. c \in Nat /\ g[n - 1] = f[n - 1] + d * c
    BY <2>2, <2>4
  <2> HIDE DEF c
  <2>7. d * (c + 1) = d * c + d /\ d * c \in Nat
    BY <2>6
  <2>8. /\ f[n] = f[n - 1] + w[n] /\ g[n] = g[n - 1] + u[n] /\ f[n - 1] \in Nat /\ w[n] \in Nat
        /\ u[n] = IF n \in S THEN w[n] + d ELSE w[n]
    BY <1>2, <1>3, <1>5, <2>1
  <2> HIDE DEF size
  <2>9. apart(n)
    <3>1. CASE n \in S
      <4>1. size(n) = c + 1 /\ u[n] = w[n] + d
        BY <2>5, <2>8, <3>1
      <4>2. g[n] = f[n] + (d * c + d)
        <5> DEFINE product == d * c
        <5>1. product \in Nat /\ g[n - 1] = f[n - 1] + product
          BY <2>6, <2>7
        <5> HIDE DEF product
        <5>2. g[n] = f[n] + (product + d)
          BY <2>8, <4>1, <5>1
        <5> QED BY <5>2 DEF product
      <4>3. d * size(n) = d * c + d
        BY <2>7, <4>1
      <4> QED BY <4>2, <4>3
    <3>2. CASE n \notin S
      <4>1. size(n) = c /\ u[n] = w[n]
        BY <2>5, <2>8, <3>2
      <4>2. g[n] = f[n] + d * c
        <5> DEFINE product == d * c
        <5>1. product \in Nat /\ g[n - 1] = f[n - 1] + product
          BY <2>6, <2>7
        <5> HIDE DEF product
        <5>2. g[n] = f[n] + product
          BY <2>8, <4>1, <5>1
        <5> QED BY <5>2 DEF product
      <4> QED BY <4>1, <4>2
    <3> QED BY <3>1, <3>2
  <2> HIDE DEF apart
  <2> QED BY <2>1, <2>9
<1> HIDE DEF right
<1>9. \A n \in 0..len : n \in right
  BY <1>1, <1>7, <1>8, InductionUpTo
<1>10. apart(len)
  BY <1>1, <1>9 DEF right
<1>11. Total(u) \in Nat /\ Total(w) \in Nat /\ size(len) \in Nat
  BY <1>1, <1>2, <1>3, <1>4, <1>6
<1> HIDE DEF upTo
<1>12. Total(u) = Total(w) + d * size(len)
  BY <1>4, <1>10
<1> QED BY <1>11, <1>12 DEF u, upTo, len

\* Totals of sums.
LEMMA TotalsAdd ==
  ASSUME NEW u \in Seq(Nat), NEW v \in Seq(Nat), NEW w \in Seq(Nat), Len(u) = Len(w), Len(v) = Len(w),
         \A i \in 1..Len(w) : u[i] = v[i] + w[i]
  PROVE  /\ Total(u) \in Nat /\ Total(v) \in Nat /\ Total(w) \in Nat
         /\ Total(u) = Total(v) + Total(w)
<1> DEFINE len == Len(w)
           f == Sums(w)
           g == Sums(u)
           h == Sums(v)
           sum(n) == g[n] = h[n] + f[n]
           right == {n \in 0..len : sum(n)}
<1>1. len \in Nat /\ len \in 0..len
  OBVIOUS
<1>2. f \in [0..len -> Nat] /\ f[0] = 0 /\ \A n \in 1..len : f[n] = f[n - 1] + w[n]
  BY SumsUnfold
<1>3. g \in [0..len -> Nat] /\ g[0] = 0 /\ \A n \in 1..len : g[n] = g[n - 1] + u[n]
  BY SumsUnfold
<1>4. h \in [0..len -> Nat] /\ h[0] = 0 /\ \A n \in 1..len : h[n] = h[n - 1] + v[n]
  BY SumsUnfold
<1>5. Total(w) = f[len] /\ Total(u) = g[len] /\ Total(v) = h[len]
  <2>1. SubSeq(w, 1, len) = w /\ SubSeq(u, 1, len) = u /\ SubSeq(v, 1, len) = v
    OBVIOUS
  <2> QED BY <1>1, <2>1, TotalIsSum
<1>6. \A n \in 1..len : w[n] \in Nat /\ v[n] \in Nat /\ u[n] = v[n] + w[n]
  OBVIOUS
<1> HIDE DEF f, g, h, len
<1>7. 0 \in right
  BY <1>1, <1>2, <1>3, <1>4
<1>8. ASSUME NEW n \in 1..len, n - 1 \in right PROVE n \in right
  <2>1. n - 1 \in 0..len /\ n \in 0..len
    BY <1>1
  <2>2. sum(n - 1)
    BY <1>8
  <2>3. f[n - 1] \in Nat /\ h[n - 1] \in Nat /\ v[n] \in Nat /\ w[n] \in Nat
    BY <1>2, <1>4, <1>6, <2>1
  <2>4. /\ f[n] = f[n - 1] + w[n]
        /\ g[n] = g[n - 1] + u[n]
        /\ h[n] = h[n - 1] + v[n]
        /\ u[n] = v[n] + w[n]
    BY <1>2, <1>3, <1>4, <1>6
  <2>5. sum(n)
    <3>1. g[n] = (h[n - 1] + f[n - 1]) + (v[n] + w[n])
      <4>1. g[n - 1] = h[n - 1] + f[n - 1]
        BY <2>2, Zenon
      <4> QED BY <2>4, <4>1, Zenon
    <3>2. g[n] = (h[n - 1] + v[n]) + (f[n - 1] + w[n])
      <4>1. (h[n - 1] + f[n - 1]) + (v[n] + w[n]) = (h[n - 1] + v[n]) + (f[n - 1] + w[n])
        <5> DEFINE a == h[n - 1]
                   b == f[n - 1]
                   c == v[n]
                   d == w[n]
        <5>1. a \in Nat /\ b \in Nat /\ c \in Nat /\ d \in Nat
          BY <2>3
        <5> HIDE DEF a, b, c, d
        <5>2. (a + b) + (c + d) = (a + c) + (b + d)
          BY <5>1
        <5> QED BY <5>2, Zenon DEF a, b, c, d
      <4> QED BY <3>1, <4>1, Zenon
    <3> QED BY <2>4, <3>2, Zenon
  <2> HIDE DEF sum
  <2> QED BY <2>1, <2>5
<1> HIDE DEF right
<1>9. \A n \in 0..len : n \in right
  BY <1>1, <1>7, <1>8, InductionUpTo
<1>10. sum(len)
  BY <1>1, <1>9 DEF right
<1> QED BY <1>1, <1>2, <1>3, <1>4, <1>5, <1>10

\* Totals of numbers that are not less.
LEMMA TotalsOrdered ==
  ASSUME NEW v \in Seq(Nat), NEW w \in Seq(Nat), Len(v) = Len(w), \A i \in 1..Len(w) : v[i] <= w[i]
  PROVE  Total(v) \in Nat /\ Total(w) \in Nat /\ Total(v) <= Total(w)
<1> DEFINE more == [i \in 1..Len(w) |-> w[i] - v[i]]
<1>1. \A i \in 1..Len(w) : w[i] - v[i] \in Nat /\ w[i] \in Nat /\ v[i] \in Nat
  OBVIOUS
<1>2. more \in Seq(Nat) /\ Len(more) = Len(w) /\ \A i \in 1..Len(w) : more[i] = w[i] - v[i]
  <2>1. Len(w) \in Nat
    OBVIOUS
  <2>2. more \in [1..Len(w) -> Nat] /\ \A i \in 1..Len(w) : more[i] = w[i] - v[i]
    BY <1>1
  <2> HIDE DEF more
  <2>3. \A n \in Nat : \A t \in [1..n -> Nat] : t \in Seq(Nat) /\ Len(t) = n
    OBVIOUS
  <2> QED BY <2>1, <2>2, <2>3
<1> HIDE DEF more
<1>3. \A i \in 1..Len(w) : w[i] = more[i] + v[i]
  <2> SUFFICES ASSUME NEW i \in 1..Len(w) PROVE w[i] = more[i] + v[i]
    OBVIOUS
  <2>1. w[i] \in Nat /\ v[i] \in Nat /\ more[i] = w[i] - v[i]
    BY <1>1, <1>2
  <2> QED BY <2>1
<1>4. Total(w) \in Nat /\ Total(more) \in Nat /\ Total(v) \in Nat /\ Total(w) = Total(more) + Total(v)
  BY <1>2, <1>3, TotalsAdd
<1> QED BY <1>4

\* The total of two sequences together.
LEMMA TotalOfJoined ==
  ASSUME NEW s \in Seq(Nat), NEW t \in Seq(Nat)
  PROVE  Total(s \o t) = Total(s) + Total(t)
<1> DEFINE w == s \o t
           m == Len(s)
           len == Len(t)
           f == Sums(w)
           g == Sums(t)
           joined(n) == f[m + n] = f[m] + g[n]
           right == {n \in 0..len : joined(n)}
<1>1. /\ w \in Seq(Nat) /\ m \in Nat /\ len \in Nat /\ Len(w) = m + len /\ 0 \in 0..len /\ len \in 0..len
      /\ \A n \in 1..len : w[m + n] = t[n]
  OBVIOUS
<1>2. SubSeq(w, 1, m) = s /\ SubSeq(w, 1, m + len) = w /\ SubSeq(t, 1, len) = t
  OBVIOUS
<1>3. \A n \in 1..len : t[n] \in Nat
  OBVIOUS
<1>4. g \in [0..len -> Nat] /\ g[0] = 0 /\ \A n \in 1..len : g[n] = g[n - 1] + t[n]
  BY SumsUnfold
<1>5. Total(t) = g[len]
  BY <1>1, <1>2, TotalIsSum
<1> HIDE DEF w
<1>6. f \in [0..m + len -> Nat] /\ \A n \in 1..m + len : f[n] = f[n - 1] + w[n]
  BY <1>1, SumsUnfold
<1>7. m \in 0..Len(w) /\ m + len \in 0..Len(w)
  BY <1>1
<1>8. Total(s) = f[m] /\ Total(w) = f[m + len]
  BY <1>1, <1>2, <1>7, TotalIsSum
<1> HIDE DEF m, len, f, g
<1>9. 0 \in right
  <2>1. f[m] \in Nat /\ m + 0 = m
    BY <1>1, <1>6, <1>7
  <2> QED BY <1>1, <1>4, <2>1
<1>10. ASSUME NEW n \in 1..len, n - 1 \in right PROVE n \in right
  <2>1. n \in Nat /\ n - 1 \in 0..len /\ n \in 0..len /\ m + n \in 1..m + len /\ (m + n) - 1 = m + (n - 1)
    BY <1>1
  <2>2. f[m + (n - 1)] = f[m] + g[n - 1]
    BY <1>10
  <2>3. f[m + n] = f[m + (n - 1)] + t[n]
    BY <1>1, <1>6, <2>1
  <2>4. g[n] = g[n - 1] + t[n] /\ g[n - 1] \in Nat /\ t[n] \in Nat /\ f[m] \in Nat
    BY <1>1, <1>3, <1>4, <1>6, <1>7, <2>1
  <2>5. joined(n)
    BY <2>2, <2>3, <2>4
  <2> HIDE DEF joined
  <2> QED BY <2>1, <2>5
<1> HIDE DEF right
<1>11. \A n \in 0..len : n \in right
  BY <1>1, <1>9, <1>10, InductionUpTo
<1>12. joined(len)
  BY <1>1, <1>11 DEF right
<1> QED BY <1>5, <1>8, <1>12 DEF w

\* As many are chosen as there are places.
LEMMA ChosenCount ==
  ASSUME NEW S, NEW s \in Seq(S), NEW places
  PROVE  Len(Chosen(s, places)) = Cardinality(places \cap (1..Len(s)))
<1> DEFINE len == Len(s)
           f == Picks(s, places)
           upTo(n) == places \cap (1..n)
           right == {n \in 0..len : Len(f[n]) = Cardinality(upTo(n))}
<1>1. len \in Nat /\ len \in 0..len
  OBVIOUS
<1>2. /\ f \in [0..len -> Seq(S)] /\ f[0] = <<>> /\ Chosen(s, places) = f[len]
      /\ \A n \in 1..len : f[n] = IF n \in places THEN Append(f[n - 1], s[n]) ELSE f[n - 1]
  BY PicksUnfold
<1>3. \A n \in 1..len : s[n] \in S
  OBVIOUS
<1> HIDE DEF f, len
<1>4. \A n \in Nat : IsFiniteSet(upTo(n)) /\ Cardinality(upTo(n)) \in Nat
  <2> SUFFICES ASSUME NEW n \in Nat PROVE IsFiniteSet(upTo(n)) /\ Cardinality(upTo(n)) \in Nat
    OBVIOUS
  <2>1. IsFiniteSet(1..n)
    BY FS_Interval
  <2>2. IsFiniteSet(upTo(n))
    BY <2>1, FS_Subset
  <2> QED BY <2>2, FS_CardinalityType
<1>5. 0 \in right
  <2>1. upTo(0) = {}
    OBVIOUS
  <2>2. Cardinality(upTo(0)) = 0
    BY <2>1, FS_EmptySet
  <2>3. Len(f[0]) = 0
    BY <1>2
  <2>4. 0 \in 0..len
    BY <1>1
  <2> HIDE DEF upTo
  <2> QED BY <2>2, <2>3, <2>4
<1>6. ASSUME NEW n \in 1..len, n - 1 \in right PROVE n \in right
  <2>1. n \in Nat /\ n - 1 \in Nat /\ n - 1 \in 0..len /\ n \in 0..len
    BY <1>1
  <2>2. Len(f[n - 1]) = Cardinality(upTo(n - 1)) /\ f[n - 1] \in Seq(S)
    <3> HIDE DEF upTo
    <3> QED BY <1>2, <1>6, <2>1
  <2>3. CASE n \in places
    <3>1. upTo(n) = upTo(n - 1) \cup {n} /\ n \notin upTo(n - 1)
      BY <2>1, <2>3
    <3>2. Cardinality(upTo(n)) = Cardinality(upTo(n - 1)) + 1
      <4> HIDE DEF upTo
      <4> QED BY <1>4, <2>1, <3>1, FS_AddElement
    <3>3. Len(f[n]) = Len(f[n - 1]) + 1
      <4>1. \A q \in Seq(S), x \in S : Len(Append(q, x)) = Len(q) + 1
        OBVIOUS
      <4>2. f[n] = Append(f[n - 1], s[n]) /\ s[n] \in S
        BY <1>2, <1>3, <2>3
      <4> QED BY <2>2, <4>1, <4>2
    <3>4. Len(f[n]) = Cardinality(upTo(n))
      <4> HIDE DEF upTo
      <4> QED BY <2>2, <3>2, <3>3
    <3> HIDE DEF upTo
    <3> QED BY <2>1, <3>4
  <2>4. CASE n \notin places
    <3>1. upTo(n) = upTo(n - 1)
      BY <2>1, <2>4
    <3>2. f[n] = f[n - 1]
      BY <1>2, <2>4
    <3>3. Len(f[n]) = Cardinality(upTo(n))
      <4> HIDE DEF upTo
      <4> QED BY <2>2, <3>1, <3>2
    <3> HIDE DEF upTo
    <3> QED BY <2>1, <3>3
  <2> QED BY <2>3, <2>4
<1> HIDE DEF right
<1>7. \A n \in 0..len : n \in right
  BY <1>1, <1>5, <1>6, InductionUpTo
<1>8. Len(f[len]) = Cardinality(upTo(len))
  <2>1. len \in right
    BY <1>1, <1>7
  <2> HIDE DEF upTo
  <2> QED BY <1>1, <2>1 DEF right
<1> QED BY <1>2, <1>8 DEF len

\* What is chosen comes from places in their order, and all of them are chosen.
LEMMA ChosenPlaces ==
  ASSUME NEW S, NEW s \in Seq(S), NEW places
  PROVE  \E f \in [1..Len(Chosen(s, places)) -> 1..Len(s)] :
           /\ \A a, b \in 1..Len(Chosen(s, places)) : a < b => f[a] < f[b]
           /\ \A a \in 1..Len(Chosen(s, places)) : f[a] \in places /\ Chosen(s, places)[a] = s[f[a]]
           /\ \A i \in 1..Len(s) : i \in places => \E a \in 1..Len(Chosen(s, places)) : f[a] = i
<1> DEFINE len == Len(s)
           g == Picks(s, places)
           from(f, n) ==
             /\ \A a, b \in 1..Len(g[n]) : a < b => f[a] < f[b]
             /\ \A a \in 1..Len(g[n]) : f[a] \in places /\ g[n][a] = s[f[a]]
             /\ \A i \in 1..n : i \in places => \E a \in 1..Len(g[n]) : f[a] = i
           found(n) == \E f \in [1..Len(g[n]) -> 1..n] : from(f, n)
           right == {n \in 0..len : found(n)}
<1>1. len \in Nat /\ len \in 0..len
  OBVIOUS
<1>2. /\ g \in [0..len -> Seq(S)] /\ g[0] = <<>> /\ Chosen(s, places) = g[len]
      /\ \A n \in 1..len : g[n] = IF n \in places THEN Append(g[n - 1], s[n]) ELSE g[n - 1]
  BY PicksUnfold
<1>3. \A n \in 1..len : s[n] \in S
  OBVIOUS
<1> HIDE DEF g, len
<1>4. 0 \in right
  <2>1. Len(g[0]) = 0 /\ 0 \in 0..len
    <3>1. g[0] = <<>>
      BY <1>2
    <3> QED BY <1>1, <3>1
  <2>2. 1..0 = {}
    OBVIOUS
  <2> DEFINE none == [a \in {} |-> 0]
  <2>3. none \in [1..Len(g[0]) -> 1..0]
    BY <2>1, <2>2
  <2>4. from(none, 0)
    <3> HIDE DEF none
    <3> QED BY <2>1, <2>2
  <2>5. found(0)
    <3> HIDE DEF none, from
    <3> QED BY <2>3, <2>4
  <2> HIDE DEF found
  <2> QED BY <2>1, <2>5
<1>5. ASSUME NEW n \in 1..len, n - 1 \in right PROVE n \in right
  <2>1. n \in Nat /\ n - 1 \in Nat /\ n - 1 \in 0..len /\ n \in 0..len
    BY <1>1
  <2>2. found(n - 1)
    <3> HIDE DEF found
    <3> QED BY <1>5
  <2>3. PICK f \in [1..Len(g[n - 1]) -> 1..n - 1] : from(f, n - 1)
    BY <2>2
  <2> DEFINE m == Len(g[n - 1])
  <2>4. g[n - 1] \in Seq(S) /\ m \in Nat
    BY <1>2, <2>1
  <2>5. CASE n \in places
    <3> DEFINE h == [a \in 1..m + 1 |-> IF a = m + 1 THEN n ELSE f[a]]
    <3>1. g[n] = Append(g[n - 1], s[n]) /\ s[n] \in S
      BY <1>2, <1>3, <2>5
    <3>2. Len(g[n]) = m + 1 /\ g[n][m + 1] = s[n] /\ \A a \in 1..m : g[n][a] = g[n - 1][a]
      BY <2>4, <3>1
    <3>3. /\ \A a, b \in 1..m : a < b => f[a] < f[b]
          /\ \A a \in 1..m : f[a] \in places /\ g[n - 1][a] = s[f[a]] /\ f[a] \in 1..n - 1
          /\ \A i \in 1..n - 1 : i \in places => \E a \in 1..m : f[a] = i
      BY <2>3
    <3> HIDE DEF m
    <3>4. h[m + 1] = n /\ \A a \in 1..m : h[a] = f[a] /\ a \in 1..m + 1
      BY <2>4
    <3>5. \A a \in 1..m + 1 : a = m + 1 \/ a \in 1..m
      BY <2>4
    <3>6. \A i \in 1..n - 1 : i < n /\ i \in 1..n
      BY <2>1
    <3>7. h \in [1..m + 1 -> 1..n]
      <4>1. \A a \in 1..m + 1 : h[a] \in 1..n
        BY <2>1, <3>3, <3>4, <3>5, <3>6
      <4> QED BY <4>1
    <3> HIDE DEF h
    <3>8. \A a, b \in 1..m + 1 : a < b => h[a] < h[b]
      <4> SUFFICES ASSUME NEW a \in 1..m + 1, NEW b \in 1..m + 1, a < b PROVE h[a] < h[b]
        OBVIOUS
      <4>1. a \in 1..m /\ h[a] = f[a] /\ f[a] \in 1..n - 1
        BY <2>4, <3>3, <3>4
      <4>2. CASE b = m + 1
        BY <3>4, <3>6, <4>1, <4>2
      <4>3. CASE b \in 1..m
        BY <3>3, <3>4, <4>1, <4>3
      <4> QED BY <3>5, <4>2, <4>3
    <3>9. \A a \in 1..m + 1 : h[a] \in places /\ g[n][a] = s[h[a]]
      BY <2>5, <3>2, <3>3, <3>4, <3>5
    <3>10. \A i \in 1..n : i \in places => \E a \in 1..m + 1 : h[a] = i
      <4> SUFFICES ASSUME NEW i \in 1..n, i \in places PROVE \E a \in 1..m + 1 : h[a] = i
        OBVIOUS
      <4>1. i = n \/ i \in 1..n - 1
        BY <2>1
      <4>2. m + 1 \in 1..m + 1
        BY <2>4
      <4> QED BY <3>3, <3>4, <4>1, <4>2
    <3>11. from(h, n) /\ h \in [1..Len(g[n]) -> 1..n]
      BY <3>2, <3>7, <3>8, <3>9, <3>10
    <3> HIDE DEF from
    <3>12. found(n)
      BY <3>11
    <3> HIDE DEF found
    <3> QED BY <2>1, <3>12
  <2>6. CASE n \notin places
    <3>1. g[n] = g[n - 1]
      BY <1>2, <2>6
    <3>2. \A i \in 1..n : i \in places => i \in 1..n - 1
      BY <2>1, <2>6
    <3>3. from(f, n)
      BY <2>3, <3>1, <3>2
    <3>4. f \in [1..Len(g[n]) -> 1..n]
      <4>1. \A i \in 1..n - 1 : i \in 1..n
        BY <2>1
      <4> QED BY <2>3, <3>1, <4>1
    <3> HIDE DEF from
    <3>5. found(n)
      BY <3>3, <3>4
    <3> HIDE DEF found
    <3> QED BY <2>1, <3>5
  <2> QED BY <2>5, <2>6
<1> HIDE DEF right
<1>6. \A n \in 0..len : n \in right
  BY <1>1, <1>4, <1>5, InductionUpTo
<1>7. found(len)
  <2> HIDE DEF found
  <2> QED BY <1>1, <1>6 DEF right
<1>8. PICK f \in [1..Len(g[len]) -> 1..len] : from(f, len)
  BY <1>7
<1> DEFINE chosen == Chosen(s, places)
<1>9. chosen = g[len]
  BY <1>2
<1> HIDE DEF chosen
<1>10. /\ f \in [1..Len(chosen) -> 1..len]
       /\ \A a, b \in 1..Len(chosen) : a < b => f[a] < f[b]
       /\ \A a \in 1..Len(chosen) : f[a] \in places /\ chosen[a] = s[f[a]]
       /\ \A i \in 1..len : i \in places => \E a \in 1..Len(chosen) : f[a] = i
  BY <1>8, <1>9
<1> QED BY <1>10 DEF len, chosen

\* What is chosen at all places is the sequence itself.
LEMMA ChosenWhole ==
  ASSUME NEW S, NEW s \in Seq(S), NEW places, \A i \in 1..Len(s) : i \in places
  PROVE  Chosen(s, places) = s
<1> DEFINE len == Len(s)
           g == Picks(s, places)
           same(n) == Len(g[n]) = n /\ \A i \in 1..n : g[n][i] = s[i]
           right == {n \in 0..len : same(n)}
<1>1. len \in Nat /\ len \in 0..len
  OBVIOUS
<1>2. /\ g \in [0..len -> Seq(S)] /\ g[0] = <<>> /\ Chosen(s, places) = g[len]
      /\ \A n \in 1..len : g[n] = IF n \in places THEN Append(g[n - 1], s[n]) ELSE g[n - 1]
  BY PicksUnfold
<1>3. \A n \in 1..len : s[n] \in S /\ n \in places
  OBVIOUS
<1> HIDE DEF g, len
<1>4. 0 \in right
  <2>1. same(0) /\ 0 \in 0..len
    BY <1>1, <1>2
  <2> HIDE DEF same
  <2> QED BY <2>1
<1>5. ASSUME NEW n \in 1..len, n - 1 \in right PROVE n \in right
  <2>1. n \in Nat /\ n - 1 \in Nat /\ n - 1 \in 0..len /\ n \in 0..len
    BY <1>1
  <2>2. same(n - 1)
    <3> HIDE DEF same
    <3> QED BY <1>5
  <2>3. g[n] = Append(g[n - 1], s[n]) /\ s[n] \in S /\ g[n - 1] \in Seq(S)
    BY <1>2, <1>3, <2>1
  <2>4. Len(g[n]) = n /\ g[n][n] = s[n] /\ \A i \in 1..n - 1 : g[n][i] = g[n - 1][i]
    BY <2>1, <2>2, <2>3
  <2>5. \A i \in 1..n : i = n \/ i \in 1..n - 1
    BY <2>1
  <2>6. same(n)
    BY <2>2, <2>4, <2>5
  <2> HIDE DEF same
  <2> QED BY <2>1, <2>6
<1> HIDE DEF right
<1>6. \A n \in 0..len : n \in right
  BY <1>1, <1>4, <1>5, InductionUpTo
<1>7. same(len) /\ g[len] \in Seq(S)
  BY <1>1, <1>2, <1>6 DEF right
<1> QED BY <1>1, <1>2, <1>7 DEF len

----------------------------------------------------------------------------
(* The check of an address against the ranges, which compares leading bits, *)
(* and the lists of first and last addresses, which compare addresses, agree *)
(* for every address.  Both come down to blocks: the segments before a place *)
(* are given, the one at that place is between two, and the rest are free.  *)

Width(v) == IF v = 4 THEN 8 ELSE 16
Places(v) == IF v = 4 THEN 1..4 ELSE 1..8
Top(v) == IF v = 4 THEN 255 ELSE 65535
Segments(v) == [Places(v) -> 0..Top(v)]

\* The segments that agree with t before place p and are in t[p]..hi there.
InBlock(s, t, p, hi) ==
  /\ \A i \in 1..p - 1 : s[i] = t[i]
  /\ s[p] \in t[p]..hi

LastOf(v, t, p, hi) == [i \in Places(v) |-> IF i < p THEN t[i] ELSE IF i = p THEN hi ELSE Top(v)]

\* Segments agree down to no free bits if they are equal, and always when all are free.
LEMMA WholeOrNone ==
  ASSUME NEW v \in {4, 6}, NEW a \in 0..Top(v), NEW b \in 0..Top(v)
  PROVE  /\ Agree(a, b, 0) <=> a = b
         /\ Agree(a, b, Width(v))
<1>1. 2^0 = 1 /\ 2^8 = 256 /\ 2^16 = 65536
  OBVIOUS
<1>2. a \in Nat /\ b \in Nat
  BY DEF Top
<1>3. Agree(a, b, 0) <=> a = b
  <2>1. a \div 1 = a /\ b \div 1 = b
    BY <1>2
  <2> QED BY <1>1, <2>1 DEF Agree
<1>4. CASE v = 4
  <2>1. a < 256 /\ b < 256
    BY <1>4 DEF Top
  <2>2. a \div 256 = 0 /\ b \div 256 = 0
    BY <2>1, <1>2
  <2> QED BY <1>1, <1>3, <1>4, <2>2 DEF Width, Agree
<1>5. CASE v = 6
  <2>0. Top(6) = 65535
    BY DEF Top
  <2>1. a < 65536 /\ b < 65536
    BY <1>5, <2>0
  <2>2. a \div 65536 = 0 /\ b \div 65536 = 0
    BY <2>1, <1>2
  <2> QED BY <1>1, <1>3, <1>5, <2>2 DEF Width, Agree
<1> QED BY <1>4, <1>5

\* Before the place of a prefix's last bit no bits are free, and after it all are.
LEMMA FreeAround ==
  ASSUME NEW v \in {4, 6}, NEW bits \in Nat, NEW p \in Places(v),
         (p - 1) * Width(v) <= bits, bits <= p * Width(v), NEW i \in Places(v)
  PROVE  /\ i < p => FreeBits(Width(v), bits, i) = 0
         /\ i > p => FreeBits(Width(v), bits, i) = Width(v)
<1>1. CASE v = 4
  BY <1>1 DEF FreeBits, Width, Places
<1>2. CASE v = 6
  BY <1>2 DEF FreeBits, Width, Places
<1> QED BY <1>1, <1>2

\* A prefix that ends in a place leaves that place between two values.
LEMMA NetIsBlock ==
  ASSUME NEW v \in {4, 6}, NEW s \in Segments(v), NEW t \in Segments(v), NEW bits \in Nat,
         NEW p \in Places(v), NEW hi \in 0..Top(v),
         (p - 1) * Width(v) <= bits, bits <= p * Width(v),
         \A x \in 0..Top(v) : Agree(x, t[p], FreeBits(Width(v), bits, p)) <=> x \in t[p]..hi
  PROVE  InNet([v |-> v, seg |-> t, bits |-> bits], [v |-> v, seg |-> s]) <=> InBlock(s, t, p, hi)
<1> DEFINE free(i) == FreeBits(Width(v), bits, i)
<1>1. InNet([v |-> v, seg |-> t, bits |-> bits], [v |-> v, seg |-> s])
        <=> \A i \in Places(v) : Agree(s[i], t[i], free(i))
  <2>1. Width(v) = IF v = 4 THEN 8 ELSE 16
    BY DEF Width
  <2>2. DOMAIN s = Places(v)
    BY DEF Segments
  <2> QED BY <2>1, <2>2 DEF InNet
<1>2. \A i \in Places(v) : s[i] \in 0..Top(v) /\ t[i] \in 0..Top(v)
  BY DEF Segments
<1>3. ASSUME NEW i \in Places(v), i < p PROVE Agree(s[i], t[i], free(i)) <=> s[i] = t[i]
  <2>1. free(i) = 0
    BY <1>3, FreeAround
  <2> QED BY <2>1, <1>2, WholeOrNone
<1>4. ASSUME NEW i \in Places(v), i > p PROVE Agree(s[i], t[i], free(i))
  <2>1. free(i) = Width(v)
    BY <1>4, FreeAround
  <2> QED BY <2>1, <1>2, WholeOrNone
<1>5. Agree(s[p], t[p], free(p)) <=> s[p] \in t[p]..hi
  BY <1>2
<1>6. /\ \A i \in 1..p - 1 : i \in Places(v) /\ i < p
      /\ \A i \in Places(v) : i < p => i \in 1..p - 1
      /\ \A i \in Places(v) : i < p \/ i = p \/ i > p
  BY DEF Places
<1> HIDE DEF free
<1> QED BY <1>1, <1>3, <1>4, <1>5, <1>6 DEF InBlock

\* Two addresses that differ differ first somewhere.
LEMMA FirstDifference ==
  ASSUME NEW v \in {4, 6}, NEW s \in Segments(v), NEW t \in Segments(v), s # t
  PROVE  \E i \in Places(v) : s[i] # t[i] /\ \A j \in 1..i - 1 : s[j] = t[j]
<1> DEFINE D == {i \in Places(v) : s[i] # t[i]}
           R == {p \in Nat \X Nat : p[1] < p[2]}
<1>1. D # {}
  BY DEF Segments
<1>2. Places(v) \subseteq Nat /\ \A i \in Places(v) : 1..i - 1 \subseteq Places(v)
  BY DEF Places
<1>3. PICK i \in D : \A j \in D : ~ (<<j, i>> \in R)
  <2>1. D \subseteq Nat
    BY <1>2
  <2>2. IsWellFoundedOn(R, Nat)
    BY LessIsWellFounded
  <2> HIDE DEF D, R
  <2> QED BY <1>1, <2>1, <2>2, WFMin
<1>4. ASSUME NEW j \in 1..i - 1 PROVE s[j] = t[j]
  <2>1. i \in Places(v) /\ i \in Nat /\ j \in Nat /\ j < i /\ j \in Places(v)
    BY <1>2
  <2>2. <<j, i>> \in R
    BY <2>1
  <2> QED BY <1>3, <2>1, <2>2
<1> QED BY <1>4

\* Which address comes first is decided where they differ first.
LEMMA OrderOfSegments ==
  ASSUME NEW v \in {4, 6}, NEW s \in Segments(v), NEW t \in Segments(v)
  PROVE  UpToAddress([v |-> v, seg |-> s], [v |-> v, seg |-> t]) <=>
           s = t \/ \E i \in Places(v) : s[i] < t[i] /\ \A j \in 1..i - 1 : s[j] = t[j]
<1>1. DOMAIN s = Places(v)
  BY DEF Segments
<1> QED BY <1>1 DEF UpToAddress

\* From a first address that ends in zeros to a last that ends in ones is a block.
LEMMA IntervalIsBlock ==
  ASSUME NEW v \in {4, 6}, NEW s \in Segments(v), NEW t \in Segments(v),
         NEW p \in Places(v), NEW hi \in 0..Top(v),
         \A i \in Places(v) : i > p => t[i] = 0
  PROVE  Within([v |-> v, seg |-> s], <<[v |-> v, seg |-> t], [v |-> v, seg |-> LastOf(v, t, p, hi)]>>)
           <=> InBlock(s, t, p, hi)
<1> DEFINE u == LastOf(v, t, p, hi)
           ip == [v |-> v, seg |-> s]
<1>1. /\ u \in Segments(v)
      /\ u[p] = hi /\ \A i \in Places(v) : (i < p => u[i] = t[i]) /\ (i > p => u[i] = Top(v))
  BY DEF LastOf, Segments, Places, Top
<1> HIDE DEF u
<1>2. /\ \A i \in Places(v) : s[i] \in 0..Top(v) /\ t[i] \in 0..Top(v) /\ u[i] \in 0..Top(v)
      /\ Top(v) \in Nat
      /\ Places(v) \subseteq Nat /\ \A i \in Places(v) : \A j \in 1..i - 1 : j \in Places(v) /\ j < i
      /\ \A i, j \in Places(v) : j < i => j \in 1..i - 1
  BY <1>1 DEF Segments, Places, Top
<1>3. Within(ip, <<[v |-> v, seg |-> t], [v |-> v, seg |-> u]>>) <=>
        /\ s = t \/ \E i \in Places(v) : t[i] < s[i] /\ \A j \in 1..i - 1 : t[j] = s[j]
        /\ s = u \/ \E i \in Places(v) : s[i] < u[i] /\ \A j \in 1..i - 1 : s[j] = u[j]
  BY <1>1, OrderOfSegments DEF Within
<1>4. ASSUME InBlock(s, t, p, hi)
      PROVE  Within(ip, <<[v |-> v, seg |-> t], [v |-> v, seg |-> u]>>)
  <2>1. ASSUME s # t PROVE \E i \in Places(v) : t[i] < s[i] /\ \A j \in 1..i - 1 : t[j] = s[j]
    <3>1. PICK i \in Places(v) : s[i] # t[i] /\ \A j \in 1..i - 1 : s[j] = t[j]
      BY <2>1, FirstDifference
    <3>2. t[i] < s[i]
      BY <1>2, <1>4, <3>1 DEF InBlock
    <3> QED BY <3>1, <3>2
  <2>2. ASSUME s # u PROVE \E i \in Places(v) : s[i] < u[i] /\ \A j \in 1..i - 1 : s[j] = u[j]
    <3>1. PICK i \in Places(v) : s[i] # u[i] /\ \A j \in 1..i - 1 : s[j] = u[j]
      BY <1>1, <2>2, FirstDifference
    <3>2. s[i] < u[i]
      BY <1>1, <1>2, <1>4, <3>1 DEF InBlock
    <3> QED BY <3>1, <3>2
  <2> QED BY <1>3, <2>1, <2>2
<1>5. ASSUME Within(ip, <<[v |-> v, seg |-> t], [v |-> v, seg |-> u]>>)
      PROVE  InBlock(s, t, p, hi)
  <2>1. \A i \in 1..p - 1 : s[i] = t[i]
    <3>1. SUFFICES ASSUME NEW k \in 1..p - 1, s[k] # t[k] PROVE FALSE
      OBVIOUS
    <3>2. s # t /\ s # u
      BY <1>1, <1>2, <3>1
    <3>3. PICK i \in Places(v) : t[i] < s[i] /\ \A j \in 1..i - 1 : t[j] = s[j]
      BY <1>3, <1>5, <3>2
    <3>4. PICK m \in Places(v) : s[m] < u[m] /\ \A j \in 1..m - 1 : s[j] = u[j]
      BY <1>3, <1>5, <3>2
    <3>5. i <= k /\ i < p
      BY <1>2, <3>1, <3>3
    <3>6. u[i] = t[i]
      BY <1>1, <3>5
    <3>7. CASE m < i
      <4>1. t[m] = s[m] /\ u[m] = t[m]
        BY <1>1, <1>2, <3>3, <3>5, <3>7
      <4> QED BY <4>1, <3>4, <1>2
    <3>8. CASE i <= m
      <4>1. i = m \/ s[i] = u[i]
        BY <1>2, <3>4, <3>8
      <4> QED BY <4>1, <3>3, <3>4, <3>6, <1>2
    <3> QED BY <3>7, <3>8, <1>2
  <2>2. t[p] <= s[p]
    <3>1. SUFFICES ASSUME s[p] < t[p] PROVE FALSE
      BY <1>2
    <3>2. s # t
      BY <3>1, <1>2
    <3>3. PICK i \in Places(v) : t[i] < s[i] /\ \A j \in 1..i - 1 : t[j] = s[j]
      BY <1>3, <1>5, <3>2
    <3> QED BY <1>2, <2>1, <3>1, <3>3
  <2>3. s[p] <= hi
    <3>1. SUFFICES ASSUME u[p] < s[p] PROVE FALSE
      BY <1>1, <1>2
    <3>2. s # u
      BY <3>1, <1>2
    <3>3. PICK i \in Places(v) : s[i] < u[i] /\ \A j \in 1..i - 1 : s[j] = u[j]
      BY <1>3, <1>5, <3>2
    <3> QED BY <1>1, <1>2, <2>1, <3>1, <3>3
  <2> QED BY <1>2, <2>1, <2>2, <2>3 DEF InBlock
<1> QED BY <1>4, <1>5 DEF u

\* So a prefix and an interval may be the same.
LEMMA NetIsInterval ==
  ASSUME NEW v \in {4, 6}, NEW s \in Segments(v), NEW t \in Segments(v), NEW bits \in Nat,
         NEW p \in Places(v), NEW hi \in 0..Top(v),
         (p - 1) * Width(v) <= bits, bits <= p * Width(v),
         \A x \in 0..Top(v) : Agree(x, t[p], FreeBits(Width(v), bits, p)) <=> x \in t[p]..hi,
         \A i \in Places(v) : i > p => t[i] = 0
  PROVE  InNet([v |-> v, seg |-> t, bits |-> bits], [v |-> v, seg |-> s]) <=>
         Within([v |-> v, seg |-> s], <<[v |-> v, seg |-> t], [v |-> v, seg |-> LastOf(v, t, p, hi)]>>)
BY NetIsBlock, IntervalIsBlock

\* The octets that agree with lo but for so many low bits.
OctetBlock(lo, free, hi) ==
  /\ lo \in 0..255 /\ hi \in 0..255
  /\ \A x \in 0..255 : Agree(x, lo, free) <=> x \in lo..hi

\* The addresses of a range are those of an interval.
SameAddresses(net, interval) ==
  \A s \in Octets : InNet(net, [v |-> 4, seg |-> s]) <=> Within([v |-> 4, seg |-> s], interval)

\* The ranges whose prefix ends in the first, in the second, at the end of the third octet.
InFirst(a, bits, hi) ==
  SameAddresses(Net4(a, 0, 0, bits), Interval4(<<a, 0, 0, 0>>, <<hi, 255, 255, 255>>))
InSecond(a, b, bits, hi) ==
  SameAddresses(Net4(a, b, 0, bits), Interval4(<<a, b, 0, 0>>, <<a, hi, 255, 255>>))
AfterThird(a, b, c) ==
  SameAddresses(Net4(a, b, c, 24), Interval4(<<a, b, c, 0>>, <<a, b, c, 255>>))

\* A prefix of IPv4 that ends in the first octet.
LEMMA Net4Octet1 ==
  ASSUME NEW a, NEW hi, NEW bits \in 0..8,
         OctetBlock(a, 8 - bits, hi)
  PROVE  InFirst(a, bits, hi)
<1> SUFFICES ASSUME NEW s \in Octets
             PROVE  InNet(Net4(a, 0, 0, bits), [v |-> 4, seg |-> s]) <=>
                    Within([v |-> 4, seg |-> s], Interval4(<<a, 0, 0, 0>>, <<hi, 255, 255, 255>>))
  BY DEF SameAddresses, InFirst
<1> DEFINE t == <<a, 0, 0, 0>>
<1>0. a \in 0..255 /\ hi \in 0..255
  BY DEF OctetBlock
<1>1. /\ t \in Segments(4) /\ s \in Segments(4) /\ 1 \in Places(4) /\ hi \in 0..Top(4) /\ bits \in Nat
      /\ \A i \in Places(4) : i > 1 => t[i] = 0
      /\ (1 - 1) * Width(4) <= bits /\ bits <= 1 * Width(4)
  BY <1>0 DEF Segments, Places, Top, Octets, Width
<1>2. LastOf(4, t, 1, hi) = <<hi, 255, 255, 255>>
  BY <1>0 DEF LastOf, Places, Top
<1>3. FreeBits(Width(4), bits, 1) = 8 - bits /\ t[1] = a
  BY <1>0 DEF FreeBits, Width
<1>4. \A x \in 0..Top(4) : Agree(x, t[1], FreeBits(Width(4), bits, 1)) <=> x \in t[1]..hi
  BY <1>3 DEF Top, OctetBlock
<1>5. Net4(a, 0, 0, bits) = [v |-> 4, seg |-> t, bits |-> bits]
  BY DEF Net4
<1> HIDE DEF t
<1>6. InNet([v |-> 4, seg |-> t, bits |-> bits], [v |-> 4, seg |-> s]) <=>
      Within([v |-> 4, seg |-> s], <<[v |-> 4, seg |-> t], [v |-> 4, seg |-> LastOf(4, t, 1, hi)]>>)
  BY <1>0, <1>1, <1>4, NetIsInterval
<1> QED BY <1>2, <1>5, <1>6 DEF Interval4, t

\* One that ends in the second.
LEMMA Net4Octet2 ==
  ASSUME NEW a \in 0..255, NEW b, NEW hi, NEW bits \in 8..16,
         OctetBlock(b, 16 - bits, hi)
  PROVE  InSecond(a, b, bits, hi)
<1> SUFFICES ASSUME NEW s \in Octets
             PROVE  InNet(Net4(a, b, 0, bits), [v |-> 4, seg |-> s]) <=>
                    Within([v |-> 4, seg |-> s], Interval4(<<a, b, 0, 0>>, <<a, hi, 255, 255>>))
  BY DEF SameAddresses, InSecond
<1> DEFINE t == <<a, b, 0, 0>>
<1>0. b \in 0..255 /\ hi \in 0..255
  BY DEF OctetBlock
<1>1. /\ t \in Segments(4) /\ s \in Segments(4) /\ 2 \in Places(4) /\ hi \in 0..Top(4) /\ bits \in Nat
      /\ \A i \in Places(4) : i > 2 => t[i] = 0
      /\ (2 - 1) * Width(4) <= bits /\ bits <= 2 * Width(4)
  BY <1>0 DEF Segments, Places, Top, Octets, Width
<1>2. LastOf(4, t, 2, hi) = <<a, hi, 255, 255>>
  BY <1>0 DEF LastOf, Places, Top
<1>3. FreeBits(Width(4), bits, 2) = 16 - bits /\ t[2] = b
  BY <1>0 DEF FreeBits, Width
<1>4. \A x \in 0..Top(4) : Agree(x, t[2], FreeBits(Width(4), bits, 2)) <=> x \in t[2]..hi
  BY <1>3 DEF Top, OctetBlock
<1>5. Net4(a, b, 0, bits) = [v |-> 4, seg |-> t, bits |-> bits]
  BY DEF Net4
<1> HIDE DEF t
<1>6. InNet([v |-> 4, seg |-> t, bits |-> bits], [v |-> 4, seg |-> s]) <=>
      Within([v |-> 4, seg |-> s], <<[v |-> 4, seg |-> t], [v |-> 4, seg |-> LastOf(4, t, 2, hi)]>>)
  BY <1>0, <1>1, <1>4, NetIsInterval
<1> QED BY <1>2, <1>5, <1>6 DEF Interval4, t

\* One of three octets.
LEMMA Net4Octet3 ==
  ASSUME NEW a \in 0..255, NEW b \in 0..255, NEW c \in 0..255
  PROVE  AfterThird(a, b, c)
<1> SUFFICES ASSUME NEW s \in Octets
             PROVE  InNet(Net4(a, b, c, 24), [v |-> 4, seg |-> s]) <=>
                    Within([v |-> 4, seg |-> s], Interval4(<<a, b, c, 0>>, <<a, b, c, 255>>))
  BY DEF SameAddresses, AfterThird
<1> DEFINE t == <<a, b, c, 0>>
<1>1. /\ t \in Segments(4) /\ s \in Segments(4) /\ 3 \in Places(4) /\ c \in 0..Top(4) /\ 24 \in Nat
      /\ \A i \in Places(4) : i > 3 => t[i] = 0
      /\ (3 - 1) * Width(4) <= 24 /\ 24 <= 3 * Width(4)
  BY DEF Segments, Places, Top, Octets, Width
<1>2. LastOf(4, t, 3, c) = <<a, b, c, 255>>
  BY DEF LastOf, Places, Top
<1>3. FreeBits(Width(4), 24, 3) = 0 /\ t[3] = c
  BY DEF FreeBits, Width
<1>4. \A x \in 0..Top(4) : Agree(x, t[3], FreeBits(Width(4), 24, 3)) <=> x \in t[3]..c
  <2>1. \A x \in 0..Top(4) : Agree(x, c, 0) <=> x = c
    BY <1>1, WholeOrNone
  <2>2. \A x \in 0..Top(4) : x = c <=> x \in c..c
    BY DEF Top
  <2> QED BY <2>1, <2>2, <1>3
<1>5. Net4(a, b, c, 24) = [v |-> 4, seg |-> t, bits |-> 24]
  BY DEF Net4
<1> HIDE DEF t
<1>6. InNet([v |-> 4, seg |-> t, bits |-> 24], [v |-> 4, seg |-> s]) <=>
      Within([v |-> 4, seg |-> s], <<[v |-> 4, seg |-> t], [v |-> 4, seg |-> LastOf(4, t, 3, c)]>>)
  BY <1>1, <1>4, NetIsInterval
<1> QED BY <1>2, <1>5, <1>6 DEF Interval4, t

\* The blocks of octets that the prefixes leave.
LEMMA OctetBlocks ==
  /\ \A a \in 0..255 : OctetBlock(a, 0, a)
  /\ OctetBlock(64, 6, 127) /\ OctetBlock(16, 4, 31) /\ OctetBlock(18, 1, 19)
  /\ OctetBlock(224, 4, 239) /\ OctetBlock(240, 4, 255)
<1>1. 2^1 = 2 /\ 2^4 = 16 /\ 2^6 = 64
  OBVIOUS
<1>2. ASSUME NEW a \in 0..255 PROVE OctetBlock(a, 0, a)
  <2>1. \A x \in 0..255 : Agree(x, a, 0) <=> x = a
    <3>1. Top(4) = 255
      BY DEF Top
    <3> QED BY <3>1, WholeOrNone
  <2> QED BY <2>1 DEF OctetBlock
<1>3. OctetBlock(64, 6, 127)
  BY <1>1 DEF OctetBlock, Agree
<1>4. OctetBlock(16, 4, 31) /\ OctetBlock(18, 1, 19)
  BY <1>1 DEF OctetBlock, Agree
<1>5. OctetBlock(224, 4, 239) /\ OctetBlock(240, 4, 255)
  BY <1>1 DEF OctetBlock, Agree
<1> QED BY <1>2, <1>3, <1>4, <1>5


\* The prefixes of IPv4 there are.
LEMMA Net4s ==
  /\ InFirst(0, 8, 0) /\ InFirst(10, 8, 10) /\ InFirst(127, 8, 127)
  /\ InFirst(224, 4, 239) /\ InFirst(240, 4, 255)
  /\ InSecond(100, 64, 10, 127) /\ InSecond(169, 254, 16, 254) /\ InSecond(172, 16, 12, 31)
  /\ InSecond(192, 168, 16, 168) /\ InSecond(198, 18, 15, 19)
  /\ AfterThird(192, 0, 0) /\ AfterThird(192, 0, 2) /\ AfterThird(192, 88, 99)
  /\ AfterThird(198, 51, 100) /\ AfterThird(203, 0, 113)
<1>1. /\ OctetBlock(0, 8 - 8, 0) /\ OctetBlock(10, 8 - 8, 10) /\ OctetBlock(127, 8 - 8, 127)
      /\ OctetBlock(224, 8 - 4, 239) /\ OctetBlock(240, 8 - 4, 255)
      /\ OctetBlock(64, 16 - 10, 127) /\ OctetBlock(254, 16 - 16, 254) /\ OctetBlock(16, 16 - 12, 31)
      /\ OctetBlock(168, 16 - 16, 168) /\ OctetBlock(18, 16 - 15, 19)
  <2>1. 8 - 8 = 0 /\ 8 - 4 = 4 /\ 16 - 10 = 6 /\ 16 - 16 = 0 /\ 16 - 12 = 4 /\ 16 - 15 = 1
    OBVIOUS
  <2>2. 0 \in 0..255 /\ 10 \in 0..255 /\ 127 \in 0..255 /\ 254 \in 0..255 /\ 168 \in 0..255
    OBVIOUS
  <2> QED BY <2>1, <2>2, OctetBlocks
<1>2. 8 \in 0..8 /\ 4 \in 0..8 /\ 10 \in 8..16 /\ 16 \in 8..16 /\ 12 \in 8..16 /\ 15 \in 8..16
  OBVIOUS
<1>3. /\ 0 \in 0..255 /\ 2 \in 0..255 /\ 51 \in 0..255 /\ 88 \in 0..255 /\ 99 \in 0..255
      /\ 100 \in 0..255 /\ 113 \in 0..255 /\ 169 \in 0..255 /\ 172 \in 0..255 /\ 192 \in 0..255
      /\ 198 \in 0..255 /\ 203 \in 0..255
  OBVIOUS
<1>4. InFirst(0, 8, 0)
  BY <1>1, <1>2, <1>3, Net4Octet1
<1>5. InFirst(10, 8, 10)
  BY <1>1, <1>2, <1>3, Net4Octet1
<1>6. InFirst(127, 8, 127)
  BY <1>1, <1>2, <1>3, Net4Octet1
<1>7. InFirst(224, 4, 239)
  BY <1>1, <1>2, <1>3, Net4Octet1
<1>8. InFirst(240, 4, 255)
  BY <1>1, <1>2, <1>3, Net4Octet1
<1>9. InSecond(100, 64, 10, 127)
  BY <1>1, <1>2, <1>3, Net4Octet2
<1>10. InSecond(169, 254, 16, 254)
  BY <1>1, <1>2, <1>3, Net4Octet2
<1>11. InSecond(172, 16, 12, 31)
  BY <1>1, <1>2, <1>3, Net4Octet2
<1>12. InSecond(192, 168, 16, 168)
  BY <1>1, <1>2, <1>3, Net4Octet2
<1>13. InSecond(198, 18, 15, 19)
  BY <1>1, <1>2, <1>3, Net4Octet2
<1>14. AfterThird(192, 0, 0)
  BY <1>1, <1>2, <1>3, Net4Octet3, SMTT(20), ZenonT(20)
<1>15. AfterThird(192, 0, 2)
  BY <1>1, <1>2, <1>3, Net4Octet3, SMTT(20), ZenonT(20)
<1>16. AfterThird(192, 88, 99)
  BY <1>1, <1>2, <1>3, Net4Octet3, SMTT(20), ZenonT(20)
<1>17. AfterThird(198, 51, 100)
  BY <1>1, <1>2, <1>3, Net4Octet3, SMTT(20), ZenonT(20)
<1>18. AfterThird(203, 0, 113)
  BY <1>1, <1>2, <1>3, Net4Octet3, SMTT(20), ZenonT(20)
<1> QED BY <1>4, <1>5, <1>6, <1>7, <1>8, <1>9, <1>10, <1>11, <1>12, <1>13, <1>14, <1>15, <1>16, <1>17, <1>18

\* The ranges and the intervals of IPv4.
Ranges4 == {Net4(0, 0, 0, 8), Net4(10, 0, 0, 8), Net4(100, 64, 0, 10), Net4(127, 0, 0, 8),
  Net4(169, 254, 0, 16), Net4(172, 16, 0, 12), Net4(192, 0, 0, 24), Net4(192, 0, 2, 24),
  Net4(192, 88, 99, 24), Net4(192, 168, 0, 16), Net4(198, 18, 0, 15), Net4(198, 51, 100, 24),
  Net4(203, 0, 113, 24), Net4(224, 0, 0, 4), Net4(240, 0, 0, 4), [v |-> 4, seg |-> <<255, 255, 255, 255>>, bits |-> 32]}
Intervals4 == {Interval4(<<0, 0, 0, 0>>, <<0, 255, 255, 255>>), Interval4(<<10, 0, 0, 0>>, <<10, 255, 255, 255>>),
  Interval4(<<100, 64, 0, 0>>, <<100, 127, 255, 255>>), Interval4(<<127, 0, 0, 0>>, <<127, 255, 255, 255>>),
  Interval4(<<169, 254, 0, 0>>, <<169, 254, 255, 255>>), Interval4(<<172, 16, 0, 0>>, <<172, 31, 255, 255>>),
  Interval4(<<192, 0, 0, 0>>, <<192, 0, 0, 255>>), Interval4(<<192, 0, 2, 0>>, <<192, 0, 2, 255>>),
  Interval4(<<192, 88, 99, 0>>, <<192, 88, 99, 255>>), Interval4(<<192, 168, 0, 0>>, <<192, 168, 255, 255>>),
  Interval4(<<198, 18, 0, 0>>, <<198, 19, 255, 255>>), Interval4(<<198, 51, 100, 0>>, <<198, 51, 100, 255>>),
  Interval4(<<203, 0, 113, 0>>, <<203, 0, 113, 255>>), Interval4(<<224, 0, 0, 0>>, <<255, 255, 255, 255>>)}

\* No range of IPv6 has an IPv4 address.
LEMMA OnlyRanges4 ==
  ASSUME NEW ip, ip.v = 4
  PROVE  /\ (\E net \in PRIVATE_RANGES : InNet(net, ip)) <=> \E net \in Ranges4 : InNet(net, ip)
         /\ (\E r \in ReservedIntervals : Within(ip, r)) <=> \E r \in Intervals4 : Within(ip, r)
<1>1. Ranges4 \subseteq PRIVATE_RANGES /\ Intervals4 \subseteq ReservedIntervals
  BY DEF Ranges4, PRIVATE_RANGES, Intervals4, ReservedIntervals
<1>2. \A net \in PRIVATE_RANGES \ Ranges4 : net.v = 6
  BY DEF Ranges4, PRIVATE_RANGES, Net6
<1>3. \A r \in ReservedIntervals \ Intervals4 : r[1].v = 6
  BY DEF Intervals4, ReservedIntervals, Interval6, IPv6
<1> QED BY <1>1, <1>2, <1>3 DEF InNet, Within

Octet == 0..255
Group == 0..Top(6)

\* Only the first octet decides.
DecidedByFirst(a, hi) ==
  \A s \in Octets :
    Within([v |-> 4, seg |-> s], Interval4(<<a, 0, 0, 0>>, <<hi, 255, 255, 255>>)) <=> s[1] \in a..hi

\* An interval of whole first octets.
LEMMA FirstOctetInterval ==
  ASSUME NEW a \in Octet, NEW hi \in Octet
  PROVE  DecidedByFirst(a, hi)
<1> SUFFICES ASSUME NEW s \in Octets
             PROVE  Within([v |-> 4, seg |-> s], Interval4(<<a, 0, 0, 0>>, <<hi, 255, 255, 255>>))
                      <=> s[1] \in a..hi
  BY DEF DecidedByFirst
<1> DEFINE t == <<a, 0, 0, 0>>
<1>1. /\ t \in Segments(4) /\ s \in Segments(4) /\ 1 \in Places(4) /\ hi \in 0..Top(4)
      /\ \A i \in Places(4) : i > 1 => t[i] = 0
  BY DEF Segments, Places, Top, Octets, Octet
<1>2. LastOf(4, t, 1, hi) = <<hi, 255, 255, 255>>
  BY DEF LastOf, Places, Top, Octet
<1>3. InBlock(s, t, 1, hi) <=> s[1] \in a..hi
  BY DEF InBlock
<1> HIDE DEF t
<1>4. Within([v |-> 4, seg |-> s], <<[v |-> 4, seg |-> t], [v |-> 4, seg |-> LastOf(4, t, 1, hi)]>>)
        <=> InBlock(s, t, 1, hi)
  BY <1>1, IntervalIsBlock
<1> QED BY <1>2, <1>3, <1>4 DEF Interval4, t

\* The three last ranges of IPv4 are one interval.
LEMMA FromMulticastOn ==
  ASSUME NEW s \in Octets, NEW ip, ip = [v |-> 4, seg |-> s]
  PROVE  (\/ InNet(Net4(224, 0, 0, 4), ip) \/ InNet(Net4(240, 0, 0, 4), ip)
          \/ InNet([v |-> 4, seg |-> <<255, 255, 255, 255>>, bits |-> 32], ip))
         <=> Within(ip, Interval4(<<224, 0, 0, 0>>, <<255, 255, 255, 255>>))
<1>1. 224 \in Octet /\ 239 \in Octet /\ 240 \in Octet /\ 255 \in Octet
  BY DEF Octet
<1>0. DecidedByFirst(224, 239) /\ DecidedByFirst(240, 255) /\ DecidedByFirst(224, 255)
  <2>1. DecidedByFirst(224, 239)
    BY <1>1, FirstOctetInterval
  <2>2. DecidedByFirst(240, 255)
    BY <1>1, FirstOctetInterval
  <2>3. DecidedByFirst(224, 255)
    BY <1>1, FirstOctetInterval
  <2> QED BY <2>1, <2>2, <2>3
<1>2. InNet(Net4(224, 0, 0, 4), ip) <=> s[1] \in 224..239
  BY <1>0, Net4s DEF InFirst, SameAddresses, DecidedByFirst
<1>3. InNet(Net4(240, 0, 0, 4), ip) <=> s[1] \in 240..255
  BY <1>0, Net4s DEF InFirst, SameAddresses, DecidedByFirst
<1>4. InNet([v |-> 4, seg |-> <<255, 255, 255, 255>>, bits |-> 32], ip) => s[1] = 255
  <2> DEFINE net == [v |-> 4, seg |-> <<255, 255, 255, 255>>, bits |-> 32]
  <2>1. FreeBits(8, 32, 1) = 0 /\ 1 \in DOMAIN ip.seg
    BY DEF FreeBits, Octets
  <2>2. net.seg[1] = 255 /\ net.v = 4 /\ net.bits = 32
    OBVIOUS
  <2> HIDE DEF net
  <2>3. InNet(net, ip) => Agree(s[1], 255, 0)
    BY <2>1, <2>2 DEF InNet
  <2>4. s[1] \in 0..255 /\ Top(4) = 255
    BY DEF Octets, Top
  <2>5. Agree(s[1], 255, 0) => s[1] = 255
    BY <2>4, WholeOrNone, SMTT(20), ZenonT(20)
  <2> QED BY <2>3, <2>5 DEF net
<1>5. Within(ip, Interval4(<<224, 0, 0, 0>>, <<255, 255, 255, 255>>)) <=> s[1] \in 224..255
  BY <1>0 DEF DecidedByFirst
<1>6. s[1] \in 0..255
  BY DEF Octets
<1> QED BY <1>2, <1>3, <1>4, <1>5, <1>6

\* The ranges and the intervals have the same IPv4 addresses.
LEMMA SameIPv4 ==
  ASSUME NEW s \in Octets, NEW ip, ip = [v |-> 4, seg |-> s]
  PROVE  (\E net \in PRIVATE_RANGES : InNet(net, ip)) <=> \E r \in ReservedIntervals : Within(ip, r)
<1> DEFINE same(net, r) == InNet(net, ip) <=> Within(ip, r)
<1>1. same(Net4(0, 0, 0, 8),
           Interval4(<<0, 0, 0, 0>>, <<0, 255, 255, 255>>))
  BY Net4s DEF InFirst, InSecond, AfterThird, SameAddresses
<1>2. same(Net4(10, 0, 0, 8),
           Interval4(<<10, 0, 0, 0>>, <<10, 255, 255, 255>>))
  BY Net4s DEF InFirst, InSecond, AfterThird, SameAddresses
<1>3. same(Net4(100, 64, 0, 10),
           Interval4(<<100, 64, 0, 0>>, <<100, 127, 255, 255>>))
  BY Net4s DEF InFirst, InSecond, AfterThird, SameAddresses
<1>4. same(Net4(127, 0, 0, 8),
           Interval4(<<127, 0, 0, 0>>, <<127, 255, 255, 255>>))
  BY Net4s DEF InFirst, InSecond, AfterThird, SameAddresses
<1>5. same(Net4(169, 254, 0, 16),
           Interval4(<<169, 254, 0, 0>>, <<169, 254, 255, 255>>))
  BY Net4s DEF InFirst, InSecond, AfterThird, SameAddresses
<1>6. same(Net4(172, 16, 0, 12),
           Interval4(<<172, 16, 0, 0>>, <<172, 31, 255, 255>>))
  BY Net4s DEF InFirst, InSecond, AfterThird, SameAddresses
<1>7. same(Net4(192, 0, 0, 24),
           Interval4(<<192, 0, 0, 0>>, <<192, 0, 0, 255>>))
  BY Net4s DEF InFirst, InSecond, AfterThird, SameAddresses
<1>8. same(Net4(192, 0, 2, 24),
           Interval4(<<192, 0, 2, 0>>, <<192, 0, 2, 255>>))
  BY Net4s DEF InFirst, InSecond, AfterThird, SameAddresses
<1>9. same(Net4(192, 88, 99, 24),
           Interval4(<<192, 88, 99, 0>>, <<192, 88, 99, 255>>))
  BY Net4s DEF InFirst, InSecond, AfterThird, SameAddresses
<1>10. same(Net4(192, 168, 0, 16),
           Interval4(<<192, 168, 0, 0>>, <<192, 168, 255, 255>>))
  BY Net4s DEF InFirst, InSecond, AfterThird, SameAddresses
<1>11. same(Net4(198, 18, 0, 15),
           Interval4(<<198, 18, 0, 0>>, <<198, 19, 255, 255>>))
  BY Net4s DEF InFirst, InSecond, AfterThird, SameAddresses
<1>12. same(Net4(198, 51, 100, 24),
           Interval4(<<198, 51, 100, 0>>, <<198, 51, 100, 255>>))
  BY Net4s DEF InFirst, InSecond, AfterThird, SameAddresses
<1>13. same(Net4(203, 0, 113, 24),
           Interval4(<<203, 0, 113, 0>>, <<203, 0, 113, 255>>))
  BY Net4s DEF InFirst, InSecond, AfterThird, SameAddresses
<1>14. (\E net \in Ranges4 : InNet(net, ip)) <=> \E r \in Intervals4 : Within(ip, r)
  BY <1>1, <1>2, <1>3, <1>4, <1>5, <1>6, <1>7, <1>8, <1>9, <1>10, <1>11, <1>12, <1>13, FromMulticastOn DEF Ranges4, Intervals4
<1> QED BY <1>14, OnlyRanges4

----------------------------------------------------------------------------
(* IPv6 *)

\* An IPv6 address has eight segments of 16 bits.
LEMMA Six == Places(6) = 1..8 /\ Width(6) = 16 /\ Top(6) = 65535
  BY DEF Places, Width, Top

\* An interval of IPv6 addresses is a block.
LEMMA Interval6IsBlock ==
  ASSUME NEW s \in Segments(6), NEW t \in Segments(6), NEW p \in Places(6), NEW last \in 0..Top(6),
         NEW prefix, Len(prefix) = p, \A i \in Places(6) : t[i] = IF i <= p THEN prefix[i] ELSE 0
  PROVE  Within([v |-> 6, seg |-> s], Interval6(prefix, last)) <=> InBlock(s, t, p, last)
<1>1. DOMAIN t = Places(6) /\ t = [i \in Places(6) |-> t[i]] /\ p \in Int
  BY Six DEF Segments
<1>2. t = [i \in 1..8 |-> IF i <= p THEN prefix[i] ELSE 0]
  BY <1>1, Six
<1>3. LastOf(6, t, p, last) =
        [i \in 1..8 |-> IF i < p THEN prefix[i] ELSE IF i = p THEN last ELSE 65535]
  BY <1>1, Six DEF LastOf
<1>4. Interval6(prefix, last) = <<[v |-> 6, seg |-> t], [v |-> 6, seg |-> LastOf(6, t, p, last)]>>
  BY <1>2, <1>3, SMTT(20), ZenonT(20) DEF Interval6, IPv6
<1>5. \A i \in Places(6) : i > p => t[i] = 0
  BY Six
<1> QED BY <1>4, <1>5, IntervalIsBlock

\* The groups that agree with lo but for so many low bits.
GroupBlock(lo, free, hi) == \A x \in 0..Top(6) : Agree(x, lo, free) <=> x \in lo..hi

\* A prefix of IPv6 is a block.
LEMMA Net6IsBlock ==
  ASSUME NEW s \in Segments(6), NEW t \in Segments(6), NEW p \in Places(6), NEW bits \in Nat,
         NEW hi \in 0..Top(6),
         16 * (p - 1) <= bits, bits <= 16 * p, GroupBlock(t[p], 16 * p - bits, hi)
  PROVE  InNet([v |-> 6, seg |-> t, bits |-> bits], [v |-> 6, seg |-> s]) <=> InBlock(s, t, p, hi)
<1>1. (p - 1) * Width(6) <= bits /\ bits <= p * Width(6)
  BY Six
<1>2. FreeBits(Width(6), bits, p) = 16 * p - bits
  BY Six DEF FreeBits
<1>3. \A x \in 0..Top(6) : Agree(x, t[p], FreeBits(Width(6), bits, p)) <=> x \in t[p]..hi
  BY <1>2 DEF GroupBlock
<1> QED BY <1>1, <1>3, NetIsBlock

\* The values that the prefixes leave to their last group.
LEMMA GroupBlocks ==
  /\ \A a \in 0..Top(6) : GroupBlock(a, 0, a)
  /\ GroupBlock(64512, 9, 65023) /\ GroupBlock(65152, 6, 65215) /\ GroupBlock(65280, 8, 65535)
  /\ GroupBlock(16, 4, 31) /\ GroupBlock(32, 4, 47)
<1>1. 2^4 = 16 /\ 2^6 = 64 /\ 2^8 = 256 /\ 2^9 = 512
  OBVIOUS
<1>2. ASSUME NEW a \in 0..Top(6) PROVE GroupBlock(a, 0, a)
  <2>1. \A x \in 0..Top(6) : Agree(x, a, 0) <=> x = a
    BY WholeOrNone
  <2>2. a \in Int /\ \A x \in 0..Top(6) : x \in Int
    BY Six
  <2> QED BY <2>1, <2>2 DEF GroupBlock
<1>3. GroupBlock(64512, 9, 65023)
  BY <1>1, Six DEF GroupBlock, Agree
<1>4. GroupBlock(65152, 6, 65215)
  BY <1>1, Six DEF GroupBlock, Agree
<1>5. GroupBlock(65280, 8, 65535)
  BY <1>1, Six DEF GroupBlock, Agree
<1>6. GroupBlock(16, 4, 31)
  BY <1>1, Six DEF GroupBlock, Agree
<1>7. GroupBlock(32, 4, 47)
  BY <1>1, Six DEF GroupBlock, Agree
<1> QED BY <1>2, <1>3, <1>4, <1>5, <1>6, <1>7

\* The addresses of a range, and of an interval, are those of a block.
RangeIsBlock(net, t, p, hi) ==
  \A s \in Segments(6) : InNet(net, [v |-> 6, seg |-> s]) <=> InBlock(s, t, p, hi)
IntervalIsOf(r, t, p, hi) ==
  \A s \in Segments(6) : Within([v |-> 6, seg |-> s], r) <=> InBlock(s, t, p, hi)

\* The blocks of the ranges of IPv6.
LEMMA Ranges6AreBlocks ==
  /\ RangeIsBlock(Net6(100, 65435, 1, 48), <<100, 65435, 1, 0, 0, 0, 0, 0>>, 3, 1)
  /\ RangeIsBlock(Net6(256, 0, 0, 64), <<256, 0, 0, 0, 0, 0, 0, 0>>, 4, 0)
  /\ RangeIsBlock(Net6(8193, 0, 0, 32), <<8193, 0, 0, 0, 0, 0, 0, 0>>, 2, 0)
  /\ RangeIsBlock(Net6(8193, 16, 0, 28), <<8193, 16, 0, 0, 0, 0, 0, 0>>, 2, 31)
  /\ RangeIsBlock(Net6(8193, 32, 0, 28), <<8193, 32, 0, 0, 0, 0, 0, 0>>, 2, 47)
  /\ RangeIsBlock(Net6(8193, 3512, 0, 32), <<8193, 3512, 0, 0, 0, 0, 0, 0>>, 2, 3512)
  /\ RangeIsBlock(Net6(8194, 0, 0, 16), <<8194, 0, 0, 0, 0, 0, 0, 0>>, 1, 8194)
  /\ RangeIsBlock(Net6(64512, 0, 0, 7), <<64512, 0, 0, 0, 0, 0, 0, 0>>, 1, 65023)
  /\ RangeIsBlock(Net6(65152, 0, 0, 10), <<65152, 0, 0, 0, 0, 0, 0, 0>>, 1, 65215)
  /\ RangeIsBlock(Net6(65280, 0, 0, 8), <<65280, 0, 0, 0, 0, 0, 0, 0>>, 1, 65535)
  /\ RangeIsBlock(Net6(0, 0, 0, 128), <<0, 0, 0, 0, 0, 0, 0, 0>>, 8, 0)
  /\ RangeIsBlock([Net6(0, 0, 0, 128) EXCEPT !.seg[8] = 1], <<0, 0, 0, 0, 0, 0, 0, 1>>, 8, 1)
<1>1. RangeIsBlock(Net6(100, 65435, 1, 48), <<100, 65435, 1, 0, 0, 0, 0, 0>>, 3, 1)
  <2> DEFINE t == <<100, 65435, 1, 0, 0, 0, 0, 0>>
  <2>1. t \in Segments(6) /\ 3 \in Places(6) /\ 1 \in 0..Top(6) /\ t[3] = 1 /\ 1 \in 0..Top(6)
    BY Six DEF Segments
  <2>2. 16 * (3 - 1) <= 48 /\ 48 <= 16 * 3 /\ 16 * 3 - 48 = 0
    OBVIOUS
  <2>3. Net6(100, 65435, 1, 48) = [v |-> 6, seg |-> t, bits |-> 48]
    BY DEF Net6
  <2> HIDE DEF t
  <2>4. GroupBlock(t[3], 16 * 3 - 48, 1)
    BY <2>1, <2>2, GroupBlocks
  <2> QED BY <2>1, <2>2, <2>3, <2>4, Net6IsBlock DEF RangeIsBlock, t
<1>2. RangeIsBlock(Net6(256, 0, 0, 64), <<256, 0, 0, 0, 0, 0, 0, 0>>, 4, 0)
  <2> DEFINE t == <<256, 0, 0, 0, 0, 0, 0, 0>>
  <2>1. t \in Segments(6) /\ 4 \in Places(6) /\ 0 \in 0..Top(6) /\ t[4] = 0 /\ 0 \in 0..Top(6)
    BY Six DEF Segments
  <2>2. 16 * (4 - 1) <= 64 /\ 64 <= 16 * 4 /\ 16 * 4 - 64 = 0
    OBVIOUS
  <2>3. Net6(256, 0, 0, 64) = [v |-> 6, seg |-> t, bits |-> 64]
    BY DEF Net6
  <2> HIDE DEF t
  <2>4. GroupBlock(t[4], 16 * 4 - 64, 0)
    BY <2>1, <2>2, GroupBlocks
  <2> QED BY <2>1, <2>2, <2>3, <2>4, Net6IsBlock DEF RangeIsBlock, t
<1>3. RangeIsBlock(Net6(8193, 0, 0, 32), <<8193, 0, 0, 0, 0, 0, 0, 0>>, 2, 0)
  <2> DEFINE t == <<8193, 0, 0, 0, 0, 0, 0, 0>>
  <2>1. t \in Segments(6) /\ 2 \in Places(6) /\ 0 \in 0..Top(6) /\ t[2] = 0 /\ 0 \in 0..Top(6)
    BY Six DEF Segments
  <2>2. 16 * (2 - 1) <= 32 /\ 32 <= 16 * 2 /\ 16 * 2 - 32 = 0
    OBVIOUS
  <2>3. Net6(8193, 0, 0, 32) = [v |-> 6, seg |-> t, bits |-> 32]
    BY DEF Net6
  <2> HIDE DEF t
  <2>4. GroupBlock(t[2], 16 * 2 - 32, 0)
    BY <2>1, <2>2, GroupBlocks
  <2> QED BY <2>1, <2>2, <2>3, <2>4, Net6IsBlock DEF RangeIsBlock, t
<1>4. RangeIsBlock(Net6(8193, 16, 0, 28), <<8193, 16, 0, 0, 0, 0, 0, 0>>, 2, 31)
  <2> DEFINE t == <<8193, 16, 0, 0, 0, 0, 0, 0>>
  <2>1. t \in Segments(6) /\ 2 \in Places(6) /\ 31 \in 0..Top(6) /\ t[2] = 16 /\ 16 \in 0..Top(6)
    BY Six DEF Segments
  <2>2. 16 * (2 - 1) <= 28 /\ 28 <= 16 * 2 /\ 16 * 2 - 28 = 4
    OBVIOUS
  <2>3. Net6(8193, 16, 0, 28) = [v |-> 6, seg |-> t, bits |-> 28]
    BY DEF Net6
  <2> HIDE DEF t
  <2>4. GroupBlock(t[2], 16 * 2 - 28, 31)
    BY <2>1, <2>2, GroupBlocks
  <2> QED BY <2>1, <2>2, <2>3, <2>4, Net6IsBlock DEF RangeIsBlock, t
<1>5. RangeIsBlock(Net6(8193, 32, 0, 28), <<8193, 32, 0, 0, 0, 0, 0, 0>>, 2, 47)
  <2> DEFINE t == <<8193, 32, 0, 0, 0, 0, 0, 0>>
  <2>1. t \in Segments(6) /\ 2 \in Places(6) /\ 47 \in 0..Top(6) /\ t[2] = 32 /\ 32 \in 0..Top(6)
    BY Six DEF Segments
  <2>2. 16 * (2 - 1) <= 28 /\ 28 <= 16 * 2 /\ 16 * 2 - 28 = 4
    OBVIOUS
  <2>3. Net6(8193, 32, 0, 28) = [v |-> 6, seg |-> t, bits |-> 28]
    BY DEF Net6
  <2> HIDE DEF t
  <2>4. GroupBlock(t[2], 16 * 2 - 28, 47)
    BY <2>1, <2>2, GroupBlocks
  <2> QED BY <2>1, <2>2, <2>3, <2>4, Net6IsBlock DEF RangeIsBlock, t
<1>6. RangeIsBlock(Net6(8193, 3512, 0, 32), <<8193, 3512, 0, 0, 0, 0, 0, 0>>, 2, 3512)
  <2> DEFINE t == <<8193, 3512, 0, 0, 0, 0, 0, 0>>
  <2>1. t \in Segments(6) /\ 2 \in Places(6) /\ 3512 \in 0..Top(6) /\ t[2] = 3512 /\ 3512 \in 0..Top(6)
    BY Six DEF Segments
  <2>2. 16 * (2 - 1) <= 32 /\ 32 <= 16 * 2 /\ 16 * 2 - 32 = 0
    OBVIOUS
  <2>3. Net6(8193, 3512, 0, 32) = [v |-> 6, seg |-> t, bits |-> 32]
    BY DEF Net6
  <2> HIDE DEF t
  <2>4. GroupBlock(t[2], 16 * 2 - 32, 3512)
    BY <2>1, <2>2, GroupBlocks
  <2> QED BY <2>1, <2>2, <2>3, <2>4, Net6IsBlock DEF RangeIsBlock, t
<1>7. RangeIsBlock(Net6(8194, 0, 0, 16), <<8194, 0, 0, 0, 0, 0, 0, 0>>, 1, 8194)
  <2> DEFINE t == <<8194, 0, 0, 0, 0, 0, 0, 0>>
  <2>1. t \in Segments(6) /\ 1 \in Places(6) /\ 8194 \in 0..Top(6) /\ t[1] = 8194 /\ 8194 \in 0..Top(6)
    BY Six DEF Segments
  <2>2. 16 * (1 - 1) <= 16 /\ 16 <= 16 * 1 /\ 16 * 1 - 16 = 0
    OBVIOUS
  <2>3. Net6(8194, 0, 0, 16) = [v |-> 6, seg |-> t, bits |-> 16]
    BY DEF Net6
  <2> HIDE DEF t
  <2>4. GroupBlock(t[1], 16 * 1 - 16, 8194)
    BY <2>1, <2>2, GroupBlocks
  <2> QED BY <2>1, <2>2, <2>3, <2>4, Net6IsBlock DEF RangeIsBlock, t
<1>8. RangeIsBlock(Net6(64512, 0, 0, 7), <<64512, 0, 0, 0, 0, 0, 0, 0>>, 1, 65023)
  <2> DEFINE t == <<64512, 0, 0, 0, 0, 0, 0, 0>>
  <2>1. t \in Segments(6) /\ 1 \in Places(6) /\ 65023 \in 0..Top(6) /\ t[1] = 64512 /\ 64512 \in 0..Top(6)
    BY Six DEF Segments
  <2>2. 16 * (1 - 1) <= 7 /\ 7 <= 16 * 1 /\ 16 * 1 - 7 = 9
    OBVIOUS
  <2>3. Net6(64512, 0, 0, 7) = [v |-> 6, seg |-> t, bits |-> 7]
    BY DEF Net6
  <2> HIDE DEF t
  <2>4. GroupBlock(t[1], 16 * 1 - 7, 65023)
    BY <2>1, <2>2, GroupBlocks
  <2> QED BY <2>1, <2>2, <2>3, <2>4, Net6IsBlock DEF RangeIsBlock, t
<1>9. RangeIsBlock(Net6(65152, 0, 0, 10), <<65152, 0, 0, 0, 0, 0, 0, 0>>, 1, 65215)
  <2> DEFINE t == <<65152, 0, 0, 0, 0, 0, 0, 0>>
  <2>1. t \in Segments(6) /\ 1 \in Places(6) /\ 65215 \in 0..Top(6) /\ t[1] = 65152 /\ 65152 \in 0..Top(6)
    BY Six DEF Segments
  <2>2. 16 * (1 - 1) <= 10 /\ 10 <= 16 * 1 /\ 16 * 1 - 10 = 6
    OBVIOUS
  <2>3. Net6(65152, 0, 0, 10) = [v |-> 6, seg |-> t, bits |-> 10]
    BY DEF Net6
  <2> HIDE DEF t
  <2>4. GroupBlock(t[1], 16 * 1 - 10, 65215)
    BY <2>1, <2>2, GroupBlocks
  <2> QED BY <2>1, <2>2, <2>3, <2>4, Net6IsBlock DEF RangeIsBlock, t
<1>10. RangeIsBlock(Net6(65280, 0, 0, 8), <<65280, 0, 0, 0, 0, 0, 0, 0>>, 1, 65535)
  <2> DEFINE t == <<65280, 0, 0, 0, 0, 0, 0, 0>>
  <2>1. t \in Segments(6) /\ 1 \in Places(6) /\ 65535 \in 0..Top(6) /\ t[1] = 65280 /\ 65280 \in 0..Top(6)
    BY Six DEF Segments
  <2>2. 16 * (1 - 1) <= 8 /\ 8 <= 16 * 1 /\ 16 * 1 - 8 = 8
    OBVIOUS
  <2>3. Net6(65280, 0, 0, 8) = [v |-> 6, seg |-> t, bits |-> 8]
    BY DEF Net6
  <2> HIDE DEF t
  <2>4. GroupBlock(t[1], 16 * 1 - 8, 65535)
    BY <2>1, <2>2, GroupBlocks
  <2> QED BY <2>1, <2>2, <2>3, <2>4, Net6IsBlock DEF RangeIsBlock, t
<1>11. RangeIsBlock(Net6(0, 0, 0, 128), <<0, 0, 0, 0, 0, 0, 0, 0>>, 8, 0)
  <2> DEFINE t == <<0, 0, 0, 0, 0, 0, 0, 0>>
  <2>1. t \in Segments(6) /\ 8 \in Places(6) /\ 0 \in 0..Top(6) /\ t[8] = 0 /\ 0 \in 0..Top(6)
    BY Six DEF Segments
  <2>2. 16 * (8 - 1) <= 128 /\ 128 <= 16 * 8 /\ 16 * 8 - 128 = 0
    OBVIOUS
  <2>3. Net6(0, 0, 0, 128) = [v |-> 6, seg |-> t, bits |-> 128]
    BY DEF Net6
  <2> HIDE DEF t
  <2>4. GroupBlock(t[8], 16 * 8 - 128, 0)
    BY <2>1, <2>2, GroupBlocks
  <2> QED BY <2>1, <2>2, <2>3, <2>4, Net6IsBlock DEF RangeIsBlock, t
<1>12. RangeIsBlock([Net6(0, 0, 0, 128) EXCEPT !.seg[8] = 1], <<0, 0, 0, 0, 0, 0, 0, 1>>, 8, 1)
  <2> DEFINE t == <<0, 0, 0, 0, 0, 0, 0, 1>>
  <2>1. t \in Segments(6) /\ 8 \in Places(6) /\ 1 \in 0..Top(6) /\ t[8] = 1 /\ 1 \in 0..Top(6)
    BY Six DEF Segments
  <2>2. 16 * (8 - 1) <= 128 /\ 128 <= 16 * 8 /\ 16 * 8 - 128 = 0
    OBVIOUS
  <2>3. [Net6(0, 0, 0, 128) EXCEPT !.seg[8] = 1] = [v |-> 6, seg |-> t, bits |-> 128]
    BY DEF Net6
  <2> HIDE DEF t
  <2>4. GroupBlock(t[8], 16 * 8 - 128, 1)
    BY <2>1, <2>2, GroupBlocks
  <2> QED BY <2>1, <2>2, <2>3, <2>4, Net6IsBlock DEF RangeIsBlock, t
<1> QED BY <1>1, <1>2, <1>3, <1>4, <1>5, <1>6, <1>7, <1>8, <1>9, <1>10, <1>11, <1>12

\* The blocks of the intervals of IPv6.
LEMMA Intervals6AreBlocks ==
  /\ IntervalIsOf(Interval6(<<0, 0, 0, 0, 0, 0, 0, 0>>, 1), <<0, 0, 0, 0, 0, 0, 0, 0>>, 8, 1)
  /\ IntervalIsOf(Interval6(<<100, 65435, 1>>, 1), <<100, 65435, 1, 0, 0, 0, 0, 0>>, 3, 1)
  /\ IntervalIsOf(Interval6(<<256, 0, 0, 0>>, 0), <<256, 0, 0, 0, 0, 0, 0, 0>>, 4, 0)
  /\ IntervalIsOf(Interval6(<<8193, 0>>, 0), <<8193, 0, 0, 0, 0, 0, 0, 0>>, 2, 0)
  /\ IntervalIsOf(Interval6(<<8193, 16>>, 47), <<8193, 16, 0, 0, 0, 0, 0, 0>>, 2, 47)
  /\ IntervalIsOf(Interval6(<<8193, 3512>>, 3512), <<8193, 3512, 0, 0, 0, 0, 0, 0>>, 2, 3512)
  /\ IntervalIsOf(Interval6(<<8194>>, 8194), <<8194, 0, 0, 0, 0, 0, 0, 0>>, 1, 8194)
  /\ IntervalIsOf(Interval6(<<64512>>, 65023), <<64512, 0, 0, 0, 0, 0, 0, 0>>, 1, 65023)
  /\ IntervalIsOf(Interval6(<<65152>>, 65215), <<65152, 0, 0, 0, 0, 0, 0, 0>>, 1, 65215)
  /\ IntervalIsOf(Interval6(<<65280>>, 65535), <<65280, 0, 0, 0, 0, 0, 0, 0>>, 1, 65535)
<1>1. IntervalIsOf(Interval6(<<0, 0, 0, 0, 0, 0, 0, 0>>, 1), <<0, 0, 0, 0, 0, 0, 0, 0>>, 8, 1)
  <2> DEFINE t == <<0, 0, 0, 0, 0, 0, 0, 0>>
           prefix == <<0, 0, 0, 0, 0, 0, 0, 0>>
           last == 1
  <2>1. t \in Segments(6) /\ 8 \in Places(6) /\ last \in 0..Top(6)
    BY Six DEF Segments
  <2>4. Len(prefix) = 8 /\ prefix[1] = 0 /\ prefix[2] = 0 /\ prefix[3] = 0 /\ prefix[4] = 0 /\ prefix[5] = 0 /\ prefix[6] = 0 /\ prefix[7] = 0 /\ prefix[8] = 0
    OBVIOUS
  <2>5. t[1] = 0 /\ t[2] = 0 /\ t[3] = 0 /\ t[4] = 0 /\ t[5] = 0 /\ t[6] = 0 /\ t[7] = 0 /\ t[8] = 0
    OBVIOUS
  <2> HIDE DEF t, prefix, last
  <2>2. Len(prefix) = 8 /\ \A i \in Places(6) : t[i] = IF i <= 8 THEN prefix[i] ELSE 0
    BY <2>4, <2>5, Six
  <2>3. IntervalIsOf(Interval6(prefix, last), t, 8, last)
    BY <2>1, <2>2, Interval6IsBlock DEF IntervalIsOf
  <2> QED BY <2>3 DEF t, prefix, last
<1>2. IntervalIsOf(Interval6(<<100, 65435, 1>>, 1), <<100, 65435, 1, 0, 0, 0, 0, 0>>, 3, 1)
  <2> DEFINE t == <<100, 65435, 1, 0, 0, 0, 0, 0>>
           prefix == <<100, 65435, 1>>
           last == 1
  <2>1. t \in Segments(6) /\ 3 \in Places(6) /\ last \in 0..Top(6)
    BY Six DEF Segments
  <2>4. Len(prefix) = 3 /\ prefix[1] = 100 /\ prefix[2] = 65435 /\ prefix[3] = 1
    OBVIOUS
  <2>5. t[1] = 100 /\ t[2] = 65435 /\ t[3] = 1 /\ t[4] = 0 /\ t[5] = 0 /\ t[6] = 0 /\ t[7] = 0 /\ t[8] = 0
    OBVIOUS
  <2> HIDE DEF t, prefix, last
  <2>2. Len(prefix) = 3 /\ \A i \in Places(6) : t[i] = IF i <= 3 THEN prefix[i] ELSE 0
    BY <2>4, <2>5, Six
  <2>3. IntervalIsOf(Interval6(prefix, last), t, 3, last)
    BY <2>1, <2>2, Interval6IsBlock DEF IntervalIsOf
  <2> QED BY <2>3 DEF t, prefix, last
<1>3. IntervalIsOf(Interval6(<<256, 0, 0, 0>>, 0), <<256, 0, 0, 0, 0, 0, 0, 0>>, 4, 0)
  <2> DEFINE t == <<256, 0, 0, 0, 0, 0, 0, 0>>
           prefix == <<256, 0, 0, 0>>
           last == 0
  <2>1. t \in Segments(6) /\ 4 \in Places(6) /\ last \in 0..Top(6)
    BY Six DEF Segments
  <2>4. Len(prefix) = 4 /\ prefix[1] = 256 /\ prefix[2] = 0 /\ prefix[3] = 0 /\ prefix[4] = 0
    OBVIOUS
  <2>5. t[1] = 256 /\ t[2] = 0 /\ t[3] = 0 /\ t[4] = 0 /\ t[5] = 0 /\ t[6] = 0 /\ t[7] = 0 /\ t[8] = 0
    OBVIOUS
  <2> HIDE DEF t, prefix, last
  <2>2. Len(prefix) = 4 /\ \A i \in Places(6) : t[i] = IF i <= 4 THEN prefix[i] ELSE 0
    BY <2>4, <2>5, Six
  <2>3. IntervalIsOf(Interval6(prefix, last), t, 4, last)
    BY <2>1, <2>2, Interval6IsBlock DEF IntervalIsOf
  <2> QED BY <2>3 DEF t, prefix, last
<1>4. IntervalIsOf(Interval6(<<8193, 0>>, 0), <<8193, 0, 0, 0, 0, 0, 0, 0>>, 2, 0)
  <2> DEFINE t == <<8193, 0, 0, 0, 0, 0, 0, 0>>
           prefix == <<8193, 0>>
           last == 0
  <2>1. t \in Segments(6) /\ 2 \in Places(6) /\ last \in 0..Top(6)
    BY Six DEF Segments
  <2>4. Len(prefix) = 2 /\ prefix[1] = 8193 /\ prefix[2] = 0
    OBVIOUS
  <2>5. t[1] = 8193 /\ t[2] = 0 /\ t[3] = 0 /\ t[4] = 0 /\ t[5] = 0 /\ t[6] = 0 /\ t[7] = 0 /\ t[8] = 0
    OBVIOUS
  <2> HIDE DEF t, prefix, last
  <2>2. Len(prefix) = 2 /\ \A i \in Places(6) : t[i] = IF i <= 2 THEN prefix[i] ELSE 0
    BY <2>4, <2>5, Six
  <2>3. IntervalIsOf(Interval6(prefix, last), t, 2, last)
    BY <2>1, <2>2, Interval6IsBlock DEF IntervalIsOf
  <2> QED BY <2>3 DEF t, prefix, last
<1>5. IntervalIsOf(Interval6(<<8193, 16>>, 47), <<8193, 16, 0, 0, 0, 0, 0, 0>>, 2, 47)
  <2> DEFINE t == <<8193, 16, 0, 0, 0, 0, 0, 0>>
           prefix == <<8193, 16>>
           last == 47
  <2>1. t \in Segments(6) /\ 2 \in Places(6) /\ last \in 0..Top(6)
    BY Six DEF Segments
  <2>4. Len(prefix) = 2 /\ prefix[1] = 8193 /\ prefix[2] = 16
    OBVIOUS
  <2>5. t[1] = 8193 /\ t[2] = 16 /\ t[3] = 0 /\ t[4] = 0 /\ t[5] = 0 /\ t[6] = 0 /\ t[7] = 0 /\ t[8] = 0
    OBVIOUS
  <2> HIDE DEF t, prefix, last
  <2>2. Len(prefix) = 2 /\ \A i \in Places(6) : t[i] = IF i <= 2 THEN prefix[i] ELSE 0
    BY <2>4, <2>5, Six
  <2>3. IntervalIsOf(Interval6(prefix, last), t, 2, last)
    BY <2>1, <2>2, Interval6IsBlock DEF IntervalIsOf
  <2> QED BY <2>3 DEF t, prefix, last
<1>6. IntervalIsOf(Interval6(<<8193, 3512>>, 3512), <<8193, 3512, 0, 0, 0, 0, 0, 0>>, 2, 3512)
  <2> DEFINE t == <<8193, 3512, 0, 0, 0, 0, 0, 0>>
           prefix == <<8193, 3512>>
           last == 3512
  <2>1. t \in Segments(6) /\ 2 \in Places(6) /\ last \in 0..Top(6)
    BY Six DEF Segments
  <2>4. Len(prefix) = 2 /\ prefix[1] = 8193 /\ prefix[2] = 3512
    OBVIOUS
  <2>5. t[1] = 8193 /\ t[2] = 3512 /\ t[3] = 0 /\ t[4] = 0 /\ t[5] = 0 /\ t[6] = 0 /\ t[7] = 0 /\ t[8] = 0
    OBVIOUS
  <2> HIDE DEF t, prefix, last
  <2>2. Len(prefix) = 2 /\ \A i \in Places(6) : t[i] = IF i <= 2 THEN prefix[i] ELSE 0
    BY <2>4, <2>5, Six
  <2>3. IntervalIsOf(Interval6(prefix, last), t, 2, last)
    BY <2>1, <2>2, Interval6IsBlock DEF IntervalIsOf
  <2> QED BY <2>3 DEF t, prefix, last
<1>7. IntervalIsOf(Interval6(<<8194>>, 8194), <<8194, 0, 0, 0, 0, 0, 0, 0>>, 1, 8194)
  <2> DEFINE t == <<8194, 0, 0, 0, 0, 0, 0, 0>>
           prefix == <<8194>>
           last == 8194
  <2>1. t \in Segments(6) /\ 1 \in Places(6) /\ last \in 0..Top(6)
    BY Six DEF Segments
  <2>4. Len(prefix) = 1 /\ prefix[1] = 8194
    OBVIOUS
  <2>5. t[1] = 8194 /\ t[2] = 0 /\ t[3] = 0 /\ t[4] = 0 /\ t[5] = 0 /\ t[6] = 0 /\ t[7] = 0 /\ t[8] = 0
    OBVIOUS
  <2> HIDE DEF t, prefix, last
  <2>2. Len(prefix) = 1 /\ \A i \in Places(6) : t[i] = IF i <= 1 THEN prefix[i] ELSE 0
    BY <2>4, <2>5, Six
  <2>3. IntervalIsOf(Interval6(prefix, last), t, 1, last)
    BY <2>1, <2>2, Interval6IsBlock DEF IntervalIsOf
  <2> QED BY <2>3 DEF t, prefix, last
<1>8. IntervalIsOf(Interval6(<<64512>>, 65023), <<64512, 0, 0, 0, 0, 0, 0, 0>>, 1, 65023)
  <2> DEFINE t == <<64512, 0, 0, 0, 0, 0, 0, 0>>
           prefix == <<64512>>
           last == 65023
  <2>1. t \in Segments(6) /\ 1 \in Places(6) /\ last \in 0..Top(6)
    BY Six DEF Segments
  <2>4. Len(prefix) = 1 /\ prefix[1] = 64512
    OBVIOUS
  <2>5. t[1] = 64512 /\ t[2] = 0 /\ t[3] = 0 /\ t[4] = 0 /\ t[5] = 0 /\ t[6] = 0 /\ t[7] = 0 /\ t[8] = 0
    OBVIOUS
  <2> HIDE DEF t, prefix, last
  <2>2. Len(prefix) = 1 /\ \A i \in Places(6) : t[i] = IF i <= 1 THEN prefix[i] ELSE 0
    BY <2>4, <2>5, Six
  <2>3. IntervalIsOf(Interval6(prefix, last), t, 1, last)
    BY <2>1, <2>2, Interval6IsBlock DEF IntervalIsOf
  <2> QED BY <2>3 DEF t, prefix, last
<1>9. IntervalIsOf(Interval6(<<65152>>, 65215), <<65152, 0, 0, 0, 0, 0, 0, 0>>, 1, 65215)
  <2> DEFINE t == <<65152, 0, 0, 0, 0, 0, 0, 0>>
           prefix == <<65152>>
           last == 65215
  <2>1. t \in Segments(6) /\ 1 \in Places(6) /\ last \in 0..Top(6)
    BY Six DEF Segments
  <2>4. Len(prefix) = 1 /\ prefix[1] = 65152
    OBVIOUS
  <2>5. t[1] = 65152 /\ t[2] = 0 /\ t[3] = 0 /\ t[4] = 0 /\ t[5] = 0 /\ t[6] = 0 /\ t[7] = 0 /\ t[8] = 0
    OBVIOUS
  <2> HIDE DEF t, prefix, last
  <2>2. Len(prefix) = 1 /\ \A i \in Places(6) : t[i] = IF i <= 1 THEN prefix[i] ELSE 0
    BY <2>4, <2>5, Six
  <2>3. IntervalIsOf(Interval6(prefix, last), t, 1, last)
    BY <2>1, <2>2, Interval6IsBlock DEF IntervalIsOf
  <2> QED BY <2>3 DEF t, prefix, last
<1>10. IntervalIsOf(Interval6(<<65280>>, 65535), <<65280, 0, 0, 0, 0, 0, 0, 0>>, 1, 65535)
  <2> DEFINE t == <<65280, 0, 0, 0, 0, 0, 0, 0>>
           prefix == <<65280>>
           last == 65535
  <2>1. t \in Segments(6) /\ 1 \in Places(6) /\ last \in 0..Top(6)
    BY Six DEF Segments
  <2>4. Len(prefix) = 1 /\ prefix[1] = 65280
    OBVIOUS
  <2>5. t[1] = 65280 /\ t[2] = 0 /\ t[3] = 0 /\ t[4] = 0 /\ t[5] = 0 /\ t[6] = 0 /\ t[7] = 0 /\ t[8] = 0
    OBVIOUS
  <2> HIDE DEF t, prefix, last
  <2>2. Len(prefix) = 1 /\ \A i \in Places(6) : t[i] = IF i <= 1 THEN prefix[i] ELSE 0
    BY <2>4, <2>5, Six
  <2>3. IntervalIsOf(Interval6(prefix, last), t, 1, last)
    BY <2>1, <2>2, Interval6IsBlock DEF IntervalIsOf
  <2> QED BY <2>3 DEF t, prefix, last
<1> QED BY <1>1, <1>2, <1>3, <1>4, <1>5, <1>6, <1>7, <1>8, <1>9, <1>10

Ranges6 == {Net6(100, 65435, 1, 48), Net6(256, 0, 0, 64), Net6(8193, 0, 0, 32),
            Net6(8193, 16, 0, 28), Net6(8193, 32, 0, 28), Net6(8193, 3512, 0, 32),
            Net6(8194, 0, 0, 16), Net6(64512, 0, 0, 7), Net6(65152, 0, 0, 10),
            Net6(65280, 0, 0, 8), Net6(0, 0, 0, 128), [Net6(0, 0, 0, 128) EXCEPT !.seg[8] = 1]}
Intervals6 == {Interval6(<<0, 0, 0, 0, 0, 0, 0, 0>>, 1), Interval6(<<100, 65435, 1>>, 1),
               Interval6(<<256, 0, 0, 0>>, 0), Interval6(<<8193, 0>>, 0),
               Interval6(<<8193, 16>>, 47), Interval6(<<8193, 3512>>, 3512),
               Interval6(<<8194>>, 8194), Interval6(<<64512>>, 65023),
               Interval6(<<65152>>, 65215), Interval6(<<65280>>, 65535)}

\* No range of IPv4 has an IPv6 address.
LEMMA OnlyRanges6 ==
  ASSUME NEW ip, ip.v = 6
  PROVE  /\ (\E net \in PRIVATE_RANGES : InNet(net, ip)) <=> \E net \in Ranges6 : InNet(net, ip)
         /\ (\E r \in ReservedIntervals : Within(ip, r)) <=> \E r \in Intervals6 : Within(ip, r)
<1>1. Ranges6 \subseteq PRIVATE_RANGES /\ Intervals6 \subseteq ReservedIntervals
  BY DEF Ranges6, PRIVATE_RANGES, Intervals6, ReservedIntervals
<1>2. \A net \in PRIVATE_RANGES \ Ranges6 : net.v = 4
  BY DEF Ranges6, PRIVATE_RANGES, Net4
<1>3. \A r \in ReservedIntervals \ Intervals6 : r[1].v = 4
  BY DEF Intervals6, ReservedIntervals, Interval4
<1> QED BY <1>1, <1>2, <1>3 DEF InNet, Within

\* The blocks of groups that are reserved.
ReservedGroups(s) ==
  \/ InBlock(s, <<0, 0, 0, 0, 0, 0, 0, 0>>, 8, 1)
  \/ InBlock(s, <<100, 65435, 1, 0, 0, 0, 0, 0>>, 3, 1)
  \/ InBlock(s, <<256, 0, 0, 0, 0, 0, 0, 0>>, 4, 0)
  \/ InBlock(s, <<8193, 0, 0, 0, 0, 0, 0, 0>>, 2, 0)
  \/ InBlock(s, <<8193, 16, 0, 0, 0, 0, 0, 0>>, 2, 47)
  \/ InBlock(s, <<8193, 3512, 0, 0, 0, 0, 0, 0>>, 2, 3512)
  \/ InBlock(s, <<8194, 0, 0, 0, 0, 0, 0, 0>>, 1, 8194)
  \/ InBlock(s, <<64512, 0, 0, 0, 0, 0, 0, 0>>, 1, 65023)
  \/ InBlock(s, <<65152, 0, 0, 0, 0, 0, 0, 0>>, 1, 65215)
  \/ InBlock(s, <<65280, 0, 0, 0, 0, 0, 0, 0>>, 1, 65535)

\* The groups of the addresses in the ranges.
LEMMA AddressesInRanges6 ==
  ASSUME NEW s \in Segments(6)
  PROVE  (\E net \in Ranges6 : InNet(net, [v |-> 6, seg |-> s])) <=> ReservedGroups(s)
<1> DEFINE ip == [v |-> 6, seg |-> s]
<1>1. InNet(Net6(100, 65435, 1, 48), ip) <=> InBlock(s, <<100, 65435, 1, 0, 0, 0, 0, 0>>, 3, 1)
  <2>1. RangeIsBlock(Net6(100, 65435, 1, 48), <<100, 65435, 1, 0, 0, 0, 0, 0>>, 3, 1)
    BY Ranges6AreBlocks
  <2> QED BY <2>1 DEF RangeIsBlock
<1>2. InNet(Net6(256, 0, 0, 64), ip) <=> InBlock(s, <<256, 0, 0, 0, 0, 0, 0, 0>>, 4, 0)
  <2>1. RangeIsBlock(Net6(256, 0, 0, 64), <<256, 0, 0, 0, 0, 0, 0, 0>>, 4, 0)
    BY Ranges6AreBlocks
  <2> QED BY <2>1 DEF RangeIsBlock
<1>3. InNet(Net6(8193, 0, 0, 32), ip) <=> InBlock(s, <<8193, 0, 0, 0, 0, 0, 0, 0>>, 2, 0)
  <2>1. RangeIsBlock(Net6(8193, 0, 0, 32), <<8193, 0, 0, 0, 0, 0, 0, 0>>, 2, 0)
    BY Ranges6AreBlocks
  <2> QED BY <2>1 DEF RangeIsBlock
<1>4. InNet(Net6(8193, 16, 0, 28), ip) <=> InBlock(s, <<8193, 16, 0, 0, 0, 0, 0, 0>>, 2, 31)
  <2>1. RangeIsBlock(Net6(8193, 16, 0, 28), <<8193, 16, 0, 0, 0, 0, 0, 0>>, 2, 31)
    BY Ranges6AreBlocks
  <2> QED BY <2>1 DEF RangeIsBlock
<1>5. InNet(Net6(8193, 32, 0, 28), ip) <=> InBlock(s, <<8193, 32, 0, 0, 0, 0, 0, 0>>, 2, 47)
  <2>1. RangeIsBlock(Net6(8193, 32, 0, 28), <<8193, 32, 0, 0, 0, 0, 0, 0>>, 2, 47)
    BY Ranges6AreBlocks
  <2> QED BY <2>1 DEF RangeIsBlock
<1>6. InNet(Net6(8193, 3512, 0, 32), ip) <=> InBlock(s, <<8193, 3512, 0, 0, 0, 0, 0, 0>>, 2, 3512)
  <2>1. RangeIsBlock(Net6(8193, 3512, 0, 32), <<8193, 3512, 0, 0, 0, 0, 0, 0>>, 2, 3512)
    BY Ranges6AreBlocks
  <2> QED BY <2>1 DEF RangeIsBlock
<1>7. InNet(Net6(8194, 0, 0, 16), ip) <=> InBlock(s, <<8194, 0, 0, 0, 0, 0, 0, 0>>, 1, 8194)
  <2>1. RangeIsBlock(Net6(8194, 0, 0, 16), <<8194, 0, 0, 0, 0, 0, 0, 0>>, 1, 8194)
    BY Ranges6AreBlocks
  <2> QED BY <2>1 DEF RangeIsBlock
<1>8. InNet(Net6(64512, 0, 0, 7), ip) <=> InBlock(s, <<64512, 0, 0, 0, 0, 0, 0, 0>>, 1, 65023)
  <2>1. RangeIsBlock(Net6(64512, 0, 0, 7), <<64512, 0, 0, 0, 0, 0, 0, 0>>, 1, 65023)
    BY Ranges6AreBlocks
  <2> QED BY <2>1 DEF RangeIsBlock
<1>9. InNet(Net6(65152, 0, 0, 10), ip) <=> InBlock(s, <<65152, 0, 0, 0, 0, 0, 0, 0>>, 1, 65215)
  <2>1. RangeIsBlock(Net6(65152, 0, 0, 10), <<65152, 0, 0, 0, 0, 0, 0, 0>>, 1, 65215)
    BY Ranges6AreBlocks
  <2> QED BY <2>1 DEF RangeIsBlock
<1>10. InNet(Net6(65280, 0, 0, 8), ip) <=> InBlock(s, <<65280, 0, 0, 0, 0, 0, 0, 0>>, 1, 65535)
  <2>1. RangeIsBlock(Net6(65280, 0, 0, 8), <<65280, 0, 0, 0, 0, 0, 0, 0>>, 1, 65535)
    BY Ranges6AreBlocks
  <2> QED BY <2>1 DEF RangeIsBlock
<1>11. InNet(Net6(0, 0, 0, 128), ip) <=> InBlock(s, <<0, 0, 0, 0, 0, 0, 0, 0>>, 8, 0)
  <2>1. RangeIsBlock(Net6(0, 0, 0, 128), <<0, 0, 0, 0, 0, 0, 0, 0>>, 8, 0)
    BY Ranges6AreBlocks
  <2> QED BY <2>1 DEF RangeIsBlock
<1>12. InNet([Net6(0, 0, 0, 128) EXCEPT !.seg[8] = 1], ip) <=> InBlock(s, <<0, 0, 0, 0, 0, 0, 0, 1>>, 8, 1)
  <2>1. RangeIsBlock([Net6(0, 0, 0, 128) EXCEPT !.seg[8] = 1], <<0, 0, 0, 0, 0, 0, 0, 1>>, 8, 1)
    BY Ranges6AreBlocks
  <2> QED BY <2>1 DEF RangeIsBlock
<1>13. InBlock(s, <<0, 0, 0, 0, 0, 0, 0, 0>>, 8, 0) \/ InBlock(s, <<0, 0, 0, 0, 0, 0, 0, 1>>, 8, 1) <=> InBlock(s, <<0, 0, 0, 0, 0, 0, 0, 0>>, 8, 1)
  BY Six DEF InBlock, Segments
<1>14. InBlock(s, <<8193, 16, 0, 0, 0, 0, 0, 0>>, 2, 31) \/ InBlock(s, <<8193, 32, 0, 0, 0, 0, 0, 0>>, 2, 47) <=> InBlock(s, <<8193, 16, 0, 0, 0, 0, 0, 0>>, 2, 47)
  BY Six DEF InBlock, Segments
<1>15. (\E net \in Ranges6 : InNet(net, ip)) <=>
         \/ InNet(Net6(100, 65435, 1, 48), ip)
         \/ InNet(Net6(256, 0, 0, 64), ip)
         \/ InNet(Net6(8193, 0, 0, 32), ip)
         \/ InNet(Net6(8193, 16, 0, 28), ip)
         \/ InNet(Net6(8193, 32, 0, 28), ip)
         \/ InNet(Net6(8193, 3512, 0, 32), ip)
         \/ InNet(Net6(8194, 0, 0, 16), ip)
         \/ InNet(Net6(64512, 0, 0, 7), ip)
         \/ InNet(Net6(65152, 0, 0, 10), ip)
         \/ InNet(Net6(65280, 0, 0, 8), ip)
         \/ InNet(Net6(0, 0, 0, 128), ip)
         \/ InNet([Net6(0, 0, 0, 128) EXCEPT !.seg[8] = 1], ip)
  BY DEF Ranges6
<1> HIDE DEF ip
<1> QED BY <1>1, <1>2, <1>3, <1>4, <1>5, <1>6, <1>7, <1>8, <1>9, <1>10, <1>11, <1>12, <1>13, <1>14, <1>15 DEF ReservedGroups, ip

\* Those of the addresses in the intervals, the same.
LEMMA AddressesInIntervals6 ==
  ASSUME NEW s \in Segments(6)
  PROVE  (\E r \in Intervals6 : Within([v |-> 6, seg |-> s], r)) <=> ReservedGroups(s)
<1> DEFINE ip == [v |-> 6, seg |-> s]
<1>1. Within(ip, Interval6(<<0, 0, 0, 0, 0, 0, 0, 0>>, 1)) <=> InBlock(s, <<0, 0, 0, 0, 0, 0, 0, 0>>, 8, 1)
  <2>1. IntervalIsOf(Interval6(<<0, 0, 0, 0, 0, 0, 0, 0>>, 1), <<0, 0, 0, 0, 0, 0, 0, 0>>, 8, 1)
    BY Intervals6AreBlocks
  <2> QED BY <2>1 DEF IntervalIsOf
<1>2. Within(ip, Interval6(<<100, 65435, 1>>, 1)) <=> InBlock(s, <<100, 65435, 1, 0, 0, 0, 0, 0>>, 3, 1)
  <2>1. IntervalIsOf(Interval6(<<100, 65435, 1>>, 1), <<100, 65435, 1, 0, 0, 0, 0, 0>>, 3, 1)
    BY Intervals6AreBlocks
  <2> QED BY <2>1 DEF IntervalIsOf
<1>3. Within(ip, Interval6(<<256, 0, 0, 0>>, 0)) <=> InBlock(s, <<256, 0, 0, 0, 0, 0, 0, 0>>, 4, 0)
  <2>1. IntervalIsOf(Interval6(<<256, 0, 0, 0>>, 0), <<256, 0, 0, 0, 0, 0, 0, 0>>, 4, 0)
    BY Intervals6AreBlocks
  <2> QED BY <2>1 DEF IntervalIsOf
<1>4. Within(ip, Interval6(<<8193, 0>>, 0)) <=> InBlock(s, <<8193, 0, 0, 0, 0, 0, 0, 0>>, 2, 0)
  <2>1. IntervalIsOf(Interval6(<<8193, 0>>, 0), <<8193, 0, 0, 0, 0, 0, 0, 0>>, 2, 0)
    BY Intervals6AreBlocks
  <2> QED BY <2>1 DEF IntervalIsOf
<1>5. Within(ip, Interval6(<<8193, 16>>, 47)) <=> InBlock(s, <<8193, 16, 0, 0, 0, 0, 0, 0>>, 2, 47)
  <2>1. IntervalIsOf(Interval6(<<8193, 16>>, 47), <<8193, 16, 0, 0, 0, 0, 0, 0>>, 2, 47)
    BY Intervals6AreBlocks
  <2> QED BY <2>1 DEF IntervalIsOf
<1>6. Within(ip, Interval6(<<8193, 3512>>, 3512)) <=> InBlock(s, <<8193, 3512, 0, 0, 0, 0, 0, 0>>, 2, 3512)
  <2>1. IntervalIsOf(Interval6(<<8193, 3512>>, 3512), <<8193, 3512, 0, 0, 0, 0, 0, 0>>, 2, 3512)
    BY Intervals6AreBlocks
  <2> QED BY <2>1 DEF IntervalIsOf
<1>7. Within(ip, Interval6(<<8194>>, 8194)) <=> InBlock(s, <<8194, 0, 0, 0, 0, 0, 0, 0>>, 1, 8194)
  <2>1. IntervalIsOf(Interval6(<<8194>>, 8194), <<8194, 0, 0, 0, 0, 0, 0, 0>>, 1, 8194)
    BY Intervals6AreBlocks
  <2> QED BY <2>1 DEF IntervalIsOf
<1>8. Within(ip, Interval6(<<64512>>, 65023)) <=> InBlock(s, <<64512, 0, 0, 0, 0, 0, 0, 0>>, 1, 65023)
  <2>1. IntervalIsOf(Interval6(<<64512>>, 65023), <<64512, 0, 0, 0, 0, 0, 0, 0>>, 1, 65023)
    BY Intervals6AreBlocks
  <2> QED BY <2>1 DEF IntervalIsOf
<1>9. Within(ip, Interval6(<<65152>>, 65215)) <=> InBlock(s, <<65152, 0, 0, 0, 0, 0, 0, 0>>, 1, 65215)
  <2>1. IntervalIsOf(Interval6(<<65152>>, 65215), <<65152, 0, 0, 0, 0, 0, 0, 0>>, 1, 65215)
    BY Intervals6AreBlocks
  <2> QED BY <2>1 DEF IntervalIsOf
<1>10. Within(ip, Interval6(<<65280>>, 65535)) <=> InBlock(s, <<65280, 0, 0, 0, 0, 0, 0, 0>>, 1, 65535)
  <2>1. IntervalIsOf(Interval6(<<65280>>, 65535), <<65280, 0, 0, 0, 0, 0, 0, 0>>, 1, 65535)
    BY Intervals6AreBlocks
  <2> QED BY <2>1 DEF IntervalIsOf
<1>11. (\E r \in Intervals6 : Within(ip, r)) <=>
         \/ Within(ip, Interval6(<<0, 0, 0, 0, 0, 0, 0, 0>>, 1))
         \/ Within(ip, Interval6(<<100, 65435, 1>>, 1))
         \/ Within(ip, Interval6(<<256, 0, 0, 0>>, 0))
         \/ Within(ip, Interval6(<<8193, 0>>, 0))
         \/ Within(ip, Interval6(<<8193, 16>>, 47))
         \/ Within(ip, Interval6(<<8193, 3512>>, 3512))
         \/ Within(ip, Interval6(<<8194>>, 8194))
         \/ Within(ip, Interval6(<<64512>>, 65023))
         \/ Within(ip, Interval6(<<65152>>, 65215))
         \/ Within(ip, Interval6(<<65280>>, 65535))
  BY DEF Intervals6
<1> HIDE DEF ip
<1> QED BY <1>1, <1>2, <1>3, <1>4, <1>5, <1>6, <1>7, <1>8, <1>9, <1>10, <1>11 DEF ReservedGroups, ip

\* The ranges and the intervals have the same IPv6 addresses.
LEMMA SameIPv6 ==
  ASSUME NEW s \in Segments(6), NEW ip, ip = [v |-> 6, seg |-> s]
  PROVE  (\E net \in PRIVATE_RANGES : InNet(net, ip)) <=> \E r \in ReservedIntervals : Within(ip, r)
BY AddressesInRanges6, AddressesInIntervals6, OnlyRanges6

----------------------------------------------------------------------------
(* IPv4 addresses written as IPv6 addresses *)

EmbeddingPrefixes == {<<0, 0, 0, 0, 0, 65535>>, <<100, 65435, 0, 0, 0, 0>>}

\* A segment of IPv6 is a group.
LEMMA GroupOf ==
  ASSUME NEW s \in Segments(6), NEW i \in Places(6)
  PROVE  s[i] \in Group
BY DEF Segments, Group

\* A group is its two octets.
LEMMA HighAndLow ==
  ASSUME NEW x \in Group
  PROVE  x \div 256 \in Octet /\ x % 256 \in Octet /\ (x \div 256) * 256 + (x % 256) = x
<1> DEFINE q == x \div 256
           r == x % 256
<1>1. x \in Int /\ 0 <= x /\ x <= 65535
  BY Six DEF Group
<1>2. x \div 256 \in 0..255
  BY <1>1
<1>3. x % 256 \in 0..255
  BY <1>1
<1>4. q = x \div 256 /\ r = x % 256
  OBVIOUS
<1>5. q \in Int /\ r \in Int
  BY <1>2, <1>3
<1> HIDE DEF q, r
<1>6. r = x - 256 * q
  BY <1>1, <1>4, <1>5
<1>7. q * 256 + r = x
  BY <1>1, <1>5, <1>6
<1> QED BY <1>2, <1>3, <1>4, <1>7 DEF Octet

\* Four octets are the segments of an IPv4 address.
LEMMA InOctets ==
  ASSUME NEW a \in Octet, NEW b \in Octet, NEW c \in Octet, NEW d \in Octet
  PROVE  <<a, b, c, d>> \in Octets
BY DEF Octets, Octet

\* The IPv4 address in the last two groups, and the groups it was read from.
LEMMA LastGroups ==
  ASSUME NEW s \in Segments(6)
  PROVE  LET seg == IPv4In([v |-> 6, seg |-> s]).seg
         IN  /\ IPv4In([v |-> 6, seg |-> s]) = [v |-> 4, seg |-> seg] /\ seg \in Octets
             /\ seg[1] * 256 + seg[2] = s[7] /\ seg[3] * 256 + seg[4] = s[8]
<1> DEFINE a == s[7] \div 256
           b == s[7] % 256
           c == s[8] \div 256
           d == s[8] % 256
<1>1. s[7] \in Group /\ s[8] \in Group
  <2>1. 7 \in Places(6) /\ 8 \in Places(6)
    BY Six
  <2>2. s[7] \in Group
    BY <2>1, GroupOf, Zenon
  <2>3. s[8] \in Group
    BY <2>1, GroupOf, Zenon
  <2> QED BY <2>2, <2>3
<1>2. a \in Octet /\ b \in Octet /\ a * 256 + b = s[7]
  BY <1>1, HighAndLow, Zenon
<1>3. c \in Octet /\ d \in Octet /\ c * 256 + d = s[8]
  BY <1>1, HighAndLow, Zenon
<1>4. IPv4In([v |-> 6, seg |-> s]) = [v |-> 4, seg |-> <<a, b, c, d>>]
  BY DEF IPv4In, IPv4
<1> HIDE DEF a, b, c, d
<1>5. <<a, b, c, d>> \in Octets
  BY <1>2, <1>3, InOctets
<1> QED BY <1>2, <1>3, <1>4, <1>5


\* Where the segments of two joined parts are.
LEMMA TwoAfterSix ==
  ASSUME NEW m \in Seq(Int), NEW n \in Seq(Int), Len(m) = 6, Len(n) = 2
  PROVE  m \o n = [i \in 1..8 |-> IF i <= 6 THEN m[i] ELSE n[i - 6]]
<1> DEFINE mn == m \o n
<1>1. /\ mn \in Seq(Int)
      /\ Len(mn) = Len(m) + Len(n)
      /\ \A i \in 1..Len(m) + Len(n) : mn[i] = IF i <= Len(m) THEN m[i] ELSE n[i - Len(m)]
  BY ConcatProperties, Zenon
<1> HIDE DEF mn
<1>2. Len(mn) = 8 /\ \A i \in 1..8 : mn[i] = IF i <= 6 THEN m[i] ELSE n[i - 6]
  BY <1>1
<1>3. mn = [i \in 1..Len(mn) |-> mn[i]]
  BY <1>1
<1> QED BY <1>2, <1>3 DEF mn

\* An address written with six given groups first, and the address itself,
\* agree when those groups are its first six.
LEMMA FirstSix ==
  ASSUME NEW s \in Segments(6), NEW m \in Seq(Int), Len(m) = 6
  PROVE  /\ SubSeq(s, 1, 6) = m <=> \A i \in 1..6 : s[i] = m[i]
         /\ s = m \o <<s[7], s[8]>> <=> \A i \in 1..6 : s[i] = m[i]
<1> DEFINE n == <<s[7], s[8]>>
<1>1. s = [i \in 1..8 |-> s[i]]
  <2>1. s = [i \in Places(6) |-> s[i]]
    BY DEF Segments
  <2> QED BY <2>1, Six
<1>2. SubSeq(s, 1, 6) = [i \in 1..6 |-> s[i]]
  BY SMT
<1>3. m = [i \in 1..6 |-> m[i]]
  OBVIOUS
<1>4. s[7] \in Int /\ s[8] \in Int
  <2>1. 7 \in Places(6) /\ 8 \in Places(6)
    BY Six
  <2>2. s[7] \in Group
    BY <2>1, GroupOf, Zenon
  <2>3. s[8] \in Group
    BY <2>1, GroupOf, Zenon
  <2> QED BY <2>2, <2>3, Six DEF Group
<1>5. n \in Seq(Int) /\ Len(n) = 2 /\ n[1] = s[7] /\ n[2] = s[8]
  BY <1>4
<1> HIDE DEF n
<1>6. m \o n = [i \in 1..8 |-> IF i <= 6 THEN m[i] ELSE n[i - 6]]
  BY <1>5, TwoAfterSix, Zenon
<1>7. s = m \o n <=> \A i \in 1..6 : s[i] = m[i]
  <2>1. ASSUME s = m \o n PROVE \A i \in 1..6 : s[i] = m[i]
    BY <1>6, <2>1
  <2>2. ASSUME \A i \in 1..6 : s[i] = m[i] PROVE s = m \o n
    <3>1. \A i \in 1..8 : s[i] = IF i <= 6 THEN m[i] ELSE n[i - 6]
      BY <1>5, <2>2
    <3> QED BY <1>1, <1>6, <3>1
  <2> QED BY <2>1, <2>2
<1>8. SubSeq(s, 1, 6) = m <=> \A i \in 1..6 : s[i] = m[i]
  BY <1>2, <1>3
<1> QED BY <1>7, <1>8 DEF n

\* What stands before an embedded IPv4 address has six groups.
LEMMA PrefixesAreSix == \A m \in EmbeddingPrefixes : m \in Seq(Int) /\ Len(m) = 6
<1> DEFINE m == <<0, 0, 0, 0, 0, 65535>>
           n == <<100, 65435, 0, 0, 0, 0>>
<1>1. m \in Seq(Int) /\ Len(m) = 6 /\ n \in Seq(Int) /\ Len(n) = 6
  OBVIOUS
<1>2. EmbeddingPrefixes = {m, n}
  BY DEF EmbeddingPrefixes
<1> HIDE DEF m, n
<1> QED BY <1>1, <1>2

\* Eight groups are the segments of an IPv6 address.
LEMMA SegmentsAreGroups == Segments(6) = Groups
BY DEF Segments, Groups, Places, Top

\* An address is one of the two forms of the IPv4 address in its last groups
\* when its first six groups are one of the two prefixes.
LEMMA Embedded ==
  ASSUME NEW s \in Segments(6), NEW ip, ip = [v |-> 6, seg |-> s]
  PROVE  SubSeq(s, 1, 6) \in EmbeddingPrefixes <=> ip \in Embeddings(IPv4In(ip))
<1>1. ASSUME NEW m \in EmbeddingPrefixes
      PROVE  SubSeq(s, 1, 6) = m <=> ip = Mapped(IPv4In(ip), m)
  <2>1. SubSeq(s, 1, 6) = m <=> s = m \o <<s[7], s[8]>>
    BY FirstSix, PrefixesAreSix, Zenon
  <2> DEFINE t == m \o <<s[7], s[8]>>
             other == Mapped(IPv4In(ip), m)
  <2>2. other = [v |-> 6, seg |-> t]
    BY LastGroups, ZenonT(30) DEF Mapped, IPv6
  <2>3. SubSeq(s, 1, 6) = m <=> s = t
    BY <2>1
  <2> HIDE DEF t, other
  <2>4. ip = other <=> s = t
    BY <2>2
  <2>5. SubSeq(s, 1, 6) = m <=> ip = other
    BY <2>3, <2>4, Zenon
  <2> QED BY <2>5 DEF other
<1>2. ip \in Embeddings(IPv4In(ip)) <=> \E m \in EmbeddingPrefixes : ip = Mapped(IPv4In(ip), m)
  BY DEF Embeddings, EmbeddingPrefixes
<1> QED BY <1>1, <1>2, Zenon

\* Neither form of an IPv4 address is in a range of IPv6 addresses.
LEMMA EmbeddedInNoRange ==
  ASSUME NEW s \in Segments(6), SubSeq(s, 1, 6) \in EmbeddingPrefixes
  PROVE  ~ReservedGroups(s)
<1> DEFINE m == SubSeq(s, 1, 6)
<1>1. m \in EmbeddingPrefixes
  OBVIOUS
<1>2. m \in Seq(Int) /\ Len(m) = 6
  BY <1>1, PrefixesAreSix, Zenon
<1> HIDE DEF m
<1>3. s[1] = m[1] /\ s[3] = m[3] /\ s[6] = m[6]
  <2>1. \A i \in 1..6 : s[i] = m[i]
    BY <1>2, FirstSix, Zenon DEF m
  <2> QED BY <2>1
<1>4. (m[1] = 0 /\ m[6] = 65535) \/ (m[1] = 100 /\ m[3] = 0)
  BY <1>1 DEF EmbeddingPrefixes
<1>5. (s[1] = 0 /\ s[6] = 65535) \/ (s[1] = 100 /\ s[3] = 0)
  BY <1>3, <1>4
<1> QED BY <1>5 DEF ReservedGroups, InBlock

\* For every address, the check by ranges (is_ip_private) and the lists of first
\* and last reserved addresses agree, for those that embed an IPv4 address too.
THEOREM PrivateIsReserved ==
  ASSUME NEW ip \in Address
  PROVE  is_ip_private(ip) <=> Reserved(ip)
<1>1. CASE ip.v = 4
  <2>1. ip = [v |-> 4, seg |-> ip.seg] /\ ip.seg \in Octets
    BY <1>1 DEF Address
  <2>2. canonicalize(ip) = ip
    BY <1>1 DEF canonicalize
  <2>3. (\E net \in PRIVATE_RANGES : InNet(net, ip)) <=> \E r \in ReservedIntervals : Within(ip, r)
    BY <2>1, SameIPv4, Zenon
  <2> QED BY <1>1, <2>2, <2>3 DEF is_ip_private, Reserved
<1>2. CASE ip.v = 6
  <2> DEFINE s == ip.seg
             embedded == IPv4In(ip)
             octets == embedded.seg
  <2>1. ip = [v |-> 6, seg |-> s] /\ s \in Segments(6)
    <3>1. ip = [v |-> 6, seg |-> s] /\ s \in Groups
      BY <1>2 DEF Address
    <3> QED BY <3>1, SegmentsAreGroups, Zenon
  <2>2. ip \notin LocalIps
    BY <1>2, LocalIpsAssumption
  <2>3. embedded = [v |-> 4, seg |-> octets] /\ octets \in Octets
    BY <2>1, LastGroups, Zenon
  <2> HIDE DEF s, octets
  <2>4. SubSeq(s, 1, 6) \in EmbeddingPrefixes <=> ip \in Embeddings(embedded)
    BY <2>1, Embedded, Zenon
  <2>5. canonicalize(ip) = IF SubSeq(s, 1, 6) \in EmbeddingPrefixes THEN embedded ELSE ip
    BY <1>2 DEF canonicalize, EmbeddingPrefixes, s
  <2> HIDE DEF embedded
  <2>6. CASE SubSeq(s, 1, 6) \in EmbeddingPrefixes
    <3>1. ~\E r \in ReservedIntervals : Within(ip, r)
      <4>1. ~\E r \in Intervals6 : Within(ip, r)
        BY <2>1, <2>6, EmbeddedInNoRange, AddressesInIntervals6, Zenon
      <4> QED BY <1>2, <4>1, OnlyRanges6, Zenon
    <3>2. (\E net \in PRIVATE_RANGES : InNet(net, embedded)) <=>
            \E r \in ReservedIntervals : Within(embedded, r)
      BY <2>3, SameIPv4, Zenon
    <3> QED BY <1>2, <2>2, <2>4, <2>5, <2>6, <3>1, <3>2, Zenon DEF is_ip_private, Reserved, embedded
  <2>7. CASE SubSeq(s, 1, 6) \notin EmbeddingPrefixes
    <3>1. (\E net \in PRIVATE_RANGES : InNet(net, ip)) <=> \E r \in ReservedIntervals : Within(ip, r)
      BY <2>1, SameIPv6, Zenon
    <3> QED BY <2>2, <2>4, <2>5, <2>7, <3>1, Zenon DEF is_ip_private, Reserved, embedded
  <2> QED BY <2>6, <2>7
<1> QED BY <1>1, <1>2 DEF Address

==============================================================================
