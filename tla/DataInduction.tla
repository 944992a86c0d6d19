--------------------------- MODULE DataInduction ---------------------------
(***************************************************************************)
(* Induction over data without an operator parameter: a property of the    *)
(* natural numbers is the set of the numbers that have it.                 *)
(***************************************************************************)
EXTENDS Sequences, Filter, FiniteSetTheorems, WellFoundedInduction, SequenceTheorems, TLAPS

\* A set of natural numbers has a least element: its initial segments are finite
\* sets, which strict inclusion orders well.
LEMMA LeastNatural ==
  ASSUME NEW T, T \subseteq Nat, T # {}
  PROVE  \E x \in T : \A y \in T : x <= y
<1> DEFINE W == {1..n : n \in T}
<1>1. W \subseteq FiniteSubsetsOf(Nat) /\ W # {}
  <2>1. ASSUME NEW n \in T PROVE 1..n \in FiniteSubsetsOf(Nat)
    <3>1. IsFiniteSet(1..n) /\ 1..n \subseteq Nat
      BY FS_Interval
    <3> QED BY <3>1 DEF FiniteSubsetsOf
  <2> QED BY <2>1
<1>2. PICK x \in W : \A y \in W : ~(<<y, x>> \in StrictSubsetOrdering(Nat))
  <2> HIDE DEF W
  <2> QED BY <1>1, WFMin, FS_StrictSubsetOrderingWellFounded
<1>3. PICK m \in T : x = 1..m
  BY <1>2
<1>4. ASSUME NEW y \in T, y < m PROVE FALSE
  <2>1. 1..y \subseteq 1..m /\ 1..y # 1..m /\ 1..y \in W
    BY <1>4
  <2>2. 1..y \in SUBSET Nat /\ x \in SUBSET Nat
    BY <1>1, <1>2, <2>1 DEF FiniteSubsetsOf
  <2>3. <<1..y, x>> \in StrictSubsetOrdering(Nat)
    BY <2>1, <2>2, <1>3 DEF StrictSubsetOrdering
  <2> QED BY <1>2, <2>1, <2>3
<1> QED BY <1>4

LEMMA SetInduction ==
  ASSUME NEW S, 0 \in S, \A n \in Nat : n \in S => n + 1 \in S
  PROVE  Nat \subseteq S
<1> DEFINE T == Nat \ S
<1> SUFFICES ASSUME T # {} PROVE FALSE
  OBVIOUS
<1>1. PICK x \in T : \A y \in T : x <= y
  BY LeastNatural
<1>2. x # 0 /\ x - 1 \in Nat /\ x - 1 \notin T
  BY <1>1
<1> QED BY <1>1, <1>2

\* Complete induction.
LEMMA StrongInduction ==
  ASSUME NEW S, \A n \in Nat : (\A k \in Nat : k < n => k \in S) => n \in S
  PROVE  Nat \subseteq S
<1> DEFINE T == Nat \ S
<1> SUFFICES ASSUME T # {} PROVE FALSE
  OBVIOUS
<1>1. PICK x \in T : \A y \in T : x <= y
  BY LeastNatural
<1>2. \A k \in Nat : k < x => k \in S
  BY <1>1
<1> QED BY <1>1, <1>2

\* f runs the recursion f[0] = base, f[i] = step[i, f[i - 1]] up to n.
Runs(f, n, base, step) ==
  f[0] = base /\ \A i \in 1..n : f[i] = step[<<i, f[i - 1]>>]

\* A recursion has a solution, in the set its steps stay in.
LEMMA Recursion ==
  ASSUME NEW S, NEW base \in S, NEW n \in Nat, NEW step \in [(1..n) \X S -> S]
  PROVE  \E f \in [0..n -> S] : Runs(f, n, base, step)
<1> DEFINE Up(m) == \E f \in [0..m -> S] : Runs(f, m, base, step)
           P == {m \in Nat : m <= n => Up(m)}
<1>1. 0 \in P
  <2> DEFINE f == [i \in 0..0 |-> base]
  <2>1. f \in [0..0 -> S] /\ f[0] = base  OBVIOUS
  <2>2. \A i \in 1..0 : f[i] = step[<<i, f[i - 1]>>]  OBVIOUS
  <2> HIDE DEF f
  <2>3. Up(0)  BY <2>1, <2>2 DEF Runs
  <2> QED BY <2>3
<1>2. ASSUME NEW m \in Nat, m \in P PROVE m + 1 \in P
  <2> SUFFICES ASSUME m + 1 <= n PROVE Up(m + 1)
    OBVIOUS
  <2>1. PICK f \in [0..m -> S] :
          f[0] = base /\ \A i \in 1..m : f[i] = step[<<i, f[i - 1]>>]
    BY <1>2 DEF Runs
  <2> DEFINE g == [i \in 0..(m + 1) |-> IF i <= m THEN f[i] ELSE step[<<m + 1, f[m]>>]]
  <2>2. step[<<m + 1, f[m]>>] \in S
    <3>1. <<m + 1, f[m]>> \in (1..n) \X S  BY <2>1
    <3> QED BY <3>1
  <2>3. g \in [0..(m + 1) -> S]  BY <2>2
  <2>4. g[0] = base  BY <2>1
  <2>5. ASSUME NEW i \in 1..(m + 1) PROVE g[i] = step[<<i, g[i - 1]>>]
    <3>1. CASE i <= m
      <4>1. g[i] = f[i] /\ g[i - 1] = f[i - 1]  BY <3>1
      <4>2. i \in 1..m  BY <3>1
      <4>3. f[i] = step[<<i, f[i - 1]>>]  BY <2>1, <4>2
      <4> HIDE DEF g
      <4> QED BY <4>1, <4>3
    <3>2. CASE ~(i <= m)
      <4>1. i = m + 1 /\ g[i - 1] = f[m]  BY <3>2
      <4>2. g[m + 1] = step[<<m + 1, f[m]>>]  OBVIOUS
      <4> HIDE DEF g
      <4> QED BY <4>1, <4>2
    <3> QED BY <3>1, <3>2
  <2> HIDE DEF g
  <2> QED BY <2>3, <2>4, <2>5 DEF Runs
<1> HIDE DEF Up
<1>3. Nat \subseteq P
  <2> HIDE DEF P
  <2> QED BY <1>1, <1>2, SetInduction
<1> QED BY <1>3 DEF Up

LEMMA SeqInduction ==
  ASSUME NEW S, NEW P, <<>> \in P,
         \A s \in Seq(S), e \in S : s \in P => Append(s, e) \in P
  PROVE  Seq(S) \subseteq P
<1> DEFINE N == {n \in Nat : \A s \in Seq(S) : Len(s) = n => s \in P}
<1>1. 0 \in N
  BY EmptySeq
<1>2. ASSUME NEW n \in Nat, n \in N PROVE n + 1 \in N
  <2> SUFFICES ASSUME NEW s \in Seq(S), Len(s) = n + 1 PROVE s \in P
    OBVIOUS
  <2>1. s # <<>>  BY EmptySeq
  <2>2. PICK t \in Seq(S), e \in S : s = Append(t, e)  BY <2>1, SequenceEmptyOrAppend
  <2>3. Len(t) \in Nat /\ Len(s) = Len(t) + 1  BY <2>2, AppendProperties, LenProperties
  <2> QED BY <1>2, <2>2, <2>3
<1>3. Nat \subseteq N
  <2> HIDE DEF N
  <2> QED BY <1>1, <1>2, SetInduction
<1> QED BY <1>3, LenProperties

-----------------------------------------------------------------------------
(* Filters *)

\* The recursion of Within, as a relation.
Filters(f, s, S) ==
  /\ f[0] = <<>>
  /\ \A i \in 1..Len(s) :
       f[i] = IF s[i] \in S THEN Append(f[i - 1], s[i]) ELSE f[i - 1]

LEMMA WithinRuns ==
  ASSUME NEW T, NEW s \in Seq(T), NEW S
  PROVE  \E f \in [0..Len(s) -> Seq(T)] :
           Filters(f, s, S) /\ Within(s, S) = f[Len(s)]
<1> DEFINE n == Len(s)
           step == [p \in (1..n) \X Seq(T) |->
                      IF s[p[1]] \in S THEN Append(p[2], s[p[1]]) ELSE p[2]]
           Body(k) == [i \in 0..n |->
                         IF i = 0 THEN <<>>
                         ELSE IF s[i] \in S THEN Append(k[i - 1], s[i]) ELSE k[i - 1]]
           g == CHOOSE k : k = Body(k)
<1>1. n \in Nat /\ \A i \in 1..n : s[i] \in T
  BY ElementOfSeq, LenProperties
<1>2. step \in [(1..n) \X Seq(T) -> Seq(T)]
  <2>1. ASSUME NEW p \in (1..n) \X Seq(T)
        PROVE  (IF s[p[1]] \in S THEN Append(p[2], s[p[1]]) ELSE p[2]) \in Seq(T)
    <3>1. p[1] \in 1..n /\ p[2] \in Seq(T)  OBVIOUS
    <3>2. s[p[1]] \in T  BY <1>1, <3>1
    <3>3. Append(p[2], s[p[1]]) \in Seq(T)  BY <3>1, <3>2, AppendProperties
    <3> QED BY <3>1, <3>3
  <2> QED BY <2>1
<1>3. <<>> \in Seq(T)  BY EmptySeq
<1>4. PICK f \in [0..n -> Seq(T)] : Runs(f, n, <<>>, step)
  <2> HIDE DEF step, n
  <2> QED BY <1>1, <1>2, <1>3, Recursion
<1>5. \A i \in 1..n : f[i] = IF s[i] \in S THEN Append(f[i - 1], s[i]) ELSE f[i - 1]
  <2> SUFFICES ASSUME NEW i \in 1..n
               PROVE  f[i] = IF s[i] \in S THEN Append(f[i - 1], s[i]) ELSE f[i - 1]
    OBVIOUS
  <2>1. f[i] = step[<<i, f[i - 1]>>]  BY <1>4 DEF Runs
  <2>2. i - 1 \in 0..n /\ f[i - 1] \in Seq(T)
    <3>1. n \in Nat  BY <1>1
    <3> HIDE DEF n
    <3>2. i - 1 \in 0..n  BY <3>1
    <3> QED BY <3>2, <1>4
  <2>3. <<i, f[i - 1]>> \in (1..n) \X Seq(T)  BY <2>2
  <2> HIDE DEF n
  <2> QED BY <2>1, <2>3
<1>6. f = Body(f)
  <2>1. f[0] = <<>>  BY <1>4 DEF Runs
  <2>2. \A i \in 0..n : f[i] = Body(f)[i]
    <3> SUFFICES ASSUME NEW i \in 0..n PROVE f[i] = Body(f)[i]
      OBVIOUS
    <3>1. CASE i = 0  BY <2>1, <3>1
    <3>2. CASE i # 0
      <4>1. i \in 1..n  BY <1>1, <3>2
      <4> HIDE DEF n
      <4> QED BY <1>5, <3>2, <4>1
    <3> QED BY <3>1, <3>2
  <2> HIDE DEF n
  <2>3. f \in [0..n -> Seq(T)] /\ DOMAIN Body(f) = 0..n /\ Body(f) = [i \in 0..n |-> Body(f)[i]]
    BY <1>4
  <2>4. f = [i \in 0..n |-> f[i]]  BY <1>4
  <2> HIDE DEF Body
  <2> QED BY <2>2, <2>3, <2>4
<1>7. g = Body(g)
  <2> HIDE DEF Body
  <2> QED BY <1>6
<1>8. Within(s, S) = g[n]
  BY DEF Within
<1>9. g \in [0..n -> Seq(T)] /\ Filters(g, s, S)
  <2> DEFINE P == {i \in Nat : i <= n => g[i] = f[i]}
  <2>1. 0 \in P
    <3>1. g[0] = <<>> /\ f[0] = <<>>
      <4>1. Body(g)[0] = <<>>  BY <1>1
      <4> HIDE DEF Body, g
      <4> QED BY <1>7, <1>4, <4>1 DEF Runs
    <3> QED BY <3>1
  <2>2. ASSUME NEW i \in Nat, i \in P PROVE i + 1 \in P
    <3> SUFFICES ASSUME i + 1 <= n PROVE g[i + 1] = f[i + 1]
      OBVIOUS
    <3>1. i + 1 \in 1..n /\ i + 1 # 0 /\ (i + 1) - 1 = i /\ i <= n  BY <1>1
    <3>2. Body(g)[i + 1] = IF s[i + 1] \in S THEN Append(g[i], s[i + 1]) ELSE g[i]
      <4> HIDE DEF g, n
      <4> QED BY <3>1
    <3>3. f[i + 1] = IF s[i + 1] \in S THEN Append(f[i], s[i + 1]) ELSE f[i]
      <4> HIDE DEF n
      <4> QED BY <1>5, <3>1
    <3> HIDE DEF Body, g, n
    <3> QED BY <2>2, <3>1, <3>2, <3>3, <1>7
  <2>3. Nat \subseteq P
    <3> HIDE DEF P
    <3> QED BY <2>1, <2>2, SetInduction
  <2>4. \A i \in 0..n : g[i] = f[i]
    <3> HIDE DEF g
    <3> QED BY <2>3, <1>1
  <2>5. DOMAIN g = 0..n /\ g = [i \in 0..n |-> g[i]]
    <3>1. Body(g) = [i \in 0..n |-> Body(g)[i]] /\ DOMAIN Body(g) = 0..n
      <4> HIDE DEF g
      <4> QED OBVIOUS
    <3> HIDE DEF Body, g
    <3> QED BY <1>7, <3>1
  <2>6. g \in [0..n -> Seq(T)]
    <3> HIDE DEF g, n
    <3> QED BY <2>4, <2>5, <1>4
  <2>7. g = f
    <3>1. n \in Nat  BY <1>1
    <3>2. f = [i \in 0..n |-> f[i]]  BY <1>4
    <3> HIDE DEF g, n
    <3>3. [i \in 0..n |-> g[i]] = [i \in 0..n |-> f[i]]  BY <2>4
    <3> QED BY <2>5, <3>2, <3>3
  <2>8. f[0] = <<>>  BY <1>4 DEF Runs
  <2> HIDE DEF g
  <2> QED BY <2>6, <2>7, <2>8, <1>5 DEF Filters
<1> HIDE DEF g
<1> QED BY <1>8, <1>9

LEMMA WithinAppend ==
  ASSUME NEW T, NEW s \in Seq(T), NEW e \in T, NEW S
  PROVE  Within(Append(s, e), S) = IF e \in S THEN Append(Within(s, S), e) ELSE Within(s, S)
<1> DEFINE n == Len(s)
           t == Append(s, e)
<1>1. /\ n \in Nat /\ t \in Seq(T) /\ Len(t) = n + 1 /\ t[n + 1] = e
      /\ \A i \in 1..n : t[i] = s[i]
  BY LenProperties, AppendProperties
<1>2. PICK f \in [0..n -> Seq(T)] : Filters(f, s, S) /\ Within(s, S) = f[n]
  BY WithinRuns
<1>3. PICK g \in [0..Len(t) -> Seq(T)] : Filters(g, t, S) /\ Within(t, S) = g[Len(t)]
  <2> HIDE DEF t
  <2> QED BY <1>1, WithinRuns
<1> HIDE DEF n, t
<1>4. /\ f[0] = g[0]
      /\ \A i \in 1..n : f[i] = IF s[i] \in S THEN Append(f[i - 1], s[i]) ELSE f[i - 1]
      /\ \A i \in 1..(n + 1) : g[i] = IF t[i] \in S THEN Append(g[i - 1], t[i]) ELSE g[i - 1]
  BY <1>1, <1>2, <1>3 DEF Filters, n
<1>5. g[n] = f[n]
  <2> DEFINE P == {i \in Nat : i <= n => g[i] = f[i]}
  <2>1. 0 \in P  BY <1>4
  <2>2. ASSUME NEW i \in Nat, i \in P PROVE i + 1 \in P
    <3> SUFFICES ASSUME i + 1 <= n PROVE g[i + 1] = f[i + 1]
      OBVIOUS
    <3>1. /\ i + 1 \in 1..n /\ i + 1 \in 1..(n + 1) /\ (i + 1) - 1 = i /\ g[i] = f[i]
      BY <1>1, <2>2
    <3> HIDE DEF P
    <3> QED BY <1>1, <1>4, <3>1
  <2>3. Nat \subseteq P
    <3> HIDE DEF P
    <3> QED BY <2>1, <2>2, SetInduction
  <2> QED BY <1>1, <2>3
<1>6. n + 1 \in 1..(n + 1) /\ (n + 1) - 1 = n /\ n \in 0..n
  BY <1>1
<1>7. g[n + 1] = IF e \in S THEN Append(f[n], e) ELSE f[n]
  BY <1>1, <1>4, <1>5, <1>6
<1> QED BY <1>1, <1>2, <1>3, <1>6, <1>7 DEF t

LEMMA WithinSeq == ASSUME NEW T, NEW s \in Seq(T), NEW S PROVE Within(s, S) \in Seq(T)
<1>1. PICK f \in [0..Len(s) -> Seq(T)] : Within(s, S) = f[Len(s)]
  BY WithinRuns
<1> QED BY <1>1, LenProperties

LEMMA WithinEmpty == ASSUME NEW S PROVE Within(<<>>, S) = <<>>
<1>1. <<>> \in Seq({}) /\ Len(<<>>) = 0
  OBVIOUS
<1>2. PICK f \in [0..Len(<<>>) -> Seq({})] :
        Filters(f, <<>>, S) /\ Within(<<>>, S) = f[Len(<<>>)]
  BY <1>1, WithinRuns
<1> QED BY <1>1, <1>2 DEF Filters

LEMMA ConcatAppend ==
  ASSUME NEW T, NEW s \in Seq(T), NEW x \in Seq(T), NEW e \in T
  PROVE  s \o Append(x, e) = Append(s \o x, e)
<1> DEFINE p == s \o Append(x, e)
           q == Append(s \o x, e)
<1>1. Len(s) \in Nat /\ Len(x) \in Nat /\ Append(x, e) \in Seq(T) /\ s \o x \in Seq(T)
  BY LenProperties, AppendProperties, ConcatProperties
<1>2. p \in Seq(T) /\ q \in Seq(T) /\ Len(p) = Len(s) + Len(x) + 1 /\ Len(q) = Len(p)
  BY <1>1, AppendProperties, ConcatProperties, LenProperties
<1>3. \A i \in 1..Len(p) : p[i] = q[i]
  BY <1>1, <1>2, AppendProperties, ConcatProperties
<1> HIDE DEF p, q
<1> QED BY <1>2, <1>3, SeqEqual

\* Filtering one sequence after another is filtering both.
Splits(s, t, S) == Within(s \o t, S) = Within(s, S) \o Within(t, S)

LEMMA SplitsAppend ==
  ASSUME NEW T, NEW s \in Seq(T), NEW x \in Seq(T), NEW e \in T, NEW S, Splits(s, x, S)
  PROVE  Splits(s, Append(x, e), S)
<1>1. PICK y \in Seq(T) : y = s \o x
  BY ConcatProperties
<1>2. PICK w \in Seq(T) : w = Within(x, S)
  BY WithinSeq
<1>3. PICK v \in Seq(T) : v = Within(s, S)
  BY WithinSeq
<1>4. Within(Append(x, e), S) = IF e \in S THEN Append(w, e) ELSE w
  BY <1>2, WithinAppend
<1>5. Within(Append(y, e), S) = IF e \in S THEN Append(Within(y, S), e) ELSE Within(y, S)
  BY WithinAppend
<1>6. s \o Append(x, e) = Append(y, e) /\ v \o Append(w, e) = Append(v \o w, e)
  BY <1>1, ConcatAppend
<1>7. Within(y, S) = v \o w
  BY <1>1, <1>2, <1>3 DEF Splits
<1>8. CASE e \in S
  BY <1>3, <1>4, <1>5, <1>6, <1>7, <1>8 DEF Splits
<1>9. CASE e \notin S
  BY <1>3, <1>4, <1>5, <1>6, <1>7, <1>9 DEF Splits
<1> QED BY <1>8, <1>9

LEMMA WithinConcat ==
  ASSUME NEW T, NEW s \in Seq(T), NEW t \in Seq(T), NEW S
  PROVE  Splits(s, t, S)
<1> DEFINE P == {x \in Seq(T) : Splits(s, x, S)}
<1>1. <<>> \in P
  <2>1. PICK v \in Seq(T) : v = Within(s, S)
    BY WithinSeq
  <2>2. s \o <<>> = s /\ v \o <<>> = v
    BY ConcatEmptySeq
  <2> QED BY <2>1, <2>2, WithinEmpty, EmptySeq DEF Splits
<1>2. ASSUME NEW x \in Seq(T), NEW e \in T, x \in P PROVE Append(x, e) \in P
  <2>1. Append(x, e) \in Seq(T)
    BY AppendProperties
  <2> QED BY <1>2, <2>1, SplitsAppend
<1>3. Seq(T) \subseteq P
  <2> HIDE DEF P
  <2> QED BY <1>1, <1>2, SeqInduction
<1> QED BY <1>3

LEMMA WithinNone ==
  ASSUME NEW T, NEW s \in Seq(T), NEW S, \A i \in 1..Len(s) : s[i] \notin S
  PROVE  Within(s, S) = <<>>
<1> DEFINE P == {x \in Seq(T) : (\A i \in 1..Len(x) : x[i] \notin S) => Within(x, S) = <<>>}
<1>1. <<>> \in P
  BY WithinEmpty, EmptySeq
<1>2. ASSUME NEW x \in Seq(T), NEW e \in T, x \in P PROVE Append(x, e) \in P
  <2>1. /\ Append(x, e) \in Seq(T) /\ Len(x) \in Nat /\ Len(Append(x, e)) = Len(x) + 1
        /\ Append(x, e)[Len(x) + 1] = e /\ \A i \in 1..Len(x) : Append(x, e)[i] = x[i]
    BY AppendProperties, LenProperties
  <2>2. ASSUME \A i \in 1..(Len(x) + 1) : Append(x, e)[i] \notin S
        PROVE  Within(Append(x, e), S) = <<>>
    <3>1. e \notin S /\ \A i \in 1..Len(x) : x[i] \notin S
      BY <2>1, <2>2
    <3> QED BY <1>2, <3>1, WithinAppend
  <2> QED BY <2>1, <2>2
<1>3. Seq(T) \subseteq P
  <2> HIDE DEF P
  <2> QED BY <1>1, <1>2, SeqInduction
<1> QED BY <1>3
============================================================================
