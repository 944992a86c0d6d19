------------------------ MODULE SessionChain_proofs ------------------------
(***************************************************************************)
(* Theorems about SessionChain, for every value of its constants: its      *)
(* types, what a chain stands for under every append, compaction, rewind,  *)
(* failed write and restart, and what the log leads back to.               *)
(***************************************************************************)
EXTENDS SessionChain, DataInduction, FiniteSetTheorems, SequenceTheorems, TLAPS

-----------------------------------------------------------------------------
(* Filtering and rising sequences.                                          *)

\* Uuids in the order of their creation.
Rising(s) == \A i, j \in DOMAIN s : i < j => s[i] < s[j]

\* What a filter keeps, and that it keeps the order.
LEMMA WithinKeeps ==
  ASSUME NEW T, NEW s \in Seq(T), NEW S
  PROVE  /\ Within(s, S) \in Seq(T)
         /\ ToSet(Within(s, S)) = ToSet(s) \cap S
         /\ T \subseteq Nat /\ Rising(s) => Rising(Within(s, S))
<1> DEFINE n == Len(s)
<1>1. PICK f \in [0..n -> Seq(T)] : Filters(f, s, S) /\ Within(s, S) = f[n]
  BY WithinRuns
<1>2. n \in Nat /\ \A i \in 1..n : s[i] \in T
  BY ElementOfSeq, LenProperties
<1> DEFINE P == {i \in Nat : i <= n =>
                   /\ ToSet(f[i]) = {s[j] : j \in 1..i} \cap S
                   /\ T \subseteq Nat /\ Rising(s) => Rising(f[i])}
<1>3. 0 \in P
  <2>1. f[0] = <<>>  BY <1>1 DEF Filters
  <2> QED BY <2>1 DEF ToSet, Rising
<1>4. ASSUME NEW i \in Nat, i \in P PROVE i + 1 \in P
  <2> SUFFICES ASSUME i + 1 <= n
               PROVE  /\ ToSet(f[i + 1]) = {s[j] : j \in 1..(i + 1)} \cap S
                      /\ T \subseteq Nat /\ Rising(s) => Rising(f[i + 1])
    OBVIOUS
  <2>1. /\ ToSet(f[i]) = {s[j] : j \in 1..i} \cap S
        /\ T \subseteq Nat /\ Rising(s) => Rising(f[i])
        /\ f[i] \in Seq(T) /\ s[i + 1] \in T /\ i + 1 \in 1..n
    <3>1. i <= n /\ i + 1 \in 1..n /\ i \in 0..n  BY <1>2
    <3>2. f[i] \in Seq(T)  BY <1>1, <3>1
    <3>3. s[i + 1] \in T  BY <1>2, <3>1
    <3>4. ToSet(f[i]) = {s[j] : j \in 1..i} \cap S  BY <1>4, <3>1
    <3>5. T \subseteq Nat /\ Rising(s) => Rising(f[i])  BY <1>4, <3>1
    <3> QED BY <3>1, <3>2, <3>3, <3>4, <3>5
  <2>2. f[i + 1] = IF s[i + 1] \in S THEN Append(f[i], s[i + 1]) ELSE f[i]
    <3>1. (i + 1) - 1 = i  OBVIOUS
    <3> QED BY <1>1, <2>1, <3>1 DEF Filters
  <2>3. {s[j] : j \in 1..(i + 1)} = {s[j] : j \in 1..i} \cup {s[i + 1]}
    <3>1. 1..(i + 1) = (1..i) \cup {i + 1}  OBVIOUS
    <3> QED BY <3>1
  <2>4. CASE s[i + 1] \notin S
    BY <2>1, <2>2, <2>3, <2>4
  <2>5. CASE s[i + 1] \in S
    <3> DEFINE k == Len(f[i])
    <3>1. f[i + 1] = Append(f[i], s[i + 1])  BY <2>2, <2>5
    <3>2. /\ DOMAIN f[i + 1] = 1..(k + 1) /\ k \in Nat /\ DOMAIN f[i] = 1..k
          /\ f[i + 1][k + 1] = s[i + 1]
          /\ \A j \in 1..k : f[i + 1][j] = f[i][j]
      BY <2>1, <3>1, AppendProperties, LenProperties
    <3>3. ToSet(f[i + 1]) = ToSet(f[i]) \cup {s[i + 1]}
      <4>1. 1..(k + 1) = (1..k) \cup {k + 1}  BY <3>2
      <4>2. ToSet(f[i + 1]) = {f[i + 1][j] : j \in 1..(k + 1)}  BY <3>2 DEF ToSet
      <4>3. ToSet(f[i]) = {f[i][j] : j \in 1..k}  BY <3>2 DEF ToSet
      <4> HIDE DEF k
      <4> QED BY <3>2, <4>1, <4>2, <4>3
    <3>4. ASSUME T \subseteq Nat, Rising(s) PROVE Rising(f[i + 1])
      <4> SUFFICES ASSUME NEW a \in DOMAIN f[i + 1], NEW b \in DOMAIN f[i + 1], a < b
                   PROVE  f[i + 1][a] < f[i + 1][b]
        BY DEF Rising
      <4>1. a \in 1..k  BY <3>2
      <4>2. CASE b = k + 1
        <5>1. f[i][a] \in ToSet(f[i])  BY <3>2, <4>1 DEF ToSet
        <5>2. PICK j \in 1..i : f[i][a] = s[j]  BY <5>1, <2>1
        <5>3. j \in DOMAIN s /\ i + 1 \in DOMAIN s /\ j < i + 1  BY <1>2, <2>1, LenProperties
        <5>4. s[j] < s[i + 1]  BY <3>4, <5>3 DEF Rising
        <5> HIDE DEF k
        <5> QED BY <3>2, <4>1, <4>2, <5>2, <5>4
      <4>3. CASE b # k + 1
        <5>1. b \in 1..k  BY <3>2, <4>3
        <5>2. f[i][a] < f[i][b]  BY <2>1, <3>4, <3>2, <4>1, <5>1 DEF Rising
        <5> HIDE DEF k
        <5> QED BY <3>2, <4>1, <5>1, <5>2
      <4> QED BY <4>2, <4>3
    <3>5. ToSet(f[i + 1]) = {s[j] : j \in 1..(i + 1)} \cap S
      BY <2>1, <2>3, <2>5, <3>3
    <3> QED BY <3>4, <3>5
  <2> QED BY <2>4, <2>5
<1>5. n \in P
  <2>1. Nat \subseteq P
    <3> HIDE DEF P
    <3> QED BY <1>3, <1>4, SetInduction
  <2> QED BY <2>1, <1>2
<1>6. ToSet(s) = {s[j] : j \in 1..n}
  BY LenProperties DEF ToSet
<1>7. f[n] \in Seq(T)  BY <1>1, <1>2
<1> QED BY <1>1, <1>5, <1>6, <1>7

-----------------------------------------------------------------------------
(* Traces.  Parents are older than their children, so the recursion of      *)
(* TraceChain is well-founded.                                              *)

Tree(n, known) ==
  /\ Len(n) \in Nat /\ known \subseteq 1..Len(n)
  /\ \A u \in known : n[u].parent \in 0..(u - 1)

\* One step of TraceChain, from the traces up of the older nodes.
Traced(n, known, up, u) ==
  IF u \in known THEN Append(up[n[u].parent], u) ELSE <<>>

LEMMA TraceExists ==
  ASSUME NEW n, NEW known, Tree(n, known)
  PROVE  \E f \in [0..Len(n) -> Seq(known)] :
           \A u \in 0..Len(n) : f[u] = Traced(n, known, f, u)
<1> DEFINE N == Len(n)
           F == [0..N -> Seq(known)]
           base == [u \in 0..N |-> <<>>]
           step == [p \in (1..N) \X F |->
                      [p[2] EXCEPT ![p[1]] = Traced(n, known, p[2], p[1])]]
<1>1. N \in Nat /\ known \subseteq 1..N /\ \A u \in known : n[u].parent \in 0..(u - 1)
  BY DEF Tree
<1> HIDE DEF N
<1>2. base \in F
  BY EmptySeq
<1>3. ASSUME NEW g \in F, NEW u \in 0..N PROVE Traced(n, known, g, u) \in Seq(known)
  <2>1. CASE u \in known
    <3>1. n[u].parent \in 0..N  BY <1>1, <2>1
    <3>2. g[n[u].parent] \in Seq(known)  BY <3>1
    <3> QED BY <3>2, <2>1, AppendProperties DEF Traced
  <2>2. CASE u \notin known
    BY <2>2, EmptySeq DEF Traced
  <2> QED BY <2>1, <2>2
<1>4. step \in [(1..N) \X F -> F]
  <2>1. ASSUME NEW p \in (1..N) \X F
        PROVE  [p[2] EXCEPT ![p[1]] = Traced(n, known, p[2], p[1])] \in F
    <3>1. p[1] \in 1..N /\ p[2] \in F  OBVIOUS
    <3>2. p[1] \in 0..N  BY <3>1, <1>1
    <3>3. Traced(n, known, p[2], p[1]) \in Seq(known)  BY <1>3, <3>1, <3>2
    <3> QED BY <3>1, <3>3
  <2> QED BY <2>1
<1>5. PICK r \in [0..N -> F] : Runs(r, N, base, step)
  <2> HIDE DEF step, base, F
  <2> QED BY <1>1, <1>2, <1>4, Recursion
<1>6. \A i \in 1..N : r[i] = [r[i - 1] EXCEPT ![i] = Traced(n, known, r[i - 1], i)]
  <2> SUFFICES ASSUME NEW i \in 1..N
               PROVE  r[i] = [r[i - 1] EXCEPT ![i] = Traced(n, known, r[i - 1], i)]
    OBVIOUS
  <2>1. i - 1 \in 0..N  BY <1>1
  <2>2. r[i - 1] \in F  BY <2>1, <1>5
  <2>3. <<i, r[i - 1]>> \in (1..N) \X F  BY <2>2
  <2>4. r[i] = step[<<i, r[i - 1]>>]  BY <1>5 DEF Runs
  <2> HIDE DEF F
  <2> QED BY <2>3, <2>4
\* A later step leaves an earlier entry alone.
<1>7. \A u \in 0..N : \A i \in 0..N : u <= i => r[i][u] = r[u][u]
  <2> SUFFICES ASSUME NEW u \in 0..N
               PROVE  \A i \in 0..N : u <= i => r[i][u] = r[u][u]
    OBVIOUS
  <2> DEFINE P == {i \in Nat : i <= N /\ u <= i => r[i][u] = r[u][u]}
  <2>1. 0 \in P
    BY <1>1
  <2>2. ASSUME NEW i \in Nat, i \in P PROVE i + 1 \in P
    <3> SUFFICES ASSUME i + 1 <= N, u <= i + 1 PROVE r[i + 1][u] = r[u][u]
      OBVIOUS
    <3>1. CASE u = i + 1
      BY <3>1
    <3>2. CASE u # i + 1
      <4>1. u <= i /\ i + 1 \in 1..N /\ (i + 1) - 1 = i /\ i <= N /\ i \in 0..N  BY <1>1, <3>2
      <4>2. r[i][u] = r[u][u]  BY <2>2, <4>1
      <4>3. r[i + 1] = [r[i] EXCEPT ![i + 1] = Traced(n, known, r[i], i + 1)]  BY <1>6, <4>1
      <4>4. r[i] \in F  BY <1>5, <4>1
      <4>5. r[i + 1][u] = r[i][u]  BY <4>3, <4>4, <3>2
      <4> QED BY <4>2, <4>5
    <3> QED BY <3>1, <3>2
  <2>3. Nat \subseteq P
    <3> HIDE DEF P
    <3> QED BY <2>1, <2>2, SetInduction
  <2> QED BY <2>3, <1>1
<1> DEFINE f == r[N]
<1>8. f \in F
  BY <1>5, <1>1
<1>9. ASSUME NEW u \in 0..N PROVE f[u] = Traced(n, known, f, u)
  <2>1. f[u] = r[u][u]
    BY <1>7, <1>1
  <2>2. CASE u = 0
    <3>1. r[0] = base  BY <1>5 DEF Runs
    <3>2. u \notin known  BY <1>1, <2>2
    <3>3. f[u] = <<>>  BY <2>1, <2>2, <3>1
    <3> QED BY <3>2, <3>3 DEF Traced
  <2>3. CASE u # 0
    <3>1. u \in 1..N /\ u - 1 \in 0..N  BY <1>1, <2>3
    <3>2. r[u] = [r[u - 1] EXCEPT ![u] = Traced(n, known, r[u - 1], u)]  BY <1>6, <3>1
    <3>3. r[u - 1] \in F  BY <1>5, <3>1
    <3>4. r[u][u] = Traced(n, known, r[u - 1], u)  BY <3>2, <3>3
    <3>5. CASE u \notin known
      BY <2>1, <3>4, <3>5 DEF Traced
    <3>6. CASE u \in known
      <4> DEFINE p == n[u].parent
      <4>1. p \in 0..N /\ p <= u - 1 /\ N \in 0..N /\ p <= N  BY <1>1, <3>6
      <4>2. r[u - 1][p] = r[p][p] /\ f[p] = r[p][p]
        <5> HIDE DEF p
        <5> QED BY <1>7, <4>1, <3>1
      <4> HIDE DEF p, f
      <4>3. r[u - 1][p] = f[p]  BY <4>2
      <4> QED BY <2>1, <3>4, <3>6, <4>3 DEF Traced, p
    <3> QED BY <3>5, <3>6
  <2> QED BY <2>2, <2>3
<1> HIDE DEF f
<1>10. f \in [0..N -> Seq(known)] /\ \A u \in 0..N : f[u] = Traced(n, known, f, u)
  BY <1>8, <1>9
<1> HIDE DEF F
<1> QED BY <1>10 DEF N

LEMMA TraceUnfold ==
  ASSUME NEW n, NEW known, Tree(n, known), NEW u \in 0..Len(n)
  PROVE  TraceChain(n, known, u) =
           IF u \in known THEN Append(TraceChain(n, known, n[u].parent), u) ELSE <<>>
<1> DEFINE Body(k) == [v \in 0..Len(n) |->
                         IF v \in known THEN Append(k[n[v].parent], v) ELSE <<>>]
           g == CHOOSE k : k = Body(k)
<1>1. \E k : k = Body(k)
  <2>1. PICK f \in [0..Len(n) -> Seq(known)] :
          \A v \in 0..Len(n) : f[v] = Traced(n, known, f, v)
    BY TraceExists
  <2>2. f = Body(f)
    BY <2>1 DEF Traced
  <2> HIDE DEF Body
  <2> QED BY <2>2
<1>2. g = Body(g)
  <2> HIDE DEF Body
  <2> QED BY <1>1
<1>3. TraceChain(n, known, u) = g[u]
  BY DEF TraceChain
<1>4. ASSUME u \in known PROVE TraceChain(n, known, n[u].parent) = g[n[u].parent]
  BY DEF TraceChain
<1>5. Body(g)[u] = IF u \in known THEN Append(g[n[u].parent], u) ELSE <<>>
  <2> HIDE DEF g
  <2> QED OBVIOUS
<1> HIDE DEF g, Body
<1> QED BY <1>2, <1>3, <1>4, <1>5

\* A trace holds known nodes, in the order of their creation, and ends in its leaf.
LEMMA TraceShape ==
  ASSUME NEW n, NEW known, Tree(n, known)
  PROVE  \A u \in 0..Len(n) :
           LET t == TraceChain(n, known, u) IN
           /\ t \in Seq(known) /\ Rising(t) /\ ToSet(t) \subseteq known \cap (1..u)
           /\ u \in known => /\ Len(t) > 0 /\ t[Len(t)] = u
                             /\ ToSet(t) = ToSet(TraceChain(n, known, n[u].parent)) \cup {u}
           /\ u \notin known => t = <<>>
<1> DEFINE N == Len(n)
           T(u) == TraceChain(n, known, u)
           Good(u) == /\ T(u) \in Seq(known) /\ Rising(T(u)) /\ ToSet(T(u)) \subseteq known \cap (1..u)
                      /\ u \in known => /\ Len(T(u)) > 0 /\ T(u)[Len(T(u))] = u
                                        /\ ToSet(T(u)) = ToSet(T(n[u].parent)) \cup {u}
                      /\ u \notin known => T(u) = <<>>
           P == {u \in Nat : u <= N => Good(u)}
<1>1. N \in Nat /\ known \subseteq 1..N /\ \A u \in known : n[u].parent \in 0..(u - 1)
  BY DEF Tree
<1>2. \A u \in 0..N : T(u) = IF u \in known THEN Append(T(n[u].parent), u) ELSE <<>>
  BY TraceUnfold
<1> HIDE DEF T
<1>3. ASSUME NEW u \in Nat, \A k \in Nat : k < u => k \in P PROVE u \in P
  <2> SUFFICES ASSUME u <= N PROVE Good(u)
    OBVIOUS
  <2>1. u \in 0..N  BY <1>1
  <2>2. CASE u \notin known
    <3>1. T(u) = <<>>  BY <1>2, <2>1, <2>2
    <3> QED BY <2>2, <3>1, EmptySeq DEF Rising, ToSet
  <2>3. CASE u \in known
    <3> DEFINE p == n[u].parent
               t == T(p)
               k == Len(t)
    <3>1. p \in Nat /\ p < u /\ p <= N  BY <1>1, <2>3
    <3>2. Good(p)  BY <1>3, <3>1
    <3>3. t \in Seq(known) /\ Rising(t) /\ ToSet(t) \subseteq known \cap (1..p)  BY <3>2
    <3>4. T(u) = Append(t, u)  BY <1>2, <2>1, <2>3
    <3> HIDE DEF t
    <3>5. /\ Append(t, u) \in Seq(known)
          /\ DOMAIN Append(t, u) = 1..(k + 1) /\ k \in Nat /\ DOMAIN t = 1..k
          /\ Append(t, u)[k + 1] = u /\ Len(Append(t, u)) = k + 1
          /\ \A j \in 1..k : Append(t, u)[j] = t[j]
      BY <3>3, <2>3, AppendProperties, LenProperties
    <3> DEFINE s == Append(t, u)
    <3> HIDE DEF s, k
    <3>6. ToSet(s) = ToSet(t) \cup {u}
      <4>1. 1..(k + 1) = (1..k) \cup {k + 1}  BY <3>5
      <4>2. ToSet(s) = {s[j] : j \in 1..(k + 1)}  BY <3>5 DEF ToSet, s
      <4>3. ToSet(t) = {t[j] : j \in 1..k}  BY <3>5 DEF ToSet
      <4>4. s[k + 1] = u /\ \A j \in 1..k : s[j] = t[j]  BY <3>5 DEF s
      <4> QED BY <4>1, <4>2, <4>3, <4>4
    <3>7. Rising(s)
      <4> SUFFICES ASSUME NEW a \in DOMAIN s, NEW b \in DOMAIN s, a < b PROVE s[a] < s[b]
        BY DEF Rising
      <4>1. a \in 1..k  BY <3>5 DEF s
      <4>2. t[a] \in 1..p
        <5>1. t[a] \in ToSet(t)  BY <3>5, <4>1 DEF ToSet
        <5> QED BY <5>1, <3>3
      <4>3. CASE b = k + 1
        BY <3>5, <4>1, <4>2, <4>3, <3>1 DEF s
      <4>4. CASE b # k + 1
        <5>1. b \in 1..k  BY <3>5, <4>4 DEF s
        <5>2. t[a] < t[b]  BY <3>3, <3>5, <4>1, <5>1 DEF Rising
        <5> QED BY <3>5, <4>1, <5>1, <5>2 DEF s
      <4> QED BY <4>3, <4>4
    <3>8. ToSet(s) \subseteq known \cap (1..u)
      BY <3>3, <3>6, <3>1, <2>3, <1>1
    <3>9. T(u) = s /\ s \in Seq(known) /\ Len(s) > 0 /\ s[Len(s)] = u
      BY <3>4, <3>5 DEF s
    <3>10. ToSet(T(u)) = ToSet(T(p)) \cup {u}
      BY <3>6, <3>9 DEF t
    <3> HIDE DEF p
    <3> QED BY <2>3, <3>7, <3>8, <3>9, <3>10 DEF p
  <2> QED BY <2>2, <2>3
<1>4. Nat \subseteq P
  <2> HIDE DEF P
  <2> QED BY <1>3, StrongInduction
<1>5. \A u \in 0..N : Good(u)
  <2> HIDE DEF Good
  <2> QED BY <1>4, <1>1
<1> QED BY <1>5 DEF T

\* Two maps that agree on a set closed under parents trace alike there.
Agree(n, known, m, more, D) ==
  /\ D \subseteq 0..Len(n) /\ D \subseteq 0..Len(m)
  /\ \A v \in D : /\ v \in known <=> v \in more
                  /\ v \in known => n[v].parent = m[v].parent /\ n[v].parent \in D

LEMMA TraceAgree ==
  ASSUME NEW n, NEW known, Tree(n, known), NEW m, NEW more, Tree(m, more),
         NEW D, Agree(n, known, m, more, D)
  PROVE  \A u \in D : TraceChain(n, known, u) = TraceChain(m, more, u)
<1> DEFINE P == {u \in Nat : u \in D => TraceChain(n, known, u) = TraceChain(m, more, u)}
<1> USE DEF Agree
<1>1. ASSUME NEW u \in Nat, \A k \in Nat : k < u => k \in P PROVE u \in P
  <2> SUFFICES ASSUME u \in D PROVE TraceChain(n, known, u) = TraceChain(m, more, u)
    OBVIOUS
  <2>1. /\ TraceChain(n, known, u) =
             IF u \in known THEN Append(TraceChain(n, known, n[u].parent), u) ELSE <<>>
        /\ TraceChain(m, more, u) =
             IF u \in more THEN Append(TraceChain(m, more, m[u].parent), u) ELSE <<>>
    BY TraceUnfold
  <2>2. CASE u \notin known  BY <2>1, <2>2
  <2>3. CASE u \in known
    <3>1. /\ u \in more /\ n[u].parent = m[u].parent /\ n[u].parent \in D
          /\ n[u].parent \in Nat /\ n[u].parent < u
      BY <2>3 DEF Tree
    <3>2. TraceChain(n, known, n[u].parent) = TraceChain(m, more, n[u].parent)
      BY <1>1, <3>1
    <3> QED BY <2>1, <2>3, <3>1, <3>2
  <2> QED BY <2>2, <2>3
<1>2. Nat \subseteq P
  <2> HIDE DEF P
  <2> QED BY <1>1, StrongInduction
<1> QED BY <1>2 DEF Tree

\* The nodes at and above u.
On(n, known, u) == ToSet(TraceChain(n, known, u))

LEMMA OnUnfold ==
  ASSUME NEW n, NEW known, Tree(n, known), NEW u \in 0..Len(n)
  PROVE  /\ u \in known => On(n, known, u) = On(n, known, n[u].parent) \cup {u}
         /\ u \notin known => On(n, known, u) = {}
         /\ On(n, known, u) \subseteq known \cap (1..u)
         /\ u \in known => n[u].parent \in 0..Len(n)
<1>1. u \notin known => ToSet(TraceChain(n, known, u)) = {}
  BY TraceShape DEF ToSet
<1>2. u \in known => n[u].parent \in 0..Len(n)
  BY DEF Tree
<1> QED BY <1>1, <1>2, TraceShape DEF On

\* The nodes above a node of a path are those of the path that are older.
LEMMA OnPath ==
  ASSUME NEW n, NEW known, Tree(n, known)
  PROVE  \A u \in 0..Len(n) : \A v \in On(n, known, u) :
           On(n, known, v) = {w \in On(n, known, u) : w <= v}
<1> DEFINE O(u) == On(n, known, u)
           Good(u) == \A v \in O(u) : O(v) = {w \in O(u) : w <= v}
           P == {u \in Nat : u <= Len(n) => Good(u)}
<1>1. Len(n) \in Nat /\ known \subseteq 1..Len(n) /\ \A u \in known : n[u].parent \in 0..(u - 1)
  BY DEF Tree
<1>2. \A u \in 0..Len(n) : /\ u \in known => O(u) = O(n[u].parent) \cup {u}
                           /\ u \notin known => O(u) = {}
                           /\ O(u) \subseteq known \cap (1..u)
  BY OnUnfold
<1> HIDE DEF O
<1>3. ASSUME NEW u \in Nat, \A k \in Nat : k < u => k \in P PROVE u \in P
  <2> SUFFICES ASSUME u <= Len(n), NEW v \in O(u) PROVE O(v) = {w \in O(u) : w <= v}
    OBVIOUS
  <2>1. u \in 0..Len(n)  BY <1>1
  <2>2. u \in known  BY <1>2, <2>1
  <2> DEFINE p == n[u].parent
  <2>3. p \in Nat /\ p < u /\ p \in 0..Len(n)  BY <1>1, <2>2
  <2>4. /\ O(u) = O(p) \cup {u}
        /\ O(u) \subseteq 1..u
        /\ O(p) \subseteq 1..p  BY <1>2, <2>1, <2>2, <2>3
  <2>5. Good(p)  BY <1>3, <2>3
  <2> HIDE DEF p
  <2>6. CASE v = u
    BY <2>4, <2>6
  <2>7. CASE v # u
    <3>1. v \in O(p) /\ v \in 1..p  BY <2>4, <2>7
    <3>2. O(v) = {w \in O(p) : w <= v}  BY <2>5, <3>1
    <3> QED BY <2>4, <3>1, <3>2, <2>3
  <2> QED BY <2>6, <2>7
<1>4. Nat \subseteq P
  <2> HIDE DEF P
  <2> QED BY <1>3, StrongInduction
<1>5. \A u \in 0..Len(n) : Good(u)
  <2> HIDE DEF Good
  <2> QED BY <1>4, <1>1
<1> QED BY <1>5 DEF O

\* A smaller map leads less far.
LEMMA OnGrows ==
  ASSUME NEW n, NEW known, Tree(n, known), NEW more, Tree(n, more), known \subseteq more
  PROVE  \A u \in 0..Len(n) : On(n, known, u) \subseteq On(n, more, u)
<1> DEFINE P == {u \in Nat : u <= Len(n) => On(n, known, u) \subseteq On(n, more, u)}
<1>1. ASSUME NEW u \in Nat, \A k \in Nat : k < u => k \in P PROVE u \in P
  <2> SUFFICES ASSUME u <= Len(n) PROVE On(n, known, u) \subseteq On(n, more, u)
    OBVIOUS
  <2>1. u \in 0..Len(n)  BY DEF Tree
  <2>2. CASE u \notin known
    BY <2>1, <2>2, OnUnfold
  <2>3. CASE u \in known
    <3>1. n[u].parent \in Nat /\ n[u].parent < u /\ n[u].parent <= Len(n)
      BY <2>1, <2>3 DEF Tree
    <3>2. On(n, known, n[u].parent) \subseteq On(n, more, n[u].parent)  BY <1>1, <3>1
    <3> QED BY <2>1, <2>3, <3>2, OnUnfold
  <2> QED BY <2>2, <2>3
<1>2. Nat \subseteq P
  <2> HIDE DEF P
  <2> QED BY <1>1, StrongInduction
<1> QED BY <1>2 DEF Tree

-----------------------------------------------------------------------------
(* The uuids of a batch, and rising sequences of uuids.                     *)

\* The next k uuids after N.
Run(N, k) == [i \in 1..k |-> N + i]

LEMMA RunShape ==
  ASSUME NEW N \in Nat, NEW k \in Nat
  PROVE  /\ Run(N, k) \in Seq((N + 1)..(N + k)) /\ Len(Run(N, k)) = k
         /\ Rising(Run(N, k)) /\ ToSet(Run(N, k)) = (N + 1)..(N + k)
         /\ k > 0 => Last(Run(N, k)) = N + k /\ Front(Run(N, k)) = Run(N, k - 1)
         /\ \A j \in 0..k : SubSeq(Run(N, k), 1, j) = Run(N, j)
<1> DEFINE r == Run(N, k)
<1>1. r \in [1..k -> (N + 1)..(N + k)]
  BY DEF Run
<1>2. r \in Seq((N + 1)..(N + k)) /\ Len(r) = k
  BY <1>1, SeqDef, LenProperties
<1>3. Rising(r)
  BY DEF Rising, Run
<1>4. ToSet(r) = (N + 1)..(N + k)
  <2>1. ASSUME NEW x \in (N + 1)..(N + k) PROVE x \in ToSet(r)
    <3>1. x - N \in 1..k /\ r[x - N] = x  BY DEF Run
    <3> QED BY <3>1 DEF ToSet, Run
  <2> QED BY <1>1, <2>1 DEF ToSet
<1>5. ASSUME NEW j \in 0..k PROVE SubSeq(r, 1, j) = Run(N, j)
  <2>1. SubSeq(r, 1, j) = [i \in 1..j |-> r[i]]
    <3>1. /\ SubSeq(r, 1, j) \in Seq((N + 1)..(N + k))
          /\ Len(SubSeq(r, 1, j)) = j
          /\ \A i \in 1..j : SubSeq(r, 1, j)[i] = r[i]
      <4> HIDE DEF r
      <4>1. CASE j = 0
        <5>1. SubSeq(r, 1, j) = <<>>  BY <4>1, <1>2, SubSeqEmpty
        <5> QED BY <4>1, <5>1, EmptySeq
      <4>2. CASE j # 0
        <5>1. 1 \in 1..Len(r) /\ j \in 1..Len(r) /\ 1 <= j  BY <1>2, <4>2
        <5>2. /\ SubSeq(r, 1, j) \in Seq((N + 1)..(N + k))
              /\ Len(SubSeq(r, 1, j)) = j - 1 + 1
              /\ \A i \in 1..(j - 1 + 1) : SubSeq(r, 1, j)[i] = r[1 + i - 1]
          BY <1>2, <5>1, SubSeqProperties
        <5>3. j - 1 + 1 = j /\ \A i \in 1..j : 1 + i - 1 = i  OBVIOUS
        <5> QED BY <5>2, <5>3
      <4> QED BY <4>1, <4>2
    <3> HIDE DEF r
    <3>2. DOMAIN SubSeq(r, 1, j) = 1..j  BY <3>1, LenProperties
    <3>3. SubSeq(r, 1, j) = [i \in 1..j |-> SubSeq(r, 1, j)[i]]
      BY <3>1, <3>2, LenProperties
    <3> QED BY <3>1, <3>3
  <2>2. \A i \in 1..j : r[i] = N + i  BY DEF Run
  <2> HIDE DEF r
  <2> QED BY <2>1, <2>2 DEF Run
<1>6. k > 0 => Last(r) = N + k /\ Front(r) = Run(N, k - 1)
  <2> SUFFICES ASSUME k > 0 PROVE Last(r) = N + k /\ Front(r) = Run(N, k - 1)
    OBVIOUS
  <2>1. k - 1 \in 0..k /\ k \in 1..k  OBVIOUS
  <2>2. r[k] = N + k  BY <2>1 DEF Run
  <2> HIDE DEF r
  <2> QED BY <1>2, <1>5, <2>1, <2>2 DEF Last, Front
<1> HIDE DEF r
<1> QED BY <1>2, <1>3, <1>4, <1>5, <1>6 DEF r

LEMMA ConcatRange ==
  ASSUME NEW T, NEW s \in Seq(T), NEW t \in Seq(T)
  PROVE  ToSet(s \o t) = ToSet(s) \cup ToSet(t)
<1> DEFINE m == Len(s)
           k == Len(t)
<1>1. m \in Nat /\ k \in Nat /\ DOMAIN s = 1..m /\ DOMAIN t = 1..k
  BY LenProperties
<1>2. /\ s \o t \in Seq(T) /\ Len(s \o t) = m + k
      /\ \A i \in 1..(m + k) : (s \o t)[i] = IF i <= m THEN s[i] ELSE t[i - m]
  BY ConcatProperties
<1>3. DOMAIN (s \o t) = 1..(m + k)  BY <1>2, LenProperties
<1> DEFINE r == s \o t
<1> HIDE DEF m, k, r
<1>4. r \in Seq(T) /\ DOMAIN r = 1..(m + k) /\ \A i \in 1..(m + k) : r[i] = IF i <= m THEN s[i] ELSE t[i - m]
  BY <1>2, <1>3 DEF r
<1>5. ASSUME NEW x \in ToSet(r) PROVE x \in ToSet(s) \cup ToSet(t)
  <2>1. PICK i \in 1..(m + k) : x = r[i]  BY <1>5, <1>4 DEF ToSet
  <2>2. CASE i <= m  BY <2>1, <2>2, <1>4, <1>1 DEF ToSet
  <2>3. CASE ~(i <= m)
    <3>1. i - m \in 1..k /\ x = t[i - m]  BY <2>1, <2>3, <1>4, <1>1
    <3> QED BY <3>1, <1>1 DEF ToSet
  <2> QED BY <2>2, <2>3
<1>6. ASSUME NEW x \in ToSet(s) PROVE x \in ToSet(r)
  <2>1. PICK i \in 1..m : x = s[i]  BY <1>6, <1>1 DEF ToSet
  <2>2. i \in 1..(m + k) /\ r[i] = x  BY <2>1, <1>1, <1>4
  <2> QED BY <2>2, <1>4 DEF ToSet
<1>7. ASSUME NEW x \in ToSet(t) PROVE x \in ToSet(r)
  <2>1. PICK i \in 1..k : x = t[i]  BY <1>7, <1>1 DEF ToSet
  <2>2. m + i \in 1..(m + k) /\ ~(m + i <= m) /\ (m + i) - m = i  BY <2>1, <1>1
  <2>3. r[m + i] = t[(m + i) - m]  BY <2>2, <1>4
  <2>4. r[m + i] = x  BY <2>1, <2>2, <2>3
  <2> QED BY <2>2, <2>4, <1>4 DEF ToSet
<1> QED BY <1>5, <1>6, <1>7 DEF r

\* A chain of uuids up to N, followed by the next k.
LEMMA RisingConcat ==
  ASSUME NEW N \in Nat, NEW k \in Nat, NEW s \in Seq(1..N), Rising(s)
  PROVE  /\ s \o Run(N, k) \in Seq(1..(N + k)) /\ Rising(s \o Run(N, k))
         /\ ToSet(s \o Run(N, k)) = ToSet(s) \cup ((N + 1)..(N + k))
         /\ k > 0 => /\ Last(s \o Run(N, k)) = N + k /\ s \o Run(N, k) # <<>>
         /\ Len(s \o Run(N, k)) = Len(s) + k
<1> DEFINE m == Len(s)
           t == Run(N, k)
<1>0. m \in Nat /\ DOMAIN s = 1..m /\ \A i \in 1..m : s[i] \in 1..N
  BY LenProperties, ElementOfSeq
<1>1. /\ t \in Seq((N + 1)..(N + k)) /\ Len(t) = k /\ Rising(t)
      /\ ToSet(t) = (N + 1)..(N + k)
  BY RunShape
<1>2. s \in Seq(1..(N + k)) /\ t \in Seq(1..(N + k))
  <2>1. 1..N \subseteq 1..(N + k) /\ (N + 1)..(N + k) \subseteq 1..(N + k)  OBVIOUS
  <2> HIDE DEF t
  <2> QED BY <1>1, <2>1, SeqMonotonic
<1>3. \A j \in 1..k : t[j] = N + j
  BY DEF Run
<1> DEFINE r == s \o t
<1> HIDE DEF m, t, r
<1>4. /\ r \in Seq(1..(N + k)) /\ Len(r) = m + k
      /\ \A i \in 1..(m + k) : r[i] = IF i <= m THEN s[i] ELSE t[i - m]
  BY <1>1, <1>2, ConcatProperties DEF r, m
<1>5. DOMAIN r = 1..(m + k)  BY <1>4, LenProperties
<1>6. ToSet(r) = ToSet(s) \cup ((N + 1)..(N + k))
  BY <1>1, <1>2, ConcatRange DEF r
<1>7. Rising(r)
  <2> SUFFICES ASSUME NEW a \in 1..(m + k), NEW b \in 1..(m + k), a < b PROVE r[a] < r[b]
    BY <1>5 DEF Rising
  <2>1. CASE b <= m
    <3>1. r[a] = s[a] /\ r[b] = s[b] /\ a \in DOMAIN s /\ b \in DOMAIN s  BY <1>4, <1>0, <2>1
    <3> QED BY <3>1 DEF Rising
  <2>2. CASE ~(b <= m) /\ a <= m
    <3>1. r[a] = s[a] /\ r[b] = t[b - m] /\ b - m \in 1..k /\ a \in 1..m  BY <1>4, <1>0, <2>2
    <3>2. s[a] \in 1..N /\ t[b - m] = N + (b - m)  BY <3>1, <1>0, <1>3
    <3> QED BY <3>1, <3>2, <1>0
  <2>3. CASE ~(b <= m) /\ ~(a <= m)
    <3>1. /\ r[a] = t[a - m]
          /\ r[b] = t[b - m]
          /\ b - m \in 1..k
          /\ a - m \in 1..k  BY <1>4, <1>0, <2>3
    <3>2. t[a - m] = N + (a - m) /\ t[b - m] = N + (b - m)  BY <3>1, <1>3
    <3> QED BY <3>1, <3>2, <1>0
  <2> QED BY <2>1, <2>2, <2>3
<1>8. k > 0 => Last(r) = N + k /\ r # <<>>
  <2> SUFFICES ASSUME k > 0 PROVE Last(r) = N + k /\ r # <<>>
    OBVIOUS
  <2>1. m + k \in 1..(m + k) /\ ~(m + k <= m) /\ (m + k) - m = k /\ k \in 1..k  BY <1>0
  <2>2. r[m + k] = t[(m + k) - m]  BY <1>4, <2>1
  <2>3. r[m + k] = N + k  BY <1>3, <2>1, <2>2
  <2>4. Last(r) = N + k  BY <2>3, <1>4 DEF Last
  <2>5. r # <<>>  BY <1>4, <1>0, EmptySeq
  <2> QED BY <2>4, <2>5
<1> QED BY <1>4, <1>6, <1>7, <1>8 DEF r, t, m

\* The last of a rising sequence is the greatest.
LEMMA RisingLast ==
  ASSUME NEW N \in Nat, NEW s \in Seq(1..N), Rising(s), s # <<>>
  PROVE  /\ Last(s) \in ToSet(s) /\ Last(s) \in 1..N
         /\ \A u \in ToSet(s) : u <= Last(s)
<1>1. Len(s) \in Nat /\ DOMAIN s = 1..Len(s) /\ Len(s) # 0
  BY LenProperties, EmptySeq
<1>2. \A i \in 1..Len(s) : s[i] \in 1..N
  BY ElementOfSeq
<1>3. Last(s) = s[Len(s)] /\ Len(s) \in DOMAIN s
  BY <1>1 DEF Last
<1>4. Last(s) \in ToSet(s) /\ Last(s) \in 1..N
  BY <1>1, <1>2, <1>3 DEF ToSet
<1>5. ASSUME NEW u \in ToSet(s) PROVE u <= Last(s)
  <2>1. PICK i \in DOMAIN s : u = s[i]  BY DEF ToSet
  <2>2. i = Len(s) \/ i < Len(s)  BY <1>1
  <2>3. i < Len(s) => s[i] < s[Len(s)]  BY <1>3 DEF Rising
  <2>4. u \in 1..N  BY <2>1, <1>1, <1>2
  <2> QED BY <2>1, <2>2, <2>3, <2>4, <1>3, <1>4
<1> QED BY <1>4, <1>5

\* A rising sequence is determined by what it holds.
LEMMA RangeInSeq ==
  ASSUME NEW T, NEW s \in Seq(T)
  PROVE  ToSet(s) \subseteq T /\ (s = <<>> <=> ToSet(s) = {})
<1>1. Len(s) \in Nat /\ DOMAIN s = 1..Len(s) /\ \A i \in 1..Len(s) : s[i] \in T
  BY LenProperties, ElementOfSeq
<1>2. ToSet(s) \subseteq T  BY <1>1 DEF ToSet
<1>3. s = <<>> => ToSet(s) = {}  BY DEF ToSet
<1>4. ASSUME s # <<>> PROVE ToSet(s) # {}
  <2>1. Len(s) # 0  BY <1>4, EmptySeq
  <2>2. 1 \in DOMAIN s  BY <1>1, <2>1
  <2> QED BY <2>2 DEF ToSet
<1> QED BY <1>2, <1>3, <1>4

-----------------------------------------------------------------------------
(* The nodes, and what a write does to them.                                *)

NodesUpTo(k) ==
  [kind : Kinds, parent : 0..k, unzip : 0..k, boundary : 0..k, call : 0..k,
   seen : Seq(SUBSET (1..k)), says : SUBSET (1..k)]

\* Every node is younger than its parent and than the interval behind it.
Descends(x, u) ==
  x.parent < u /\ x.unzip < u /\ (x.kind = "event" => x.says = {})

Family(n) ==
  /\ n \in Seq(NodesUpTo(Len(n)))
  /\ \A u \in 1..Len(n) : Descends(n[u], u)

\* A batch fit to follow the nodes of n.
Follows(b, n) ==
  /\ b \in Seq(NodesUpTo(Len(n) + Len(b))) /\ Len(b) > 0
  /\ \A i \in 1..Len(b) : Descends(b[i], Len(n) + i)

LEMMA NodesMonotonic ==
  ASSUME NEW k \in Nat, NEW l \in Nat, k <= l
  PROVE  /\ NodesUpTo(k) \subseteq NodesUpTo(l)
         /\ Seq(NodesUpTo(k)) \subseteq Seq(NodesUpTo(l))
         /\ Seq(SUBSET (1..k)) \subseteq Seq(SUBSET (1..l))
         /\ Seq(1..k) \subseteq Seq(1..l)
<1>1. 0..k \subseteq 0..l /\ 1..k \subseteq 1..l /\ SUBSET (1..k) \subseteq SUBSET (1..l)
  OBVIOUS
<1>2. Seq(SUBSET (1..k)) \subseteq Seq(SUBSET (1..l)) /\ Seq(1..k) \subseteq Seq(1..l)
  BY <1>1, SeqMonotonic
<1>3. NodesUpTo(k) \subseteq NodesUpTo(l)
  BY <1>1, <1>2 DEF NodesUpTo
<1> QED BY <1>2, <1>3, SeqMonotonic

LEMMA FamilyShape ==
  ASSUME NEW n, Family(n)
  PROVE  /\ Len(n) \in Nat /\ DOMAIN n = 1..Len(n)
         /\ \A u \in 1..Len(n) : n[u] \in NodesUpTo(Len(n))
         /\ \A known \in SUBSET (1..Len(n)) :
              Tree(n, known) /\ Tree(Unzipped(n), known)
         /\ Len(Unzipped(n)) = Len(n)
<1>1. /\ Len(n) \in Nat /\ DOMAIN n = 1..Len(n)
      /\ \A u \in 1..Len(n) : n[u] \in NodesUpTo(Len(n))
  BY LenProperties, ElementOfSeq DEF Family
<1>2. ASSUME NEW u \in 1..Len(n)
      PROVE n[u].parent \in 0..(u - 1) /\ n[u].unzip \in 0..(u - 1)
  <2>1. n[u].parent \in 0..Len(n) /\ n[u].unzip \in 0..Len(n)  BY <1>1 DEF NodesUpTo
  <2> QED BY <1>1, <2>1 DEF Family, Descends
<1> DEFINE m == Unzipped(n)
<1>3. /\ DOMAIN m = 1..Len(n)
      /\ \A u \in 1..Len(n) : m[u].parent \in 0..(u - 1)
  BY <1>1, <1>2 DEF Unzipped
<1>4. m \in [1..Len(n) -> {m[u] : u \in 1..Len(n)}]
  <2>1. m = [u \in 1..Len(n) |-> m[u]]  BY <1>1 DEF Unzipped
  <2> HIDE DEF m
  <2> QED BY <2>1
<1>5. Len(m) = Len(n)
  <2> HIDE DEF m
  <2>1. m \in Seq({m[u] : u \in 1..Len(n)})  BY <1>1, <1>4, SeqDef
  <2> QED BY <1>1, <1>3, <2>1, LenProperties
<1> HIDE DEF m
<1>6. \A known \in SUBSET (1..Len(n)) : Tree(n, known) /\ Tree(m, known)
  BY <1>1, <1>2, <1>3, <1>5 DEF Tree
<1> QED BY <1>1, <1>5, <1>6 DEF m

LEMMA FamilyGrows ==
  ASSUME NEW n, Family(n), NEW b, Follows(b, n)
  PROVE  /\ Family(n \o b) /\ Len(n \o b) = Len(n) + Len(b) /\ Len(b) \in Nat
         /\ \A u \in 1..Len(n) : (n \o b)[u] = n[u]
         /\ \A i \in 1..Len(b) : (n \o b)[Len(n) + i] = b[i]
<1> DEFINE N == Len(n)
           B == Len(b)
           m == n \o b
<1>1. N \in Nat /\ B \in Nat
  BY FamilyShape, LenProperties DEF Follows
<1>2. n \in Seq(NodesUpTo(N + B)) /\ b \in Seq(NodesUpTo(N + B))
  <2>1. n \in Seq(NodesUpTo(N)) /\ N <= N + B /\ N + B \in Nat  BY <1>1 DEF Family
  <2>2. b \in Seq(NodesUpTo(N + B))  BY DEF Follows
  <2> HIDE DEF N, B
  <2> QED BY <1>1, <2>1, <2>2, NodesMonotonic
<1>3. /\ m \in Seq(NodesUpTo(N + B)) /\ Len(m) = N + B
      /\ \A i \in 1..(N + B) : m[i] = IF i <= N THEN n[i] ELSE b[i - N]
  BY <1>2, ConcatProperties
<1> HIDE DEF m
<1>4. \A u \in 1..N : m[u] = n[u]
  BY <1>1, <1>3
<1>5. \A i \in 1..B : m[N + i] = b[i]
  <2> SUFFICES ASSUME NEW i \in 1..B PROVE m[N + i] = b[i]
    OBVIOUS
  <2> HIDE DEF N, B
  <2>1. N + i \in 1..(N + B) /\ ~(N + i <= N) /\ (N + i) - N = i  BY <1>1
  <2> QED BY <2>1, <1>3
<1>6. ASSUME NEW u \in 1..(N + B) PROVE Descends(m[u], u)
  <2>1. CASE u <= N
    <3>1. u \in 1..N  BY <1>1, <2>1
    <3> QED BY <3>1, <1>4 DEF Family
  <2>2. CASE ~(u <= N)
    <3> HIDE DEF N, B
    <3>1. u - N \in 1..B /\ N + (u - N) = u  BY <1>1, <2>2
    <3>2. m[N + (u - N)] = b[u - N]  BY <3>1, <1>5
    <3>3. Descends(b[u - N], N + (u - N))  BY <3>1 DEF Follows, N, B
    <3> QED BY <3>1, <3>2, <3>3
  <2> QED BY <2>1, <2>2
<1>7. Family(m)
  BY <1>3, <1>6 DEF Family
<1> QED BY <1>1, <1>3, <1>4, <1>5, <1>7 DEF m

\* What was traced before is traced alike in the grown chain.
LEMMA TraceKept ==
  ASSUME NEW n, Family(n), NEW b, Follows(b, n), NEW m, m = n \o b
  PROVE  \A u \in 0..Len(n) :
           TraceChain(m, 1..Len(m), u) = TraceChain(n, 1..Len(n), u)
<1> DEFINE known == 1..Len(n)
           more == 1..Len(m)
           D == 0..Len(n)
<1>1. /\ Family(m) /\ Len(m) = Len(n) + Len(b) /\ Len(n) \in Nat /\ Len(b) \in Nat
      /\ \A u \in 1..Len(n) : m[u] = n[u]
  BY FamilyGrows, FamilyShape
<1>2. Tree(n, known) /\ Tree(m, more)
  BY <1>1, FamilyShape
<1>3. D \subseteq 0..Len(n) /\ D \subseteq 0..Len(m)
  BY <1>1
<1>4. \A v \in D : /\ v \in known <=> v \in more
                   /\ v \in known => n[v].parent = m[v].parent /\ n[v].parent \in D
  BY <1>1, <1>2 DEF Tree
<1>5. Agree(n, known, m, more, D)
  BY <1>3, <1>4 DEF Agree
<1> HIDE DEF known, more
<1>6. \A u \in D : TraceChain(n, known, u) = TraceChain(m, more, u)
  <2> HIDE DEF D
  <2> QED BY <1>2, <1>5, TraceAgree
<1> QED BY <1>6 DEF known, more

\* In a log in the order of creation the last record is the leaf.
LEMMA LeafIsLast ==
  ASSUME NEW n, Family(n), NEW ids \in Seq(1..Len(n)), Rising(ids), ids # <<>>
  PROVE  LeafUuid(n, ids) = Last(ids)
<1> DEFINE parents == {n[u].parent : u \in ToSet(ids)}
           leaves == Within(ids, ToSet(ids) \ parents)
<1>1. Len(n) \in Nat  BY FamilyShape
<1>2. /\ Last(ids) \in ToSet(ids) /\ Last(ids) \in 1..Len(n)
      /\ \A u \in ToSet(ids) : u <= Last(ids)
  BY <1>1, RisingLast
<1>3. ToSet(ids) \subseteq 1..Len(n)
  BY RangeInSeq
<1>4. Last(ids) \notin parents
  <2> SUFFICES ASSUME NEW u \in ToSet(ids), n[u].parent = Last(ids) PROVE FALSE
    OBVIOUS
  <2>1. Tree(n, ToSet(ids))  BY <1>3, FamilyShape
  <2>2. /\ n[u].parent \in 0..(u - 1)
        /\ u \in 1..Len(n)
        /\ u <= Last(ids)  BY <2>1, <1>2, <1>3 DEF Tree
  <2> QED BY <2>2, <1>1, <1>2
<1> HIDE DEF parents
<1>5. /\ leaves \in Seq(1..Len(n)) /\ Rising(leaves)
      /\ ToSet(leaves) = ToSet(ids) \cap (ToSet(ids) \ parents)
  <2>1. 1..Len(n) \subseteq Nat  OBVIOUS
  <2> QED BY <2>1, WithinKeeps
<1>6. LeafUuid(n, ids) = IF leaves = <<>> THEN Last(ids) ELSE Last(leaves)
  BY DEF LeafUuid, parents
<1> HIDE DEF leaves
<1>7. Last(ids) \in ToSet(leaves)
  BY <1>2, <1>4, <1>5
<1>8. leaves # <<>>
  BY <1>7 DEF ToSet
<1>9. /\ Last(leaves) \in ToSet(leaves) /\ Last(leaves) \in 1..Len(n)
      /\ \A u \in ToSet(leaves) : u <= Last(leaves)
  BY <1>1, <1>5, <1>8, RisingLast
<1>10. Last(leaves) \in ToSet(ids)  BY <1>5, <1>9
<1>11. Last(leaves) <= Last(ids) /\ Last(ids) <= Last(leaves)
  BY <1>2, <1>7, <1>9, <1>10
<1>12. Last(leaves) = Last(ids)
  BY <1>1, <1>2, <1>9, <1>11
<1> QED BY <1>6, <1>8, <1>12

-----------------------------------------------------------------------------
(* The types, with the shape of the chain that keeps them.                  *)

RangesUpTo(k) == [start : 1..k, end : 1..k, says : SUBSET (1..k)]

ChainShape ==
  /\ Family(node)
  /\ lines \in Seq(1..Len(node)) /\ Rising(lines)
  /\ data \in Seq(1..Len(node)) /\ Rising(data)
  /\ disk \in Seq(1..Len(node)) /\ Rising(disk)
  /\ tip \in 0..Len(node)

RestShape(k) ==
  /\ aux \in RangesUpTo(k) \cup {None}
  /\ pending \in RangesUpTo(k) \cup {None}
  /\ task \in RangesUpTo(k) \cup {None}
  /\ manual \in [msgs : Seq(1..k)] \cup {None}
  /\ turn \in {"idle", "ready", "calling"} /\ call \in Seq(SUBSET (1..k))
  /\ alive \in BOOLEAN
  /\ due \subseteq 1..k /\ mishaps \subseteq Mishaps /\ spent \in Nat
  /\ task # None => pending = None
  /\ ~alive => task = None /\ manual = None

ShapeInv == ChainShape /\ RestShape(Len(node))

LEMMA ShapeIsTyped == ShapeInv => TypeOK
<1> SUFFICES ASSUME ShapeInv PROVE TypeOK
  OBVIOUS
<1>1. DOMAIN node = 1..Len(node) /\ Len(node) \in Nat
  BY FamilyShape DEF ShapeInv, ChainShape
<1>2. node \in Seq(Nodes)
  BY <1>1 DEF ShapeInv, ChainShape, Family, NodesUpTo, Nodes, Uuids, Windows
<1> QED BY <1>1, <1>2 DEF ShapeInv, ChainShape, RestShape, RangesUpTo, TypeOK, Uuids, Windows,
   Ranges

-----------------------------------------------------------------------------
(* What the operators of the chain return.                                  *)

LEMMA MessagesShape ==
  ASSUME ChainShape, NEW c \in Seq(1..Len(node))
  PROVE  /\ Messages(c) \in Seq(1..Len(node))
         /\ ToSet(Messages(c)) = {u \in ToSet(c) : node[u].kind # "event"}
         /\ Rising(c) => Rising(Messages(c))
         /\ Facts(Messages(c)) = Facts(c)
<1>1. DOMAIN node = 1..Len(node) /\ ToSet(c) \subseteq 1..Len(node)
  BY FamilyShape, RangeInSeq DEF ChainShape
<1>2. 1..Len(node) \subseteq Nat
  OBVIOUS
<1>3. /\ Messages(c) \in Seq(1..Len(node))
      /\ ToSet(Messages(c)) = ToSet(c) \cap MessageNodes(node)
      /\ Rising(c) => Rising(Messages(c))
  BY <1>2, WithinKeeps DEF Messages
<1>4. ToSet(Messages(c)) = {u \in ToSet(c) : node[u].kind # "event"}
  BY <1>1, <1>3 DEF MessageNodes
<1>5. \A u \in ToSet(c) : node[u].kind = "event" => node[u].says = {}
  BY <1>1 DEF ChainShape, Family, Descends
<1>6. Facts(Messages(c)) = Facts(c)
  BY <1>4, <1>5 DEF Facts
<1> QED BY <1>3, <1>4, <1>6

LEMMA SaysShape ==
  ASSUME NEW n, Family(n), NEW c \in Seq(1..Len(n))
  PROVE  Says(n, c) \in Seq(SUBSET (1..Len(n)))
<1> DEFINE msgs == Within(c, MessageNodes(n))
<1>1. msgs \in Seq(1..Len(n))
  BY WithinKeeps
<1> HIDE DEF msgs
<1>2. DOMAIN msgs = 1..Len(msgs) /\ Len(msgs) \in Nat /\ \A i \in 1..Len(msgs) : msgs[i] \in 1..Len(n)
  BY <1>1, LenProperties, ElementOfSeq
<1>3. \A u \in 1..Len(n) : n[u].says \in SUBSET (1..Len(n))
  BY FamilyShape DEF NodesUpTo
<1>4. [i \in DOMAIN msgs |-> n[msgs[i]].says] \in [1..Len(msgs) -> SUBSET (1..Len(n))]
  BY <1>2, <1>3
<1>5. [i \in DOMAIN msgs |-> n[msgs[i]].says] \in Seq(SUBSET (1..Len(n)))
  BY <1>2, <1>4, SeqDef
<1> QED BY <1>5 DEF Says, msgs

LEMMA FactsShape ==
  ASSUME ChainShape, NEW c \in Seq(1..Len(node))
  PROVE  Facts(c) \subseteq 1..Len(node)
<1>1. ToSet(c) \subseteq 1..Len(node)
  BY RangeInSeq
<1>2. \A u \in 1..Len(node) : node[u].says \subseteq 1..Len(node)
  BY FamilyShape DEF ChainShape, NodesUpTo
<1> QED BY <1>1, <1>2 DEF Facts

LEMMA MinShape ==
  ASSUME NEW S, S \subseteq Nat, S # {}
  PROVE  Min(S) \in S /\ \A y \in S : Min(S) <= y
<1>1. \E x \in S : \A y \in S : x <= y
  BY LeastNatural
<1> QED BY <1>1 DEF Min

LEMMA CutShape ==
  ASSUME NEW T, NEW msgs \in Seq(T)
  PROVE  /\ CalcCutIdx(msgs) \in 0..Len(msgs)
         /\ msgs # <<>> => CalcCutIdx(msgs) # 0
<1> SUFFICES ASSUME msgs # <<>>
             PROVE  CalcCutIdx(msgs) \in 1..Len(msgs)
  BY LenProperties DEF CalcCutIdx
<1> DEFINE cut == Min({Len(msgs), Window - Keep})
<1>1. Len(msgs) \in Nat /\ Len(msgs) # 0
  BY LenProperties, EmptySeq
<1>2. cut \in 1..Len(msgs)
  <2>1. Window - Keep \in Nat /\ Window - Keep # 0
    BY ChainAssumption
  <2>2. cut \in {Len(msgs), Window - Keep} /\ \A y \in {Len(msgs), Window - Keep} : cut <= y
    <3>1. {Len(msgs), Window - Keep} \subseteq Nat /\ {Len(msgs), Window - Keep} # {}
      BY <1>1, <2>1
    <3> QED BY <3>1, MinShape
  <2> HIDE DEF cut
  <2> QED BY <1>1, <2>1, <2>2
<1>3. CalcCutIdx(msgs) = FindSafeCutIdx(msgs, cut)
  BY DEF CalcCutIdx
<1> HIDE DEF cut
<1>4. FindSafeCutIdx(msgs, cut) \in cut..Len(msgs)
  <2> DEFINE calls(i, j) == {node[msgs[k]].call : k \in
                               {l \in i..j : node[msgs[l]].kind = "call"}}
             results(i, j) == {node[msgs[k]].call : k \in
                               {l \in i..j : node[msgs[l]].kind = "result"}}
             open == calls(1, cut) \ results(1, cut)
             closed == {j \in cut..Len(msgs) : open \subseteq results(cut + 1, j)}
  <2>1. FindSafeCutIdx(msgs, cut) = IF closed = {} THEN Len(msgs) ELSE Min(closed)
    BY DEF FindSafeCutIdx
  <2>2. closed \subseteq cut..Len(msgs) /\ closed \subseteq Nat
    BY <1>1, <1>2
  <2> HIDE DEF closed
  <2>3. closed # {} => Min(closed) \in closed
    BY <2>2, MinShape
  <2>4. CASE closed = {}
    BY <1>1, <1>2, <2>1, <2>4
  <2>5. CASE closed # {}
    <3>1. FindSafeCutIdx(msgs, cut) = Min(closed) /\ Min(closed) \in closed  BY <2>1, <2>3, <2>5
    <3> QED BY <2>2, <3>1
  <2> QED BY <2>4, <2>5
<1> QED BY <1>1, <1>2, <1>3, <1>4

LEMMA PrefixShape ==
  ASSUME NEW T, NEW s \in Seq(T), NEW k \in 0..Len(s)
  PROVE  /\ SubSeq(s, 1, k) \in Seq(T) /\ Len(SubSeq(s, 1, k)) = k
         /\ \A i \in 1..k : SubSeq(s, 1, k)[i] = s[i]
         /\ ToSet(SubSeq(s, 1, k)) = {s[i] : i \in 1..k}
<1>1. Len(s) \in Nat
  BY LenProperties
<1> DEFINE f == SubSeq(s, 1, k)
<1>2. f \in Seq(T) /\ Len(f) = k /\ \A i \in 1..k : f[i] = s[i]
  <2>1. CASE k = 0
    <3>1. f = <<>>  BY <2>1, SubSeqEmpty
    <3> HIDE DEF f
    <3> QED BY <2>1, <3>1, EmptySeq
  <2>2. CASE k # 0
    <3>1. 1 \in 1..Len(s) /\ k \in 1..Len(s) /\ 1 <= k  BY <1>1, <2>2
    <3>2. /\ SubSeq(s, 1, k) \in Seq(T)
          /\ Len(SubSeq(s, 1, k)) = k - 1 + 1
          /\ \A i \in 1..(k - 1 + 1) : SubSeq(s, 1, k)[i] = s[1 + i - 1]
      BY <1>1, <3>1, SubSeqProperties, ElementOfSeq
    <3>3. k - 1 + 1 = k /\ \A i \in 1..k : 1 + i - 1 = i  BY <1>1
    <3> HIDE DEF f
    <3> QED BY <3>2, <3>3 DEF f
  <2> QED BY <2>1, <2>2
<1> HIDE DEF f
<1>3. DOMAIN f = 1..k
  BY <1>2, LenProperties
<1>4. ToSet(f) = {s[i] : i \in 1..k}
  BY <1>2, <1>3 DEF ToSet
<1> QED BY <1>2, <1>4 DEF f

LEMMA FrontShape ==
  ASSUME NEW T, NEW s \in Seq(T), s # <<>>
  PROVE  /\ Front(s) \in Seq(T) /\ Len(Front(s)) = Len(s) - 1 /\ Len(s) - 1 \in Nat
         /\ \A i \in 1..(Len(s) - 1) : Front(s)[i] = s[i]
         /\ ToSet(Front(s)) \subseteq ToSet(s)
         /\ Rising(s) => Rising(Front(s))
         /\ Last(s) \in T
<1>1. Len(s) \in Nat /\ Len(s) # 0 /\ \A i \in 1..Len(s) : s[i] \in T
  BY LenProperties, ElementOfSeq, EmptySeq
<1> DEFINE k == Len(s) - 1
           f == Front(s)
<1>2. k \in Nat /\ \A i \in 1..k : s[i] \in T
  BY <1>1
<1>3. f \in Seq(T) /\ Len(f) = k /\ (\A i \in 1..k : f[i] = s[i])
  <2>1. f = SubSeq(s, 1, k)  BY DEF Front
  <2>2. k \in 0..Len(s)
    <3>1. k = Len(s) - 1  OBVIOUS
    <3> HIDE DEF k
    <3> QED BY <1>1, <1>2, <3>1
  <2> HIDE DEF f, k
  <2> QED BY <2>1, <2>2, PrefixShape
<1> HIDE DEF f
<1>4. DOMAIN f = 1..k /\ DOMAIN s = 1..Len(s)
  BY <1>3, LenProperties
<1>5. ToSet(f) \subseteq ToSet(s)
  BY <1>1, <1>3, <1>4 DEF ToSet
<1>6. Rising(s) => Rising(f)
  BY <1>1, <1>3, <1>4 DEF Rising
<1>7. Last(s) \in T
  BY <1>1 DEF Last
<1> QED BY <1>2, <1>3, <1>5, <1>6, <1>7 DEF f

\* A background compaction summarises a prefix of the window.
LEMMA BackgroundShape ==
  ASSUME ChainShape, NEW msgs \in Seq(1..Len(node)), Background(msgs) # None
  PROVE  \E cut \in 1..Len(msgs) :
           Background(msgs) = [start |-> msgs[1], end |-> msgs[cut],
                               says |-> Facts(SubSeq(msgs, 1, cut))]
<1> DEFINE head == IF msgs # <<>> /\ node[Last(msgs)].kind = "user"
                   THEN Front(msgs) ELSE msgs
           cut == CalcCutIdx(head)
<1>1. Background(msgs) =
        IF cut = 0 THEN None
        ELSE [start |-> head[1], end |-> head[cut], says |-> Facts(SubSeq(head, 1, cut))]
  BY DEF Background
<1>2. /\ head \in Seq(1..Len(node)) /\ Len(head) \in Nat /\ Len(head) <= Len(msgs)
      /\ Len(msgs) \in Nat
      /\ \A i \in 1..Len(head) : head[i] = msgs[i]
  <2>1. CASE msgs # <<>> /\ node[Last(msgs)].kind = "user"
    <3>1. head = Front(msgs)  BY <2>1
    <3>2. /\ Front(msgs) \in Seq(1..Len(node)) /\ Len(Front(msgs)) = Len(msgs) - 1
          /\ Len(msgs) \in Nat /\ Len(msgs) - 1 \in Nat
          /\ \A i \in 1..(Len(msgs) - 1) : Front(msgs)[i] = msgs[i]
      BY <2>1, FrontShape, LenProperties
    <3> HIDE DEF head
    <3> QED BY <3>1, <3>2
  <2>2. CASE ~(msgs # <<>> /\ node[Last(msgs)].kind = "user")
    <3>1. head = msgs  BY <2>2
    <3> HIDE DEF head
    <3> QED BY <3>1, LenProperties
  <2> QED BY <2>1, <2>2
<1> HIDE DEF head
<1>3. cut \in 0..Len(head) /\ cut # 0
  BY <1>1, <1>2, CutShape
<1> HIDE DEF cut
<1>4. /\ cut \in 1..Len(head)
      /\ cut \in 1..Len(msgs)
      /\ 1 \in 1..Len(head)
      /\ cut \in 0..Len(head)
      /\ cut \in 0..Len(msgs)
  BY <1>2, <1>3
<1>5. head[1] = msgs[1] /\ head[cut] = msgs[cut]
  BY <1>2, <1>4
<1>6. ToSet(SubSeq(head, 1, cut)) = ToSet(SubSeq(msgs, 1, cut))
  <2>1. ToSet(SubSeq(head, 1, cut)) = {head[i] : i \in 1..cut}  BY <1>2, <1>4, PrefixShape
  <2>2. ToSet(SubSeq(msgs, 1, cut)) = {msgs[i] : i \in 1..cut}  BY <1>2, <1>4, PrefixShape
  <2>3. \A i \in 1..cut : head[i] = msgs[i]  BY <1>2, <1>4
  <2> QED BY <2>1, <2>2, <2>3
<1>7. Facts(SubSeq(head, 1, cut)) = Facts(SubSeq(msgs, 1, cut))
  BY <1>6 DEF Facts
<1>8. Background(msgs) = [start |-> msgs[1], end |-> msgs[cut], says |-> Facts(SubSeq(msgs, 1, cut))]
  BY <1>1, <1>3, <1>5, <1>7
<1> QED BY <1>4, <1>8

-----------------------------------------------------------------------------
(* What is written is fit to be written.                                    *)

LEMMA OneFollows ==
  ASSUME ChainShape, NEW x \in NodesUpTo(Len(node) + 1), Descends(x, Len(node) + 1)
  PROVE  Follows(<<x>>, node) /\ Len(<<x>>) = 1 /\ <<x>>[1] = x
<1>1. /\ <<x>> \in Seq(NodesUpTo(Len(node) + 1)) /\ Len(<<x>>) = 1
      /\ <<x>>[1] = x
  OBVIOUS
<1>2. 1..1 = {1}  OBVIOUS
<1> DEFINE b == <<x>>
<1> HIDE DEF b
<1> QED BY <1>1, <1>2 DEF Follows, b

LEMMA OriginalFollows ==
  ASSUME ChainShape, NEW kind \in {"user", "event", "answer"},
         NEW seen \in Seq(SUBSET (1..Len(node)))
  PROVE  Follows(<<Original(kind, Fresh, NoNode, seen)>>, node)
<1>1. Len(node) \in Nat
  BY FamilyShape DEF ChainShape
<1>2. seen \in Seq(SUBSET (1..(Len(node) + 1)))
  BY <1>1, NodesMonotonic
<1> DEFINE x == Original(kind, Fresh, NoNode, seen)
<1>3. x \in NodesUpTo(Len(node) + 1)
  BY <1>1, <1>2 DEF Original, NodesUpTo, Fresh, NoNode, Kinds
<1>4. Descends(x, Len(node) + 1)
  BY <1>1 DEF Original, Descends, NoNode
<1> HIDE DEF x
<1> QED BY <1>3, <1>4, OneFollows DEF x

LEMMA RoundFollows ==
  ASSUME ChainShape, NEW seen \in Seq(SUBSET (1..Len(node)))
  PROVE  /\ Follows(RoundBatch(seen), node) /\ Len(RoundBatch(seen)) = 2
<1>1. Len(node) \in Nat
  BY FamilyShape DEF ChainShape
<1>2. /\ seen \in Seq(SUBSET (1..(Len(node) + 2)))
      /\ <<>> \in Seq(SUBSET (1..(Len(node) + 2)))
  BY <1>1, NodesMonotonic, EmptySeq
<1> DEFINE x == Original("call", Fresh, Fresh, seen)
           y == Original("result", Fresh + 1, Fresh, <<>>)
<1>3. x \in NodesUpTo(Len(node) + 2) /\ y \in NodesUpTo(Len(node) + 2)
  BY <1>1, <1>2 DEF Original, NodesUpTo, Fresh, NoNode, Kinds
<1>4. Descends(x, Len(node) + 1) /\ Descends(y, Len(node) + 2)
  BY <1>1 DEF Original, Descends, NoNode
<1>5. RoundBatch(seen) = <<x, y>>
  BY DEF RoundBatch
<1> HIDE DEF x, y
<1>6. /\ <<x, y>> \in Seq(NodesUpTo(Len(node) + 2)) /\ Len(<<x, y>>) = 2
      /\ <<x, y>>[1] = x /\ <<x, y>>[2] = y
  BY <1>3
<1>7. 1..2 = {1, 2}  OBVIOUS
<1> DEFINE b == <<x, y>>
<1> HIDE DEF b
<1> QED BY <1>4, <1>5, <1>6, <1>7 DEF Follows, b

\* A node of a batch, hung below the tip or below the node before it.
IsLink(x, y, i) ==
  /\ x.parent = IF i = 1 THEN tip ELSE Len(node) + i - 1
  /\ x.kind = y.kind /\ x.says = y.says /\ x.call = y.call /\ x.unzip = y.unzip
  /\ x.seen = y.seen /\ x.boundary = y.boundary

LEMMA LinkedFollows ==
  ASSUME ChainShape, NEW b, Follows(b, node)
  PROVE  /\ Follows(Linked(b), node) /\ Len(Linked(b)) = Len(b) /\ Len(b) \in Nat
         /\ \A i \in 1..Len(b) : IsLink(Linked(b)[i], b[i], i)
<1> DEFINE N == Len(node)
           B == Len(b)
           c == Linked(b)
           par(i) == IF i = 1 THEN tip ELSE N + i - 1
<1>1. N \in Nat /\ B \in Nat /\ DOMAIN b = 1..B /\ tip \in 0..N /\ B > 0
  BY FamilyShape, LenProperties DEF ChainShape, Follows
<1>2. \A i \in 1..B : b[i] \in NodesUpTo(N + B) /\ Descends(b[i], N + i)
  BY ElementOfSeq DEF Follows
<1>3. c = [i \in 1..B |-> [b[i] EXCEPT !.parent = par(i)]]
  BY <1>1 DEF Linked
<1> HIDE DEF c, N, B
<1>4. ASSUME NEW i \in 1..B
      PROVE  /\ [b[i] EXCEPT !.parent = par(i)] \in NodesUpTo(N + B)
             /\ Descends([b[i] EXCEPT !.parent = par(i)], N + i)
             /\ [b[i] EXCEPT !.parent = par(i)].parent = par(i)
             /\ [b[i] EXCEPT !.parent = par(i)].kind = b[i].kind
             /\ [b[i] EXCEPT !.parent = par(i)].says = b[i].says
             /\ [b[i] EXCEPT !.parent = par(i)].call = b[i].call
             /\ [b[i] EXCEPT !.parent = par(i)].unzip = b[i].unzip
             /\ [b[i] EXCEPT !.parent = par(i)].seen = b[i].seen
             /\ [b[i] EXCEPT !.parent = par(i)].boundary = b[i].boundary
  <2>1. par(i) \in 0..(N + B) /\ par(i) < N + i
    BY <1>1
  <2>2. b[i] \in NodesUpTo(N + B) /\ Descends(b[i], N + i)
    BY <1>2
  <2> HIDE DEF par
  <2> QED BY <2>1, <2>2 DEF NodesUpTo, Descends
<1>5. c \in [1..B -> NodesUpTo(N + B)]
  BY <1>3, <1>4
<1>6. c \in Seq(NodesUpTo(N + B)) /\ Len(c) = B
  BY <1>1, <1>5, SeqDef, LenProperties
<1>7. \A i \in 1..B : c[i] = [b[i] EXCEPT !.parent = par(i)]
  BY <1>3
<1> HIDE DEF par
<1>8. Follows(c, node)
  BY <1>1, <1>4, <1>6, <1>7 DEF Follows, N
<1>9. \A i \in 1..B :
        /\ c[i] = [b[i] EXCEPT !.parent = par(i)] /\ c[i].parent = par(i)
        /\ c[i].kind = b[i].kind /\ c[i].says = b[i].says
        /\ c[i].call = b[i].call /\ c[i].unzip = b[i].unzip
        /\ c[i].seen = b[i].seen /\ c[i].boundary = b[i].boundary
  BY <1>4, <1>7
<1> QED BY <1>1, <1>6, <1>8, <1>9 DEF c, par, N, B, IsLink

LEMMA ManualFollows ==
  ASSUME ChainShape, manual \in [msgs : Seq(1..Len(node))]
  PROVE  /\ Follows(ManualBatch, node) /\ Len(ManualBatch) = 1
         /\ ManualBatch[1].kind = "summary" /\ ManualBatch[1].parent = NoNode
         /\ ManualBatch[1].says = Facts(manual.msgs)
         /\ ManualBatch[1].boundary = Len(node) + 1
         /\ ManualBatch[1].unzip = IF manual.msgs = <<>> THEN NoNode ELSE Last(manual.msgs)
<1>1. Len(node) \in Nat
  BY FamilyShape DEF ChainShape
<1> DEFINE z == IF manual.msgs = <<>> THEN NoNode ELSE Last(manual.msgs)
           x == [kind |-> "summary", parent |-> NoNode, unzip |-> z,
                 boundary |-> Fresh, call |-> NoNode, seen |-> <<>>,
                 says |-> Facts(manual.msgs)]
<1>2. manual.msgs \in Seq(1..Len(node))
  OBVIOUS
<1>3. z \in 0..Len(node)
  <2>1. manual.msgs # <<>> => Last(manual.msgs) \in 1..Len(node)
    BY <1>2, FrontShape
  <2> QED BY <1>1, <2>1 DEF NoNode
<1>4. Facts(manual.msgs) \subseteq 1..Len(node)
  BY <1>2, FactsShape
<1>5. ManualBatch = <<x>>
  BY DEF ManualBatch
<1> HIDE DEF z
<1>6. x \in NodesUpTo(Len(node) + 1)
  <2>1. <<>> \in Seq(SUBSET (1..(Len(node) + 1)))  BY EmptySeq
  <2> QED BY <1>1, <1>3, <1>4, <2>1 DEF NodesUpTo, Fresh, NoNode, Kinds
<1>7. Descends(x, Len(node) + 1)
  BY <1>1, <1>3 DEF Descends, NoNode
<1>8. /\ x.kind = "summary" /\ x.parent = NoNode /\ x.says = Facts(manual.msgs) /\ x.unzip = z
      /\ x.boundary = Len(node) + 1
  BY DEF Fresh
<1> HIDE DEF x
<1>9. Follows(<<x>>, node) /\ Len(<<x>>) = 1 /\ <<x>>[1] = x
  BY <1>6, <1>7, OneFollows
<1> QED BY <1>5, <1>8, <1>9 DEF z

LEMMA TargetsShape ==
  ASSUME ChainShape, NEW target \in BranchTargets
  PROVE  /\ target \in ToSet(lines) /\ target \in 1..Len(node)
         /\ node[target].kind = "user" \/ node[target].unzip # NoNode
<1> DEFINE leaf == LeafUuid(node, lines)
           t == TraceChain(Unzipped(node), ToSet(lines), leaf)
<1>1. /\ lines # <<>>
      /\ target \in ToSet(t)
      /\ (node[target].kind = "user" \/ node[target].unzip # NoNode)
  BY DEF BranchTargets, WalkFullChain
<1>2. ToSet(lines) \subseteq 1..Len(node) /\ Len(node) \in Nat
  BY RangeInSeq, FamilyShape DEF ChainShape
<1>3. Tree(Unzipped(node), ToSet(lines)) /\ Len(Unzipped(node)) = Len(node)
  BY <1>2, FamilyShape DEF ChainShape
<1>4. leaf \in 0..Len(node)
  <2>1. leaf = Last(lines)  BY <1>1, LeafIsLast DEF ChainShape
  <2>2. Last(lines) \in 1..Len(node)  BY <1>1, <1>2, RisingLast DEF ChainShape
  <2> HIDE DEF leaf
  <2> QED BY <1>2, <2>1, <2>2
<1> HIDE DEF leaf
<1>5. ToSet(t) \subseteq ToSet(lines)
  <2>1. ToSet(t) \subseteq ToSet(lines) \cap (1..leaf)
    BY <1>3, <1>4, TraceShape
  <2> QED BY <2>1
<1> QED BY <1>1, <1>2, <1>5

\* The nearest message above a node, in a map.
LEMMA RewindParentShape ==
  ASSUME ChainShape, NEW target \in ToSet(lines)
  PROVE  /\ Before(target) \in Seq(1..Len(node)) /\ Rising(Before(target))
         /\ Before(target) = TraceChain(node, ToSet(lines), node[target].parent)
         /\ RewindParent(target) # NoNode =>
              /\ RewindParent(target) \in ToSet(Before(target))
              /\ RewindParent(target) \in 1..Len(node)
              /\ node[RewindParent(target)].kind # "event"
              /\ \A u \in ToSet(Before(target)) :
                   u > RewindParent(target) => node[u].kind = "event"
         /\ RewindParent(target) = NoNode =>
              \A u \in ToSet(Before(target)) : node[u].kind = "event"
<1> DEFINE known == ToSet(lines)
           p == node[target].parent
           t == TraceChain(node, known, p)
           above == Messages(t)
<1>1. known \subseteq 1..Len(node) /\ Len(node) \in Nat
  BY RangeInSeq, FamilyShape DEF ChainShape
<1>2. Tree(node, known)
  BY <1>1, FamilyShape DEF ChainShape
<1>3. p \in 0..Len(node) /\ target \in 0..Len(node)
  BY <1>1, <1>2 DEF Tree
<1> HIDE DEF p
<1>4. TraceChain(node, known, target) = Append(t, target)
  BY <1>2, <1>3, TraceUnfold DEF p
<1>5. t \in Seq(known) /\ Rising(t)
  BY <1>2, <1>3, TraceShape
<1>6. t \in Seq(1..Len(node))
  BY <1>1, <1>5, SeqMonotonic
<1> HIDE DEF t
<1>7. Before(target) = t
  <2>1. Before(target) = Front(Append(t, target))
    BY <1>4 DEF Before
  <2>2. Front(Append(t, target)) = t
    <3> DEFINE s == Append(t, target)
    <3>1. s \in Seq(1..Len(node)) /\ s # <<>> /\ Len(s) = Len(t) + 1 /\ \A i \in 1..Len(t) : s[i] = t[i]
      BY <1>6, <1>1, AppendProperties
    <3> HIDE DEF s
    <3>2. Len(t) \in Nat /\ Len(s) - 1 = Len(t)  BY <1>6, <3>1, LenProperties
    <3>3. Front(s) \in Seq(1..Len(node)) /\ Len(Front(s)) = Len(t) /\ \A i \in 1..Len(t) : Front(s)[i] = t[i]
      BY <3>1, <3>2, FrontShape
    <3>4. Front(s) = t  BY <1>6, <3>3, SeqEqual
    <3> QED BY <3>4 DEF s
  <2> QED BY <2>1, <2>2
<1>8. /\ above \in Seq(1..Len(node)) /\ Rising(above)
      /\ ToSet(above) = {u \in ToSet(t) : node[u].kind # "event"}
  BY <1>5, <1>6, MessagesShape
<1>9. RewindParent(target) = IF above = <<>> THEN NoNode ELSE Last(above)
  BY <1>7 DEF RewindParent
<1> HIDE DEF above
<1>10. CASE above = <<>>
  <2>1. ToSet(above) = {}  BY <1>10 DEF ToSet
  <2> QED BY <1>5, <1>6, <1>7, <1>8, <1>9, <1>10, <2>1 DEF t, p
<1>11. CASE above # <<>>
  <2>1. /\ Last(above) \in ToSet(above) /\ Last(above) \in 1..Len(node)
        /\ \A u \in ToSet(above) : u <= Last(above)
    BY <1>1, <1>8, <1>11, RisingLast
  <2>2. RewindParent(target) = Last(above)  BY <1>9, <1>11
  <2>3. ToSet(t) \subseteq 1..Len(node)  BY <1>6, RangeInSeq
  <2>4. \A u \in ToSet(t) : u > Last(above) => node[u].kind = "event"
    BY <1>8, <2>1, <2>3, <1>1
  <2>5. /\ RewindParent(target) # NoNode
        /\ RewindParent(target) \in ToSet(t)
        /\ node[Last(above)].kind # "event"
    BY <1>8, <2>1, <2>2 DEF NoNode
  <2> QED BY <1>5, <1>6, <1>7, <2>1, <2>2, <2>4, <2>5 DEF t, p
<1> QED BY <1>10, <1>11

LEMMA RowFollows ==
  ASSUME ChainShape, NEW target \in ToSet(lines)
  PROVE  LET p == RewindParent(target)
             b == <<RewindRow(target)>> IN
         /\ Follows(b, node) /\ Len(b) = 1 /\ b[1].boundary = Len(node) + 1
         /\ p = NoNode => /\ b[1].kind = "mark" /\ b[1].parent = NoNode /\ b[1].unzip = NoNode
                          /\ b[1].says = {} /\ b[1].call = NoNode
         /\ p # NoNode => /\ b[1].kind = node[p].kind /\ b[1].parent = node[p].parent
                          /\ b[1].unzip = node[p].unzip /\ b[1].says = node[p].says
                          /\ b[1].call = node[p].call
<1> DEFINE p == RewindParent(target)
           x == RewindRow(target)
<1>1. Len(node) \in Nat
  BY FamilyShape DEF ChainShape
<1>2. <<>> \in Seq(SUBSET (1..(Len(node) + 1)))
  BY EmptySeq
<1>3. CASE p = NoNode
  <2>1. x = [kind |-> "mark", parent |-> NoNode, unzip |-> NoNode,
             boundary |-> Fresh, call |-> NoNode, seen |-> <<>>, says |-> {}]
    BY <1>3 DEF RewindRow
  <2>2. x \in NodesUpTo(Len(node) + 1)
    BY <1>1, <1>2, <2>1 DEF NodesUpTo, Kinds, Fresh, NoNode
  <2>3. Descends(x, Len(node) + 1)
    BY <1>1, <2>1 DEF Descends, NoNode
  <2>4. /\ x.kind = "mark" /\ x.parent = NoNode /\ x.unzip = NoNode
        /\ x.says = {} /\ x.call = NoNode /\ x.boundary = Len(node) + 1
    BY <2>1 DEF Fresh
  <2> HIDE DEF x
  <2>5. Follows(<<x>>, node) /\ Len(<<x>>) = 1 /\ <<x>>[1] = x
    BY <2>2, <2>3, OneFollows
  <2> QED BY <1>3, <2>4, <2>5 DEF x
<1>4. CASE p # NoNode
  <2>1. p \in 1..Len(node)
    BY <1>4, RewindParentShape
  <2>2. x = [node[p] EXCEPT !.boundary = Fresh, !.seen = <<>>]
    BY <1>4 DEF RewindRow
  <2> HIDE DEF p
  <2>3. node[p] \in NodesUpTo(Len(node)) /\ Descends(node[p], p)
    BY <2>1, FamilyShape DEF ChainShape, Family
  <2>4. node[p] \in NodesUpTo(Len(node) + 1)
    <3>1. Len(node) + 1 \in Nat /\ Len(node) <= Len(node) + 1  BY <1>1
    <3>2. NodesUpTo(Len(node)) \subseteq NodesUpTo(Len(node) + 1)  BY <1>1, <3>1, NodesMonotonic
    <3> QED BY <2>3, <3>2
  <2>5. x \in NodesUpTo(Len(node) + 1)
    <3>1. Fresh \in 0..(Len(node) + 1)  BY <1>1 DEF Fresh
    <3> QED BY <1>2, <2>2, <2>4, <3>1 DEF NodesUpTo
  <2>6. /\ x.kind = node[p].kind /\ x.parent = node[p].parent /\ x.unzip = node[p].unzip
        /\ x.says = node[p].says /\ x.call = node[p].call /\ x.boundary = Len(node) + 1
    BY <2>2, <2>4 DEF NodesUpTo, Fresh
  <2>7. Descends(x, Len(node) + 1)
    <3>1. node[p].parent \in 0..Len(node) /\ node[p].unzip \in 0..Len(node)  BY <2>3 DEF NodesUpTo
    <3> QED BY <1>1, <2>1, <2>3, <2>6, <3>1 DEF Descends
  <2> HIDE DEF x
  <2>8. Follows(<<x>>, node) /\ Len(<<x>>) = 1 /\ <<x>>[1] = x
    BY <2>5, <2>7, OneFollows
  <2> QED BY <1>4, <2>6, <2>8 DEF x, p
<1> QED BY <1>3, <1>4

\* The batch of an applied compaction: the summary, and a copy of each message
\* behind the interval.
CompactForm(b, msgs, end, tail) ==
  /\ end \in 1..Len(msgs) /\ msgs[end] = pending.end
  /\ tail \in Seq(1..Len(node)) /\ Len(tail) = Len(msgs) - end
  /\ \A i \in 1..Len(tail) : tail[i] = msgs[end + i]
  /\ Len(b) = Len(tail) + 1
  /\ b[1].kind = "summary" /\ b[1].parent = NoNode /\ b[1].unzip = pending.end
  /\ b[1].says = pending.says /\ b[1].call = NoNode /\ b[1].boundary = Len(node) + Len(b)
  /\ \A i \in 1..Len(tail) :
       /\ b[i + 1].parent = Len(node) + i
       /\ b[i + 1].kind = node[tail[i]].kind /\ b[i + 1].unzip = node[tail[i]].unzip
       /\ b[i + 1].says = node[tail[i]].says /\ b[i + 1].call = node[tail[i]].call

LEMMA PositionShape ==
  ASSUME NEW T, NEW s \in Seq(T), NEW u \in ToSet(s)
  PROVE  PositionOf(s, u) \in 1..Len(s) /\ s[PositionOf(s, u)] = u
<1>1. DOMAIN s = 1..Len(s)
  BY LenProperties
<1>2. \E i \in DOMAIN s : s[i] = u
  BY DEF ToSet
<1> QED BY <1>1, <1>2 DEF PositionOf

LEMMA CompactFollows ==
  ASSUME ChainShape, pending \in RangesUpTo(Len(node)),
         NEW msgs \in Seq(1..Len(node)), SnapshotValid(msgs)
  PROVE  /\ Follows(CompactBatch(msgs), node)
         /\ \E end, tail : CompactForm(CompactBatch(msgs), msgs, end, tail)
<1> DEFINE N == Len(node)
           end == PositionOf(msgs, pending.end)
           tail == SubSeq(msgs, end + 1, Len(msgs))
           copy(i) == Fresh + i
           moved(u) == IF u \in ToSet(tail) THEN copy(PositionOf(tail, u)) ELSE NoNode
           sum == [kind |-> "summary", parent |-> NoNode, unzip |-> pending.end,
                   boundary |-> copy(Len(tail)), call |-> NoNode, seen |-> <<>>,
                   says |-> pending.says]
           rest == [i \in DOMAIN tail |->
                      [node[tail[i]] EXCEPT !.parent = copy(i - 1), !.boundary = moved(@)]]
<1>1. N \in Nat /\ Len(msgs) \in Nat /\ DOMAIN msgs = 1..Len(msgs)
  BY FamilyShape, LenProperties DEF ChainShape
<1>2. end \in 1..Len(msgs) /\ msgs[end] = pending.end
  <2>1. pending.end \in ToSet(msgs)
    BY DEF SnapshotValid, ToSet
  <2> QED BY <2>1, PositionShape
<1>3. CompactBatch(msgs) = <<sum>> \o rest
  BY DEF CompactBatch
<1> HIDE DEF end
<1> DEFINE K == Len(msgs) - end
<1>4. tail \in Seq(1..N) /\ Len(tail) = K /\ K \in Nat /\ \A i \in 1..K : tail[i] = msgs[end + i]
  <2>1. CASE end = Len(msgs)
    <3>1. tail = <<>>  BY <1>1, <1>2, <2>1, SubSeqEmpty
    <3>2. K = 0  BY <1>1, <2>1
    <3> HIDE DEF tail, K
    <3> QED BY <3>1, <3>2, EmptySeq
  <2>2. CASE end # Len(msgs)
    <3>0. K = Len(msgs) - end  OBVIOUS
    <3> HIDE DEF K
    <3>1. /\ end + 1 \in 1..Len(msgs)
          /\ Len(msgs) \in 1..Len(msgs)
          /\ end + 1 <= Len(msgs)
          /\ K \in Nat
      <4> DEFINE L == Len(msgs)
      <4>1. L \in Nat /\ end \in 1..L /\ end # L /\ K = L - end  BY <1>1, <1>2, <2>2, <3>0
      <4> HIDE DEF tail, L
      <4>2. end + 1 \in 1..L  BY <4>1
      <4>3. L \in 1..L /\ end + 1 <= L /\ K \in Nat  BY <4>1
      <4> QED BY <4>2, <4>3 DEF L
    <3>2. /\ tail \in Seq(1..N) /\ Len(tail) = Len(msgs) - (end + 1) + 1
          /\ \A i \in 1..(Len(msgs) - (end + 1) + 1) : tail[i] = msgs[(end + 1) + i - 1]
      <4>1. \A i \in (end + 1)..Len(msgs) : msgs[i] \in 1..N
        <5>1. \A i \in 1..Len(msgs) : msgs[i] \in 1..N  BY ElementOfSeq
        <5> QED BY <1>1, <1>2, <5>1
      <4>2. end + 1 \in Int /\ Len(msgs) \in Int  BY <1>1, <1>2
      <4> DEFINE e == end + 1
                 T == 1..N
      <4> HIDE DEF e, T
      <4>3. /\ SubSeq(msgs, e, Len(msgs)) \in Seq(T)
            /\ Len(SubSeq(msgs, e, Len(msgs))) = IF e <= Len(msgs) THEN Len(msgs) - e + 1 ELSE 0
            /\ \A i \in 1..(Len(msgs) - e + 1) : SubSeq(msgs, e, Len(msgs))[i] = msgs[e + i - 1]
        <5>1. e \in Int /\ Len(msgs) \in Int /\ \A i \in e..Len(msgs) : msgs[i] \in T
          BY <4>1, <4>2 DEF e, T
        <5>2. msgs \in Seq(T)  BY DEF T
        <5> QED BY <5>1, <5>2, SubSeqProperties
      <4> QED BY <3>1, <4>3 DEF e, T
    <3>3. Len(msgs) - (end + 1) + 1 = K /\ \A i \in 1..K : (end + 1) + i - 1 = end + i
      BY <1>1, <1>2, <3>0
    <3> HIDE DEF tail
    <3> QED BY SMTT(30), <3>1, <3>2, <3>3
  <2> QED BY <2>1, <2>2
<1> HIDE DEF tail, K
<1>5. DOMAIN tail = 1..K /\ \A i \in 1..K : tail[i] \in 1..N
  BY <1>4, LenProperties, ElementOfSeq
<1>6. \A u : moved(u) \in 0..(N + K + 1)
  <2> SUFFICES ASSUME NEW u PROVE moved(u) \in 0..(N + K + 1)
    OBVIOUS
  <2>1. CASE u \in ToSet(tail)
    <3>1. PositionOf(tail, u) \in 1..K  BY <2>1, <1>4, PositionShape
    <3> QED BY <2>1, <3>1, <1>1, <1>4 DEF Fresh
  <2>2. CASE u \notin ToSet(tail)
    BY <2>2, <1>1, <1>4 DEF NoNode
  <2> QED BY <2>1, <2>2
<1>7. sum \in NodesUpTo(N + K + 1) /\ Descends(sum, N + 1)
  <2>1. <<>> \in Seq(SUBSET (1..(N + K + 1)))  BY EmptySeq
  <2>2. pending.end \in 1..N /\ pending.says \subseteq 1..N  BY DEF RangesUpTo
  <2>3. copy(Len(tail)) \in 0..(N + K + 1)  BY <1>1, <1>4 DEF Fresh
  <2> HIDE DEF copy
  <2>4. /\ pending.end \in 0..(N + K + 1)
        /\ pending.says \subseteq 1..(N + K + 1)
        /\ NoNode \in 0..(N + K + 1)
    BY <1>1, <1>4, <2>2 DEF NoNode
  <2>5. sum \in NodesUpTo(N + K + 1)
    BY <2>1, <2>3, <2>4 DEF NodesUpTo, Kinds
  <2>6. Descends(sum, N + 1)
    BY <1>1, <2>2 DEF Descends, NoNode
  <2> QED BY <2>5, <2>6
<1>8. ASSUME NEW i \in 1..K
      PROVE  LET x == [node[tail[i]] EXCEPT !.parent = copy(i - 1), !.boundary = moved(@)] IN
             /\ x \in NodesUpTo(N + K + 1) /\ Descends(x, N + 1 + i)
             /\ x.parent = N + i
             /\ x.kind = node[tail[i]].kind /\ x.unzip = node[tail[i]].unzip
             /\ x.says = node[tail[i]].says /\ x.call = node[tail[i]].call
  <2> DEFINE u == tail[i]
             q == copy(i - 1)
             m == moved(node[u].boundary)
             x == [node[u] EXCEPT !.parent = q, !.boundary = m]
  <2>1. u \in 1..N  BY <1>5
  <2>2. q = N + i  BY <1>1 DEF Fresh
  <2>3. m \in 0..(N + K + 1)  BY <1>6
  <2> HIDE DEF u, q, m, moved
  <2>4. node[u] \in NodesUpTo(N) /\ Descends(node[u], u)
    BY <2>1, FamilyShape DEF ChainShape, Family
  <2>5. N + K + 1 \in Nat /\ N <= N + K + 1  BY <1>1, <1>4
  <2>6. node[u] \in NodesUpTo(N + K + 1)
    BY <1>1, <2>4, <2>5, NodesMonotonic
  <2>7. q \in 0..(N + K + 1)  BY <2>2, <1>1, <1>4
  <2>8. x \in NodesUpTo(N + K + 1)
    BY <2>3, <2>6, <2>7 DEF NodesUpTo
  <2>9. /\ x.kind = node[u].kind /\ x.unzip = node[u].unzip /\ x.says = node[u].says
        /\ x.call = node[u].call /\ x.parent = q
    BY <2>6 DEF NodesUpTo
  <2>10. Descends(x, N + 1 + i)
    <3>1. node[u].unzip \in 0..N  BY <2>4 DEF NodesUpTo
    <3>2. x.parent < N + 1 + i  BY <2>2, <2>9, <1>1
    <3>3. x.unzip < N + 1 + i  BY <3>1, <2>9, <1>1
    <3>4. x.kind = "event" => x.says = {}  BY <2>4, <2>9 DEF Descends
    <3> QED BY <3>2, <3>3, <3>4 DEF Descends
  <2>11. x = [node[tail[i]] EXCEPT !.parent = copy(i - 1), !.boundary = moved(@)]
    BY DEF u, q, m
  <2> HIDE DEF x
  <2> QED BY <2>2, <2>8, <2>9, <2>10, <2>11 DEF u
<1>8a. copy(Len(tail)) = N + (K + 1)
  <2>1. Fresh = N + 1  BY DEF Fresh
  <2>2. copy(Len(tail)) = Fresh + K  BY <1>4
  <2> HIDE DEF copy
  <2> QED BY <1>1, <1>4, <2>1, <2>2
<1>8b. sum.boundary = N + (K + 1)
  <2>1. sum.boundary = copy(Len(tail))  OBVIOUS
  <2> HIDE DEF sum, copy
  <2> QED BY <1>8a, <2>1
<1> HIDE DEF sum, copy, moved
<1>9. rest \in [1..K -> NodesUpTo(N + K + 1)] /\ \A i \in 1..K :
             /\ Descends(rest[i], N + 1 + i) /\ rest[i].parent = N + i
             /\ rest[i].kind = node[tail[i]].kind /\ rest[i].unzip = node[tail[i]].unzip
             /\ rest[i].says = node[tail[i]].says /\ rest[i].call = node[tail[i]].call
  BY <1>5, <1>8
<1> HIDE DEF rest
<1>10. rest \in Seq(NodesUpTo(N + K + 1)) /\ Len(rest) = K
  BY <1>4, <1>9, SeqDef, LenProperties
<1> DEFINE b == <<sum>> \o rest
<1>11. /\ b \in Seq(NodesUpTo(N + K + 1)) /\ Len(b) = K + 1 /\ b[1] = sum
       /\ \A i \in 1..K : b[i + 1] = rest[i]
  <2>1. <<sum>> \in Seq(NodesUpTo(N + K + 1)) /\ Len(<<sum>>) = 1 /\ <<sum>>[1] = sum
    BY <1>7
  <2> DEFINE h == <<sum>>
  <2> HIDE DEF h
  <2>2. h \in Seq(NodesUpTo(N + K + 1)) /\ Len(h) = 1 /\ h[1] = sum /\ b = h \o rest
    BY <2>1 DEF h
  <2> HIDE DEF b
  <2>3. /\ b \in Seq(NodesUpTo(N + K + 1)) /\ Len(b) = 1 + K
        /\ \A i \in 1..(1 + K) : b[i] = IF i <= 1 THEN h[i] ELSE rest[i - 1]
    <3> DEFINE T == NodesUpTo(N + K + 1)
    <3> HIDE DEF T
    <3>1. h \in Seq(T) /\ rest \in Seq(T)  BY <2>2, <1>10 DEF T
    <3>2. /\ h \o rest \in Seq(T) /\ Len(h \o rest) = Len(h) + Len(rest)
          /\ \A i \in 1..(Len(h) + Len(rest)) :
               (h \o rest)[i] = IF i <= Len(h) THEN h[i] ELSE rest[i - Len(h)]
      BY <3>1, ConcatProperties
    <3> QED BY <3>2, <2>2, <1>10 DEF T
  <2>4. b[1] = sum
    <3>1. 1 \in 1..(1 + K)  BY <1>4
    <3> QED BY <2>2, <2>3, <3>1
  <2>5. ASSUME NEW i \in 1..K PROVE b[i + 1] = rest[i]
    <3>1. i + 1 \in 1..(1 + K) /\ ~(i + 1 <= 1) /\ (i + 1) - 1 = i  BY <1>4
    <3> QED BY <2>3, <3>1
  <2> QED BY <1>4, <2>3, <2>4, <2>5
<1> HIDE DEF b
<1>12. Follows(b, node)
  <2>1. \A j \in 1..(K + 1) : Descends(b[j], N + j)
    <3> SUFFICES ASSUME NEW j \in 1..(K + 1) PROVE Descends(b[j], N + j)
      OBVIOUS
    <3>1. CASE j = 1  BY <1>7, <1>11, <3>1
    <3>2. CASE j # 1
      <4>1. j - 1 \in 1..K /\ (j - 1) + 1 = j /\ N + 1 + (j - 1) = N + j  BY <1>1, <1>4, <3>2
      <4>2. b[j] = rest[j - 1]  BY <1>11, <4>1
      <4>3. Descends(rest[j - 1], N + 1 + (j - 1))  BY <1>9, <4>1
      <4> QED BY <4>1, <4>2, <4>3
    <3> QED BY <3>1, <3>2
  <2>2. N + (K + 1) = N + K + 1 /\ K + 1 > 0  BY <1>1, <1>4
  <2> QED BY <1>11, <2>1, <2>2 DEF Follows
<1>13. /\ sum.kind = "summary" /\ sum.parent = NoNode /\ sum.unzip = pending.end
       /\ sum.says = pending.says /\ sum.call = NoNode
  BY DEF sum
<1>14. \A i \in 1..K : /\ b[i + 1].parent = N + i
                       /\ b[i + 1].kind = node[tail[i]].kind /\ b[i + 1].unzip = node[tail[i]].unzip
                       /\ b[i + 1].says = node[tail[i]].says /\ b[i + 1].call = node[tail[i]].call
  BY <1>9, <1>11
<1>15. CompactForm(b, msgs, end, tail)
  BY <1>2, <1>4, <1>8b, <1>11, <1>13, <1>14 DEF CompactForm, K
<1> QED BY <1>3, <1>12, <1>15 DEF b

-----------------------------------------------------------------------------
(* What a write does to the chain: i of the new records reach the map and   *)
(* j of them the log.                                                       *)

Written(b, i, j) ==
  /\ Follows(b, node) /\ node' = node \o b
  /\ i \in 0..Len(b) /\ lines' = lines \o Run(Len(node), i)
  /\ j \in 0..Len(b) /\ disk' = disk \o Run(Len(node), j)

Grown(b, i, j) ==
  /\ Follows(b, node) /\ Written(Linked(b), i, j)
  /\ data' = data \o Run(Len(node), Len(b)) /\ tip' = Len(node) + Len(b)

Rerooted(b) ==
  /\ Written(b, Len(b), Len(b))
  /\ tip' = Len(node) + Len(b)
  /\ data' = TraceChain(node', ToSet(lines'), tip')

Broken(b, k, j) ==
  /\ k \in 1..Len(b) /\ Written(b, k - 1, j)
  /\ data' = data \o Run(Len(node), k) /\ tip' = Len(node) + k

Emptied == lines' = <<>> /\ data' = <<>> /\ tip' = NoNode

Resumed ==
  /\ node' = node /\ disk' = disk /\ lines' = disk
  /\ data' = LoadChain(node, disk)
  /\ tip' = IF data' = <<>> THEN NoNode ELSE Last(data')

LEMMA IdsAreRun ==
  ASSUME ChainShape, NEW b, Follows(b, node)
  PROVE  /\ Ids(b) = Run(Len(node), Len(b)) /\ Len(b) \in Nat /\ Len(b) > 0
         /\ Len(node) \in Nat /\ Last(Ids(b)) = Len(node) + Len(b)
         /\ \A k \in 0..Len(b) : SubSeq(Ids(b), 1, k) = Run(Len(node), k)
         /\ \A k \in 1..Len(b) : /\ Last(Run(Len(node), k)) = Len(node) + k
                                 /\ Front(Run(Len(node), k)) = Run(Len(node), k - 1)
         /\ \A s \in Seq(1..Len(node)) : s \o Run(Len(node), 0) = s
<1>1. Len(b) \in Nat /\ Len(b) > 0 /\ Len(node) \in Nat /\ DOMAIN b = 1..Len(b)
  BY FamilyShape, LenProperties DEF ChainShape, Follows
<1>2. Ids(b) = Run(Len(node), Len(b))
  BY <1>1 DEF Ids, Run
<1>3. \A k \in 0..Len(b) : SubSeq(Ids(b), 1, k) = Run(Len(node), k)
  <2>1. \A k \in 0..Len(b) : SubSeq(Run(Len(node), Len(b)), 1, k) = Run(Len(node), k)
    BY <1>1, RunShape
  <2> QED BY <1>2, <2>1
<1>4. \A k \in 1..Len(b) : /\ Last(Run(Len(node), k)) = Len(node) + k
                           /\ Front(Run(Len(node), k)) = Run(Len(node), k - 1)
  <2> SUFFICES ASSUME NEW k \in 1..Len(b)
               PROVE  /\ Last(Run(Len(node), k)) = Len(node) + k
                      /\ Front(Run(Len(node), k)) = Run(Len(node), k - 1)
    OBVIOUS
  <2>1. k \in Nat /\ k > 0  BY <1>1
  <2> QED BY <1>1, <2>1, RunShape
<1>5. Last(Ids(b)) = Len(node) + Len(b)
  BY <1>1, <1>2, <1>4
<1>6. Run(Len(node), 0) = <<>>
  <2>1. Len(Run(Len(node), 0)) = 0 /\ Run(Len(node), 0) \in Seq((Len(node) + 1)..(Len(node) + 0))
    BY <1>1, RunShape
  <2> QED BY <2>1, EmptySeq
<1>7. \A s \in Seq(1..Len(node)) : s \o Run(Len(node), 0) = s
  BY <1>6, ConcatEmptySeq
<1> QED BY <1>1, <1>2, <1>3, <1>4, <1>5, <1>7

LEMMA AppendOKGrows ==
  ASSUME ChainShape, NEW b, Follows(b, node), AppendOK(b)
  PROVE  Grown(b, Len(b), Len(b))
<1>1. Follows(Linked(b), node) /\ Len(Linked(b)) = Len(b) /\ Len(b) \in 0..Len(b)
  BY LinkedFollows
<1> QED BY <1>1, IdsAreRun DEF AppendOK, Grow, Grown, Written

LEMMA AppendFailsGrows ==
  ASSUME ChainShape, NEW x, Follows(<<x>>, node), AppendFails(x)
  PROVE  \E j \in 0..1 : Grown(<<x>>, 0, j)
<1> DEFINE b == <<x>>
<1>1. Len(b) = 1
  OBVIOUS
<1> HIDE DEF b
<1>2. Follows(Linked(b), node) /\ Len(Linked(b)) = Len(b)
  BY LinkedFollows DEF b
<1>3. disk' = disk \o Run(Len(node), 0) \/ disk' = disk \o Run(Len(node), 1)
  BY <1>1, IdsAreRun DEF AppendFails, b, ChainShape
<1>4. lines' = lines \o Run(Len(node), 0)
  BY IdsAreRun DEF AppendFails, b, ChainShape
<1>5. /\ node' = node \o Linked(b) /\ data' = data \o Run(Len(node), Len(b))
      /\ tip' = Len(node) + Len(b)
  BY IdsAreRun DEF AppendFails, Grow, b
<1>6. Follows(b, node)  BY DEF b
<1>7. ASSUME disk' = disk \o Run(Len(node), 0) PROVE Grown(b, 0, 0)
  BY <1>1, <1>2, <1>4, <1>5, <1>6, <1>7 DEF Grown, Written
<1>8. ASSUME disk' = disk \o Run(Len(node), 1) PROVE Grown(b, 0, 1)
  BY <1>1, <1>2, <1>4, <1>5, <1>6, <1>8 DEF Grown, Written
<1> QED BY <1>3, <1>7, <1>8 DEF b

LEMMA ExtendFailsGrows ==
  ASSUME ChainShape, NEW b, Follows(b, node), ExtendFails(b)
  PROVE  \E j \in 0..Len(b) : Grown(b, Len(b), j)
<1>1. Follows(Linked(b), node) /\ Len(Linked(b)) = Len(b) /\ Len(b) \in Nat
  BY LinkedFollows
<1>2. PICK k \in 0..Len(b) : disk' = disk \o SubSeq(Ids(b), 1, k)
  BY DEF ExtendFails
<1>3. disk' = disk \o Run(Len(node), k)
  BY <1>2, IdsAreRun
<1>4. Len(b) \in 0..Len(b)
  BY <1>1
<1>5. Grown(b, Len(b), k)
  BY <1>1, <1>2, <1>3, <1>4, IdsAreRun DEF ExtendFails, Grow, Grown, Written
<1> QED BY <1>5

LEMMA RerootRerooted ==
  ASSUME ChainShape, NEW b, Follows(b, node), Reroot(b)
  PROVE  Rerooted(b)
<1>1. Len(b) \in 0..Len(b)
  BY IdsAreRun
<1> QED BY <1>1, IdsAreRun DEF Reroot, Rerooted, Written

LEMMA RerootFailsBroken ==
  ASSUME ChainShape, NEW b, Follows(b, node), RerootFails(b)
  PROVE  \E k, j : Broken(b, k, j)
<1>1. PICK k \in DOMAIN b :
        LET ids == SubSeq(Ids(b), 1, k) IN
        /\ data'  = data \o ids
        /\ tip'   = Last(ids)
        /\ lines' = lines \o Front(ids)
        /\ disk'  \in {disk \o Front(ids), disk \o ids}
  BY DEF RerootFails
<1>2. k \in 1..Len(b) /\ Len(b) \in Nat
  BY IdsAreRun, LenProperties DEF Follows
<1>3. SubSeq(Ids(b), 1, k) = Run(Len(node), k)
  BY <1>2, IdsAreRun
<1>4. /\ data' = data \o Run(Len(node), k) /\ tip' = Len(node) + k
      /\ lines' = lines \o Run(Len(node), k - 1)
      /\ disk' = disk \o Run(Len(node), k - 1) \/ disk' = disk \o Run(Len(node), k)
  BY <1>1, <1>2, <1>3, IdsAreRun
<1>5. k - 1 \in 0..Len(b) /\ k \in 0..Len(b)
  BY <1>2
<1>6. node' = node \o b
  BY DEF RerootFails
<1>7. Broken(b, k, k - 1) \/ Broken(b, k, k)
  BY <1>2, <1>4, <1>5, <1>6 DEF Broken, Written
<1> QED BY <1>7

\* The sequences of uuids after a write.
LEMMA WrittenShape ==
  ASSUME ChainShape, NEW b, NEW i, NEW j, Written(b, i, j)
  PROVE  /\ Family(node') /\ Len(node') = Len(node) + Len(b)
         /\ Len(node) \in Nat /\ Len(b) \in Nat
         /\ \A u \in 1..Len(node) : node'[u] = node[u]
         /\ \A k \in 1..Len(b) : node'[Len(node) + k] = b[k]
         /\ lines' \in Seq(1..Len(node')) /\ Rising(lines')
         /\ ToSet(lines') = ToSet(lines) \cup ((Len(node) + 1)..(Len(node) + i))
         /\ disk' \in Seq(1..Len(node')) /\ Rising(disk')
         /\ ToSet(disk') = ToSet(disk) \cup ((Len(node) + 1)..(Len(node) + j))
         /\ j > 0 => disk' # <<>> /\ Last(disk') = Len(node) + j
         /\ j = 0 => disk' = disk
         /\ i = 0 => lines' = lines
<1> DEFINE N == Len(node)
<1>1. /\ Family(node') /\ Len(node') = N + Len(b) /\ N \in Nat /\ Len(b) \in Nat
      /\ \A u \in 1..N : node'[u] = node[u]
      /\ \A k \in 1..Len(b) : node'[N + k] = b[k]
  BY FamilyGrows, FamilyShape DEF ChainShape, Written
<1>2. i \in 0..Len(b) /\ j \in 0..Len(b)
  BY DEF Written
<1>3. ASSUME NEW k \in 0..Len(b), NEW s \in Seq(1..N), Rising(s)
      PROVE  /\ s \o Run(N, k) \in Seq(1..Len(node')) /\ Rising(s \o Run(N, k))
             /\ ToSet(s \o Run(N, k)) = ToSet(s) \cup ((N + 1)..(N + k))
             /\ k > 0 => s \o Run(N, k) # <<>> /\ Last(s \o Run(N, k)) = N + k
  <2> HIDE DEF N
  <2>0. k \in Nat /\ N \in Nat  BY <1>1
  <2>1. /\ s \o Run(N, k) \in Seq(1..(N + k)) /\ Rising(s \o Run(N, k))
        /\ ToSet(s \o Run(N, k)) = ToSet(s) \cup ((N + 1)..(N + k))
        /\ k > 0 => s \o Run(N, k) # <<>> /\ Last(s \o Run(N, k)) = N + k
    BY <1>3, <2>0, RisingConcat
  <2>2. N + k \in Nat /\ Len(node') \in Nat /\ N + k <= Len(node')
    BY <1>1
  <2>3. Seq(1..(N + k)) \subseteq Seq(1..Len(node'))
    BY <2>2, NodesMonotonic
  <2> QED BY <2>1, <2>3
<1>4. /\ lines \in Seq(1..N) /\ Rising(lines) /\ disk \in Seq(1..N) /\ Rising(disk)
      /\ lines' = lines \o Run(N, i) /\ disk' = disk \o Run(N, j)
  BY DEF ChainShape, Written
<1>5. \A s \in Seq(1..N) : s \o Run(N, 0) = s
  BY IdsAreRun DEF Written
<1> HIDE DEF N
<1>6. /\ lines' \in Seq(1..Len(node')) /\ Rising(lines')
      /\ ToSet(lines') = ToSet(lines) \cup ((N + 1)..(N + i))
      /\ i = 0 => lines' = lines
  BY <1>2, <1>3, <1>4, <1>5
<1>7. /\ disk' \in Seq(1..Len(node')) /\ Rising(disk')
      /\ ToSet(disk') = ToSet(disk) \cup ((N + 1)..(N + j))
      /\ j > 0 => disk' # <<>> /\ Last(disk') = N + j
      /\ j = 0 => disk' = disk
  BY <1>2, <1>3, <1>4, <1>5
<1> QED BY <1>1, <1>6, <1>7 DEF N

\* The active chain, extended by k records.
LEMMA DataGrows ==
  ASSUME ChainShape, NEW k \in Nat
  PROVE  /\ data \o Run(Len(node), k) \in Seq(1..(Len(node) + k))
         /\ Rising(data \o Run(Len(node), k))
         /\ ToSet(data \o Run(Len(node), k)) =
              ToSet(data) \cup ((Len(node) + 1)..(Len(node) + k))
<1>1. Len(node) \in Nat
  BY FamilyShape DEF ChainShape
<1> QED BY <1>1, RisingConcat DEF ChainShape

LEMMA GrownShape ==
  ASSUME ChainShape, NEW b, NEW i, NEW j, Grown(b, i, j)
  PROVE  ChainShape' /\ Len(node') = Len(node) + Len(b) /\ Len(b) \in Nat
<1>1. Written(Linked(b), i, j) /\ Len(Linked(b)) = Len(b)
  BY LinkedFollows DEF Grown
<1>2. /\ Family(node') /\ Len(node') = Len(node) + Len(b) /\ Len(node) \in Nat /\ Len(b) \in Nat
      /\ lines' \in Seq(1..Len(node')) /\ Rising(lines')
      /\ disk' \in Seq(1..Len(node')) /\ Rising(disk')
  BY <1>1, WrittenShape
<1>3. data' \in Seq(1..Len(node')) /\ Rising(data') /\ tip' \in 0..Len(node')
  BY <1>2, DataGrows DEF Grown
<1> QED BY <1>2, <1>3 DEF ChainShape

LEMMA TraceIsShaped ==
  ASSUME NEW n, Family(n), NEW known, known \subseteq 1..Len(n), NEW u \in 0..Len(n)
  PROVE  TraceChain(n, known, u) \in Seq(1..Len(n)) /\ Rising(TraceChain(n, known, u))
<1>1. Tree(n, known)
  BY FamilyShape
<1>2. TraceChain(n, known, u) \in Seq(known) /\ Rising(TraceChain(n, known, u))
  BY <1>1, TraceShape
<1> QED BY <1>2, SeqMonotonic

LEMMA RerootedShape ==
  ASSUME ChainShape, NEW b, Rerooted(b)
  PROVE  ChainShape' /\ Len(node') = Len(node) + Len(b) /\ Len(b) \in Nat
<1>1. /\ Family(node') /\ Len(node') = Len(node) + Len(b) /\ Len(node) \in Nat /\ Len(b) \in Nat
      /\ lines' \in Seq(1..Len(node')) /\ Rising(lines')
      /\ disk' \in Seq(1..Len(node')) /\ Rising(disk')
  BY WrittenShape DEF Rerooted
<1>2. tip' \in 0..Len(node')
  BY <1>1 DEF Rerooted
<1>3. ToSet(lines') \subseteq 1..Len(node')
  BY <1>1, RangeInSeq
<1>4. data' \in Seq(1..Len(node')) /\ Rising(data')
  BY <1>1, <1>2, <1>3, TraceIsShaped DEF Rerooted
<1> QED BY <1>1, <1>2, <1>4 DEF ChainShape

LEMMA BrokenShape ==
  ASSUME ChainShape, NEW b, NEW k, NEW j, Broken(b, k, j)
  PROVE  ChainShape' /\ Len(node') = Len(node) + Len(b) /\ Len(b) \in Nat
<1>1. /\ Family(node') /\ Len(node') = Len(node) + Len(b) /\ Len(node) \in Nat /\ Len(b) \in Nat
      /\ lines' \in Seq(1..Len(node')) /\ Rising(lines')
      /\ disk' \in Seq(1..Len(node')) /\ Rising(disk')
  BY WrittenShape DEF Broken
<1>2. k \in 1..Len(b) /\ tip' \in 0..Len(node') /\ k \in Nat
  BY <1>1 DEF Broken
<1>3. data' \in Seq(1..(Len(node) + k)) /\ Rising(data')
  BY <1>2, DataGrows DEF Broken
<1>4. data' \in Seq(1..Len(node'))
  <2>1. Len(node) + k \in Nat /\ Len(node') \in Nat /\ Len(node) + k <= Len(node')  BY <1>1, <1>2
  <2>2. Seq(1..(Len(node) + k)) \subseteq Seq(1..Len(node'))  BY <2>1, NodesMonotonic
  <2> QED BY <1>3, <2>2
<1> QED BY <1>1, <1>2, <1>3, <1>4 DEF ChainShape

LEMMA EmptiedShape ==
  ASSUME ChainShape, Emptied,
         \/ node' = node /\ disk' = disk
         \/ \E b, k : /\ Follows(b, node) /\ node' = node \o b
                      /\ k \in 0..Len(b) /\ disk' = disk \o Run(Len(node), k)
  PROVE  ChainShape' /\ Len(node') \in Nat /\ Len(node) <= Len(node')
<1>1. Len(node) \in Nat
  BY FamilyShape DEF ChainShape
<1>2. Rising(<<>>) /\ <<>> \in Seq(1..Len(node')) /\ NoNode \in 0..Len(node)
  BY <1>1, EmptySeq DEF Rising, NoNode
<1>3. CASE node' = node /\ disk' = disk
  BY <1>1, <1>2, <1>3 DEF ChainShape, Emptied
<1>4. CASE \E b, k : /\ Follows(b, node) /\ node' = node \o b
                     /\ k \in 0..Len(b) /\ disk' = disk \o Run(Len(node), k)
  <2>1. PICK b, k : /\ Follows(b, node) /\ node' = node \o b
                    /\ k \in 0..Len(b) /\ disk' = disk \o Run(Len(node), k)
    BY <1>4
  <2>2. Family(node') /\ Len(node') = Len(node) + Len(b) /\ Len(b) \in Nat
    BY <2>1, FamilyGrows DEF ChainShape
  <2>3. disk' \in Seq(1..(Len(node) + k)) /\ Rising(disk')
    BY <1>1, <2>1, <2>2, RisingConcat DEF ChainShape
  <2>4. Seq(1..(Len(node) + k)) \subseteq Seq(1..Len(node'))
    <3>1. /\ Len(node) + k \in Nat
          /\ Len(node') \in Nat
          /\ Len(node) + k <= Len(node')  BY <1>1, <2>1, <2>2
    <3> QED BY <3>1, NodesMonotonic
  <2>5. disk' \in Seq(1..Len(node'))  BY <2>3, <2>4
  <2>6. NoNode \in 0..Len(node')  BY <1>1, <2>2 DEF NoNode
  <2> QED BY <1>1, <1>2, <2>2, <2>3, <2>5, <2>6 DEF ChainShape, Emptied
<1> QED BY <1>3, <1>4

\* Loading the log: the trace of its last record.
LEMMA ResumedShape ==
  ASSUME ChainShape, Resumed
  PROVE  /\ ChainShape' /\ Len(node') = Len(node)
         /\ disk = <<>> => data' = <<>> /\ tip' = NoNode
         /\ disk # <<>> => /\ data' = TraceChain(node, ToSet(disk), Last(disk))
                           /\ tip' = Last(disk) /\ Last(disk) \in ToSet(disk)
         /\ ToSet(disk) \subseteq 1..Len(node)
<1>1. Len(node) \in Nat /\ ToSet(disk) \subseteq 1..Len(node)
  BY FamilyShape, RangeInSeq DEF ChainShape
<1>2. CASE disk = <<>>
  <2>1. data' = <<>> /\ tip' = NoNode
    BY <1>2 DEF Resumed, LoadChain
  <2>2. Rising(<<>>) /\ <<>> \in Seq(1..Len(node)) /\ NoNode \in 0..Len(node)
    BY <1>1, EmptySeq DEF Rising, NoNode
  <2> QED BY <1>1, <1>2, <2>1, <2>2 DEF ChainShape, Resumed
<1>3. CASE disk # <<>>
  <2>1. Last(disk) \in ToSet(disk) /\ Last(disk) \in 1..Len(node)
    BY <1>1, <1>3, RisingLast DEF ChainShape
  <2>2. data' = TraceChain(node, ToSet(disk), Last(disk))
    BY <1>3, LeafIsLast DEF ChainShape, Resumed, LoadChain
  <2>3. Last(disk) \in 0..Len(node) /\ Tree(node, ToSet(disk))
    BY <1>1, <2>1, FamilyShape DEF ChainShape
  <2>4. data' \in Seq(1..Len(node)) /\ Rising(data')
    BY <1>1, <2>2, <2>3, TraceIsShaped DEF ChainShape
  <2>5. Len(data') > 0 /\ data'[Len(data')] = Last(disk)
    BY <2>1, <2>2, <2>3, TraceShape
  <2>6. data' # <<>> /\ Last(data') = Last(disk)
    BY <2>4, <2>5, EmptySeq DEF Last
  <2>7. tip' = Last(disk)
    BY <2>6 DEF Resumed
  <2> QED BY <1>1, <1>3, <2>1, <2>2, <2>3, <2>4, <2>7 DEF ChainShape, Resumed
<1> QED BY <1>2, <1>3

-----------------------------------------------------------------------------
(* What a step may do to the chain, to the prepared summaries and to the    *)
(* facts that are due.                                                      *)

\* The messages one step of a turn, a tool reminder or a report adds.
Said1(b) ==
  \E seen \in Seq(SUBSET (1..Len(node))) :
    \/ b = RoundBatch(seen)
    \/ \E kind \in {"user", "event", "answer"} :
         b = <<Original(kind, Fresh, NoNode, seen)>>

Quiet ==
  /\ UNCHANGED chainVars /\ due' = due /\ alive' = alive
  /\ aux' \in {aux, pending, task, None} /\ pending' \in {aux, pending, task, None}
  /\ task' \in {task, None} \/ (alive /\ task' = Background(Messages(data)))
  /\ manual' \in {manual, None} \/ (alive /\ manual' = [msgs |-> Messages(data)])

Adds(b, i, j) ==
  /\ alive /\ alive' /\ UNCHANGED <<compactVars, manual>>
  /\ Said1(b) /\ Grown(b, i, j)
  /\ due' = due \cup UNION {b[k].says : k \in 1..Len(b)}
  /\ \/ i = Len(b) /\ j = Len(b)
     \/ "lost_write" \in mishaps'
     \/ "lost_report" \in mishaps' /\ i = 0 /\ Len(b) = 1 /\ b[1].kind = "event"

Swaps ==
  /\ alive /\ alive' /\ pending # None /\ SnapshotValid(Messages(data))
  /\ Rerooted(CompactBatch(Messages(data)))
  /\ pending' = None /\ task' = None /\ aux' \in {aux, None}
  /\ manual' = manual /\ due' = due

Compacts ==
  /\ alive /\ alive' /\ manual # None
  /\ Rerooted(ManualBatch) /\ Overtaken \subseteq mishaps'
  /\ UNCHANGED compactVars /\ manual' = None /\ due' = due

Rewinds(target) ==
  /\ alive /\ alive' /\ target \in BranchTargets /\ ~ParentMissing(target)
  /\ Rerooted(<<RewindRow(target)>>) /\ due' = Facts(Above(target))
  /\ UNCHANGED <<compactVars, manual>>

Breaks(b, k, j) ==
  /\ alive /\ alive' /\ Broken(b, k, j) /\ "lost_root" \in mishaps'
  /\ UNCHANGED compactVars /\ manual' \in {manual, None} /\ due' = due

Goes ==
  /\ alive /\ ~alive' /\ Emptied
  /\ aux' = aux /\ pending' = None /\ task' = None /\ manual' = None
  /\ node' = node /\ disk' = disk /\ due' = due

Dies(b, k) ==
  /\ alive /\ ~alive' /\ Emptied
  /\ aux' = aux /\ pending' = None /\ task' = None /\ manual' = None
  /\ Follows(b, node) /\ node' = node \o b
  /\ k \in 1..(Len(b) - 1) /\ disk' = disk \o Run(Len(node), k)
  /\ due' = due \cup UNION {b[i].says : i \in 1..k}
  /\ "half_batch" \in mishaps'
  /\ \/ \E seen \in Seq(SUBSET (1..Len(node))) : b = Linked(RoundBatch(seen))
     \/ /\ pending # None /\ SnapshotValid(Messages(data))
        /\ b = CompactBatch(Messages(data))

Returns ==
  /\ ~alive /\ alive' /\ Resumed
  /\ aux' = aux /\ pending' = aux /\ UNCHANGED <<task, manual, due>>

Move ==
  /\ mishaps \subseteq mishaps'
  /\ \/ Quiet
     \/ \E b, i, j : Adds(b, i, j)
     \/ Swaps
     \/ Compacts
     \/ \E target : Rewinds(target)
     \/ \E b, k, j : Breaks(b, k, j)
     \/ Goes
     \/ \E b, k : Dies(b, k)
     \/ Returns

LEMMA Said1Shape ==
  ASSUME ChainShape, NEW b, Said1(b)
  PROVE  Follows(b, node)
BY RoundFollows, OriginalFollows DEF Said1

LEMMA OriginalSays ==
  ASSUME ChainShape
  PROVE  /\ \A seen, kind : LET b == <<Original(kind, Fresh, NoNode, seen)>> IN
              /\ Len(b) = 1 /\ b[1].kind = kind
              /\ UNION {b[k].says : k \in 1..Len(b)} = IF kind = "event" THEN {} ELSE {Fresh}
         /\ \A seen : LET b == RoundBatch(seen) IN
              UNION {b[k].says : k \in 1..Len(b)} = {Fresh, Fresh + 1}
<1>1. Len(node) \in Nat
  BY FamilyShape DEF ChainShape
<1>2. ASSUME NEW seen, NEW kind
      PROVE  LET b == <<Original(kind, Fresh, NoNode, seen)>> IN
              /\ Len(b) = 1 /\ b[1].kind = kind
              /\ UNION {b[k].says : k \in 1..Len(b)} = IF kind = "event" THEN {} ELSE {Fresh}
  <2> DEFINE x == Original(kind, Fresh, NoNode, seen)
             b == <<x>>
  <2>1. Len(b) = 1 /\ b[1] = x  OBVIOUS
  <2>2. x.kind = kind /\ x.says = IF kind = "event" THEN {} ELSE {Fresh}
    BY DEF Original
  <2> HIDE DEF x
  <2>3. 1..1 = {1}  OBVIOUS
  <2> HIDE DEF b
  <2>4. {b[k].says : k \in 1..Len(b)} = {b[1].says}  BY <2>1, <2>3
  <2>5. UNION {b[k].says : k \in 1..Len(b)} = b[1].says  BY <2>4
  <2> QED BY <2>1, <2>2, <2>5 DEF b, x
<1>3. ASSUME NEW seen
      PROVE  LET b == RoundBatch(seen) IN
              UNION {b[k].says : k \in 1..Len(b)} = {Fresh, Fresh + 1}
  <2> DEFINE x == Original("call", Fresh, Fresh, seen)
             y == Original("result", Fresh + 1, Fresh, <<>>)
             b == <<x, y>>
  <2>1. Len(b) = 2 /\ b[1] = x /\ b[2] = y /\ RoundBatch(seen) = b  BY DEF RoundBatch
  <2>2. x.says = {Fresh} /\ y.says = {Fresh + 1}
    BY DEF Original
  <2> HIDE DEF x, y
  <2>3. 1..2 = {1, 2}  OBVIOUS
  <2> HIDE DEF b
  <2>4. {b[k].says : k \in 1..Len(b)} = {b[1].says, b[2].says}  BY <2>1, <2>3
  <2> QED BY <2>1, <2>2, <2>4
<1> QED BY <1>2, <1>3

LEMMA SaveAuxShape ==
  ASSUME NEW pc, SaveAux(pc)
  PROVE  aux' \in {aux, pc} /\ mishaps \subseteq mishaps'
BY DEF SaveAux, MayHappen

LEMMA MayHappenShape ==
  ASSUME NEW kinds, MayHappen(kinds)
  PROVE  mishaps \subseteq mishaps' /\ kinds \subseteq mishaps' /\ kinds \subseteq Mishaps
         /\ mishaps' = mishaps \cup kinds
BY DEF MayHappen

LEMMA AppendMoves ==
  ASSUME ShapeInv,
         UserMessage \/ UserMessageFails \/ Answer \/ AppendEvent
           \/ AppendEventFails \/ ToolReminder
  PROVE  mishaps \subseteq mishaps' /\ \E b, i, j : Adds(b, i, j)
<1>1. ChainShape /\ Len(node) \in Nat /\ call \in Seq(SUBSET (1..Len(node)))
  BY FamilyShape DEF ShapeInv, ChainShape, RestShape
<1>2. <<>> \in Seq(SUBSET (1..Len(node)))
  BY EmptySeq
<1>3. ASSUME NEW kind \in {"user", "event", "answer"}, NEW seen \in Seq(SUBSET (1..Len(node))),
             AppendOK(<<Original(kind, Fresh, NoNode, seen)>>)
      PROVE  LET b == <<Original(kind, Fresh, NoNode, seen)>> IN
             Grown(b, Len(b), Len(b)) /\ Said1(b)
  <2> DEFINE b == <<Original(kind, Fresh, NoNode, seen)>>
  <2>1. Said1(b)  BY DEF Said1
  <2>2. Follows(b, node)  BY <1>1, <2>1, Said1Shape
  <2> HIDE DEF b
  <2>3. AppendOK(b)  BY <1>3 DEF b
  <2>4. Grown(b, Len(b), Len(b))  BY <1>1, <2>2, <2>3, AppendOKGrows
  <2> QED BY <2>1, <2>4 DEF b
<1>4. ASSUME NEW kind \in {"user", "event", "answer"},
             AppendFails(Original(kind, Fresh, NoNode, <<>>))
      PROVE  LET b == <<Original(kind, Fresh, NoNode, <<>>)>> IN
             Said1(b) /\ \E j : Grown(b, 0, j)
  <2> DEFINE x == Original(kind, Fresh, NoNode, <<>>)
  <2>1. Said1(<<x>>)  BY <1>2 DEF Said1
  <2>2. Follows(<<x>>, node)  BY <1>1, <2>1, Said1Shape
  <2> HIDE DEF x
  <2>3. AppendFails(x)  BY <1>4 DEF x
  <2>4. \E j : Grown(<<x>>, 0, j)  BY <1>1, <2>2, <2>3, AppendFailsGrows
  <2> QED BY <2>1, <2>4 DEF x
<1>5. CASE UserMessage
  <2> DEFINE b == <<Original("user", Fresh, NoNode, <<>>)>>
  <2>1. Grown(b, Len(b), Len(b)) /\ Said1(b)
    BY <1>2, <1>3, <1>5 DEF UserMessage
  <2>2. UNION {b[k].says : k \in 1..Len(b)} = {Fresh}
    BY <1>1, OriginalSays
  <2> HIDE DEF b
  <2>3. Adds(b, Len(b), Len(b))
    BY <1>5, <2>1, <2>2 DEF Adds, UserMessage
  <2> QED BY <1>5, <2>3 DEF UserMessage
<1>6. CASE UserMessageFails
  <2> DEFINE b == <<Original("user", Fresh, NoNode, <<>>)>>
  <2>1. Said1(b) /\ \E j : Grown(b, 0, j)
    BY <1>4, <1>6 DEF UserMessageFails
  <2>2. UNION {b[k].says : k \in 1..Len(b)} = {Fresh}
    BY <1>1, OriginalSays
  <2> HIDE DEF b
  <2>3. PICK j : Grown(b, 0, j)  BY <2>1
  <2>4. "lost_write" \in mishaps' /\ mishaps \subseteq mishaps'
    BY <1>6, MayHappenShape DEF UserMessageFails
  <2>5. Adds(b, 0, j)
    BY <1>6, <2>1, <2>2, <2>3, <2>4 DEF Adds, UserMessageFails
  <2> QED BY <2>4, <2>5
<1>7. CASE Answer
  <2>1. PICK seen \in Usages : AppendOK(<<Original("answer", Fresh, NoNode, seen)>>)
    BY <1>7 DEF Answer
  <2>2. seen \in Seq(SUBSET (1..Len(node)))
    BY <1>1, <1>2, <2>1 DEF Usages
  <2> DEFINE b == <<Original("answer", Fresh, NoNode, seen)>>
  <2>3. Grown(b, Len(b), Len(b)) /\ Said1(b)
    BY <2>1, <2>2, <1>3
  <2>4. UNION {b[k].says : k \in 1..Len(b)} = {Fresh}
    BY <1>1, OriginalSays
  <2> HIDE DEF b
  <2>5. Adds(b, Len(b), Len(b))
    BY <1>7, <2>3, <2>4 DEF Adds, Answer
  <2> QED BY <1>7, <2>5 DEF Answer
<1>8. CASE AppendEvent
  <2> DEFINE b == <<Original("event", Fresh, NoNode, <<>>)>>
  <2>1. Grown(b, Len(b), Len(b)) /\ Said1(b)
    BY <1>2, <1>3, <1>8 DEF AppendEvent
  <2>2. UNION {b[k].says : k \in 1..Len(b)} = {}
    BY <1>1, OriginalSays
  <2> HIDE DEF b
  <2>3. Adds(b, Len(b), Len(b))
    BY <1>8, <2>1, <2>2 DEF Adds, AppendEvent
  <2> QED BY <1>8, <2>3 DEF AppendEvent
<1>9. CASE AppendEventFails
  <2> DEFINE b == <<Original("event", Fresh, NoNode, <<>>)>>
  <2>1. Said1(b) /\ \E j : Grown(b, 0, j)
    BY <1>4, <1>9 DEF AppendEventFails
  <2>2. UNION {b[k].says : k \in 1..Len(b)} = {} /\ Len(b) = 1 /\ b[1].kind = "event"
    BY <1>1, OriginalSays
  <2> HIDE DEF b
  <2>3. PICK j : Grown(b, 0, j)  BY <2>1
  <2>4. "lost_report" \in mishaps' /\ mishaps \subseteq mishaps'
    BY <1>9, MayHappenShape DEF AppendEventFails
  <2>5. Adds(b, 0, j)
    BY <1>9, <2>1, <2>2, <2>3, <2>4 DEF Adds, AppendEventFails
  <2> QED BY <2>4, <2>5
<1>10. CASE ToolReminder
  <2> DEFINE b == <<Original("user", Fresh, NoNode, <<>>)>>
  <2>1. Grown(b, Len(b), Len(b)) /\ Said1(b)
    BY <1>2, <1>3, <1>10 DEF ToolReminder
  <2>2. UNION {b[k].says : k \in 1..Len(b)} = {Fresh}
    BY <1>1, OriginalSays
  <2> HIDE DEF b
  <2>3. Adds(b, Len(b), Len(b))
    BY <1>10, <2>1, <2>2 DEF Adds, ToolReminder
  <2> QED BY <1>10, <2>3 DEF ToolReminder
<1> QED BY <1>5, <1>6, <1>7, <1>8, <1>9, <1>10

LEMMA RoundSays ==
  ASSUME ChainShape, NEW seen, NEW b, b = RoundBatch(seen)
  PROVE  UNION {b[k].says : k \in 1..Len(b)} = {Fresh, Fresh + 1}
<1>1. LET c == RoundBatch(seen) IN
        UNION {c[k].says : k \in 1..Len(c)} = {Fresh, Fresh + 1}
  BY OriginalSays
<1> HIDE DEF RoundBatch
<1> QED BY <1>1

LEMMA RoundMoves ==
  ASSUME ShapeInv, CommitRound \/ CommitFails
  PROVE  mishaps \subseteq mishaps' /\ \E b, i, j : Adds(b, i, j)
<1>1. ChainShape /\ Len(node) \in Nat /\ call \in Seq(SUBSET (1..Len(node)))
  BY FamilyShape DEF ShapeInv, ChainShape, RestShape
<1>2. <<>> \in Seq(SUBSET (1..Len(node)))
  BY EmptySeq
<1>3. CASE CommitRound
  <2>1. PICK seen \in Usages : AppendOK(RoundBatch(seen))
    BY <1>3 DEF CommitRound
  <2>2. seen \in Seq(SUBSET (1..Len(node)))
    BY <1>1, <1>2, <2>1 DEF Usages
  <2> DEFINE b == RoundBatch(seen)
  <2>3. Said1(b)  BY <2>2 DEF Said1
  <2>4. b = RoundBatch(seen)  OBVIOUS
  <2> HIDE DEF b
  <2>5. UNION {b[k].says : k \in 1..Len(b)} = {Fresh, Fresh + 1}
    <3> HIDE DEF RoundBatch
    <3>1. ChainShape  BY <1>1
    <3> QED BY <2>4, <3>1, RoundSays
  <2>8. Follows(b, node)  BY <1>1, <2>3, Said1Shape
  <2>6. Grown(b, Len(b), Len(b))
    BY <1>1, <2>1, <2>8, AppendOKGrows DEF b
  <2>7. Adds(b, Len(b), Len(b))
    BY <1>3, <2>3, <2>5, <2>6 DEF Adds, CommitRound
  <2> QED BY <1>3, <2>7 DEF CommitRound
<1>4. CASE CommitFails
  <2>1. "lost_write" \in mishaps' /\ mishaps \subseteq mishaps'
    BY <1>4, MayHappenShape DEF CommitFails
  <2>2. ASSUME NEW b, Said1(b), ExtendFails(b),
               UNION {b[k].says : k \in 1..Len(b)} = Fresh..Len(node')
        PROVE  \E j : Adds(b, Len(b), j)
    <3>1. Follows(b, node)  BY <1>1, <2>2, Said1Shape
    <3>2. PICK j : Grown(b, Len(b), j)
      BY <1>1, <2>2, <3>1, ExtendFailsGrows
    <3>3. Adds(b, Len(b), j)
      BY <1>4, <2>1, <2>2, <3>2 DEF Adds, CommitFails
    <3> QED BY <3>3
  <2>3. CASE ExtendFails(RoundBatch(call))
    <3> DEFINE b == RoundBatch(call)
    <3>1. Said1(b)  BY <1>1 DEF Said1
    <3>2. Follows(b, node) /\ Len(b) = 2  BY <1>1, RoundFollows
    <3>3. UNION {b[k].says : k \in 1..Len(b)} = {Fresh, Fresh + 1}
      BY <1>1, OriginalSays
    <3> HIDE DEF b
    <3>4. PICK j : Grown(b, Len(b), j)
      BY <1>1, <2>3, <3>2, ExtendFailsGrows DEF b
    <3>5. Len(node') = Len(node) + 2
      BY <1>1, <3>2, <3>4, GrownShape
    <3>6. Fresh..Len(node') = {Fresh, Fresh + 1}
      BY <1>1, <3>5 DEF Fresh
    <3>7. ExtendFails(b)  BY <2>3 DEF b
    <3>8. PICK h : Adds(b, Len(b), h)  BY <2>2, <3>1, <3>3, <3>6, <3>7
    <3> QED BY <2>1, <3>8
  <2>4. CASE ExtendFails(<<Original("answer", Fresh, NoNode, call)>>)
    <3> DEFINE b == <<Original("answer", Fresh, NoNode, call)>>
    <3>1. Said1(b)  BY <1>1 DEF Said1
    <3>2. Follows(b, node)  BY <1>1, <3>1, Said1Shape
    <3>3. UNION {b[k].says : k \in 1..Len(b)} = {Fresh} /\ Len(b) = 1
      BY <1>1, OriginalSays
    <3> HIDE DEF b
    <3>4. PICK j : Grown(b, Len(b), j)
      BY <1>1, <2>4, <3>2, ExtendFailsGrows DEF b
    <3>5. Len(node') = Len(node) + 1
      BY <1>1, <3>3, <3>4, GrownShape
    <3>6. Fresh..Len(node') = {Fresh}
      BY <1>1, <3>5 DEF Fresh
    <3>7. ExtendFails(b)  BY <2>4 DEF b
    <3>8. PICK h : Adds(b, Len(b), h)  BY <2>2, <3>1, <3>3, <3>6, <3>7
    <3> QED BY <2>1, <3>8
  <2> QED BY <1>4, <2>1, <2>3, <2>4 DEF CommitFails
<1> QED BY <1>3, <1>4

LEMMA RootMoves ==
  ASSUME ShapeInv,
         ApplyAndCall \/ ApplyFails \/ ManualDone \/ ManualFails \/ Rewind \/ RewindFails
  PROVE  Move
<1>1. ChainShape /\ Len(node) \in Nat /\ Messages(data) \in Seq(1..Len(node))
  BY FamilyShape, MessagesShape DEF ShapeInv, ChainShape
<1>2. ASSUME pending # None, SnapshotValid(Messages(data))
      PROVE  Follows(CompactBatch(Messages(data)), node)
  <2>1. pending \in RangesUpTo(Len(node))
    BY <1>2 DEF ShapeInv, RestShape
  <2> QED BY <1>1, <1>2, <2>1, CompactFollows
<1>3. manual # None => Follows(ManualBatch, node)
  <2>1. manual # None => manual \in [msgs : Seq(1..Len(node))]
    BY DEF ShapeInv, RestShape
  <2> QED BY <1>1, <2>1, ManualFollows
<1>4. \A target \in BranchTargets : Follows(<<RewindRow(target)>>, node)
  BY <1>1, TargetsShape, RowFollows
<1>5. CASE ApplyAndCall
  <2>1. pending # None /\ SnapshotValid(Messages(data)) /\ Reroot(CompactBatch(Messages(data)))
    BY <1>5 DEF ApplyAndCall, CanApply, WantsApply
  <2>2. Rerooted(CompactBatch(Messages(data)))
    BY <1>1, <1>2, <2>1, RerootRerooted
  <2>3. aux' \in {aux, None} /\ mishaps \subseteq mishaps'
    BY <1>5, SaveAuxShape DEF ApplyAndCall
  <2>4. Swaps
    BY <1>5, <2>1, <2>2, <2>3 DEF Swaps, ApplyAndCall
  <2> QED BY <2>3, <2>4 DEF Move
<1>6. CASE ApplyFails
  <2>1. pending # None /\ SnapshotValid(Messages(data)) /\ RerootFails(CompactBatch(Messages(data)))
    BY <1>6 DEF ApplyFails, CanApply, WantsApply
  <2>2. PICK k, j : Broken(CompactBatch(Messages(data)), k, j)
    BY <1>1, <1>2, <2>1, RerootFailsBroken
  <2>3. "lost_root" \in mishaps' /\ mishaps \subseteq mishaps'
    BY <1>6, MayHappenShape DEF ApplyFails
  <2>4. Breaks(CompactBatch(Messages(data)), k, j)
    BY <1>6, <2>2, <2>3 DEF Breaks, ApplyFails
  <2> QED BY <2>3, <2>4 DEF Move
<1>7. CASE ManualDone
  <2>1. manual # None /\ Reroot(ManualBatch)
    BY <1>7 DEF ManualDone
  <2>2. Rerooted(ManualBatch)
    BY <1>1, <1>3, <2>1, RerootRerooted
  <2>3. mishaps \subseteq mishaps' /\ Overtaken \subseteq mishaps'
    BY <1>7, MayHappenShape DEF ManualDone
  <2>4. Compacts
    BY <1>7, <2>1, <2>2, <2>3 DEF Compacts, ManualDone
  <2> QED BY <2>3, <2>4 DEF Move
<1>8. CASE ManualFails
  <2>1. CASE UNCHANGED <<chainVars, mishaps>>
    <3>1. Quiet
      BY <1>8, <2>1 DEF Quiet, ManualFails, compactVars
    <3> QED BY <2>1, <3>1 DEF Move
  <2>2. CASE RerootFails(ManualBatch) /\ MayHappen({"lost_root"} \cup Overtaken)
    <3>1. manual # None  BY <1>8 DEF ManualFails
    <3>2. PICK k, j : Broken(ManualBatch, k, j)
      BY <1>1, <1>3, <2>2, <3>1, RerootFailsBroken
    <3>3. "lost_root" \in mishaps' /\ mishaps \subseteq mishaps'
      BY <2>2, MayHappenShape
    <3>4. Breaks(ManualBatch, k, j)
      BY <1>8, <3>2, <3>3 DEF Breaks, ManualFails
    <3> QED BY <3>3, <3>4 DEF Move
  <2> QED BY <1>8, <2>1, <2>2 DEF ManualFails
<1>9. CASE Rewind
  <2>1. PICK target \in BranchTargets :
          /\ ~ParentMissing(target) /\ Reroot(<<RewindRow(target)>>)
          /\ due' = Facts(Above(target))
    BY <1>9 DEF Rewind
  <2>2. Rerooted(<<RewindRow(target)>>)
    BY <1>1, <1>4, <2>1, RerootRerooted
  <2>3. mishaps \subseteq mishaps'
    BY <1>9, MayHappenShape DEF Rewind
  <2>4. Rewinds(target)
    BY <1>9, <2>1, <2>2 DEF Rewinds, Rewind
  <2> QED BY <2>3, <2>4 DEF Move
<1>10. CASE RewindFails
  <2>1. PICK target \in BranchTargets : RerootFails(<<RewindRow(target)>>)
    BY <1>10 DEF RewindFails
  <2>2. PICK k, j : Broken(<<RewindRow(target)>>, k, j)
    BY <1>1, <1>4, <2>1, RerootFailsBroken
  <2>3. "lost_root" \in mishaps' /\ mishaps \subseteq mishaps'
    BY <1>10, MayHappenShape DEF RewindFails
  <2>4. Breaks(<<RewindRow(target)>>, k, j)
    BY <1>10, <2>2, <2>3 DEF Breaks, RewindFails
  <2> QED BY <2>3, <2>4 DEF Move
<1> QED BY <1>5, <1>6, <1>7, <1>8, <1>9, <1>10

LEMMA QuietMoves ==
  ASSUME ShapeInv,
         CallModel \/ CallFails \/ BackgroundDone \/ BackgroundFails \/ ManualStart
           \/ UNCHANGED vars
  PROVE  mishaps \subseteq mishaps' /\ Quiet
<1>1. CASE CallModel
  <2>1. (pending' = None /\ SaveAux(None)) \/ UNCHANGED <<pending, aux, mishaps>>
    BY <1>1 DEF CallModel
  <2>2. pending' \in {pending, None} /\ aux' \in {aux, None} /\ mishaps \subseteq mishaps'
    BY <2>1, SaveAuxShape
  <2>3. task' \in {task, None, Background(Messages(data))}
    BY <1>1 DEF CallModel
  <2> QED BY <1>1, <2>2, <2>3 DEF CallModel, Quiet
<1>2. CASE CallFails
  BY <1>2 DEF CallFails, Quiet, compactVars, histVars
<1>3. CASE BackgroundDone
  <2>1. aux' \in {aux, task} /\ mishaps \subseteq mishaps'
    BY <1>3, SaveAuxShape DEF BackgroundDone
  <2> QED BY <1>3, <2>1 DEF BackgroundDone, Quiet
<1>4. CASE BackgroundFails
  BY <1>4 DEF BackgroundFails, Quiet, histVars
<1>5. CASE ManualStart
  <2>1. aux' \in {aux, None} /\ mishaps \subseteq mishaps'
    BY <1>5, SaveAuxShape DEF ManualStart
  <2> QED BY <1>5, <2>1 DEF ManualStart, Quiet
<1>6. CASE UNCHANGED vars
  BY <1>6 DEF Quiet, vars, compactVars, histVars
<1> QED BY <1>1, <1>2, <1>3, <1>4, <1>5, <1>6

LEMMA EndMoves ==
  ASSUME ShapeInv, Stop \/ Crash \/ Resume
  PROVE  Move
<1>1. ChainShape /\ Len(node) \in Nat /\ Messages(data) \in Seq(1..Len(node))
      /\ call \in Seq(SUBSET (1..Len(node))) /\ alive \in BOOLEAN
  BY FamilyShape, MessagesShape DEF ShapeInv, ChainShape, RestShape
<1>2. CASE Stop
  <2>1. Goes
    BY <1>2 DEF Stop, Forget, Goes, Emptied
  <2>2. mishaps' = mishaps
    BY <1>2 DEF Stop
  <2> QED BY <2>1, <2>2 DEF Move
<1>3. CASE Crash
  <2>1. "half_batch" \in mishaps' /\ mishaps \subseteq mishaps'
    BY <1>3, MayHappenShape DEF Crash
  <2>2. ASSUME NEW b, Follows(b, node), CrashWriting(b),
               \/ \E seen \in Seq(SUBSET (1..Len(node))) : b = Linked(RoundBatch(seen))
               \/ /\ pending # None /\ SnapshotValid(Messages(data))
                  /\ b = CompactBatch(Messages(data))
        PROVE  \E k : Dies(b, k)
    <3>1. PICK k \in 1..(Len(b) - 1) :
            /\ disk' = disk \o SubSeq(Ids(b), 1, k)
            /\ due' = due \cup UNION {b[i].says : i \in 1..k}
      BY <2>2 DEF CrashWriting
    <3>2. k \in 0..Len(b)
      BY <1>1, <2>2, IdsAreRun
    <3>3. disk' = disk \o Run(Len(node), k)
      BY <1>1, <2>2, <3>1, <3>2, IdsAreRun
    <3>4. node' = node \o b  BY <2>2 DEF CrashWriting
    <3>5. Dies(b, k)
      BY <1>3, <2>1, <2>2, <3>1, <3>3, <3>4 DEF Dies, Crash, Forget, Emptied
    <3> QED BY <3>5
  <2>3. CASE CrashWriting(Linked(RoundBatch(call)))
    <3>1. Follows(Linked(RoundBatch(call)), node)
      BY <1>1, RoundFollows, LinkedFollows
    <3>2. \E k : Dies(Linked(RoundBatch(call)), k)
      BY <1>1, <2>2, <2>3, <3>1
    <3> QED BY <2>1, <3>2 DEF Move
  <2>4. CASE CanApply /\ CrashWriting(CompactBatch(Messages(data)))
    <3>1. pending # None /\ SnapshotValid(Messages(data))
      BY <2>4 DEF CanApply, WantsApply
    <3>2. Follows(CompactBatch(Messages(data)), node)
      <4>1. pending \in RangesUpTo(Len(node))
        BY <3>1 DEF ShapeInv, RestShape
      <4> QED BY <1>1, <3>1, <4>1, CompactFollows
    <3>3. \E k : Dies(CompactBatch(Messages(data)), k)
      BY <2>2, <2>4, <3>1, <3>2
    <3> QED BY <2>1, <3>3 DEF Move
  <2> QED BY <1>3, <2>3, <2>4 DEF Crash
<1>4. CASE Resume
  <2>1. Returns
    BY <1>4 DEF Resume, Returns, Resumed, histVars
  <2>2. mishaps' = mishaps
    BY <1>4 DEF Resume, histVars
  <2> QED BY <2>1, <2>2 DEF Move
<1> QED BY <1>2, <1>3, <1>4

LEMMA NextMoves ==
  ASSUME ShapeInv, [Next]_vars
  PROVE  Move
<1>1. CASE UserMessage \/ UserMessageFails \/ Answer \/ AppendEvent
             \/ AppendEventFails \/ ToolReminder
  BY <1>1, AppendMoves DEF Move
<1>2. CASE CommitRound \/ CommitFails
  BY <1>2, RoundMoves DEF Move
<1>3. CASE ApplyAndCall \/ ApplyFails \/ ManualDone \/ ManualFails \/ Rewind \/ RewindFails
  BY <1>3, RootMoves
<1>4. CASE CallModel \/ CallFails \/ BackgroundDone \/ BackgroundFails \/ ManualStart
             \/ UNCHANGED vars
  BY <1>4, QuietMoves DEF Move
<1>5. CASE Stop \/ Crash \/ Resume
  BY <1>5, EndMoves
<1> QED BY <1>1, <1>2, <1>3, <1>4, <1>5 DEF Next

-----------------------------------------------------------------------------
(* Type correctness.                                                        *)

LEMMA InitShape == Init => ShapeInv
<1> SUFFICES ASSUME Init PROVE ShapeInv
  OBVIOUS
<1>1. node = <<>> /\ lines = <<>> /\ data = <<>> /\ disk = <<>> /\ tip = NoNode
  BY DEF Init
<1>2. Len(node) = 0
  BY <1>1
<1>3. Rising(<<>>)
  BY DEF Rising
<1>4. ChainShape
  BY <1>1, <1>2, <1>3, EmptySeq DEF ChainShape, Family, NoNode
<1>5. call = <<>> /\ <<>> \in Seq(SUBSET (1..Len(node)))
  BY EmptySeq DEF Init
<1>6. RestShape(Len(node))
  BY <1>5 DEF RestShape, Init
<1> QED BY <1>4, <1>6 DEF ShapeInv

LEMMA RestGrows ==
  ASSUME NEW k \in Nat, NEW l \in Nat, k <= l
  PROVE  /\ \A x \in RangesUpTo(k) \cup {None} : x \in RangesUpTo(l) \cup {None}
         /\ \A x \in [msgs : Seq(1..k)] \cup {None} : x \in [msgs : Seq(1..l)] \cup {None}
<1>1. 1..k \subseteq 1..l /\ Seq(1..k) \subseteq Seq(1..l)
  BY NodesMonotonic
<1>2. RangesUpTo(k) \subseteq RangesUpTo(l)
  BY <1>1 DEF RangesUpTo
<1>3. [msgs : Seq(1..k)] \subseteq [msgs : Seq(1..l)]
  BY <1>1
<1> QED BY <1>2, <1>3

LEMMA BackgroundTyped ==
  ASSUME ChainShape
  PROVE  Background(Messages(data)) \in RangesUpTo(Len(node)) \cup {None}
<1> SUFFICES ASSUME Background(Messages(data)) # None
             PROVE  Background(Messages(data)) \in RangesUpTo(Len(node))
  OBVIOUS
<1> DEFINE msgs == Messages(data)
<1>1. msgs \in Seq(1..Len(node))
  BY MessagesShape DEF ChainShape
<1> HIDE DEF msgs
<1>2. PICK cut \in 1..Len(msgs) :
        Background(msgs) = [start |-> msgs[1], end |-> msgs[cut],
                            says |-> Facts(SubSeq(msgs, 1, cut))]
  BY <1>1, BackgroundShape DEF msgs
<1>3. Len(msgs) \in Nat /\ \A i \in 1..Len(msgs) : msgs[i] \in 1..Len(node)
  BY <1>1, LenProperties, ElementOfSeq
<1>4. cut \in 0..Len(msgs) /\ 1 \in 1..Len(msgs)
  BY <1>2, <1>3
<1>5. SubSeq(msgs, 1, cut) \in Seq(1..Len(node))
  BY <1>1, <1>4, PrefixShape
<1>6. Facts(SubSeq(msgs, 1, cut)) \subseteq 1..Len(node)
  BY <1>5, FactsShape
<1>7. Background(msgs) \in RangesUpTo(Len(node))
  BY <1>2, <1>3, <1>4, <1>6 DEF RangesUpTo
<1> QED BY <1>7 DEF msgs

LEMMA FollowsSays ==
  ASSUME ChainShape, NEW b, Follows(b, node), NEW k \in 0..Len(b)
  PROVE  UNION {b[i].says : i \in 1..k} \subseteq 1..(Len(node) + Len(b))
<1>1. Len(b) \in Nat /\ \A i \in 1..Len(b) : b[i] \in NodesUpTo(Len(node) + Len(b))
  BY LenProperties, ElementOfSeq DEF Follows
<1>2. \A i \in 1..k : b[i].says \subseteq 1..(Len(node) + Len(b))
  BY <1>1 DEF NodesUpTo
<1> QED BY <1>2

\* Every move keeps the types of the chain, of what is prepared and of what is due.
LEMMA MoveTypes ==
  ASSUME ShapeInv, Move
  PROVE  /\ ChainShape' /\ Len(node') \in Nat /\ Len(node) \in Nat /\ Len(node) <= Len(node')
         /\ aux' \in RangesUpTo(Len(node')) \cup {None}
         /\ pending' \in RangesUpTo(Len(node')) \cup {None}
         /\ task' \in RangesUpTo(Len(node')) \cup {None}
         /\ manual' \in [msgs : Seq(1..Len(node'))] \cup {None}
         /\ due' \subseteq 1..Len(node')
         /\ (~alive' => task' = None /\ manual' = None)
<1>1. /\ ChainShape /\ Len(node) \in Nat /\ Messages(data) \in Seq(1..Len(node))
      /\ aux \in RangesUpTo(Len(node)) \cup {None}
      /\ pending \in RangesUpTo(Len(node)) \cup {None}
      /\ task \in RangesUpTo(Len(node)) \cup {None}
      /\ manual \in [msgs : Seq(1..Len(node))] \cup {None}
      /\ due \subseteq 1..Len(node) /\ alive \in BOOLEAN
      /\ ~alive => task = None /\ manual = None
  BY FamilyShape, MessagesShape DEF ShapeInv, ChainShape, RestShape
<1>2. ASSUME NEW l, l = Len(node'), l \in Nat, Len(node) <= l
      PROVE  /\ \A x \in RangesUpTo(Len(node)) \cup {None} : x \in RangesUpTo(l) \cup {None}
             /\ \A x \in [msgs : Seq(1..Len(node))] \cup {None} : x \in [msgs : Seq(1..l)] \cup {None}
             /\ due \subseteq 1..l
  BY <1>1, <1>2, RestGrows
<1>3. CASE Quiet
  <2>1. node' = node /\ ChainShape'
    BY <1>1, <1>3 DEF Quiet, chainVars, ChainShape
  <2>2. Background(Messages(data)) \in RangesUpTo(Len(node)) \cup {None}
    BY <1>1, BackgroundTyped
  <2>3. [msgs |-> Messages(data)] \in [msgs : Seq(1..Len(node))]
    BY <1>1
  <2>4. aux' \in RangesUpTo(Len(node)) \cup {None} /\ pending' \in RangesUpTo(Len(node)) \cup {None}
    BY <1>1, <1>3 DEF Quiet
  <2>5. task' \in RangesUpTo(Len(node)) \cup {None}
    BY <1>1, <1>3, <2>2 DEF Quiet
  <2>6. manual' \in [msgs : Seq(1..Len(node))] \cup {None}
    BY <1>1, <1>3, <2>3 DEF Quiet
  <2>7. ~alive' => task' = None /\ manual' = None
    BY <1>1, <1>3 DEF Quiet
  <2> QED BY <1>1, <1>3, <2>1, <2>4, <2>5, <2>6, <2>7 DEF Quiet
<1>4. ASSUME NEW b, NEW i, NEW j, Adds(b, i, j)
      PROVE  /\ ChainShape' /\ Len(node') \in Nat /\ Len(node) <= Len(node')
             /\ due' \subseteq 1..Len(node')
  <2>1. Follows(b, node)  BY <1>1, <1>4, Said1Shape DEF Adds
  <2>2. ChainShape' /\ Len(node') = Len(node) + Len(b) /\ Len(b) \in Nat
    BY <1>1, <1>4, GrownShape DEF Adds
  <2>3. Len(b) \in 0..Len(b)  BY <2>2
  <2>4. UNION {b[k].says : k \in 1..Len(b)} \subseteq 1..(Len(node) + Len(b))
    BY <1>1, <2>1, <2>3, FollowsSays
  <2>5. Len(node') \in Nat /\ Len(node) <= Len(node')
    BY <1>1, <2>2
  <2>6. due \subseteq 1..Len(node')
    BY <1>2, <2>5
  <2> QED BY <1>4, <2>2, <2>4, <2>5, <2>6 DEF Adds
<1>5. CASE \E b, i, j : Adds(b, i, j)
  <2>1. PICK b, i, j : Adds(b, i, j)  BY <1>5
  <2>2. /\ ChainShape' /\ Len(node') \in Nat /\ Len(node) <= Len(node')
        /\ due' \subseteq 1..Len(node')
    BY <2>1, <1>4
  <2>3. aux' = aux /\ pending' = pending /\ task' = task /\ manual' = manual /\ alive'
    BY <2>1 DEF Adds, compactVars
  <2> QED BY <1>1, <1>2, <2>2, <2>3
<1>6. ASSUME NEW b, Rerooted(b)
      PROVE  ChainShape' /\ Len(node') \in Nat /\ Len(node) <= Len(node')
  <2>1. ChainShape' /\ Len(node') = Len(node) + Len(b) /\ Len(b) \in Nat
    BY <1>1, <1>6, RerootedShape
  <2> QED BY <1>1, <2>1
<1>7. CASE Swaps
  <2>1. ChainShape' /\ Len(node') \in Nat /\ Len(node) <= Len(node')
    BY <1>6, <1>7 DEF Swaps
  <2>2. /\ aux' \in RangesUpTo(Len(node)) \cup {None} /\ pending' = None /\ task' = None
        /\ manual' = manual /\ due' = due /\ alive'
    BY <1>1, <1>7 DEF Swaps
  <2> QED BY <1>1, <1>2, <2>1, <2>2
<1>8. CASE Compacts
  <2>1. ChainShape' /\ Len(node') \in Nat /\ Len(node) <= Len(node')
    BY <1>6, <1>8 DEF Compacts
  <2>2. aux' = aux /\ pending' = pending /\ task' = task /\ manual' = None /\ due' = due /\ alive'
    BY <1>8 DEF Compacts, compactVars
  <2> QED BY <1>1, <1>2, <2>1, <2>2
<1>9. CASE \E target : Rewinds(target)
  <2>1. PICK target : Rewinds(target)  BY <1>9
  <2>2. ChainShape' /\ Len(node') \in Nat /\ Len(node) <= Len(node')
    BY <1>6, <2>1 DEF Rewinds
  <2>3. aux' = aux /\ pending' = pending /\ task' = task /\ manual' = manual /\ alive'
    BY <2>1 DEF Rewinds, compactVars
  <2>4. Facts(Above(target)) \subseteq 1..Len(node)
    <3>1. target \in 1..Len(node)  BY <1>1, <2>1, TargetsShape DEF Rewinds
    <3> DEFINE t == TraceChain(node, DOMAIN node, target)
    <3>2. DOMAIN node = 1..Len(node) /\ Tree(node, 1..Len(node)) /\ target \in 0..Len(node)
      BY <1>1, <3>1, FamilyShape DEF ChainShape
    <3>3. t \in Seq(1..Len(node)) /\ Len(t) > 0
      BY <3>1, <3>2, TraceShape
    <3> HIDE DEF t
    <3>4. t # <<>>  BY <3>3, EmptySeq
    <3>5. Front(t) \in Seq(1..Len(node))  BY <3>3, <3>4, FrontShape
    <3>6. Facts(Front(t)) \subseteq 1..Len(node)  BY <1>1, <3>5, FactsShape
    <3> QED BY <3>6 DEF Above, t
  <2>5. due' = Facts(Above(target))  BY <2>1 DEF Rewinds
  <2>6. due' \subseteq 1..Len(node')
    BY <1>1, <2>2, <2>4, <2>5
  <2> QED BY <1>1, <1>2, <2>2, <2>3, <2>6
<1>10. CASE \E b, k, j : Breaks(b, k, j)
  <2>1. PICK b, k, j : Breaks(b, k, j)  BY <1>10
  <2>2. ChainShape' /\ Len(node') = Len(node) + Len(b) /\ Len(b) \in Nat
    BY <1>1, <2>1, BrokenShape DEF Breaks
  <2>3. Len(node') \in Nat /\ Len(node) <= Len(node')
    BY <1>1, <2>2
  <2>4. /\ aux' = aux /\ pending' = pending /\ task' = task /\ manual' \in {manual, None}
        /\ due' = due /\ alive'
    BY <2>1 DEF Breaks, compactVars
  <2> QED BY <1>1, <1>2, <2>2, <2>3, <2>4
<1>11. CASE Goes
  <2>1. ChainShape' /\ Len(node') \in Nat /\ Len(node) <= Len(node')
    BY <1>1, <1>11, EmptiedShape DEF Goes
  <2>2. aux' = aux /\ pending' = None /\ task' = None /\ manual' = None /\ due' = due
    BY <1>11 DEF Goes
  <2> QED BY <1>1, <1>2, <2>1, <2>2
<1>12. CASE \E b, k : Dies(b, k)
  <2>1. PICK b, k : Dies(b, k)  BY <1>12
  <2>2. Follows(b, node) /\ k \in 0..Len(b)
    BY <1>1, <2>1, IdsAreRun DEF Dies
  <2>3. ChainShape' /\ Len(node') \in Nat /\ Len(node) <= Len(node')
    BY <1>1, <2>1, <2>2, EmptiedShape DEF Dies
  <2>4. aux' = aux /\ pending' = None /\ task' = None /\ manual' = None
    BY <2>1 DEF Dies
  <2>5. UNION {b[i].says : i \in 1..k} \subseteq 1..(Len(node) + Len(b))
    BY <1>1, <2>2, FollowsSays
  <2>6. Len(node') = Len(node) + Len(b)
    BY <1>1, <2>1, <2>2, FamilyGrows DEF Dies, ChainShape
  <2>7. due' \subseteq 1..Len(node')
    BY <1>2, <2>1, <2>3, <2>5, <2>6 DEF Dies
  <2> QED BY <1>1, <1>2, <2>3, <2>4, <2>7
<1>13. CASE Returns
  <2>1. ChainShape' /\ Len(node') = Len(node)
    BY <1>1, <1>13, ResumedShape DEF Returns
  <2>2. aux' = aux /\ pending' = aux /\ task' = task /\ manual' = manual /\ due' = due /\ alive'
    BY <1>13 DEF Returns
  <2> QED BY <1>1, <2>1, <2>2
<1> QED BY <1>3, <1>5, <1>7, <1>8, <1>9, <1>10, <1>11, <1>12, <1>13 DEF Move

\* The turn, the bounds, and that no task runs beside a prepared result.
LEMMA AliveType ==
  ASSUME alive \in BOOLEAN, [Next]_vars
  PROVE  alive' \in BOOLEAN
<1>1. alive' = alive \/ alive' = TRUE \/ alive' = FALSE
  BY DEF Next, vars, UserMessage, UserMessageFails, ApplyAndCall, ApplyFails, CallModel,
         Answer, CommitRound, CommitFails, CallFails, AppendEvent, AppendEventFails,
         ToolReminder, BackgroundDone, BackgroundFails, ManualStart, ManualDone,
         ManualFails, Rewind, RewindFails, Stop, Crash, Resume, Forget
<1> QED BY <1>1, Zenon

\* What an action may do to the turn, the histories and the bounds.
LEMMA TurnSteps ==
  ASSUME [Next]_vars
  PROVE  /\ turn' = turn \/ turn' \in {"idle", "ready", "calling"}
         /\ call' = call \/ call' = <<>> \/ call' = Says(node', data')
         /\ mishaps' = mishaps \/ (\E kinds : MayHappen(kinds))
         /\ spent' = spent \/ spent' = spent + 1
         /\ \/ task' = task /\ pending' = pending
            \/ task' = None
            \/ pending' = None
            \/ ~alive /\ task' = task
            \/ CallModel
<1> USE DEF Next, vars, UserMessage, UserMessageFails, ApplyAndCall, ApplyFails, CallModel,
         Answer, CommitRound, CommitFails, CallFails, AppendEvent, AppendEventFails,
         ToolReminder, BackgroundDone, BackgroundFails, ManualStart, ManualDone,
         ManualFails, Rewind, RewindFails, Stop, Crash, Resume, Forget, turnVars, histVars,
         compactVars, chainVars, Spend, SaveAux
<1>1. turn' = turn \/ turn' \in {"idle", "ready", "calling"}
  OBVIOUS
<1>2. call' = call \/ call' = <<>> \/ call' = Says(node', data')
  OBVIOUS
<1>3. mishaps' = mishaps \/ (\E kinds : MayHappen(kinds))
  OBVIOUS
<1>4. spent' = spent \/ spent' = spent + 1
  OBVIOUS
<1>5. \/ task' = task /\ pending' = pending
      \/ task' = None
      \/ pending' = None
      \/ ~alive /\ task' = task
      \/ CallModel
  <2>1. CASE ApplyAndCall \/ BackgroundDone \/ BackgroundFails \/ ManualStart \/ Stop \/ Crash
    BY <2>1
  <2>2. CASE Resume
    BY <2>2
  <2>3. CASE CallModel
    BY <2>3
  <2>4. CASE UNCHANGED vars
    BY <2>4
  <2>5. CASE ~(ApplyAndCall \/ BackgroundDone \/ BackgroundFails \/ ManualStart \/ Stop \/ Crash
               \/ Resume \/ CallModel)
    BY <2>5
  <2> QED BY <2>1, <2>2, <2>3, <2>4, <2>5
<1> QED BY <1>1, <1>2, <1>3, <1>4, <1>5

LEMMA TurnTypes ==
  ASSUME ShapeInv, [Next]_vars, ChainShape', Len(node) <= Len(node'), Len(node') \in Nat
  PROVE  /\ turn' \in {"idle", "ready", "calling"} /\ call' \in Seq(SUBSET (1..Len(node')))
         /\ mishaps' \subseteq Mishaps /\ spent' \in Nat
         /\ task' # None => pending' = None
<1>1. /\ turn \in {"idle", "ready", "calling"} /\ mishaps \subseteq Mishaps
      /\ ~alive => task = None
      /\ spent \in Nat
      /\ task # None => pending = None
  BY DEF ShapeInv, RestShape
<1>2. <<>> \in Seq(SUBSET (1..Len(node')))
  BY EmptySeq
<1>3. call \in Seq(SUBSET (1..Len(node')))
  <2>1. Len(node) \in Nat /\ call \in Seq(SUBSET (1..Len(node)))
    BY FamilyShape DEF ShapeInv, ChainShape, RestShape
  <2> QED BY <2>1, NodesMonotonic
<1>4. Says(node', data') \in Seq(SUBSET (1..Len(node')))
  BY SaysShape DEF ChainShape
<1>5. turn' \in {"idle", "ready", "calling"}
  BY <1>1, TurnSteps
<1>6. call' \in Seq(SUBSET (1..Len(node')))
  BY <1>2, <1>3, <1>4, TurnSteps, Zenon
<1>7. mishaps' \subseteq Mishaps
  <2>1. CASE mishaps' = mishaps  BY <1>1, <2>1
  <2>2. CASE \E kinds : MayHappen(kinds)  BY <1>1, <2>2 DEF MayHappen
  <2> QED BY <2>1, <2>2, TurnSteps
<1>8. spent' \in Nat
  <2>1. spent' = spent \/ spent' = spent + 1  BY TurnSteps
  <2> QED BY <1>1, <2>1
<1>9. task' # None => pending' = None
  <2>1. CASE CallModel
    <3>1. CASE WantsApply
      BY <2>1, <3>1 DEF CallModel
    <3>2. CASE ~WantsApply /\ pending # None
      BY <1>1, <2>1, <3>2 DEF CallModel
    <3>3. CASE ~WantsApply /\ pending = None
      BY <1>1, <2>1, <3>3 DEF CallModel
    <3> QED BY <3>1, <3>2, <3>3
  <2> QED BY <1>1, <2>1, TurnSteps
<1> QED BY <1>5, <1>6, <1>7, <1>8, <1>9

LEMMA ShapeKept == ShapeInv /\ [Next]_vars => ShapeInv'
<1> SUFFICES ASSUME ShapeInv, [Next]_vars PROVE ShapeInv'
  OBVIOUS
<1>1. Move
  BY NextMoves
<1>2. /\ ChainShape' /\ Len(node') \in Nat /\ Len(node) <= Len(node')
      /\ aux' \in RangesUpTo(Len(node')) \cup {None}
      /\ pending' \in RangesUpTo(Len(node')) \cup {None}
      /\ task' \in RangesUpTo(Len(node')) \cup {None}
      /\ manual' \in [msgs : Seq(1..Len(node'))] \cup {None}
      /\ due' \subseteq 1..Len(node')
      /\ (~alive' => task' = None /\ manual' = None)
  BY <1>1, MoveTypes
<1>3. /\ turn' \in {"idle", "ready", "calling"} /\ call' \in Seq(SUBSET (1..Len(node')))
      /\ alive' \in BOOLEAN /\ mishaps' \subseteq Mishaps /\ spent' \in Nat
      /\ task' # None => pending' = None
  <2>1. alive \in BOOLEAN
    BY DEF ShapeInv, RestShape
  <2> QED BY <1>2, <2>1, TurnTypes, AliveType, Zenon
<1> QED BY <1>2, <1>3 DEF ShapeInv, RestShape

LEMMA ShapeAlways == Spec => []ShapeInv
<1>1. Init => ShapeInv  BY InitShape
<1>2. ShapeInv /\ [Next]_vars => ShapeInv'  BY ShapeKept
<1> QED BY <1>1, <1>2, PTL DEF Spec

\* The chain, its log and what the compactions carry keep their types under every
\* operation, failure and restart.
THEOREM TypeCorrect == Spec => []TypeOK
<1>1. ShapeInv => TypeOK  BY ShapeIsTyped
<1> QED BY <1>1, ShapeAlways, PTL

-----------------------------------------------------------------------------
(* Paths: the nodes above a node in the map of all nodes, and what they say. *)

\* A rising sequence is determined by what it holds.
LEMMA RisingEqual ==
  ASSUME NEW s \in Seq(Nat), NEW t \in Seq(Nat), Rising(s), Rising(t), ToSet(s) = ToSet(t)
  PROVE  s = t
<1>1. /\ Len(s) \in Nat /\ DOMAIN s = 1..Len(s) /\ \A i \in 1..Len(s) : s[i] \in Nat
      /\ Len(t) \in Nat /\ DOMAIN t = 1..Len(t) /\ \A i \in 1..Len(t) : t[i] \in Nat
  BY LenProperties, ElementOfSeq
<1>2. /\ \A i \in 1..Len(s) : \E j \in 1..Len(t) : s[i] = t[j]
      /\ \A i \in 1..Len(t) : \E j \in 1..Len(s) : t[i] = s[j]
  BY <1>1 DEF ToSet
<1>3. /\ \A i, j \in 1..Len(s) : i < j => s[i] < s[j]
      /\ \A i, j \in 1..Len(t) : i < j => t[i] < t[j]
  BY <1>1 DEF Rising
<1> DEFINE P == {i \in Nat : i \in 1..Len(s) /\ i \in 1..Len(t) => s[i] = t[i]}
<1>4. ASSUME NEW i \in Nat, \A k \in Nat : k < i => k \in P PROVE i \in P
  <2> SUFFICES ASSUME i \in 1..Len(s), i \in 1..Len(t) PROVE s[i] = t[i]
    OBVIOUS
  <2>1. PICK j \in 1..Len(t) : s[i] = t[j]  BY <1>2
  <2>2. PICK k \in 1..Len(s) : t[i] = s[k]  BY <1>2
  <2>3. j >= i
    <3> SUFFICES ASSUME j < i PROVE FALSE  BY <1>1
    <3>4. j \in Nat /\ j \in 1..Len(s)  BY <1>1
    <3>5. j \in P
      <4> HIDE DEF P
      <4> QED BY <1>4, <3>4
    <3>1. j \in P /\ j \in 1..Len(s)  BY <3>4, <3>5
    <3>2. s[j] = t[j] /\ s[j] < s[i]  BY <1>3, <3>1
    <3>3. s[i] = s[j] /\ s[j] \in Nat  BY <1>1, <2>1, <3>1, <3>2
    <3> QED BY <3>2, <3>3
  <2>4. k >= i
    <3> SUFFICES ASSUME k < i PROVE FALSE  BY <1>1
    <3>4. k \in Nat /\ k \in 1..Len(t)  BY <1>1
    <3>5. k \in P
      <4> HIDE DEF P
      <4> QED BY <1>4, <3>4
    <3>1. k \in P /\ k \in 1..Len(t)  BY <3>4, <3>5
    <3>2. s[k] = t[k] /\ t[k] < t[i]  BY <1>3, <3>1
    <3>3. t[i] = t[k] /\ t[k] \in Nat  BY <1>1, <2>2, <3>1, <3>2
    <3> QED BY <3>2, <3>3
  <2>5. s[i] >= t[i]  BY <1>1, <1>3, <2>1, <2>3
  <2>6. t[i] >= s[i]  BY <1>1, <1>3, <2>2, <2>4
  <2> QED BY <1>1, <2>5, <2>6
<1>5. Nat \subseteq P
  <2> HIDE DEF P
  <2> QED BY <1>4, StrongInduction
<1>6. \A i \in 1..Len(s) : i \in 1..Len(t) => s[i] = t[i]
  BY <1>1, <1>5
<1>7. ~(Len(s) < Len(t))
  <2> SUFFICES ASSUME Len(s) < Len(t) PROVE FALSE
    OBVIOUS
  <2>1. Len(s) + 1 \in 1..Len(t)  BY <1>1
  <2>2. PICK k \in 1..Len(s) : t[Len(s) + 1] = s[k]  BY <1>2, <2>1
  <2>3. k \in 1..Len(t) /\ k < Len(s) + 1  BY <1>1
  <2>4. s[k] = t[k] /\ t[k] < t[Len(s) + 1]  BY <1>3, <1>6, <2>1, <2>3
  <2> QED BY <1>1, <2>1, <2>2, <2>3, <2>4
<1>8. ~(Len(t) < Len(s))
  <2> SUFFICES ASSUME Len(t) < Len(s) PROVE FALSE
    OBVIOUS
  <2>1. Len(t) + 1 \in 1..Len(s)  BY <1>1
  <2>2. PICK k \in 1..Len(t) : s[Len(t) + 1] = t[k]  BY <1>2, <2>1
  <2>3. k \in 1..Len(s) /\ k < Len(t) + 1  BY <1>1
  <2>4. s[k] = t[k] /\ s[k] < s[Len(t) + 1]  BY <1>3, <1>6, <2>1, <2>3
  <2> QED BY <1>1, <2>1, <2>2, <2>3, <2>4
<1> HIDE DEF P
<1>9. Len(s) = Len(t)
  <2> DEFINE j == Len(s)
             k == Len(t)
  <2>1. j \in Nat /\ k \in Nat /\ ~(j < k) /\ ~(k < j)  BY <1>1, <1>7, <1>8
  <2> HIDE DEF j, k
  <2>2. j = k  BY <2>1
  <2> QED BY <2>2 DEF j, k
<1> QED BY <1>6, <1>9, SeqEqual

Path(n, u) == On(n, 1..Len(n), u)

FactsOf(n, S) == UNION {n[u].says : u \in S}

\* What the chain up to u stands for.
Said(n, u) == FactsOf(n, Path(n, u))

LEMMA FactsAreOf == \A c : Facts(c) = FactsOf(node, ToSet(c))
BY DEF Facts, FactsOf

LEMMA PathShape ==
  ASSUME NEW n, Family(n)
  PROVE  /\ Path(n, 0) = {} /\ Said(n, 0) = {}
         /\ \A u \in 0..Len(n) :
              /\ Path(n, u) \subseteq 1..u /\ Path(n, u) \subseteq 1..Len(n)
              /\ \A v \in Path(n, u) : /\ Path(n, v) = {w \in Path(n, u) : w <= v}
                                       /\ Said(n, v) \subseteq Said(n, u)
         /\ \A u \in 1..Len(n) :
              /\ n[u].parent \in 0..Len(n) /\ n[u].parent < u
              /\ Path(n, u) = Path(n, n[u].parent) \cup {u} /\ u \in Path(n, u)
              /\ Said(n, u) = Said(n, n[u].parent) \cup n[u].says
<1> DEFINE D == 1..Len(n)
<1>1. Len(n) \in Nat /\ Tree(n, D)
  BY FamilyShape
<1>2. \A u \in 1..Len(n) : n[u].parent \in 0..(u - 1)
  BY <1>1 DEF Tree
<1> HIDE DEF D
<1>3. \A u \in 0..Len(n) :
        /\ u \in D => On(n, D, u) = On(n, D, n[u].parent) \cup {u}
        /\ u \notin D => On(n, D, u) = {}
        /\ On(n, D, u) \subseteq D \cap (1..u)
  BY <1>1, OnUnfold
<1>4. \A u \in 0..Len(n) : \A v \in On(n, D, u) :
        On(n, D, v) = {w \in On(n, D, u) : w <= v}
  BY <1>1, OnPath
<1>5. 0 \notin D /\ \A u \in 1..Len(n) : u \in D /\ u \in 0..Len(n)
  BY <1>1 DEF D
<1>6. /\ Path(n, 0) = {}
      /\ \A u \in 0..Len(n) :
           /\ Path(n, u) \subseteq 1..u /\ Path(n, u) \subseteq 1..Len(n)
           /\ \A v \in Path(n, u) : Path(n, v) = {w \in Path(n, u) : w <= v}
      /\ \A u \in 1..Len(n) : Path(n, u) = Path(n, n[u].parent) \cup {u}
  BY <1>1, <1>3, <1>4, <1>5 DEF Path, D
<1>7. Said(n, 0) = {}
  BY <1>6 DEF Said, FactsOf
<1>8. \A u \in 0..Len(n) : \A v \in Path(n, u) : Said(n, v) \subseteq Said(n, u)
  BY <1>6 DEF Said, FactsOf
<1>9. \A u \in 1..Len(n) : Said(n, u) = Said(n, n[u].parent) \cup n[u].says
  BY <1>6 DEF Said, FactsOf
<1>10. \A u \in 1..Len(n) : n[u].parent \in 0..Len(n) /\ n[u].parent < u
  BY <1>1, <1>2
<1> QED BY <1>6, <1>7, <1>8, <1>9, <1>10

\* A map closed under parents traces as the map of all nodes.
LEMMA ClosedPath ==
  ASSUME NEW n, Family(n), NEW known, known \subseteq 1..Len(n),
         \A u \in known : n[u].parent \in known \cup {0}
  PROVE  \A u \in known \cup {0} : On(n, known, u) = Path(n, u)
<1> DEFINE all == 1..Len(n)
           D == known \cup {0}
<1>1. Len(n) \in Nat /\ Tree(n, all) /\ Tree(n, known)
  BY FamilyShape
<1>2. Agree(n, known, n, all, D)
  BY <1>1 DEF Agree
<1> HIDE DEF all
<1>3. \A u \in D : TraceChain(n, known, u) = TraceChain(n, all, u)
  <2> HIDE DEF D
  <2> QED BY <1>1, <1>2, TraceAgree
<1> QED BY <1>3 DEF On, Path, all

\* The nodes of a batch hang below each other.
Stacked(b, n) == \A i \in 2..Len(b) : b[i].parent = Len(n) + i - 1

\* m is the chain n, grown by the batch b.
Grew(m, n, b) == Family(n) /\ Follows(b, n) /\ m = n \o b

\* Old paths stay as they are, and a batch extends the path of its parent.
LEMMA PathsGrow ==
  ASSUME NEW n, NEW b, NEW m, Grew(m, n, b)
  PROVE  /\ Len(b) \in Nat /\ Len(n) \in Nat /\ Len(m) = Len(n) + Len(b)
         /\ \A u \in 0..Len(n) : Path(m, u) = Path(n, u) /\ Said(m, u) = Said(n, u)
         /\ \A S \in SUBSET (1..Len(n)) : FactsOf(m, S) = FactsOf(n, S)
         /\ \A i \in 1..Len(b) :
              /\ b[i].parent \in 0..(Len(n) + i - 1)
              /\ Path(m, Len(n) + i) = Path(m, b[i].parent) \cup {Len(n) + i}
              /\ Said(m, Len(n) + i) = Said(m, b[i].parent) \cup b[i].says
<1>1. /\ Family(m) /\ Len(m) = Len(n) + Len(b) /\ Len(b) \in Nat /\ Len(n) \in Nat
      /\ \A u \in 1..Len(n) : m[u] = n[u]
      /\ \A i \in 1..Len(b) : m[Len(n) + i] = b[i]
  BY FamilyGrows, FamilyShape DEF Grew
<1>2. \A u \in 0..Len(n) : Path(m, u) = Path(n, u)
  BY TraceKept DEF Path, On, Grew
<1>3. \A u \in 0..Len(n) : Path(n, u) \subseteq 1..Len(n)
  BY PathShape DEF Grew
<1>4. \A S \in SUBSET (1..Len(n)) : FactsOf(m, S) = FactsOf(n, S)
  BY <1>1 DEF FactsOf
<1>5. \A u \in 0..Len(n) : Said(m, u) = Said(n, u)
  <2> SUFFICES ASSUME NEW u \in 0..Len(n) PROVE Said(m, u) = Said(n, u)
    OBVIOUS
  <2>1. Path(m, u) = Path(n, u) /\ Path(n, u) \in SUBSET (1..Len(n))  BY <1>2, <1>3
  <2> QED BY <1>4, <2>1 DEF Said
<1>6. \A u \in 1..Len(m) :
        /\ m[u].parent \in 0..Len(m) /\ m[u].parent < u
        /\ Path(m, u) = Path(m, m[u].parent) \cup {u}
        /\ Said(m, u) = Said(m, m[u].parent) \cup m[u].says
  BY <1>1, PathShape
<1>7. ASSUME NEW i \in 1..Len(b)
      PROVE  /\ b[i].parent \in 0..(Len(n) + i - 1)
             /\ Path(m, Len(n) + i) = Path(m, b[i].parent) \cup {Len(n) + i}
             /\ Said(m, Len(n) + i) = Said(m, b[i].parent) \cup b[i].says
  <2> DEFINE u == Len(n) + i
  <2>1. u \in 1..Len(m) /\ m[u] = b[i]
    BY <1>1
  <2>2. u \in Nat /\ Len(m) \in Nat  BY <1>1
  <2> HIDE DEF u
  <2>3. /\ b[i].parent \in 0..Len(m) /\ b[i].parent < u
        /\ Path(m, u) = Path(m, b[i].parent) \cup {u}
        /\ Said(m, u) = Said(m, b[i].parent) \cup b[i].says
    BY <1>6, <2>1
  <2>4. b[i].parent \in 0..(u - 1)  BY <2>2, <2>3
  <2> QED BY <2>3, <2>4 DEF u
<1> QED BY <1>1, <1>2, <1>4, <1>5, <1>7

\* The first k nodes of a batch.
Span(n, k) == (Len(n) + 1)..(Len(n) + k)
SaidBy(b, k) == UNION {b[i].says : i \in 1..k}

LEMMA StackGrows ==
  ASSUME NEW n, NEW b, NEW m, Grew(m, n, b), Stacked(b, n)
  PROVE  /\ b[1].parent \in 0..Len(n)
         /\ \A k \in 1..Len(b) :
              /\ Path(m, Len(n) + k) = Path(n, b[1].parent) \cup Span(n, k)
              /\ Said(m, Len(n) + k) = Said(n, b[1].parent) \cup SaidBy(b, k)
<1> DEFINE N == Len(n)
           r == b[1].parent
           Good(k) == /\ Path(m, N + k) = Path(n, r) \cup ((N + 1)..(N + k))
                      /\ Said(m, N + k) = Said(n, r) \cup UNION {b[i].says : i \in 1..k}
           P == {k \in Nat : k \in 1..Len(b) => Good(k)}
<1> HIDE DEF P, Good, r
<1>1. /\ Len(b) \in Nat /\ N \in Nat
      /\ \A u \in 0..N : Path(m, u) = Path(n, u) /\ Said(m, u) = Said(n, u)
      /\ \A i \in 1..Len(b) : /\ b[i].parent \in 0..(N + i - 1)
                              /\ Path(m, N + i) = Path(m, b[i].parent) \cup {N + i}
                              /\ Said(m, N + i) = Said(m, b[i].parent) \cup b[i].says
  <2>1. /\ Len(b) \in Nat /\ Len(n) \in Nat
        /\ \A u \in 0..Len(n) : Path(m, u) = Path(n, u) /\ Said(m, u) = Said(n, u)
        /\ \A i \in 1..Len(b) :
              /\ b[i].parent \in 0..(Len(n) + i - 1)
              /\ Path(m, Len(n) + i) = Path(m, b[i].parent) \cup {Len(n) + i}
              /\ Said(m, Len(n) + i) = Said(m, b[i].parent) \cup b[i].says
    BY PathsGrow
  <2> QED BY <2>1 DEF N
<1>2. Len(b) > 0 /\ 1 \in 1..Len(b)
  BY <1>1 DEF Follows, Grew
<1>3. r \in 0..N
  BY <1>1, <1>2 DEF r
<1>4. \A i \in 2..Len(b) : b[i].parent = N + i - 1
  BY DEF Stacked
<1> HIDE DEF N
<1>5. 0 \in P
  BY DEF P
<1>6. ASSUME NEW k \in Nat, k \in P, k + 1 \in 1..Len(b) PROVE Good(k + 1)
  <2>1. CASE k = 0
    <3>1. /\ Path(m, N + 1) = Path(m, r) \cup {N + 1}
          /\ Said(m, N + 1) = Said(m, r) \cup b[1].says
      BY <1>1, <1>2 DEF r
    <3>2. Path(m, r) = Path(n, r) /\ Said(m, r) = Said(n, r)
      BY <1>1, <1>3
    <3>3. (N + 1)..(N + 1) = {N + 1} /\ UNION {b[i].says : i \in 1..1} = b[1].says
      BY <1>1
    <3>4. k + 1 = 1  BY <2>1
    <3> QED BY <3>1, <3>2, <3>3, <3>4 DEF Good
  <2>2. CASE k # 0
    <3>1. k \in 1..Len(b) /\ k + 1 \in 2..Len(b)  BY <1>1, <1>6, <2>2
    <3>2. b[k + 1].parent = N + (k + 1) - 1  BY <1>4, <3>1
    <3>3. N + (k + 1) - 1 = N + k  BY <1>1, <1>6
    <3>4. Good(k)  BY <1>6, <3>1 DEF P
    <3>5. b[k + 1].parent = N + k
      BY <3>2, <3>3
    <3>6. /\ Path(m, N + (k + 1)) = Path(m, N + k) \cup {N + (k + 1)}
          /\ Said(m, N + (k + 1)) = Said(m, N + k) \cup b[k + 1].says
      BY <1>1, <1>6, <3>5
    <3>7. (N + 1)..(N + (k + 1)) = ((N + 1)..(N + k)) \cup {N + (k + 1)}
      <4>1. N \in Nat /\ k \in Nat  BY <1>1, <1>6
      <4> QED BY <4>1, Z3
    <3>8. UNION {b[i].says : i \in 1..(k + 1)} =
            (UNION {b[i].says : i \in 1..k}) \cup b[k + 1].says
      <4>1. 1..(k + 1) = (1..k) \cup {k + 1}  BY <1>6
      <4> QED BY <4>1
    <3> QED BY <3>4, <3>6, <3>7, <3>8 DEF Good
  <2> QED BY <2>1, <2>2
<1>7. Nat \subseteq P
  <2>1. ASSUME NEW k \in Nat, k \in P PROVE k + 1 \in P
    <3>1. k + 1 \in Nat  OBVIOUS
    <3>2. k + 1 \in 1..Len(b) => Good(k + 1)  BY <1>6, <2>1
    <3> QED BY <3>1, <3>2 DEF P
  <2> QED BY <1>5, <2>1, SetInduction
<1>8. \A k \in 1..Len(b) : Good(k)
  BY <1>1, <1>7 DEF P
<1> QED BY <1>3, <1>8 DEF N, r, Good, Span, SaidBy

-----------------------------------------------------------------------------
(* What the windows and the batches say.                                    *)

LEMMA OnIsAPath ==
  ASSUME NEW n, Family(n), NEW known, known \subseteq 1..Len(n)
  PROVE  \A u \in 0..Len(n) : On(n, known, u) \subseteq Path(n, u)
<1> DEFINE all == 1..Len(n)
<1>1. Tree(n, known) /\ Tree(n, all) /\ known \subseteq all
  BY FamilyShape
<1> HIDE DEF all
<1>2. \A u \in 0..Len(n) : On(n, known, u) \subseteq On(n, all, u)
  BY <1>1, OnGrows
<1> QED BY <1>2 DEF Path, all

\* A prefix of the window of a chain says at most what the chain up to its last
\* message says; and all of it, when the chain is the whole path.
LEMMA WindowSays ==
  ASSUME ChainShape, ToSet(data) \subseteq Path(node, tip),
         NEW k \in 1..Len(Messages(data))
  PROVE  /\ Messages(data)[k] \in ToSet(data)
         /\ Messages(data)[k] \in Path(node, tip)
         /\ Facts(SubSeq(Messages(data), 1, k)) \subseteq Said(node, Messages(data)[k])
         /\ ToSet(data) = Path(node, tip) =>
              Facts(SubSeq(Messages(data), 1, k)) = Said(node, Messages(data)[k])
<1> DEFINE msgs == Messages(data)
           N == Len(node)
           s == SubSeq(msgs, 1, k)
<1>1. /\ Family(node) /\ N \in Nat /\ data \in Seq(1..N) /\ Rising(data) /\ tip \in 0..N
      /\ \A u \in 1..N : node[u].kind = "event" => node[u].says = {}
  <2>1. Family(node) /\ Len(node) \in Nat  BY FamilyShape DEF ChainShape
  <2> QED BY <2>1 DEF ChainShape, Family, Descends
<1>2. /\ msgs \in Seq(1..N) /\ Rising(msgs)
      /\ ToSet(msgs) = {u \in ToSet(data) : node[u].kind # "event"}
  BY <1>1, MessagesShape
<1> HIDE DEF msgs
<1>3. /\ Len(msgs) \in Nat /\ DOMAIN msgs = 1..Len(msgs) /\ k \in 1..Len(msgs)
      /\ \A i \in 1..Len(msgs) : msgs[i] \in 1..N
  BY <1>2, LenProperties, ElementOfSeq DEF msgs
<1>4. ToSet(s) = {msgs[i] : i \in 1..k}
  <2>1. k \in 0..Len(msgs)  BY <1>3
  <2> QED BY <1>2, <2>1, PrefixShape
<1>5. ToSet(msgs) = {msgs[i] : i \in 1..Len(msgs)}
  BY <1>3 DEF ToSet
<1>6. msgs[k] \in ToSet(msgs) /\ msgs[k] \in ToSet(data) /\ msgs[k] \in Path(node, tip)
  BY <1>2, <1>3, <1>5
<1>7. Path(node, msgs[k]) = {w \in Path(node, tip) : w <= msgs[k]}
  BY <1>1, <1>6, PathShape
<1>8. \A i \in 1..k : msgs[i] <= msgs[k] /\ msgs[i] \in ToSet(msgs)
  <2> SUFFICES ASSUME NEW i \in 1..k PROVE msgs[i] <= msgs[k] /\ msgs[i] \in ToSet(msgs)
    OBVIOUS
  <2>1. i \in 1..Len(msgs) /\ (i = k \/ i < k)  BY <1>3
  <2>2. i < k => msgs[i] < msgs[k]  BY <1>2, <1>3, <2>1 DEF Rising
  <2>3. msgs[i] \in Nat /\ msgs[k] \in Nat  BY <1>3, <2>1
  <2> QED BY <1>5, <2>1, <2>2, <2>3
<1>9. ToSet(s) \subseteq Path(node, msgs[k])
  BY <1>2, <1>4, <1>7, <1>8
<1>10. Facts(s) \subseteq Said(node, msgs[k])
  BY <1>9, FactsAreOf DEF Said, FactsOf
<1>11. ASSUME ToSet(data) = Path(node, tip) PROVE Said(node, msgs[k]) \subseteq Facts(s)
  <2> SUFFICES ASSUME NEW w \in Path(node, msgs[k]), NEW x \in node[w].says
               PROVE  x \in Facts(s)
    BY DEF Said, FactsOf
  <2>1. w \in ToSet(data) /\ w <= msgs[k] /\ w \in 1..N
    <3>1. Path(node, tip) \subseteq 1..N  BY <1>1, PathShape
    <3> QED BY <1>7, <1>11, <3>1
  <2>2. w \in ToSet(msgs)
    BY <1>1, <1>2, <2>1
  <2>3. PICK i \in 1..Len(msgs) : w = msgs[i]
    BY <1>5, <2>2
  <2>4. i <= k
    <3> SUFFICES ASSUME k < i PROVE FALSE  BY <1>3
    <3>1. msgs[k] < msgs[i]  BY <1>2, <1>3 DEF Rising
    <3> QED BY <1>3, <2>1, <2>3, <3>1
  <2>5. i \in 1..k  BY <1>3, <2>4
  <2>6. w \in ToSet(s)  BY <1>4, <2>3, <2>5
  <2> QED BY <2>6, FactsAreOf DEF FactsOf
<1> QED BY <1>6, <1>10, <1>11 DEF msgs

Leaf(s) == IF s = <<>> THEN NoNode ELSE Last(s)

\* The whole window.
LEMMA WholeWindowSays ==
  ASSUME ChainShape, ToSet(data) \subseteq Path(node, tip)
  PROVE  /\ Facts(data) \subseteq Said(node, tip)
         /\ Facts(Messages(data)) = Facts(data)
         /\ ToSet(data) = Path(node, tip) =>
              /\ Facts(data) = Said(node, tip)
              /\ Said(node, Leaf(Messages(data))) = Said(node, tip)
              /\ Leaf(Messages(data)) \in ToSet(data) \cup {0}
<1> DEFINE msgs == Messages(data)
           N == Len(node)
<1>1. Facts(msgs) = Facts(data) /\ msgs \in Seq(1..N)
  BY MessagesShape DEF ChainShape
<1>2. Facts(data) \subseteq Said(node, tip)
  BY FactsAreOf DEF Said, FactsOf
<1>3. ASSUME ToSet(data) = Path(node, tip)
      PROVE  /\ Facts(data) = Said(node, tip)
             /\ Said(node, Leaf(msgs)) = Said(node, tip)
             /\ Leaf(msgs) \in ToSet(data) \cup {0}
  <2>1. Facts(data) = Said(node, tip)
    BY <1>3, FactsAreOf DEF Said
  <2>2. CASE msgs = <<>>
    <3>1. Facts(msgs) = {}  BY <2>2 DEF Facts, ToSet
    <3>2. Family(node)  BY DEF ChainShape
    <3>3. Said(node, 0) = {}  BY <3>2, PathShape
    <3> QED BY <1>1, <2>1, <2>2, <3>1, <3>3 DEF Leaf, NoNode
  <2>3. CASE msgs # <<>>
    <3>1. Len(msgs) \in Nat /\ Len(msgs) # 0 /\ Leaf(msgs) = msgs[Len(msgs)]
      BY <1>1, <2>3, LenProperties, EmptySeq DEF Leaf, Last
    <3>2. Len(msgs) \in 1..Len(msgs)  BY <3>1
    <3>3. SubSeq(msgs, 1, Len(msgs)) = msgs
      <4> HIDE DEF msgs
      <4>1. Len(msgs) \in 0..Len(msgs)  BY <3>1
      <4>2. /\ SubSeq(msgs, 1, Len(msgs)) \in Seq(1..N)
            /\ Len(SubSeq(msgs, 1, Len(msgs))) = Len(msgs)
            /\ \A i \in 1..Len(msgs) : SubSeq(msgs, 1, Len(msgs))[i] = msgs[i]
        BY <1>1, <4>1, PrefixShape
      <4> QED BY <1>1, <4>2, SeqEqual
    <3>4. /\ msgs[Len(msgs)] \in ToSet(data)
          /\ Facts(SubSeq(msgs, 1, Len(msgs))) = Said(node, msgs[Len(msgs)])
      BY <1>3, <3>2, WindowSays
    <3> QED BY <1>1, <2>1, <3>1, <3>3, <3>4
  <2> QED BY <2>1, <2>2, <2>3
<1> QED BY <1>1, <1>2, <1>3

LEMMA LinkedStacked ==
  ASSUME ChainShape, NEW b, Follows(b, node)
  PROVE  /\ Stacked(Linked(b), node) /\ Len(Linked(b)) = Len(b) /\ Len(b) \in Nat /\ Len(b) > 0
         /\ Linked(b)[1].parent = tip
         /\ \A k \in 1..Len(b) : SaidBy(Linked(b), k) = SaidBy(b, k)
<1> DEFINE l == Linked(b)
<1>1. /\ Follows(l, node) /\ Len(l) = Len(b) /\ Len(b) \in Nat
      /\ \A i \in 1..Len(b) : l[i].parent = IF i = 1 THEN tip ELSE Len(node) + i - 1
      /\ \A i \in 1..Len(b) : l[i].says = b[i].says
  <2>1. Follows(l, node) /\ Len(l) = Len(b) /\ Len(b) \in Nat
    BY LinkedFollows
  <2>2. ASSUME NEW i \in 1..Len(b)
        PROVE  /\ l[i].parent = IF i = 1 THEN tip ELSE Len(node) + i - 1
               /\ l[i].says = b[i].says
    <3>1. IsLink(Linked(b)[i], b[i], i)  BY LinkedFollows
    <3> QED BY <3>1 DEF IsLink
  <2> HIDE DEF l
  <2> QED BY <2>1, <2>2
<1> HIDE DEF l
<1>2. Len(b) > 0  BY DEF Follows
<1>3. \A i \in 2..Len(b) : i \in 1..Len(b) /\ i # 1
  BY <1>1
<1>4. Stacked(l, node)
  BY <1>1, <1>3 DEF Stacked
<1>5. 1 \in 1..Len(b)  BY <1>1, <1>2
<1>6. ASSUME NEW k \in 1..Len(b) PROVE SaidBy(l, k) = SaidBy(b, k)
  <2>1. \A i \in 1..k : l[i].says = b[i].says
    BY <1>1
  <2> QED BY <2>1 DEF SaidBy
<1> QED BY <1>1, <1>2, <1>4, <1>5, <1>6 DEF l

\* A batch hung below the tip says what the chain said, and what it adds.
LEMMA LinkedSays ==
  ASSUME ChainShape, NEW b, Follows(b, node), NEW m, Grew(m, node, Linked(b))
  PROVE  \A k \in 1..Len(b) :
           /\ Path(m, Len(node) + k) = Path(node, tip) \cup Span(node, k)
           /\ Said(m, Len(node) + k) = Said(node, tip) \cup SaidBy(b, k)
<1>1. PICK l : l = Linked(b)
  OBVIOUS
<1>2. Len(l) = Len(b) /\ l[1].parent = tip
  BY <1>1, LinkedStacked
<1>2a. Stacked(l, node)
  BY <1>1, LinkedStacked
<1>3. \A k \in 1..Len(b) : SaidBy(l, k) = SaidBy(b, k)
  BY <1>1, LinkedStacked
<1>4. Grew(m, node, l)
  BY <1>1
<1>5. \A k \in 1..Len(l) :
        /\ Path(m, Len(node) + k) = Path(node, l[1].parent) \cup Span(node, k)
        /\ Said(m, Len(node) + k) = Said(node, l[1].parent) \cup SaidBy(l, k)
  BY <1>2a, <1>4, StackGrows
<1> QED BY <1>2, <1>3, <1>5

\* What the copies behind a summary say.
TailSays(tail, k) == UNION {node[tail[i]].says : i \in 1..k}

\* An applied compaction says what its summary and the messages behind it say.
LEMMA CompactSays ==
  ASSUME ChainShape, NEW b, NEW msgs, NEW end, NEW tail,
         CompactForm(b, msgs, end, tail), NEW m, Grew(m, node, b)
  PROVE  /\ Stacked(b, node) /\ Len(b) \in Nat
         /\ \A k \in 1..Len(b) :
              Said(m, Len(node) + k) = pending.says \cup TailSays(tail, k - 1)
<1>1. /\ Len(tail) \in Nat /\ Len(b) = Len(tail) + 1 /\ Len(node) \in Nat
      /\ b[1].parent = 0 /\ b[1].says = pending.says
      /\ \A i \in 1..Len(tail) : /\ b[i + 1].parent = Len(node) + i
                                 /\ b[i + 1].says = node[tail[i]].says
  BY LenProperties, FamilyShape DEF CompactForm, ChainShape, NoNode
<1>2. Stacked(b, node)
  <2> SUFFICES ASSUME NEW i \in 2..Len(b) PROVE b[i].parent = Len(node) + i - 1
    BY DEF Stacked
  <2> DEFINE j == i - 1
  <2>1. j \in 1..Len(tail) /\ i = j + 1 /\ Len(node) + i - 1 = Len(node) + j  BY <1>1
  <2> HIDE DEF j
  <2> QED BY <1>1, <2>1
<1>4. \A k \in 1..Len(b) : Said(m, Len(node) + k) = Said(node, b[1].parent) \cup SaidBy(b, k)
  BY <1>2, StackGrows
<1>5. Said(node, 0) = {}
  BY PathShape DEF ChainShape
<1>6. ASSUME NEW k \in 1..Len(b)
      PROVE  SaidBy(b, k) = pending.says \cup TailSays(tail, k - 1)
  <2>1. SaidBy(b, k) = b[1].says \cup UNION {b[i + 1].says : i \in 1..(k - 1)}
    <3> SUFFICES \A x : (\E i \in 1..k : x \in b[i].says) <=>
                        (x \in b[1].says \/ \E i \in 1..(k - 1) : x \in b[i + 1].says)
      BY DEF SaidBy
    <3>1. \A i \in 1..k : i = 1 \/ (i - 1 \in 1..(k - 1) /\ (i - 1) + 1 = i)  BY <1>1
    <3>2. \A i \in 1..(k - 1) : i + 1 \in 1..k  BY <1>1
    <3>3. 1 \in 1..k  BY <1>1
    <3> QED BY <3>1, <3>2, <3>3
  <2>2. \A i \in 1..(k - 1) : b[i + 1].says = node[tail[i]].says
    BY <1>1
  <2>3. UNION {b[i + 1].says : i \in 1..(k - 1)} = TailSays(tail, k - 1)
    BY <2>2 DEF TailSays
  <2> QED BY <1>1, <2>1, <2>3
<1>7. ASSUME NEW k \in 1..Len(b)
      PROVE  Said(m, Len(node) + k) = pending.says \cup TailSays(tail, k - 1)
  <2>1. Said(m, Len(node) + k) = Said(node, b[1].parent) \cup SaidBy(b, k)
    BY <1>4
  <2>2. Said(node, b[1].parent) = {}
    BY <1>1, <1>5
  <2>3. SaidBy(b, k) = pending.says \cup TailSays(tail, k - 1)
    BY <1>6
  <2> QED BY <2>1, <2>2, <2>3
<1>8. Len(b) \in Nat  BY <1>1
<1> QED BY <1>2, <1>7, <1>8

LEMMA FrontAppend ==
  ASSUME NEW T, NEW t \in Seq(T), NEW x \in T
  PROVE  Front(Append(t, x)) = t
<1> DEFINE s == Append(t, x)
<1>1. s \in Seq(T) /\ s # <<>> /\ Len(s) = Len(t) + 1 /\ \A i \in 1..Len(t) : s[i] = t[i]
  BY AppendProperties
<1> HIDE DEF s
<1>2. Len(t) \in Nat /\ Len(s) - 1 = Len(t)  BY <1>1, LenProperties
<1>3. Front(s) \in Seq(T) /\ Len(Front(s)) = Len(t) /\ \A i \in 1..Len(t) : Front(s)[i] = t[i]
  BY <1>1, <1>2, FrontShape
<1>4. Front(s) = t  BY <1>3, SeqEqual
<1> QED BY <1>4 DEF s

\* What is above a target, in the map of all nodes.
LEMMA AboveShape ==
  ASSUME ChainShape, NEW target \in 1..Len(node)
  PROVE  /\ ToSet(Above(target)) = Path(node, node[target].parent)
         /\ Facts(Above(target)) = Said(node, node[target].parent)
         /\ node[target].parent \in 0..Len(node)
<1> DEFINE all == 1..Len(node)
           p == node[target].parent
           t == TraceChain(node, all, p)
<1>1. /\ Len(node) \in Nat /\ DOMAIN node = all /\ Tree(node, all)
      /\ target \in all /\ target \in 0..Len(node)
  BY FamilyShape DEF ChainShape
<1>2. p \in 0..Len(node)
  BY <1>1 DEF Tree
<1> HIDE DEF all, p
<1>3. TraceChain(node, all, target) = Append(t, target)
  BY <1>1, TraceUnfold DEF p
<1>4. t \in Seq(all)
  BY <1>1, <1>2, TraceShape
<1> HIDE DEF t
<1>5. Above(target) = t
  BY <1>1, <1>3, <1>4, FrontAppend DEF Above
<1>6. ToSet(Above(target)) = Path(node, p)
  BY <1>5 DEF Path, On, t, all
<1>7. Facts(Above(target)) = Said(node, p)
  BY <1>6, FactsAreOf DEF Said
<1> QED BY <1>2, <1>6, <1>7 DEF p

\* What a background compaction is told to summarise.
LEMMA BackgroundSays ==
  ASSUME ChainShape, ToSet(data) \subseteq Path(node, tip),
         Background(Messages(data)) # None
  PROVE  LET p == Background(Messages(data)) IN
         /\ p.end \in ToSet(data) /\ p.end \in Path(node, tip)
         /\ p.says \subseteq Said(node, p.end)
         /\ ToSet(data) = Path(node, tip) => p.says = Said(node, p.end)
<1>1. Messages(data) \in Seq(1..Len(node))
  BY MessagesShape DEF ChainShape
<1>2. PICK cut \in 1..Len(Messages(data)) :
        Background(Messages(data)) =
          [start |-> Messages(data)[1], end |-> Messages(data)[cut],
           says |-> Facts(SubSeq(Messages(data), 1, cut))]
  BY <1>1, BackgroundShape
<1>3. /\ Background(Messages(data)).end = Messages(data)[cut]
      /\ Background(Messages(data)).says = Facts(SubSeq(Messages(data), 1, cut))
  BY <1>2
<1>4. /\ Messages(data)[cut] \in ToSet(data)
      /\ Messages(data)[cut] \in Path(node, tip)
      /\ Facts(SubSeq(Messages(data), 1, cut)) \subseteq Said(node, Messages(data)[cut])
      /\ ToSet(data) = Path(node, tip) =>
           Facts(SubSeq(Messages(data), 1, cut)) = Said(node, Messages(data)[cut])
  BY WindowSays
<1> QED BY <1>3, <1>4

\* A write leaves the old paths alone.
LEMMA OldSays ==
  ASSUME NEW b, NEW m, Grew(m, node, b)
  PROVE  /\ \A u \in 0..Len(node) : Path(m, u) = Path(node, u) /\ Said(m, u) = Said(node, u)
         /\ Len(m) = Len(node) + Len(b) /\ Len(node) \in Nat /\ Len(b) \in Nat
BY PathsGrow

\* A write of several nodes as a new chain.
LEMMA RootSays ==
  ASSUME ChainShape, NEW b, Rerooted(b)
  PROVE  /\ ToSet(data') \subseteq Path(node', tip')
         /\ tip' = Len(node) + Len(b) /\ Leaf(disk') = tip' /\ Leaf(lines') = tip'
         /\ Grew(node', node, b)
         /\ tip' \in ToSet(lines')
         /\ ToSet(lines') = ToSet(lines) \cup ((Len(node) + 1)..(Len(node) + Len(b)))
         /\ ToSet(disk') = ToSet(disk) \cup ((Len(node) + 1)..(Len(node) + Len(b)))
<1>1. /\ Follows(b, node) /\ node' = node \o b /\ Written(b, Len(b), Len(b))
      /\ tip' = Len(node) + Len(b) /\ data' = TraceChain(node', ToSet(lines'), tip')
  BY DEF Rerooted, Written
<1>2. /\ Family(node') /\ Len(node') = Len(node) + Len(b) /\ Len(node) \in Nat /\ Len(b) \in Nat
      /\ lines' \in Seq(1..Len(node'))
      /\ ToSet(lines') = ToSet(lines) \cup ((Len(node) + 1)..(Len(node) + Len(b)))
      /\ ToSet(disk') = ToSet(disk) \cup ((Len(node) + 1)..(Len(node) + Len(b)))
      /\ Len(b) > 0 => disk' # <<>> /\ Last(disk') = Len(node) + Len(b)
  BY <1>1, WrittenShape
<1>3. Len(b) > 0  BY <1>1 DEF Follows
<1>4. Leaf(disk') = tip'  BY <1>1, <1>2, <1>3 DEF Leaf
<1>5. ToSet(lines') \subseteq 1..Len(node')  BY <1>2, RangeInSeq
<1>6. tip' \in 0..Len(node')  BY <1>1, <1>2
<1>7. ToSet(data') \subseteq Path(node', tip')
  BY <1>1, <1>2, <1>5, <1>6, OnIsAPath DEF On
<1>8. tip' \in ToSet(lines')  BY <1>1, <1>2, <1>3
<1>9. Leaf(lines') = tip'
  <2>1. lines' = lines \o Run(Len(node), Len(b))  BY <1>1 DEF Written
  <2>2. Len(b) > 0 => /\ Last(lines \o Run(Len(node), Len(b))) = Len(node) + Len(b)
                      /\ lines \o Run(Len(node), Len(b)) # <<>>
    BY <1>2, RisingConcat DEF ChainShape
  <2> QED BY <1>1, <1>3, <2>1, <2>2 DEF Leaf
<1>10. Grew(node', node, b)
  BY <1>1 DEF Grew, ChainShape
<1> QED BY <1>1, <1>2, <1>4, <1>7, <1>8, <1>9, <1>10

\* The new chain of an applied compaction.
LEMMA SwapSays ==
  ASSUME ChainShape, pending \in RangesUpTo(Len(node)), SnapshotValid(Messages(data)),
         ToSet(data) \subseteq Path(node, tip),
         pending.says \subseteq Said(node, pending.end),
         NEW m, Grew(m, node, CompactBatch(Messages(data)))
  PROVE  LET b == CompactBatch(Messages(data)) IN
         /\ Follows(b, node) /\ Stacked(b, node)
         /\ \A k \in 1..Len(b) : Said(m, Len(node) + k) \subseteq Said(node, tip)
         /\ (ToSet(data) = Path(node, tip) /\ pending.says = Said(node, pending.end)) =>
              Said(m, Len(node) + Len(b)) = Said(node, tip)
<1> DEFINE b == CompactBatch(Messages(data))
           msgs == Messages(data)
<1>1. msgs \in Seq(1..Len(node)) /\ ToSet(msgs) \subseteq ToSet(data)
  BY MessagesShape DEF ChainShape
<1>2. Follows(b, node) /\ \E end, tail : CompactForm(b, msgs, end, tail)
  BY <1>1, CompactFollows
<1>3. PICK end, tail : CompactForm(b, msgs, end, tail)
  BY <1>2
<1>4. Facts(msgs) = Facts(data) /\ Facts(data) \subseteq Said(node, tip)
  BY WholeWindowSays
<1>5. end \in 1..Len(msgs)
  BY <1>3 DEF CompactForm
<1>6. /\ msgs[end] \in Path(node, tip)
      /\ ToSet(data) = Path(node, tip) =>
           Facts(SubSeq(msgs, 1, end)) = Said(node, msgs[end])
  BY <1>5, WindowSays
<1>7. Said(node, pending.end) \subseteq Said(node, tip) /\ pending.end = msgs[end]
  <2>1. pending.end = msgs[end]  BY <1>3 DEF CompactForm
  <2>2. Family(node) /\ tip \in 0..Len(node)  BY DEF ChainShape
  <2> QED BY <1>6, <2>1, <2>2, PathShape
<1> HIDE DEF b, msgs
<1>8. Grew(m, node, b)  BY DEF b
<1>9. /\ Stacked(b, node) /\ Len(b) \in Nat
      /\ \A k \in 1..Len(b) :
           Said(m, Len(node) + k) = pending.says \cup TailSays(tail, k - 1)
  BY <1>3, <1>8, CompactSays
<1>10. /\ Len(msgs) \in Nat /\ DOMAIN msgs = 1..Len(msgs) /\ Len(tail) = Len(msgs) - end
       /\ \A i \in 1..Len(tail) : tail[i] = msgs[end + i]
       /\ Len(b) = Len(tail) + 1 /\ Len(tail) \in Nat
  BY <1>1, <1>3, LenProperties DEF CompactForm
<1>10a. Len(tail) \in Nat /\ Len(b) = Len(tail) + 1
  BY <1>10
<1>11. Facts(msgs) = UNION {node[msgs[i]].says : i \in 1..Len(msgs)}
  BY <1>10 DEF Facts, ToSet
<1>12. ASSUME NEW k \in 1..Len(b) PROVE Said(m, Len(node) + k) \subseteq Said(node, tip)
  <2>1. Said(m, Len(node) + k) = pending.says \cup TailSays(tail, k - 1)
    BY <1>9
  <2>2. \A i \in 1..(k - 1) : i \in 1..Len(tail) /\ end + i \in 1..Len(msgs)
    BY <1>5, <1>10
  <2>3. TailSays(tail, k - 1) \subseteq Facts(msgs)
    BY <1>10, <1>11, <2>2 DEF TailSays
  <2> QED BY <1>4, <1>7, <2>1, <2>3
<1>13. ASSUME ToSet(data) = Path(node, tip), pending.says = Said(node, pending.end)
       PROVE  Said(m, Len(node) + Len(b)) = Said(node, tip)
  <2>1. Len(b) \in 1..Len(b) /\ Len(b) - 1 = Len(tail)
    <3> DEFINE l == Len(tail)
    <3>1. l \in Nat /\ Len(b) = l + 1  BY <1>10a
    <3> HIDE DEF l
    <3>2. l + 1 \in 1..(l + 1) /\ (l + 1) - 1 = l  BY <3>1
    <3> QED BY <3>1, <3>2 DEF l
  <2>2. Said(m, Len(node) + Len(b)) = pending.says \cup TailSays(tail, Len(tail))
    BY <1>9, <2>1
  <2>3. Facts(msgs) = Said(node, tip)
    BY <1>4, <1>13, WholeWindowSays
  <2>4. pending.says = UNION {node[msgs[i]].says : i \in 1..end}
    <3>1. end \in 0..Len(msgs)  BY <1>5, <1>10
    <3>2. ToSet(SubSeq(msgs, 1, end)) = {msgs[i] : i \in 1..end}
      BY <1>1, <3>1, PrefixShape
    <3>3. Facts(SubSeq(msgs, 1, end)) = UNION {node[msgs[i]].says : i \in 1..end}
      BY <3>2 DEF Facts
    <3> QED BY <1>6, <1>7, <1>13, <3>3
  <2>5. Said(node, tip) \subseteq pending.says \cup TailSays(tail, Len(tail))
    <3> SUFFICES ASSUME NEW i \in 1..Len(msgs), NEW x \in node[msgs[i]].says
                 PROVE  x \in pending.says \cup TailSays(tail, Len(tail))
      BY <1>11, <2>3
    <3>1. CASE i <= end
      <4>1. i \in 1..end  BY <1>5, <1>10, <3>1
      <4> QED BY <2>4, <4>1
    <3>2. CASE ~(i <= end)
      <4> DEFINE j == i - end
      <4>1. j \in 1..Len(tail) /\ end + j = i  BY <1>5, <1>10, <3>2
      <4> HIDE DEF j
      <4>2. tail[j] = msgs[i]  BY <1>10, <4>1
      <4> QED BY <4>1, <4>2 DEF TailSays
    <3> QED BY <3>1, <3>2
  <2>6. Len(b) \in 1..Len(b)  BY <2>1
  <2> QED BY <1>12, <2>2, <2>5, <2>6
<1> QED BY <1>2, <1>9, <1>12, <1>13 DEF b

\* The new chain of a rewind stands for what was above the target.
LEMMA RewindSays ==
  ASSUME ChainShape, NEW target \in ToSet(lines),
         NEW m, Grew(m, node, <<RewindRow(target)>>)
  PROVE  LET b == <<RewindRow(target)>> IN
         /\ Follows(b, node) /\ Stacked(b, node) /\ Len(b) = 1
         /\ Said(m, Len(node) + 1) \subseteq Said(node, node[target].parent)
         /\ ToSet(Before(target)) = Path(node, node[target].parent) =>
              Said(m, Len(node) + 1) = Said(node, node[target].parent)
<1> DEFINE b == <<RewindRow(target)>>
           r == node[target].parent
           p == RewindParent(target)
<1>1. /\ Family(node) /\ Len(node) \in Nat /\ target \in 1..Len(node)
      /\ ToSet(lines) \subseteq 1..Len(node)
      /\ \A u \in 1..Len(node) : node[u].kind = "event" => node[u].says = {}
  <2>1. Family(node) /\ Len(node) \in Nat /\ ToSet(lines) \subseteq 1..Len(node)
    BY FamilyShape, RangeInSeq DEF ChainShape
  <2> QED BY <2>1 DEF Family, Descends
<1>2. r \in 0..Len(node)
  BY <1>1, PathShape
<1>3. /\ Follows(b, node) /\ Len(b) = 1
      /\ p = NoNode => b[1].parent = NoNode /\ b[1].says = {}
      /\ p # NoNode => b[1].parent = node[p].parent /\ b[1].says = node[p].says
  BY RowFollows
<1>4. /\ Before(target) = TraceChain(node, ToSet(lines), r)
      /\ p # NoNode => /\ p \in ToSet(Before(target)) /\ p \in 1..Len(node)
                       /\ \A u \in ToSet(Before(target)) : u > p => node[u].kind = "event"
      /\ p = NoNode => \A u \in ToSet(Before(target)) : node[u].kind = "event"
  BY RewindParentShape
<1> HIDE DEF b, p
<1>5. Stacked(b, node)
  BY <1>3 DEF Stacked
<1>7. Grew(m, node, b)
  BY DEF b
<1>8. 1 \in 1..Len(b) /\ SaidBy(b, 1) = b[1].says
  BY <1>3 DEF SaidBy
<1>9. Said(m, Len(node) + 1) = Said(node, b[1].parent) \cup b[1].says
  BY <1>5, <1>7, <1>8, StackGrows
<1>10. ToSet(Before(target)) \subseteq Path(node, r)
  BY <1>1, <1>2, <1>4, OnIsAPath DEF On
<1>11. CASE p = NoNode
  <2>1. Said(m, Len(node) + 1) = {}
    BY <1>1, <1>3, <1>9, <1>11, PathShape DEF NoNode
  <2>2. ASSUME ToSet(Before(target)) = Path(node, r) PROVE Said(node, r) = {}
    <3>1. \A u \in Path(node, r) : u \in 1..Len(node) /\ node[u].kind = "event"
      BY <1>1, <1>2, <1>4, <1>11, <2>2, PathShape
    <3> QED BY <1>1, <3>1 DEF Said, FactsOf
  <2> QED BY <1>3, <1>5, <2>1, <2>2 DEF b
<1>12. CASE p # NoNode
  <2>1. p \in 1..Len(node) /\ p \in Path(node, r)
    BY <1>4, <1>10, <1>12
  <2>2. Said(m, Len(node) + 1) = Said(node, p)
    <3>1. Said(node, p) = Said(node, node[p].parent) \cup node[p].says
      BY <1>1, <2>1, PathShape
    <3> QED BY <1>3, <1>9, <1>12, <3>1
  <2>3. Said(node, p) \subseteq Said(node, r) /\ Path(node, p) = {w \in Path(node, r) : w <= p}
    BY <1>1, <1>2, <2>1, PathShape
  <2>4. ASSUME ToSet(Before(target)) = Path(node, r) PROVE Said(node, r) \subseteq Said(node, p)
    <3> SUFFICES ASSUME NEW w \in Path(node, r), NEW x \in node[w].says
                 PROVE  x \in Said(node, p)
      BY DEF Said, FactsOf
    <3>1. w \in 1..Len(node) /\ w \in ToSet(Before(target))
      BY <1>1, <1>2, <2>4, PathShape
    <3>2. node[w].kind # "event"  BY <1>1, <3>1
    <3>3. ~(w > p)  BY <1>4, <1>12, <3>1, <3>2
    <3>4. w <= p  BY <1>1, <2>1, <3>1, <3>3
    <3>5. w \in Path(node, p)  BY <2>3, <3>4
    <3> QED BY <3>5 DEF Said, FactsOf
  <2> QED BY <1>3, <1>5, <2>2, <2>3, <2>4 DEF b
<1> QED BY <1>11, <1>12

-----------------------------------------------------------------------------
(* Nothing that was rewound past comes back.                                *)

Prepared == {aux, pending, task} \ {None}

\* The chain stands for no more than what is due, and so does the chain the log
\* leads back to; and a prepared summary for no more than the nodes it replaces.
Unrevived ==
  /\ ToSet(data) \subseteq Path(node, tip)
  /\ Said(node, tip) \subseteq due
  /\ Said(node, Leaf(disk)) \subseteq due
  /\ \A p \in Prepared : p.says \subseteq Said(node, p.end)

RevivedInv == mishaps \cap {"overtaken", "lost_root"} = {} => Unrevived

\* What a move starts from.
LEMMA Before1 ==
  ASSUME ShapeInv
  PROVE  /\ ChainShape /\ Family(node) /\ Len(node) \in Nat /\ tip \in 0..Len(node)
         /\ Leaf(disk) \in 0..Len(node) /\ Leaf(lines) \in 0..Len(node)
         /\ \A p \in Prepared : p \in RangesUpTo(Len(node)) /\ p.end \in 1..Len(node)
                                /\ p.end \in 0..Len(node)
         /\ ToSet(data) \subseteq 1..Len(node) /\ ToSet(lines) \subseteq 1..Len(node)
         /\ ToSet(disk) \subseteq 1..Len(node)
         /\ (disk # <<>> => Leaf(disk) \in ToSet(disk))
         /\ manual \in [msgs : Seq(1..Len(node))] \cup {None}
<1>1. ChainShape /\ Family(node) /\ Len(node) \in Nat /\ tip \in 0..Len(node)
  BY FamilyShape DEF ShapeInv, ChainShape
<1>2. /\ ToSet(data) \subseteq 1..Len(node) /\ ToSet(lines) \subseteq 1..Len(node)
      /\ ToSet(disk) \subseteq 1..Len(node)
  BY <1>1, RangeInSeq DEF ChainShape
<1>3. \A s \in Seq(1..Len(node)) : Rising(s) =>
         Leaf(s) \in 0..Len(node) /\ (s # <<>> => Leaf(s) \in ToSet(s))
  <2> SUFFICES ASSUME NEW s \in Seq(1..Len(node)), Rising(s)
               PROVE  Leaf(s) \in 0..Len(node) /\ (s # <<>> => Leaf(s) \in ToSet(s))
    OBVIOUS
  <2>1. CASE s = <<>>  BY <1>1, <2>1 DEF Leaf, NoNode
  <2>2. CASE s # <<>>
    <3>1. Last(s) \in ToSet(s) /\ Last(s) \in 1..Len(node)
      BY <1>1, <2>2, RisingLast
    <3> QED BY <1>1, <2>2, <3>1 DEF Leaf
  <2> QED BY <2>1, <2>2
<1>4. \A p \in Prepared : p \in RangesUpTo(Len(node))
  BY DEF ShapeInv, RestShape, Prepared
<1>5. \A p \in Prepared : p.end \in 1..Len(node) /\ p.end \in 0..Len(node)
  BY <1>4 DEF RangesUpTo
<1>6. manual \in [msgs : Seq(1..Len(node))] \cup {None}
  BY DEF ShapeInv, RestShape
<1>7. /\ Leaf(disk) \in 0..Len(node) /\ Leaf(lines) \in 0..Len(node)
      /\ (disk # <<>> => Leaf(disk) \in ToSet(disk))
  BY <1>1, <1>3 DEF ChainShape
<1> QED BY <1>1, <1>2, <1>4, <1>5, <1>6, <1>7

\* What is prepared, and what a write leaves of it.
LEMMA PreparedKept ==
  ASSUME ShapeInv, NEW b, Grew(node', node, b)
  PROVE  \A p \in Prepared : Said(node', p.end) = Said(node, p.end)
BY Before1, OldSays

LEMMA UnrevivedInit == Init => RevivedInv
<1> SUFFICES ASSUME Init PROVE RevivedInv
  OBVIOUS
<1>1. ShapeInv  BY InitShape
<1>2. ToSet(data) = {} /\ tip = 0 /\ Leaf(disk) = 0 /\ Prepared = {}
  BY DEF Init, ToSet, Leaf, NoNode, Prepared
<1>3. Said(node, 0) = {}  BY <1>1, Before1, PathShape
<1> QED BY <1>2, <1>3 DEF RevivedInv, Unrevived

LEMMA UnrevivedQuiet ==
  ASSUME ShapeInv, Unrevived, Quiet
  PROVE  Unrevived'
<1>1. node' = node /\ data' = data /\ tip' = tip /\ disk' = disk /\ due' = due
  BY DEF Quiet, chainVars
<1>2. Prepared' \subseteq Prepared \cup ({Background(Messages(data))} \ {None})
  BY DEF Quiet, Prepared
<1>3. \A p \in Prepared' : p.says \subseteq Said(node, p.end)
  <2> SUFFICES ASSUME NEW p \in Prepared' PROVE p.says \subseteq Said(node, p.end)
    OBVIOUS
  <2>1. CASE p \in Prepared  BY <2>1 DEF Unrevived
  <2>2. CASE p = Background(Messages(data)) /\ p # None
    BY <2>2, Before1, BackgroundSays DEF Unrevived
  <2> QED BY <1>2, <2>1, <2>2
<1>4. \A p \in Prepared' : p.says \subseteq Said(node', p.end)
  BY <1>1, <1>3
<1> QED BY <1>1, <1>4 DEF Unrevived

\* What a write of a new chain owes to the other parts.
LEMMA UnrevivedRoot ==
  ASSUME ShapeInv, Unrevived, NEW b, Rerooted(b), Prepared' \subseteq Prepared,
         Said(node', Len(node) + Len(b)) \subseteq due'
  PROVE  Unrevived'
<1>1. /\ ToSet(data') \subseteq Path(node', tip')
      /\ tip' = Len(node) + Len(b) /\ Leaf(disk') = tip' /\ Grew(node', node, b)
  BY Before1, RootSays
<1>2. \A p \in Prepared' : p.says \subseteq Said(node', p.end)
  BY <1>1, PreparedKept DEF Unrevived
<1>3. Said(node', tip') \subseteq due' /\ Said(node', Leaf(disk')) \subseteq due'
  BY <1>1
<1> QED BY <1>1, <1>2, <1>3 DEF Unrevived

LEMMA UnrevivedAdds ==
  ASSUME ShapeInv, Unrevived, NEW b, NEW i, NEW j, Adds(b, i, j)
  PROVE  Unrevived'
<1>1. Follows(b, node) /\ Grown(b, i, j) /\ due' = due \cup UNION {b[k].says : k \in 1..Len(b)}
  BY Before1, Said1Shape DEF Adds
<1>2. /\ Written(Linked(b), i, j) /\ data' = data \o Run(Len(node), Len(b))
      /\ tip' = Len(node) + Len(b)
  BY <1>1 DEF Grown
<1>3. /\ Grew(node', node, Linked(b)) /\ Len(Linked(b)) = Len(b)
      /\ Len(b) \in Nat /\ Len(b) > 0 /\ i \in 0..Len(b) /\ j \in 0..Len(b)
  BY <1>1, <1>2, Before1, LinkedStacked DEF Written, Grew
<1>4. Len(b) \in 1..Len(b)  BY <1>3
<1>5. \A k \in 1..Len(b) :
        /\ Path(node', Len(node) + k) = Path(node, tip) \cup Span(node, k)
        /\ Said(node', Len(node) + k) = Said(node, tip) \cup SaidBy(b, k)
  BY <1>1, <1>3, Before1, LinkedSays
<1>6. ToSet(data') = ToSet(data) \cup Span(node, Len(b))
  BY <1>2, <1>3, Before1, DataGrows DEF Span
<1>7. ToSet(data') \subseteq Path(node', tip')
  BY <1>2, <1>4, <1>5, <1>6 DEF Unrevived
<1>8. \A k \in 1..Len(b) : SaidBy(b, k) \subseteq due'
  <2> SUFFICES ASSUME NEW k \in 1..Len(b) PROVE SaidBy(b, k) \subseteq due'
    OBVIOUS
  <2>1. 1..k \subseteq 1..Len(b)  BY <1>3
  <2> QED BY <1>1, <2>1 DEF SaidBy
<1>9. \A k \in 1..Len(b) : Said(node', Len(node) + k) \subseteq due'
  BY <1>1, <1>5, <1>8 DEF Unrevived
<1>10. Said(node', tip') \subseteq due'
  BY <1>2, <1>4, <1>9
<1>11. Said(node', Leaf(disk')) \subseteq due'
  <2>1. CASE j = 0
    <3>1. disk' = disk  BY <1>2, <2>1, Before1, WrittenShape
    <3>2. Said(node', Leaf(disk)) = Said(node, Leaf(disk))  BY <1>3, Before1, OldSays
    <3> QED BY <1>1, <3>1, <3>2 DEF Unrevived
  <2>2. CASE j # 0
    <3>1. j > 0 /\ j \in 1..Len(b)  BY <1>3, <2>2
    <3>2. Leaf(disk') = Len(node) + j  BY <1>2, <3>1, Before1, WrittenShape DEF Leaf
    <3> QED BY <1>9, <3>1, <3>2
  <2> QED BY <2>1, <2>2
<1>12. Prepared' = Prepared
  BY DEF Adds, compactVars, Prepared
<1>13. \A p \in Prepared' : p.says \subseteq Said(node', p.end)
  BY <1>3, <1>12, PreparedKept DEF Unrevived
<1> QED BY <1>7, <1>10, <1>11, <1>13 DEF Unrevived

LEMMA UnrevivedSwaps ==
  ASSUME ShapeInv, Unrevived, Swaps
  PROVE  Unrevived'
<1> DEFINE b == CompactBatch(Messages(data))
<1>1. /\ Rerooted(b) /\ SnapshotValid(Messages(data)) /\ pending \in Prepared
      /\ Prepared' \subseteq Prepared /\ due' = due
  BY DEF Swaps, Prepared
<1>2. Grew(node', node, b)  BY <1>1, Before1, RootSays
<1>3. pending \in RangesUpTo(Len(node)) /\ pending.says \subseteq Said(node, pending.end)
  BY <1>1, Before1 DEF Unrevived
<1>4. /\ Follows(b, node)
      /\ \A k \in 1..Len(b) : Said(node', Len(node) + k) \subseteq Said(node, tip)
  BY <1>1, <1>2, <1>3, Before1, SwapSays DEF Unrevived
<1>5. Len(b) \in 1..Len(b)  BY <1>4, Before1, IdsAreRun
<1> HIDE DEF b
<1>6. Said(node', Len(node) + Len(b)) \subseteq due'
  BY <1>1, <1>4, <1>5 DEF Unrevived
<1> QED BY <1>1, <1>6, UnrevivedRoot

LEMMA UnrevivedCompacts ==
  ASSUME ShapeInv, Unrevived, Compacts, "overtaken" \notin mishaps'
  PROVE  Unrevived'
<1> DEFINE b == ManualBatch
<1>1. Rerooted(b) /\ manual # None /\ Prepared' = Prepared /\ due' = due
  BY DEF Compacts, Prepared, compactVars
<1>2. Messages(data) = manual.msgs
  BY DEF Compacts, Overtaken
<1>3. /\ Follows(b, node) /\ Len(b) = 1 /\ b[1].parent = NoNode
      /\ b[1].says = Facts(manual.msgs)
  BY <1>1, Before1, ManualFollows
<1>4. Grew(node', node, b)  BY <1>1, Before1, RootSays
<1> HIDE DEF b
<1>5. Stacked(b, node) /\ 1 \in 1..Len(b) /\ SaidBy(b, 1) = b[1].says
  BY <1>3 DEF Stacked, SaidBy
<1>6. Said(node', Len(node) + 1) = Said(node, b[1].parent) \cup SaidBy(b, 1)
  BY <1>4, <1>5, StackGrows
<1>7. Said(node, b[1].parent) = {}
  BY <1>3, Before1, PathShape DEF NoNode
<1>8. Facts(manual.msgs) \subseteq Said(node, tip)
  BY <1>2, Before1, WholeWindowSays DEF Unrevived
<1>9. Said(node', Len(node) + Len(b)) \subseteq due'
  BY <1>1, <1>3, <1>5, <1>6, <1>7, <1>8 DEF Unrevived
<1> QED BY <1>1, <1>9, UnrevivedRoot

LEMMA UnrevivedRewinds ==
  ASSUME ShapeInv, Unrevived, NEW target, Rewinds(target)
  PROVE  Unrevived'
<1> DEFINE b == <<RewindRow(target)>>
<1>1. Rerooted(b) /\ Prepared' = Prepared /\ due' = Facts(Above(target)) /\ target \in BranchTargets
  BY DEF Rewinds, Prepared, compactVars
<1>2. Grew(node', node, b)  BY <1>1, Before1, RootSays
<1>3. target \in ToSet(lines) /\ target \in 1..Len(node)
  BY <1>1, Before1, TargetsShape
<1>4. Len(b) = 1 /\ Said(node', Len(node) + 1) \subseteq Said(node, node[target].parent)
  BY <1>2, <1>3, Before1, RewindSays
<1>5. Facts(Above(target)) = Said(node, node[target].parent)
  BY <1>3, Before1, AboveShape
<1> HIDE DEF b
<1>6. Said(node', Len(node) + Len(b)) \subseteq due'
  BY <1>1, <1>4, <1>5
<1> QED BY <1>1, <1>6, UnrevivedRoot

LEMMA UnrevivedEnds ==
  ASSUME ShapeInv, Unrevived, Goes \/ (\E b, k : Dies(b, k)) \/ Returns
  PROVE  Unrevived'
<1>1. Family(node) /\ Said(node, 0) = {} /\ \A m : Family(m) => Said(m, 0) = {}
  BY Before1, PathShape
<1>2. CASE Goes
  <2>1. node' = node /\ disk' = disk /\ due' = due /\ tip' = 0 /\ ToSet(data') = {}
        /\ Prepared' \subseteq Prepared
    BY <1>2 DEF Goes, Emptied, NoNode, ToSet, Prepared
  <2> QED BY <1>1, <2>1 DEF Unrevived
<1>3. CASE \E b, k : Dies(b, k)
  <2>1. PICK b, k : Dies(b, k)  BY <1>3
  <2>2. /\ tip' = 0 /\ ToSet(data') = {} /\ Prepared' \subseteq Prepared
        /\ Follows(b, node) /\ Grew(node', node, b)
        /\ k \in 1..(Len(b) - 1) /\ disk' = disk \o Run(Len(node), k)
        /\ due' = due \cup SaidBy(b, k)
    BY <2>1, Before1 DEF Dies, Emptied, NoNode, ToSet, Prepared, Grew, SaidBy
  <2>3. Len(b) \in Nat /\ k \in 1..Len(b) /\ k \in Nat /\ k > 0
    BY <2>2, Before1, IdsAreRun
  <2>4. Leaf(disk') = Len(node) + k
    BY <2>2, <2>3, Before1, RisingConcat DEF ChainShape, Leaf
  <2>5. Said(node', Len(node) + k) \subseteq Said(node, tip) \cup SaidBy(b, k)
    <3>1. CASE \E seen \in Seq(SUBSET (1..Len(node))) : b = Linked(RoundBatch(seen))
      <4>1. PICK seen \in Seq(SUBSET (1..Len(node))) : b = Linked(RoundBatch(seen))
        BY <3>1
      <4>2. Follows(RoundBatch(seen), node)  BY Before1, RoundFollows
      <4>3. Len(b) = Len(RoundBatch(seen))  BY <4>1, <4>2, Before1, LinkedStacked
      <4>4. Said(node', Len(node) + k) = Said(node, tip) \cup SaidBy(RoundBatch(seen), k)
        BY <2>2, <2>3, <4>1, <4>2, <4>3, Before1, LinkedSays
      <4>5. SaidBy(b, k) = SaidBy(RoundBatch(seen), k)
        BY <2>3, <4>1, <4>2, <4>3, Before1, LinkedStacked
      <4> QED BY <4>4, <4>5
    <3>2. CASE pending # None /\ SnapshotValid(Messages(data)) /\ b = CompactBatch(Messages(data))
      <4>1. pending \in Prepared  BY <3>2 DEF Prepared
      <4>2. pending \in RangesUpTo(Len(node)) /\ pending.says \subseteq Said(node, pending.end)
        BY <4>1, Before1 DEF Unrevived
      <4>3. Grew(node', node, CompactBatch(Messages(data)))  BY <2>2, <3>2
      <4>4. \A l \in 1..Len(CompactBatch(Messages(data))) :
              Said(node', Len(node) + l) \subseteq Said(node, tip)
        BY <3>2, <4>2, <4>3, Before1, SwapSays DEF Unrevived
      <4> QED BY <2>3, <3>2, <4>4
    <3> QED BY <2>1, <3>1, <3>2 DEF Dies
  <2>6. Said(node', Leaf(disk')) \subseteq due'
    BY <2>2, <2>4, <2>5 DEF Unrevived
  <2>7. Family(node')
    BY <2>2, FamilyGrows DEF Grew
  <2>8. Said(node', tip') = {}
    BY <1>1, <2>2, <2>7
  <2>9. \A p \in Prepared' : p.says \subseteq Said(node', p.end)
    BY <2>2, PreparedKept DEF Unrevived
  <2> QED BY <2>2, <2>6, <2>8, <2>9 DEF Unrevived
<1>4. CASE Returns
  <2>1. Resumed /\ due' = due /\ Prepared' \subseteq Prepared /\ node' = node /\ disk' = disk
    BY <1>4 DEF Returns, Resumed, Prepared
  <2>2. /\ disk = <<>> => data' = <<>> /\ tip' = NoNode
        /\ disk # <<>> => /\ data' = TraceChain(node, ToSet(disk), Last(disk))
                          /\ tip' = Last(disk)
    BY <2>1, Before1, ResumedShape
  <2>3. tip' = Leaf(disk)  BY <2>2 DEF Leaf
  <2>4. ToSet(data') \subseteq Path(node, tip')
    <3>1. CASE disk = <<>>  BY <2>2, <3>1 DEF ToSet
    <3>2. CASE disk # <<>>
      <4>1. Last(disk) \in 0..Len(node)  BY <3>2, Before1 DEF Leaf
      <4> QED BY <2>2, <3>2, <4>1, Before1, OnIsAPath DEF On
    <3> QED BY <3>1, <3>2
  <2> QED BY <2>1, <2>3, <2>4 DEF Unrevived
<1> QED BY <1>2, <1>3, <1>4

LEMMA RevivedKept ==
  ASSUME ShapeInv, RevivedInv, Move
  PROVE  RevivedInv'
<1> SUFFICES ASSUME mishaps' \cap {"overtaken", "lost_root"} = {} PROVE Unrevived'
  BY DEF RevivedInv
<1>1. mishaps \subseteq mishaps'  BY DEF Move
<1>2. Unrevived  BY <1>1 DEF RevivedInv
<1>3. CASE Quiet  BY <1>2, <1>3, UnrevivedQuiet
<1>4. CASE \E b, i, j : Adds(b, i, j)  BY <1>2, <1>4, UnrevivedAdds
<1>5. CASE Swaps  BY <1>2, <1>5, UnrevivedSwaps
<1>6. CASE Compacts  BY <1>2, <1>6, UnrevivedCompacts
<1>7. CASE \E target : Rewinds(target)  BY <1>2, <1>7, UnrevivedRewinds
<1>8. CASE \E b, k, j : Breaks(b, k, j)  BY <1>8 DEF Breaks
<1>9. CASE Goes \/ (\E b, k : Dies(b, k)) \/ Returns  BY <1>2, <1>9, UnrevivedEnds
<1> QED BY <1>3, <1>4, <1>5, <1>6, <1>7, <1>8, <1>9 DEF Move

LEMMA RevivedAlways == Spec => []RevivedInv
<1>1. Init => RevivedInv  BY UnrevivedInit
<1>2. ShapeInv /\ RevivedInv /\ [Next]_vars => RevivedInv'
  BY NextMoves, RevivedKept
<1> QED BY <1>1, <1>2, ShapeAlways, PTL DEF Spec

\* What the user rewound past does not come back: not through a summary prepared
\* before the rewind, not through a restart.
THEOREM NothingRevivedAlways == Spec => []NothingRevived
<1>1. ShapeInv /\ RevivedInv => NothingRevived
  <2> SUFFICES ASSUME ShapeInv, RevivedInv, mishaps \cap {"overtaken", "lost_root"} = {}
               PROVE  Facts(data) \subseteq due
    BY DEF NothingRevived, Spared
  <2>1. Unrevived  BY DEF RevivedInv
  <2>2. Facts(data) \subseteq Said(node, tip)
    BY <2>1, Before1, WholeWindowSays DEF Unrevived
  <2> QED BY <2>1, <2>2 DEF Unrevived
<1> QED BY <1>1, ShapeAlways, RevivedAlways, PTL

-----------------------------------------------------------------------------
(* The log leads back to the chain, and to what is behind its summaries.    *)

\* A node of the log hangs below nodes of the log, and so does its interval.
Closed ==
  \A u \in ToSet(disk) : /\ node[u].parent \in ToSet(disk) \cup {0}
                         /\ node[u].unzip \in ToSet(disk) \cup {0}

Faithful ==
  \A u \in 1..Len(node) :
    node[u].kind = "summary" => node[u].says = Said(node, node[u].unzip)

\* The memory is what the log leads to.
Mirrored == alive => lines = disk /\ tip = Leaf(disk) /\ ToSet(data) = Path(node, tip)

Kept == \A p \in Prepared : p.end \in ToSet(disk) /\ p.says = Said(node, p.end)

Asked ==
  manual # None => /\ Leaf(manual.msgs) \in ToSet(disk) \cup {0}
                   /\ Facts(manual.msgs) = Said(node, Leaf(manual.msgs))

Recorded == Closed /\ Faithful /\ Mirrored /\ Kept /\ Asked

RecordsInv == mishaps \cap Lost = {} => Recorded

LEMMA ClosedDisk ==
  ASSUME ShapeInv, Closed
  PROVE  \A u \in ToSet(disk) \cup {0} :
           /\ On(node, ToSet(disk), u) = Path(node, u)
           /\ Path(node, u) \subseteq ToSet(disk)
<1> DEFINE D == ToSet(disk)
<1>1. Family(node) /\ D \subseteq 1..Len(node)
  BY Before1
<1>2. \A u \in D : node[u].parent \in D \cup {0}
  BY DEF Closed
<1>3. \A u \in D \cup {0} : u \in 0..Len(node)
  BY <1>1, Before1
<1> HIDE DEF D
<1>4. \A u \in D \cup {0} : On(node, D, u) = Path(node, u)
  BY <1>1, <1>2, ClosedPath
<1>5. \A u \in 0..Len(node) : On(node, D, u) \subseteq D
  <2>1. Tree(node, D)  BY <1>1, FamilyShape
  <2> QED BY <2>1, OnUnfold
<1>6. \A u \in D \cup {0} : Path(node, u) \subseteq D
  BY <1>3, <1>4, <1>5
<1> QED BY <1>4, <1>6 DEF D

LEMMA MirroredData ==
  ASSUME ShapeInv, Closed, Mirrored, alive
  PROVE  /\ tip \in ToSet(disk) \cup {0} /\ ToSet(data) \subseteq ToSet(disk)
         /\ ToSet(data) = Path(node, tip) /\ lines = disk
<1>1. tip = Leaf(disk) /\ lines = disk /\ ToSet(data) = Path(node, tip)
  BY DEF Mirrored
<1>2. Leaf(disk) \in ToSet(disk) \cup {0}
  BY Before1 DEF Leaf, NoNode
<1> QED BY <1>1, <1>2, ClosedDisk

\* A batch that fits the log.
Fits(b) ==
  \A i \in 1..Len(b) :
    /\ b[i].parent \in ToSet(disk) \cup {0} \cup Span(node, i - 1)
    /\ b[i].unzip \in ToSet(disk) \cup {0}
    /\ b[i].kind = "summary" => b[i].says = Said(node, b[i].unzip)

LEMMA FitsKeeps ==
  ASSUME ShapeInv, Closed, Faithful, NEW b, Fits(b), Grew(node', node, b),
         NEW k \in 0..Len(b), ToSet(disk') = ToSet(disk) \cup Span(node, k)
  PROVE  Closed' /\ Faithful'
<1>1. /\ Len(node) \in Nat /\ Len(b) \in Nat /\ Len(node') = Len(node) + Len(b)
      /\ \A u \in 1..Len(node) : node'[u] = node[u]
      /\ \A i \in 1..Len(b) : node'[Len(node) + i] = b[i]
  BY FamilyGrows, FamilyShape DEF Grew
<1>2. \A u \in 0..Len(node) : Said(node', u) = Said(node, u)
  BY OldSays
<1>3. ToSet(disk) \subseteq 1..Len(node)
  BY Before1
<1>4. \A u \in 1..Len(node') : u \notin 1..Len(node) =>
        u - Len(node) \in 1..Len(b) /\ Len(node) + (u - Len(node)) = u
  BY <1>1
<1>5. Closed'
  <2> SUFFICES ASSUME NEW u \in ToSet(disk')
               PROVE  /\ node'[u].parent \in ToSet(disk') \cup {0}
                      /\ node'[u].unzip \in ToSet(disk') \cup {0}
    BY DEF Closed
  <2>1. CASE u \in ToSet(disk)
    BY <1>1, <1>3, <2>1 DEF Closed
  <2>2. CASE u \in Span(node, k)
    <3> DEFINE i == u - Len(node)
    <3>1. i \in 1..Len(b) /\ i \in 1..k /\ Len(node) + i = u
      BY <1>1, <2>2 DEF Span
    <3> HIDE DEF i
    <3>2. node'[u] = b[i]  BY <1>1, <3>1
    <3>3. Span(node, i - 1) \subseteq Span(node, k)
      BY <1>1, <3>1 DEF Span
    <3>4. /\ b[i].parent \in ToSet(disk) \cup {0} \cup Span(node, i - 1)
          /\ b[i].unzip \in ToSet(disk) \cup {0}
      BY <3>1 DEF Fits
    <3> QED BY <3>2, <3>3, <3>4
  <2> QED BY <2>1, <2>2
<1>6. Faithful'
  <2> SUFFICES ASSUME NEW u \in 1..Len(node'), node'[u].kind = "summary"
               PROVE  node'[u].says = Said(node', node'[u].unzip)
    BY DEF Faithful
  <2>1. CASE u \in 1..Len(node)
    <3>1. node[u].unzip \in 0..Len(node)
      <4>1. Family(node)  BY Before1
      <4>2. node[u] \in NodesUpTo(Len(node))  BY <2>1, <4>1, FamilyShape
      <4> QED BY <4>2 DEF NodesUpTo
    <3>2. node'[u] = node[u]  BY <1>1, <2>1
    <3>3. node[u].says = Said(node, node[u].unzip)
      BY <2>1, <3>2 DEF Faithful
    <3> QED BY <1>2, <3>1, <3>2, <3>3
  <2>2. CASE u \notin 1..Len(node)
    <3> DEFINE i == u - Len(node)
    <3>1. i \in 1..Len(b) /\ Len(node) + i = u
      BY <1>4, <2>2
    <3> HIDE DEF i
    <3>2. node'[u] = b[i]  BY <1>1, <3>1
    <3>3. b[i].unzip \in ToSet(disk) \cup {0} /\ b[i].says = Said(node, b[i].unzip)
      BY <3>1, <3>2 DEF Fits
    <3>4. b[i].unzip \in 0..Len(node)
      BY <1>1, <1>3, <3>3
    <3> QED BY <1>2, <3>2, <3>3, <3>4
  <2> QED BY <2>1, <2>2
<1> QED BY <1>5, <1>6

\* The batches fit.
LEMMA RoundFits ==
  ASSUME ShapeInv, tip \in ToSet(disk) \cup {0}, NEW b, Said1(b)
  PROVE  Fits(Linked(b))
<1>1. Follows(b, node) /\ Len(node) \in Nat  BY Before1, Said1Shape
<1>2. Len(Linked(b)) = Len(b) /\ Len(b) \in Nat  BY <1>1, Before1, LinkedStacked
<1>3. \A i \in 1..Len(b) : b[i].unzip = 0 /\ b[i].kind # "summary"
  <2>1. CASE \E seen \in Seq(SUBSET (1..Len(node))) : b = RoundBatch(seen)
    <3>1. PICK seen \in Seq(SUBSET (1..Len(node))) : b = RoundBatch(seen)  BY <2>1
    <3>2. Len(b) = 2 /\ b[1].unzip = 0 /\ b[2].unzip = 0
          /\ b[1].kind = "call" /\ b[2].kind = "result"
      BY <3>1 DEF RoundBatch, Original, NoNode
    <3>3. \A i \in 1..2 : i = 1 \/ i = 2  OBVIOUS
    <3> QED BY <3>2, <3>3
  <2>2. CASE \E seen \in Seq(SUBSET (1..Len(node))) : \E kind \in {"user", "event", "answer"} :
               b = <<Original(kind, Fresh, NoNode, seen)>>
    <3>1. PICK seen \in Seq(SUBSET (1..Len(node))), kind \in {"user", "event", "answer"} :
               b = <<Original(kind, Fresh, NoNode, seen)>>  BY <2>2
    <3>2. Len(b) = 1 /\ b[1].unzip = 0 /\ b[1].kind = kind
      BY <3>1 DEF Original, NoNode
    <3>3. \A i \in 1..1 : i = 1  OBVIOUS
    <3> QED BY <3>2, <3>3
  <2> QED BY <2>1, <2>2 DEF Said1
<1>4. SUFFICES ASSUME NEW i \in 1..Len(b)
               PROVE  /\ Linked(b)[i].parent \in ToSet(disk) \cup {0} \cup Span(node, i - 1)
                      /\ Linked(b)[i].unzip \in ToSet(disk) \cup {0}
                      /\ Linked(b)[i].kind # "summary"
  BY <1>2 DEF Fits
<1>5. IsLink(Linked(b)[i], b[i], i)
  BY <1>1, Before1, LinkedFollows
<1>6. Linked(b)[i].parent = (IF i = 1 THEN tip ELSE Len(node) + i - 1)
      /\ Linked(b)[i].kind = b[i].kind /\ Linked(b)[i].unzip = b[i].unzip
  BY <1>5 DEF IsLink
<1>7. i # 1 => Len(node) + i - 1 \in Span(node, i - 1)
  BY <1>1, <1>2 DEF Span
<1> QED BY <1>3, <1>6, <1>7

LEMMA CompactFits ==
  ASSUME ShapeInv, Faithful, Closed, ToSet(data) \subseteq ToSet(disk),
         pending \in RangesUpTo(Len(node)), pending.end \in ToSet(disk),
         pending.says = Said(node, pending.end), SnapshotValid(Messages(data))
  PROVE  Fits(CompactBatch(Messages(data)))
<1>1. Messages(data) \in Seq(1..Len(node)) /\ ToSet(Messages(data)) \subseteq ToSet(data)
  BY Before1, MessagesShape DEF ChainShape
<1>2. PICK b : b = CompactBatch(Messages(data))
  OBVIOUS
<1>3. PICK msgs : msgs = Messages(data)
  OBVIOUS
<1>4. \E end, tail : CompactForm(b, msgs, end, tail)
  BY <1>1, <1>2, <1>3, Before1, CompactFollows
<1>5. PICK end, tail : CompactForm(b, msgs, end, tail)
  BY <1>4
<1>6. /\ Len(tail) \in Nat /\ Len(b) = Len(tail) + 1 /\ Len(node) \in Nat
      /\ b[1].parent = 0 /\ b[1].says = pending.says /\ b[1].unzip = pending.end
      /\ \A i \in 1..Len(tail) :
           /\ b[i + 1].parent = Len(node) + i /\ b[i + 1].kind = node[tail[i]].kind
           /\ b[i + 1].says = node[tail[i]].says /\ b[i + 1].unzip = node[tail[i]].unzip
           /\ tail[i] = msgs[end + i]
  BY <1>5, Before1, LenProperties DEF CompactForm, NoNode
<1>7. /\ Len(msgs) \in Nat /\ DOMAIN msgs = 1..Len(msgs)
      /\ end \in 1..Len(msgs) /\ Len(tail) = Len(msgs) - end
  BY <1>1, <1>3, <1>5, LenProperties DEF CompactForm
<1>8. \A i \in 1..Len(tail) : tail[i] \in ToSet(disk) /\ tail[i] \in 1..Len(node)
  <2> SUFFICES ASSUME NEW i \in 1..Len(tail)
               PROVE tail[i] \in ToSet(disk) /\ tail[i] \in 1..Len(node)
    OBVIOUS
  <2>1. end + i \in 1..Len(msgs)  BY <1>6, <1>7
  <2>2. msgs[end + i] \in ToSet(msgs)  BY <1>7, <2>1 DEF ToSet
  <2>3. tail[i] \in ToSet(disk)  BY <1>1, <1>3, <1>6, <2>2
  <2> QED BY <2>3, Before1
<1>9. ASSUME NEW i \in 1..Len(b)
      PROVE  /\ b[i].parent \in ToSet(disk) \cup {0} \cup Span(node, i - 1)
             /\ b[i].unzip \in ToSet(disk) \cup {0}
             /\ b[i].kind = "summary" => b[i].says = Said(node, b[i].unzip)
  <2>1. CASE i = 1  BY <1>6, <2>1
  <2>2. CASE i # 1
    <3> DEFINE k == i - 1
    <3>1. k \in 1..Len(tail) /\ i = k + 1  BY <1>6, <2>2
    <3>2. Len(node) + k \in Span(node, i - 1)  BY <1>6, <3>1 DEF Span
    <3> HIDE DEF k
    <3>3. /\ b[k + 1].parent = Len(node) + k /\ b[k + 1].kind = node[tail[k]].kind
          /\ b[k + 1].says = node[tail[k]].says /\ b[k + 1].unzip = node[tail[k]].unzip
      BY <1>6, <3>1
    <3>4. node[tail[k]].unzip \in ToSet(disk) \cup {0}
      BY <1>8, <3>1 DEF Closed
    <3>5. node[tail[k]].kind = "summary" => node[tail[k]].says = Said(node, node[tail[k]].unzip)
      BY <1>8, <3>1 DEF Faithful
    <3> QED BY <3>1, <3>2, <3>3, <3>4, <3>5
  <2> QED BY <2>1, <2>2
<1> QED BY <1>2, <1>9 DEF Fits

LEMMA ManualFits ==
  ASSUME ShapeInv, Asked, manual # None
  PROVE  Fits(ManualBatch)
<1>1. PICK b : b = ManualBatch  OBVIOUS
<1>2. /\ Len(b) = 1 /\ b[1].parent = 0 /\ b[1].says = Facts(manual.msgs)
      /\ b[1].unzip = Leaf(manual.msgs)
  BY <1>1, Before1, ManualFollows DEF NoNode, Leaf
<1>3. \A i \in 1..1 : i = 1  OBVIOUS
<1> QED BY <1>1, <1>2, <1>3 DEF Fits, Asked

LEMMA RewindFits ==
  ASSUME ShapeInv, Faithful, Closed, lines = disk, NEW target \in ToSet(lines)
  PROVE  Fits(<<RewindRow(target)>>)
<1>1. PICK b : b = <<RewindRow(target)>>  OBVIOUS
<1>2. PICK p : p = RewindParent(target)  OBVIOUS
<1>3. /\ Len(b) = 1
      /\ p = NoNode => /\ b[1].kind = "mark" /\ b[1].parent = NoNode /\ b[1].unzip = NoNode
      /\ p # NoNode => /\ b[1].kind = node[p].kind /\ b[1].parent = node[p].parent
                       /\ b[1].unzip = node[p].unzip /\ b[1].says = node[p].says
  BY <1>1, <1>2, Before1, RowFollows
<1>4. p # NoNode => p \in ToSet(Before(target)) /\ p \in 1..Len(node)
  BY <1>2, Before1, RewindParentShape
<1>5. ToSet(Before(target)) \subseteq ToSet(disk)
  <2>1. Before(target) = TraceChain(node, ToSet(lines), node[target].parent)
    BY Before1, RewindParentShape
  <2>2. /\ Family(node) /\ target \in 1..Len(node) /\ Tree(node, ToSet(lines))
    BY Before1, FamilyShape
  <2>3. node[target].parent \in 0..Len(node)
    BY <2>2, PathShape
  <2>4. On(node, ToSet(lines), node[target].parent) \subseteq ToSet(lines)
    BY <2>2, <2>3, OnUnfold
  <2> QED BY <2>1, <2>4 DEF On
<1>6. \A i \in 1..1 : i = 1  OBVIOUS
<1>7. p # NoNode =>
        /\ node[p].parent \in ToSet(disk) \cup {0} /\ node[p].unzip \in ToSet(disk) \cup {0}
        /\ node[p].kind = "summary" => node[p].says = Said(node, node[p].unzip)
  BY <1>4, <1>5 DEF Closed, Faithful
<1> QED BY <1>1, <1>3, <1>6, <1>7 DEF Fits, NoNode

\* What is prepared and what is asked for survives a write.
LEMMA KeptGrows ==
  ASSUME ShapeInv, Kept, NEW b, Grew(node', node, b), ToSet(disk) \subseteq ToSet(disk'),
         Prepared' \subseteq Prepared
  PROVE  Kept'
<1> SUFFICES ASSUME NEW p \in Prepared'
             PROVE  p.end \in ToSet(disk') /\ p.says = Said(node', p.end)
  BY DEF Kept
<1>1. p \in Prepared /\ p.end \in ToSet(disk) /\ p.says = Said(node, p.end)
  BY DEF Kept
<1> QED BY <1>1, PreparedKept

LEMMA AskedGrows ==
  ASSUME ShapeInv, Asked, NEW b, Grew(node', node, b), ToSet(disk) \subseteq ToSet(disk'),
         manual' = manual \/ manual' = None
  PROVE  Asked'
<1> SUFFICES ASSUME manual # None, manual' = manual PROVE Asked'
  BY DEF Asked
<1>1. /\ Leaf(manual.msgs) \in ToSet(disk) \cup {0}
      /\ Facts(manual.msgs) = Said(node, Leaf(manual.msgs))
  BY DEF Asked
<1>2. manual \in [msgs : Seq(1..Len(node))]
  BY Before1
<1>3. manual.msgs \in Seq(1..Len(node))
  BY <1>2
<1>4. ToSet(manual.msgs) \subseteq 1..Len(node)
  BY <1>3, RangeInSeq
<1>5. Leaf(manual.msgs) \in 0..Len(node)
  BY <1>1, Before1
<1>6. FactsOf(node', ToSet(manual.msgs)) = FactsOf(node, ToSet(manual.msgs))
  BY <1>4, PathsGrow
<1>7. Said(node', Leaf(manual.msgs)) = Said(node, Leaf(manual.msgs))
  BY <1>5, PathsGrow
<1>8. Facts(manual.msgs) = FactsOf(node, ToSet(manual.msgs))
  BY DEF Facts, FactsOf
<1>9. Facts(manual.msgs)' = FactsOf(node', ToSet(manual.msgs))
  BY DEF Facts, FactsOf
<1>10. Leaf(manual.msgs)' = Leaf(manual.msgs)
  BY DEF Leaf
<1> QED BY <1>1, <1>6, <1>7, <1>8, <1>9, <1>10 DEF Asked

LEMMA RecordedInit == Init => RecordsInv
<1> SUFFICES ASSUME Init PROVE RecordsInv
  OBVIOUS
<1>1. /\ ToSet(disk) = {} /\ ToSet(data) = {} /\ lines = disk /\ tip = 0 /\ Leaf(disk) = 0
      /\ Prepared = {} /\ manual = None /\ Len(node) = 0
  BY DEF Init, ToSet, Leaf, NoNode, Prepared
<1>2. ShapeInv  BY InitShape
<1>3. Path(node, 0) = {}  BY <1>2, Before1, PathShape
<1>4. \A u : u \notin 1..Len(node)  BY <1>1
<1> QED BY <1>1, <1>3, <1>4 DEF RecordsInv, Recorded, Closed, Faithful, Mirrored, Kept, Asked

LEMMA RecordedQuiet ==
  ASSUME ShapeInv, Recorded, Quiet
  PROVE  Recorded'
<1>1. node' = node /\ data' = data /\ tip' = tip /\ disk' = disk /\ lines' = lines /\ alive' = alive
  BY DEF Quiet, chainVars
<1>2. Closed' /\ Faithful' /\ Mirrored'
  BY <1>1 DEF Recorded, Closed, Faithful, Mirrored, Leaf
<1>3. alive => ToSet(data) = Path(node, tip) /\ ToSet(data) \subseteq ToSet(disk)
               /\ tip \in ToSet(disk) \cup {0}
  BY MirroredData DEF Recorded
<1>4. \A p \in Prepared' : p \in Prepared \/ (alive /\ p = Background(Messages(data)) /\ p # None)
  BY DEF Quiet, Prepared
<1>5. \A p \in Prepared' : p.end \in ToSet(disk) /\ p.says = Said(node, p.end)
  <2> SUFFICES ASSUME NEW p \in Prepared' PROVE p.end \in ToSet(disk) /\ p.says = Said(node, p.end)
    OBVIOUS
  <2>1. CASE p \in Prepared  BY <2>1 DEF Recorded, Kept
  <2>2. CASE alive /\ p = Background(Messages(data)) /\ p # None
    <3>1. p.end \in ToSet(data) /\ p.says = Said(node, p.end)
      BY <1>3, <2>2, Before1, BackgroundSays
    <3> QED BY <1>3, <2>2, <3>1
  <2> QED BY <1>4, <2>1, <2>2
<1>6. Kept'
  BY <1>1, <1>5 DEF Kept
<1>7. Asked'
  <2>1. CASE manual' = None  BY <2>1 DEF Asked
  <2>2. CASE manual' = manual
    BY <1>1, <2>2 DEF Recorded, Asked, Leaf, Facts
  <2>3. CASE alive /\ manual' = [msgs |-> Messages(data)]
    <3>1. PICK w : w = Messages(data)  OBVIOUS
    <3>2. /\ Facts(w) = Said(node, Leaf(w))
          /\ Leaf(w) \in ToSet(data) \cup {0}
      BY <1>3, <2>3, <3>1, Before1, WholeWindowSays
    <3>3. manual'.msgs = w  BY <2>3, <3>1
    <3>4. Leaf(w) \in ToSet(disk) \cup {0}
      BY <1>3, <2>3, <3>2
    <3> QED BY <1>1, <3>2, <3>3, <3>4 DEF Asked, Leaf, Facts
  <2> QED BY <2>1, <2>2, <2>3 DEF Quiet
<1> QED BY <1>2, <1>6, <1>7 DEF Recorded

LEMMA RecordedAdds ==
  ASSUME ShapeInv, Recorded, NEW b, Adds(b, Len(b), Len(b))
  PROVE  Recorded'
<1>1. /\ alive
      /\ alive'
      /\ Said1(b)
      /\ Grown(b, Len(b), Len(b))
      /\ manual' = manual
      /\ Prepared' = Prepared
  BY DEF Adds, compactVars, Prepared
<1>2. /\ Follows(b, node) /\ Written(Linked(b), Len(b), Len(b))
      /\ data' = data \o Run(Len(node), Len(b)) /\ tip' = Len(node) + Len(b)
  BY <1>1 DEF Grown
<1>3. /\ Grew(node', node, Linked(b)) /\ Len(Linked(b)) = Len(b)
      /\ Len(b) \in Nat /\ Len(b) > 0 /\ Len(b) \in 0..Len(Linked(b)) /\ Len(b) \in 1..Len(b)
  BY <1>2, Before1, LinkedStacked DEF Written, Grew
<1>4. /\ lines = disk /\ ToSet(data) = Path(node, tip) /\ tip \in ToSet(disk) \cup {0}
  BY <1>1, MirroredData DEF Recorded
<1>5. /\ lines' = disk' /\ ToSet(disk') = ToSet(disk) \cup Span(node, Len(b))
      /\ Last(disk') = Len(node) + Len(b) /\ disk' # <<>>
  BY <1>2, <1>3, <1>4, Before1, WrittenShape DEF Written, Span
<1>6. Fits(Linked(b))
  BY <1>1, <1>4, RoundFits
<1>7. Closed' /\ Faithful'
  BY <1>3, <1>5, <1>6, FitsKeeps DEF Recorded
<1>8. ToSet(data') = ToSet(data) \cup Span(node, Len(b))
  BY <1>2, <1>3, Before1, DataGrows DEF Span
<1>9. Path(node', Len(node) + Len(b)) = Path(node, tip) \cup Span(node, Len(b))
  <2>1. \A k \in 1..Len(b) : Path(node', Len(node) + k) = Path(node, tip) \cup Span(node, k)
    BY <1>2, <1>3, Before1, LinkedSays
  <2> QED BY <1>3, <2>1
<1>10. Mirrored'
  BY <1>2, <1>4, <1>5, <1>8, <1>9 DEF Mirrored, Leaf
<1>11. Kept' /\ Asked'
  BY <1>1, <1>3, <1>5, KeptGrows, AskedGrows DEF Recorded
<1> QED BY <1>7, <1>10, <1>11 DEF Recorded

\* A new chain that fits the log.
LEMMA RecordedRoot ==
  ASSUME ShapeInv, Recorded, alive, NEW b, Rerooted(b), Fits(b),
         Prepared' \subseteq Prepared, manual' = manual \/ manual' = None
  PROVE  Recorded'
<1>1. /\ tip' = Len(node) + Len(b) /\ Leaf(disk') = tip' /\ Grew(node', node, b)
      /\ tip' \in ToSet(lines')
      /\ ToSet(lines') = ToSet(lines) \cup Span(node, Len(b))
      /\ ToSet(disk') = ToSet(disk) \cup Span(node, Len(b))
  BY Before1, RootSays DEF Span
<1>2. lines = disk
  BY DEF Recorded, Mirrored
<1>3. lines' = disk' /\ data' = TraceChain(node', ToSet(lines'), tip')
  BY <1>2 DEF Rerooted, Written
<1>4. Len(b) \in 0..Len(b)
  BY <1>1, Before1, OldSays
<1>5. Closed' /\ Faithful'
  BY <1>1, <1>4, FitsKeeps DEF Recorded
<1>6. Family(node') /\ ToSet(disk') \subseteq 1..Len(node')
  <2>1. Written(b, Len(b), Len(b))  BY DEF Rerooted
  <2>2. Family(node') /\ disk' \in Seq(1..Len(node'))
    BY <2>1, Before1, WrittenShape
  <2> QED BY <2>2, RangeInSeq
<1> DEFINE D == ToSet(disk')
<1>7. \A u \in D : node'[u].parent \in D \cup {0}
  BY <1>5 DEF Closed
<1>8. tip' \in D \cup {0} /\ D \subseteq 1..Len(node')
  BY <1>1, <1>3, <1>6
<1>9. ToSet(data') = On(node', D, tip')
  BY <1>3 DEF On
<1> HIDE DEF D
<1>10. ToSet(data') = Path(node', tip')
  BY <1>6, <1>7, <1>8, <1>9, ClosedPath
<1>11. Mirrored'
  BY <1>1, <1>3, <1>10 DEF Mirrored, Leaf
<1>12. Kept' /\ Asked'
  BY <1>1, KeptGrows, AskedGrows DEF Recorded
<1> QED BY <1>5, <1>11, <1>12 DEF Recorded

LEMMA PendingFits ==
  ASSUME ShapeInv, Recorded, alive, pending # None, SnapshotValid(Messages(data))
  PROVE  /\ Fits(CompactBatch(Messages(data)))
         /\ pending \in RangesUpTo(Len(node)) /\ pending.says = Said(node, pending.end)
<1>1. pending \in Prepared  BY DEF Prepared
<1>2. /\ pending \in RangesUpTo(Len(node)) /\ pending.end \in ToSet(disk)
      /\ pending.says = Said(node, pending.end)
  BY <1>1, Before1 DEF Recorded, Kept
<1>3. ToSet(data) \subseteq ToSet(disk)  BY MirroredData DEF Recorded
<1> QED BY <1>2, <1>3, CompactFits DEF Recorded

LEMMA RecordedSwaps ==
  ASSUME ShapeInv, Recorded, Swaps
  PROVE  Recorded'
<1>1. Fits(CompactBatch(Messages(data)))
  BY PendingFits DEF Swaps
<1>2. PICK b : b = CompactBatch(Messages(data))  OBVIOUS
<1>3. /\ alive /\ Rerooted(b) /\ Fits(b) /\ Prepared' \subseteq Prepared /\ manual' = manual
  BY <1>1, <1>2 DEF Swaps, Prepared
<1> QED BY <1>3, RecordedRoot

LEMMA RecordedCompacts ==
  ASSUME ShapeInv, Recorded, Compacts
  PROVE  Recorded'
<1>1. Fits(ManualBatch)
  BY ManualFits DEF Compacts, Recorded
<1>2. alive /\ Rerooted(ManualBatch) /\ Prepared' = Prepared /\ manual' = None
  BY DEF Compacts, compactVars, Prepared
<1> QED BY <1>1, <1>2, RecordedRoot

LEMMA RecordedRewinds ==
  ASSUME ShapeInv, Recorded, NEW target, Rewinds(target)
  PROVE  Recorded'
<1>1. /\ alive /\ Rerooted(<<RewindRow(target)>>) /\ Prepared' = Prepared /\ manual' = manual
      /\ target \in BranchTargets
  BY DEF Rewinds, compactVars, Prepared
<1>2. target \in ToSet(lines)  BY <1>1, Before1, TargetsShape
<1>3. Fits(<<RewindRow(target)>>)
  BY <1>1, <1>2, RewindFits DEF Recorded, Mirrored
<1> QED BY <1>1, <1>3, RecordedRoot

LEMMA RecordedEnds ==
  ASSUME ShapeInv, Recorded, Goes \/ (\E b, k : Dies(b, k)) \/ Returns
  PROVE  Recorded'
<1>1. CASE Goes
  <2>1. /\ node' = node /\ disk' = disk /\ ~alive' /\ manual' = None /\ Prepared' \subseteq Prepared
    BY <1>1 DEF Goes, Prepared
  <2>2. Kept'
    BY <2>1 DEF Kept, Recorded
  <2> QED BY <2>1, <2>2 DEF Recorded, Closed, Faithful, Mirrored, Asked
<1>2. CASE \E b, k : Dies(b, k)
  <2>1. PICK b, k : Dies(b, k)  BY <1>2
  <2>2. /\ alive /\ ~alive' /\ manual' = None /\ Prepared' \subseteq Prepared
        /\ Follows(b, node) /\ Grew(node', node, b)
        /\ k \in 1..(Len(b) - 1) /\ disk' = disk \o Run(Len(node), k)
    BY <2>1, Before1 DEF Dies, Prepared, Grew
  <2>3. Len(b) \in Nat /\ k \in 0..Len(b) /\ k \in Nat /\ Len(node) \in Nat
    BY <2>2, Before1, IdsAreRun
  <2>4. ToSet(disk') = ToSet(disk) \cup Span(node, k)
    BY <2>2, <2>3, Before1, RisingConcat DEF ChainShape, Span
  <2>5. Fits(b)
    <3>1. CASE \E seen \in Seq(SUBSET (1..Len(node))) : b = Linked(RoundBatch(seen))
      <4>1. PICK seen \in Seq(SUBSET (1..Len(node))) : b = Linked(RoundBatch(seen))
        BY <3>1
      <4>2. Said1(RoundBatch(seen))  BY DEF Said1
      <4>3. tip \in ToSet(disk) \cup {0}  BY <2>2, MirroredData DEF Recorded
      <4> QED BY <4>1, <4>2, <4>3, RoundFits
    <3>2. CASE pending # None /\ SnapshotValid(Messages(data)) /\ b = CompactBatch(Messages(data))
      BY <2>2, <3>2, PendingFits
    <3> QED BY <2>1, <3>1, <3>2 DEF Dies
  <2>6. Closed' /\ Faithful'
    BY <2>2, <2>3, <2>4, <2>5, FitsKeeps DEF Recorded
  <2>7. Kept'
    BY <2>2, <2>4, KeptGrows DEF Recorded
  <2> QED BY <2>2, <2>6, <2>7 DEF Recorded, Mirrored, Asked
<1>3. CASE Returns
  <2>1. /\ Resumed /\ Prepared' \subseteq Prepared /\ node' = node /\ disk' = disk /\ lines' = disk
        /\ ~alive /\ manual' = manual
    BY <1>3 DEF Returns, Resumed, Prepared
  <2>2. manual' = None
    BY <2>1 DEF ShapeInv, RestShape
  <2>3. /\ disk = <<>> => data' = <<>> /\ tip' = NoNode
        /\ disk # <<>> => /\ data' = TraceChain(node, ToSet(disk), Last(disk))
                          /\ tip' = Last(disk)
    BY <2>1, Before1, ResumedShape
  <2>4. tip' = Leaf(disk)  BY <2>3 DEF Leaf
  <2>5. ToSet(data') = Path(node, tip')
    <3>1. CASE disk = <<>>
      <4>1. Path(node, 0) = {}  BY Before1, PathShape
      <4> QED BY <2>3, <3>1, <4>1 DEF ToSet, NoNode
    <3>2. CASE disk # <<>>
      <4>1. Leaf(disk) = Last(disk) /\ Leaf(disk) \in ToSet(disk)
        BY <3>2, Before1 DEF Leaf
      <4>2. On(node, ToSet(disk), Leaf(disk)) = Path(node, Leaf(disk))
        BY <4>1, ClosedDisk DEF Recorded
      <4> QED BY <2>3, <2>4, <3>2, <4>1, <4>2 DEF On
    <3> QED BY <3>1, <3>2
  <2>6. Closed' /\ Faithful' /\ Kept'
    BY <2>1 DEF Recorded, Closed, Faithful, Kept
  <2>7. Mirrored'
    BY <2>1, <2>4, <2>5 DEF Mirrored, Leaf
  <2> QED BY <2>2, <2>6, <2>7 DEF Recorded, Asked
<1> QED BY <1>1, <1>2, <1>3

LEMMA RecordsKept ==
  ASSUME ShapeInv, RecordsInv, Move
  PROVE  RecordsInv'
<1> SUFFICES ASSUME mishaps' \cap Lost = {} PROVE Recorded'
  BY DEF RecordsInv, Lost
<1>1. mishaps \subseteq mishaps'  BY DEF Move
<1>2. /\ "lost_write" \notin mishaps' /\ "lost_report" \notin mishaps' /\ "lost_root" \notin mishaps'
      /\ Recorded
  BY <1>1 DEF RecordsInv, Lost
<1>3. CASE Quiet  BY <1>2, <1>3, RecordedQuiet
<1>4. CASE \E b, i, j : Adds(b, i, j)
  <2>1. PICK b, i, j : Adds(b, i, j)  BY <1>4
  <2>2. i = Len(b) /\ j = Len(b)  BY <1>2, <2>1 DEF Adds
  <2> QED BY <1>2, <2>1, <2>2, RecordedAdds
<1>5. CASE Swaps  BY <1>2, <1>5, RecordedSwaps
<1>6. CASE Compacts  BY <1>2, <1>6, RecordedCompacts
<1>7. CASE \E target : Rewinds(target)  BY <1>2, <1>7, RecordedRewinds
<1>8. CASE \E b, k, j : Breaks(b, k, j)  BY <1>2, <1>8 DEF Breaks
<1>9. CASE Goes \/ (\E b, k : Dies(b, k)) \/ Returns  BY <1>2, <1>9, RecordedEnds
<1> QED BY <1>3, <1>4, <1>5, <1>6, <1>7, <1>8, <1>9 DEF Move

LEMMA RecordsAlways == Spec => []RecordsInv
<1>1. Init => RecordsInv  BY RecordedInit
<1>2. ShapeInv /\ RecordsInv /\ [Next]_vars => RecordsInv'
  BY NextMoves, RecordsKept
<1> QED BY <1>1, <1>2, ShapeAlways, PTL DEF Spec

LEMMA SeqWidens ==
  ASSUME NEW S, NEW T, S \subseteq T, NEW s \in Seq(S)
  PROVE  s \in Seq(T)
OBVIOUS

\* As long as every write reached the disk, loading the log rebuilds the chain.
THEOREM ReloadAlways == Spec => []ReloadGivesTheSameChain
<1>1. ShapeInv /\ RecordsInv => ReloadGivesTheSameChain
  <2> SUFFICES ASSUME ShapeInv, RecordsInv, alive, mishaps \cap Lost = {}
               PROVE  LoadChain(node, disk) = data
    BY DEF ReloadGivesTheSameChain, Spared
  <2>1. Recorded /\ Closed /\ Mirrored  BY DEF RecordsInv, Recorded
  <2>2. /\ Family(node) /\ disk \in Seq(1..Len(node)) /\ Rising(disk)
        /\ data \in Seq(1..Len(node)) /\ Rising(data)
        /\ ToSet(disk) \subseteq 1..Len(node) /\ Len(node) \in Nat
    BY Before1 DEF ChainShape
  <2>3. ToSet(data) = Path(node, tip) /\ tip = Leaf(disk)
    BY <2>1 DEF Mirrored
  <2>4. CASE disk = <<>>
    <3>1. Path(node, 0) = {}  BY <2>2, PathShape
    <3>2. ToSet(data) = {}  BY <2>3, <2>4, <3>1 DEF Leaf, NoNode
    <3>3. data = <<>>  BY <2>2, <3>2, RangeInSeq
    <3> QED BY <2>4, <3>3 DEF LoadChain
  <2>5. CASE disk # <<>>
    <3> DEFINE t == TraceChain(node, ToSet(disk), tip)
    <3>1. LeafUuid(node, disk) = Last(disk) /\ tip = Last(disk)
      BY <2>2, <2>3, <2>5, LeafIsLast DEF Leaf
    <3>2. LoadChain(node, disk) = t
      BY <2>5, <3>1 DEF LoadChain
    <3>3. tip \in 0..Len(node) /\ tip \in ToSet(disk)
      BY <2>3, <2>5, Before1
    <3>4. t \in Seq(1..Len(node)) /\ Rising(t)
      BY <2>2, <3>3, TraceIsShaped
    <3>5. ToSet(t) = On(node, ToSet(disk), tip)
      BY DEF On
    <3> HIDE DEF t
    <3>6. ToSet(t) = ToSet(data)
      BY <2>1, <2>3, <3>3, <3>5, ClosedDisk
    <3>7. t \in Seq(Nat) /\ data \in Seq(Nat)
      <4>1. 1..Len(node) \subseteq Nat  BY <2>2
      <4> QED BY <2>2, <3>4, <4>1, SeqWidens
    <3> QED BY <2>2, <3>2, <3>4, <3>6, <3>7, RisingEqual
  <2> QED BY <2>4, <2>5
<1> QED BY <1>1, ShapeAlways, RecordsAlways, PTL

\* What a summary on the chain stands for is what its interval leads to.
THEOREM SummariesUnzipAlways == Spec => []SummariesUnzip
<1>1. ShapeInv /\ RecordsInv => SummariesUnzip
  <2> SUFFICES ASSUME ShapeInv, RecordsInv, alive, mishaps \cap Lost = {},
                      NEW u \in ToSet(data), node[u].kind = "summary"
               PROVE  node[u].says = Facts(TraceChain(node, ToSet(lines), node[u].unzip))
    BY DEF SummariesUnzip, Spared
  <2>1. Recorded /\ Closed /\ Mirrored /\ Faithful  BY DEF RecordsInv, Recorded
  <2>2. lines = disk /\ u \in ToSet(disk) /\ u \in 1..Len(node)
    BY <2>1, MirroredData, Before1
  <2>3. node[u].says = Said(node, node[u].unzip)
    BY <2>1, <2>2 DEF Faithful
  <2>4. node[u].unzip \in ToSet(disk) \cup {0}
    BY <2>1, <2>2 DEF Closed
  <2>5. On(node, ToSet(disk), node[u].unzip) = Path(node, node[u].unzip)
    BY <2>1, <2>4, ClosedDisk
  <2>6. Facts(TraceChain(node, ToSet(disk), node[u].unzip))
          = FactsOf(node, On(node, ToSet(disk), node[u].unzip))
    BY FactsAreOf DEF On
  <2> QED BY <2>2, <2>3, <2>5, <2>6 DEF Said
<1> QED BY <1>1, ShapeAlways, RecordsAlways, PTL

-----------------------------------------------------------------------------
(* The chain stands for what is due.                                        *)

\* The chain the log leads to stands for everything said, and nothing else.
AccountInv ==
  mishaps \cap ({"overtaken", "half_batch"} \cup Lost) = {} =>
    Said(node, Leaf(disk)) = due

LEMMA AccountInit == Init => AccountInv
<1> SUFFICES ASSUME Init PROVE AccountInv
  OBVIOUS
<1>1. ShapeInv  BY InitShape
<1>2. Leaf(disk) = 0 /\ due = {}
  BY DEF Init, Leaf, NoNode
<1>3. Said(node, 0) = {}  BY <1>1, Before1, PathShape
<1> QED BY <1>2, <1>3 DEF AccountInv

LEMMA AccountAdds ==
  ASSUME ShapeInv, tip = Leaf(disk), Said(node, tip) = due,
         NEW b, Adds(b, Len(b), Len(b))
  PROVE  Said(node', Leaf(disk')) = due'
<1>1. /\ Follows(b, node) /\ Grown(b, Len(b), Len(b))
      /\ due' = due \cup UNION {b[k].says : k \in 1..Len(b)}
  BY Before1, Said1Shape DEF Adds
<1>2. Written(Linked(b), Len(b), Len(b))
  BY <1>1 DEF Grown
<1>3. /\ Grew(node', node, Linked(b)) /\ Len(b) \in Nat /\ Len(b) > 0 /\ Len(b) \in 1..Len(b)
  BY <1>1, <1>2, Before1, LinkedStacked DEF Written, Grew
<1>4. \A k \in 1..Len(b) : Said(node', Len(node) + k) = Said(node, tip) \cup SaidBy(b, k)
  BY <1>1, <1>3, Before1, LinkedSays
<1>5. Said(node', Len(node) + Len(b)) = Said(node, tip) \cup SaidBy(b, Len(b))
  BY <1>3, <1>4
<1>6. Leaf(disk') = Len(node) + Len(b)
  BY <1>2, <1>3, Before1, WrittenShape DEF Leaf
<1>7. SaidBy(b, Len(b)) = UNION {b[k].says : k \in 1..Len(b)}
  BY DEF SaidBy
<1> QED BY <1>1, <1>5, <1>6, <1>7

LEMMA AccountSwaps ==
  ASSUME ShapeInv, Recorded, Said(node, tip) = due, Swaps
  PROVE  Said(node', Leaf(disk')) = due'
<1> DEFINE b == CompactBatch(Messages(data))
<1>1. alive /\ Rerooted(b) /\ SnapshotValid(Messages(data)) /\ pending # None /\ due' = due
  BY DEF Swaps
<1>2. /\ Grew(node', node, b) /\ Leaf(disk') = Len(node) + Len(b)
  BY <1>1, Before1, RootSays
<1>3. pending \in RangesUpTo(Len(node)) /\ pending.says = Said(node, pending.end)
  BY <1>1, PendingFits
<1>4. ToSet(data) = Path(node, tip)
  BY <1>1 DEF Recorded, Mirrored
<1>5. Said(node', Len(node) + Len(b)) = Said(node, tip)
  BY <1>1, <1>2, <1>3, <1>4, Before1, SwapSays
<1> QED BY <1>1, <1>2, <1>5

LEMMA AccountCompacts ==
  ASSUME ShapeInv, Recorded, Said(node, tip) = due, Compacts, "overtaken" \notin mishaps'
  PROVE  Said(node', Leaf(disk')) = due'
<1> DEFINE b == ManualBatch
<1>1. alive /\ Rerooted(b) /\ manual # None /\ due' = due
  BY DEF Compacts
<1>2. Messages(data) = manual.msgs
  BY DEF Compacts, Overtaken
<1>3. /\ Follows(b, node) /\ Len(b) = 1 /\ b[1].parent = NoNode
      /\ b[1].says = Facts(manual.msgs)
  BY <1>1, Before1, ManualFollows
<1>4. Grew(node', node, b) /\ Leaf(disk') = Len(node) + Len(b)
  BY <1>1, Before1, RootSays
<1> HIDE DEF b
<1>5. Stacked(b, node) /\ 1 \in 1..Len(b) /\ SaidBy(b, 1) = b[1].says
  BY <1>3 DEF Stacked, SaidBy
<1>6. Said(node', Len(node) + 1) = Said(node, b[1].parent) \cup SaidBy(b, 1)
  BY <1>4, <1>5, StackGrows
<1>7. Said(node, b[1].parent) = {}
  BY <1>3, Before1, PathShape DEF NoNode
<1>8. ToSet(data) = Path(node, tip)
  BY <1>1 DEF Recorded, Mirrored
<1>9. Facts(Messages(data)) = Said(node, tip)
  BY <1>8, Before1, WholeWindowSays
<1> QED BY <1>1, <1>2, <1>3, <1>4, <1>5, <1>6, <1>7, <1>9

LEMMA AccountRewinds ==
  ASSUME ShapeInv, Recorded, NEW target, Rewinds(target)
  PROVE  Said(node', Leaf(disk')) = due'
<1> DEFINE b == <<RewindRow(target)>>
<1>1. alive /\ Rerooted(b) /\ due' = Facts(Above(target)) /\ target \in BranchTargets
  BY DEF Rewinds
<1>2. Grew(node', node, b) /\ Leaf(disk') = Len(node) + Len(b)
  BY <1>1, Before1, RootSays
<1>3. target \in ToSet(lines) /\ target \in 1..Len(node)
  BY <1>1, Before1, TargetsShape
<1>4. lines = disk  BY <1>1 DEF Recorded, Mirrored
<1>5. node[target].parent \in ToSet(disk) \cup {0}
  BY <1>3, <1>4 DEF Recorded, Closed
<1>6. ToSet(Before(target)) = Path(node, node[target].parent)
  <2>1. Before(target) = TraceChain(node, ToSet(disk), node[target].parent)
    BY <1>3, <1>4, Before1, RewindParentShape
  <2>2. On(node, ToSet(disk), node[target].parent) = Path(node, node[target].parent)
    BY <1>5, ClosedDisk DEF Recorded
  <2> QED BY <2>1, <2>2 DEF On
<1>7. Len(b) = 1 /\ Said(node', Len(node) + 1) = Said(node, node[target].parent)
  BY <1>2, <1>3, <1>6, Before1, RewindSays
<1>8. Facts(Above(target)) = Said(node, node[target].parent)
  BY <1>3, Before1, AboveShape
<1> HIDE DEF b
<1> QED BY <1>1, <1>2, <1>7, <1>8

LEMMA AccountKept ==
  ASSUME ShapeInv, RecordsInv, AccountInv, Move
  PROVE  AccountInv'
<1> SUFFICES ASSUME mishaps' \cap ({"overtaken", "half_batch"} \cup Lost) = {}
             PROVE  Said(node', Leaf(disk')) = due'
  BY DEF AccountInv, Leaf, Lost
<1>1. mishaps \subseteq mishaps'  BY DEF Move
<1>2. /\ "lost_write" \notin mishaps' /\ "lost_report" \notin mishaps' /\ "lost_root" \notin mishaps'
      /\ "overtaken" \notin mishaps' /\ "half_batch" \notin mishaps'
  BY DEF Lost
<1>3. Recorded /\ Said(node, Leaf(disk)) = due
  BY <1>1 DEF RecordsInv, AccountInv
<1>4. alive => tip = Leaf(disk) /\ Said(node, tip) = due
  BY <1>3 DEF Recorded, Mirrored
<1>5. CASE Quiet
  BY <1>3, <1>5 DEF Quiet, chainVars
<1>6. CASE \E b, i, j : Adds(b, i, j)
  <2>1. PICK b, i, j : Adds(b, i, j)  BY <1>6
  <2>2. i = Len(b) /\ j = Len(b) /\ alive  BY <1>2, <2>1 DEF Adds
  <2> QED BY <1>4, <2>1, <2>2, AccountAdds
<1>7. CASE Swaps
  <2>1. alive  BY <1>7 DEF Swaps
  <2> QED BY <1>3, <1>4, <1>7, <2>1, AccountSwaps
<1>8. CASE Compacts
  <2>1. alive  BY <1>8 DEF Compacts
  <2> QED BY <1>2, <1>3, <1>4, <1>8, <2>1, AccountCompacts
<1>9. CASE \E target : Rewinds(target)  BY <1>3, <1>9, AccountRewinds
<1>10. CASE \E b, k, j : Breaks(b, k, j)  BY <1>2, <1>10 DEF Breaks
<1>11. CASE Goes  BY <1>3, <1>11 DEF Goes
<1>12. CASE \E b, k : Dies(b, k)  BY <1>2, <1>12 DEF Dies
<1>13. CASE Returns  BY <1>3, <1>13 DEF Returns, Resumed
<1> QED BY <1>5, <1>6, <1>7, <1>8, <1>9, <1>10, <1>11, <1>12, <1>13 DEF Move

LEMMA AccountAlways == Spec => []AccountInv
<1>1. Init => AccountInv  BY AccountInit
<1>2. ShapeInv /\ RecordsInv /\ AccountInv /\ [Next]_vars => AccountInv'
  BY NextMoves, AccountKept
<1> QED BY <1>1, <1>2, ShapeAlways, RecordsAlways, PTL DEF Spec

\* The window the model is sent stands for everything said since the start or the
\* last rewind, and for nothing else.
THEOREM AllAccountedAlways == Spec => []AllAccounted
<1>1. ShapeInv /\ RecordsInv /\ AccountInv => AllAccounted
  <2> SUFFICES ASSUME ShapeInv, RecordsInv, AccountInv, alive,
                      mishaps \cap ({"overtaken", "half_batch"} \cup Lost) = {}
               PROVE  Facts(data) = due
    BY DEF AllAccounted, Spared
  <2>1. Recorded /\ Said(node, Leaf(disk)) = due
    BY DEF RecordsInv, AccountInv
  <2>2. tip = Leaf(disk) /\ ToSet(data) = Path(node, tip)
    BY <2>1 DEF Recorded, Mirrored
  <2>3. Facts(data) = Said(node, tip)
    BY <2>2, Before1, WholeWindowSays
  <2> QED BY <2>1, <2>2, <2>3
<1> QED BY <1>1, ShapeAlways, RecordsAlways, AccountAlways, PTL

-----------------------------------------------------------------------------
(* Tool calls and their results.                                            *)

IsA(n, u, kind) == u \in 1..Len(n) /\ n[u].kind = kind

\* A result hangs below its call, and nothing else does.
Coupled(n) ==
  \A u \in 1..Len(n) :
    /\ n[u].kind = "result" =>
         IsA(n, n[u].parent, "call") /\ n[u].call = n[n[u].parent].call
    /\ IsA(n, n[u].parent, "call") => n[u].kind = "result"
    /\ n[u].unzip # NoNode => n[u].kind = "summary"

\* No two calls of a path have the same id.
DistinctPath(n, u) ==
  \A v, w \in Path(n, u) :
    n[v].kind = "call" /\ n[w].kind = "call" /\ n[v].call = n[w].call => v = w

Distinct(n) == \A u \in 0..Len(n) : DistinctPath(n, u)

HoldsCalls(n, S) == \A u \in S : n[u].kind = "result" => n[u].parent \in S

Answered(n, S) == \A u \in S : n[u].kind = "call" => \E v \in S : n[v].parent = u

Coupling ==
  /\ Coupled(node) /\ Distinct(node)
  /\ HoldsCalls(node, ToSet(lines)) /\ HoldsCalls(node, ToSet(disk))
  /\ HoldsCalls(node, ToSet(data)) /\ Answered(node, ToSet(data))
  /\ ToSet(data) \subseteq Path(node, tip) /\ ToSet(lines) \subseteq ToSet(disk)
  /\ ~IsA(node, tip, "call") /\ ~IsA(node, Leaf(disk), "call")
  /\ \A p \in Prepared : ~IsA(node, p.end, "call")

PairInv == mishaps \cap {"half_batch", "lost_write", "lost_root"} = {} => Coupling

\* Every node of a path but its leaf has a child on it.
LEMMA ChildOn ==
  ASSUME NEW n, NEW known, Tree(n, known), NEW u \in 0..Len(n),
         NEW v \in On(n, known, u), v # u
  PROVE  \E c \in On(n, known, u) : c > v /\ n[c].parent = v
<1>1. /\ Len(n) \in Nat /\ known \subseteq 1..Len(n)
      /\ On(n, known, u) \subseteq known \cap (1..u)
  BY OnUnfold DEF Tree
<1>2. u \in known
  BY OnUnfold
<1>3. u \in On(n, known, u) /\ u \in Nat
  BY <1>1, <1>2, OnUnfold
<1> DEFINE S == On(n, known, u)
           A == {w \in S : w > v}
<1>4. v \in S /\ S \subseteq 1..u /\ S \subseteq known /\ u \in S
  BY <1>1, <1>3
<1>5. v \in Nat /\ v < u
  BY <1>3, <1>4
<1>6. A # {} /\ A \subseteq Nat
  BY <1>3, <1>4, <1>5
<1>7. PICK c \in A : \A w \in A : c <= w
  <2> HIDE DEF A
  <2> QED BY <1>6, LeastNatural
<1>8. c \in S /\ c > v /\ c \in known /\ c \in 0..Len(n) /\ c \in Nat
  BY <1>1, <1>4, <1>6, <1>7
<1>9. On(n, known, c) = {w \in S : w <= c}
  BY <1>8, OnPath
<1>10. /\ On(n, known, c) = On(n, known, n[c].parent) \cup {c}
       /\ n[c].parent \in 0..Len(n)
  BY <1>8, OnUnfold
<1>11. On(n, known, n[c].parent) \subseteq known \cap (1..n[c].parent)
  BY <1>10, OnUnfold
<1>12. v \in On(n, known, n[c].parent)
  BY <1>4, <1>5, <1>8, <1>9, <1>10
<1>13. v <= n[c].parent /\ n[c].parent \in Nat
  BY <1>5, <1>10, <1>11, <1>12
<1>14. n[c].parent \in known
  BY <1>10, <1>12, OnUnfold
<1>15. n[c].parent \in On(n, known, n[c].parent)
  BY <1>10, <1>14, OnUnfold
<1>16. n[c].parent \in S /\ n[c].parent < c
  <2>1. n[c].parent \in 0..(c - 1)  BY <1>8 DEF Tree
  <2> QED BY <1>8, <1>9, <1>10, <1>15, <2>1
<1>17. n[c].parent \notin A
  <2> HIDE DEF A
  <2> QED BY <1>7, <1>8, <1>13, <1>16
<1>18. n[c].parent = v
  BY <1>5, <1>13, <1>16, <1>17
<1> QED BY <1>8, <1>18

\* A chain traced from a node that is no call holds whole rounds.
LEMMA OnCoupled ==
  ASSUME NEW n, Family(n), Coupled(n), NEW known \in SUBSET (1..Len(n)), HoldsCalls(n, known),
         NEW u \in 0..Len(n), ~IsA(n, u, "call")
  PROVE  HoldsCalls(n, On(n, known, u)) /\ Answered(n, On(n, known, u))
<1>1. Tree(n, known) /\ Len(n) \in Nat
  BY FamilyShape
<1>2. On(n, known, u) \subseteq known \cap (1..u)
  BY <1>1, OnUnfold
<1>3. ASSUME NEW v \in On(n, known, u), n[v].kind = "call"
      PROVE  \E w \in On(n, known, u) : n[w].parent = v
  <2>1. v \in 1..Len(n)  BY <1>2
  <2>2. v # u  BY <1>3, <2>1 DEF IsA
  <2> QED BY <1>1, <2>2, ChildOn
<1>4. ASSUME NEW v \in On(n, known, u), n[v].kind = "result"
      PROVE  n[v].parent \in On(n, known, u)
  <2>1. v \in known /\ n[v].parent \in known  BY <1>2, <1>4 DEF HoldsCalls
  <2>2. v \in 0..Len(n) /\ n[v].parent \in 0..Len(n) BY <1>1, <2>1 DEF Tree
  <2>3. n[v].parent \in On(n, known, n[v].parent)
    BY <1>1, <2>1, <2>2, OnUnfold
  <2>4. n[v].parent \in On(n, known, v)
    BY <1>1, <2>1, <2>2, <2>3, OnUnfold
  <2>5. On(n, known, v) \subseteq On(n, known, u)
    BY <1>1, OnPath
  <2> QED BY <2>4, <2>5
<1> QED BY <1>3, <1>4 DEF HoldsCalls, Answered

\* Two neighbours in a rising sequence.
LEMMA RisingNeighbours ==
  ASSUME NEW s \in Seq(Nat), Rising(s), NEW i \in 1..Len(s), NEW j \in 1..Len(s), s[i] < s[j],
         \A k \in 1..Len(s) : s[k] <= s[i] \/ s[k] >= s[j]
  PROVE  j = i + 1
<1>1. Len(s) \in Nat /\ DOMAIN s = 1..Len(s) /\ \A k \in 1..Len(s) : s[k] \in Nat
  BY LenProperties, ElementOfSeq
<1>2. ~(j <= i)
  <2>1. j = i => s[i] = s[j]  OBVIOUS
  <2>2. j < i => s[j] < s[i]  BY <1>1 DEF Rising
  <2> QED BY <1>1, <2>1, <2>2
<1>3. ~(i + 1 < j)
  <2> SUFFICES ASSUME i + 1 < j PROVE FALSE
    OBVIOUS
  <2>1. i + 1 \in 1..Len(s)  BY <1>1
  <2> DEFINE k == i + 1
  <2>2. k \in 1..Len(s) /\ i < k /\ k < j  BY <1>1, <2>1
  <2> HIDE DEF k
  <2>3. s[i] < s[k] /\ s[k] < s[j]  BY <1>1, <2>2 DEF Rising
  <2>4. s[k] <= s[i] \/ s[k] >= s[j]  BY <2>2
  <2> QED BY <1>1, <2>2, <2>3, <2>4
<1> QED BY <1>1, <1>2, <1>3

\* The messages of a window come in pairs of call and result.
PairedWindow(msgs) ==
  \A i \in 1..Len(msgs) :
    /\ node[msgs[i]].kind = "call" =>
         /\ i + 1 \in 1..Len(msgs) /\ node[msgs[i + 1]].kind = "result"
         /\ node[msgs[i + 1]].call = node[msgs[i]].call
    /\ node[msgs[i]].kind = "result" =>
         /\ i - 1 \in 1..Len(msgs) /\ node[msgs[i - 1]].kind = "call"
         /\ node[msgs[i]].call = node[msgs[i - 1]].call

\* A result comes right behind its call.
LEMMA NextMessage ==
  ASSUME ShapeInv, Coupling, NEW i \in 1..Len(Messages(data)), NEW j \in 1..Len(Messages(data)),
         node[Messages(data)[j]].parent = Messages(data)[i]
  PROVE  j = i + 1
<1>1. PICK w : w = Messages(data)  OBVIOUS
<1>2. /\ w \in Seq(1..Len(node)) /\ Rising(w) /\ ToSet(w) \subseteq ToSet(data)
      /\ Len(node) \in Nat /\ Family(node) /\ tip \in 0..Len(node)
  BY <1>1, Before1, MessagesShape DEF ChainShape
<1>3. w \in Seq(Nat)
  <2>1. 1..Len(node) \subseteq Nat  BY <1>2
  <2> QED BY <1>2, <2>1, SeqWidens
<1>4. /\ DOMAIN w = 1..Len(w) /\ Len(w) \in Nat
      /\ \A k \in 1..Len(w) : w[k] \in 1..Len(node) /\ w[k] \in Path(node, tip)
  <2>1. DOMAIN w = 1..Len(w) /\ Len(w) \in Nat /\ \A k \in 1..Len(w) : w[k] \in 1..Len(node)
    BY <1>2, LenProperties, ElementOfSeq
  <2>2. \A k \in 1..Len(w) : w[k] \in ToSet(w)  BY <2>1 DEF ToSet
  <2> QED BY <1>2, <2>1, <2>2 DEF Coupling
<1> DEFINE u == w[i]
           v == w[j]
<1>5. u \in 1..Len(node) /\ v \in 1..Len(node) /\ v \in Path(node, tip) /\ node[v].parent = u
  BY <1>1, <1>4
<1>6. u < v /\ Path(node, v) = Path(node, u) \cup {v}
  BY <1>2, <1>5, PathShape
<1>7. Path(node, v) = {x \in Path(node, tip) : x <= v}
  BY <1>2, <1>5, PathShape
<1>8. Path(node, u) \subseteq 1..u
  <2>1. u \in 0..Len(node)  BY <1>2, <1>5
  <2> HIDE DEF u
  <2> QED BY <1>2, <2>1, PathShape
<1>9. ASSUME NEW k \in 1..Len(w) PROVE w[k] <= u \/ w[k] >= v
  <2>1. PICK x : x = w[k]  OBVIOUS
  <2>2. x \in Path(node, tip) /\ x \in 1..Len(node)  BY <1>4, <2>1
  <2> HIDE DEF u, v
  <2>3. CASE x <= v
    <3>1. x \in Path(node, u) \cup {v}  BY <1>6, <1>7, <2>2, <2>3
    <3> QED BY <1>2, <1>5, <1>8, <2>1, <2>2, <3>1
  <2>4. CASE ~(x <= v)  BY <1>2, <1>5, <2>1, <2>2, <2>4
  <2> QED BY <2>3, <2>4
<1>10. i \in 1..Len(w) /\ j \in 1..Len(w)  BY <1>1
<1> QED BY <1>2, <1>3, <1>6, <1>9, <1>10, RisingNeighbours

LEMMA WindowIsPaired ==
  ASSUME ShapeInv, Coupling
  PROVE  PairedWindow(Messages(data))
<1>1. PICK w : w = Messages(data)  OBVIOUS
<1>2. /\ w \in Seq(1..Len(node)) /\ Rising(w)
      /\ ToSet(w) = {u \in ToSet(data) : node[u].kind # "event"}
      /\ Len(node) \in Nat /\ Family(node) /\ ToSet(data) \subseteq 1..Len(node)
  BY <1>1, Before1, MessagesShape DEF ChainShape
<1>3. /\ DOMAIN w = 1..Len(w) /\ Len(w) \in Nat
      /\ \A k \in 1..Len(w) : w[k] \in 1..Len(node) /\ w[k] \in ToSet(w)
      /\ \A u \in ToSet(w) : \E k \in 1..Len(w) : w[k] = u
  <2>1. DOMAIN w = 1..Len(w) /\ Len(w) \in Nat /\ \A k \in 1..Len(w) : w[k] \in 1..Len(node)
    BY <1>2, LenProperties, ElementOfSeq
  <2> QED BY <2>1 DEF ToSet
<1>4. \A i, j \in 1..Len(w) : node[w[j]].parent = w[i] => j = i + 1
  BY <1>1, NextMessage
<1>5. ASSUME NEW i \in 1..Len(w), node[w[i]].kind = "call"
      PROVE  /\ i + 1 \in 1..Len(w) /\ node[w[i + 1]].kind = "result"
             /\ node[w[i + 1]].call = node[w[i]].call
  <2>1. PICK v \in ToSet(data) : node[v].parent = w[i]
    BY <1>2, <1>3, <1>5 DEF Coupling, Answered
  <2>2. v \in 1..Len(node) /\ IsA(node, node[v].parent, "call")
    BY <1>2, <1>3, <1>5, <2>1 DEF IsA
  <2>3. node[v].kind = "result" /\ node[v].call = node[w[i]].call
    BY <2>1, <2>2 DEF Coupling, Coupled
  <2>4. v \in ToSet(w)  BY <1>2, <2>3
  <2>5. PICK j \in 1..Len(w) : w[j] = v  BY <1>3, <2>4
  <2>6. j = i + 1  BY <1>4, <2>1, <2>5
  <2> QED BY <2>3, <2>5, <2>6
<1>6. ASSUME NEW i \in 1..Len(w), node[w[i]].kind = "result"
      PROVE  /\ i - 1 \in 1..Len(w) /\ node[w[i - 1]].kind = "call"
             /\ node[w[i]].call = node[w[i - 1]].call
  <2>1. w[i] \in 1..Len(node) /\ w[i] \in ToSet(data)
    BY <1>2, <1>3
  <2> DEFINE u == node[w[i]].parent
  <2>2. u \in ToSet(data) /\ IsA(node, u, "call") /\ node[w[i]].call = node[u].call
    BY <1>6, <2>1 DEF Coupling, Coupled, HoldsCalls
  <2>3. node[u].kind = "call"  BY <2>2 DEF IsA
  <2>4. u \in ToSet(w)  BY <1>2, <2>2, <2>3
  <2>5. PICK j \in 1..Len(w) : w[j] = u  BY <1>3, <2>4
  <2>6. i = j + 1  BY <1>4, <2>5
  <2>7. i - 1 = j  BY <1>3, <2>6
  <2> QED BY <2>2, <2>3, <2>5, <2>7
<1> QED BY <1>1, <1>5, <1>6 DEF PairedWindow

\* The head of a window with whole rounds, and with a safe end.
RoundsOf(head) ==
  /\ \A i \in 1..Len(head) : node[head[i]].kind = "result" =>
       i - 1 \in 1..Len(head) /\ node[head[i - 1]].kind = "call"
         /\ node[head[i]].call = node[head[i - 1]].call
  /\ \A i, j \in 1..Len(head) :
       node[head[i]].kind = "call" /\ node[head[j]].kind = "call"
         /\ node[head[i]].call = node[head[j]].call => i = j
  /\ node[head[Len(head)]].kind # "call"

\* The safe cut never falls between a call and its result.
LEMMA CutIsSafe ==
  ASSUME NEW T, NEW head \in Seq(T), head # <<>>, RoundsOf(head)
  PROVE  /\ CalcCutIdx(head) \in 1..Len(head)
         /\ node[head[CalcCutIdx(head)]].kind # "call"
<1>1. Len(head) \in Nat /\ Len(head) # 0 /\ CalcCutIdx(head) \in 1..Len(head)
  <2>1. CalcCutIdx(head) \in 0..Len(head) /\ CalcCutIdx(head) # 0
    BY CutShape
  <2> QED BY <2>1, LenProperties, EmptySeq
<1> SUFFICES node[head[CalcCutIdx(head)]].kind # "call"
  BY <1>1
<1> DEFINE cut == Min({Len(head), Window - Keep})
<1>2. cut \in 1..Len(head)
  <2>1. Window - Keep \in Nat /\ Window - Keep # 0
    BY ChainAssumption
  <2>2. cut \in {Len(head), Window - Keep} /\ \A y \in {Len(head), Window - Keep} : cut <= y
    <3>1. {Len(head), Window - Keep} \subseteq Nat /\ {Len(head), Window - Keep} # {}
      BY <1>1, <2>1
    <3> QED BY <3>1, MinShape
  <2> HIDE DEF cut
  <2> QED BY <1>1, <2>1, <2>2
<1>3. CalcCutIdx(head) = FindSafeCutIdx(head, cut)
  BY DEF CalcCutIdx
<1> HIDE DEF cut
<1> DEFINE calls(i, j) == {node[head[k]].call : k \in {l \in i..j : node[head[l]].kind = "call"}}
           results(i, j) == {node[head[k]].call : k \in {l \in i..j : node[head[l]].kind = "result"}}
           open == calls(1, cut) \ results(1, cut)
           closed == {j \in cut..Len(head) : open \subseteq results(cut + 1, j)}
<1>4. FindSafeCutIdx(head, cut) = IF closed = {} THEN Len(head) ELSE Min(closed)
  BY DEF FindSafeCutIdx
<1>5. CASE closed = {}
  BY <1>3, <1>4, <1>5 DEF RoundsOf
<1>6. CASE closed # {}
  <2> DEFINE c == Min(closed)
  <2>1. c \in closed /\ \A y \in closed : c <= y
    <3>1. closed \subseteq Nat  BY <1>1, <1>2
    <3> HIDE DEF closed
    <3> QED BY <1>6, <3>1, MinShape
  <2>2. CalcCutIdx(head) = c  BY <1>3, <1>4, <1>6
  <2>3. c \in cut..Len(head) /\ open \subseteq results(cut + 1, c)
    <3> HIDE DEF c
    <3> QED BY <2>1
  <2> HIDE DEF c
  <2>4. c \in Nat /\ cut \in Nat /\ c \in 1..Len(head)
    BY <1>1, <1>2, <2>3
  <2>5. ASSUME node[head[c]].kind = "call" PROVE FALSE
    <3>1. CASE c = cut
      <4>1. results(cut + 1, c) = {}
        <5>1. \A l \in (cut + 1)..c : FALSE  BY <2>4, <3>1
        <5> QED BY <5>1
      <4>2. open = {}  BY <2>3, <4>1
      <4>3. c \in 1..cut  BY <2>4, <3>1
      <4>4. node[head[c]].call \in calls(1, cut)
        BY <2>5, <4>3
      <4>5. node[head[c]].call \in results(1, cut)
        BY <4>2, <4>4
      <4>6. PICK k \in 1..cut :
              node[head[k]].kind = "result" /\ node[head[k]].call = node[head[c]].call
        BY <4>5
      <4>7. k \in 1..Len(head)  BY <1>2, <2>4, <4>6
      <4>8. /\ k - 1 \in 1..Len(head) /\ node[head[k - 1]].kind = "call"
            /\ node[head[k]].call = node[head[k - 1]].call
        BY <4>6, <4>7 DEF RoundsOf
      <4>9. k - 1 = c
        <5> DEFINE i == k - 1
        <5>1. /\ i \in 1..Len(head) /\ node[head[i]].kind = "call"
              /\ node[head[i]].call = node[head[c]].call
          BY <4>6, <4>8
        <5> HIDE DEF i
        <5>2. i = c  BY <2>4, <2>5, <5>1 DEF RoundsOf
        <5> QED BY <5>2 DEF i
      <4> QED BY <2>4, <3>1, <4>6, <4>9
    <3>2. CASE c # cut
      <4> DEFINE d == c - 1
      <4>1. d \in cut..Len(head) /\ d < c /\ d \in Nat /\ d + 1 = c
        BY <2>3, <2>4, <3>2
      <4> HIDE DEF d
      <4>2. d \notin closed
        <5> HIDE DEF closed
        <5> QED BY <2>1, <2>4, <4>1 DEF c
      <4>3. ~(open \subseteq results(cut + 1, d))
        <5> HIDE DEF open, results
        <5> QED BY <4>1, <4>2
      <4>4. \A l \in (cut + 1)..c : l \in (cut + 1)..d \/ l = c
        BY <2>4, <4>1
      <4>5. results(cut + 1, c) \subseteq results(cut + 1, d)
        <5> SUFFICES ASSUME NEW l \in (cut + 1)..c, node[head[l]].kind = "result"
                     PROVE  node[head[l]].call \in results(cut + 1, d)
          OBVIOUS
        <5>1. l # c  BY <2>5
        <5>2. l \in (cut + 1)..d  BY <4>4, <5>1
        <5> QED BY <5>2
      <4> HIDE DEF open, results
      <4> QED BY <2>3, <4>3, <4>5
    <3> QED BY <3>1, <3>2
  <2> QED BY <2>2, <2>5
<1> QED BY <1>5, <1>6

\* The window of a coupled chain, and its head without the last user message.
LEMMA HeadHasRounds ==
  ASSUME ShapeInv, Coupling, NEW msgs, msgs = Messages(data), msgs # <<>>
  PROVE  /\ RoundsOf(msgs)
         /\ (node[Last(msgs)].kind = "user" /\ Front(msgs) # <<>>) => RoundsOf(Front(msgs))
<1>1. /\ msgs \in Seq(1..Len(node)) /\ Rising(msgs) /\ ToSet(msgs) \subseteq ToSet(data)
      /\ tip \in 0..Len(node) /\ PairedWindow(msgs)
  BY Before1, MessagesShape, WindowIsPaired DEF ChainShape
<1>2. /\ DOMAIN msgs = 1..Len(msgs) /\ Len(msgs) \in Nat /\ Len(msgs) # 0
      /\ \A i \in 1..Len(msgs) : msgs[i] \in 1..Len(node) /\ msgs[i] \in ToSet(msgs)
  <2>1. DOMAIN msgs = 1..Len(msgs) /\ Len(msgs) \in Nat /\ Len(msgs) # 0
        /\ \A i \in 1..Len(msgs) : msgs[i] \in 1..Len(node)
    BY <1>1, LenProperties, ElementOfSeq, EmptySeq
  <2> QED BY <2>1 DEF ToSet
<1>3. \A i \in 1..Len(msgs) : msgs[i] \in Path(node, tip)
  BY <1>1, <1>2 DEF Coupling
<1>4. \A i, j \in 1..Len(msgs) : msgs[i] = msgs[j] => i = j
  <2> SUFFICES ASSUME NEW i \in 1..Len(msgs), NEW j \in 1..Len(msgs), msgs[i] = msgs[j]
               PROVE  i = j
    OBVIOUS
  <2>1. msgs[i] \in Nat /\ i \in Nat /\ j \in Nat  BY <1>2
  <2>2. \A a, b \in 1..Len(msgs) : a < b => msgs[a] < msgs[b]
    BY <1>1, <1>2 DEF Rising
  <2>3. ~(i < j)  BY <2>1, <2>2
  <2>4. ~(j < i)  BY <2>1, <2>2
  <2> QED BY <2>1, <2>3, <2>4
<1>5. \A i, j \in 1..Len(msgs) :
        node[msgs[i]].kind = "call" /\ node[msgs[j]].kind = "call"
          /\ node[msgs[i]].call = node[msgs[j]].call => i = j
  <2>1. DistinctPath(node, tip)  BY <1>1 DEF Coupling, Distinct
  <2> QED BY <1>3, <1>4, <2>1 DEF DistinctPath
<1>6. node[msgs[Len(msgs)]].kind # "call"
  BY <1>1, <1>2 DEF PairedWindow
<1>7. RoundsOf(msgs)
  BY <1>1, <1>5, <1>6 DEF RoundsOf, PairedWindow
<1>8. ASSUME node[Last(msgs)].kind = "user", Front(msgs) # <<>>
      PROVE  RoundsOf(Front(msgs))
  <2>1. PICK head : head = Front(msgs)  OBVIOUS
  <2>2. /\ Len(head) = Len(msgs) - 1 /\ Len(head) \in Nat
        /\ \A i \in 1..Len(head) : head[i] = msgs[i]
    BY <1>1, <2>1, FrontShape
  <2>3. Len(head) # 0
    <3>1. head \in Seq(1..Len(node))  BY <1>1, <2>1, FrontShape
    <3> QED BY <1>8, <2>1, <3>1, EmptySeq
  <2>4. \A i \in 1..Len(head) : i \in 1..Len(msgs)  BY <1>2, <2>2
  <2>5. Last(msgs) = msgs[Len(msgs)]  BY DEF Last
  <2>6. \A i, j \in 1..Len(head) :
          node[head[i]].kind = "call" /\ node[head[j]].kind = "call"
            /\ node[head[i]].call = node[head[j]].call => i = j
    BY <1>5, <2>2, <2>4
  <2>7. ASSUME NEW i \in 1..Len(head), node[head[i]].kind = "result"
        PROVE  /\ i - 1 \in 1..Len(head) /\ node[head[i - 1]].kind = "call"
               /\ node[head[i]].call = node[head[i - 1]].call
    <3>1. i \in 1..Len(msgs) /\ node[msgs[i]].kind = "result"  BY <2>2, <2>4, <2>7
    <3>2. /\ i - 1 \in 1..Len(msgs) /\ node[msgs[i - 1]].kind = "call"
          /\ node[msgs[i]].call = node[msgs[i - 1]].call
      BY <1>1, <3>1 DEF PairedWindow
    <3>3. i - 1 \in 1..Len(head)  BY <2>2, <3>2
    <3> QED BY <2>2, <3>2, <3>3
  <2>8. node[head[Len(head)]].kind # "call"
    <3> DEFINE k == Len(head)
    <3>1. k \in 1..Len(head) /\ k \in 1..Len(msgs) /\ k + 1 = Len(msgs)
      BY <1>2, <2>2, <2>3
    <3>2. head[k] = msgs[k]  BY <2>2, <3>1
    <3> HIDE DEF k
    <3>3. node[msgs[k]].kind = "call" => node[msgs[k + 1]].kind = "result"
      BY <1>1, <3>1 DEF PairedWindow
    <3>4. node[msgs[k]].kind # "call"
      BY <1>8, <2>5, <3>1, <3>3
    <3> QED BY <3>2, <3>4 DEF k
  <2> QED BY <2>1, <2>6, <2>7, <2>8 DEF RoundsOf
<1> QED BY <1>7, <1>8

\* What is summarised never ends in a call.
LEMMA BackgroundEnds ==
  ASSUME ShapeInv, Coupling, Background(Messages(data)) # None
  PROVE  ~IsA(node, Background(Messages(data)).end, "call")
<1>1. PICK msgs : msgs = Messages(data)  OBVIOUS
<1>2. msgs \in Seq(1..Len(node))
  BY <1>1, Before1, MessagesShape DEF ChainShape
<1> DEFINE head == IF msgs # <<>> /\ node[Last(msgs)].kind = "user" THEN Front(msgs) ELSE msgs
<1>3. Background(msgs) = IF CalcCutIdx(head) = 0 THEN None
                         ELSE [start |-> head[1], end |-> head[CalcCutIdx(head)],
                               says |-> Facts(SubSeq(head, 1, CalcCutIdx(head)))]
  BY DEF Background
<1>4. head \in Seq(1..Len(node))
  BY <1>2, FrontShape
<1>5. CalcCutIdx(head) # 0 /\ Background(msgs).end = head[CalcCutIdx(head)]
  <2> HIDE DEF head
  <2> QED BY <1>1, <1>3
<1>6. head # <<>>
  <2>1. CalcCutIdx(<<>>) = 0  BY DEF CalcCutIdx
  <2> HIDE DEF head
  <2> QED BY <1>5, <2>1
<1>7. RoundsOf(head)
  <2>1. CASE msgs # <<>> /\ node[Last(msgs)].kind = "user"
    BY <1>1, <1>6, <2>1, HeadHasRounds
  <2>2. CASE ~(msgs # <<>> /\ node[Last(msgs)].kind = "user")
    BY <1>1, <1>6, <2>2, HeadHasRounds
  <2> QED BY <2>1, <2>2
<1> HIDE DEF head
<1>8. node[head[CalcCutIdx(head)]].kind # "call"
  BY <1>4, <1>6, <1>7, CutIsSafe
<1> QED BY <1>1, <1>5, <1>8 DEF IsA

\* A batch that leaves the rounds whole.
Couples(b, n, m) ==
  \A i \in 1..Len(b) :
    /\ b[i].kind = "result" =>
         IsA(m, b[i].parent, "call") /\ b[i].call = m[b[i].parent].call
    /\ IsA(m, b[i].parent, "call") => b[i].kind = "result"
    /\ b[i].unzip # NoNode => b[i].kind = "summary"
    /\ DistinctPath(m, Len(n) + i)

LEMMA CouplesGrow ==
  ASSUME NEW n, NEW b, NEW m, Grew(m, n, b), Coupled(n), Distinct(n), Couples(b, n, m)
  PROVE  /\ Coupled(m) /\ Distinct(m)
         /\ \A u \in 0..Len(n) : IsA(m, u, "call") <=> IsA(n, u, "call")
<1>1. /\ Family(n) /\ Len(n) \in Nat /\ Len(b) \in Nat /\ Len(m) = Len(n) + Len(b)
      /\ \A u \in 1..Len(n) : m[u] = n[u]
      /\ \A i \in 1..Len(b) : m[Len(n) + i] = b[i]
  BY FamilyGrows, FamilyShape DEF Grew
<1>2. \A u \in 0..Len(n) : Path(m, u) = Path(n, u) /\ Path(n, u) \subseteq 1..Len(n)
  BY <1>1, PathsGrow, PathShape
<1>3. \A u \in 0..Len(n) : IsA(m, u, "call") <=> IsA(n, u, "call")
  BY <1>1 DEF IsA
<1>4. \A u \in 1..Len(m) : u \notin 1..Len(n) =>
        u - Len(n) \in 1..Len(b) /\ Len(n) + (u - Len(n)) = u
  BY <1>1
<1>5. ASSUME NEW u \in 0..Len(m) PROVE DistinctPath(m, u)
  <2>1. CASE u \in 0..Len(n)
    <3>1. DistinctPath(n, u)  BY <2>1 DEF Distinct
    <3>2. \A v \in Path(n, u) : m[v] = n[v]  BY <1>1, <1>2, <2>1
    <3> QED BY <1>2, <2>1, <3>1, <3>2 DEF DistinctPath
  <2>2. CASE u \notin 0..Len(n)
    <3> DEFINE i == u - Len(n)
    <3>1. i \in 1..Len(b) /\ Len(n) + i = u
      BY <1>1, <1>4, <2>2
    <3> HIDE DEF i
    <3> QED BY <3>1 DEF Couples
  <2> QED BY <2>1, <2>2
<1>6. ASSUME NEW u \in 1..Len(m)
      PROVE  /\ m[u].kind = "result" =>
                  IsA(m, m[u].parent, "call") /\ m[u].call = m[m[u].parent].call
             /\ IsA(m, m[u].parent, "call") => m[u].kind = "result"
             /\ m[u].unzip # NoNode => m[u].kind = "summary"
  <2>1. CASE u \in 1..Len(n)
    <3>1. m[u] = n[u] /\ n[u].parent \in 0..Len(n)
      BY <1>1, <2>1, PathShape
    <3>2. IsA(n, n[u].parent, "call") => m[n[u].parent] = n[n[u].parent]
      BY <1>1 DEF IsA
    <3> QED BY <1>3, <2>1, <3>1, <3>2 DEF Coupled
  <2>2. CASE u \notin 1..Len(n)
    <3> DEFINE i == u - Len(n)
    <3>1. i \in 1..Len(b) /\ Len(n) + i = u
      BY <1>4, <2>2
    <3> HIDE DEF i
    <3>2. m[u] = b[i]  BY <1>1, <3>1
    <3> QED BY <3>1, <3>2 DEF Couples
  <2> QED BY <2>1, <2>2
<1> QED BY <1>3, <1>5, <1>6 DEF Coupled, Distinct

\* The log and the memory map take the first k nodes of a batch.
LEMMA HoldsGrows ==
  ASSUME NEW n, NEW b, NEW m, Grew(m, n, b), NEW S \in SUBSET (1..Len(n)), HoldsCalls(n, S),
         NEW k \in 0..Len(b), NEW R, R = S \cup Span(n, k),
         \A i \in 1..k : b[i].kind = "result" => b[i].parent \in R
  PROVE  HoldsCalls(m, R)
<1>1. /\ Len(n) \in Nat /\ Len(b) \in Nat
      /\ \A u \in 1..Len(n) : m[u] = n[u]
      /\ \A i \in 1..Len(b) : m[Len(n) + i] = b[i]
  BY FamilyGrows, FamilyShape DEF Grew
<1> SUFFICES ASSUME NEW u \in R, m[u].kind = "result"
             PROVE  m[u].parent \in R
  BY DEF HoldsCalls
<1>2. CASE u \in S
  <2>1. m[u] = n[u]  BY <1>1, <1>2
  <2>2. n[u].parent \in S  BY <1>2, <2>1 DEF HoldsCalls
  <2> QED BY <2>1, <2>2
<1>3. CASE u \in Span(n, k)
  <2> DEFINE i == u - Len(n)
  <2>1. i \in 1..k /\ i \in 1..Len(b) /\ Len(n) + i = u
    BY <1>1, <1>3 DEF Span
  <2> HIDE DEF i
  <2>2. m[u] = b[i]  BY <1>1, <2>1
  <2> QED BY <2>1, <2>2
<1> QED BY <1>2, <1>3

\* A new chain of whole rounds.
LEMMA CoupledRoot ==
  ASSUME ShapeInv, Coupling, NEW b, Rerooted(b), Couples(b, node, node'),
         b[Len(b)].kind # "call", Prepared' \subseteq Prepared,
         \A i \in 1..Len(b) : b[i].kind = "result" =>
           b[i].parent \in ToSet(lines) \cup Span(node, Len(b))
  PROVE  Coupling'
<1>1. /\ ToSet(data') \subseteq Path(node', tip')
      /\ tip' = Len(node) + Len(b) /\ Leaf(disk') = tip' /\ Grew(node', node, b)
      /\ ToSet(lines') = ToSet(lines) \cup Span(node, Len(b))
      /\ ToSet(disk') = ToSet(disk) \cup Span(node, Len(b))
  BY Before1, RootSays DEF Span
<1>2. /\ Len(node) \in Nat /\ Len(b) \in Nat /\ Len(b) > 0 /\ Len(node') = Len(node) + Len(b)
      /\ \A i \in 1..Len(b) : node'[Len(node) + i] = b[i]
      /\ Family(node')
  BY <1>1, FamilyGrows, FamilyShape DEF Grew, Follows
<1>3. /\ Coupled(node') /\ Distinct(node')
      /\ \A u \in 0..Len(node) : IsA(node', u, "call") <=> IsA(node, u, "call")
  BY <1>1, CouplesGrow DEF Coupling
<1>4. ~IsA(node', tip', "call")
  <2>1. Len(b) \in 1..Len(b)  BY <1>2
  <2>2. node'[Len(node) + Len(b)] = b[Len(b)]  BY <1>2, <2>1
  <2> QED BY <1>1, <2>2 DEF IsA
<1>5. Len(b) \in 0..Len(b) /\ ToSet(lines) \in SUBSET (1..Len(node))
      /\ ToSet(disk) \in SUBSET (1..Len(node)) /\ ToSet(lines) \subseteq ToSet(disk)
  BY <1>2, Before1 DEF Coupling
<1>6. HoldsCalls(node', ToSet(lines'))
  <2>1. HoldsCalls(node, ToSet(lines))  BY DEF Coupling
  <2> QED BY <1>1, <1>5, <2>1, HoldsGrows
<1>7. HoldsCalls(node', ToSet(disk'))
  <2>1. HoldsCalls(node, ToSet(disk))  BY DEF Coupling
  <2>2. \A i \in 1..Len(b) : b[i].kind = "result" =>
          b[i].parent \in ToSet(disk) \cup Span(node, Len(b))
    BY <1>5
  <2> QED BY <1>1, <1>5, <2>1, <2>2, HoldsGrows
<1>8. HoldsCalls(node', ToSet(data')) /\ Answered(node', ToSet(data'))
  <2> DEFINE D == ToSet(lines')
  <2>1. ToSet(data') = On(node', D, tip')
    BY DEF Rerooted, On
  <2>2. D \in SUBSET (1..Len(node'))
    <3>1. Written(b, Len(b), Len(b))  BY DEF Rerooted
    <3>2. lines' \in Seq(1..Len(node'))  BY <3>1, Before1, WrittenShape
    <3> QED BY <3>2, RangeInSeq
  <2>3. tip' \in 0..Len(node')  BY <1>1, <1>2
  <2>4. HoldsCalls(node', D)  BY <1>6
  <2> HIDE DEF D
  <2> QED BY <1>2, <1>3, <1>4, <2>1, <2>2, <2>3, <2>4, OnCoupled
<1>9. \A p \in Prepared' : ~IsA(node', p.end, "call")
  BY <1>3, Before1 DEF Coupling
<1>10. ToSet(lines') \subseteq ToSet(disk')
  BY <1>1, <1>5
<1> QED BY <1>1, <1>3, <1>4, <1>6, <1>7, <1>8, <1>9, <1>10 DEF Coupling, Leaf

\* What a step of the turn, a reminder or a report writes.
LEMMA SaidShape ==
  ASSUME ShapeInv, NEW b, Said1(b)
  PROVE  /\ Follows(b, node) /\ Len(b) \in 1..2
         /\ \A i \in 1..Len(b) :
              /\ b[i].unzip = 0
              /\ b[i].kind = "call" => i = 1 /\ b[i].call = Len(node) + 1
              /\ b[i].kind = "result" <=> i = 2
         /\ Len(b) = 2 => b[1].kind = "call" /\ b[2].call = b[1].call
         /\ b[1].kind = "call" => Len(b) = 2
<1>1. Follows(b, node)  BY Before1, Said1Shape
<1>2. CASE \E seen \in Seq(SUBSET (1..Len(node))) : b = RoundBatch(seen)
  <2>1. PICK seen \in Seq(SUBSET (1..Len(node))) : b = RoundBatch(seen)  BY <1>2
  <2>2. /\ Len(b) = 2 /\ b[1].unzip = 0 /\ b[2].unzip = 0
        /\ b[1].kind = "call" /\ b[2].kind = "result"
        /\ b[1].call = Len(node) + 1 /\ b[2].call = Len(node) + 1
    BY <2>1 DEF RoundBatch, Original, NoNode, Fresh
  <2>3. \A i \in 1..2 : i = 1 \/ i = 2  OBVIOUS
  <2> QED BY <1>1, <2>2, <2>3
<1>3. CASE \E seen \in Seq(SUBSET (1..Len(node))) : \E kind \in {"user", "event", "answer"} :
             b = <<Original(kind, Fresh, NoNode, seen)>>
  <2>1. PICK seen \in Seq(SUBSET (1..Len(node))), kind \in {"user", "event", "answer"} :
             b = <<Original(kind, Fresh, NoNode, seen)>>  BY <1>3
  <2>2. Len(b) = 1 /\ b[1].unzip = 0 /\ b[1].kind = kind
    BY <2>1 DEF Original, NoNode
  <2>3. \A i \in 1..1 : i = 1  OBVIOUS
  <2> QED BY <1>1, <2>2, <2>3
<1> QED BY <1>2, <1>3 DEF Said1

\* The same, hung below the tip.
LEMMA LinkShape ==
  ASSUME ShapeInv, NEW b, Said1(b)
  PROVE  /\ Follows(b, node) /\ Len(Linked(b)) = Len(b) /\ Len(b) \in 1..2
         /\ Linked(b)[1].parent = tip
         /\ \A i \in 1..Len(b) :
              /\ Linked(b)[i].unzip = 0
              /\ Linked(b)[i].kind = "call" => i = 1 /\ Linked(b)[i].call = Len(node) + 1
              /\ Linked(b)[i].kind = "result" <=> i = 2
         /\ Len(b) = 2 => /\ Linked(b)[1].kind = "call" /\ Linked(b)[2].call = Linked(b)[1].call
                          /\ Linked(b)[2].parent = Len(node) + 1
         /\ Linked(b)[1].kind = "call" => Len(b) = 2
         /\ Linked(b)[Len(b)].kind # "call"
<1>1. Follows(b, node) /\ Len(b) \in 1..2  BY SaidShape
<1>2. Len(Linked(b)) = Len(b) /\ \A i \in 1..Len(b) : IsLink(Linked(b)[i], b[i], i)
  BY <1>1, Before1, LinkedFollows
<1>3. PICK l : l = Linked(b)  OBVIOUS
<1>4. \A i \in 1..Len(b) :
        /\ l[i].kind = b[i].kind /\ l[i].call = b[i].call /\ l[i].unzip = b[i].unzip
        /\ l[i].parent = IF i = 1 THEN tip ELSE Len(node) + i - 1
  BY <1>2, <1>3 DEF IsLink
<1>5. Len(node) \in Nat  BY Before1
<1>6. 1 \in 1..Len(b) /\ Len(b) \in 1..Len(b) /\ (Len(b) = 2 => 2 \in 1..Len(b))
      /\ (Len(b) = 1 \/ Len(b) = 2)
  BY <1>1
<1>7. l[1].parent = tip  BY <1>4, <1>6
<1>8. \A i \in 1..Len(b) :
        /\ l[i].unzip = 0
        /\ l[i].kind = "call" => i = 1 /\ l[i].call = Len(node) + 1
        /\ l[i].kind = "result" <=> i = 2
  BY <1>4, SaidShape
<1>9. Len(b) = 2 => l[1].kind = "call" /\ l[2].call = l[1].call /\ l[2].parent = Len(node) + 1
  BY <1>4, <1>5, <1>6, SaidShape
<1>10. l[1].kind = "call" => Len(b) = 2
  BY <1>4, <1>6, SaidShape
<1>11. l[Len(b)].kind # "call"
  BY <1>6, <1>8, <1>10
<1> QED BY <1>1, <1>2, <1>3, <1>7, <1>8, <1>9, <1>10, <1>11

LEMMA RoundCouples ==
  ASSUME ShapeInv, Coupled(node), Distinct(node), ~IsA(node, tip, "call"),
         NEW b, Said1(b), NEW m, Grew(m, node, Linked(b))
  PROVE  Couples(Linked(b), node, m)
<1>1. PICK l : l = Linked(b)  OBVIOUS
<1>2. /\ Follows(b, node) /\ Len(l) = Len(b) /\ Len(b) \in 1..2
      /\ l[1].parent = tip
      /\ \A i \in 1..Len(b) :
           /\ l[i].unzip = 0
           /\ l[i].kind = "call" => i = 1 /\ l[i].call = Len(node) + 1
           /\ l[i].kind = "result" <=> i = 2
      /\ Len(b) = 2 => /\ l[1].kind = "call" /\ l[2].call = l[1].call
                       /\ l[2].parent = Len(node) + 1
      /\ l[1].kind = "call" => Len(b) = 2
  BY <1>1, LinkShape
<1>3. /\ Len(node) \in Nat /\ Family(node) /\ Len(m) = Len(node) + Len(b)
      /\ \A u \in 1..Len(node) : m[u] = node[u] /\ node[u].call \in 0..Len(node)
      /\ \A i \in 1..Len(b) : m[Len(node) + i] = l[i]
      /\ tip \in 0..Len(node)
  <2>1. Family(node) /\ Follows(l, node) /\ m = node \o l
    BY <1>1 DEF Grew
  <2>2. \A u \in 1..Len(node) : node[u].call \in 0..Len(node)
    <3>1. \A u \in 1..Len(node) : node[u] \in NodesUpTo(Len(node))
      BY <2>1, FamilyShape
    <3> QED BY <3>1 DEF NodesUpTo
  <2>3. /\ Len(node) \in Nat /\ Len(m) = Len(node) + Len(l)
        /\ \A u \in 1..Len(node) : m[u] = node[u]
        /\ \A i \in 1..Len(l) : m[Len(node) + i] = l[i]
    BY <2>1, FamilyGrows, FamilyShape
  <2>4. tip \in 0..Len(node)  BY Before1
  <2> QED BY <1>2, <2>1, <2>2, <2>3, <2>4
<1>4. ~IsA(m, tip, "call")
  BY <1>3 DEF IsA
<1>5. ASSUME NEW i \in 1..Len(b)
      PROVE  DistinctPath(m, Len(node) + i)
  <2>1. \A k \in 1..Len(b) : Path(m, Len(node) + k) = Path(node, tip) \cup Span(node, k)
    BY <1>2, Before1, LinkedSays
  <2>2. Path(m, Len(node) + i) = Path(node, tip) \cup Span(node, i)
    BY <2>1
  <2>3. Path(node, tip) \subseteq 1..Len(node)
    BY <1>3, PathShape
  <2>4. ASSUME NEW v \in Path(m, Len(node) + i), m[v].kind = "call"
        PROVE  \/ v \in Path(node, tip) /\ m[v] = node[v] /\ m[v].call \in 0..Len(node)
               \/ v = Len(node) + 1 /\ m[v].call = Len(node) + 1
    <3>1. CASE v \in Path(node, tip)  BY <1>3, <2>3, <3>1
    <3>2. CASE v \in Span(node, i)
      <4> DEFINE j == v - Len(node)
      <4>1. j \in 1..Len(b) /\ Len(node) + j = v
        BY <1>2, <1>3, <3>2 DEF Span
      <4> HIDE DEF j
      <4>2. m[v] = l[j]  BY <1>3, <4>1
      <4>3. j = 1 /\ l[j].call = Len(node) + 1  BY <1>2, <2>4, <4>1, <4>2
      <4> QED BY <4>1, <4>2, <4>3
    <3> QED BY <2>2, <3>1, <3>2
  <2>5. DistinctPath(node, tip)  BY <1>3 DEF Distinct
  <2> SUFFICES ASSUME NEW v \in Path(m, Len(node) + i), NEW w \in Path(m, Len(node) + i),
                      m[v].kind = "call", m[w].kind = "call", m[v].call = m[w].call
               PROVE  v = w
    BY DEF DistinctPath
  <2>6. CASE v \in Path(node, tip) /\ m[v] = node[v] /\ w \in Path(node, tip) /\ m[w] = node[w]
    BY <2>5, <2>6 DEF DistinctPath
  <2>7. Len(node) + 1 \notin 0..Len(node)  BY <1>3
  <2> QED BY <2>4, <2>6, <2>7
<1>6. ASSUME NEW i \in 1..Len(b)
      PROVE  /\ l[i].kind = "result" =>
                  IsA(m, l[i].parent, "call") /\ l[i].call = m[l[i].parent].call
             /\ IsA(m, l[i].parent, "call") => l[i].kind = "result"
             /\ l[i].unzip # NoNode => l[i].kind = "summary"
  <2>1. CASE i = 1
    BY <1>2, <1>4, <2>1 DEF NoNode
  <2>2. CASE i = 2
    <3>1. Len(b) = 2 /\ 1 \in 1..Len(b)  BY <1>2, <2>2
    <3>2. m[Len(node) + 1] = l[1]  BY <1>3, <3>1
    <3>3. Len(node) + 1 \in 1..Len(m)  BY <1>3, <3>1
    <3> QED BY <1>2, <2>2, <3>1, <3>2, <3>3 DEF IsA, NoNode
  <2>3. i = 1 \/ i = 2  BY <1>2
  <2> QED BY <2>1, <2>2, <2>3
<1> QED BY <1>1, <1>2, <1>5, <1>6 DEF Couples

\* The copies behind a summary keep their rounds.
LEMMA CompactCouples ==
  ASSUME ShapeInv, Coupling, pending \in RangesUpTo(Len(node)), ~IsA(node, pending.end, "call"),
         SnapshotValid(Messages(data)), NEW b, b = CompactBatch(Messages(data)),
         NEW m, Grew(m, node, b)
  PROVE  /\ Couples(b, node, m) /\ b[Len(b)].kind # "call"
         /\ \A i \in 1..Len(b) : b[i].kind = "result" => b[i].parent \in Span(node, Len(b))
<1>1. PICK w : w = Messages(data)  OBVIOUS
<1>2. w \in Seq(1..Len(node)) /\ PairedWindow(w)
  BY <1>1, Before1, MessagesShape, WindowIsPaired DEF ChainShape
<1>3. \E end, tail : CompactForm(b, w, end, tail)
  BY <1>1, <1>2, Before1, CompactFollows
<1>4. PICK end, tail : CompactForm(b, w, end, tail)
  BY <1>3
<1>5. /\ end \in 1..Len(w) /\ w[end] = pending.end
      /\ Len(tail) = Len(w) - end /\ Len(b) = Len(tail) + 1
      /\ \A i \in 1..Len(tail) : tail[i] = w[end + i]
      /\ b[1].kind = "summary" /\ b[1].parent = 0
      /\ \A i \in 1..Len(tail) :
           /\ b[i + 1].parent = Len(node) + i
           /\ b[i + 1].kind = node[tail[i]].kind /\ b[i + 1].unzip = node[tail[i]].unzip
           /\ b[i + 1].call = node[tail[i]].call
  BY <1>4 DEF CompactForm, NoNode
<1>6. /\ Len(w) \in Nat /\ Len(node) \in Nat /\ Len(tail) \in Nat /\ Len(b) \in Nat
      /\ \A i \in 1..Len(w) : w[i] \in 1..Len(node)
      /\ pending.end \in 1..Len(node)
  <2>1. Len(w) \in Nat /\ \A i \in 1..Len(w) : w[i] \in 1..Len(node)
    BY <1>2, LenProperties, ElementOfSeq
  <2>2. Len(node) \in Nat  BY Before1
  <2>3. Len(tail) \in Nat /\ Len(b) \in Nat  BY <1>5, <2>1
  <2>4. pending.end \in 1..Len(node)  BY <1>5, <2>1
  <2> QED BY <2>1, <2>2, <2>3, <2>4
<1>7. w # <<>>
  <2>1. Len(w) # 0  BY <1>5, <1>6
  <2> QED BY <2>1, EmptySeq
<1>8. RoundsOf(w)  BY <1>1, <1>7, HeadHasRounds
<1>9. node[w[end]].kind # "call"
  BY <1>5, <1>6 DEF IsA
\* A node of the batch behind the first is a copy of a message of the window.
<1>10. ASSUME NEW i \in 1..Len(b), i # 1
       PROVE  /\ end + i - 1 \in 1..Len(w)
              /\ b[i].kind = node[w[end + i - 1]].kind /\ b[i].call = node[w[end + i - 1]].call
              /\ b[i].unzip = node[w[end + i - 1]].unzip
              /\ b[i].parent = Len(node) + (i - 1)
  <2> DEFINE k == i - 1
  <2>1. k \in 1..Len(tail) /\ k + 1 = i  BY <1>5, <1>6, <1>10
  <2>2. end + i - 1 = end + k /\ end + k \in 1..Len(w)  BY <1>5, <1>6, <2>1
  <2>3. k = i - 1  OBVIOUS
  <2> HIDE DEF k
  <2>4. /\ b[k + 1].parent = Len(node) + k
        /\ b[k + 1].kind = node[tail[k]].kind /\ b[k + 1].unzip = node[tail[k]].unzip
        /\ b[k + 1].call = node[tail[k]].call /\ tail[k] = w[end + k]
    BY <1>5, <2>1
  <2> QED BY <2>1, <2>2, <2>3, <2>4
<1>11. /\ Len(m) = Len(node) + Len(b)
       /\ \A i \in 1..Len(b) : m[Len(node) + i] = b[i]
  BY FamilyGrows DEF Grew
<1>12. \A i \in 1..Len(b) : i # 1 =>
         /\ i - 1 \in 1..Len(b) /\ Len(node) + (i - 1) \in 1..Len(m)
         /\ m[Len(node) + (i - 1)] = b[i - 1]
  <2> SUFFICES ASSUME NEW i \in 1..Len(b), i # 1
               PROVE  /\ i - 1 \in 1..Len(b) /\ Len(node) + (i - 1) \in 1..Len(m)
                      /\ m[Len(node) + (i - 1)] = b[i - 1]
    OBVIOUS
  <2> DEFINE k == i - 1
  <2>1. k \in 1..Len(b) /\ Len(node) + k \in 1..Len(m)  BY <1>6, <1>11
  <2> HIDE DEF k
  <2>2. m[Len(node) + k] = b[k]  BY <1>11, <2>1
  <2> QED BY <2>1, <2>2 DEF k
\* The calls of the batch.
<1>13. ASSUME NEW i \in 1..Len(b), b[i].kind = "call"
       PROVE  /\ i # 1 /\ i + 1 \in 1..Len(b) /\ b[i + 1].kind = "result"
  <2>1. i # 1  BY <1>5, <1>13
  <2> DEFINE k == end + i - 1
  <2>2. k \in 1..Len(w) /\ node[w[k]].kind = "call" /\ k + 1 = end + (i + 1) - 1
    BY <1>5, <1>6, <1>10, <1>13, <2>1
  <2>3. k = end + i - 1  OBVIOUS
  <2> HIDE DEF k
  <2>4. k + 1 \in 1..Len(w) /\ node[w[k + 1]].kind = "result"
    BY <1>2, <2>2 DEF PairedWindow
  <2> DEFINE j == i + 1
  <2>5. j \in 1..Len(b) /\ j # 1
    BY <1>5, <1>6, <2>3, <2>4
  <2>6. end + j - 1 = k + 1  BY <2>2
  <2> HIDE DEF j
  <2>7. b[j].kind = node[w[end + j - 1]].kind
    BY <1>10, <2>5
  <2>8. b[j].kind = "result"
    BY <2>4, <2>6, <2>7
  <2> QED BY <2>1, <2>5, <2>8 DEF j
\* The results of the batch.
<1>14. ASSUME NEW i \in 1..Len(b), b[i].kind = "result"
       PROVE  /\ i # 1 /\ b[i].parent = Len(node) + (i - 1)
              /\ b[i - 1].kind = "call" /\ b[i].call = b[i - 1].call
  <2>1. i # 1  BY <1>5, <1>14
  <2> DEFINE k == end + i - 1
             j == i - 1
  <2>2. /\ k \in 1..Len(w) /\ node[w[k]].kind = "result" /\ b[i].call = node[w[k]].call
        /\ b[i].parent = Len(node) + j
    BY <1>10, <1>14, <2>1
  <2>3. k - 1 = end + j - 1 /\ j \in 1..Len(b) /\ (j = 1 => k - 1 = end)
    BY <1>5, <1>6, <2>1
  <2> HIDE DEF k, j
  <2>4. node[w[k - 1]].kind = "call" /\ node[w[k]].call = node[w[k - 1]].call
    BY <1>2, <2>2 DEF PairedWindow
  <2>5. j # 1  BY <1>9, <2>3, <2>4
  <2>6. b[j].kind = node[w[end + j - 1]].kind /\ b[j].call = node[w[end + j - 1]].call
    BY <1>10, <2>3, <2>5
  <2>7. b[j].kind = "call" /\ b[i].call = b[j].call
    BY <2>2, <2>3, <2>4, <2>6
  <2> QED BY <2>1, <2>2, <2>7 DEF j
<1>15. \A i \in 1..Len(b) : Path(m, Len(node) + i) = Span(node, i)
  <2>1. Stacked(b, node)  BY <1>4, Before1, CompactSays
  <2>2. \A i \in 1..Len(b) : Path(m, Len(node) + i) = Path(node, b[1].parent) \cup Span(node, i)
    BY <2>1, StackGrows
  <2>3. Path(node, 0) = {}  BY Before1, PathShape
  <2> QED BY <1>5, <2>2, <2>3
<1>16. ASSUME NEW i \in 1..Len(b) PROVE DistinctPath(m, Len(node) + i)
  <2> SUFFICES ASSUME NEW x \in Span(node, i), NEW y \in Span(node, i),
                      m[x].kind = "call", m[y].kind = "call", m[x].call = m[y].call
               PROVE  x = y
    BY <1>15 DEF DistinctPath
  <2> DEFINE j == x - Len(node)
             k == y - Len(node)
  <2>1. j \in 1..Len(b) /\ Len(node) + j = x /\ k \in 1..Len(b) /\ Len(node) + k = y
    BY <1>6 DEF Span
  <2> HIDE DEF j, k
  <2>2. m[x] = b[j] /\ m[y] = b[k]  BY <1>11, <2>1
  <2>3. j # 1 /\ k # 1  BY <1>5, <2>2
  <2>4. /\ end + j - 1 \in 1..Len(w) /\ end + k - 1 \in 1..Len(w)
        /\ b[j].kind = node[w[end + j - 1]].kind /\ b[j].call = node[w[end + j - 1]].call
        /\ b[k].kind = node[w[end + k - 1]].kind /\ b[k].call = node[w[end + k - 1]].call
    BY <1>10, <2>1, <2>3
  <2>5. end + j - 1 = end + k - 1
    <3> DEFINE a == end + j - 1
               c == end + k - 1
    <3>1. /\ a \in 1..Len(w) /\ c \in 1..Len(w)
          /\ node[w[a]].kind = "call" /\ node[w[c]].kind = "call" /\ node[w[a]].call = node[w[c]].call
      BY <2>2, <2>4
    <3> HIDE DEF a, c
    <3>2. a = c  BY <1>8, <3>1 DEF RoundsOf
    <3> QED BY <3>2 DEF a, c
  <2> QED BY <1>5, <1>6, <2>1, <2>5
<1>17. ASSUME NEW i \in 1..Len(b)
       PROVE  /\ b[i].kind = "result" =>
                   IsA(m, b[i].parent, "call") /\ b[i].call = m[b[i].parent].call
              /\ IsA(m, b[i].parent, "call") => b[i].kind = "result"
              /\ b[i].unzip # NoNode => b[i].kind = "summary"
  <2>1. CASE i = 1
    BY <1>5, <2>1 DEF IsA
  <2>2. CASE i # 1
    <3> DEFINE j == i - 1
    <3>1. /\ j \in 1..Len(b) /\ Len(node) + j \in 1..Len(m) /\ m[Len(node) + j] = b[j]
          /\ b[i].parent = Len(node) + j /\ j + 1 = i
      <4>1. j \in 1..Len(b) /\ Len(node) + j \in 1..Len(m) /\ m[Len(node) + j] = b[j]
        BY <1>12, <2>2
      <4>2. b[i].parent = Len(node) + j  BY <1>10, <2>2
      <4>3. j + 1 = i  BY <1>6
      <4> QED BY <4>1, <4>2, <4>3
    <3>2. b[i].kind = "result" => b[j].kind = "call" /\ b[i].call = b[j].call
      BY <1>14
    <3> HIDE DEF j
    <3>3. b[j].kind = "call" => b[i].kind = "result"
      BY <1>13, <3>1
    <3>4. b[i].unzip # NoNode => b[i].kind = "summary"
      BY <1>6, <1>10, <2>2 DEF Coupling, Coupled
    <3> QED BY <3>1, <3>2, <3>3, <3>4 DEF IsA
  <2> QED BY <2>1, <2>2
<1>18. b[Len(b)].kind # "call"
  <2>1. Len(b) \in 1..Len(b) /\ Len(b) + 1 \notin 1..Len(b)  BY <1>5, <1>6
  <2> QED BY <1>13, <2>1
<1>19. ASSUME NEW i \in 1..Len(b), b[i].kind = "result" PROVE b[i].parent \in Span(node, Len(b))
  <2>1. i # 1 /\ b[i].parent = Len(node) + (i - 1)  BY <1>14, <1>19
  <2> QED BY <1>6, <2>1 DEF Span
<1> QED BY <1>16, <1>17, <1>18, <1>19 DEF Couples

LEMMA ManualCouples ==
  ASSUME ShapeInv, manual # None, NEW b, b = ManualBatch, NEW m, Grew(m, node, b)
  PROVE  Couples(b, node, m) /\ Len(b) = 1 /\ b[1].kind = "summary"
<1>1. Len(b) = 1 /\ b[1].kind = "summary" /\ b[1].parent = 0
  BY Before1, ManualFollows DEF NoNode
<1>2. Path(m, Len(node) + 1) = {Len(node) + 1}
  <2>1. Path(m, Len(node) + 1) = Path(m, b[1].parent) \cup {Len(node) + 1}
    <3>1. \A i \in 1..Len(b) : Path(m, Len(node) + i) = Path(m, b[i].parent) \cup {Len(node) + i}
      BY PathsGrow
    <3>2. 1 \in 1..Len(b)  BY <1>1
    <3> QED BY <3>1, <3>2
  <2>2. Family(m)  BY FamilyGrows DEF Grew
  <2> QED BY <1>1, <2>1, <2>2, PathShape
<1>3. DistinctPath(m, Len(node) + 1)
  BY <1>2 DEF DistinctPath
<1>4. \A i \in 1..1 : i = 1  OBVIOUS
<1> QED BY <1>1, <1>3, <1>4 DEF Couples, IsA

\* The message a rewind goes back to is no call: its result would be above the
\* target too.
LEMMA RewindEnds ==
  ASSUME ShapeInv, Coupling, NEW target \in BranchTargets, RewindParent(target) # NoNode
  PROVE  /\ RewindParent(target) \in ToSet(lines) /\ RewindParent(target) \in 1..Len(node)
         /\ node[RewindParent(target)].kind # "call"
<1>1. /\ target \in ToSet(lines) /\ target \in 1..Len(node)
      /\ node[target].kind = "user" \/ node[target].unzip # NoNode
  BY Before1, TargetsShape
<1> DEFINE L == ToSet(lines)
           q == node[target].parent
<1>2. PICK p : p = RewindParent(target)  OBVIOUS
<1>3. /\ Before(target) = TraceChain(node, L, q)
      /\ p \in ToSet(Before(target)) /\ p \in 1..Len(node)
      /\ \A u \in ToSet(Before(target)) : u > p => node[u].kind = "event"
  BY <1>1, <1>2, Before1, RewindParentShape
<1>4. /\ Family(node) /\ Tree(node, L) /\ L \subseteq 1..Len(node) /\ Len(node) \in Nat
  BY Before1, FamilyShape
<1>5. q \in 0..Len(node)
  BY <1>1, <1>4, PathShape
<1>6. p \in On(node, L, q) /\ \A u \in On(node, L, q) : u > p => node[u].kind = "event"
  BY <1>3 DEF On
<1>7. On(node, L, q) \subseteq L
  BY <1>4, <1>5, OnUnfold
<1>8. Coupled(node)  BY DEF Coupling
<1>9. ASSUME node[p].kind = "call" PROVE FALSE
  <2>1. IsA(node, p, "call")  BY <1>3, <1>9 DEF IsA
  <2>2. CASE p = q
    <3>1. node[target].kind = "result"  BY <1>1, <1>8, <2>1, <2>2 DEF Coupled
    <3>2. node[target].unzip # NoNode => node[target].kind = "summary"
      BY <1>1, <1>8 DEF Coupled
    <3> QED BY <1>1, <3>1, <3>2
  <2>3. CASE p # q
    <3> HIDE DEF L, q
    <3>1. PICK c \in On(node, L, q) : c > p /\ node[c].parent = p
      BY <1>4, <1>5, <1>6, <2>3, ChildOn
    <3>2. c \in 1..Len(node)  BY <1>4, <1>7, <3>1
    <3>3. node[c].kind = "result"  BY <1>8, <2>1, <3>1, <3>2 DEF Coupled
    <3>4. node[c].kind = "event"  BY <1>6, <3>1
    <3> QED BY <3>3, <3>4
  <2> QED BY <2>2, <2>3
<1> QED BY <1>2, <1>3, <1>6, <1>7, <1>9

LEMMA RowCouples ==
  ASSUME ShapeInv, Coupling, NEW target \in BranchTargets, NEW b, b = <<RewindRow(target)>>,
         NEW m, Grew(m, node, b)
  PROVE  /\ Couples(b, node, m) /\ Len(b) = 1 /\ b[1].kind # "call"
         /\ b[1].kind = "result" => b[1].parent \in ToSet(lines)
<1>1. PICK p : p = RewindParent(target)  OBVIOUS
<1>2. target \in ToSet(lines)  BY Before1, TargetsShape
<1>3. /\ Len(b) = 1
      /\ p = NoNode => /\ b[1].kind = "mark" /\ b[1].parent = NoNode /\ b[1].unzip = NoNode
      /\ p # NoNode => /\ b[1].kind = node[p].kind /\ b[1].parent = node[p].parent
                       /\ b[1].unzip = node[p].unzip /\ b[1].call = node[p].call
  BY <1>1, <1>2, Before1, RowFollows
<1>4. p # NoNode => p \in ToSet(lines) /\ p \in 1..Len(node) /\ node[p].kind # "call"
  BY <1>1, RewindEnds
<1>5. /\ Len(node) \in Nat /\ Family(node) /\ Family(m) /\ Len(m) = Len(node) + 1
      /\ \A u \in 1..Len(node) : m[u] = node[u]
      /\ m[Len(node) + 1] = b[1]
  BY <1>3, FamilyGrows, FamilyShape DEF Grew
<1>6. b[1].kind # "call"
  BY <1>3, <1>4
<1>7. \A u \in 0..Len(node) : Path(m, u) = Path(node, u) /\ Path(node, u) \subseteq 1..Len(node)
  BY <1>5, PathsGrow, PathShape
<1>8. b[1].parent \in 0..Len(node)
  <2>1. CASE p = NoNode  BY <1>3, <1>5, <2>1 DEF NoNode
  <2>2. CASE p # NoNode
    <3>1. node[p].parent \in 0..Len(node)  BY <1>4, <1>5, <2>2, PathShape
    <3> QED BY <1>3, <2>2, <3>1
  <2> QED BY <2>1, <2>2
<1>9. Path(m, Len(node) + 1) = Path(node, b[1].parent) \cup {Len(node) + 1}
  <2>1. Path(m, Len(node) + 1) = Path(m, b[1].parent) \cup {Len(node) + 1}
    <3>1. \A i \in 1..Len(b) : Path(m, Len(node) + i) = Path(m, b[i].parent) \cup {Len(node) + i}
      BY PathsGrow
    <3>2. 1 \in 1..Len(b)  BY <1>3
    <3> QED BY <3>1, <3>2
  <2> QED BY <1>7, <1>8, <2>1
<1>10. DistinctPath(m, Len(node) + 1)
  <2>1. DistinctPath(node, b[1].parent)  BY <1>8 DEF Coupling, Distinct
  <2> SUFFICES ASSUME NEW v \in Path(m, Len(node) + 1), NEW w \in Path(m, Len(node) + 1),
                      m[v].kind = "call", m[w].kind = "call", m[v].call = m[w].call
               PROVE  v = w
    BY DEF DistinctPath
  <2>2. /\ v \in Path(node, b[1].parent) /\ m[v] = node[v]
        /\ w \in Path(node, b[1].parent) /\ m[w] = node[w]
    BY <1>5, <1>6, <1>7, <1>8, <1>9
  <2> QED BY <2>1, <2>2 DEF DistinctPath
<1>11. IsA(m, b[1].parent, "call") <=> IsA(node, b[1].parent, "call")
  BY <1>5, <1>8 DEF IsA
<1>12. IsA(node, b[1].parent, "call") => m[b[1].parent] = node[b[1].parent]
  BY <1>5 DEF IsA
<1>13. /\ b[1].kind = "result" =>
            IsA(node, b[1].parent, "call") /\ b[1].call = node[b[1].parent].call
       /\ IsA(node, b[1].parent, "call") => b[1].kind = "result"
       /\ b[1].unzip # NoNode => b[1].kind = "summary"
  <2>1. CASE p = NoNode  BY <1>3, <2>1 DEF IsA, NoNode
  <2>2. CASE p # NoNode  BY <1>3, <1>4, <2>2 DEF Coupling, Coupled
  <2> QED BY <2>1, <2>2
<1>14. b[1].kind = "result" => b[1].parent \in ToSet(lines)
  <2>1. CASE p = NoNode  BY <1>3, <2>1
  <2>2. CASE p # NoNode  BY <1>3, <1>4, <2>2 DEF Coupling, HoldsCalls
  <2> QED BY <2>1, <2>2
<1>15. \A i \in 1..1 : i = 1  OBVIOUS
<1>16. Couples(b, node, m)
  BY <1>3, <1>10, <1>11, <1>12, <1>13, <1>15 DEF Couples
<1> QED BY <1>3, <1>6, <1>14, <1>16

LEMMA CouplingInit == Init => PairInv
<1> SUFFICES ASSUME Init PROVE Coupling
  BY DEF PairInv
<1>1. /\ Len(node) = 0 /\ ToSet(disk) = {} /\ ToSet(data) = {} /\ ToSet(lines) = {}
      /\ tip = 0 /\ Leaf(disk) = 0 /\ Prepared = {}
  BY DEF Init, ToSet, Leaf, NoNode, Prepared
<1>2. ShapeInv  BY InitShape
<1>3. Path(node, 0) = {}  BY <1>2, Before1, PathShape
<1>4. \A u : u \notin 1..Len(node)  BY <1>1
<1>5. \A u \in 0..Len(node) : u = 0  BY <1>1
<1> QED BY <1>1, <1>3, <1>4, <1>5
        DEF Coupling, Coupled, Distinct, DistinctPath, HoldsCalls, Answered, IsA

LEMMA CoupledQuiet ==
  ASSUME ShapeInv, Coupling, Quiet
  PROVE  Coupling'
<1>1. node' = node /\ data' = data /\ tip' = tip /\ disk' = disk /\ lines' = lines
  BY DEF Quiet, chainVars
<1>2. Prepared' \subseteq Prepared \cup ({Background(Messages(data))} \ {None})
  BY DEF Quiet, Prepared
<1>3. \A p \in Prepared' : ~IsA(node, p.end, "call")
  <2> SUFFICES ASSUME NEW p \in Prepared' PROVE ~IsA(node, p.end, "call")
    OBVIOUS
  <2>1. CASE p \in Prepared  BY <2>1 DEF Coupling
  <2>2. CASE p = Background(Messages(data)) /\ p # None  BY <2>2, BackgroundEnds
  <2> QED BY <1>2, <2>1, <2>2
<1> QED BY <1>1, <1>3 DEF Coupling, Leaf

LEMMA CoupledAdds ==
  ASSUME ShapeInv, Coupling, NEW b, NEW i, NEW j, Adds(b, i, j), "lost_write" \notin mishaps'
  PROVE  Coupling'
<1>1. PICK l : l = Linked(b)  OBVIOUS
<1>2. Said1(b) /\ Grown(b, i, j) /\ Prepared' = Prepared
  BY DEF Adds, compactVars, Prepared
<1>3. /\ Follows(b, node) /\ Len(l) = Len(b) /\ Len(b) \in 1..2
      /\ \A k \in 1..Len(b) : /\ l[k].kind = "call" => k = 1
                              /\ l[k].kind = "result" <=> k = 2
      /\ Len(b) = 2 => l[2].parent = Len(node) + 1
      /\ l[1].kind = "call" => Len(b) = 2
      /\ l[Len(b)].kind # "call"
  BY <1>1, <1>2, LinkShape
<1>4. /\ Written(l, i, j) /\ data' = data \o Run(Len(node), Len(b)) /\ tip' = Len(node) + Len(b)
      /\ Grew(node', node, l)
  BY <1>1, <1>2, Before1 DEF Grown, Written, Grew
<1>5. /\ Len(node) \in Nat /\ Len(b) \in Nat /\ Len(node') = Len(node) + Len(b)
      /\ \A u \in 1..Len(node) : node'[u] = node[u]
      /\ \A k \in 1..Len(b) : node'[Len(node) + k] = l[k]
      /\ ToSet(lines') = ToSet(lines) \cup Span(node, i)
      /\ ToSet(disk') = ToSet(disk) \cup Span(node, j)
      /\ j > 0 => disk' # <<>> /\ Last(disk') = Len(node) + j
      /\ j = 0 => disk' = disk
  BY <1>3, <1>4, Before1, WrittenShape DEF Span
<1>6. /\ i \in 0..Len(b) /\ j \in 0..Len(b)
      /\ (i = 0 \/ (i = j /\ j = Len(b)))
      /\ (j = 0 \/ j = Len(b))
  <2>1. i \in 0..Len(b) /\ j \in 0..Len(b)  BY <1>3, <1>4 DEF Written
  <2>2. (i = Len(b) /\ j = Len(b)) \/ (i = 0 /\ Len(b) = 1)  BY DEF Adds
  <2> QED BY <2>1, <2>2
<1>7. Couples(l, node, node')
  BY <1>1, <1>2, <1>4, RoundCouples DEF Coupling
<1>8. /\ Coupled(node') /\ Distinct(node')
      /\ \A u \in 0..Len(node) : IsA(node', u, "call") <=> IsA(node, u, "call")
  BY <1>4, <1>7, CouplesGrow DEF Coupling
<1>9. \A k \in 0..Len(b) : \A x \in 1..k : l[x].kind = "result" => l[x].parent \in Span(node, k)
  <2> SUFFICES ASSUME NEW k \in 0..Len(b), NEW x \in 1..k, l[x].kind = "result"
               PROVE  l[x].parent \in Span(node, k)
    OBVIOUS
  <2>1. x \in 1..Len(b)  BY <1>5
  <2>2. x = 2  BY <1>3, <2>1
  <2>3. k = 2 /\ Len(b) = 2  BY <1>3, <2>2
  <2> QED BY <1>3, <1>5, <2>2, <2>3 DEF Span
<1>10. ASSUME NEW S \in SUBSET (1..Len(node)), HoldsCalls(node, S), NEW k \in 0..Len(b),
              NEW R, R = S \cup Span(node, k)
       PROVE  HoldsCalls(node', R)
  <2>1. \A x \in 1..k : l[x].kind = "result" => l[x].parent \in R
    BY <1>9, <1>10
  <2>2. k \in 0..Len(l)  BY <1>3
  <2> QED BY <1>4, <1>10, <2>1, <2>2, HoldsGrows
<1>11. /\ ToSet(lines) \in SUBSET (1..Len(node)) /\ ToSet(disk) \in SUBSET (1..Len(node))
       /\ ToSet(data) \in SUBSET (1..Len(node))
  BY Before1
<1>12. ToSet(data') = ToSet(data) \cup Span(node, Len(b))
  BY <1>4, <1>5, Before1, DataGrows DEF Span
<1>13. HoldsCalls(node', ToSet(lines'))
  BY <1>5, <1>6, <1>10, <1>11 DEF Coupling
<1>14. HoldsCalls(node', ToSet(disk'))
  BY <1>5, <1>6, <1>10, <1>11 DEF Coupling
<1>15. HoldsCalls(node', ToSet(data'))
  <2>1. Len(b) \in 0..Len(b)  BY <1>5
  <2> QED BY <1>10, <1>11, <1>12, <2>1 DEF Coupling
<1>16. Answered(node', ToSet(data'))
  <2> SUFFICES ASSUME NEW u \in ToSet(data'), node'[u].kind = "call"
               PROVE  \E v \in ToSet(data') : node'[v].parent = u
    BY DEF Answered
  <2>1. CASE u \in ToSet(data)
    <3>1. u \in 1..Len(node)  BY <1>11, <2>1
    <3>2. node[u].kind = "call"  BY <1>5, <3>1
    <3>3. PICK v \in ToSet(data) : node[v].parent = u
      BY <2>1, <3>2 DEF Coupling, Answered
    <3>4. v \in 1..Len(node)  BY <1>11, <3>3
    <3>5. node'[v].parent = u  BY <1>5, <3>3, <3>4
    <3> QED BY <1>12, <3>3, <3>5
  <2>2. CASE u \in Span(node, Len(b))
    <3> DEFINE x == u - Len(node)
    <3>1. x \in 1..Len(b) /\ Len(node) + x = u  BY <1>5, <2>2 DEF Span
    <3> HIDE DEF x
    <3>2. node'[u] = l[x]  BY <1>5, <3>1
    <3>3. x = 1  BY <1>3, <3>1, <3>2
    <3>4. Len(b) = 2  BY <1>3, <3>2, <3>3
    <3>5. node'[Len(node) + 2] = l[2]  BY <1>5, <3>4
    <3>6. Len(node) + 2 \in ToSet(data')  BY <1>5, <1>12, <3>4 DEF Span
    <3> QED BY <1>3, <3>1, <3>3, <3>4, <3>5, <3>6
  <2> QED BY <1>12, <2>1, <2>2
<1>17. ToSet(data') \subseteq Path(node', tip')
  <2>1. \A k \in 1..Len(b) : Path(node', Len(node) + k) = Path(node, tip) \cup Span(node, k)
    BY <1>1, <1>3, <1>4, Before1, LinkedSays
  <2>2. Len(b) \in 1..Len(b)  BY <1>3
  <2>3. Path(node', tip') = Path(node, tip) \cup Span(node, Len(b))
    BY <1>4, <2>1, <2>2
  <2> QED BY <1>12, <2>3 DEF Coupling
<1>18. ToSet(lines') \subseteq ToSet(disk')
  <2>1. Span(node, 0) = {}  BY <1>5 DEF Span
  <2> QED BY <1>5, <1>6, <2>1 DEF Coupling
<1>19. ~IsA(node', tip', "call")
  <2>1. node'[tip'] = l[Len(b)]  BY <1>3, <1>4, <1>5
  <2> QED BY <1>3, <2>1 DEF IsA
<1>20. ~IsA(node', Leaf(disk'), "call")
  <2>1. CASE j = 0
    <3>1. ~IsA(node, Leaf(disk), "call") /\ Leaf(disk) \in 0..Len(node) /\ disk' = disk
      BY <1>5, <2>1, Before1 DEF Coupling
    <3> QED BY <1>8, <3>1
  <2>2. CASE j # 0
    <3>1. j > 0 /\ j = Len(b)  BY <1>6, <2>2
    <3>2. Leaf(disk') = tip'  BY <1>4, <1>5, <3>1 DEF Leaf
    <3> QED BY <1>19, <3>2
  <2> QED BY <2>1, <2>2
<1>21. \A p \in Prepared' : ~IsA(node', p.end, "call")
  BY <1>2, <1>8, Before1 DEF Coupling
<1> QED BY <1>8, <1>13, <1>14, <1>15, <1>16, <1>17, <1>18, <1>19, <1>20, <1>21
        DEF Coupling, Leaf

LEMMA CoupledSwaps ==
  ASSUME ShapeInv, Coupling, Swaps
  PROVE  Coupling'
<1>1. PICK b : b = CompactBatch(Messages(data))  OBVIOUS
<1>2. /\ Rerooted(b)
      /\ SnapshotValid(Messages(data))
      /\ pending \in Prepared
      /\ Prepared' \subseteq Prepared
  BY <1>1 DEF Swaps, Prepared
<1>3. pending \in RangesUpTo(Len(node)) /\ ~IsA(node, pending.end, "call")
  BY <1>2, Before1 DEF Coupling
<1>4. Grew(node', node, b)  BY <1>2, Before1, RootSays
<1>5. /\ Couples(b, node, node') /\ b[Len(b)].kind # "call"
      /\ \A i \in 1..Len(b) : b[i].kind = "result" => b[i].parent \in Span(node, Len(b))
  BY <1>1, <1>2, <1>3, <1>4, CompactCouples
<1> QED BY <1>2, <1>5, CoupledRoot

LEMMA CoupledCompacts ==
  ASSUME ShapeInv, Coupling, Compacts
  PROVE  Coupling'
<1>1. PICK b : b = ManualBatch  OBVIOUS
<1>2. Rerooted(b) /\ manual # None /\ Prepared' \subseteq Prepared
  BY <1>1 DEF Compacts, Prepared, compactVars
<1>3. Grew(node', node, b)  BY <1>2, Before1, RootSays
<1>4. Couples(b, node, node') /\ Len(b) = 1 /\ b[1].kind = "summary"
  BY <1>1, <1>2, <1>3, ManualCouples
<1>5. \A i \in 1..1 : i = 1  OBVIOUS
<1>6. /\ b[Len(b)].kind # "call"
      /\ \A i \in 1..Len(b) : b[i].kind = "result" =>
           b[i].parent \in ToSet(lines) \cup Span(node, Len(b))
  BY <1>4, <1>5
<1> QED BY <1>2, <1>4, <1>6, CoupledRoot

LEMMA CoupledRewinds ==
  ASSUME ShapeInv, Coupling, NEW target, Rewinds(target)
  PROVE  Coupling'
<1>1. PICK b : b = <<RewindRow(target)>>  OBVIOUS
<1>2. Rerooted(b) /\ target \in BranchTargets /\ Prepared' \subseteq Prepared
  BY <1>1 DEF Rewinds, Prepared, compactVars
<1>3. Grew(node', node, b)  BY <1>2, Before1, RootSays
<1>4. /\ Couples(b, node, node') /\ Len(b) = 1 /\ b[1].kind # "call"
      /\ b[1].kind = "result" => b[1].parent \in ToSet(lines)
  BY <1>1, <1>2, <1>3, RowCouples
<1>5. \A i \in 1..1 : i = 1  OBVIOUS
<1>6. /\ b[Len(b)].kind # "call"
      /\ \A i \in 1..Len(b) : b[i].kind = "result" =>
           b[i].parent \in ToSet(lines) \cup Span(node, Len(b))
  BY <1>4, <1>5
<1> QED BY <1>2, <1>4, <1>6, CoupledRoot

LEMMA CoupledEnds ==
  ASSUME ShapeInv, Coupling, Goes \/ Returns
  PROVE  Coupling'
<1>1. CASE Goes
  <2>1. /\ node' = node /\ disk' = disk /\ tip' = 0 /\ ToSet(data') = {} /\ ToSet(lines') = {}
        /\ Prepared' \subseteq Prepared
    BY <1>1 DEF Goes, Emptied, NoNode, ToSet, Prepared
  <2>2. ~IsA(node, 0, "call")  BY DEF IsA
  <2>3. \A p \in Prepared' : ~IsA(node, p.end, "call")
    BY <2>1 DEF Coupling
  <2> QED BY <2>1, <2>2, <2>3 DEF Coupling, HoldsCalls, Answered, Leaf
<1>2. CASE Returns
  <2>1. Resumed /\ Prepared' \subseteq Prepared /\ node' = node /\ disk' = disk /\ lines' = disk
    BY <1>2 DEF Returns, Resumed, Prepared
  <2>2. /\ disk = <<>> => data' = <<>> /\ tip' = NoNode
        /\ disk # <<>> => /\ data' = TraceChain(node, ToSet(disk), Last(disk))
                          /\ tip' = Last(disk)
    BY <2>1, Before1, ResumedShape
  <2>3. tip' = Leaf(disk) /\ ~IsA(node, tip', "call")
    BY <2>2 DEF Leaf, Coupling
  <2>4. /\ HoldsCalls(node, ToSet(data')) /\ Answered(node, ToSet(data'))
        /\ ToSet(data') \subseteq Path(node, tip')
    <3>1. CASE disk = <<>>
      <4>1. ToSet(data') = {}  BY <2>2, <3>1 DEF ToSet
      <4> QED BY <4>1 DEF HoldsCalls, Answered
    <3>2. CASE disk # <<>>
      <4> DEFINE D == ToSet(disk)
      <4>1. ToSet(data') = On(node, D, tip')  BY <2>2, <3>2 DEF On
      <4>2. /\ tip' \in 0..Len(node) /\ D \in SUBSET (1..Len(node)) /\ D \subseteq 1..Len(node)
            /\ Family(node) /\ HoldsCalls(node, D) /\ Coupled(node)
        BY <2>3, Before1 DEF Coupling
      <4> HIDE DEF D
      <4>3. HoldsCalls(node, On(node, D, tip')) /\ Answered(node, On(node, D, tip'))
        BY <2>3, <4>2, OnCoupled
      <4>4. On(node, D, tip') \subseteq Path(node, tip')
        BY <4>2, OnIsAPath
      <4> QED BY <4>1, <4>3, <4>4
    <3> QED BY <3>1, <3>2
  <2>5. \A p \in Prepared' : ~IsA(node, p.end, "call")
    BY <2>1 DEF Coupling
  <2> QED BY <2>1, <2>3, <2>4, <2>5 DEF Coupling, Leaf
<1> QED BY <1>1, <1>2

LEMMA PairKept ==
  ASSUME ShapeInv, PairInv, Move
  PROVE  PairInv'
<1> SUFFICES ASSUME mishaps' \cap {"half_batch", "lost_write", "lost_root"} = {} PROVE Coupling'
  BY DEF PairInv
<1>1. mishaps \subseteq mishaps'  BY DEF Move
<1>2. /\ "lost_write" \notin mishaps' /\ "half_batch" \notin mishaps' /\ "lost_root" \notin mishaps'
  OBVIOUS
<1>3. Coupling  BY <1>1 DEF PairInv
<1>4. CASE Quiet  BY <1>3, <1>4, CoupledQuiet
<1>5. CASE \E b, i, j : Adds(b, i, j)  BY <1>2, <1>3, <1>5, CoupledAdds
<1>6. CASE Swaps  BY <1>3, <1>6, CoupledSwaps
<1>7. CASE Compacts  BY <1>3, <1>7, CoupledCompacts
<1>8. CASE \E target : Rewinds(target)  BY <1>3, <1>8, CoupledRewinds
<1>9. CASE \E b, k, j : Breaks(b, k, j)  BY <1>2, <1>9 DEF Breaks
<1>10. CASE \E b, k : Dies(b, k)  BY <1>2, <1>10 DEF Dies
<1>11. CASE Goes \/ Returns  BY <1>3, <1>11, CoupledEnds
<1> QED BY <1>4, <1>5, <1>6, <1>7, <1>8, <1>9, <1>10, <1>11 DEF Move

LEMMA PairAlways == Spec => []PairInv
<1>1. Init => PairInv  BY CouplingInit
<1>2. ShapeInv /\ PairInv /\ [Next]_vars => PairInv'
  BY NextMoves, PairKept
<1> QED BY <1>1, <1>2, ShapeAlways, PTL DEF Spec

\* Every tool call in the window is followed by its result, and every result is
\* preceded by its call.
THEOREM WellPairedAlways == Spec => []WellPaired
<1>1. ShapeInv /\ PairInv => WellPaired
  <2> SUFFICES ASSUME ShapeInv, PairInv, mishaps \cap {"half_batch", "lost_write", "lost_root"} = {}
               PROVE  WellPaired
    BY DEF WellPaired, Spared
  <2>1. PairedWindow(Messages(data))
    BY WindowIsPaired DEF PairInv
  <2>2. PICK w : w = Messages(data)  OBVIOUS
  <2>3. w \in Seq(1..Len(node))
    BY <2>2, Before1, MessagesShape DEF ChainShape
  <2>4. DOMAIN w = 1..Len(w)
    BY <2>3, LenProperties
  <2>5. \A i \in DOMAIN w :
          /\ node[w[i]].kind = "call" =>
               (i + 1 \in DOMAIN w /\ node[w[i + 1]].kind = "result")
                 /\ node[w[i]].call = node[w[i + 1]].call
          /\ node[w[i]].kind = "result" =>
               (i - 1 \in DOMAIN w /\ node[w[i - 1]].kind = "call")
                 /\ node[w[i]].call = node[w[i - 1]].call
    BY <2>1, <2>2, <2>4 DEF PairedWindow
  <2> QED BY <2>2, <2>5 DEF WellPaired
<1> QED BY <1>1, ShapeAlways, PairAlways, PTL

-----------------------------------------------------------------------------
(* What a trusted usage measured.                                           *)

Opens(s, t) == Len(s) <= Len(t) /\ \A i \in 1..Len(s) : s[i] = t[i]

LEMMA OpensIsPrefix ==
  ASSUME NEW T, NEW s \in Seq(T), NEW t \in Seq(T)
  PROVE  IsPrefix(s, t) <=> Opens(s, t)
<1> DEFINE k == Len(s)
<1>1. k \in Nat /\ Len(t) \in Nat /\ k \in 0..k
  BY LenProperties
<1>2. /\ SubSeq(s, 1, k) \in Seq(T) /\ Len(SubSeq(s, 1, k)) = k
      /\ \A i \in 1..k : SubSeq(s, 1, k)[i] = s[i]
  BY <1>1, PrefixShape
<1>3. k <= Len(t) => /\ SubSeq(t, 1, k) \in Seq(T) /\ Len(SubSeq(t, 1, k)) = k
                     /\ \A i \in 1..k : SubSeq(t, 1, k)[i] = t[i]
  <2> SUFFICES ASSUME k <= Len(t)
               PROVE  /\ SubSeq(t, 1, k) \in Seq(T) /\ Len(SubSeq(t, 1, k)) = k
                      /\ \A i \in 1..k : SubSeq(t, 1, k)[i] = t[i]
    OBVIOUS
  <2>1. k \in 0..Len(t)  BY <1>1
  <2> HIDE DEF k
  <2> QED BY <2>1, PrefixShape
<1>4. ASSUME IsPrefix(s, t) PROVE Opens(s, t)
  <2>1. k <= Len(t) /\ SubSeq(s, 1, k) = SubSeq(t, 1, k)  BY <1>4 DEF IsPrefix
  <2>2. \A i \in 1..k : s[i] = t[i]  BY <1>2, <1>3, <2>1
  <2> QED BY <2>1, <2>2 DEF Opens
<1>5. ASSUME Opens(s, t) PROVE IsPrefix(s, t)
  <2>1. k <= Len(t) /\ \A i \in 1..k : s[i] = t[i]  BY <1>5 DEF Opens
  <2> DEFINE p == SubSeq(s, 1, k)
             q == SubSeq(t, 1, k)
  <2>2. /\ p \in Seq(T) /\ q \in Seq(T) /\ Len(p) = k /\ Len(q) = k
        /\ \A i \in 1..k : p[i] = q[i]
    BY <1>2, <1>3, <2>1
  <2> HIDE DEF p, q
  <2>3. p = q  BY <2>2, SeqEqual
  <2> QED BY <2>1, <2>3 DEF IsPrefix, p, q
<1> QED BY <1>4, <1>5

\* A filter of a longer sequence goes on where that of its beginning ends.
LEMMA WithinExtends ==
  ASSUME NEW T, NEW s \in Seq(T), NEW d \in Seq(T), NEW S, NEW R,
         \A u \in ToSet(s) : u \in S <=> u \in R
  PROVE  Opens(Within(s, S), Within(s \o d, R))
<1> DEFINE n == Len(s)
           t == s \o d
           l == Len(t)
<1>1. /\ t \in Seq(T) /\ n \in Nat /\ l = n + Len(d) /\ Len(d) \in Nat
      /\ \A i \in 1..n : t[i] = s[i]
  BY ConcatProperties, LenProperties
<1>2. PICK f \in [0..n -> Seq(T)] : Filters(f, s, S) /\ Within(s, S) = f[n]
  BY WithinRuns
<1> HIDE DEF t
<1>3. PICK g \in [0..l -> Seq(T)] : Filters(g, t, R) /\ Within(t, R) = g[l]
  BY <1>1, WithinRuns
<1>4. \A i \in 1..n : s[i] \in S <=> s[i] \in R
  BY LenProperties DEF ToSet
<1>5. /\ f[0] = <<>>
      /\ \A i \in 1..n : f[i] = IF s[i] \in S THEN Append(f[i - 1], s[i]) ELSE f[i - 1]
      /\ g[0] = <<>>
      /\ \A i \in 1..l : g[i] = IF t[i] \in R THEN Append(g[i - 1], t[i]) ELSE g[i - 1]
  BY <1>2, <1>3 DEF Filters
<1>6. \A i \in 0..l : g[i] \in Seq(T)  BY <1>3
<1>7. \A i \in 1..l : t[i] \in T  BY <1>1, ElementOfSeq
<1> DEFINE P == {i \in Nat : i <= n => g[i] = f[i]}
           Q == {j \in Nat : n + j <= l => Opens(g[n], g[n + j])}
<1>8. n \in P
  <2>1. 0 \in P  BY <1>5
  <2>2. ASSUME NEW i \in Nat, i \in P PROVE i + 1 \in P
    <3> SUFFICES ASSUME i + 1 <= n PROVE g[i + 1] = f[i + 1]
      OBVIOUS
    <3>1. i + 1 \in 1..n /\ i + 1 \in 1..l /\ (i + 1) - 1 = i /\ i <= n  BY <1>1
    <3>2. g[i] = f[i]  BY <2>2, <3>1
    <3>3. f[i + 1] = IF s[i + 1] \in S THEN Append(f[i], s[i + 1]) ELSE f[i]
      <4>1. f[i + 1] = IF s[i + 1] \in S THEN Append(f[(i + 1) - 1], s[i + 1])
                                        ELSE f[(i + 1) - 1]
        BY <1>5, <3>1
      <4> QED BY <3>1, <4>1
    <3>4. g[i + 1] = IF t[i + 1] \in R THEN Append(g[i], t[i + 1]) ELSE g[i]
      <4>1. g[i + 1] = IF t[i + 1] \in R THEN Append(g[(i + 1) - 1], t[i + 1])
                                        ELSE g[(i + 1) - 1]
        BY <1>5, <3>1
      <4> QED BY <3>1, <4>1
    <3>5. t[i + 1] = s[i + 1] /\ (s[i + 1] \in S <=> s[i + 1] \in R)
      BY <1>1, <1>4, <3>1
    <3> QED BY <3>2, <3>3, <3>4, <3>5
  <2> HIDE DEF P
  <2>3. Nat \subseteq P  BY <2>1, <2>2, SetInduction
  <2> QED BY <1>1, <2>3
<1>9. Len(d) \in Q
  <2>1. 0 \in Q
    BY <1>1 DEF Opens
  <2>2. ASSUME NEW j \in Nat, j \in Q PROVE j + 1 \in Q
    <3> SUFFICES ASSUME n + (j + 1) <= l PROVE Opens(g[n], g[n + (j + 1)])
      OBVIOUS
    <3> DEFINE i == n + (j + 1)
    <3>1. /\ i \in 1..l /\ i - 1 = n + j /\ n + j <= l /\ i - 1 \in 0..l /\ n \in 0..l
          /\ n + j \in 0..l
      BY <1>1
    <3>2. Opens(g[n], g[n + j])  BY <2>2, <3>1
    <3>3. g[i] = IF t[i] \in R THEN Append(g[n + j], t[i]) ELSE g[n + j]
      <4>1. g[i] = IF t[i] \in R THEN Append(g[i - 1], t[i]) ELSE g[i - 1]  BY <1>5, <3>1
      <4> HIDE DEF i, l, n
      <4> QED BY <3>1, <4>1
    <3>4. g[n + j] \in Seq(T) /\ g[n] \in Seq(T) /\ t[i] \in T  BY <1>6, <1>7, <3>1
    <3> HIDE DEF i, l
    <3>5. CASE t[i] \notin R
      BY <3>2, <3>3, <3>5 DEF i
    <3>6. CASE t[i] \in R
      <4> DEFINE x == g[n + j]
                 y == g[n]
      <4>1. g[i] = Append(x, t[i]) /\ x \in Seq(T) /\ y \in Seq(T) /\ Opens(y, x)
        BY <3>2, <3>3, <3>4, <3>6
      <4> HIDE DEF x, y
      <4>2. /\ Len(Append(x, t[i])) = Len(x) + 1 /\ Len(x) \in Nat /\ Len(y) \in Nat
            /\ \A k \in 1..Len(x) : Append(x, t[i])[k] = x[k]
        BY <3>4, <4>1, AppendProperties, LenProperties
      <4>3. Opens(y, Append(x, t[i]))
        BY <4>1, <4>2 DEF Opens
      <4> QED BY <4>1, <4>3 DEF i, x, y
    <3> QED BY <3>5, <3>6 DEF i
  <2> HIDE DEF Q
  <2>3. Nat \subseteq Q  BY <2>1, <2>2, SetInduction
  <2> QED BY <1>1, <2>3
<1>10. g[n] = f[n]  BY <1>1, <1>8
<1>11. Opens(g[n], g[l])
  <2>1. n + Len(d) = l /\ l <= l  BY <1>1
  <2> HIDE DEF l, n
  <2> QED BY <1>9, <2>1
<1> QED BY <1>2, <1>3, <1>10, <1>11 DEF t

\* The window only grows at its end when nodes are added.
LEMMA SaysExtends ==
  ASSUME NEW n, NEW b, NEW m, Grew(m, n, b),
         NEW c \in Seq(1..Len(n)), NEW d \in Seq(1..Len(m))
  PROVE  Opens(Says(n, c), Says(m, c \o d))
<1>1. /\ Family(m) /\ Family(n) /\ Len(m) = Len(n) + Len(b) /\ Len(b) \in Nat /\ Len(n) \in Nat
      /\ \A u \in 1..Len(n) : m[u] = n[u]
  BY FamilyGrows, FamilyShape DEF Grew
<1>2. /\ c \in Seq(1..Len(m)) /\ c \o d \in Seq(1..Len(m))
      /\ DOMAIN n = 1..Len(n) /\ DOMAIN m = 1..Len(m)
  <2>1. 1..Len(n) \subseteq 1..Len(m)  BY <1>1
  <2>2. c \in Seq(1..Len(m))  BY <2>1, SeqMonotonic
  <2> QED BY <1>1, <2>2, ConcatProperties, FamilyShape
<1> DEFINE S == MessageNodes(n)
           R == MessageNodes(m)
           p == Within(c, S)
           q == Within(c \o d, R)
<1>3. \A u \in ToSet(c) : u \in 1..Len(n)  BY RangeInSeq
<1>4. \A u \in ToSet(c) : u \in S <=> u \in R
  <2> SUFFICES ASSUME NEW u \in ToSet(c) PROVE u \in S <=> u \in R
    OBVIOUS
  <2>1. u \in 1..Len(n) /\ u \in 1..Len(m) /\ m[u] = n[u]  BY <1>1, <1>3
  <2> QED BY <1>2, <2>1 DEF MessageNodes
<1> HIDE DEF S, R
<1>5. Opens(p, q)  BY <1>2, <1>4, WithinExtends
<1>6. p \in Seq(1..Len(n)) /\ q \in Seq(1..Len(m))  BY <1>2, WithinKeeps
<1>7. /\ Says(n, c) = [i \in DOMAIN p |-> n[p[i]].says]
      /\ Says(m, c \o d) = [i \in DOMAIN q |-> m[q[i]].says]
  BY DEF Says, S, R
<1> HIDE DEF p, q
<1>8. /\ DOMAIN p = 1..Len(p) /\ DOMAIN q = 1..Len(q) /\ Len(p) \in Nat /\ Len(q) \in Nat
      /\ \A i \in 1..Len(p) : p[i] \in 1..Len(n)
  BY <1>6, LenProperties, ElementOfSeq
<1>9. /\ Len(Says(n, c)) = Len(p) /\ Len(Says(m, c \o d)) = Len(q)
  <2>1. /\ Says(n, c) \in Seq(SUBSET (1..Len(n)))
        /\ Says(m, c \o d) \in Seq(SUBSET (1..Len(m)))
    BY <1>1, <1>2, SaysShape
  <2>2. DOMAIN Says(n, c) = 1..Len(p) /\ DOMAIN Says(m, c \o d) = 1..Len(q)
    BY <1>7, <1>8
  <2> QED BY <1>8, <2>1, <2>2, LenProperties
<1>10. ASSUME NEW i \in 1..Len(p) PROVE Says(n, c)[i] = Says(m, c \o d)[i]
  <2>1. i \in 1..Len(q) /\ p[i] = q[i] /\ p[i] \in 1..Len(n)  BY <1>5, <1>8 DEF Opens
  <2>2. m[q[i]] = n[p[i]]  BY <1>1, <2>1
  <2> QED BY <1>7, <1>8, <2>1, <2>2
<1> QED BY <1>5, <1>9, <1>10 DEF Opens

LEMMA OpensTransitive ==
  ASSUME NEW r, NEW s, NEW t, Len(r) \in Nat, Len(s) \in Nat, Len(t) \in Nat,
         Opens(r, s), Opens(s, t)
  PROVE  Opens(r, t)
BY DEF Opens

\* Every usage on a chain measured its beginning, or lies before a boundary that
\* is on the chain.
Measured(n, c) ==
  \A u \in ToSet(c) : n[u].seen # <<>> =>
    \/ Opens(n[u].seen, Says(n, c))
    \/ \E v \in ToSet(c) : n[v].boundary \in ToSet(c) /\ u <= n[v].boundary

\* The chain, in memory or on disk, is measured; and the model is being called
\* with what the chain began with.
Trusty ==
  /\ alive => Measured(node, data)
  /\ ~alive => Measured(node, LoadChain(node, disk))
  /\ turn = "calling" => alive /\ Opens(call, Says(node, data))

UsageInv == mishaps \cap ({"moved_call", "half_batch"} \cup Lost) = {} => Trusty

\* Appending leaves what was measured, and what is appended was measured by the
\* call in flight or by none.
LEMMA UsageAdds ==
  ASSUME ShapeInv, Measured(node, data), NEW b, Follows(b, node), AppendOK(b),
         \A i \in 1..Len(b) : b[i].seen # <<>> =>
           b[i].seen = call /\ Opens(call, Says(node, data))
  PROVE  /\ Measured(node', data')
         /\ \A s \in Seq(SUBSET (1..Len(node))) :
              Opens(s, Says(node, data)) => Opens(s, Says(node', data'))
<1> DEFINE N == Len(node)
           e == Linked(b)
           old == Says(node, data)
           new == Says(node', data')
<1>1. ChainShape /\ Family(node) /\ data \in Seq(1..N) /\ N \in Nat
  BY Before1 DEF ChainShape
<1>2. Grown(b, Len(b), Len(b))  BY <1>1, AppendOKGrows
<1>3. Written(e, Len(b), Len(b)) /\ data' = data \o Run(N, Len(b))
  BY <1>2 DEF Grown
<1>4. ChainShape' /\ Len(node') = N + Len(b) /\ Len(b) \in Nat
  BY <1>1, <1>2, GrownShape
<1>5. Len(e) = Len(b) /\ \A i \in 1..Len(b) : IsLink(e[i], b[i], i)
  BY <1>1, LinkedFollows
<1>6. /\ \A u \in 1..N : node'[u] = node[u]
      /\ \A i \in 1..Len(b) : node'[N + i] = e[i]
  <2> HIDE DEF e
  <2> QED BY <1>1, <1>3, <1>5, WrittenShape
<1>7. Grew(node', node, e)
  BY <1>1, <1>3 DEF Grew, Written
<1>8. ToSet(data') = ToSet(data) \cup ((N + 1)..(N + Len(b)))
  BY <1>1, <1>3, <1>4, DataGrows
<1>9. Run(N, Len(b)) \in Seq(1..Len(node'))
  <2>1. Run(N, Len(b)) \in Seq((N + 1)..(N + Len(b)))  BY <1>1, <1>4, RunShape
  <2>2. (N + 1)..(N + Len(b)) \subseteq 1..Len(node')  BY <1>1, <1>4
  <2> QED BY <2>1, <2>2, SeqMonotonic
<1> HIDE DEF e
<1>10. Opens(old, new)
  BY <1>1, <1>3, <1>7, <1>9, SaysExtends
<1>11. Len(old) \in Nat /\ Len(new) \in Nat
  <2>1. old \in Seq(SUBSET (1..N))  BY <1>1, SaysShape
  <2>2. Family(node') /\ data' \in Seq(1..Len(node'))  BY <1>4 DEF ChainShape
  <2>3. new \in Seq(SUBSET (1..Len(node')))  BY <2>2, SaysShape
  <2> QED BY <2>1, <2>3, LenProperties
<1> HIDE DEF old, new
<1>12. \A s \in Seq(SUBSET (1..N)) : Opens(s, old) => Opens(s, new)
  BY <1>10, <1>11, OpensTransitive, LenProperties
<1>13. call \in Seq(SUBSET (1..N))  BY DEF ShapeInv, RestShape
<1>14. \A u \in 1..N : node[u].seen \in Seq(SUBSET (1..N))
  BY <1>1, FamilyShape DEF NodesUpTo
<1>15. ToSet(data) \subseteq 1..N  BY Before1
<1>16. ASSUME NEW u \in ToSet(data'), node'[u].seen # <<>>
       PROVE  \/ Opens(node'[u].seen, new)
              \/ \E v \in ToSet(data') : /\ node'[v].boundary \in ToSet(data')
                                         /\ u <= node'[v].boundary
  <2>1. CASE u \in ToSet(data)
    <3>1. u \in 1..N /\ node'[u] = node[u]  BY <1>6, <1>15, <2>1
    <3>2. CASE Opens(node[u].seen, old)
      BY <1>12, <1>14, <3>1, <3>2
    <3>3. CASE \E v \in ToSet(data) : node[v].boundary \in ToSet(data) /\ u <= node[v].boundary
      <4>1. PICK v \in ToSet(data) : node[v].boundary \in ToSet(data) /\ u <= node[v].boundary
        BY <3>3
      <4>2. node'[v] = node[v]  BY <1>6, <1>15, <4>1
      <4> QED BY <1>8, <4>1, <4>2
    <3> QED BY <1>16, <2>1, <3>1, <3>2, <3>3 DEF Measured, old
  <2>2. CASE u \notin ToSet(data)
    <3>1. u \in (N + 1)..(N + Len(b))  BY <1>8, <2>2
    <3> DEFINE i == u - N
    <3>2. i \in 1..Len(b) /\ u = N + i  BY <1>1, <1>4, <3>1
    <3> HIDE DEF i
    <3>3. node'[u].seen = b[i].seen  BY <1>5, <1>6, <3>2 DEF IsLink
    <3>4. node'[u].seen = call /\ Opens(call, old)  BY <1>16, <3>2, <3>3 DEF old
    <3> QED BY <1>12, <1>13, <3>4
  <2> QED BY <2>1, <2>2
<1>17. Measured(node', data')  BY <1>16 DEF Measured, new
<1> QED BY <1>12, <1>17 DEF old, new

\* A new root leaves no usage behind the boundary it declares.
LEMMA UsageRoots ==
  ASSUME ShapeInv, NEW b, Rerooted(b), Stacked(b, node), Recorded', alive',
         b[1].boundary = Len(node) + Len(b)
  PROVE  Measured(node', data')
<1> DEFINE N == Len(node)
           last == N + Len(b)
<1>1. /\ ChainShape /\ N \in Nat /\ Grew(node', node, b) /\ tip' = last
      /\ ToSet(data') = Path(node', tip')
  BY Before1, RootSays DEF Recorded, Mirrored
<1>2. ChainShape' /\ Len(node') = last /\ Len(b) \in Nat
  BY <1>1, RerootedShape
<1>3. Len(b) > 0 /\ 1 \in 1..Len(b) /\ Len(b) \in 1..Len(b)
  BY <1>2 DEF Rerooted, Written, Follows
<1>4. Path(node', last) = Path(node, b[1].parent) \cup Span(node, Len(b))
  BY <1>1, <1>3, StackGrows
<1>5. N + 1 \in ToSet(data') /\ last \in ToSet(data')
  BY <1>1, <1>3, <1>4 DEF Span
<1>6. node'[N + 1] = b[1]
  BY <1>1, <1>3, WrittenShape DEF Rerooted
<1>7. ToSet(data') \subseteq 1..last
  BY <1>2, RangeInSeq DEF ChainShape
<1>8. \A u \in ToSet(data') : u <= last
  BY <1>7, <1>1, <1>2
<1>9. node'[N + 1].boundary = last
  BY <1>6
<1> HIDE DEF last
<1> QED BY <1>5, <1>8, <1>9 DEF Measured

\* What a step does to the chain while no write fails, no swap is cut short and no
\* root moves under a call.
UsageStep ==
  \/ /\ alive /\ alive' /\ UNCHANGED chainVars
     /\ turn' = "calling" => \/ turn = "calling" /\ call' = call
                             \/ call' = Says(node, data)
  \/ /\ alive /\ alive'
     /\ turn' = "calling" => turn = "calling" /\ call' = call
     /\ \E b : /\ Follows(b, node) /\ AppendOK(b)
               /\ \A i \in 1..Len(b) :
                    b[i].seen # <<>> => b[i].seen = call /\ turn = "calling"
  \/ /\ alive /\ alive'
     /\ turn' = "calling" => call' = Says(node', data')
     /\ \E b : Rerooted(b) /\ Stacked(b, node) /\ b[1].boundary = Len(node) + Len(b)
  \/ alive /\ ~alive' /\ turn' = "idle" /\ node' = node /\ disk' = disk
  \/ ~alive /\ turn' = turn /\ node' = node /\ disk' = disk /\ data' = LoadChain(node, disk)

LEMMA UsageAppends ==
  ASSUME ShapeInv,
         UserMessage \/ Answer \/ CommitRound \/ AppendEvent \/ ToolReminder
  PROVE  UsageStep
<1>1. ChainShape /\ call \in Seq(SUBSET (1..Len(node))) /\ <<>> \in Seq(SUBSET (1..Len(node)))
  BY EmptySeq DEF ShapeInv, RestShape
<1>2. ASSUME NEW kind \in {"user", "event", "answer"}, NEW seen \in {call, <<>>}
      PROVE  LET b == <<Original(kind, Fresh, NoNode, seen)>> IN
             /\ Follows(b, node)
             /\ \A i \in 1..Len(b) : b[i].seen # <<>> => b[i].seen = call /\ seen # <<>>
  <2> DEFINE x == Original(kind, Fresh, NoNode, seen)
             b == <<x>>
  <2>1. Said1(b)  BY <1>1 DEF Said1
  <2>2. Follows(b, node)  BY <1>1, <2>1, Said1Shape
  <2>3. x.seen = seen  BY DEF Original
  <2> HIDE DEF x
  <2>4. Len(b) = 1 /\ b[1] = x  OBVIOUS
  <2>5. \A i \in 1..1 : i = 1  OBVIOUS
  <2> HIDE DEF b
  <2>6. \A i \in 1..Len(b) : b[i].seen # <<>> => b[i].seen = call /\ seen # <<>>
    BY <2>3, <2>4, <2>5
  <2> QED BY <2>2, <2>6 DEF b, x
<1>3. ASSUME NEW seen \in {call, <<>>}
      PROVE  LET b == RoundBatch(seen) IN
             /\ Follows(b, node)
             /\ \A i \in 1..Len(b) : b[i].seen # <<>> => b[i].seen = call /\ seen # <<>>
  <2> DEFINE x == Original("call", Fresh, Fresh, seen)
             y == Original("result", Fresh + 1, Fresh, <<>>)
             b == <<x, y>>
  <2>1. RoundBatch(seen) = b  BY DEF RoundBatch
  <2>2. Said1(b)  BY <1>1, <2>1 DEF Said1
  <2>3. Follows(b, node)  BY <1>1, <2>2, Said1Shape
  <2>4. x.seen = seen /\ y.seen = <<>>  BY DEF Original
  <2> HIDE DEF x, y
  <2>5. Len(b) = 2 /\ b[1] = x /\ b[2] = y  OBVIOUS
  <2>6. \A i \in 1..2 : i = 1 \/ i = 2  OBVIOUS
  <2> HIDE DEF b
  <2>7. \A i \in 1..Len(b) : b[i].seen # <<>> => b[i].seen = call /\ seen # <<>>
    BY <2>4, <2>5, <2>6
  <2> QED BY <2>1, <2>3, <2>7
<1>4. CASE UserMessage
  <2> DEFINE b == <<Original("user", Fresh, NoNode, <<>>)>>
  <2>1. Follows(b, node) /\ \A i \in 1..Len(b) : b[i].seen = <<>>  BY <1>2
  <2> HIDE DEF b
  <2>2. alive /\ alive' /\ turn' # "calling" /\ AppendOK(b)  BY <1>4 DEF UserMessage, b
  <2> QED BY <2>1, <2>2 DEF UsageStep
<1>5. CASE Answer
  <2>1. PICK seen \in {call, <<>>} : AppendOK(<<Original("answer", Fresh, NoNode, seen)>>)
    BY <1>5 DEF Answer, Usages
  <2> DEFINE b == <<Original("answer", Fresh, NoNode, seen)>>
  <2>2. /\ Follows(b, node)
        /\ \A i \in 1..Len(b) : b[i].seen # <<>> => b[i].seen = call
    BY <1>2
  <2>3. AppendOK(b)  BY <2>1
  <2> HIDE DEF b
  <2>4. alive /\ alive' /\ turn = "calling" /\ turn' # "calling"  BY <1>5 DEF Answer
  <2> QED BY <2>2, <2>3, <2>4 DEF UsageStep
<1>6. CASE CommitRound
  <2>1. PICK seen \in {call, <<>>} : AppendOK(RoundBatch(seen))
    BY <1>6 DEF CommitRound, Usages
  <2> DEFINE b == RoundBatch(seen)
  <2>2. /\ Follows(b, node)
        /\ \A i \in 1..Len(b) : b[i].seen # <<>> => b[i].seen = call
    BY <1>3
  <2>3. AppendOK(b)  BY <2>1
  <2> HIDE DEF b
  <2>4. alive /\ alive' /\ turn = "calling" /\ turn' # "calling"  BY <1>6 DEF CommitRound
  <2> QED BY <2>2, <2>3, <2>4 DEF UsageStep
<1>7. CASE AppendEvent
  <2> DEFINE b == <<Original("event", Fresh, NoNode, <<>>)>>
  <2>1. Follows(b, node) /\ \A i \in 1..Len(b) : b[i].seen = <<>>  BY <1>2
  <2> HIDE DEF b
  <2>2. alive /\ alive' /\ turn' = turn /\ call' = call /\ AppendOK(b)
    BY <1>7 DEF AppendEvent, turnVars, b
  <2> QED BY <2>1, <2>2 DEF UsageStep
<1>8. CASE ToolReminder
  <2> DEFINE b == <<Original("user", Fresh, NoNode, <<>>)>>
  <2>1. Follows(b, node) /\ \A i \in 1..Len(b) : b[i].seen = <<>>  BY <1>2
  <2> HIDE DEF b
  <2>2. alive /\ alive' /\ turn' = turn /\ call' = call /\ AppendOK(b)
    BY <1>8 DEF ToolReminder, turnVars, b
  <2> QED BY <2>1, <2>2 DEF UsageStep
<1> QED BY <1>4, <1>5, <1>6, <1>7, <1>8

LEMMA UsageReroots ==
  ASSUME ShapeInv, "moved_call" \notin mishaps', ApplyAndCall \/ ManualDone \/ Rewind
  PROVE  UsageStep
<1>1. ChainShape /\ Len(node) \in Nat /\ Messages(data) \in Seq(1..Len(node))
  BY Before1, MessagesShape DEF ChainShape
<1>2. CASE ApplyAndCall
  <2> DEFINE b == CompactBatch(Messages(data))
  <2>1. pending # None /\ SnapshotValid(Messages(data)) /\ Reroot(b)
    BY <1>2 DEF ApplyAndCall, CanApply, WantsApply
  <2>2. pending \in RangesUpTo(Len(node))  BY <2>1 DEF ShapeInv, RestShape
  <2>3. Follows(b, node) /\ \E end, tail : CompactForm(b, Messages(data), end, tail)
    BY <1>1, <2>1, <2>2, CompactFollows
  <2> HIDE DEF b
  <2>4. PICK end, tail : CompactForm(b, Messages(data), end, tail)  BY <2>3
  <2>5. Rerooted(b)  BY <1>1, <2>1, <2>3, RerootRerooted
  <2>6. Grew(node', node, b)  BY <1>1, <2>5, RootSays
  <2>7. Stacked(b, node)  BY <1>1, <2>4, <2>6, CompactSays
  <2>8. b[1].boundary = Len(node) + Len(b)  BY <2>4 DEF CompactForm
  <2>9. alive /\ alive' /\ call' = Says(node', data')  BY <1>2 DEF ApplyAndCall
  <2> QED BY <2>5, <2>7, <2>8, <2>9 DEF UsageStep
<1>3. CASE ManualDone
  <2>1. manual # None /\ Reroot(ManualBatch) /\ alive /\ alive' /\ turn' = turn
    BY <1>3 DEF ManualDone, turnVars
  <2>2. turn # "calling"
    BY <1>3, MayHappenShape DEF ManualDone, MovedCall
  <2>3. PICK b : b = ManualBatch  OBVIOUS
  <2>4. Follows(b, node) /\ Len(b) = 1 /\ b[1].boundary = Len(node) + 1
    BY <1>1, <2>1, <2>3, Before1, ManualFollows
  <2>5. Rerooted(b)  BY <1>1, <2>1, <2>3, <2>4, RerootRerooted
  <2>6. Stacked(b, node)  BY <2>4 DEF Stacked
  <2> QED BY <2>1, <2>2, <2>4, <2>5, <2>6 DEF UsageStep
<1>4. CASE Rewind
  <2>1. PICK target \in BranchTargets : Reroot(<<RewindRow(target)>>)
    BY <1>4 DEF Rewind
  <2>2. alive /\ alive' /\ turn' = turn  BY <1>4 DEF Rewind, turnVars
  <2>3. turn # "calling"
    BY <1>4, MayHappenShape DEF Rewind, MovedCall
  <2>4. target \in ToSet(lines)  BY <1>1, TargetsShape
  <2>5. PICK b : b = <<RewindRow(target)>>  OBVIOUS
  <2>6. Follows(b, node) /\ Len(b) = 1 /\ b[1].boundary = Len(node) + 1
    BY <1>1, <2>4, <2>5, RowFollows
  <2>7. Rerooted(b)  BY <1>1, <2>1, <2>5, <2>6, RerootRerooted
  <2>8. Stacked(b, node)  BY <2>6 DEF Stacked
  <2> QED BY <2>2, <2>3, <2>6, <2>7, <2>8 DEF UsageStep
<1> QED BY <1>2, <1>3, <1>4

LEMMA UsageSteps ==
  ASSUME ShapeInv, Next,
         mishaps' \cap ({"moved_call", "half_batch"} \cup Lost) = {}
  PROVE  UsageStep
<1>1. /\ "lost_write" \notin mishaps' /\ "lost_report" \notin mishaps' /\ "lost_root" \notin mishaps'
      /\ "half_batch" \notin mishaps' /\ "moved_call" \notin mishaps'
  BY DEF Lost
<1>2. CASE UserMessage \/ Answer \/ CommitRound \/ AppendEvent \/ ToolReminder
  BY <1>2, UsageAppends
<1>3. CASE ApplyAndCall \/ ManualDone \/ Rewind
  BY <1>1, <1>3, UsageReroots
<1>4. CASE UserMessageFails \/ ApplyFails \/ CommitFails \/ AppendEventFails \/ RewindFails \/ Crash
  <2>1. "lost_write" \in mishaps' \/ "lost_report" \in mishaps' \/ "lost_root" \in mishaps'
          \/ "half_batch" \in mishaps'
    BY <1>4 DEF UserMessageFails, ApplyFails, CommitFails, AppendEventFails, RewindFails, Crash,
                MayHappen
  <2> QED BY <1>1, <2>1
<1>5. CASE CallModel
  BY <1>5 DEF CallModel, UsageStep
<1>6. CASE CallFails
  BY <1>6 DEF CallFails, UsageStep
<1>7. CASE BackgroundDone \/ BackgroundFails \/ ManualStart
  BY <1>7 DEF BackgroundDone, BackgroundFails, ManualStart, turnVars, UsageStep
<1>8. CASE ManualFails
  <2>1. "lost_root" \in mishaps' \/ UNCHANGED chainVars
    BY <1>8 DEF ManualFails, MayHappen
  <2> QED BY <1>1, <1>8, <2>1 DEF ManualFails, turnVars, UsageStep
<1>9. CASE Stop
  BY <1>9 DEF Stop, Forget, UsageStep
<1>10. CASE Resume
  BY <1>10 DEF Resume, turnVars, UsageStep
<1> QED BY <1>2, <1>3, <1>4, <1>5, <1>6, <1>7, <1>8, <1>9, <1>10 DEF Next

LEMMA UsageKept ==
  ShapeInv /\ ShapeInv' /\ RecordsInv /\ RecordsInv'
    /\ ReloadGivesTheSameChain /\ UsageInv /\ [Next]_vars => UsageInv'
<1> SUFFICES ASSUME ShapeInv, ShapeInv', RecordsInv, RecordsInv', ReloadGivesTheSameChain,
                    UsageInv, [Next]_vars
             PROVE  UsageInv'
  OBVIOUS
<1> SUFFICES ASSUME mishaps' \cap ({"moved_call", "half_batch"} \cup Lost) = {}
             PROVE  Trusty'
  BY DEF UsageInv, Lost
<1>1. mishaps \subseteq mishaps'
  BY TurnSteps, MayHappenShape
<1>2. mishaps \cap ({"moved_call", "half_batch"} \cup Lost) = {}
      /\ mishaps \cap Lost = {} /\ mishaps' \cap Lost = {}
  BY <1>1
<1>3. Trusty /\ Recorded'
  BY <1>2 DEF UsageInv, RecordsInv, Lost
<1>4. call \in Seq(SUBSET (1..Len(node))) /\ alive \in BOOLEAN /\ alive' \in BOOLEAN
  BY DEF ShapeInv, RestShape
<1>5. ASSUME alive /\ alive' /\ UNCHANGED chainVars,
             \/ turn' # "calling"
             \/ turn = "calling" /\ call' = call
             \/ call' = Says(node, data)
      PROVE  Trusty'
  <2>1. node' = node /\ data' = data /\ Measured(node, data)
    BY <1>3, <1>5 DEF Trusty, chainVars
  <2>2. Family(node) /\ data \in Seq(1..Len(node))  BY Before1 DEF ChainShape
  <2>3. Says(node, data) \in Seq(SUBSET (1..Len(node)))  BY <2>2, SaysShape
  <2>4. Len(Says(node, data)) \in Nat  BY <2>3, LenProperties
  <2>5. Opens(Says(node, data), Says(node, data))  BY <2>4 DEF Opens
  <2>6. turn' = "calling" => Opens(call', Says(node', data'))
    BY <1>3, <1>5, <2>1, <2>5 DEF Trusty
  <2> QED BY <1>5, <2>1, <2>6 DEF Trusty
<1>6. ASSUME alive /\ alive', turn' = "calling" => turn = "calling" /\ call' = call,
             NEW b, Follows(b, node), AppendOK(b),
             \A i \in 1..Len(b) : b[i].seen # <<>> => b[i].seen = call /\ turn = "calling"
      PROVE  Trusty'
  <2>1. Measured(node, data) /\ (turn = "calling" => Opens(call, Says(node, data)))
    BY <1>3, <1>6 DEF Trusty
  <2>2. /\ Measured(node', data')
        /\ Opens(call, Says(node, data)) => Opens(call, Says(node', data'))
    BY <1>4, <1>6, <2>1, UsageAdds
  <2> QED BY <1>6, <2>1, <2>2 DEF Trusty
<1>7. ASSUME alive /\ alive', turn' = "calling" => call' = Says(node', data'),
             NEW b, Rerooted(b), Stacked(b, node), b[1].boundary = Len(node) + Len(b)
      PROVE  Trusty'
  <2>1. Measured(node', data')  BY <1>3, <1>7, UsageRoots
  <2>2. Family(node') /\ data' \in Seq(1..Len(node'))  BY DEF ShapeInv, ChainShape
  <2>3. Says(node', data') \in Seq(SUBSET (1..Len(node')))  BY <2>2, SaysShape
  <2>4. Len(Says(node', data')) \in Nat  BY <2>3, LenProperties
  <2>5. Opens(Says(node', data'), Says(node', data'))  BY <2>4 DEF Opens
  <2> QED BY <1>7, <2>1, <2>5 DEF Trusty
<1>8. ASSUME alive /\ ~alive', turn' = "idle", node' = node /\ disk' = disk
      PROVE  Trusty'
  <2>1. LoadChain(node, disk) = data
    BY <1>2, <1>8 DEF ReloadGivesTheSameChain, Spared
  <2>2. Measured(node, LoadChain(node, disk))  BY <1>3, <1>8, <2>1 DEF Trusty
  <2> QED BY <1>8, <2>2 DEF Trusty
<1>9. ASSUME ~alive, turn' = turn, node' = node /\ disk' = disk, data' = LoadChain(node, disk)
      PROVE  Trusty'
  BY <1>3, <1>9 DEF Trusty
<1>10. CASE UNCHANGED vars
  BY <1>3, <1>10 DEF Trusty, vars, chainVars, turnVars
<1>11. CASE Next
  <2>1. UsageStep  BY <1>11, UsageSteps
  <2>2. CASE /\ alive /\ alive' /\ UNCHANGED chainVars
             /\ turn' = "calling" => \/ turn = "calling" /\ call' = call
                                     \/ call' = Says(node, data)
    BY <1>5, <2>2
  <2>3. CASE /\ alive /\ alive'
             /\ turn' = "calling" => turn = "calling" /\ call' = call
             /\ \E b : /\ Follows(b, node) /\ AppendOK(b)
                       /\ \A i \in 1..Len(b) :
                            b[i].seen # <<>> => b[i].seen = call /\ turn = "calling"
    <3>1. PICK b : /\ Follows(b, node) /\ AppendOK(b)
                   /\ \A i \in 1..Len(b) :
                        b[i].seen # <<>> => b[i].seen = call /\ turn = "calling"
      BY <2>3
    <3>2. alive /\ alive' /\ (turn' = "calling" => turn = "calling" /\ call' = call)
      BY <2>3
    <3> QED BY <1>6, <3>1, <3>2
  <2>4. CASE /\ alive /\ alive'
             /\ turn' = "calling" => call' = Says(node', data')
             /\ \E b : Rerooted(b) /\ Stacked(b, node) /\ b[1].boundary = Len(node) + Len(b)
    <3>1. PICK b : Rerooted(b) /\ Stacked(b, node) /\ b[1].boundary = Len(node) + Len(b)
      BY <2>4
    <3>2. alive /\ alive' /\ (turn' = "calling" => call' = Says(node', data'))
      BY <2>4
    <3> QED BY <1>7, <3>1, <3>2
  <2>5. CASE alive /\ ~alive' /\ turn' = "idle" /\ node' = node /\ disk' = disk
    BY <1>8, <2>5
  <2>6. CASE ~alive /\ turn' = turn /\ node' = node /\ disk' = disk
             /\ data' = LoadChain(node, disk)
    BY <1>9, <2>6
  <2> QED BY <2>1, <2>2, <2>3, <2>4, <2>5, <2>6 DEF UsageStep
<1> QED BY <1>10, <1>11

LEMMA UsageAlways == Spec => []UsageInv
<1>1. Init => UsageInv
  <2> SUFFICES ASSUME Init PROVE Trusty
    BY DEF UsageInv
  <2>1. data = <<>> /\ alive /\ turn = "idle"  BY DEF Init
  <2>2. ToSet(<<>>) = {}  BY DEF ToSet
  <2> QED BY <2>1, <2>2 DEF Trusty, Measured
<1>2. ShapeInv /\ ShapeInv' /\ RecordsInv /\ RecordsInv'
        /\ ReloadGivesTheSameChain /\ UsageInv /\ [Next]_vars => UsageInv'
  BY UsageKept
<1> QED BY <1>1, <1>2, ShapeAlways, RecordsAlways, ReloadAlways, PTL DEF Spec

LEMMA MaxShape ==
  ASSUME NEW k \in Nat, NEW S, S \subseteq 0..k, S # {}
  PROVE  Max(S) \in S /\ \A y \in S : y <= Max(S)
<1> DEFINE R == {k - x : x \in S}
<1>1. R \subseteq Nat /\ R # {}
  OBVIOUS
<1>2. PICK z \in R : \A y \in R : z <= y
  <2> HIDE DEF R
  <2> QED BY <1>1, LeastNatural
<1>3. PICK x \in S : z = k - x
  BY <1>2
<1>4. \A y \in S : y \in 0..k /\ k - y \in R
  OBVIOUS
<1>5. \A y \in S : x >= y
  <2> HIDE DEF R
  <2> SUFFICES ASSUME NEW y \in S PROVE x >= y
    OBVIOUS
  <2>1. z <= k - y /\ y \in 0..k /\ x \in 0..k  BY <1>2, <1>3, <1>4
  <2> QED BY <1>3, <2>1
<1>6. \E m \in S : \A y \in S : m >= y  BY <1>5
<1>7. Max(S) \in S /\ \A y \in S : Max(S) >= y  BY <1>6 DEF Max
<1> QED BY <1>4, <1>7

\* Behind the start, no usage is covered by a boundary of the chain.
LEMMA TrustedIsBehind ==
  ASSUME ShapeInv, LastUsage # NoNode
  PROVE  /\ LastUsage \in ToSet(data) /\ node[LastUsage].seen # <<>>
         /\ \A v \in ToSet(data) :
              node[v].boundary \in ToSet(data) => node[v].boundary < LastUsage
<1> DEFINE marked == {i \in DOMAIN data : node[data[i]].boundary # NoNode}
           bound(i) == node[data[i]].boundary
           known == {i \in marked : bound(i) \in ToSet(data)}
           places == {0} \cup {PositionOf(data, bound(i)) : i \in known}
           start == UsageTrustStart
           trusted == {i \in DOMAIN data : i > start /\ node[data[i]].seen # <<>>}
           k == Len(data)
<1>1. /\ data \in Seq(1..Len(node)) /\ Rising(data) /\ DOMAIN data = 1..k /\ k \in Nat
      /\ Len(node) \in Nat /\ \A i \in 1..k : data[i] \in 1..Len(node)
  BY SMTT(30), Before1, LenProperties, ElementOfSeq DEF ChainShape
<1>2. start # -1 /\ trusted # {} /\ LastUsage = data[Max(trusted)]
  BY DEF LastUsage
<1>3. start = Max(places)
  BY <1>2 DEF UsageTrustStart
<1>4. \A i \in known : PositionOf(data, bound(i)) \in 1..k
                       /\ data[PositionOf(data, bound(i))] = bound(i)
  BY <1>1, PositionShape
<1>5. places \subseteq 0..k /\ places # {}
  BY <1>1, <1>4
<1> HIDE DEF places
<1>6. Max(places) \in places /\ \A y \in places : y <= Max(places)
  BY <1>1, <1>5, MaxShape
<1> HIDE DEF start, trusted
<1>7. trusted \subseteq 0..k
  BY <1>1 DEF trusted
<1>8. Max(trusted) \in trusted
  BY <1>1, <1>2, <1>7, MaxShape
<1> DEFINE t == Max(trusted)
<1> HIDE DEF t
<1>9. /\ t \in 1..k /\ t > start /\ node[data[t]].seen # <<>> /\ LastUsage = data[t]
  BY <1>1, <1>2, <1>8 DEF t, trusted
<1>10. LastUsage \in ToSet(data) /\ node[LastUsage].seen # <<>>
  BY <1>1, <1>9 DEF ToSet
<1>11. ASSUME NEW v \in ToSet(data), node[v].boundary \in ToSet(data)
       PROVE  node[v].boundary < LastUsage
  <2>1. PICK i \in 1..k : v = data[i]  BY <1>1 DEF ToSet
  <2>2. node[v].boundary # NoNode
    <3>1. node[v].boundary \in 1..Len(node)  BY <1>11, Before1
    <3> QED BY <1>1, <3>1 DEF NoNode
  <2>3. i \in known  BY <1>1, <1>11, <2>1, <2>2
  <2> DEFINE p == PositionOf(data, bound(i))
  <2>4. p \in 1..k /\ data[p] = bound(i)  BY <1>4, <2>3
  <2>5. p \in places  BY <2>3 DEF places
  <2>6. bound(i) = node[v].boundary  BY <2>1
  <2> HIDE DEF p, bound, known
  <2>7. p <= start /\ start \in 0..k  BY <1>3, <1>5, <1>6, <2>5
  <2>8. p < t  BY <1>1, <1>9, <2>4, <2>7
  <2>9. data[p] < data[t]  BY <1>1, <1>9, <2>4, <2>8 DEF Rising
  <2> QED BY <1>9, <2>4, <2>6, <2>9
<1> QED BY <1>10, <1>11

\* A usage that is trusted as the size of the context was measured on the
\* messages that now open the window: the boundaries written by compactions and
\* rewinds keep every other usage out.
THEOREM TrustedUsageAlways == Spec => []UsageMeasuresThisWindow
<1>1. ShapeInv /\ UsageInv => UsageMeasuresThisWindow
  <2> SUFFICES ASSUME ShapeInv, UsageInv, alive, LastUsage # NoNode,
                      mishaps \cap ({"moved_call", "half_batch"} \cup Lost) = {}
               PROVE  IsPrefix(node[LastUsage].seen, Says(node, data))
    BY DEF UsageMeasuresThisWindow, Spared
  <2> DEFINE u == LastUsage
  <2>1. /\ u \in ToSet(data) /\ node[u].seen # <<>>
        /\ \A v \in ToSet(data) : node[v].boundary \in ToSet(data) => node[v].boundary < u
    BY TrustedIsBehind
  <2> HIDE DEF u
  <2>2. Measured(node, data)  BY DEF UsageInv, Trusty
  <2>3. /\ Family(node) /\ data \in Seq(1..Len(node)) /\ ToSet(data) \subseteq 1..Len(node)
        /\ Len(node) \in Nat
    BY Before1 DEF ChainShape
  <2>4. Opens(node[u].seen, Says(node, data))
    <3> SUFFICES ASSUME NEW v \in ToSet(data), node[v].boundary \in ToSet(data),
                        u <= node[v].boundary
                 PROVE  FALSE
      BY <2>1, <2>2 DEF Measured
    <3>1. node[v].boundary < u  BY <2>1
    <3>2. node[v].boundary \in 1..Len(node) /\ u \in 1..Len(node)  BY <2>1, <2>3
    <3> QED BY <2>3, <3>1, <3>2
  <2>5. /\ node[u].seen \in Seq(SUBSET (1..Len(node)))
        /\ Says(node, data) \in Seq(SUBSET (1..Len(node)))
    <3>1. u \in 1..Len(node)  BY <2>1, <2>3
    <3> QED BY <2>3, <3>1, SaysShape, FamilyShape DEF NodesUpTo
  <2> QED BY <2>4, <2>5, OpensIsPrefix DEF u
<1> QED BY <1>1, ShapeAlways, UsageAlways, PTL
=============================================================================
