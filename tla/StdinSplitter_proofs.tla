------------------------ MODULE StdinSplitter_proofs -------------------------
(* Theorems about StdinSplitter, for any number of items and any length of a body, as long *)
(* as nothing of the terminal follows an Esc key within its hold.                          *)
EXTENDS StdinSplitter, DataInduction, SequenceTheorems, TLAPS

-----------------------------------------------------------------------------
(* The splitter: what becomes of one more byte *)

Kinds == {"none", "candidate", "body", "discard", "overflow", "paste"}
SplitterTyped ==
    /\ hold \in [kind : Kinds, bytes : Seq(Byte)]
    /\ rest \in Seq(Byte) /\ passthrough \in Seq(Byte) /\ due \in Seq(Byte)
    /\ items \in Nat /\ sequences \in Nat /\ packets \in Nat /\ cut \in BOOLEAN

\* The symbols a candidate can consist of, and those that may begin the end of a paste.
Begun(s) ==
    /\ Len(s) \in 1..4 /\ s[1].symbol = "E"
    /\ Len(s) >= 2 => s[2].symbol \in {"]", "["}
    /\ Len(s) >= 3 => s[2].symbol = "[" /\ s[3].symbol = "?"
    /\ Len(s) = 4 => s[4].symbol = "n"
Ending(s) ==
    /\ Len(s) \in 0..2
    /\ Len(s) >= 1 => s[1].symbol = "E"
    /\ Len(s) = 2 => s[2].symbol = "["

LEMMA ClassifyTwo ==
  ASSUME NEW x \in Symbol
  PROVE  Classify(<<"E", x>>) = IF x \in {"]", "["} THEN "partial" ELSE "no"
BY DEF Classify, IsStrictPrefix, IsPrefix, SequencePrefix, ColorQueryPrefix, PasteOpen, Report

LEMMA ClassifyOsc ==
  ASSUME NEW x \in Symbol
  PROVE  Classify(<<"E", "]", x>>) = IF x = "5" THEN "sequence"
                                     ELSE IF x = "1" THEN "color" ELSE "no"
BY DEF Classify, IsStrictPrefix, IsPrefix, SequencePrefix, ColorQueryPrefix, PasteOpen, Report

LEMMA ClassifyCsi ==
  ASSUME NEW x \in Symbol
  PROVE  Classify(<<"E", "[", x>>) = IF x = "o" THEN "paste"
                                     ELSE IF x = "?" THEN "partial" ELSE "no"
BY DEF Classify, IsStrictPrefix, IsPrefix, SequencePrefix, ColorQueryPrefix, PasteOpen, Report

LEMMA ClassifyFour ==
  ASSUME NEW x \in Symbol
  PROVE  Classify(<<"E", "[", "?", x>>) = IF x = "n" THEN "partial" ELSE "no"
BY DEF Classify, IsStrictPrefix, IsPrefix, SequencePrefix, ColorQueryPrefix, PasteOpen, Report

LEMMA ClassifyFive ==
  ASSUME NEW x \in Symbol
  PROVE  Classify(<<"E", "[", "?", "n", x>>) = IF x = "y" THEN "report" ELSE "no"
BY DEF Classify, IsStrictPrefix, IsPrefix, SequencePrefix, ColorQueryPrefix, PasteOpen, Report

LEMMA SymbolsOf ==
  ASSUME NEW s \in Seq(Byte)
  PROVE  /\ Symbols(s) \in Seq(Symbol) /\ Len(Symbols(s)) = Len(s)
         /\ \A i \in 1..Len(s) : Symbols(s)[i] = s[i].symbol
<1>1. DOMAIN s = 1..Len(s) /\ Len(s) \in Nat /\ \A i \in 1..Len(s) : s[i] \in Byte
  BY LenProperties, ElementOfSeq
<1>2. \A i \in 1..Len(s) : s[i].symbol \in Symbol
  BY <1>1 DEF Byte
<1>3. Symbols(s) = [i \in 1..Len(s) |-> s[i].symbol]
  BY <1>1 DEF Symbols
<1> QED
  BY <1>1, <1>2, <1>3

\* The symbols of a sequence of bytes and one more.
LEMMA SymbolsAppend ==
  ASSUME NEW s \in Seq(Byte), NEW b \in Byte
  PROVE  /\ Symbols(s) \in Seq(Symbol) /\ Len(Symbols(s)) = Len(s)
         /\ Append(s, b) \in Seq(Byte) /\ Len(Append(s, b)) = Len(s) + 1
         /\ Len(Symbols(Append(s, b))) = Len(s) + 1 /\ Symbols(Append(s, b)) \in Seq(Symbol)
         /\ \A i \in 1..Len(s) : Symbols(Append(s, b))[i] = Symbols(s)[i]
         /\ Symbols(Append(s, b))[Len(s) + 1] = b.symbol
<1>1. \A r \in Seq(Byte) : /\ Symbols(r) \in Seq(Symbol) /\ Len(Symbols(r)) = Len(r)
                           /\ \A i \in 1..Len(r) : Symbols(r)[i] = r[i].symbol
  BY SymbolsOf
<1>2. Append(s, b) \in Seq(Byte) /\ Len(Append(s, b)) = Len(s) + 1
  BY AppendProperties, LenProperties
<1>3. Append(s, b)[Len(s) + 1] = b /\ \A i \in 1..Len(s) : Append(s, b)[i] = s[i]
  BY AppendProperties
<1>4. Len(s) \in Nat /\ Len(s) + 1 \in 1..(Len(s) + 1) /\ 1..Len(s) \subseteq 1..(Len(s) + 1)
  BY LenProperties
<1> QED
  BY <1>1, <1>2, <1>3, <1>4

\* A short sequence is its symbols.
LEMMA SpelledNothing ==
  ASSUME NEW t \in Seq(Symbol), Len(t) = 0 PROVE t = <<>>
OBVIOUS

LEMMA SpelledOne ==
  ASSUME NEW t \in Seq(Symbol), Len(t) = 1 PROVE t = <<t[1]>>
OBVIOUS

LEMMA SpelledTwo ==
  ASSUME NEW t \in Seq(Symbol), Len(t) = 2 PROVE t = <<t[1], t[2]>>
OBVIOUS

LEMMA SpelledThree ==
  ASSUME NEW t \in Seq(Symbol), Len(t) = 3 PROVE t = <<t[1], t[2], t[3]>>
OBVIOUS

LEMMA SpelledFour ==
  ASSUME NEW t \in Seq(Symbol), Len(t) = 4 PROVE t = <<t[1], t[2], t[3], t[4]>>
OBVIOUS

LEMMA SpelledFive ==
  ASSUME NEW t \in Seq(Symbol), Len(t) = 5 PROVE t = <<t[1], t[2], t[3], t[4], t[5]>>
OBVIOUS

\* What Classify says of a candidate with one more byte.
LEMMA VerdictIs ==
  ASSUME NEW s \in Seq(Byte), NEW b \in Byte, Begun(s)
  PROVE  LET v == Classify(Symbols(Append(s, b)))
             n == Len(s)
             x == b.symbol
         IN  /\ v \in {"partial", "sequence", "color", "paste", "report", "no"}
             /\ v = "sequence" <=> n = 2 /\ s[2].symbol = "]" /\ x = "5"
             /\ v = "color" <=> n = 2 /\ s[2].symbol = "]" /\ x = "1"
             /\ v = "paste" <=> n = 2 /\ s[2].symbol = "[" /\ x = "o"
             /\ v = "report" <=> n = 4 /\ x = "y"
             /\ v = "partial" <=> Begun(Append(s, b))
<1> DEFINE a == Append(s, b)
           u == Symbols(a)
           n == Len(s)
           x == b.symbol
<1>1. /\ n \in 1..4 /\ x \in Symbol /\ a \in Seq(Byte) /\ Len(a) = n + 1
      /\ u \in Seq(Symbol) /\ Len(u) = n + 1 /\ u[n + 1] = x
      /\ \A i \in 1..n : u[i] = s[i].symbol
  <2>1. n \in 1..4  BY DEF Begun
  <2>2. x \in Symbol  BY DEF Byte
  <2>3. a \in Seq(Byte) /\ Len(a) = n + 1 /\ Len(s) \in Nat  BY AppendProperties
  <2>4. /\ u \in Seq(Symbol) /\ Len(u) = n + 1
        /\ u[n + 1] = x /\ \A i \in 1..n : u[i] = s[i].symbol
    BY <2>3, SymbolsAppend, SymbolsOf
  <2> QED BY <2>1, <2>2, <2>3, <2>4
<1>2. a[n + 1] = b /\ \A i \in 1..n : a[i] = s[i]
  BY AppendProperties
<1> HIDE DEF a, u, n, x
<1>3. n = Len(s) /\ x = b.symbol
  BY DEF n, x
<1>4. CASE n = 1
  <2>1. u[1] = "E" /\ u[2] = x /\ Len(u) = 2
    BY <1>1, <1>3, <1>4 DEF Begun
  <2>2. u = <<"E", x>>
    BY <1>1, <2>1, SpelledTwo
  <2>3. Classify(u) = IF x \in {"]", "["} THEN "partial" ELSE "no"
    BY <1>1, <2>2, ClassifyTwo
  <2>4. Begun(a) <=> x \in {"]", "["}
    BY <1>1, <1>2, <1>3, <1>4 DEF Begun
  <2> QED
    BY <1>3, <1>4, <2>3, <2>4 DEF a, u
<1>5. CASE n = 2 /\ s[2].symbol = "]"
  <2>1. u[1] = "E" /\ u[2] = "]" /\ u[3] = x /\ Len(u) = 3
    BY <1>1, <1>3, <1>5 DEF Begun
  <2>2. u = <<"E", "]", x>>
    BY <1>1, <2>1, SpelledThree
  <2>3. Classify(u) = IF x = "5" THEN "sequence" ELSE IF x = "1" THEN "color" ELSE "no"
    BY <1>1, <2>2, ClassifyOsc
  <2>4. ~Begun(a)
    BY <1>1, <1>2, <1>3, <1>5 DEF Begun
  <2> QED
    BY <1>3, <1>5, <2>3, <2>4 DEF a, u
<1>6. CASE n = 2 /\ s[2].symbol = "["
  <2>1. u[1] = "E" /\ u[2] = "[" /\ u[3] = x /\ Len(u) = 3
    BY <1>1, <1>3, <1>6 DEF Begun
  <2>2. u = <<"E", "[", x>>
    BY <1>1, <2>1, SpelledThree
  <2>3. Classify(u) = IF x = "o" THEN "paste" ELSE IF x = "?" THEN "partial" ELSE "no"
    BY <1>1, <2>2, ClassifyCsi
  <2>4. Begun(a) <=> x = "?"
    BY <1>1, <1>2, <1>3, <1>6 DEF Begun
  <2> QED
    BY <1>3, <1>6, <2>3, <2>4 DEF a, u
<1>7. CASE n = 3
  <2>1. u[1] = "E" /\ u[2] = "[" /\ u[3] = "?" /\ u[4] = x /\ Len(u) = 4
    BY <1>1, <1>3, <1>7 DEF Begun
  <2>2. u = <<"E", "[", "?", x>>
    BY <1>1, <2>1, SpelledFour
  <2>3. Classify(u) = IF x = "n" THEN "partial" ELSE "no"
    BY <1>1, <2>2, ClassifyFour
  <2>4. Begun(a) <=> x = "n"
    BY <1>1, <1>2, <1>3, <1>7 DEF Begun
  <2> QED
    BY <1>3, <1>7, <2>3, <2>4 DEF a, u
<1>8. CASE n = 4
  <2>1. u[1] = "E" /\ u[2] = "[" /\ u[3] = "?" /\ u[4] = "n" /\ u[5] = x /\ Len(u) = 5
    BY <1>1, <1>3, <1>8 DEF Begun
  <2>2. u = <<"E", "[", "?", "n", x>>
    BY <1>1, <2>1, SpelledFive
  <2>3. Classify(u) = IF x = "y" THEN "report" ELSE "no"
    BY <1>1, <2>2, ClassifyFive
  <2>4. ~Begun(a)
    BY <1>1, <1>3, <1>8 DEF Begun
  <2> QED
    BY <1>3, <1>8, <2>3, <2>4 DEF a, u
<1>9. n = 2 => s[2].symbol \in {"]", "["}
  BY <1>3 DEF Begun
<1> QED
  BY <1>1, <1>4, <1>5, <1>6, <1>7, <1>8, <1>9

\* A body ends with its two-symbol terminator.
LEMMA EndsWithST ==
  ASSUME NEW s \in Seq(Symbol)
  PROVE  IsSuffix(<<"E", "S">>, s) <=>
            Len(s) >= 2 /\ s[Len(s) - 1] = "E" /\ s[Len(s)] = "S"
<1> DEFINE n == Len(s)
           r == Reverse(s)
           p == Reverse(<<"E", "S">>)
<1>1. n \in Nat /\ \A i \in 1..n : s[i] \in Symbol
  BY LenProperties, ElementOfSeq
<1>2. p = <<"S", "E">>
  BY DEF Reverse
<1>3. r \in Seq(Symbol) /\ Len(r) = n /\ \A i \in 1..n : r[i] = s[(n - i) + 1]
  <2>1. r = [i \in 1..n |-> s[(n - i) + 1]]
    BY DEF Reverse
  <2>2. \A i \in 1..n : (n - i) + 1 \in 1..n
    BY <1>1
  <2> HIDE DEF n, r
  <2>3. \A i \in 1..n : s[(n - i) + 1] \in Symbol
    BY <1>1, <2>2
  <2> QED
    BY <1>1, <2>1, <2>3
<1>4. SubSeq(p, 1, 2) = <<"S", "E">> /\ Len(p) = 2
  <2> HIDE DEF p
  <2>1. <<"S", "E">> \in Seq(Symbol) /\ Len(<<"S", "E">>) = 2
    BY DEF Symbol
  <2> QED
    BY <1>2, <2>1, SubSeqFull
<1>5. CASE n >= 2
  <2> HIDE DEF r, p
  <2> DEFINE q == SubSeq(r, 1, 2)
  <2>1. q \in Seq(Symbol) /\ Len(q) = 2 /\ q[1] = r[1] /\ q[2] = r[2]
    <3>1. \A i \in 1..2 : r[i] \in Symbol
      BY <1>3, <1>5, ElementOfSeq
    <3>2. /\ q \in Seq(Symbol) /\ Len(q) = IF 1 <= 2 THEN 2 - 1 + 1 ELSE 0
          /\ \A i \in 1..(2 - 1 + 1) : q[i] = r[1 + i - 1]
      BY <3>1, SubSeqProperties
    <3> QED
      BY <3>2
  <2>2. r[1] = s[n] /\ r[2] = s[n - 1]
    BY <1>3, <1>5
  <2> HIDE DEF q
  <2>3. q = <<"S", "E">> <=> q[1] = "S" /\ q[2] = "E"
    BY <2>1
  <2> QED
    BY <1>3, <1>4, <1>5, <2>1, <2>2, <2>3 DEF IsSuffix, IsPrefix, p, q, r
<1>6. CASE n < 2
  <2>1. ~IsSuffix(<<"E", "S">>, s)
    BY <1>3, <1>4, <1>6 DEF IsSuffix, IsPrefix
  <2> QED
    BY <1>1, <1>6, <2>1
<1> QED
  BY <1>1, <1>5, <1>6

\* What comes from k on, and what comes before.
LEMMA From ==
  ASSUME NEW s \in Seq(Byte), NEW k \in 1..(Len(s) + 1)
  PROVE  LET t == SubSeq(s, k, Len(s)) IN
         /\ t \in Seq(Byte) /\ Len(t) = Len(s) - k + 1
         /\ \A i \in 1..(Len(s) - k + 1) : t[i] = s[k + i - 1]
         /\ SubSeq(s, 1, k - 1) \in Seq(Byte) /\ SubSeq(s, 1, k - 1) \o t = s
         /\ Len(SubSeq(s, 1, k - 1)) = k - 1 /\ \A i \in 1..(k - 1) : SubSeq(s, 1, k - 1)[i] = s[i]
<1>1. Len(s) \in Nat /\ k \in Int /\ Len(s) \in Int /\ \A i \in 1..Len(s) : s[i] \in Byte
  BY LenProperties, ElementOfSeq
<1> DEFINE t == SubSeq(s, k, Len(s))
           r == SubSeq(s, 1, k - 1)
<1>2. /\ t \in Seq(Byte) /\ Len(t) = IF k <= Len(s) THEN Len(s) - k + 1 ELSE 0
      /\ \A i \in 1..(Len(s) - k + 1) : t[i] = s[k + i - 1]
  BY <1>1, SubSeqProperties
<1>3. /\ r \in Seq(Byte) /\ Len(r) = IF 1 <= k - 1 THEN (k - 1) - 1 + 1 ELSE 0
      /\ \A i \in 1..((k - 1) - 1 + 1) : r[i] = s[1 + i - 1]
  <2>1. \A i \in 1..(k - 1) : s[i] \in Byte
    BY <1>1
  <2>2. 1 \in Int /\ k - 1 \in Int
    BY <1>1
  <2> QED
    BY <2>1, <2>2, SubSeqProperties
<1> HIDE DEF t, r
<1>4. /\ Len(t) = Len(s) - k + 1 /\ Len(r) = k - 1 /\ \A i \in 1..(k - 1) : r[i] = s[i]
  BY <1>1, <1>2, <1>3
<1>5. /\ r \o t \in Seq(Byte) /\ Len(r \o t) = Len(s)
      /\ \A i \in 1..Len(s) : (r \o t)[i] = IF i <= k - 1 THEN r[i] ELSE t[i - (k - 1)]
  BY <1>1, <1>2, <1>3, <1>4, ConcatProperties
<1>6. \A i \in 1..Len(s) : (r \o t)[i] = s[i]
  <2> SUFFICES ASSUME NEW i \in 1..Len(s) PROVE (r \o t)[i] = s[i]
    OBVIOUS
  <2>0. i \in Int /\ (i <= k - 1 \/ i > k - 1)
    BY <1>1
  <2>1. CASE i <= k - 1
    BY <1>1, <1>4, <1>5, <2>1
  <2>2. CASE i > k - 1
    <3> DEFINE j == i - (k - 1)
    <3>1. j \in 1..(Len(s) - k + 1) /\ k + j - 1 = i /\ ~(i <= k - 1)
      BY <1>1, <2>2
    <3>2. (r \o t)[i] = t[j]
      BY <1>5, <3>1
    <3> HIDE DEF j
    <3>3. t[j] = s[k + j - 1]
      BY <1>2, <3>1
    <3> QED
      BY <3>1, <3>2, <3>3
  <2> QED
    BY <2>0, <2>1, <2>2
<1>7. r \o t = s
  BY <1>5, <1>6, SeqEqual
<1> QED
  <2>1. Len(t) = Len(s) - k + 1
    BY <1>4
  <2> QED
    BY <1>2, <1>3, <1>4, <1>7, <2>1 DEF t, r

\* A few bytes may begin the end of a paste.
LEMMA CloseBegins ==
  ASSUME NEW s \in Seq(Byte), Len(s) \in 0..3
  PROVE  IsPrefix(Symbols(s), PasteClose) <=>
            /\ Len(s) >= 1 => s[1].symbol = "E"
            /\ Len(s) >= 2 => s[2].symbol = "["
            /\ Len(s) = 3 => s[3].symbol = "c"
<1> DEFINE t == Symbols(s)
           n == Len(s)
           p == SubSeq(t, 1, n)
           q == SubSeq(PasteClose, 1, n)
<1>1. /\ t \in Seq(Symbol) /\ Len(t) = n /\ n \in Int
      /\ \A i \in 1..n : t[i] = s[i].symbol /\ t[i] \in Symbol
  <2>1. t \in Seq(Symbol) /\ Len(t) = n /\ \A i \in 1..n : t[i] = s[i].symbol
    BY SymbolsOf
  <2>2. \A i \in 1..Len(t) : t[i] \in Symbol
    BY <2>1, ElementOfSeq
  <2> QED
    BY <2>1, <2>2
<1>2. /\ PasteClose \in Seq(Symbol) /\ Len(PasteClose) = 3
      /\ PasteClose[1] = "E" /\ PasteClose[2] = "[" /\ PasteClose[3] = "c"
  <2>1. <<"E", "[", "c">> \in Seq(Symbol)
    BY DEF Symbol
  <2>2. Len(PasteClose) = 3 /\ PasteClose[1] = "E" /\ PasteClose[2] = "[" /\ PasteClose[3] = "c"
    BY DEF PasteClose
  <2> QED
    BY <2>1, <2>2 DEF PasteClose
<1> HIDE DEF t, n
<1>3. n \in 0..3
  BY DEF n
<1>4. p \in Seq(Symbol) /\ Len(p) = n /\ \A i \in 1..n : p[i] = t[i]
  <2>1. /\ p \in Seq(Symbol) /\ Len(p) = IF 1 <= n THEN n - 1 + 1 ELSE 0
        /\ \A i \in 1..(n - 1 + 1) : p[i] = t[1 + i - 1]
    BY <1>1, SubSeqProperties
  <2> HIDE DEF p
  <2> QED
    BY <1>3, <2>1
<1>5. q \in Seq(Symbol) /\ Len(q) = n /\ \A i \in 1..n : q[i] = PasteClose[i]
  <2>0. \A i \in 1..n : PasteClose[i] \in Symbol
    <3>1. \A i \in 1..3 : PasteClose[i] \in Symbol
      BY <1>2, ElementOfSeq
    <3> QED
      BY <1>3, <3>1
  <2>1. /\ q \in Seq(Symbol) /\ Len(q) = IF 1 <= n THEN n - 1 + 1 ELSE 0
        /\ \A i \in 1..(n - 1 + 1) : q[i] = PasteClose[1 + i - 1]
    BY <1>1, <2>0, SubSeqProperties
  <2> HIDE DEF q
  <2> QED
    BY <1>3, <2>1
<1> HIDE DEF p, q
<1>6. p = q <=> \A i \in 1..n : p[i] = q[i]
  <2>1. (\A i \in 1..n : p[i] = q[i]) => p = q
    BY <1>4, <1>5, SeqEqual
  <2> QED
    BY <2>1
<1>7. (\A i \in 1..n : p[i] = q[i]) <=> /\ n >= 1 => s[1].symbol = "E"
                                        /\ n >= 2 => s[2].symbol = "["
                                        /\ n = 3 => s[3].symbol = "c"
  <2>1. \A i \in 1..n : p[i] = s[i].symbol /\ q[i] = PasteClose[i]
    BY <1>1, <1>4, <1>5
  <2>2. CASE n = 0
    BY <2>2
  <2>3. CASE n = 1
    BY <1>2, <2>1, <2>3
  <2>4. CASE n = 2
    BY <1>2, <2>1, <2>4
  <2>5. CASE n = 3
    BY <1>2, <2>1, <2>5
  <2> QED
    BY <1>3, <2>2, <2>3, <2>4, <2>5
<1>8. IsPrefix(t, PasteClose) <=> p = q
  BY <1>1, <1>2, <1>3 DEF IsPrefix, p, q
<1> QED
  BY <1>6, <1>7, <1>8 DEF t, n

-----------------------------------------------------------------------------
(* The splitter: what one more byte does *)

HeldBytes == IF hold.kind \in {"candidate", "paste"} THEN hold.bytes ELSE <<>>
Grown(b) == Append(hold.bytes, b)

Begins(b) ==
    /\ hold.kind = "none" /\ b.symbol = "E"
    /\ hold' = [kind |-> "candidate", bytes |-> <<b>>] /\ UNCHANGED <<passthrough, sequences>>
Passes(b) ==
    /\ hold.kind = "none" /\ b.symbol # "E"
    /\ passthrough' = Append(passthrough, b) /\ UNCHANGED <<hold, sequences>>
GoesOn(b) ==
    /\ hold.kind = "candidate" /\ Begun(Grown(b))
    /\ hold' = [kind |-> "candidate", bytes |-> Grown(b)] /\ UNCHANGED <<passthrough, sequences>>
Starts(b) ==
    /\ hold.kind = "candidate" /\ Len(hold.bytes) = 2 /\ hold.bytes[2].symbol = "]"
    /\ \/ b.symbol = "5" /\ hold' = [kind |-> "body", bytes |-> <<>>]
       \/ b.symbol = "1" /\ hold' = [kind |-> "discard", bytes |-> <<>>]
    /\ UNCHANGED <<passthrough, sequences>>
Pastes(b) ==
    /\ hold.kind = "candidate" /\ Len(hold.bytes) = 2 /\ hold.bytes[2].symbol = "[" /\ b.symbol = "o"
    /\ hold' = [kind |-> "paste", bytes |-> <<>>]
    /\ passthrough' = passthrough \o Grown(b) /\ UNCHANGED sequences
Reports(b) ==
    /\ hold.kind = "candidate" /\ Len(hold.bytes) = 4 /\ b.symbol = "y"
    /\ hold' = None /\ UNCHANGED <<passthrough, sequences>>
Refuses(b) ==
    /\ hold.kind = "candidate" /\ ~Begun(Grown(b))
    /\ Len(hold.bytes) = 2 /\ hold.bytes[2].symbol = "]" => b.symbol \notin {"5", "1"}
    /\ Len(hold.bytes) = 2 /\ hold.bytes[2].symbol = "[" => b.symbol # "o"
    /\ Len(hold.bytes) = 4 => b.symbol # "y"
    /\ hold' = None /\ passthrough' = passthrough \o Grown(b) /\ UNCHANGED sequences
EndsBody(b) ==
    /\ hold.kind \in {"body", "discard", "overflow"}
    /\ \/ b.symbol = "T"
       \/ b.symbol = "S" /\ Len(hold.bytes) >= 1 /\ hold.bytes[Len(hold.bytes)].symbol = "E"
    /\ hold' = None /\ UNCHANGED passthrough
    /\ sequences' = IF hold.kind = "body" THEN sequences + 1 ELSE sequences
KeepsBody(b) ==
    /\ hold.kind \in {"body", "discard", "overflow"} /\ b.symbol # "T"
    /\ ~(b.symbol = "S" /\ Len(hold.bytes) >= 1 /\ hold.bytes[Len(hold.bytes)].symbol = "E")
    /\ hold' = IF hold.kind = "body" /\ Len(hold.bytes) + 1 > BodyMax
               THEN [kind |-> "overflow", bytes |-> <<b>>]
               ELSE [kind |-> hold.kind, bytes |-> Grown(b)]
    /\ UNCHANGED <<passthrough, sequences>>
EndsPaste(b) ==
    /\ hold.kind = "paste" /\ Len(hold.bytes) = 2 /\ b.symbol = "c"
    /\ hold' = None /\ passthrough' = passthrough \o Grown(b) /\ UNCHANGED sequences
KeepsPaste(b) ==
    /\ hold.kind = "paste" /\ ~(Len(hold.bytes) = 2 /\ b.symbol = "c")
    /\ \E k \in 1..(Len(Grown(b)) + 1) :
          /\ hold' = [kind |-> "paste", bytes |-> SubSeq(Grown(b), k, Len(Grown(b)))]
          /\ passthrough' = passthrough \o SubSeq(Grown(b), 1, k - 1)
    /\ Ending(hold'.bytes)
    /\ b.symbol = "E" => Len(hold'.bytes) = 1
    /\ b.symbol \notin {"E", "["} => hold'.bytes = <<>>
    /\ Len(hold.bytes) = 1 /\ b.symbol = "[" => Len(hold'.bytes) = 2
    /\ UNCHANGED sequences

\* Between two steps the splitter holds what it may still turn out to need.
HoldInv ==
    /\ hold.kind = "none" => hold.bytes = <<>>
    /\ hold.kind = "candidate" => Begun(hold.bytes)
    /\ hold.kind = "paste" => Ending(hold.bytes)

LEMMA FeedsNothingHeld ==
  ASSUME NEW b \in Byte, hold.kind = "none",
         (CASE hold.kind = "none" /\ b.symbol = "E" ->
                    hold' = Hold("candidate", <<b>>) /\ UNCHANGED <<passthrough, sequences, reports>>
            [] hold.kind = "none" /\ b.symbol # "E" ->
                    passthrough' = Append(passthrough, b) /\ UNCHANGED <<hold, sequences, reports>>
            [] hold.kind = "candidate" -> FeedCandidate(b)
            [] hold.kind = "paste" -> FeedPaste(b)
            [] OTHER -> FeedBody(b))
  PROVE  Begins(b) \/ Passes(b)
<1>1. CASE b.symbol = "E"
  BY <1>1 DEF Begins, Hold
<1>2. CASE b.symbol # "E"
  BY <1>2 DEF Passes
<1> QED
  BY <1>1, <1>2

LEMMA FeedsCandidate ==
  ASSUME NEW b \in Byte, SplitterTyped, hold.kind = "candidate", HoldInv, FeedCandidate(b)
  PROVE  GoesOn(b) \/ Starts(b) \/ Pastes(b) \/ Reports(b) \/ Refuses(b)
<1> DEFINE s == hold.bytes
           v == Classify(Symbols(Append(s, b)))
<1>1. s \in Seq(Byte) /\ Begun(s)
  BY DEF SplitterTyped, HoldInv
<1>2. /\ v \in {"partial", "sequence", "color", "paste", "report", "no"}
      /\ v = "sequence" <=> Len(s) = 2 /\ s[2].symbol = "]" /\ b.symbol = "5"
      /\ v = "color" <=> Len(s) = 2 /\ s[2].symbol = "]" /\ b.symbol = "1"
      /\ v = "paste" <=> Len(s) = 2 /\ s[2].symbol = "[" /\ b.symbol = "o"
      /\ v = "report" <=> Len(s) = 4 /\ b.symbol = "y"
      /\ v = "partial" <=> Begun(Grown(b))
  BY <1>1, VerdictIs DEF Grown
<1>3. /\ hold' = CASE v = "partial"  -> Hold("candidate", Grown(b))
                    [] v = "sequence" -> Hold("body", <<>>)
                    [] v = "color"    -> Hold("discard", <<>>)
                    [] v = "paste"    -> Hold("paste", <<>>)
                    [] OTHER          -> None
      /\ passthrough' = IF v \in {"paste", "no"} THEN passthrough \o Grown(b) ELSE passthrough
      /\ sequences' = sequences
  BY DEF FeedCandidate, Grown
<1> HIDE DEF v, s
<1>4. CASE v = "partial"
  BY <1>2, <1>3, <1>4 DEF GoesOn, Hold
<1>5. CASE v \in {"sequence", "color"}
  BY <1>2, <1>3, <1>5 DEF Starts, Hold, s
<1>6. CASE v = "paste"
  BY <1>2, <1>3, <1>6 DEF Pastes, Hold, s
<1>7. CASE v = "report"
  BY <1>2, <1>3, <1>7 DEF Reports, s
<1>8. CASE v = "no"
  BY <1>2, <1>3, <1>8 DEF Refuses, s
<1> QED
  BY <1>2, <1>4, <1>5, <1>6, <1>7, <1>8

LEMMA FeedsBody ==
  ASSUME NEW b \in Byte, SplitterTyped, hold.kind \in {"body", "discard", "overflow"}, FeedBody(b)
  PROVE  EndsBody(b) \/ KeepsBody(b)
<1> DEFINE s == hold.bytes
           n == Len(s)
           a == Append(s, b)
           t == Symbols(a)
           over == b.symbol = "T" \/ IsSuffix(<<"E", "S">>, t)
<1>1. s \in Seq(Byte) /\ n \in Nat
  BY LenProperties DEF SplitterTyped
<1>2. /\ t \in Seq(Symbol) /\ Len(t) = n + 1 /\ t[n + 1] = b.symbol /\ Len(a) = n + 1
      /\ \A i \in 1..n : t[i] = s[i].symbol
  BY <1>1, SymbolsAppend, SymbolsOf
<1>3. IsSuffix(<<"E", "S">>, t) <=> b.symbol = "S" /\ n >= 1 /\ s[n].symbol = "E"
  <2>1. IsSuffix(<<"E", "S">>, t) <=> Len(t) >= 2 /\ t[Len(t) - 1] = "E" /\ t[Len(t)] = "S"
    BY <1>2, EndsWithST
  <2> HIDE DEF t, n
  <2>2. (n + 1) - 1 = n /\ (n >= 1 => t[n] = s[n].symbol) /\ (n + 1 >= 2 <=> n >= 1)
    BY <1>1, <1>2
  <2> QED
    BY <1>2, <2>1, <2>2
<1>4. /\ hold' = IF over THEN None
                 ELSE IF hold.kind = "body" /\ Len(a) > BodyMax THEN Hold("overflow", <<b>>)
                 ELSE Hold(hold.kind, a)
      /\ sequences' = IF over /\ hold.kind = "body" THEN sequences + 1 ELSE sequences
      /\ passthrough' = passthrough
  BY DEF FeedBody
<1>5. over <=> b.symbol = "T" \/ (b.symbol = "S" /\ n >= 1 /\ s[n].symbol = "E")
  BY <1>3
<1> HIDE DEF over, t
<1>6. CASE over
  BY <1>4, <1>5, <1>6 DEF EndsBody
<1>7. CASE ~over
  BY <1>2, <1>4, <1>5, <1>7 DEF KeepsBody, Hold, Grown
<1> QED
  BY <1>6, <1>7

LEMMA FeedsPaste ==
  ASSUME NEW b \in Byte, SplitterTyped, hold.kind = "paste", HoldInv, FeedPaste(b)
  PROVE  EndsPaste(b) \/ KeepsPaste(b)
<1> DEFINE s == hold.bytes
           n == Len(s)
           a == Append(s, b)
           m == Len(a)
           Fits(i) == IsPrefix(Symbols(SubSeq(a, i, m)), PasteClose)
           Least(i) == Fits(i) /\ \A j \in 1..i - 1 : ~Fits(j)
           keep == CHOOSE i \in 1..m + 1 : Least(i)
           ended == Symbols(a) = PasteClose
<1>1. /\ s \in Seq(Byte) /\ n \in 0..2 /\ a \in Seq(Byte) /\ m = n + 1 /\ a[m] = b
      /\ \A i \in 1..n : a[i] = s[i]
      /\ n >= 1 => s[1].symbol = "E"
      /\ n = 2 => s[2].symbol = "["
  BY AppendProperties DEF SplitterTyped, HoldInv, Ending
<1>2. /\ hold' = IF ended THEN None ELSE Hold("paste", SubSeq(a, keep, m))
      /\ passthrough' = passthrough \o (IF ended THEN a ELSE SubSeq(a, 1, keep - 1))
      /\ sequences' = sequences
  BY DEF FeedPaste
<1>3. Grown(b) = a /\ s = hold.bytes /\ n = Len(s)
  BY DEF Grown
<1>4. ended <=> n = 2 /\ b.symbol = "c"
  <2>1. /\ Symbols(a) \in Seq(Symbol) /\ Len(Symbols(a)) = n + 1
        /\ \A i \in 1..(n + 1) : Symbols(a)[i] = a[i].symbol
    BY <1>1, SymbolsOf
  <2>2. PasteClose = <<"E", "[", "c">> /\ Len(PasteClose) = 3 /\ PasteClose[3] = "c"
    BY DEF PasteClose
  <2> HIDE DEF a, n, s, m
  <2>3. ASSUME Symbols(a) = PasteClose PROVE n = 2 /\ b.symbol = "c"
    BY <1>1, <2>1, <2>2, <2>3
  <2>4. ASSUME n = 2, b.symbol = "c" PROVE Symbols(a) = PasteClose
    <3>1. Symbols(a)[1] = "E" /\ Symbols(a)[2] = "[" /\ Symbols(a)[3] = "c"
      BY <1>1, <2>1, <2>4
    <3> QED
      BY <2>1, <2>2, <2>4, <3>1, SpelledThree
  <2> QED
    BY <2>3, <2>4
<1>5. \A i \in 1..(m + 1) :
         /\ SubSeq(a, i, m) \in Seq(Byte) /\ Len(SubSeq(a, i, m)) = m - i + 1
         /\ \A j \in 1..(m - i + 1) : SubSeq(a, i, m)[j] = a[i + j - 1]
  BY <1>1, From
<1> HIDE DEF a, s, n, m
<1> DEFINE Reads(i) == /\ m - i + 1 >= 1 => a[i].symbol = "E"
                       /\ m - i + 1 >= 2 => a[i + 1].symbol = "["
                       /\ m - i + 1 = 3 => a[i + 2].symbol = "c"
<1>6. ASSUME NEW i \in 1..(m + 1) PROVE Fits(i) <=> Reads(i)
  <2> DEFINE u == SubSeq(a, i, m)
             l == m - i + 1
  <2>1. u \in Seq(Byte) /\ Len(u) = l /\ \A j \in 1..l : u[j] = a[i + j - 1]
    BY <1>5
  <2>2. l \in 0..3 /\ i \in Int
    BY <1>1
  <2> HIDE DEF u, l
  <2>3. IsPrefix(Symbols(u), PasteClose) <=> /\ l >= 1 => u[1].symbol = "E"
                                             /\ l >= 2 => u[2].symbol = "["
                                             /\ l = 3 => u[3].symbol = "c"
    BY <2>1, <2>2, CloseBegins
  <2>4. /\ l >= 1 => u[1] = a[i]
        /\ l >= 2 => u[2] = a[i + 1]
        /\ l = 3 => u[3] = a[i + 2]
    <3>1. i + 1 - 1 = i /\ i + 2 - 1 = i + 1 /\ i + 3 - 1 = i + 2
      BY <2>2
    <3>2. /\ l >= 1 => 1 \in 1..l
          /\ l >= 2 => 2 \in 1..l
          /\ l = 3 => 3 \in 1..l
      BY <2>2
    <3> QED
      BY <2>1, <3>1, <3>2
  <2>5. Fits(i) <=> /\ l >= 1 => a[i].symbol = "E"
                    /\ l >= 2 => a[i + 1].symbol = "["
                    /\ l = 3 => a[i + 2].symbol = "c"
    BY <2>2, <2>3, <2>4 DEF u
  <2> QED
    BY <2>5 DEF l
<1> HIDE DEF Fits
<1>7. keep \in 1..(m + 1) /\ Least(keep)
  <2> DEFINE T == {i \in 1..(m + 1) : Fits(i)}
  <2>1. T \subseteq Nat /\ m + 1 \in T
    BY <1>1, <1>6
  <2>2. PICK i \in T : \A j \in T : i <= j
    <3> HIDE DEF T
    <3> QED
      BY <2>1, LeastNatural
  <2>3. i \in 1..(m + 1) /\ Least(i)
    BY <1>1, <2>2
  <2> HIDE DEF Least
  <2> QED
    BY <2>3
<1> HIDE DEF keep, ended
<1>8. CASE ended
  BY <1>1, <1>2, <1>3, <1>4, <1>8 DEF EndsPaste
<1>9. CASE ~ended
  <2> DEFINE u == SubSeq(a, keep, m)
             l == m - keep + 1
  <2>1. /\ u \in Seq(Byte) /\ Len(u) = l /\ l \in 0..m
        /\ l >= 1 => u[1] = a[keep]
        /\ l >= 2 => u[2] = a[keep + 1]
    <3>1. Len(u) = l /\ u \in Seq(Byte) /\ \A j \in 1..l : u[j] = a[keep + j - 1]
      BY <1>5, <1>7
    <3>2. l \in 0..m /\ keep + 1 - 1 = keep /\ keep + 2 - 1 = keep + 1
      BY <1>1, <1>7
    <3> HIDE DEF u, l
    <3>3. m \in Nat
      BY <1>1
    <3> QED
      BY <3>1, <3>2, <3>3
  <2>2. /\ l >= 1 => a[keep].symbol = "E"
        /\ l >= 2 => a[keep + 1].symbol = "["
        /\ l = 3 => a[keep + 2].symbol = "c"
    BY <1>6, <1>7
  <2>3. l # 3
    <3>1. l = 3 => n = 2 /\ keep = 1 /\ m = 3 /\ keep + 2 = m
      BY <1>1, <1>7, <2>1
    <3> QED
      BY <1>1, <1>4, <1>9, <2>2, <3>1
  <2>4. l \in 0..2
    BY <1>1, <2>1, <2>3
  <2>5. /\ l = 1 => keep = m
        /\ l = 2 => keep + 1 = m
        /\ l = 0 => keep = m + 1
    BY <1>1, <1>7
  <2>6. /\ l = 1 => b.symbol = "E"
        /\ l = 2 => b.symbol = "["
    BY <1>1, <2>2, <2>5
  <2>7. b.symbol = "E" => l # 0
    <3>1. ASSUME b.symbol = "E" PROVE Fits(m)
      BY <1>1, <1>6, <3>1
    <3>2. l = 0 => m \in 1..keep - 1
      BY <1>1, <2>5
    <3> QED
      BY <1>7, <3>1, <3>2
  <2>8. n = 1 /\ b.symbol = "[" => l = 2
    <3>1. ASSUME n = 1, b.symbol = "[" PROVE Fits(1) /\ m = 2
      BY <1>1, <1>6, <3>1
    <3>2. keep # 1 => 1 \in 1..keep - 1
      BY <1>1, <1>7
    <3> QED
      BY <1>1, <1>7, <3>1, <3>2
  <2> HIDE DEF l, u
  <2>9. l = 0 => u = <<>>
    BY <2>1, EmptySeq
  <2>10. Ending(u)
    BY <2>1, <2>2, <2>4 DEF Ending
  <2>11. /\ b.symbol = "E" => Len(u) = 1
         /\ b.symbol \notin {"E", "["} => u = <<>>
         /\ n = 1 /\ b.symbol = "[" => Len(u) = 2
    BY <2>1, <2>4, <2>6, <2>7, <2>8, <2>9
  <2>12. hold' = [kind |-> "paste", bytes |-> u] /\ passthrough' = passthrough \o SubSeq(a, 1, keep - 1)
    BY <1>2, <1>9 DEF Hold, u
  <2>13. \E k \in 1..(Len(Grown(b)) + 1) :
            /\ hold' = [kind |-> "paste", bytes |-> SubSeq(Grown(b), k, Len(Grown(b)))]
            /\ passthrough' = passthrough \o SubSeq(Grown(b), 1, k - 1)
    BY <1>3, <1>7, <2>12 DEF u, m
  <2>14. hold'.bytes = u /\ sequences' = sequences
    BY <1>2, <2>12
  <2>15. ~(Len(hold.bytes) = 2 /\ b.symbol = "c")
    BY <1>3, <1>4, <1>9
  <2>16. Len(hold.bytes) = 1 /\ b.symbol = "[" => Len(u) = 2
    BY <1>3, <2>11
  <2> HIDE DEF n
  <2> QED
    BY <2>10, <2>11, <2>13, <2>14, <2>15, <2>16 DEF KeepsPaste
<1> QED
  BY <1>8, <1>9

Outcome(b) ==
    \/ Begins(b) \/ Passes(b) \/ GoesOn(b) \/ Starts(b) \/ Pastes(b) \/ Reports(b) \/ Refuses(b)
    \/ EndsBody(b) \/ KeepsBody(b) \/ EndsPaste(b) \/ KeepsPaste(b)

\* Feed takes the next byte, and does one of these things with it.
Feeds(b) ==
    /\ b \in Byte /\ rest # <<>> /\ b = rest[1] /\ rest' = Tail(rest)
    /\ packets' = IF b.owner = "packet" /\ rest' = <<>> THEN packets + 1 ELSE packets
    /\ UNCHANGED <<items, due, cut>>
    /\ Outcome(b)

LEMMA FeedIs ==
  ASSUME SplitterTyped, HoldInv, Feed
  PROVE  \E b : Feeds(b)
<1> DEFINE b == Head(rest)
<1>1. rest # <<>> /\ rest \in Seq(Byte)
  BY DEF Feed, SplitterTyped
<1>2. b \in Byte /\ b = rest[1]
  BY <1>1, HeadTailProperties
<1>3. /\ rest' = Tail(rest)
      /\ packets' = IF b.owner = "packet" /\ rest' = <<>> THEN packets + 1 ELSE packets
      /\ UNCHANGED <<items, due, cut>>
  BY DEF Feed
<1>4. (CASE hold.kind = "none" /\ b.symbol = "E" ->
                    hold' = Hold("candidate", <<b>>) /\ UNCHANGED <<passthrough, sequences, reports>>
        [] hold.kind = "none" /\ b.symbol # "E" ->
                    passthrough' = Append(passthrough, b) /\ UNCHANGED <<hold, sequences, reports>>
        [] hold.kind = "candidate" -> FeedCandidate(b)
        [] hold.kind = "paste" -> FeedPaste(b)
        [] OTHER -> FeedBody(b))
  BY DEF Feed
<1> HIDE DEF b
<1>5. hold.kind \in Kinds
  BY DEF SplitterTyped
<1>6. Outcome(b)
  <2>1. CASE hold.kind = "none"
    BY <1>2, <1>4, <2>1, FeedsNothingHeld DEF Outcome
  <2>2. CASE hold.kind = "candidate"
    <3>1. FeedCandidate(b)
      BY <1>4, <2>2
    <3> QED
      BY <1>2, <2>2, <3>1, FeedsCandidate DEF Outcome
  <2>3. CASE hold.kind = "paste"
    <3>1. FeedPaste(b)
      BY <1>4, <2>3
    <3> QED
      BY <1>2, <2>3, <3>1, FeedsPaste DEF Outcome
  <2>4. CASE hold.kind \in {"body", "discard", "overflow"}
    <3>1. FeedBody(b)
      BY <1>4, <2>4
    <3> QED
      BY <1>2, <2>4, <3>1, FeedsBody DEF Outcome
  <2> QED
    BY <1>5, <2>1, <2>2, <2>3, <2>4 DEF Kinds
<1> QED
  BY <1>1, <1>2, <1>3, <1>6 DEF Feeds

-----------------------------------------------------------------------------
(* The splitter: where it is in what is being read *)

\* y stands k symbols before the end of what this owner writes, its last one being the first.
Spells(o, k, y) ==
    \/ o = "key" /\ k = 1 /\ y \in {"x", "E"}
    \/ o = "paste" /\ \/ k = 1 /\ y = "c"
                      \/ k \in {2, 7} /\ y = "["
                      \/ k \in {3, 4, 8} /\ y = "E"
                      \/ k = 5 /\ y = "x"
                      \/ k = 6 /\ y = "o"
    \/ o = "quoted" /\ \/ k = 1 /\ y = "c"
                       \/ k \in {2, 10} /\ y = "["
                       \/ k \in {3, 8, 11} /\ y = "E"
                       \/ k = 4 /\ y = "T"
                       \/ k = 5 /\ y = "x"
                       \/ k = 6 /\ y = "5"
                       \/ k = 7 /\ y = "]"
                       \/ k = 9 /\ y = "o"
    \/ o = "packet" /\ \/ k = 1 /\ y = "S"
                       \/ k \in {2, 6} /\ y = "E"
                       \/ k = 3 /\ y = "p"
                       \/ k = 4 /\ y = "5"
                       \/ k = 5 /\ y = "]"
    \/ o = "overlong" /\ \/ k = 1 /\ y = "T"
                         \/ k \in 2..(BodyMax + 2) /\ y = "p"
                         \/ k = BodyMax + 3 /\ y = "5"
                         \/ k = BodyMax + 4 /\ y = "]"
                         \/ k = BodyMax + 5 /\ y = "E"
    \/ o = "colour" /\ \/ k = 1 /\ y = "T"
                       \/ k = 2 /\ y = "p"
                       \/ k = 3 /\ y = "1"
                       \/ k = 4 /\ y = "]"
                       \/ k = 5 /\ y = "E"
    \/ o \in {"report", "answer"} /\ \/ k = 1 /\ y = (IF o = "report" THEN "y" ELSE "u")
                                     \/ k = 2 /\ y = "n"
                                     \/ k = 3 /\ y = "?"
                                     \/ k = 4 /\ y = "["
                                     \/ k = 5 /\ y = "E"

\* What is left to read is the end of one item.
PlaceInv ==
    \A i \in 1..Len(rest) : /\ rest[i].owner = rest[1].owner
                            /\ Spells(rest[1].owner, Len(rest) - i + 1, rest[i].symbol)

\* A candidate is an Esc key that may have been followed by another key, or what of the
\* item being read came last.
KeyHeld ==
    /\ Len(hold.bytes) = 1 /\ hold.bytes[1].owner = "key"
    /\ rest # <<>> => rest[1].owner = "key" /\ rest[1].symbol = "x"
ItemHeld ==
    /\ rest # <<>>
    /\ \A i \in 1..Len(hold.bytes) :
          /\ hold.bytes[i].owner = rest[1].owner
          /\ Spells(rest[1].owner, Len(rest) + Len(hold.bytes) - i + 1, hold.bytes[i].symbol)
CandInv == hold.kind = "candidate" => KeyHeld \/ ItemHeld

\* A body that is read is not the user's, unless a hold has expired, and its end is to come.
LostInv ==
    hold.kind \in {"body", "discard", "overflow"} =>
        /\ rest # <<>>
        /\ \/ rest[1].owner = "quoted" /\ cut /\ Len(rest) \in {4, 5}
           \/ /\ rest[1].owner = "packet" /\ Len(rest) \in 1..3
              /\ Len(rest) = 1 => /\ Len(hold.bytes) >= 1
                                  /\ hold.bytes[Len(hold.bytes)].symbol = "E"
           \/ rest[1].owner = "overlong" /\ Len(rest) \in 1..(BodyMax + 2)
           \/ rest[1].owner = "colour" /\ Len(rest) \in {1, 2}

\* On a steady link what is left of an item tells what of it is held.
AtKeys == hold.kind = "none" \/ (hold.kind = "candidate" /\ KeyHeld)
AtPaste(r, n) ==
    \/ r = 8 /\ hold.kind = "none"
    \/ r \in {6, 7} /\ hold.kind = "candidate" /\ n = 8 - r
    \/ r \in {4, 5} /\ hold.kind = "paste" /\ n = 0
    \/ r \in {2, 3} /\ hold.kind = "paste" /\ n = 1
    \/ r = 1 /\ hold.kind = "paste" /\ n = 2
AtQuoted(r, n) ==
    \/ r = 11 /\ hold.kind = "none"
    \/ r \in {9, 10} /\ hold.kind = "candidate" /\ n = 11 - r
    \/ r \in {3, 4, 5, 6, 8} /\ hold.kind = "paste" /\ n = 0
    \/ r \in {2, 7} /\ hold.kind = "paste" /\ n = 1
    \/ r = 1 /\ hold.kind = "paste" /\ n = 2
AtPacket(r, n) ==
    \/ r = 6 /\ hold.kind = "none"
    \/ r \in {4, 5} /\ hold.kind = "candidate" /\ n = 6 - r
    \/ r \in 1..3 /\ hold.kind = "body" /\ n = 3 - r
AtOverlong(r, n) ==
    \/ r = BodyMax + 5 /\ hold.kind = "none"
    \/ r \in {BodyMax + 3, BodyMax + 4} /\ hold.kind = "candidate" /\ n = BodyMax + 5 - r
    \/ r \in 2..(BodyMax + 2) /\ hold.kind = "body" /\ n = BodyMax + 2 - r
    \/ r = 1 /\ hold.kind = "overflow"
AtColour(r, n) ==
    \/ r = 5 /\ hold.kind = "none"
    \/ r \in {3, 4} /\ hold.kind = "candidate" /\ n = 5 - r
    \/ r \in {1, 2} /\ hold.kind = "discard"
AtReport(r, n) ==
    \/ r = 5 /\ hold.kind = "none"
    \/ r \in 1..4 /\ hold.kind = "candidate" /\ n = 5 - r
CleanInv ==
    ~cut => IF rest = <<>> THEN AtKeys
            ELSE /\ rest[1].owner = "key" => AtKeys
                 /\ rest[1].owner = "paste" => AtPaste(Len(rest), Len(hold.bytes))
                 /\ rest[1].owner = "quoted" => AtQuoted(Len(rest), Len(hold.bytes))
                 /\ rest[1].owner = "packet" => AtPacket(Len(rest), Len(hold.bytes))
                 /\ rest[1].owner = "overlong" => AtOverlong(Len(rest), Len(hold.bytes))
                 /\ rest[1].owner = "colour" => AtColour(Len(rest), Len(hold.bytes))
                 /\ rest[1].owner \in {"report", "answer"} => AtReport(Len(rest), Len(hold.bytes))

PlacesInv == HoldInv /\ PlaceInv /\ CandInv /\ LostInv /\ CleanInv

\* A byte read keeps every variable of its type.
LEMMA FeedTyped ==
  ASSUME SplitterTyped, NEW b, Feeds(b)
  PROVE  SplitterTyped'
<1>1. /\ hold \in [kind : Kinds, bytes : Seq(Byte)] /\ hold.bytes \in Seq(Byte) /\ b \in Byte
      /\ rest \in Seq(Byte) /\ rest # <<>> /\ passthrough \in Seq(Byte) /\ sequences \in Nat
  BY DEF SplitterTyped, Feeds
<1>2. /\ Tail(rest) \in Seq(Byte) /\ Grown(b) \in Seq(Byte) /\ <<b>> \in Seq(Byte)
      /\ passthrough \o Grown(b) \in Seq(Byte) /\ Append(passthrough, b) \in Seq(Byte)
  <2>1. Grown(b) \in Seq(Byte)
    BY <1>1, AppendProperties DEF Grown
  <2>2. passthrough \o Grown(b) \in Seq(Byte)
    BY <1>1, <2>1, ConcatProperties
  <2> QED
    BY <1>1, <2>1, <2>2, AppendProperties, HeadTailProperties
<1>3. /\ hold' \in [kind : Kinds, bytes : Seq(Byte)] /\ passthrough' \in Seq(Byte)
      /\ sequences' \in Nat
  <2>1. CASE Begins(b)
    BY <1>1, <1>2, <2>1 DEF Begins, Kinds
  <2>2. CASE Passes(b)
    BY <1>1, <1>2, <2>2 DEF Passes
  <2>3. CASE GoesOn(b)
    BY <1>1, <1>2, <2>3 DEF GoesOn, Kinds
  <2>4. CASE Starts(b)
    <3>1. <<>> \in Seq(Byte) /\ {"body", "discard"} \subseteq Kinds
      BY DEF Kinds
    <3>2. /\ passthrough' = passthrough /\ sequences' = sequences
          /\ \E k \in {"body", "discard"} : hold' = [kind |-> k, bytes |-> <<>>]
      BY <2>4 DEF Starts
    <3> QED
      BY <1>1, <3>1, <3>2
  <2>5. CASE Pastes(b)
    BY <1>1, <1>2, <2>5 DEF Pastes, Kinds
  <2>6. CASE Reports(b)
    BY <1>1, <1>2, <2>6 DEF Reports, Kinds, None
  <2>7. CASE Refuses(b)
    BY <1>1, <1>2, <2>7 DEF Refuses, Kinds, None
  <2>8. CASE EndsBody(b)
    BY <1>1, <1>2, <2>8 DEF EndsBody, Kinds, None
  <2>9. CASE KeepsBody(b)
    BY <1>1, <1>2, <2>9 DEF KeepsBody, Kinds
  <2>10. CASE EndsPaste(b)
    BY <1>1, <1>2, <2>10 DEF EndsPaste, Kinds, None
  <2>11. CASE KeepsPaste(b)
    <3>1. PICK k \in 1..(Len(Grown(b)) + 1) :
             /\ hold' = [kind |-> "paste", bytes |-> SubSeq(Grown(b), k, Len(Grown(b)))]
             /\ passthrough' = passthrough \o SubSeq(Grown(b), 1, k - 1)
      BY <2>11 DEF KeepsPaste
    <3>2. /\ SubSeq(Grown(b), k, Len(Grown(b))) \in Seq(Byte)
          /\ SubSeq(Grown(b), 1, k - 1) \in Seq(Byte)
      BY <1>2, From
    <3>3. passthrough' \in Seq(Byte)
      BY <1>1, <3>1, <3>2, ConcatProperties
    <3> QED
      BY <1>1, <2>11, <3>1, <3>2, <3>3 DEF KeepsPaste, Kinds
  <2> QED
    BY <2>1, <2>2, <2>3, <2>4, <2>5, <2>6, <2>7, <2>8, <2>9, <2>10, <2>11 DEF Feeds, Outcome
<1>4. /\ rest' \in Seq(Byte) /\ due' \in Seq(Byte) /\ items' \in Nat /\ packets' \in Nat
      /\ cut' \in BOOLEAN
  BY <1>2 DEF Feeds, SplitterTyped
<1> QED
  BY <1>3, <1>4 DEF SplitterTyped

LEMMA FeedHolds ==
  ASSUME SplitterTyped, HoldInv, NEW b, Feeds(b)
  PROVE  HoldInv'
<1>1. CASE Begins(b)
  <2>1. hold'.kind = "candidate" /\ Len(hold'.bytes) = 1 /\ hold'.bytes[1].symbol = "E"
    BY <1>1 DEF Begins
  <2> QED
    BY <2>1 DEF HoldInv, Begun
<1>2. CASE Passes(b)
  BY <1>2 DEF Passes, HoldInv
<1>3. CASE GoesOn(b)
  BY <1>3 DEF GoesOn, HoldInv
<1>4. CASE Starts(b)
  BY <1>4 DEF Starts, HoldInv
<1>5. CASE Pastes(b)
  <2>1. hold'.kind = "paste" /\ Len(hold'.bytes) = 0
    BY <1>5 DEF Pastes
  <2> QED
    BY <2>1 DEF HoldInv, Ending
<1>6. CASE Reports(b) \/ Refuses(b) \/ EndsBody(b) \/ EndsPaste(b)
  BY <1>6 DEF Reports, Refuses, EndsBody, EndsPaste, None, HoldInv
<1>7. CASE KeepsBody(b)
  <2>1. hold'.kind \in {"body", "discard", "overflow"}
    BY <1>7 DEF KeepsBody
  <2> QED
    BY <2>1 DEF HoldInv
<1>8. CASE KeepsPaste(b)
  <2>1. hold'.kind = "paste" /\ Ending(hold'.bytes)
    BY <1>8 DEF KeepsPaste
  <2> QED
    BY <2>1 DEF HoldInv
<1> QED
  BY <1>1, <1>2, <1>3, <1>4, <1>5, <1>6, <1>7, <1>8 DEF Feeds, Outcome

\* Where the byte read stands, and what follows it.
LEMMA FeedPlaces ==
  ASSUME SplitterTyped, PlaceInv, NEW b, Feeds(b)
  PROVE  /\ Len(rest) \in Nat \ {0} /\ Len(rest') = Len(rest) - 1 /\ rest[1] = b
         /\ (rest' # <<>>) <=> Len(rest) > 1
         /\ Spells(b.owner, Len(rest), b.symbol)
         /\ rest' # <<>> => rest'[1].owner = b.owner
         /\ PlaceInv'
<1> DEFINE r == Len(rest)
<1>1. /\ rest \in Seq(Byte) /\ rest # <<>> /\ rest' = Tail(rest) /\ rest[1] = b
  BY DEF SplitterTyped, Feeds
<1>2. /\ rest' \in Seq(Byte) /\ Len(rest') = r - 1 /\ r \in Nat
      /\ \A i \in 1..Len(rest') : rest'[i] = rest[i + 1]
  BY <1>1, HeadTailProperties, LenProperties
<1>3. r # 0 /\ ((rest' # <<>>) <=> r > 1)
  <2>1. rest' = <<>> <=> Len(rest') = 0
    BY <1>2, EmptySeq
  <2>2. rest = <<>> <=> Len(rest) = 0
    BY <1>1, EmptySeq
  <2> QED
    BY <1>1, <1>2, <2>1, <2>2
<1>4. \A i \in 1..r : rest[i].owner = b.owner /\ Spells(b.owner, r - i + 1, rest[i].symbol)
  BY <1>1 DEF PlaceInv
<1>5. Spells(b.owner, r, b.symbol)
  <2>1. 1 \in 1..r /\ r - 1 + 1 = r
    BY <1>2, <1>3
  <2> QED
    BY <1>1, <1>4, <2>1
<1> HIDE DEF r
<1>6. \A i \in 1..(r - 1) : rest'[i].owner = b.owner /\ Spells(b.owner, (r - 1) - i + 1, rest'[i].symbol)
  <2> SUFFICES ASSUME NEW i \in 1..(r - 1)
               PROVE  rest'[i].owner = b.owner /\ Spells(b.owner, (r - 1) - i + 1, rest'[i].symbol)
    OBVIOUS
  <2>1. i + 1 \in 1..r /\ r - (i + 1) + 1 = (r - 1) - i + 1
    BY <1>2
  <2> QED
    BY <1>2, <1>4, <2>1
<1>7. r > 1 => rest'[1].owner = b.owner
  BY <1>2, <1>6
<1>8. PlaceInv'
  <2>1. ASSUME NEW i \in 1..Len(rest')
        PROVE  /\ rest'[i].owner = rest'[1].owner
               /\ Spells(rest'[1].owner, Len(rest') - i + 1, rest'[i].symbol)
    <3>1. i \in 1..(r - 1) /\ r > 1
      BY <1>2
    <3> QED
      BY <1>2, <1>6, <1>7, <3>1
  <2> QED
    BY <2>1 DEF PlaceInv
<1> QED
  BY <1>1, <1>2, <1>3, <1>5, <1>7, <1>8 DEF r

\* A candidate with a byte to read: the Esc key before another key, or the last bytes of
\* what is being read.
LEMMA CandidateReads ==
  ASSUME SplitterTyped, PlacesInv, NEW b, Feeds(b), hold.kind = "candidate"
  PROVE  /\ hold.bytes \in Seq(Byte) /\ Len(hold.bytes) \in 1..4 /\ Begun(hold.bytes)
         /\ \/ Len(hold.bytes) = 1 /\ hold.bytes[1].owner = "key" /\ b.owner = "key" /\ b.symbol = "x"
            \/ /\ b.owner # "key"
               /\ \A i \in 1..Len(hold.bytes) :
                     /\ hold.bytes[i].owner = b.owner
                     /\ Spells(b.owner, Len(rest) + Len(hold.bytes) - i + 1, hold.bytes[i].symbol)
               /\ Spells(b.owner, Len(rest) + Len(hold.bytes), "E")
               /\ Len(hold.bytes) >= 2 =>
                     Spells(b.owner, Len(rest) + Len(hold.bytes) - 1, hold.bytes[2].symbol)
               /\ Len(hold.bytes) >= 3 => Spells(b.owner, Len(rest) + Len(hold.bytes) - 2, "?")
               /\ Len(hold.bytes) = 4 => Spells(b.owner, Len(rest) + 1, "n")
<1> DEFINE s == hold.bytes
           n == Len(s)
           r == Len(rest)
<1>1. s \in Seq(Byte) /\ n \in 1..4 /\ Begun(s)
  BY DEF SplitterTyped, PlacesInv, HoldInv, Begun
<1>2. r \in Nat \ {0} /\ rest[1] = b /\ rest # <<>>
  BY FeedPlaces DEF PlacesInv, Feeds
<1>3. KeyHeld \/ ItemHeld
  BY DEF PlacesInv, CandInv
<1>4. CASE KeyHeld
  BY <1>1, <1>2, <1>4 DEF KeyHeld
<1>5. CASE ItemHeld
  <2>1. \A i \in 1..n : s[i].owner = b.owner /\ Spells(b.owner, r + n - i + 1, s[i].symbol)
    BY <1>2, <1>5 DEF ItemHeld
  <2> HIDE DEF s, n, r
  <2>2. /\ Spells(b.owner, r + n, "E")
        /\ n >= 2 => Spells(b.owner, r + n - 1, s[2].symbol)
        /\ n >= 3 => Spells(b.owner, r + n - 2, "?")
        /\ n = 4 => Spells(b.owner, r + 1, "n")
    <3>1. /\ r + n - 1 + 1 = r + n /\ r + n - 2 + 1 = r + n - 1 /\ r + n - 3 + 1 = r + n - 2
          /\ n = 4 => r + n - 4 + 1 = r + 1
      BY <1>1, <1>2
    <3>2. /\ 1 \in 1..n /\ (n >= 2 => 2 \in 1..n)
          /\ (n >= 3 => 3 \in 1..n) /\ (n = 4 => 4 \in 1..n)
      BY <1>1
    <3>3. s[1].symbol = "E" /\ (n >= 3 => s[3].symbol = "?") /\ (n = 4 => s[4].symbol = "n")
      BY <1>1 DEF Begun, n
    <3>4. Spells(b.owner, r + n, s[1].symbol)
      BY <2>1, <3>1, <3>2
    <3>5. n >= 2 => Spells(b.owner, r + n - 1, s[2].symbol)
      BY <2>1, <3>1, <3>2
    <3>6. n >= 3 => Spells(b.owner, r + n - 2, s[3].symbol)
      BY <2>1, <3>1, <3>2
    <3>7. n = 4 => Spells(b.owner, r + 1, s[4].symbol)
      BY <2>1, <3>1, <3>2
    <3> QED
      BY <3>3, <3>4, <3>5, <3>6, <3>7
  <2>3. b.owner # "key"
    <3>1. r + n # 1
      BY <1>1, <1>2
    <3> QED
      BY <2>2, <3>1 DEF Spells
  <2> QED
    BY <1>1, <2>1, <2>2, <2>3 DEF s, n, r
<1> QED
  BY <1>3, <1>4, <1>5

LEMMA FeedCandidates ==
  ASSUME BodyMax \in Nat \ {0, 1}, SplitterTyped, PlacesInv, NEW b, Feeds(b)
  PROVE  CandInv'
<1> DEFINE r == Len(rest)
<1>1. /\ r \in Nat \ {0} /\ Len(rest') = r - 1 /\ Spells(b.owner, r, b.symbol)
      /\ (rest' # <<>>) <=> r > 1
      /\ rest' # <<>> => rest'[1].owner = b.owner
      /\ b \in Byte
  BY FeedPlaces DEF PlacesInv, Feeds
<1> HIDE DEF r
<1>2. CASE Begins(b)
  <2>1. hold'.bytes = <<b>> /\ b.symbol = "E"
    BY <1>2 DEF Begins
  <2>2. Len(hold'.bytes) = 1 /\ hold'.bytes[1] = b
    BY <2>1
  <2>3. CASE r = 1
    <3>1. b.owner = "key"
      BY <1>1, <2>1, <2>3 DEF Spells
    <3> QED
      BY <1>1, <2>2, <2>3, <3>1 DEF CandInv, KeyHeld
  <2>4. CASE r > 1
    <3>1. ASSUME NEW i \in 1..Len(hold'.bytes)
          PROVE  /\ hold'.bytes[i].owner = rest'[1].owner
                 /\ Spells(rest'[1].owner, Len(rest') + Len(hold'.bytes) - i + 1, hold'.bytes[i].symbol)
      <4>1. i = 1 /\ (r - 1) + 1 - i + 1 = r
        BY <1>1, <2>2
      <4> QED
        BY <1>1, <2>2, <2>4, <4>1
    <3> QED
      BY <1>1, <2>4, <3>1 DEF CandInv, ItemHeld
  <2> QED
    BY <1>1, <2>3, <2>4
<1>3. CASE GoesOn(b)
  <2> DEFINE s == hold.bytes
             n == Len(s)
             a == Grown(b)
  <2>1. /\ hold.kind = "candidate" /\ hold'.bytes = a /\ Begun(a)
    BY <1>3 DEF GoesOn
  <2>2. s \in Seq(Byte) /\ n \in 1..4 /\ Begun(s)
    BY <2>1, CandidateReads
  <2>3. /\ Len(a) = n + 1 /\ a[n + 1] = b /\ \A i \in 1..n : a[i] = s[i]
    BY <1>1, <2>2, AppendProperties DEF Grown
  <2>4. b.symbol \in {"]", "[", "?", "n"}
    <3> HIDE DEF a, n, s
    <3> QED
      BY <2>1, <2>2, <2>3 DEF Begun
  <2>5. \A i \in 1..n : s[i].owner = b.owner /\ Spells(b.owner, r + n - i + 1, s[i].symbol)
    BY <2>1, <2>4, CandidateReads DEF r
  <2>6. r > 1
    <3>1. r # 1
      BY <1>1, <2>4 DEF Spells
    <3> QED
      BY <1>1, <3>1
  <2> HIDE DEF a, n, s
  <2>7. ASSUME NEW i \in 1..Len(a)
        PROVE  a[i].owner = b.owner /\ Spells(b.owner, (r - 1) + Len(a) - i + 1, a[i].symbol)
    <3>1. (r - 1) + Len(a) - i + 1 = r + n - i + 1
      BY <1>1, <2>2, <2>3
    <3>2. CASE i = n + 1
      <4>1. r + n - i + 1 = r
        BY <1>1, <2>2, <3>2
      <4> QED
        BY <1>1, <2>3, <3>1, <3>2, <4>1
    <3>3. CASE i \in 1..n
      BY <2>3, <2>5, <3>1, <3>3
    <3> QED
      BY <2>2, <2>3, <3>2, <3>3
  <2> QED
    BY <1>1, <2>1, <2>6, <2>7 DEF CandInv, ItemHeld
<1>4. CASE Passes(b)
  BY <1>4 DEF Passes, CandInv
<1>5. CASE Starts(b) \/ Pastes(b) \/ Reports(b) \/ Refuses(b) \/ EndsBody(b) \/ KeepsBody(b)
           \/ EndsPaste(b) \/ KeepsPaste(b)
  <2>1. hold'.kind # "candidate"
    BY <1>5 DEF Starts, Pastes, Reports, Refuses, EndsBody, KeepsBody, EndsPaste, KeepsPaste, None
  <2> QED
    BY <2>1 DEF CandInv
<1> QED
  BY <1>2, <1>3, <1>4, <1>5 DEF Feeds, Outcome

LEMMA FeedBodies ==
  ASSUME BodyMax \in Nat \ {0, 1}, SplitterTyped, PlacesInv, NEW b, Feeds(b)
  PROVE  LostInv'
<1> DEFINE r == Len(rest)
<1>1. /\ r \in Nat \ {0} /\ Len(rest') = r - 1 /\ Spells(b.owner, r, b.symbol)
      /\ (rest' # <<>>) <=> r > 1
      /\ rest' # <<>> => rest'[1].owner = b.owner
      /\ b \in Byte /\ rest[1] = b /\ cut' = cut
      /\ hold.bytes \in Seq(Byte)
  BY FeedPlaces DEF PlacesInv, Feeds, SplitterTyped
<1> HIDE DEF r
<1>2. CASE Starts(b)
  <2>1. /\ hold.kind = "candidate" /\ Len(hold.bytes) = 2 /\ hold.bytes[2].symbol = "]"
        /\ b.symbol \in {"5", "1"}
    BY <1>2 DEF Starts
  <2>2. Spells(b.owner, r + 1, "]")
    <3>1. r + 2 - 1 = r + 1
      BY <1>1
    <3> QED
      BY <2>1, <3>1, CandidateReads DEF r
  <2>3. \/ b.owner = "quoted" /\ r = 6
        \/ b.owner = "packet" /\ r = 4
        \/ b.owner = "overlong" /\ r = BodyMax + 3
        \/ b.owner = "colour" /\ r = 3
    BY <1>1, <2>1, <2>2 DEF Spells
  <2>4. b.owner = "quoted" => cut
    <3>1. ASSUME ~cut, b.owner = "quoted" PROVE AtQuoted(6, Len(hold.bytes))
      <4>1. rest # <<>> /\ rest[1].owner = "quoted" /\ Len(rest) = 6
        <5>1. r = 6
          BY <2>3, <3>1
        <5> QED
          BY <1>1, <3>1, <5>1 DEF Feeds, r
      <4>2. CleanInv
        BY DEF PlacesInv
      <4> QED
        BY <3>1, <4>1, <4>2 DEF CleanInv
    <3>2. ~AtQuoted(6, Len(hold.bytes))
      BY <2>1 DEF AtQuoted
    <3>3. cut \in BOOLEAN
      BY DEF SplitterTyped
    <3> QED
      BY <3>1, <3>2, <3>3
  <2> QED
    BY <1>1, <2>3, <2>4 DEF LostInv
<1>3. CASE KeepsBody(b)
  <2>1. /\ hold.kind \in {"body", "discard", "overflow"} /\ b.symbol # "T"
        /\ ~(b.symbol = "S" /\ Len(hold.bytes) >= 1 /\ hold.bytes[Len(hold.bytes)].symbol = "E")
        /\ hold'.bytes \in {<<b>>, Grown(b)}
    BY <1>3 DEF KeepsBody
  <2>2. \/ b.owner = "quoted" /\ cut /\ r \in {4, 5}
        \/ /\ b.owner = "packet" /\ r \in 1..3
           /\ r = 1 => /\ Len(hold.bytes) >= 1
                       /\ hold.bytes[Len(hold.bytes)].symbol = "E"
        \/ b.owner = "overlong" /\ r \in 1..(BodyMax + 2)
        \/ b.owner = "colour" /\ r \in {1, 2}
    BY <1>1, <2>1 DEF PlacesInv, LostInv, r
  <2>3. Len(hold'.bytes) >= 1 /\ hold'.bytes[Len(hold'.bytes)] = b
    <3>1. Len(<<b>>) = 1 /\ <<b>>[1] = b
      OBVIOUS
    <3>2. Len(Grown(b)) = Len(hold.bytes) + 1 /\ Grown(b)[Len(hold.bytes) + 1] = b /\ Len(hold.bytes) \in Nat
      BY <1>1, AppendProperties, LenProperties DEF Grown
    <3>3. CASE hold'.bytes = <<b>>
      BY <3>1, <3>3
    <3>4. CASE hold'.bytes = Grown(b)
      BY <3>2, <3>4
    <3> QED
      BY <2>1, <3>3, <3>4
  <2>4. CASE b.owner = "quoted"
    <3>1. r = 5 /\ cut
      BY <1>1, <2>1, <2>2, <2>4 DEF Spells
    <3> QED
      BY <1>1, <2>4, <3>1 DEF LostInv
  <2>5. CASE b.owner = "packet"
    <3>1. r \in {2, 3} /\ (r = 2 => b.symbol = "E")
      BY <1>1, <2>1, <2>2, <2>5 DEF Spells
    <3> QED
      BY <1>1, <2>3, <2>5, <3>1 DEF LostInv
  <2>6. CASE b.owner = "overlong"
    <3>1. r \in 2..(BodyMax + 2)
      BY <1>1, <2>1, <2>2, <2>6 DEF Spells
    <3> QED
      BY <1>1, <2>6, <3>1 DEF LostInv
  <2>7. CASE b.owner = "colour"
    <3>1. r = 2
      BY <1>1, <2>1, <2>2, <2>7 DEF Spells
    <3> QED
      BY <1>1, <2>7, <3>1 DEF LostInv
  <2> QED
    BY <2>2, <2>4, <2>5, <2>6, <2>7
<1>4. CASE Begins(b) \/ Passes(b) \/ GoesOn(b) \/ Pastes(b) \/ Reports(b) \/ Refuses(b) \/ EndsBody(b)
           \/ EndsPaste(b) \/ KeepsPaste(b)
  <2>1. hold'.kind \notin {"body", "discard", "overflow"}
    BY <1>4 DEF Begins, Passes, GoesOn, Pastes, Reports, Refuses, EndsBody, EndsPaste, KeepsPaste, None
  <2> QED
    BY <2>1 DEF LostInv
<1> QED
  BY <1>2, <1>3, <1>4 DEF Feeds, Outcome

\* A candidate that one more byte leaves a candidate.
MayGoOn(y, n) ==
    \/ n = 1 /\ y \in {"]", "["}
    \/ n = 2 /\ hold.bytes[2].symbol = "[" /\ y = "?"
    \/ n = 3 /\ y = "n"

\* What holds of every byte that is read, with r bytes left and n bytes held.
Reading(b, r, n) ==
    /\ r \in Nat \ {0} /\ r = Len(rest) /\ Len(rest') = r - 1 /\ Spells(b.owner, r, b.symbol)
    /\ (rest' # <<>>) <=> r > 1
    /\ rest' # <<>> => rest'[1].owner = b.owner
    /\ n \in Nat /\ n = Len(hold.bytes) /\ Len(Grown(b)) = n + 1 /\ Outcome(b)
    /\ hold.kind = "candidate" =>
          /\ n \in 1..4 /\ (Begun(Grown(b)) <=> MayGoOn(b.symbol, n))
          /\ n = 2 => hold.bytes[2].symbol \in {"]", "["}
    /\ hold.kind = "candidate" /\ n = 2 /\ b.owner # "key" =>
          Spells(b.owner, r + 1, hold.bytes[2].symbol)

LEMMA FeedReads ==
  ASSUME SplitterTyped, PlacesInv, NEW b, Feeds(b)
  PROVE  Reading(b, Len(rest), Len(hold.bytes))
<1> DEFINE s == hold.bytes
           n == Len(s)
           r == Len(rest)
<1>1. /\ r \in Nat \ {0} /\ Len(rest') = r - 1 /\ Spells(b.owner, r, b.symbol)
      /\ (rest' # <<>>) <=> r > 1
      /\ rest' # <<>> => rest'[1].owner = b.owner
      /\ b \in Byte /\ Outcome(b)
  BY FeedPlaces DEF PlacesInv, Feeds
<1>2. s \in Seq(Byte) /\ n \in Nat
  BY LenProperties DEF SplitterTyped
<1>3. Len(Grown(b)) = n + 1 /\ Grown(b)[n + 1] = b /\ \A i \in 1..n : Grown(b)[i] = s[i]
  BY <1>1, <1>2, AppendProperties DEF Grown
<1>4. ASSUME hold.kind = "candidate" PROVE n \in 1..4 /\ Begun(s)
  BY <1>4, CandidateReads
<1>5. ASSUME hold.kind = "candidate", b.owner # "key", n = 2
      PROVE  Spells(b.owner, r + 1, s[2].symbol)
  <2>1. r + n - 1 = r + 1
    BY <1>1, <1>5
  <2> QED
    BY <1>4, <1>5, <2>1, CandidateReads
<1>6. ASSUME hold.kind = "candidate"
      PROVE  (Begun(Grown(b)) <=> MayGoOn(b.symbol, n)) /\ (n = 2 => s[2].symbol \in {"]", "["})
  <2> DEFINE a == Grown(b)
  <2>1. n \in 1..4 /\ Begun(s)
    BY <1>4, <1>6
  <2>2. Len(a) = n + 1 /\ a[n + 1] = b /\ \A i \in 1..n : a[i] = s[i]
    BY <1>3
  <2> HIDE DEF a
  <2>3. n = Len(s) /\ s[1].symbol = "E" /\ (n >= 2 => s[2].symbol \in {"]", "["})
        /\ (n >= 3 => s[2].symbol = "[" /\ s[3].symbol = "?") /\ (n = 4 => s[4].symbol = "n")
    BY <2>1 DEF Begun
  <2> DEFINE G == (Begun(a) <=> MayGoOn(b.symbol, n)) /\ (n = 2 => s[2].symbol \in {"]", "["})
  <2> SUFFICES G
    BY DEF a
  <2>0. MayGoOn(b.symbol, n) <=> \/ n = 1 /\ b.symbol \in {"]", "["}
                                 \/ n = 2 /\ s[2].symbol = "[" /\ b.symbol = "?"
                                 \/ n = 3 /\ b.symbol = "n"
    BY DEF MayGoOn
  <2> HIDE DEF n, s
  <2>4. CASE n = 1
    BY <2>0, <2>2, <2>3, <2>4 DEF Begun
  <2>5. CASE n = 2
    BY <2>0, <2>2, <2>3, <2>5 DEF Begun
  <2>6. CASE n = 3
    BY <2>0, <2>2, <2>3, <2>6 DEF Begun
  <2>7. CASE n = 4
    BY <2>0, <2>2, <2>3, <2>7 DEF Begun
  <2> QED
    BY <2>1, <2>4, <2>5, <2>6, <2>7
<1> QED
  BY <1>1, <1>2, <1>3, <1>4, <1>5, <1>6 DEF Reading

\* What one more byte leaves of what is held.
Leaves(kind, n) == hold'.kind = kind /\ Len(hold'.bytes) = n
Effect(b, n) ==
    LET y == b.symbol IN
    /\ hold.kind = "none" => IF y = "E" THEN Leaves("candidate", 1) ELSE Leaves("none", 0)
    /\ hold.kind = "candidate" =>
          IF MayGoOn(y, n) THEN Leaves("candidate", n + 1)
          ELSE IF n = 2 /\ hold.bytes[2].symbol = "]" /\ y = "5" THEN Leaves("body", 0)
          ELSE IF n = 2 /\ hold.bytes[2].symbol = "]" /\ y = "1" THEN Leaves("discard", 0)
          ELSE IF n = 2 /\ hold.bytes[2].symbol = "[" /\ y = "o" THEN Leaves("paste", 0)
          ELSE Leaves("none", 0)
    /\ hold.kind \in {"body", "discard", "overflow"} =>
          \/ y \in {"T", "S"} /\ Leaves("none", 0)
          \/ /\ y # "T" /\ ~(y = "S" /\ n >= 1 /\ hold.bytes[n].symbol = "E")
             /\ IF hold.kind = "body" /\ n + 1 > BodyMax THEN Leaves("overflow", 1)
                ELSE Leaves(hold.kind, n + 1)
    /\ hold.kind = "paste" =>
          IF n = 2 /\ y = "c" THEN Leaves("none", 0)
          ELSE /\ hold'.kind = "paste"
               /\ y = "E" => Leaves("paste", 1)
               /\ y \notin {"E", "["} => Leaves("paste", 0)
               /\ n = 1 /\ y = "[" => Leaves("paste", 2)
    /\ \/ hold.kind = "none" /\ y = "E"
       \/ /\ hold.kind = "candidate"
          /\ \/ MayGoOn(y, n) \/ (n = 4 /\ y = "y")
             \/ n = 2 /\ hold.bytes[2].symbol = "]" /\ y \in {"5", "1"}
       \/ hold.kind \in {"body", "discard", "overflow"}
       => passthrough' = passthrough
    /\ sequences' = IF hold.kind = "body" /\ hold'.kind = "none" THEN sequences + 1 ELSE sequences

LEMMA FeedLeaves ==
  ASSUME NEW b, NEW r, NEW n, HoldInv, Reading(b, r, n)
  PROVE  Effect(b, n)
<1>1. /\ n \in Nat /\ n = Len(hold.bytes) /\ Len(Grown(b)) = n + 1 /\ Outcome(b)
      /\ hold.kind = "candidate" =>
            n \in 1..4 /\ (Begun(Grown(b)) <=> MayGoOn(b.symbol, n))
      /\ hold.kind = "candidate" /\ n = 2 => hold.bytes[2].symbol \in {"]", "["}
      /\ Len(<<b>>) = 1 /\ Len(<<>>) = 0
  BY DEF Reading
<1>2. CASE Begins(b)
  BY <1>1, <1>2 DEF Begins, Effect, Leaves
<1>3. CASE Passes(b)
  BY <1>1, <1>3 DEF Passes, Effect, Leaves, HoldInv
<1>4. CASE GoesOn(b)
  BY <1>1, <1>4 DEF GoesOn, Effect, Leaves
<1>5. CASE Starts(b)
  BY <1>1, <1>5 DEF Starts, Effect, Leaves, MayGoOn
<1>6. CASE Pastes(b)
  BY <1>1, <1>6 DEF Pastes, Effect, Leaves, MayGoOn
<1>7. CASE Reports(b)
  BY <1>1, <1>7 DEF Reports, Effect, Leaves, MayGoOn, None
<1>8. CASE Refuses(b)
  BY <1>1, <1>8 DEF Refuses, Effect, Leaves, None
<1>9. CASE EndsBody(b)
  BY <1>1, <1>9 DEF EndsBody, Effect, Leaves, None
<1>10. CASE KeepsBody(b)
  BY <1>1, <1>10 DEF KeepsBody, Effect, Leaves
<1>11. CASE EndsPaste(b)
  BY <1>1, <1>11 DEF EndsPaste, Effect, Leaves, None
<1>12. CASE KeepsPaste(b)
  <2>1. /\ hold.kind = "paste" /\ ~(Len(hold.bytes) = 2 /\ b.symbol = "c")
        /\ b.symbol = "E" => Len(hold'.bytes) = 1
        /\ b.symbol \notin {"E", "["} => hold'.bytes = <<>>
        /\ Len(hold.bytes) = 1 /\ b.symbol = "[" => Len(hold'.bytes) = 2
        /\ hold'.kind = "paste" /\ sequences' = sequences
    BY <1>12 DEF KeepsPaste
  <2> QED
    BY <1>1, <2>1 DEF Effect, Leaves
<1> QED
  BY <1>1, <1>2, <1>3, <1>4, <1>5, <1>6, <1>7, <1>8, <1>9, <1>10, <1>11, <1>12 DEF Outcome

\* On a steady link what is held follows from what is left of the item: owner by owner.
LEMMA PasteStays ==
  ASSUME NEW b, NEW r, NEW n, Reading(b, r, n), Effect(b, n), b.owner = "paste", AtPaste(r, n)
  PROVE  /\ IF r = 1 THEN hold'.kind = "none" ELSE AtPaste(r - 1, Len(hold.bytes))'
         /\ sequences' = sequences
<1>1. /\ r \in Nat \ {0} /\ Spells("paste", r, b.symbol) /\ n \in Nat /\ n = Len(hold.bytes)
      /\ hold.kind = "candidate" /\ n = 2 => Spells("paste", r + 1, hold.bytes[2].symbol)
  BY DEF Reading
<1>2. CASE r = 8
  <2>1. hold.kind = "none" /\ b.symbol = "E"
    BY <1>1, <1>2 DEF AtPaste, Spells
  <2>2. Leaves("candidate", 1) /\ sequences' = sequences
    BY <2>1 DEF Effect
  <2> QED
    BY <1>2, <2>2 DEF AtPaste, Leaves
<1>3. CASE r = 7
  <2>1. hold.kind = "candidate" /\ n = 1 /\ b.symbol = "["
    BY <1>1, <1>3 DEF AtPaste, Spells
  <2>2. Leaves("candidate", 2) /\ sequences' = sequences
    BY <2>1 DEF Effect, MayGoOn
  <2> QED
    BY <1>3, <2>2 DEF AtPaste, Leaves
<1>4. CASE r = 6
  <2>1. hold.kind = "candidate" /\ n = 2 /\ b.symbol = "o"
    BY <1>1, <1>4 DEF AtPaste, Spells
  <2>2. hold.bytes[2].symbol = "["
    BY <1>1, <1>4, <2>1 DEF Spells
  <2>3. Leaves("paste", 0) /\ sequences' = sequences
    BY <2>1, <2>2 DEF Effect, MayGoOn
  <2> QED
    BY <1>4, <2>3 DEF AtPaste, Leaves
<1>5. CASE r \in 1..5
  BY <1>1, <1>5 DEF AtPaste, Spells, Effect, Leaves
<1> QED
  BY <1>1, <1>2, <1>3, <1>4, <1>5 DEF AtPaste

LEMMA QuotedStays ==
  ASSUME NEW b, NEW r, NEW n, Reading(b, r, n), Effect(b, n), b.owner = "quoted", AtQuoted(r, n)
  PROVE  /\ IF r = 1 THEN hold'.kind = "none" ELSE AtQuoted(r - 1, Len(hold.bytes))'
         /\ sequences' = sequences
<1>1. /\ r \in Nat \ {0} /\ Spells("quoted", r, b.symbol) /\ n \in Nat /\ n = Len(hold.bytes)
      /\ hold.kind = "candidate" /\ n = 2 => Spells("quoted", r + 1, hold.bytes[2].symbol)
  BY DEF Reading
<1>2. CASE r = 11
  <2>1. hold.kind = "none" /\ b.symbol = "E"
    BY <1>1, <1>2 DEF AtQuoted, Spells
  <2>2. Leaves("candidate", 1) /\ sequences' = sequences
    BY <2>1 DEF Effect
  <2> QED
    BY <1>2, <2>2 DEF AtQuoted, Leaves
<1>3. CASE r = 10
  <2>1. hold.kind = "candidate" /\ n = 1 /\ b.symbol = "["
    BY <1>1, <1>3 DEF AtQuoted, Spells
  <2>2. Leaves("candidate", 2) /\ sequences' = sequences
    BY <2>1 DEF Effect, MayGoOn
  <2> QED
    BY <1>3, <2>2 DEF AtQuoted, Leaves
<1>4. CASE r = 9
  <2>1. hold.kind = "candidate" /\ n = 2 /\ b.symbol = "o"
    BY <1>1, <1>4 DEF AtQuoted, Spells
  <2>2. hold.bytes[2].symbol = "["
    BY <1>1, <1>4, <2>1 DEF Spells
  <2>3. Leaves("paste", 0) /\ sequences' = sequences
    BY <2>1, <2>2 DEF Effect, MayGoOn
  <2> QED
    BY <1>4, <2>3 DEF AtQuoted, Leaves
<1>5. CASE r \in 4..8
  BY <1>1, <1>5 DEF AtQuoted, Spells, Effect, Leaves
<1>6. CASE r \in 1..3
  BY <1>1, <1>6 DEF AtQuoted, Spells, Effect, Leaves
<1> QED
  BY <1>1, <1>2, <1>3, <1>4, <1>5, <1>6 DEF AtQuoted

LEMMA PacketStays ==
  ASSUME NEW b, NEW r, NEW n, Reading(b, r, n), Effect(b, n), b.owner = "packet", AtPacket(r, n),
         BodyMax \in Nat \ {0, 1}, LostInv, rest # <<>>, rest[1] = b
  PROVE  /\ IF r = 1 THEN hold'.kind = "none" ELSE AtPacket(r - 1, Len(hold.bytes))'
         /\ passthrough' = passthrough /\ sequences' = IF r = 1 THEN sequences + 1 ELSE sequences
<1>1. /\ r \in Nat \ {0} /\ Spells("packet", r, b.symbol) /\ n \in Nat /\ n = Len(hold.bytes)
      /\ hold.kind = "candidate" /\ n = 2 => Spells("packet", r + 1, hold.bytes[2].symbol)
  BY DEF Reading
<1>2. CASE r = 6
  <2>1. hold.kind = "none" /\ b.symbol = "E"
    BY <1>1, <1>2 DEF AtPacket, Spells
  <2>2. Leaves("candidate", 1) /\ UNCHANGED <<passthrough, sequences>>
    BY <2>1 DEF Effect
  <2> QED
    BY <1>2, <2>2 DEF AtPacket, Leaves
<1>3. CASE r = 5
  <2>1. hold.kind = "candidate" /\ n = 1 /\ b.symbol = "]"
    BY <1>1, <1>3 DEF AtPacket, Spells
  <2>2. Leaves("candidate", 2) /\ UNCHANGED <<passthrough, sequences>>
    BY <2>1 DEF Effect, MayGoOn
  <2> QED
    BY <1>3, <2>2 DEF AtPacket, Leaves
<1>4. CASE r = 4
  <2>1. hold.kind = "candidate" /\ n = 2 /\ b.symbol = "5"
    BY <1>1, <1>4 DEF AtPacket, Spells
  <2>2. hold.bytes[2].symbol = "]"
    BY <1>1, <1>4, <2>1 DEF Spells
  <2>3. Leaves("body", 0) /\ UNCHANGED <<passthrough, sequences>>
    BY <2>1, <2>2 DEF Effect, MayGoOn
  <2> QED
    BY <1>4, <2>3 DEF AtPacket, Leaves
<1>5. CASE r \in {2, 3}
  <2>1. hold.kind = "body" /\ n = 3 - r /\ b.symbol \in {"p", "E"}
    BY <1>1, <1>5 DEF AtPacket, Spells
  <2>2. Leaves("body", n + 1) /\ UNCHANGED <<passthrough, sequences>>
    BY <1>5, <2>1 DEF Effect, Leaves
  <2> QED
    BY <1>5, <2>1, <2>2 DEF AtPacket, Leaves
<1>6. CASE r = 1
  <2>1. hold.kind = "body" /\ n = 2 /\ b.symbol = "S"
    BY <1>1, <1>6 DEF AtPacket, Spells
  <2>2. hold.bytes[n].symbol = "E"
    <3>1. Len(rest) = 1
      BY <1>6 DEF Reading
    <3> QED
      BY <1>1, <2>1, <3>1 DEF LostInv
  <2>3. Leaves("none", 0) /\ passthrough' = passthrough /\ sequences' = sequences + 1
    BY <2>1, <2>2 DEF Effect, Leaves
  <2> QED
    BY <1>6, <2>3 DEF Leaves
<1> QED
  BY <1>1, <1>2, <1>3, <1>4, <1>5, <1>6 DEF AtPacket

LEMMA OverlongStays ==
  ASSUME NEW b, NEW r, NEW n, Reading(b, r, n), Effect(b, n), b.owner = "overlong", AtOverlong(r, n),
         BodyMax \in Nat \ {0, 1}
  PROVE  /\ IF r = 1 THEN hold'.kind = "none" ELSE AtOverlong(r - 1, Len(hold.bytes))'
         /\ UNCHANGED <<passthrough, sequences>>
<1>1. /\ r \in Nat \ {0} /\ Spells("overlong", r, b.symbol) /\ n \in Nat /\ n = Len(hold.bytes)
      /\ hold.kind = "candidate" /\ n = 2 => Spells("overlong", r + 1, hold.bytes[2].symbol)
  BY DEF Reading
<1>2. CASE r = BodyMax + 5
  <2>1. hold.kind = "none" /\ b.symbol = "E"
    BY <1>1, <1>2 DEF AtOverlong, Spells
  <2>2. Leaves("candidate", 1) /\ UNCHANGED <<passthrough, sequences>>
    BY <2>1 DEF Effect
  <2> QED
    BY <1>2, <2>2 DEF AtOverlong, Leaves
<1>3. CASE r = BodyMax + 4
  <2>1. hold.kind = "candidate" /\ n = 1 /\ b.symbol = "]"
    BY <1>1, <1>3 DEF AtOverlong, Spells
  <2>2. Leaves("candidate", 2) /\ UNCHANGED <<passthrough, sequences>>
    BY <2>1 DEF Effect, MayGoOn
  <2> QED
    BY <1>3, <2>2 DEF AtOverlong, Leaves
<1>4. CASE r = BodyMax + 3
  <2>1. hold.kind = "candidate" /\ n = 2 /\ b.symbol = "5"
    BY <1>1, <1>4 DEF AtOverlong, Spells
  <2>2. hold.bytes[2].symbol = "]"
    BY <1>1, <1>4, <2>1 DEF Spells
  <2>3. Leaves("body", 0) /\ UNCHANGED <<passthrough, sequences>>
    BY <2>1, <2>2 DEF Effect, MayGoOn
  <2> QED
    BY <1>4, <2>3 DEF AtOverlong, Leaves
<1>5. CASE r \in 2..(BodyMax + 2)
  <2>1. hold.kind = "body" /\ n = BodyMax + 2 - r /\ b.symbol = "p"
    BY <1>1, <1>5 DEF AtOverlong, Spells
  <2>2. /\ IF n + 1 > BodyMax THEN Leaves("overflow", 1) ELSE Leaves("body", n + 1)
        /\ UNCHANGED <<passthrough, sequences>>
    BY <2>1 DEF Effect, Leaves
  <2>3. n + 1 > BodyMax <=> r = 2
    BY <1>5, <2>1
  <2> QED
    BY <1>5, <2>1, <2>2, <2>3 DEF AtOverlong, Leaves
<1>6. CASE r = 1
  <2>1. hold.kind = "overflow" /\ b.symbol = "T"
    BY <1>1, <1>6 DEF AtOverlong, Spells
  <2>2. Leaves("none", 0) /\ UNCHANGED <<passthrough, sequences>>
    BY <2>1 DEF Effect, Leaves
  <2> QED
    BY <1>6, <2>2 DEF Leaves
<1> QED
  BY <1>1, <1>2, <1>3, <1>4, <1>5, <1>6 DEF AtOverlong

LEMMA ColourStays ==
  ASSUME NEW b, NEW r, NEW n, Reading(b, r, n), Effect(b, n), b.owner = "colour", AtColour(r, n)
  PROVE  /\ IF r = 1 THEN hold'.kind = "none" ELSE AtColour(r - 1, Len(hold.bytes))'
         /\ UNCHANGED <<passthrough, sequences>>
<1>1. /\ r \in Nat \ {0} /\ Spells("colour", r, b.symbol) /\ n \in Nat /\ n = Len(hold.bytes)
      /\ hold.kind = "candidate" /\ n = 2 => Spells("colour", r + 1, hold.bytes[2].symbol)
  BY DEF Reading
<1>2. CASE r = 5
  <2>1. hold.kind = "none" /\ b.symbol = "E"
    BY <1>1, <1>2 DEF AtColour, Spells
  <2>2. Leaves("candidate", 1) /\ UNCHANGED <<passthrough, sequences>>
    BY <2>1 DEF Effect
  <2> QED
    BY <1>2, <2>2 DEF AtColour, Leaves
<1>3. CASE r = 4
  <2>1. hold.kind = "candidate" /\ n = 1 /\ b.symbol = "]"
    BY <1>1, <1>3 DEF AtColour, Spells
  <2>2. Leaves("candidate", 2) /\ UNCHANGED <<passthrough, sequences>>
    BY <2>1 DEF Effect, MayGoOn
  <2> QED
    BY <1>3, <2>2 DEF AtColour, Leaves
<1>4. CASE r = 3
  <2>1. hold.kind = "candidate" /\ n = 2 /\ b.symbol = "1"
    BY <1>1, <1>4 DEF AtColour, Spells
  <2>2. hold.bytes[2].symbol = "]"
    BY <1>1, <1>4, <2>1 DEF Spells
  <2>3. Leaves("discard", 0) /\ UNCHANGED <<passthrough, sequences>>
    BY <2>1, <2>2 DEF Effect, MayGoOn
  <2> QED
    BY <1>4, <2>3 DEF AtColour, Leaves
<1>5. CASE r \in {1, 2}
  BY <1>1, <1>5 DEF AtColour, Spells, Effect, Leaves
<1> QED
  BY <1>1, <1>2, <1>3, <1>4, <1>5 DEF AtColour

LEMMA ReportStays ==
  ASSUME NEW b, NEW r, NEW n, Reading(b, r, n), Effect(b, n), b.owner = "report", AtReport(r, n)
  PROVE  /\ IF r = 1 THEN hold'.kind = "none" ELSE AtReport(r - 1, Len(hold.bytes))'
         /\ UNCHANGED <<passthrough, sequences>>
<1>1. /\ r \in Nat \ {0} /\ Spells("report", r, b.symbol) /\ n \in Nat /\ n = Len(hold.bytes)
      /\ hold.kind = "candidate" /\ n = 2 => Spells("report", r + 1, hold.bytes[2].symbol)
  BY DEF Reading
<1>2. CASE r = 5
  <2>1. hold.kind = "none" /\ b.symbol = "E"
    BY <1>1, <1>2 DEF AtReport, Spells
  <2>2. Leaves("candidate", 1) /\ UNCHANGED <<passthrough, sequences>>
    BY <2>1 DEF Effect
  <2> QED
    BY <1>2, <2>2 DEF AtReport, Leaves
<1>3. CASE r = 4
  <2>1. hold.kind = "candidate" /\ n = 1 /\ b.symbol = "["
    BY <1>1, <1>3 DEF AtReport, Spells
  <2>2. Leaves("candidate", 2) /\ UNCHANGED <<passthrough, sequences>>
    BY <2>1 DEF Effect, MayGoOn
  <2> QED
    BY <1>3, <2>2 DEF AtReport, Leaves
<1>4. CASE r = 3
  <2>1. hold.kind = "candidate" /\ n = 2 /\ b.symbol = "?"
    BY <1>1, <1>4 DEF AtReport, Spells
  <2>2. hold.bytes[2].symbol = "["
    BY <1>1, <1>4, <2>1 DEF Spells
  <2>3. Leaves("candidate", 3) /\ UNCHANGED <<passthrough, sequences>>
    BY <2>1, <2>2 DEF Effect, MayGoOn
  <2> QED
    BY <1>4, <2>3 DEF AtReport, Leaves
<1>5. CASE r = 2
  <2>1. hold.kind = "candidate" /\ n = 3 /\ b.symbol = "n"
    BY <1>1, <1>5 DEF AtReport, Spells
  <2>2. Leaves("candidate", 4) /\ UNCHANGED <<passthrough, sequences>>
    BY <2>1 DEF Effect, MayGoOn
  <2> QED
    BY <1>5, <2>2 DEF AtReport, Leaves
<1>6. CASE r = 1
  <2>1. hold.kind = "candidate" /\ n = 4 /\ b.symbol = "y"
    BY <1>1, <1>6 DEF AtReport, Spells
  <2>2. Leaves("none", 0) /\ UNCHANGED <<passthrough, sequences>>
    BY <2>1 DEF Effect, MayGoOn
  <2> QED
    BY <1>6, <2>2 DEF Leaves
<1> QED
  BY <1>1, <1>2, <1>3, <1>4, <1>5, <1>6 DEF AtReport

LEMMA AnswerStays ==
  ASSUME NEW b, NEW r, NEW n, Reading(b, r, n), Effect(b, n), b.owner = "answer", AtReport(r, n)
  PROVE  /\ IF r = 1 THEN hold'.kind = "none" ELSE AtReport(r - 1, Len(hold.bytes))'
         /\ sequences' = sequences
<1>1. /\ r \in Nat \ {0} /\ Spells("answer", r, b.symbol) /\ n \in Nat /\ n = Len(hold.bytes)
      /\ hold.kind = "candidate" /\ n = 2 => Spells("answer", r + 1, hold.bytes[2].symbol)
  BY DEF Reading
<1>2. CASE r = 5
  <2>1. hold.kind = "none" /\ b.symbol = "E"
    BY <1>1, <1>2 DEF AtReport, Spells
  <2>2. Leaves("candidate", 1) /\ sequences' = sequences
    BY <2>1 DEF Effect
  <2> QED
    BY <1>2, <2>2 DEF AtReport, Leaves
<1>3. CASE r = 4
  <2>1. hold.kind = "candidate" /\ n = 1 /\ b.symbol = "["
    BY <1>1, <1>3 DEF AtReport, Spells
  <2>2. Leaves("candidate", 2) /\ sequences' = sequences
    BY <2>1 DEF Effect, MayGoOn
  <2> QED
    BY <1>3, <2>2 DEF AtReport, Leaves
<1>4. CASE r = 3
  <2>1. hold.kind = "candidate" /\ n = 2 /\ b.symbol = "?"
    BY <1>1, <1>4 DEF AtReport, Spells
  <2>2. hold.bytes[2].symbol = "["
    BY <1>1, <1>4, <2>1 DEF Spells
  <2>3. Leaves("candidate", 3) /\ sequences' = sequences
    BY <2>1, <2>2 DEF Effect, MayGoOn
  <2> QED
    BY <1>4, <2>3 DEF AtReport, Leaves
<1>5. CASE r = 2
  <2>1. hold.kind = "candidate" /\ n = 3 /\ b.symbol = "n"
    BY <1>1, <1>5 DEF AtReport, Spells
  <2>2. Leaves("candidate", 4) /\ sequences' = sequences
    BY <2>1 DEF Effect, MayGoOn
  <2> QED
    BY <1>5, <2>2 DEF AtReport, Leaves
<1>6. CASE r = 1
  <2>1. hold.kind = "candidate" /\ n = 4 /\ b.symbol = "u"
    BY <1>1, <1>6 DEF AtReport, Spells
  <2>2. Leaves("none", 0) /\ sequences' = sequences
    BY <2>1 DEF Effect, MayGoOn
  <2> QED
    BY <1>6, <2>2 DEF Leaves
<1> QED
  BY <1>1, <1>2, <1>3, <1>4, <1>5, <1>6 DEF AtReport

Protocol == {"packet", "overlong", "colour", "report"}

\* On a steady link a byte moves what is held one place on; none of the protocol's bytes is
\* passed on, and a packet that ends is counted.
LEMMA FeedClean ==
  ASSUME BodyMax \in Nat \ {0, 1}, SplitterTyped, PlacesInv, NEW b, Feeds(b), ~cut
  PROVE  /\ CleanInv'
         /\ sequences' = IF b.owner = "packet" /\ rest' = <<>> THEN sequences + 1 ELSE sequences
         /\ b.owner \in Protocol => passthrough' = passthrough /\ hold'.kind # "paste"
         /\ hold.kind \in {"body", "discard", "overflow"} => passthrough' = passthrough
<1> DEFINE Ok == /\ CleanInv'
                 /\ sequences' = IF b.owner = "packet" /\ rest' = <<>> THEN sequences + 1 ELSE sequences
                 /\ b.owner \in Protocol => passthrough' = passthrough /\ hold'.kind # "paste"
<1>0. PICK r \in Nat, n \in Nat : r = Len(rest) /\ n = Len(hold.bytes)
  <2>1. Reading(b, Len(rest), Len(hold.bytes))
    BY FeedReads
  <2>2. Len(rest) \in Nat /\ Len(hold.bytes) \in Nat
    BY <2>1 DEF Reading
  <2> QED
    BY <2>2
<1>1. Reading(b, r, n)
  BY <1>0, FeedReads
<1>2. Effect(b, n)
  BY <1>1, FeedLeaves DEF PlacesInv
<1>3. /\ CleanInv /\ LostInv /\ CandInv' /\ b.owner \in Owner /\ rest # <<>> /\ rest[1] = b
      /\ cut' = cut
  BY FeedCandidates DEF PlacesInv, Feeds, Byte
<1>4. /\ r \in Nat \ {0} /\ (rest' = <<>> <=> r = 1) /\ Len(rest') = r - 1
      /\ rest' # <<>> => rest'[1].owner = b.owner
      /\ n \in Nat /\ n = Len(hold.bytes) /\ Spells(b.owner, r, b.symbol)
  <2>1. /\ r \in Nat \ {0} /\ ((rest' # <<>>) <=> r > 1) /\ Len(rest') = r - 1
        /\ rest' # <<>> => rest'[1].owner = b.owner
        /\ n \in Nat /\ n = Len(hold.bytes) /\ Spells(b.owner, r, b.symbol)
    BY <1>1 DEF Reading
  <2>2. r > 1 <=> r # 1
    BY <2>1
  <2> QED
    BY <2>1, <2>2
<1>5. ~cut' => (CleanInv' <=> IF rest' = <<>> THEN AtKeys'
            ELSE /\ b.owner = "key" => AtKeys'
                 /\ b.owner = "paste" => AtPaste(Len(rest), Len(hold.bytes))'
                 /\ b.owner = "quoted" => AtQuoted(Len(rest), Len(hold.bytes))'
                 /\ b.owner = "packet" => AtPacket(Len(rest), Len(hold.bytes))'
                 /\ b.owner = "overlong" => AtOverlong(Len(rest), Len(hold.bytes))'
                 /\ b.owner = "colour" => AtColour(Len(rest), Len(hold.bytes))'
                 /\ b.owner \in {"report", "answer"} => AtReport(Len(rest), Len(hold.bytes))')
  BY <1>4 DEF CleanInv
<1>6. /\ b.owner = "key" => AtKeys
      /\ b.owner = "paste" => AtPaste(r, n)
      /\ b.owner = "quoted" => AtQuoted(r, n)
      /\ b.owner = "packet" => AtPacket(r, n)
      /\ b.owner = "overlong" => AtOverlong(r, n)
      /\ b.owner = "colour" => AtColour(r, n)
      /\ b.owner \in {"report", "answer"} => AtReport(r, n)
  BY <1>0, <1>3 DEF CleanInv
<1>7. hold'.kind = "none" => AtKeys'
  BY DEF AtKeys
<1>8. Ok
  <2>1. CASE b.owner = "key"
    <3>1. r = 1 /\ b.symbol \in {"x", "E"} /\ rest' = <<>>
      BY <1>4, <2>1 DEF Spells
    <3>2. hold.kind = "none" \/ (hold.kind = "candidate" /\ n = 1 /\ b.symbol = "x")
      BY <1>3, <1>4, <1>6, <2>1 DEF AtKeys, KeyHeld
    <3>3. hold'.kind \in {"none", "candidate"} /\ sequences' = sequences
      BY <1>2, <3>1, <3>2 DEF Effect, Leaves, MayGoOn
    <3>4. AtKeys'
      BY <1>3, <3>1, <3>3 DEF CandInv, ItemHeld, AtKeys
    <3> QED
      BY <1>3, <1>5, <2>1, <3>1, <3>3, <3>4 DEF Protocol
  <2>2. CASE b.owner = "paste"
    <3>1. /\ IF r = 1 THEN hold'.kind = "none" ELSE AtPaste(r - 1, Len(hold.bytes))'
          /\ sequences' = sequences
      BY <1>1, <1>2, <1>6, <2>2, PasteStays
    <3> QED
      BY <1>3, <1>4, <1>5, <1>7, <2>2, <3>1 DEF Protocol
  <2>3. CASE b.owner = "quoted"
    <3>1. /\ IF r = 1 THEN hold'.kind = "none" ELSE AtQuoted(r - 1, Len(hold.bytes))'
          /\ sequences' = sequences
      BY <1>1, <1>2, <1>6, <2>3, QuotedStays
    <3> QED
      BY <1>3, <1>4, <1>5, <1>7, <2>3, <3>1 DEF Protocol
  <2>4. CASE b.owner = "packet"
    <3>1. /\ IF r = 1 THEN hold'.kind = "none" ELSE AtPacket(r - 1, Len(hold.bytes))'
          /\ passthrough' = passthrough /\ sequences' = IF r = 1 THEN sequences + 1 ELSE sequences
      BY <1>1, <1>2, <1>3, <1>6, <2>4, PacketStays
    <3>2. hold'.kind # "paste"
      BY <3>1 DEF AtPacket
    <3> QED
      BY <1>3, <1>4, <1>5, <1>7, <2>4, <3>1, <3>2
  <2>5. CASE b.owner = "overlong"
    <3>1. /\ IF r = 1 THEN hold'.kind = "none" ELSE AtOverlong(r - 1, Len(hold.bytes))'
          /\ UNCHANGED <<passthrough, sequences>>
      BY <1>1, <1>2, <1>6, <2>5, OverlongStays
    <3>2. hold'.kind # "paste"
      BY <3>1 DEF AtOverlong
    <3> QED
      BY <1>3, <1>4, <1>5, <1>7, <2>5, <3>1, <3>2
  <2>6. CASE b.owner = "colour"
    <3>1. /\ IF r = 1 THEN hold'.kind = "none" ELSE AtColour(r - 1, Len(hold.bytes))'
          /\ UNCHANGED <<passthrough, sequences>>
      BY <1>1, <1>2, <1>6, <2>6, ColourStays
    <3>2. hold'.kind # "paste"
      BY <3>1 DEF AtColour
    <3> QED
      BY <1>3, <1>4, <1>5, <1>7, <2>6, <3>1, <3>2
  <2>7. CASE b.owner = "report"
    <3>1. /\ IF r = 1 THEN hold'.kind = "none" ELSE AtReport(r - 1, Len(hold.bytes))'
          /\ UNCHANGED <<passthrough, sequences>>
      BY <1>1, <1>2, <1>6, <2>7, ReportStays
    <3>2. hold'.kind # "paste"
      BY <3>1 DEF AtReport
    <3> QED
      BY <1>3, <1>4, <1>5, <1>7, <2>7, <3>1, <3>2
  <2>8. CASE b.owner = "answer"
    <3>1. /\ IF r = 1 THEN hold'.kind = "none" ELSE AtReport(r - 1, Len(hold.bytes))'
          /\ sequences' = sequences
      BY <1>1, <1>2, <1>6, <2>8, AnswerStays
    <3> QED
      BY <1>3, <1>4, <1>5, <1>7, <2>8, <3>1 DEF Protocol
  <2> QED
    BY <1>3, <2>1, <2>2, <2>3, <2>4, <2>5, <2>6, <2>7, <2>8 DEF Owner
<1>9. hold.kind \in {"body", "discard", "overflow"} => passthrough' = passthrough
  BY <1>2 DEF Effect
<1> QED
  BY <1>8, <1>9

-----------------------------------------------------------------------------
(* The splitter: what the key reader sees *)

Clear(s) == \A i \in 1..Len(s) : s[i].owner \notin Protocol
LeakInv == ~cut => /\ Clear(passthrough) /\ sequences = packets
                   /\ hold.kind = "paste" => Clear(hold.bytes)

LEMMA ClearAppend ==
  ASSUME NEW s \in Seq(Byte), NEW b \in Byte, Clear(s), b.owner \notin Protocol
  PROVE  Clear(Append(s, b))
<1>1. /\ Len(s) \in Nat /\ Len(Append(s, b)) = Len(s) + 1 /\ Append(s, b)[Len(s) + 1] = b
      /\ \A i \in 1..Len(s) : Append(s, b)[i] = s[i]
  BY AppendProperties, LenProperties
<1> SUFFICES ASSUME NEW i \in 1..(Len(s) + 1) PROVE Append(s, b)[i].owner \notin Protocol
  BY <1>1 DEF Clear
<1>2. i = Len(s) + 1 \/ i \in 1..Len(s)
  BY <1>1
<1> QED
  BY <1>1, <1>2 DEF Clear

LEMMA ClearConcat ==
  ASSUME NEW s \in Seq(Byte), NEW t \in Seq(Byte), Clear(s), Clear(t)
  PROVE  Clear(s \o t)
<1>1. /\ Len(s) \in Nat /\ Len(t) \in Nat /\ Len(s \o t) = Len(s) + Len(t)
      /\ \A i \in 1..(Len(s) + Len(t)) : (s \o t)[i] = IF i <= Len(s) THEN s[i] ELSE t[i - Len(s)]
  BY ConcatProperties, LenProperties
<1> SUFFICES ASSUME NEW i \in 1..(Len(s) + Len(t)) PROVE (s \o t)[i].owner \notin Protocol
  BY <1>1 DEF Clear
<1>2. CASE i <= Len(s)
  BY <1>1, <1>2 DEF Clear
<1>3. CASE ~(i <= Len(s))
  <2>1. i - Len(s) \in 1..Len(t)
    BY <1>1, <1>3
  <2> QED
    BY <1>1, <1>3, <2>1 DEF Clear
<1> QED
  BY <1>2, <1>3

LEMMA ClearParts ==
  ASSUME NEW s \in Seq(Byte), Clear(s), NEW k \in 1..(Len(s) + 1)
  PROVE  Clear(SubSeq(s, 1, k - 1)) /\ Clear(SubSeq(s, k, Len(s)))
<1> DEFINE t == SubSeq(s, k, Len(s))
           u == SubSeq(s, 1, k - 1)
<1>1. /\ Len(t) = Len(s) - k + 1 /\ \A i \in 1..(Len(s) - k + 1) : t[i] = s[k + i - 1]
      /\ Len(u) = k - 1 /\ \A i \in 1..(k - 1) : u[i] = s[i]
  BY From
<1>2. Len(s) \in Nat
  BY LenProperties
<1> HIDE DEF t, u
<1>3. ASSUME NEW i \in 1..Len(t) PROVE t[i].owner \notin Protocol
  <2>1. k + i - 1 \in 1..Len(s)
    BY <1>1, <1>2
  <2> QED
    BY <1>1, <2>1 DEF Clear
<1>4. ASSUME NEW i \in 1..Len(u) PROVE u[i].owner \notin Protocol
  <2>1. i \in 1..Len(s)
    BY <1>1, <1>2
  <2> QED
    BY <1>1, <2>1 DEF Clear
<1>5. Clear(t) /\ Clear(u)
  BY <1>3, <1>4 DEF Clear
<1> QED
  BY <1>5 DEF t, u

LEMMA FeedLeaks ==
  ASSUME BodyMax \in Nat \ {0, 1}, SplitterTyped, PlacesInv, LeakInv, NEW b, Feeds(b)
  PROVE  LeakInv'
<1> SUFFICES ASSUME ~cut PROVE LeakInv'
  BY DEF LeakInv, Feeds
<1>1. /\ Clear(passthrough) /\ sequences = packets
      /\ hold.kind = "paste" => Clear(hold.bytes)
  BY DEF LeakInv
<1>2. /\ b \in Byte /\ hold.bytes \in Seq(Byte) /\ passthrough \in Seq(Byte)
      /\ packets' = IF b.owner = "packet" /\ rest' = <<>> THEN packets + 1 ELSE packets
  BY DEF Feeds, SplitterTyped
<1>3. sequences' = packets'
  BY <1>1, <1>2, FeedClean
<1>4. CASE b.owner \in Protocol
  <2>1. passthrough' = passthrough /\ hold'.kind # "paste"
    BY <1>4, FeedClean
  <2> QED
    BY <1>1, <1>3, <2>1 DEF LeakInv, Clear
<1>5. CASE b.owner \notin Protocol
  <2>1. hold.kind \in {"candidate", "paste"} => Clear(hold.bytes)
    <3>1. ASSUME hold.kind = "candidate" PROVE Clear(hold.bytes)
      <4>1. /\ Len(hold.bytes) \in 1..4
            /\ \/ Len(hold.bytes) = 1 /\ hold.bytes[1].owner = "key"
               \/ \A i \in 1..Len(hold.bytes) : hold.bytes[i].owner = b.owner
        BY <3>1, CandidateReads
      <4> QED
        BY <1>5, <4>1 DEF Clear, Protocol
    <3> QED
      BY <1>1, <3>1
  <2>2. /\ Grown(b) \in Seq(Byte)
        /\ hold.kind \in {"candidate", "paste"} => Clear(Grown(b))
    BY <1>2, <1>5, <2>1, ClearAppend, AppendProperties DEF Grown
  <2>3. hold.kind \in {"candidate", "paste"} => Clear(passthrough \o Grown(b))
    BY <1>1, <1>2, <2>2, ClearConcat
  <2>4. Clear(<<>>)
    BY DEF Clear
  <2>5. Clear(passthrough') /\ (hold'.kind = "paste" => Clear(hold'.bytes))
    <3>1. CASE Begins(b) \/ GoesOn(b) \/ Starts(b) \/ Reports(b) \/ EndsBody(b) \/ KeepsBody(b)
      <4>1. passthrough' = passthrough /\ hold'.kind # "paste"
        BY <3>1 DEF Begins, GoesOn, Starts, Reports, EndsBody, KeepsBody, None
      <4> QED
        BY <1>1, <4>1
    <3>2. CASE Passes(b)
      <4>1. Clear(Append(passthrough, b))
        BY <1>1, <1>2, <1>5, ClearAppend
      <4> QED
        BY <3>2, <4>1 DEF Passes
    <3>3. CASE Pastes(b)
      BY <2>3, <2>4, <3>3 DEF Pastes
    <3>4. CASE Refuses(b)
      BY <2>3, <3>4 DEF Refuses, None
    <3>5. CASE EndsPaste(b)
      BY <2>3, <3>5 DEF EndsPaste, None
    <3>6. CASE KeepsPaste(b)
      <4>1. hold.kind = "paste"
        BY <3>6 DEF KeepsPaste
      <4>2. PICK k \in 1..(Len(Grown(b)) + 1) :
               /\ hold' = [kind |-> "paste", bytes |-> SubSeq(Grown(b), k, Len(Grown(b)))]
               /\ passthrough' = passthrough \o SubSeq(Grown(b), 1, k - 1)
        BY <3>6 DEF KeepsPaste
      <4>3. /\ Clear(SubSeq(Grown(b), 1, k - 1)) /\ Clear(SubSeq(Grown(b), k, Len(Grown(b))))
            /\ SubSeq(Grown(b), 1, k - 1) \in Seq(Byte)
        BY <2>2, <4>1, ClearParts, From
      <4>4. Clear(passthrough')
        BY <1>1, <1>2, <4>2, <4>3, ClearConcat
      <4> QED
        BY <4>2, <4>3, <4>4
    <3> QED
      BY <3>1, <3>2, <3>3, <3>4, <3>5, <3>6 DEF Feeds, Outcome
  <2> QED
    BY <1>3, <2>5 DEF LeakInv, Clear
<1> QED
  BY <1>4, <1>5

-----------------------------------------------------------------------------
(* The splitter: what is written *)

\* s is what an owner writes with k symbols to follow.
Ahead(o, k, s) ==
    /\ s \in Seq(Symbol) /\ Len(s) \in Nat \ {0}
    /\ \A i \in 1..Len(s) : Spells(o, k + Len(s) - i + 1, s[i])

First(w) == w[1]
\* t and the k symbols after it are j symbols.
Before(j, k, t) == k \in Nat /\ j = k + Len(t)

LEMMA AheadJoins ==
  ASSUME NEW o, NEW k, NEW s, NEW t, NEW j, Before(j, k, t), Ahead(o, j, s), Ahead(o, k, t)
  PROVE  Ahead(o, k, s \o t) /\ Len(s \o t) = Len(s) + Len(t) /\ First(s \o t) = First(s)
<1>1. /\ s \in Seq(Symbol) /\ t \in Seq(Symbol) /\ Len(s) \in Nat \ {0} /\ Len(t) \in Nat \ {0}
      /\ k \in Nat
      /\ \A i \in 1..Len(s) : Spells(o, (k + Len(t)) + Len(s) - i + 1, s[i])
      /\ \A i \in 1..Len(t) : Spells(o, k + Len(t) - i + 1, t[i])
  BY DEF Ahead, Before
<1> DEFINE w == s \o t
           m == Len(s)
           n == Len(t)
<1>2. /\ w \in Seq(Symbol) /\ Len(w) = m + n
      /\ \A i \in 1..(m + n) : w[i] = IF i <= m THEN s[i] ELSE t[i - m]
  BY <1>1, ConcatProperties
<1> HIDE DEF w
<1>3. ASSUME NEW i \in 1..(m + n) PROVE Spells(o, k + (m + n) - i + 1, w[i])
  <2>1. CASE i <= m
    <3>1. i \in 1..m /\ w[i] = s[i] /\ (k + n) + m - i + 1 = k + (m + n) - i + 1
      BY <1>1, <1>2, <2>1
    <3> QED
      BY <1>1, <3>1
  <2>2. CASE ~(i <= m)
    <3>1. i - m \in 1..n /\ w[i] = t[i - m] /\ k + n - (i - m) + 1 = k + (m + n) - i + 1
      BY <1>1, <1>2, <2>2
    <3> QED
      BY <1>1, <3>1
  <2> QED
    BY <2>1, <2>2
<1>4. w[1] = s[1]
  <2>1. 1 \in 1..(m + n) /\ 1 <= m
    BY <1>1
  <2> QED
    BY <1>2, <2>1
<1>5. m + n \in Nat \ {0}
  BY <1>1
<1> QED
  BY <1>2, <1>3, <1>4, <1>5 DEF Ahead, w, First

\* The same, for the words that are written.
LEMMA AheadOne ==
  ASSUME NEW o, NEW k \in Nat, NEW w \in Seq(Symbol), Len(w) = 1,
         Spells(o, k + 1, w[1])
  PROVE  Ahead(o, k, w)
<1>1. ASSUME NEW i \in 1..1 PROVE Spells(o, k + 1 - i + 1, w[i])
  <2>1. (i = 1 => k + 1 - i + 1 = k + 1)
    OBVIOUS
  <2>2. i = 1
    OBVIOUS
  <2> QED
    BY <2>1, <2>2
<1> QED
  BY <1>1 DEF Ahead

LEMMA AheadTwo ==
  ASSUME NEW o, NEW k \in Nat, NEW w \in Seq(Symbol), Len(w) = 2,
         Spells(o, k + 2, w[1]), Spells(o, k + 1, w[2])
  PROVE  Ahead(o, k, w)
<1>1. ASSUME NEW i \in 1..2 PROVE Spells(o, k + 2 - i + 1, w[i])
  <2>1. (i = 1 => k + 2 - i + 1 = k + 2) /\ (i = 2 => k + 2 - i + 1 = k + 1)
    OBVIOUS
  <2>2. i = 1 \/ i = 2
    OBVIOUS
  <2> QED
    BY <2>1, <2>2
<1> QED
  BY <1>1 DEF Ahead

LEMMA AheadThree ==
  ASSUME NEW o, NEW k \in Nat, NEW w \in Seq(Symbol), Len(w) = 3,
         Spells(o, k + 3, w[1]), Spells(o, k + 2, w[2]), Spells(o, k + 1, w[3])
  PROVE  Ahead(o, k, w)
<1>1. ASSUME NEW i \in 1..3 PROVE Spells(o, k + 3 - i + 1, w[i])
  <2>1. (i = 1 => k + 3 - i + 1 = k + 3) /\ (i = 2 => k + 3 - i + 1 = k + 2) /\ (i = 3 => k + 3 - i + 1 = k + 1)
    OBVIOUS
  <2>2. i = 1 \/ i = 2 \/ i = 3
    OBVIOUS
  <2> QED
    BY <2>1, <2>2
<1> QED
  BY <1>1 DEF Ahead

LEMMA AheadFive ==
  ASSUME NEW o, NEW k \in Nat, NEW w \in Seq(Symbol), Len(w) = 5,
         Spells(o, k + 5, w[1]), Spells(o, k + 4, w[2]), Spells(o, k + 3, w[3]), Spells(o, k + 2, w[4]), Spells(o, k + 1, w[5])
  PROVE  Ahead(o, k, w)
<1>1. ASSUME NEW i \in 1..5 PROVE Spells(o, k + 5 - i + 1, w[i])
  <2>1. (i = 1 => k + 5 - i + 1 = k + 5) /\ (i = 2 => k + 5 - i + 1 = k + 4) /\ (i = 3 => k + 5 - i + 1 = k + 3) /\ (i = 4 => k + 5 - i + 1 = k + 2) /\ (i = 5 => k + 5 - i + 1 = k + 1)
    OBVIOUS
  <2>2. i = 1 \/ i = 2 \/ i = 3 \/ i = 4 \/ i = 5
    OBVIOUS
  <2> QED
    BY <2>1, <2>2
<1> QED
  BY <1>1 DEF Ahead

LEMMA ShortWords ==
  /\ SequencePrefix \in Seq(Symbol) /\ Len(SequencePrefix) = 3 /\ SequencePrefix[1] = "E"
  /\ SequencePrefix[2] = "]" /\ SequencePrefix[3] = "5"
  /\ ColorQueryPrefix \in Seq(Symbol) /\ Len(ColorQueryPrefix) = 3 /\ ColorQueryPrefix[1] = "E"
  /\ ColorQueryPrefix[2] = "]" /\ ColorQueryPrefix[3] = "1"
  /\ PasteOpen \in Seq(Symbol) /\ Len(PasteOpen) = 3 /\ PasteOpen[1] = "E"
  /\ PasteOpen[2] = "[" /\ PasteOpen[3] = "o"
  /\ PasteClose \in Seq(Symbol) /\ Len(PasteClose) = 3 /\ PasteClose[1] = "E"
  /\ PasteClose[2] = "[" /\ PasteClose[3] = "c"
  /\ ReportOpen \in Seq(Symbol) /\ Len(ReportOpen) = 3 /\ ReportOpen[1] = "E"
  /\ ReportOpen[2] = "[" /\ ReportOpen[3] = "?"
<1>1. /\ SequencePrefix \in Seq(Symbol) /\ Len(SequencePrefix) = 3
      /\ SequencePrefix[1] = "E" /\ SequencePrefix[2] = "]" /\ SequencePrefix[3] = "5"
  <2>1. <<"E", "]", "5">> \in Seq(Symbol)
    BY DEF Symbol
  <2> QED
    BY <2>1 DEF SequencePrefix
<1>2. /\ ColorQueryPrefix \in Seq(Symbol) /\ Len(ColorQueryPrefix) = 3
      /\ ColorQueryPrefix[1] = "E" /\ ColorQueryPrefix[2] = "]" /\ ColorQueryPrefix[3] = "1"
  <2>1. <<"E", "]", "1">> \in Seq(Symbol)
    BY DEF Symbol
  <2> QED
    BY <2>1 DEF ColorQueryPrefix
<1>3. /\ PasteOpen \in Seq(Symbol) /\ Len(PasteOpen) = 3
      /\ PasteOpen[1] = "E" /\ PasteOpen[2] = "[" /\ PasteOpen[3] = "o"
  <2>1. <<"E", "[", "o">> \in Seq(Symbol)
    BY DEF Symbol
  <2> QED
    BY <2>1 DEF PasteOpen
<1>4. /\ PasteClose \in Seq(Symbol) /\ Len(PasteClose) = 3
      /\ PasteClose[1] = "E" /\ PasteClose[2] = "[" /\ PasteClose[3] = "c"
  <2>1. <<"E", "[", "c">> \in Seq(Symbol)
    BY DEF Symbol
  <2> QED
    BY <2>1 DEF PasteClose
<1>5. /\ ReportOpen \in Seq(Symbol) /\ Len(ReportOpen) = 3
      /\ ReportOpen[1] = "E" /\ ReportOpen[2] = "[" /\ ReportOpen[3] = "?"
  <2>1. <<"E", "[", "?">> \in Seq(Symbol)
    BY DEF Symbol
  <2> QED
    BY <2>1 DEF ReportOpen
<1> QED
  BY <1>1, <1>2, <1>3, <1>4, <1>5

LEMMA PasteWord ==
  LET w == PasteOpen \o <<"x", "E">> \o PasteClose IN
  Ahead("paste", 0, w) /\ Len(w) = 8 /\ w[1] = "E"
<1> DEFINE t == <<"x", "E">>
           u == PasteOpen \o t
           v == u \o PasteClose
<1>1. t \in Seq(Symbol) /\ Len(t) = 2 /\ t[1] = "x" /\ t[2] = "E"
  BY DEF Symbol
<1> HIDE DEF t, u, v
<1>2. Ahead("paste", 5, PasteOpen)
  <2>1. Spells("paste", 5 + 3, PasteOpen[1]) /\ Spells("paste", 5 + 2, PasteOpen[2]) /\ Spells("paste", 5 + 1, PasteOpen[3])
    BY ShortWords DEF Spells
  <2> QED
    BY ShortWords, <2>1, AheadThree
<1>3. Ahead("paste", 3, t)
  <2>1. Spells("paste", 3 + 2, t[1]) /\ Spells("paste", 3 + 1, t[2])
    BY <1>1 DEF Spells
  <2> QED
    BY <1>1, <2>1, AheadTwo
<1>4. Ahead("paste", 0, PasteClose)
  <2>1. Spells("paste", 0 + 3, PasteClose[1]) /\ Spells("paste", 0 + 2, PasteClose[2]) /\ Spells("paste", 0 + 1, PasteClose[3])
    BY ShortWords DEF Spells
  <2> QED
    BY ShortWords, <2>1, AheadThree
<1>5. Ahead("paste", 3, u) /\ Len(u) = 5 /\ u[1] = "E"
  <2>1. Len(t) = 2 /\ 3 + 2 = 5 /\ Len(PasteOpen) = 3 /\ PasteOpen[1] = "E"
    BY <1>1, <1>2, ShortWords
  <2>2. Before(5, 3, t)
    BY <2>1 DEF Before
  <2>3. /\ Ahead("paste", 3, PasteOpen \o t)
        /\ Len(PasteOpen \o t) = Len(PasteOpen) + Len(t)
        /\ First(PasteOpen \o t) = First(PasteOpen)
    BY <1>2, <1>3, <2>2, AheadJoins
  <2> QED
    BY <2>1, <2>3 DEF u, First
<1>6. Ahead("paste", 0, v) /\ Len(v) = 8 /\ v[1] = "E"
  <2>1. Len(PasteClose) = 3 /\ 0 + 3 = 3 /\ Len(u) = 5 /\ u[1] = "E"
    BY <1>1, <1>5, ShortWords
  <2>2. Before(3, 0, PasteClose) /\ Ahead("paste", 3, u)
    BY <1>5, <2>1 DEF Before
  <2>3. /\ Ahead("paste", 0, u \o PasteClose)
        /\ Len(u \o PasteClose) = Len(u) + Len(PasteClose)
        /\ First(u \o PasteClose) = First(u)
    BY <1>4, <2>2, AheadJoins
  <2> QED
    BY <2>1, <2>3 DEF v, First
<1> QED
  BY <1>6 DEF t, u, v

LEMMA QuotedWord ==
  LET w == PasteOpen \o SequencePrefix \o <<"x", "T">> \o PasteClose IN
  Ahead("quoted", 0, w) /\ Len(w) = 11 /\ w[1] = "E"
<1> DEFINE t == <<"x", "T">>
           u == PasteOpen \o SequencePrefix
           v == u \o t
           w == v \o PasteClose
<1>1. t \in Seq(Symbol) /\ Len(t) = 2 /\ t[1] = "x" /\ t[2] = "T"
  BY DEF Symbol
<1> HIDE DEF t, u, v, w
<1>2. Ahead("quoted", 8, PasteOpen)
  <2>1. Spells("quoted", 8 + 3, PasteOpen[1]) /\ Spells("quoted", 8 + 2, PasteOpen[2]) /\ Spells("quoted", 8 + 1, PasteOpen[3])
    BY ShortWords DEF Spells
  <2> QED
    BY ShortWords, <2>1, AheadThree
<1>3. Ahead("quoted", 5, SequencePrefix)
  <2>1. Spells("quoted", 5 + 3, SequencePrefix[1]) /\ Spells("quoted", 5 + 2, SequencePrefix[2]) /\ Spells("quoted", 5 + 1, SequencePrefix[3])
    BY ShortWords DEF Spells
  <2> QED
    BY ShortWords, <2>1, AheadThree
<1>4. Ahead("quoted", 3, t)
  <2>1. Spells("quoted", 3 + 2, t[1]) /\ Spells("quoted", 3 + 1, t[2])
    BY <1>1 DEF Spells
  <2> QED
    BY <1>1, <2>1, AheadTwo
<1>5. Ahead("quoted", 0, PasteClose)
  <2>1. Spells("quoted", 0 + 3, PasteClose[1]) /\ Spells("quoted", 0 + 2, PasteClose[2]) /\ Spells("quoted", 0 + 1, PasteClose[3])
    BY ShortWords DEF Spells
  <2> QED
    BY ShortWords, <2>1, AheadThree
<1>6. Ahead("quoted", 5, u) /\ Len(u) = 6 /\ u[1] = "E"
  <2>1. Len(SequencePrefix) = 3 /\ 5 + 3 = 8 /\ Len(PasteOpen) = 3 /\ PasteOpen[1] = "E"
    BY <1>1, <1>2, ShortWords
  <2>2. Before(8, 5, SequencePrefix)
    BY <2>1 DEF Before
  <2>3. /\ Ahead("quoted", 5, PasteOpen \o SequencePrefix)
        /\ Len(PasteOpen \o SequencePrefix) = Len(PasteOpen) + Len(SequencePrefix)
        /\ First(PasteOpen \o SequencePrefix) = First(PasteOpen)
    BY <1>2, <1>3, <2>2, AheadJoins
  <2> QED
    BY <2>1, <2>3 DEF u, First
<1>7. Ahead("quoted", 3, v) /\ Len(v) = 8 /\ v[1] = "E"
  <2>1. Len(t) = 2 /\ 3 + 2 = 5 /\ Len(u) = 6 /\ u[1] = "E"
    BY <1>1, <1>6, ShortWords
  <2>2. Before(5, 3, t) /\ Ahead("quoted", 5, u)
    BY <1>6, <2>1 DEF Before
  <2>3. /\ Ahead("quoted", 3, u \o t)
        /\ Len(u \o t) = Len(u) + Len(t)
        /\ First(u \o t) = First(u)
    BY <1>4, <2>2, AheadJoins
  <2> QED
    BY <2>1, <2>3 DEF v, First
<1>8. Ahead("quoted", 0, w) /\ Len(w) = 11 /\ w[1] = "E"
  <2>1. Len(PasteClose) = 3 /\ 0 + 3 = 3 /\ Len(v) = 8 /\ v[1] = "E"
    BY <1>1, <1>7, ShortWords
  <2>2. Before(3, 0, PasteClose) /\ Ahead("quoted", 3, v)
    BY <1>7, <2>1 DEF Before
  <2>3. /\ Ahead("quoted", 0, v \o PasteClose)
        /\ Len(v \o PasteClose) = Len(v) + Len(PasteClose)
        /\ First(v \o PasteClose) = First(v)
    BY <1>5, <2>2, AheadJoins
  <2> QED
    BY <2>1, <2>3 DEF w, First
<1> QED
  BY <1>8 DEF t, u, v, w

LEMMA PacketWord ==
  LET w == SequencePrefix \o <<"p", "E", "S">> IN
  Ahead("packet", 0, w) /\ Len(w) = 6 /\ w[1] = "E"
<1> DEFINE t == <<"p", "E", "S">>
           u == SequencePrefix \o t
<1>1. t \in Seq(Symbol) /\ Len(t) = 3 /\ t[1] = "p" /\ t[2] = "E" /\ t[3] = "S"
  BY DEF Symbol
<1> HIDE DEF t, u
<1>2. Ahead("packet", 3, SequencePrefix)
  <2>1. Spells("packet", 3 + 3, SequencePrefix[1]) /\ Spells("packet", 3 + 2, SequencePrefix[2]) /\ Spells("packet", 3 + 1, SequencePrefix[3])
    BY ShortWords DEF Spells
  <2> QED
    BY ShortWords, <2>1, AheadThree
<1>3. Ahead("packet", 0, t)
  <2>1. Spells("packet", 0 + 3, t[1]) /\ Spells("packet", 0 + 2, t[2]) /\ Spells("packet", 0 + 1, t[3])
    BY <1>1 DEF Spells
  <2> QED
    BY <1>1, <2>1, AheadThree
<1>4. Ahead("packet", 0, u) /\ Len(u) = 6 /\ u[1] = "E"
  <2>1. Len(t) = 3 /\ 0 + 3 = 3 /\ Len(SequencePrefix) = 3 /\ SequencePrefix[1] = "E"
    BY <1>1, <1>2, ShortWords
  <2>2. Before(3, 0, t)
    BY <2>1 DEF Before
  <2>3. /\ Ahead("packet", 0, SequencePrefix \o t)
        /\ Len(SequencePrefix \o t) = Len(SequencePrefix) + Len(t)
        /\ First(SequencePrefix \o t) = First(SequencePrefix)
    BY <1>2, <1>3, <2>2, AheadJoins
  <2> QED
    BY <2>1, <2>3 DEF u, First
<1> QED
  BY <1>4 DEF t, u

LEMMA ColourWord ==
  LET w == ColorQueryPrefix \o <<"p", "T">> IN
  Ahead("colour", 0, w) /\ Len(w) = 5 /\ w[1] = "E"
<1> DEFINE t == <<"p", "T">>
           u == ColorQueryPrefix \o t
<1>1. t \in Seq(Symbol) /\ Len(t) = 2 /\ t[1] = "p" /\ t[2] = "T"
  BY DEF Symbol
<1> HIDE DEF t, u
<1>2. Ahead("colour", 2, ColorQueryPrefix)
  <2>1. Spells("colour", 2 + 3, ColorQueryPrefix[1]) /\ Spells("colour", 2 + 2, ColorQueryPrefix[2]) /\ Spells("colour", 2 + 1, ColorQueryPrefix[3])
    BY ShortWords DEF Spells
  <2> QED
    BY ShortWords, <2>1, AheadThree
<1>3. Ahead("colour", 0, t)
  <2>1. Spells("colour", 0 + 2, t[1]) /\ Spells("colour", 0 + 1, t[2])
    BY <1>1 DEF Spells
  <2> QED
    BY <1>1, <2>1, AheadTwo
<1>4. Ahead("colour", 0, u) /\ Len(u) = 5 /\ u[1] = "E"
  <2>1. Len(t) = 2 /\ 0 + 2 = 2 /\ Len(ColorQueryPrefix) = 3 /\ ColorQueryPrefix[1] = "E"
    BY <1>1, <1>2, ShortWords
  <2>2. Before(2, 0, t)
    BY <2>1 DEF Before
  <2>3. /\ Ahead("colour", 0, ColorQueryPrefix \o t)
        /\ Len(ColorQueryPrefix \o t) = Len(ColorQueryPrefix) + Len(t)
        /\ First(ColorQueryPrefix \o t) = First(ColorQueryPrefix)
    BY <1>2, <1>3, <2>2, AheadJoins
  <2> QED
    BY <2>1, <2>3 DEF u, First
<1> QED
  BY <1>4 DEF t, u

LEMMA AnswerWord ==
  LET w == ReportOpen \o <<"n", "u">> IN
  Ahead("answer", 0, w) /\ Len(w) = 5 /\ w[1] = "E"
<1> DEFINE t == <<"n", "u">>
           u == ReportOpen \o t
<1>1. t \in Seq(Symbol) /\ Len(t) = 2 /\ t[1] = "n" /\ t[2] = "u"
  BY DEF Symbol
<1> HIDE DEF t, u
<1>2. Ahead("answer", 2, ReportOpen)
  <2>1. Spells("answer", 2 + 3, ReportOpen[1]) /\ Spells("answer", 2 + 2, ReportOpen[2]) /\ Spells("answer", 2 + 1, ReportOpen[3])
    BY ShortWords DEF Spells
  <2> QED
    BY ShortWords, <2>1, AheadThree
<1>3. Ahead("answer", 0, t)
  <2>1. Spells("answer", 0 + 2, t[1]) /\ Spells("answer", 0 + 1, t[2])
    BY <1>1 DEF Spells
  <2> QED
    BY <1>1, <2>1, AheadTwo
<1>4. Ahead("answer", 0, u) /\ Len(u) = 5 /\ u[1] = "E"
  <2>1. Len(t) = 2 /\ 0 + 2 = 2 /\ Len(ReportOpen) = 3 /\ ReportOpen[1] = "E"
    BY <1>1, <1>2, ShortWords
  <2>2. Before(2, 0, t)
    BY <2>1 DEF Before
  <2>3. /\ Ahead("answer", 0, ReportOpen \o t)
        /\ Len(ReportOpen \o t) = Len(ReportOpen) + Len(t)
        /\ First(ReportOpen \o t) = First(ReportOpen)
    BY <1>2, <1>3, <2>2, AheadJoins
  <2> QED
    BY <2>1, <2>3 DEF u, First
<1> QED
  BY <1>4 DEF t, u

LEMMA ReportWord == Ahead("report", 0, Report) /\ Len(Report) = 5 /\ Report[1] = "E"
<1>1. <<"E", "[", "?", "n", "y">> \in Seq(Symbol)
  BY DEF Symbol
<1>2. /\ Report \in Seq(Symbol) /\ Len(Report) = 5 /\ Report[1] = "E" /\ Report[2] = "["
      /\ Report[3] = "?" /\ Report[4] = "n" /\ Report[5] = "y"
  BY <1>1 DEF Report
<1>3. /\ Spells("report", 0 + 5, Report[1]) /\ Spells("report", 0 + 4, Report[2])
      /\ Spells("report", 0 + 3, Report[3]) /\ Spells("report", 0 + 2, Report[4])
      /\ Spells("report", 0 + 1, Report[5])
  BY <1>2 DEF Spells
<1> QED
  BY <1>2, <1>3, AheadFive

LEMMA OverlongWord ==
  ASSUME BodyMax \in Nat \ {0, 1}
  PROVE  LET w == SequencePrefix \o [i \in 1..BodyMax + 1 |-> "p"] \o <<"T">> IN
         Ahead("overlong", 0, w) /\ Len(w) = BodyMax + 5 /\ w[1] = "E"
<1> DEFINE f == [i \in 1..BodyMax + 1 |-> "p"]
           t == <<"T">>
           v == SequencePrefix \o f
           w == v \o t
<1>1. f \in Seq(Symbol) /\ Len(f) = BodyMax + 1 /\ \A i \in 1..(BodyMax + 1) : f[i] = "p"
  <2>1. f \in [1..(BodyMax + 1) -> Symbol]
    BY DEF Symbol
  <2> QED
    BY <2>1
<1>2. t \in Seq(Symbol) /\ Len(t) = 1 /\ t[1] = "T"
  BY DEF Symbol
<1> HIDE DEF f, t
<1>3. Ahead("overlong", 1, f)
  <2>1. ASSUME NEW i \in 1..(BodyMax + 1) PROVE Spells("overlong", 1 + (BodyMax + 1) - i + 1, f[i])
    <3>1. 1 + (BodyMax + 1) - i + 1 \in 2..(BodyMax + 2) /\ f[i] = "p"
      BY <1>1
    <3> QED
      BY <3>1 DEF Spells
  <2> QED
    BY <1>1, <2>1 DEF Ahead
<1>4. Ahead("overlong", 1 + (BodyMax + 1), SequencePrefix)
  <2>1. ASSUME NEW i \in 1..3
        PROVE  Spells("overlong", (1 + (BodyMax + 1)) + 3 - i + 1, SequencePrefix[i])
    <3>1. /\ i = 1 => (1 + (BodyMax + 1)) + 3 - i + 1 = BodyMax + 5
          /\ i = 2 => (1 + (BodyMax + 1)) + 3 - i + 1 = BodyMax + 4
          /\ i = 3 => (1 + (BodyMax + 1)) + 3 - i + 1 = BodyMax + 3
      OBVIOUS
    <3> QED
      BY <3>1, ShortWords DEF Spells
  <2> QED
    BY <1>1, <2>1, ShortWords DEF Ahead
<1>5. Ahead("overlong", 1, v) /\ Len(v) = BodyMax + 4 /\ v[1] = "E"
  <2>1. Ahead("overlong", 1, v) /\ Len(v) = Len(SequencePrefix) + Len(f) /\ First(v) = First(SequencePrefix)
    <3>1. Before(1 + (BodyMax + 1), 1, f)
      BY <1>1 DEF Before
    <3> QED
      BY <1>3, <1>4, <3>1, AheadJoins
  <2> QED
    BY <1>1, <2>1, ShortWords DEF First
<1> HIDE DEF v, First
<1>6. Ahead("overlong", 0, t) /\ Ahead("overlong", 1, v)
  <2>1. Ahead("overlong", 0, t)
    <3>1. Spells("overlong", 0 + 1, t[1])
      BY <1>2 DEF Spells
    <3> QED
      BY <1>2, <3>1, AheadOne
  <2> QED
    BY <1>5, <2>1
<1>7. Ahead("overlong", 0, w) /\ Len(w) = BodyMax + 5 /\ w[1] = "E"
  <2>1. Ahead("overlong", 0, w) /\ Len(w) = Len(v) + Len(t) /\ First(w) = First(v)
    <3>1. Before(1, 0, t)
      BY <1>2 DEF Before
    <3> QED
      BY <1>6, <3>1, AheadJoins
  <2> QED
    BY <1>2, <1>5, <2>1 DEF First
<1> QED
  BY <1>7 DEF f, t, v, w

\* Full length of what each owner writes.
Lasts(o) == CASE o = "key" -> 1 [] o = "paste" -> 8 [] o = "quoted" -> 11 [] o = "packet" -> 6
              [] o = "overlong" -> BodyMax + 5 [] OTHER -> 5

LEMMA Written ==
  ASSUME BodyMax \in Nat \ {0, 1}, NEW item \in User \cup Terminal
  PROVE  /\ item[1] \in Owner /\ Ahead(item[1], 0, item[2]) /\ Len(item[2]) = Lasts(item[1])
         /\ item \in User <=> item[1] \in {"key", "paste", "quoted"}
         /\ item[2][1] = "E" \/ (item[1] = "key" /\ item[2][1] = "x")
<1>1. CASE item \in {<<"key", <<"x">>>>, <<"key", <<"E">>>>}
  <2>1. item[1] = "key" /\ item[2] \in {<<"x">>, <<"E">>} /\ item \in User
    BY <1>1 DEF User
  <2>2. item[2] \in Seq(Symbol) /\ Len(item[2]) = 1 /\ item[2][1] \in {"x", "E"}
    <3>1. <<"x">> \in Seq(Symbol) /\ <<"E">> \in Seq(Symbol)
      BY DEF Symbol
    <3>2. CASE item[2] = <<"x">>
      BY <3>1, <3>2
    <3>3. CASE item[2] = <<"E">>
      BY <3>1, <3>3
    <3> QED
      BY <2>1, <3>2, <3>3
  <2>3. Ahead("key", 0, item[2])
    <3>1. Spells("key", 0 + 1, item[2][1])
      BY <2>2 DEF Spells
    <3> QED
      BY <2>2, <3>1, AheadOne
  <2> QED
    BY <2>1, <2>2, <2>3 DEF Owner, Lasts
<1>2. CASE item = <<"paste", PasteOpen \o <<"x", "E">> \o PasteClose>>
  BY <1>2, PasteWord DEF Owner, Lasts, User
<1>3. CASE item = <<"quoted", PasteOpen \o SequencePrefix \o <<"x", "T">> \o PasteClose>>
  BY <1>3, QuotedWord DEF Owner, Lasts, User
<1>4. CASE item = <<"packet", SequencePrefix \o <<"p", "E", "S">>>>
  BY <1>4, PacketWord DEF Owner, Lasts, User
<1>5. CASE item = <<"overlong", SequencePrefix \o [i \in 1..BodyMax + 1 |-> "p"] \o <<"T">>>>
  BY <1>5, OverlongWord DEF Owner, Lasts, User
<1>6. CASE item = <<"colour", ColorQueryPrefix \o <<"p", "T">>>>
  BY <1>6, ColourWord DEF Owner, Lasts, User
<1>7. CASE item = <<"report", Report>>
  BY <1>7, ReportWord DEF Owner, Lasts, User
<1>8. CASE item = <<"answer", ReportOpen \o <<"n", "u">>>>
  BY <1>8, AnswerWord DEF Owner, Lasts, User
<1> QED
  BY <1>1, <1>2, <1>3, <1>4, <1>5, <1>6, <1>7, <1>8 DEF User, Terminal

-----------------------------------------------------------------------------
(* The splitter: what the user typed comes out *)

\* c says that a hold has expired in the middle of an item: the user's bytes are then
\* those no body can be taken for.
UsersOf(c) == {b \in Byte : b.owner \in {"key", "paste"} \/ (b.owner = "quoted" /\ ~c)}
Flow(c) == Within((passthrough \o HeldBytes) \o rest, UsersOf(c)) = Within(due, UsersOf(c))
KeptInv == \A c \in BOOLEAN : (cut => c) => Flow(c)

LEMMA RestTail ==
  ASSUME NEW T, NEW q \in Seq(T), NEW r \in Seq(T), r # <<>>
  PROVE  Append(q, r[1]) \o Tail(r) = q \o r
<1> DEFINE t == Tail(r)
           e == r[1]
<1>1. /\ e \in T /\ t \in Seq(T) /\ Len(t) = Len(r) - 1 /\ Len(r) \in Nat /\ Len(q) \in Nat
      /\ \A i \in 1..Len(t) : t[i] = r[i + 1]
  BY HeadTailProperties, LenProperties
<1> HIDE DEF t
<1>2. Len(r) # 0
  BY EmptySeq
<1>3. <<e>> \in Seq(T) /\ Len(<<e>>) = 1 /\ <<e>>[1] = e
  BY <1>1
<1> DEFINE w == <<e>>
           u == w \o t
<1> HIDE DEF w
<1>4. w \in Seq(T) /\ Len(w) = 1 /\ w[1] = e
  BY <1>3 DEF w
<1>5. /\ u \in Seq(T) /\ Len(u) = 1 + Len(t)
      /\ \A i \in 1..(1 + Len(t)) : u[i] = IF i <= 1 THEN w[i] ELSE t[i - 1]
  <2>1. /\ u \in Seq(T) /\ Len(u) = Len(w) + Len(t)
        /\ \A i \in 1..(Len(w) + Len(t)) : u[i] = IF i <= Len(w) THEN w[i] ELSE t[i - Len(w)]
    <3>1. t \in Seq(T) /\ w \in Seq(T)
      BY <1>1, <1>4
    <3> QED
      BY <3>1, ConcatProperties
  <2> QED
    BY <1>4, <2>1
<1> HIDE DEF u
<1>6. u = r
  <2>1. Len(u) = Len(r)
    BY <1>1, <1>2, <1>5
  <2>2. ASSUME NEW i \in 1..Len(u) PROVE u[i] = r[i]
    <3>1. CASE i = 1
      <4>1. 1 \in 1..(1 + Len(t))
        BY <1>1, <1>2
      <4> QED
        BY <1>4, <1>5, <3>1, <4>1 DEF e
    <3>2. CASE i # 1
      <4>1. i - 1 \in 1..Len(t) /\ (i - 1) + 1 = i /\ i \in 1..(1 + Len(t)) /\ ~(i <= 1)
        BY <1>1, <1>2, <1>5, <3>2
      <4> QED
        BY <1>1, <1>5, <4>1
    <3> QED
      BY <3>1, <3>2
  <2> QED
    BY <1>5, <2>1, <2>2, SeqEqual
<1>7. Append(q, e) = q \o w
  BY <1>1, AppendIsConcat DEF w
<1>8. (q \o w) \o t = q \o u
  BY <1>1, <1>4, ConcatAssociative DEF u
<1> QED
  BY <1>6, <1>7, <1>8 DEF t

\* Bytes that a filter drops are not missed.
LEMMA WithinDrops ==
  ASSUME NEW T, NEW s \in Seq(T), NEW d \in Seq(T), NEW t \in Seq(T), NEW S,
         \A i \in 1..Len(d) : d[i] \notin S
  PROVE  Within((s \o d) \o t, S) = Within(s \o t, S)
<1>1. s \o d \in Seq(T)
  BY ConcatProperties
<1>2. Within(d, S) = <<>>
  BY WithinNone
<1>3. PICK v \in Seq(T) : v = Within(s, S)
  BY WithinSeq
<1>4. Splits(s, d, S) /\ Splits(s \o d, t, S) /\ Splits(s, t, S)
  <2>1. Splits(s, d, S)
    BY WithinConcat
  <2>2. PICK u \in Seq(T) : u = s \o d
    BY <1>1
  <2>3. Splits(u, t, S)
    BY WithinConcat
  <2>4. Splits(s, t, S)
    BY WithinConcat
  <2> QED
    BY <2>1, <2>2, <2>3, <2>4
<1>5. v \o <<>> = v
  BY ConcatEmptySeq
<1>6. Within(s \o d, S) = v
  BY <1>2, <1>3, <1>4, <1>5 DEF Splits
<1>7. Within((s \o d) \o t, S) = v \o Within(t, S)
  BY <1>4, <1>6 DEF Splits
<1>8. Within(s \o t, S) = v \o Within(t, S)
  BY <1>3, <1>4 DEF Splits
<1> QED
  BY <1>7, <1>8

\* A byte the splitter does not drop moves on, and everything stays in its order.
LEMMA FeedMoves ==
  ASSUME SplitterTyped, NEW b, Feeds(b),
         \/ Begins(b) \/ Passes(b) \/ GoesOn(b) \/ Pastes(b) \/ Refuses(b)
         \/ EndsPaste(b) \/ KeepsPaste(b)
  PROVE  passthrough' \o HeldBytes' = Append(passthrough \o HeldBytes, b)
<1> DEFINE h == hold.bytes
           q == passthrough
<1>1. b \in Byte /\ h \in Seq(Byte) /\ q \in Seq(Byte)
  BY DEF Feeds, SplitterTyped
<1>2. /\ q \o Append(h, b) = Append(q \o h, b) /\ q \o <<>> = q
      /\ q \o <<b>> = Append(q, b) /\ Append(q, b) \o <<>> = Append(q, b)
      /\ Append(h, b) \in Seq(Byte)
      /\ (q \o Append(h, b)) \o <<>> = q \o Append(h, b)
  <2>1. q \o Append(h, b) = Append(q \o h, b)
    BY <1>1, ConcatAppend
  <2>2. Append(h, b) \in Seq(Byte) /\ Append(q, b) \in Seq(Byte)
    BY <1>1, AppendProperties
  <2>3. q \o Append(h, b) \in Seq(Byte)
    BY <1>1, <2>2, ConcatProperties
  <2>4. q \o <<b>> = Append(q, b)
    BY <1>1, AppendIsConcat
  <2> QED
    BY <1>1, <2>1, <2>2, <2>3, <2>4, ConcatEmptySeq
<1>3. Grown(b) = Append(h, b)
  BY DEF Grown
<1> HIDE DEF h, q
<1>4. h = hold.bytes /\ q = passthrough
  BY DEF h, q
<1>5. CASE Begins(b)
  <2>1. HeldBytes = <<>> /\ HeldBytes' = <<b>> /\ passthrough' = q
    BY <1>4, <1>5 DEF Begins, HeldBytes
  <2> QED
    BY <1>2, <1>4, <2>1
<1>6. CASE Passes(b)
  <2>1. HeldBytes = <<>> /\ HeldBytes' = <<>> /\ passthrough' = Append(q, b)
    BY <1>4, <1>6 DEF Passes, HeldBytes
  <2> QED
    BY <1>2, <1>4, <2>1
<1>7. CASE GoesOn(b)
  <2>1. HeldBytes = h /\ HeldBytes' = Append(h, b) /\ passthrough' = q
    BY <1>3, <1>4, <1>7 DEF GoesOn, HeldBytes
  <2> QED
    BY <1>2, <1>4, <2>1
<1>8. CASE Pastes(b) \/ Refuses(b) \/ EndsPaste(b)
  <2>1. /\ hold.kind \in {"candidate", "paste"} /\ passthrough' = passthrough \o Grown(b)
        /\ hold' = None \/ hold' = [kind |-> "paste", bytes |-> <<>>]
    BY <1>8 DEF Pastes, Refuses, EndsPaste
  <2>2. HeldBytes = h /\ HeldBytes' = <<>>
    BY <1>4, <2>1 DEF None, HeldBytes
  <2>3. passthrough' = q \o Append(h, b)
    BY <1>3, <1>4, <2>1
  <2> QED
    BY <1>2, <1>4, <2>2, <2>3
<1>9. CASE KeepsPaste(b)
  <2>1. PICK k \in 1..(Len(Grown(b)) + 1) :
           /\ hold' = [kind |-> "paste", bytes |-> SubSeq(Grown(b), k, Len(Grown(b)))]
           /\ passthrough' = passthrough \o SubSeq(Grown(b), 1, k - 1)
    BY <1>9 DEF KeepsPaste
  <2>2. HeldBytes = h /\ HeldBytes' = SubSeq(Grown(b), k, Len(Grown(b)))
    BY <1>4, <1>9, <2>1 DEF KeepsPaste, HeldBytes
  <2>3. /\ SubSeq(Grown(b), 1, k - 1) \in Seq(Byte)
        /\ SubSeq(Grown(b), k, Len(Grown(b))) \in Seq(Byte)
        /\ SubSeq(Grown(b), 1, k - 1) \o SubSeq(Grown(b), k, Len(Grown(b))) = Grown(b)
    BY <1>2, <1>3, From
  <2>4. PICK x \in Seq(Byte), y \in Seq(Byte) :
           x = SubSeq(Grown(b), 1, k - 1) /\ y = SubSeq(Grown(b), k, Len(Grown(b)))
    BY <2>3
  <2>5. (q \o x) \o y = q \o (x \o y)
    BY <1>1, ConcatAssociative
  <2>6. x \o y = Append(h, b) /\ passthrough' = q \o x /\ HeldBytes' = y
    BY <1>3, <1>4, <2>1, <2>2, <2>3, <2>4
  <2>7. passthrough' \o HeldBytes' = q \o Append(h, b)
    BY <2>5, <2>6
  <2> QED
    BY <1>2, <1>4, <2>2, <2>7
<1> QED
  BY <1>5, <1>6, <1>7, <1>8, <1>9

\* The splitter drops no byte of the user's.
LEMMA FeedDrops ==
  ASSUME BodyMax \in Nat \ {0, 1}, SplitterTyped, PlacesInv, NEW b, Feeds(b),
         Starts(b) \/ Reports(b) \/ EndsBody(b) \/ KeepsBody(b),
         NEW c \in BOOLEAN, cut => c
  PROVE  /\ passthrough' = passthrough /\ HeldBytes' = <<>>
         /\ b \notin UsersOf(c) /\ \A i \in 1..Len(HeldBytes) : HeldBytes[i] \notin UsersOf(c)
<1>1. passthrough' = passthrough /\ HeldBytes' = <<>>
  BY DEF Starts, Reports, EndsBody, KeepsBody, None, HeldBytes
<1>2. CASE EndsBody(b) \/ KeepsBody(b)
  <2>1. hold.kind \in {"body", "discard", "overflow"} /\ rest[1] = b
    BY <1>2 DEF EndsBody, KeepsBody, Feeds
  <2>2. b.owner \in {"packet", "overlong", "colour"} \/ (b.owner = "quoted" /\ c)
    BY <2>1 DEF PlacesInv, LostInv
  <2>3. HeldBytes = <<>>
    BY <2>1 DEF HeldBytes
  <2> QED
    BY <1>1, <2>2, <2>3 DEF UsersOf
<1>3. CASE Starts(b) \/ Reports(b)
  <2>1. hold.kind = "candidate" /\ Len(hold.bytes) # 1 /\ HeldBytes = hold.bytes
    BY <1>3 DEF Starts, Reports, HeldBytes
  <2>2. /\ Len(hold.bytes) \in 1..4 /\ Begun(hold.bytes)
        /\ \A i \in 1..Len(hold.bytes) :
              /\ hold.bytes[i].owner = b.owner
              /\ Spells(b.owner, Len(rest) + Len(hold.bytes) - i + 1, hold.bytes[i].symbol)
    BY <2>1, CandidateReads
  <2>3. b.owner \in {"packet", "overlong", "colour", "report", "answer"} \/ (b.owner = "quoted" /\ c)
    <3>1. CASE Starts(b)
      <4>1. hold'.kind \in {"body", "discard"}
        BY <3>1 DEF Starts
      <4>2. LostInv' /\ cut' = cut /\ (rest' # <<>> => rest'[1].owner = b.owner)
        BY FeedBodies, FeedPlaces DEF Feeds, PlacesInv
      <4> QED
        BY <4>1, <4>2 DEF LostInv
    <3>2. CASE Reports(b)
      <4>1. Len(hold.bytes) = 4 /\ hold.bytes[3].symbol = "?"
        BY <2>2, <3>2 DEF Reports, Begun
      <4>2. PICK r \in Nat \ {0} : r = Len(rest)
        BY FeedPlaces DEF PlacesInv
      <4>3. Spells(b.owner, r + 2, "?")
        <5>1. 3 \in 1..4 /\ r + 4 - 3 + 1 = r + 2
          BY <4>2
        <5>2. Spells(b.owner, r + 4 - 3 + 1, hold.bytes[3].symbol)
          BY <2>2, <4>1, <4>2, <5>1
        <5> QED
          BY <4>1, <5>1, <5>2
      <4> QED
        BY <4>3 DEF Spells
    <3> QED
      BY <1>3, <3>1, <3>2
  <2> QED
    BY <1>1, <2>1, <2>2, <2>3 DEF UsersOf
<1> QED
  BY <1>2, <1>3

LEMMA HeldTyped == ASSUME SplitterTyped PROVE HeldBytes \in Seq(Byte)
<1>1. hold.bytes \in Seq(Byte) /\ <<>> \in Seq(Byte)
  BY DEF SplitterTyped
<1> QED
  BY <1>1 DEF HeldBytes

LEMMA FeedFlows ==
  ASSUME BodyMax \in Nat \ {0, 1}, SplitterTyped, PlacesInv, NEW b, Feeds(b),
         NEW c \in BOOLEAN, cut => c, Flow(c)
  PROVE  Flow(c)'
<1> DEFINE q == passthrough \o HeldBytes
           S == UsersOf(c)
<1>1. /\ b \in Byte /\ rest \in Seq(Byte) /\ rest # <<>> /\ b = rest[1] /\ rest' = Tail(rest)
      /\ due' = due /\ passthrough \in Seq(Byte)
  BY DEF Feeds, SplitterTyped
<1>2. HeldBytes \in Seq(Byte) /\ q \in Seq(Byte) /\ Tail(rest) \in Seq(Byte)
  <2>1. HeldBytes \in Seq(Byte)
    BY HeldTyped
  <2> QED
    BY <1>1, <2>1, ConcatProperties, HeadTailProperties
<1>3. Append(q, b) \o Tail(rest) = q \o rest
  <2> HIDE DEF q
  <2> QED
    BY <1>1, <1>2, RestTail
<1>4. Within(q \o rest, S) = Within(due, S)
  BY DEF Flow
<1> HIDE DEF S
<1>5. Within((passthrough' \o HeldBytes') \o rest', S) = Within(q \o rest, S)
  <2>1. CASE \/ Begins(b) \/ Passes(b) \/ GoesOn(b) \/ Pastes(b) \/ Refuses(b)
             \/ EndsPaste(b) \/ KeepsPaste(b)
    <3>1. passthrough' \o HeldBytes' = Append(q, b)
      BY <2>1, FeedMoves
    <3> HIDE DEF q
    <3> QED
      BY <1>1, <1>3, <3>1
  <2>2. CASE Starts(b) \/ Reports(b) \/ EndsBody(b) \/ KeepsBody(b)
    <3>1. /\ passthrough' = passthrough /\ HeldBytes' = <<>>
          /\ b \notin S /\ \A i \in 1..Len(HeldBytes) : HeldBytes[i] \notin S
      BY <2>2, FeedDrops DEF S
    <3> DEFINE d == Append(HeldBytes, b)
    <3>2. d \in Seq(Byte) /\ \A i \in 1..Len(d) : d[i] \notin S
      BY <1>1, <1>2, <3>1, AppendProperties, LenProperties
    <3>3. Append(q, b) = passthrough \o d
      <4>1. PICK x \in Seq(Byte), y \in Seq(Byte) : x = passthrough /\ y = HeldBytes
        BY <1>1, <1>2
      <4>2. b \in Byte
        BY <1>1
      <4>3. x \o Append(y, b) = Append(x \o y, b)
        BY <4>2, ConcatAppend
      <4> QED
        BY <4>1, <4>3
    <3>4. passthrough' \o HeldBytes' = passthrough
      BY <1>1, <3>1, ConcatEmptySeq
    <3> HIDE DEF d
    <3>5. Within((passthrough \o d) \o Tail(rest), S) = Within(passthrough \o Tail(rest), S)
      <4>1. PICK x \in Seq(Byte), t \in Seq(Byte) : x = passthrough /\ t = Tail(rest)
        BY <1>1, <1>2
      <4>2. Within((x \o d) \o t, S) = Within(x \o t, S)
        BY <3>2, WithinDrops
      <4> QED
        BY <4>1, <4>2
    <3> HIDE DEF q
    <3> QED
      BY <1>1, <1>3, <3>3, <3>4, <3>5
  <2> QED
    BY <2>1, <2>2 DEF Feeds, Outcome
<1>6. Flow(c)' <=> Within((passthrough' \o HeldBytes') \o rest', S) = Within(due, S)
  BY <1>1 DEF Flow, S, UsersOf
<1> QED
  BY <1>4, <1>5, <1>6

LEMMA FeedKept ==
  ASSUME BodyMax \in Nat \ {0, 1}, SplitterTyped, PlacesInv, KeptInv, NEW b, Feeds(b)
  PROVE  KeptInv'
<1>1. cut' = cut
  BY DEF Feeds
<1>2. ASSUME NEW c \in BOOLEAN, cut => c PROVE Flow(c)'
  <2>1. Flow(c)
    BY <1>2 DEF KeptInv
  <2> QED
    BY <1>2, <2>1, FeedFlows
<1> QED
  BY <1>1, <1>2 DEF KeptInv

-----------------------------------------------------------------------------
(* The splitter: a hold expires, something is written *)

SplitInv == SplitterTyped /\ PlacesInv /\ LeakInv /\ KeptInv

\* Only what may be a report is dropped.
LEMMA ExpireIs ==
  ASSUME SplitterTyped, PlacesInv, Expire
  PROVE  /\ hold' = None /\ hold.kind \notin {"none", "paste"}
         /\ cut' = (cut \/ rest # <<>>) /\ UNCHANGED <<rest, items, sequences, due, packets>>
         /\ \/ passthrough' = passthrough \o HeldBytes
            \/ /\ hold.kind = "candidate" /\ passthrough' = passthrough
               /\ rest # <<>>
               /\ \A i \in 1..Len(hold.bytes) : hold.bytes[i].owner \in {"report", "answer"}
<1>1. /\ hold' = None /\ hold.kind \notin {"none", "paste"}
      /\ cut' = (cut \/ rest # <<>>) /\ UNCHANGED <<rest, items, sequences, due, packets>>
      /\ passthrough' = IF hold.kind = "candidate" /\ ~IsPrefix(ReportOpen, Symbols(hold.bytes))
                        THEN passthrough \o hold.bytes ELSE passthrough
  BY DEF Expire
<1>2. hold.bytes \in Seq(Byte) /\ passthrough \in Seq(Byte) /\ rest \in Seq(Byte)
  BY DEF SplitterTyped
<1>3. CASE hold.kind # "candidate"
  <2>1. HeldBytes = <<>> /\ passthrough' = passthrough
    BY <1>1, <1>3 DEF HeldBytes
  <2> QED
    BY <1>1, <1>2, <2>1, ConcatEmptySeq
<1>4. CASE hold.kind = "candidate" /\ ~IsPrefix(ReportOpen, Symbols(hold.bytes))
  <2>1. HeldBytes = hold.bytes
    BY <1>4 DEF HeldBytes
  <2> QED
    BY <1>1, <1>4, <2>1
<1>5. CASE hold.kind = "candidate" /\ IsPrefix(ReportOpen, Symbols(hold.bytes))
  <2>1. Len(hold.bytes) >= 3
    <3>1. Len(ReportOpen) <= Len(Symbols(hold.bytes))
      BY <1>5 DEF IsPrefix
    <3>2. Len(ReportOpen) = 3 /\ Len(Symbols(hold.bytes)) = Len(hold.bytes)
      BY <1>2, ShortWords, SymbolsOf
    <3> QED
      BY <3>1, <3>2
  <2>2. /\ Len(hold.bytes) \in 1..4 /\ hold.bytes[3].symbol = "?" /\ ItemHeld
    <3>1. Begun(hold.bytes) /\ (KeyHeld \/ ItemHeld)
      BY <1>5 DEF PlacesInv, HoldInv, CandInv
    <3> QED
      BY <2>1, <3>1 DEF Begun, KeyHeld
  <2>3. PICK r \in Nat \ {0}, n \in 3..4 : r = Len(rest) /\ n = Len(hold.bytes)
    <3>1. Len(rest) \in Nat /\ Len(rest) # 0
      BY <1>2, <2>2, LenProperties, EmptySeq DEF ItemHeld
    <3>2. Len(hold.bytes) \in 3..4
      BY <2>1, <2>2
    <3> QED
      BY <3>1, <3>2
  <2>4. /\ rest # <<>>
        /\ \A i \in 1..n : /\ hold.bytes[i].owner = rest[1].owner
                           /\ Spells(rest[1].owner, r + n - i + 1, hold.bytes[i].symbol)
    BY <2>2, <2>3 DEF ItemHeld
  <2>5. Spells(rest[1].owner, r + n - 3 + 1, "?") /\ r + n - 3 + 1 >= 2 /\ r + n - 3 + 1 \in Nat
    BY <2>2, <2>3, <2>4
  <2>6. rest[1].owner \in {"report", "answer"}
    BY <2>5 DEF Spells
  <2>7. passthrough' = passthrough
    BY <1>1, <1>5
  <2> QED
    BY <1>1, <1>5, <2>3, <2>4, <2>6, <2>7
<1> QED
  BY <1>3, <1>4, <1>5

LEMMA ExpireHolds ==
  ASSUME SplitInv, Expire
  PROVE  SplitInv'
<1>1. SplitterTyped /\ PlacesInv /\ LeakInv /\ KeptInv
  BY DEF SplitInv
<1>2. /\ hold' = None /\ hold.kind \notin {"none", "paste"}
      /\ cut' = (cut \/ rest # <<>>) /\ UNCHANGED <<rest, items, sequences, due, packets>>
      /\ \/ passthrough' = passthrough \o HeldBytes
         \/ /\ hold.kind = "candidate" /\ passthrough' = passthrough
            /\ rest # <<>>
            /\ \A i \in 1..Len(hold.bytes) : hold.bytes[i].owner \in {"report", "answer"}
  BY <1>1, ExpireIs
<1>3. hold'.kind = "none" /\ hold'.bytes = <<>> /\ HeldBytes' = <<>>
  BY <1>2 DEF None, HeldBytes
<1>4. /\ passthrough \in Seq(Byte) /\ HeldBytes \in Seq(Byte) /\ passthrough \o HeldBytes \in Seq(Byte)
      /\ rest \in Seq(Byte) /\ hold.bytes \in Seq(Byte)
  <2>1. passthrough \in Seq(Byte) /\ rest \in Seq(Byte) /\ hold.bytes \in Seq(Byte)
    BY <1>1 DEF SplitterTyped
  <2> QED
    BY <1>1, <2>1, HeldTyped, ConcatProperties
<1>5. SplitterTyped'
  <2>1. hold' \in [kind : Kinds, bytes : Seq(Byte)]
    BY <1>2 DEF None, Kinds
  <2>2. passthrough' \in Seq(Byte)
    BY <1>2, <1>4
  <2> QED
    BY <1>1, <1>2, <2>1, <2>2 DEF SplitterTyped
<1>6. PlacesInv'
  <2>1. HoldInv'
    BY <1>3 DEF HoldInv
  <2>2. PlaceInv'
    BY <1>1, <1>2 DEF PlacesInv, PlaceInv
  <2>3. CandInv' /\ LostInv'
    BY <1>3 DEF CandInv, LostInv
  <2>4. CleanInv'
    BY <1>2, <1>3 DEF CleanInv, AtKeys
  <2> QED
    BY <2>1, <2>2, <2>3, <2>4 DEF PlacesInv
<1>7. LeakInv'
  <2> SUFFICES ASSUME ~cut' PROVE LeakInv'
    BY DEF LeakInv
  <2>1. rest = <<>> /\ Clear(passthrough) /\ sequences = packets
    BY <1>1, <1>2 DEF LeakInv
  <2>2. Clear(HeldBytes)
    <3>1. CASE hold.kind = "candidate"
      <4>1. Len(hold.bytes) = 1 /\ hold.bytes[1].owner = "key" /\ HeldBytes = hold.bytes
        BY <1>1, <2>1, <3>1 DEF PlacesInv, CandInv, KeyHeld, ItemHeld, HeldBytes
      <4> QED
        BY <4>1 DEF Clear, Protocol
    <3>2. CASE hold.kind # "candidate"
      <4>1. HeldBytes = <<>>
        BY <1>2, <3>2 DEF HeldBytes
      <4> QED
        BY <4>1 DEF Clear
    <3> QED
      BY <3>1, <3>2
  <2>3. Clear(passthrough \o HeldBytes)
    BY <1>4, <2>1, <2>2, ClearConcat
  <2>4. Clear(passthrough')
    BY <1>2, <2>1, <2>3
  <2> QED
    BY <1>2, <1>3, <2>1, <2>4 DEF LeakInv, Clear
<1>8. ASSUME NEW c \in BOOLEAN, cut' => c PROVE Flow(c)'
  <2> DEFINE S == UsersOf(c)
  <2>1. Within((passthrough \o HeldBytes) \o rest, S) = Within(due, S)
    BY <1>1, <1>2, <1>8 DEF KeptInv, Flow
  <2>2. S' = S
    BY DEF UsersOf
  <2> HIDE DEF S
  <2>3. Within(passthrough' \o rest, S) = Within((passthrough \o HeldBytes) \o rest, S)
    <3>1. CASE passthrough' = passthrough \o HeldBytes
      BY <3>1
    <3>2. CASE /\ hold.kind = "candidate" /\ passthrough' = passthrough
               /\ \A i \in 1..Len(hold.bytes) : hold.bytes[i].owner \in {"report", "answer"}
      <4>1. \A i \in 1..Len(HeldBytes) : HeldBytes[i] \notin S
        BY <3>2 DEF HeldBytes, S, UsersOf
      <4>2. PICK x \in Seq(Byte), d \in Seq(Byte), t \in Seq(Byte) :
               x = passthrough /\ d = HeldBytes /\ t = rest
        BY <1>4
      <4>3. \A i \in 1..Len(d) : d[i] \notin S
        BY <4>1, <4>2
      <4>4. Within((x \o d) \o t, S) = Within(x \o t, S)
        BY <4>3, WithinDrops
      <4> QED
        BY <3>2, <4>2, <4>4
    <3> QED
      BY <1>2, <3>1, <3>2
  <2>4. passthrough' \o HeldBytes' = passthrough'
    BY <1>3, <1>5, ConcatEmptySeq DEF SplitterTyped
  <2>5. Flow(c)' <=> Within((passthrough' \o HeldBytes') \o rest', S) = Within(due', S)
    BY <2>2 DEF Flow, S
  <2> QED
    BY <1>2, <2>1, <2>3, <2>4, <2>5
<1>9. KeptInv'
  BY <1>8 DEF KeptInv
<1> QED
  BY <1>5, <1>6, <1>7, <1>9 DEF SplitInv

\* What is written is one item, to be read from its first byte on.
LEMMA WriteIs ==
  ASSUME BodyMax \in Nat \ {0, 1}, Hasty = FALSE, SplitterTyped,
         NEW item \in User \cup Terminal, Write(item)
  PROVE  LET o == item[1]
         IN  /\ rest = <<>> /\ UNCHANGED <<hold, passthrough, sequences, packets, cut>>
             /\ items' \in Nat /\ rest' \in Seq(Byte) /\ rest' # <<>>
             /\ Len(rest') = Lasts(o) /\ Lasts(o) \in Nat \ {0}
             /\ \A i \in 1..Len(rest') : rest'[i].owner = o /\ Spells(o, Len(rest') - i + 1, rest'[i].symbol)
             /\ rest'[1].owner = o /\ o \in Owner
             /\ due' = IF o \in {"key", "paste", "quoted"} THEN due \o rest' ELSE due
             /\ hold.kind = "candidate" => o = "key" /\ rest'[1].symbol = "x"
<1> DEFINE o == item[1]
           w == item[2]
           n == Len(w)
<1>1. /\ o \in Owner /\ Ahead(o, 0, w) /\ n = Lasts(o)
      /\ item \in User <=> o \in {"key", "paste", "quoted"}
      /\ w[1] = "E" \/ (o = "key" /\ w[1] = "x")
  BY Written
<1>2. /\ w \in Seq(Symbol) /\ n \in Nat \ {0}
      /\ \A i \in 1..n : Spells(o, 0 + n - i + 1, w[i])
  BY <1>1 DEF Ahead
<1>3. /\ rest = <<>> /\ items' = items + 1
      /\ hold.kind = "candidate" /\ w[1] = "E" => Hasty
      /\ rest' = [i \in DOMAIN w |-> [symbol |-> w[i], owner |-> o, item |-> items', at |-> i]]
      /\ due' = IF item \in User THEN due \o rest' ELSE due
      /\ UNCHANGED <<hold, passthrough, sequences, packets, cut>>
  BY DEF Write
<1> HIDE DEF o, w
<1>4. items' \in Nat
  BY <1>3 DEF SplitterTyped
<1>5. DOMAIN w = 1..n /\ \A i \in 1..n : w[i] \in Symbol /\ i \in Nat
  BY <1>2, ElementOfSeq, LenProperties
<1>6. /\ rest' \in Seq(Byte) /\ Len(rest') = n
      /\ \A i \in 1..n : rest'[i].owner = o /\ rest'[i].symbol = w[i]
  <2> DEFINE f == [i \in 1..n |-> [symbol |-> w[i], owner |-> o, item |-> items', at |-> i]]
  <2>1. \A i \in 1..n : [symbol |-> w[i], owner |-> o, item |-> items', at |-> i] \in Byte
    BY <1>1, <1>4, <1>5 DEF Byte
  <2>2. f \in [1..n -> Byte] /\ \A i \in 1..n : f[i].owner = o /\ f[i].symbol = w[i]
    BY <2>1
  <2>3. rest' = f
    BY <1>3, <1>5
  <2> HIDE DEF f
  <2>4. f \in Seq(Byte) /\ Len(f) = n
    BY <1>2, <2>2
  <2> QED
    BY <2>2, <2>3, <2>4
<1>7. rest' # <<>>
  BY <1>2, <1>6, EmptySeq
<1>8. 1 \in 1..n /\ \A i \in 1..n : 0 + n - i + 1 = n - i + 1
  BY <1>2
<1>9. \A i \in 1..n : Spells(o, n - i + 1, w[i])
  BY <1>2, <1>8
<1>10. rest'[1].owner = o /\ rest'[1].symbol = w[1]
  BY <1>6, <1>8
<1>11. hold.kind = "candidate" => o = "key" /\ rest'[1].symbol = "x"
  BY <1>1, <1>3, <1>10
<1>12. due' = IF o \in {"key", "paste", "quoted"} THEN due \o rest' ELSE due
  BY <1>1, <1>3
<1>13. \A i \in 1..Len(rest') : rest'[i].owner = o /\ Spells(o, Len(rest') - i + 1, rest'[i].symbol)
  BY <1>6, <1>9
<1>14. Len(rest') = Lasts(o) /\ Lasts(o) \in Nat \ {0}
  BY <1>1, <1>2, <1>6
<1>15. o = item[1]
  BY DEF o
<1> QED
  BY <1>1, <1>3, <1>4, <1>6, <1>7, <1>10, <1>11, <1>12, <1>13, <1>14, <1>15

LEMMA WritePlaces ==
  ASSUME BodyMax \in Nat \ {0, 1}, Hasty = FALSE, SplitterTyped, PlacesInv,
         NEW item \in User \cup Terminal, Write(item)
  PROVE  PlacesInv'
<1> DEFINE o == item[1]
<1>1. /\ rest = <<>> /\ UNCHANGED <<hold, cut>>
      /\ rest' # <<>> /\ Len(rest') = Lasts(o)
      /\ \A i \in 1..Len(rest') : rest'[i].owner = o /\ Spells(o, Len(rest') - i + 1, rest'[i].symbol)
      /\ rest'[1].owner = o /\ o \in Owner
      /\ hold.kind = "candidate" => o = "key" /\ rest'[1].symbol = "x"
  BY WriteIs
<1> HIDE DEF o
<1>2. HoldInv'
  BY <1>1 DEF PlacesInv, HoldInv
<1>3. PlaceInv'
  BY <1>1 DEF PlaceInv
<1>4. ASSUME hold.kind = "candidate" PROVE KeyHeld' /\ o = "key"
  <2>1. KeyHeld
    BY <1>1, <1>4 DEF PlacesInv, CandInv, ItemHeld
  <2> QED
    BY <1>1, <1>4, <2>1 DEF KeyHeld
<1>5. CandInv'
  BY <1>1, <1>4 DEF CandInv
<1>6. hold.kind \notin {"body", "discard", "overflow"}
  BY <1>1 DEF PlacesInv, LostInv
<1>7. LostInv'
  BY <1>1, <1>6 DEF LostInv
<1>8. CleanInv'
  <2> SUFFICES ASSUME ~cut PROVE CleanInv'
    BY <1>1 DEF CleanInv
  <2>1. hold.kind = "none" \/ hold.kind = "candidate"
    BY <1>1 DEF PlacesInv, CleanInv, AtKeys
  <2>2. CASE hold.kind = "candidate"
    <3>1. AtKeys' /\ o = "key"
      BY <1>1, <1>4, <2>2 DEF AtKeys
    <3> QED
      BY <1>1, <3>1 DEF CleanInv
  <2>3. CASE hold.kind = "none"
    <3>1. hold'.kind = "none"
      BY <1>1, <2>3
    <3>2. /\ o = "key" => AtKeys'
          /\ o = "paste" => AtPaste(Lasts(o), Len(hold.bytes))'
          /\ o = "quoted" => AtQuoted(Lasts(o), Len(hold.bytes))'
          /\ o = "packet" => AtPacket(Lasts(o), Len(hold.bytes))'
          /\ o = "overlong" => AtOverlong(Lasts(o), Len(hold.bytes))'
          /\ o = "colour" => AtColour(Lasts(o), Len(hold.bytes))'
          /\ o \in {"report", "answer"} => AtReport(Lasts(o), Len(hold.bytes))'
      BY <3>1 DEF AtKeys, AtPaste, AtQuoted, AtPacket, AtOverlong, AtColour, AtReport, Lasts
    <3> QED
      BY <1>1, <3>2 DEF CleanInv
  <2> QED
    BY <2>1, <2>2, <2>3
<1> QED
  BY <1>2, <1>3, <1>5, <1>7, <1>8 DEF PlacesInv

LEMMA WriteFlows ==
  ASSUME BodyMax \in Nat \ {0, 1}, Hasty = FALSE, SplitterTyped, PlacesInv,
         NEW item \in User \cup Terminal, Write(item), NEW c \in BOOLEAN, Flow(c)
  PROVE  Flow(c)'
<1> DEFINE o == item[1]
           S == UsersOf(c)
<1>1. /\ rest = <<>> /\ UNCHANGED <<hold, passthrough>> /\ rest' \in Seq(Byte)
      /\ \A i \in 1..Len(rest') : rest'[i].owner = o
      /\ due' = (IF o \in {"key", "paste", "quoted"} THEN due \o rest' ELSE due)
      /\ o \in Owner
  BY WriteIs
<1>2. passthrough \in Seq(Byte) /\ HeldBytes \in Seq(Byte) /\ due \in Seq(Byte)
  BY HeldTyped DEF SplitterTyped
<1>3. PICK q \in Seq(Byte) : q = passthrough \o HeldBytes
  BY <1>2, ConcatProperties
<1>4. PICK t \in Seq(Byte) : t = rest'
  BY <1>1
<1>5. PICK d \in Seq(Byte) : d = due
  BY <1>2
<1>6. passthrough' \o HeldBytes' = q
  BY <1>1, <1>3 DEF HeldBytes
<1>7. q \o rest = q
  BY <1>1, ConcatEmptySeq
<1>8. S' = S
  BY DEF UsersOf
<1>9. Within(q, S) = Within(d, S)
  BY <1>3, <1>5, <1>7 DEF Flow
<1>10. \A i \in 1..Len(t) : t[i].owner = o
  BY <1>1, <1>4
<1>11. o \notin {"key", "paste", "quoted"} => \A i \in 1..Len(t) : t[i] \notin S
  BY <1>10 DEF UsersOf
<1>12. Flow(c)' <=> Within(q \o t, S) = Within(due', S)
  BY <1>4, <1>6, <1>8 DEF Flow
<1> HIDE DEF o, S
<1>13. Splits(q, t, S) /\ Splits(d, t, S)
  BY WithinConcat
<1>14. Within(q \o t, S) = Within(due', S)
  <2>1. CASE o \in {"key", "paste", "quoted"}
    <3>1. due' = d \o t
      BY <1>1, <1>4, <1>5, <2>1
    <3> QED
      BY <1>9, <1>13, <3>1 DEF Splits
  <2>2. CASE o \notin {"key", "paste", "quoted"}
    <3>1. due' = d /\ Within(t, S) = <<>>
      <4>1. \A i \in 1..Len(t) : t[i] \notin S
        BY <1>11, <2>2 DEF o
      <4>2. Within(t, S) = <<>>
        BY <4>1, WithinNone
      <4> QED
        BY <1>1, <1>5, <2>2, <4>2
    <3>2. PICK v \in Seq(Byte) : v = Within(q, S)
      BY WithinSeq
    <3>3. v \o <<>> = v
      BY ConcatEmptySeq
    <3>4. Within(q \o t, S) = Within(q, S) \o Within(t, S)
      BY <1>13 DEF Splits
    <3>5. Within(q \o t, S) = v
      BY <3>1, <3>2, <3>3, <3>4
    <3> QED
      BY <1>9, <3>1, <3>2, <3>5
  <2> QED
    BY <2>1, <2>2
<1> QED
  BY <1>12, <1>14

LEMMA WriteHolds ==
  ASSUME BodyMax \in Nat \ {0, 1}, Hasty = FALSE, SplitInv,
         NEW item \in User \cup Terminal, Write(item)
  PROVE  SplitInv'
<1>1. SplitterTyped /\ PlacesInv /\ LeakInv /\ KeptInv
  BY DEF SplitInv
<1>2. /\ UNCHANGED <<hold, passthrough, sequences, packets, cut>>
      /\ items' \in Nat /\ rest' \in Seq(Byte)
      /\ due' = due \/ due' = due \o rest'
  BY <1>1, WriteIs
<1>3. SplitterTyped'
  <2>1. due' \in Seq(Byte)
    <3>1. PICK d \in Seq(Byte), t \in Seq(Byte) : d = due /\ t = rest'
      BY <1>1, <1>2 DEF SplitterTyped
    <3>2. d \o t \in Seq(Byte)
      BY ConcatProperties
    <3> QED
      BY <1>2, <3>1, <3>2
  <2> QED
    BY <1>1, <1>2, <2>1 DEF SplitterTyped
<1>4. PlacesInv'
  BY <1>1, WritePlaces
<1>5. LeakInv'
  <2>1. ~cut => /\ Clear(passthrough)' /\ sequences' = packets'
                /\ hold.kind = "paste" => Clear(hold.bytes)'
    <3>1. Clear(passthrough)' = Clear(passthrough) /\ Clear(hold.bytes)' = Clear(hold.bytes)
      BY <1>2 DEF Clear
    <3> QED
      BY <1>1, <1>2, <3>1 DEF LeakInv
  <2> QED
    BY <1>2, <2>1 DEF LeakInv
<1>6. ASSUME NEW c \in BOOLEAN, cut' => c PROVE Flow(c)'
  <2>1. Flow(c)
    BY <1>1, <1>2, <1>6 DEF KeptInv
  <2> QED
    BY <1>1, <2>1, WriteFlows
<1>7. KeptInv'
  BY <1>6 DEF KeptInv
<1> QED
  BY <1>3, <1>4, <1>5, <1>7 DEF SplitInv

LEMMA FeedKeepsAll ==
  ASSUME BodyMax \in Nat \ {0, 1}, SplitInv, Feed
  PROVE  SplitInv'
<1>1. SplitterTyped /\ PlacesInv /\ LeakInv /\ KeptInv /\ HoldInv
  BY DEF SplitInv, PlacesInv
<1>2. PICK b : Feeds(b)
  BY <1>1, FeedIs
<1>3. SplitterTyped'
  BY <1>1, <1>2, FeedTyped
<1>4. HoldInv' /\ PlaceInv'
  BY <1>1, <1>2, FeedHolds, FeedPlaces DEF PlacesInv
<1>5. CandInv' /\ LostInv'
  BY <1>1, <1>2, FeedCandidates, FeedBodies
<1>6. CleanInv'
  <2>1. CASE cut
    BY <1>2, <2>1 DEF CleanInv, Feeds
  <2>2. CASE ~cut
    BY <1>1, <1>2, <2>2, FeedClean
  <2> QED
    BY <2>1, <2>2
<1>7. LeakInv' /\ KeptInv'
  BY <1>1, <1>2, FeedLeaks, FeedKept
<1> QED
  BY <1>3, <1>4, <1>5, <1>6, <1>7 DEF SplitInv, PlacesInv

LEMMA SplitStarts == ASSUME Init PROVE SplitInv
<1>1. /\ hold = [kind |-> "none", bytes |-> <<>>] /\ rest = <<>> /\ items = 0
      /\ passthrough = <<>> /\ sequences = 0 /\ due = <<>> /\ packets = 0 /\ cut = FALSE
  BY DEF Init, None
<1>2. SplitterTyped
  <2>1. <<>> \in Seq(Byte) /\ "none" \in Kinds
    BY DEF Kinds
  <2>2. hold \in [kind : Kinds, bytes : Seq(Byte)]
    BY <1>1, <2>1
  <2> QED
    BY <1>1, <2>1, <2>2 DEF SplitterTyped
<1>3. PlacesInv
  BY <1>1 DEF PlacesInv, HoldInv, PlaceInv, CandInv, LostInv, CleanInv, AtKeys
<1>4. LeakInv
  BY <1>1 DEF LeakInv, Clear
<1>5. KeptInv
  <2>1. HeldBytes = <<>>
    BY <1>1 DEF HeldBytes
  <2>2. <<>> \in Seq(Byte)
    OBVIOUS
  <2>3. <<>> \o <<>> = <<>>
    BY <2>2, ConcatEmptySeq
  <2>4. (passthrough \o HeldBytes) \o rest = due
    BY <1>1, <2>1, <2>3
  <2> QED
    BY <2>4 DEF KeptInv, Flow
<1> QED
  BY <1>2, <1>3, <1>4, <1>5 DEF SplitInv

\* A splitter that runs keeps to its invariant.
LEMMA SplitRuns ==
  ASSUME BodyMax \in Nat \ {0, 1}, Hasty = FALSE, SplitInv, [Next]_vars
  PROVE  SplitInv'
<1>1. CASE Feed
  BY <1>1, FeedKeepsAll
<1>2. CASE Expire
  BY <1>2, ExpireHolds
<1>3. ASSUME NEW item \in User \cup Terminal, Write(item) PROVE SplitInv'
  BY <1>3, WriteHolds
<1>4. CASE UNCHANGED vars
  BY <1>4 DEF vars, SplitInv, SplitterTyped, PlacesInv, HoldInv, PlaceInv, CandInv, KeyHeld, ItemHeld,
       LostInv, CleanInv, AtKeys, AtPaste, AtQuoted, AtPacket, AtOverlong, AtColour, AtReport,
       LeakInv, Clear, KeptInv, Flow, HeldBytes
<1> QED
  BY <1>1, <1>2, <1>3, <1>4 DEF Next

LEMMA SplitShows == ASSUME SplitInv PROVE UserBytesKept /\ NothingLeaks
<1>1. SplitterTyped /\ LeakInv /\ KeptInv
  BY DEF SplitInv
<1>2. UserBytesKept
  <2>1. cut \in BOOLEAN
    BY <1>1 DEF SplitterTyped
  <2>2. Flow(cut)
    BY <1>1, <2>1 DEF KeptInv
  <2> QED
    BY <2>2 DEF UserBytesKept, Flow, UsersOf, HeldBytes
<1>3. NothingLeaks
  <2>1. DOMAIN passthrough = 1..Len(passthrough)
    BY <1>1, LenProperties DEF SplitterTyped
  <2> QED
    BY <1>1, <2>1 DEF NothingLeaks, LeakInv, Clear, Protocol
<1> QED
  BY <1>2, <1>3

LEMMA SplitAlways ==
  ASSUME BodyMax \in Nat \ {0, 1}, Hasty = FALSE
  PROVE  Spec => []SplitInv
<1>1. SplitInv /\ [Next]_vars => SplitInv'
  BY SplitRuns
<1> QED
  BY <1>1, SplitStarts, PTL DEF Spec

-----------------------------------------------------------------------------
(* The splitter: types *)

\* One more packet may still come of what is left to read: of a paste that quotes one, only
\* before it has been read.
MayComplete == rest # <<>> /\ (rest[1].owner = "quoted" => Len(rest) >= 4)

\* Every item gives at most one packet to the protocol machine and one report.
CountsInv ==
    /\ items <= MaxItems /\ reports \in Nat
    /\ sequences <= items /\ (MayComplete => sequences < items)
    /\ reports <= items /\ (rest # <<>> => reports < items)
    /\ packets <= items /\ (rest # <<>> => packets < items)
BodyInv == hold.kind = "body" => Len(hold.bytes) <= BodyMax

LEMMA BegunIsPartial ==
  ASSUME NEW s \in Seq(Byte), Begun(s)
  PROVE  Classify(Symbols(s)) = "partial"
<1>1. PICK u \in Seq(Symbol) : u = Symbols(s) /\ Len(u) = Len(s) /\ \A i \in 1..Len(s) : u[i] = s[i].symbol
  BY SymbolsOf
<1>2. Len(u) \in 1..4 /\ u[1] = "E"
      /\ (Len(u) >= 2 => u[2] \in {"]", "["})
      /\ (Len(u) >= 3 => u[2] = "[" /\ u[3] = "?")
      /\ (Len(u) = 4 => u[4] = "n")
  BY <1>1 DEF Begun
<1>3. CASE Len(u) = 1
  <2>1. u = <<"E">>  BY <1>2, <1>3, SpelledOne
  <2>2. Classify(<<"E">>) = "partial"
    BY DEF Classify, IsStrictPrefix, IsPrefix, SequencePrefix, ColorQueryPrefix, PasteOpen, Report
  <2> QED BY <1>1, <2>1, <2>2
<1>4. CASE Len(u) = 2
  <2>1. u = <<"E", u[2]>> /\ u[2] \in Symbol  BY <1>2, <1>4, SpelledTwo
  <2>2. Classify(<<"E", u[2]>>) = "partial"  BY <1>2, <1>4, <2>1, ClassifyTwo
  <2> QED BY <1>1, <2>1, <2>2
<1>5. CASE Len(u) = 3
  <2>1. u = <<"E", "[", "?">>  BY <1>2, <1>5, SpelledThree
  <2>2. Classify(<<"E", "[", "?">>) = "partial"
    <3>1. "?" \in Symbol  BY DEF Symbol
    <3> QED BY <3>1, ClassifyCsi
  <2> QED BY <1>1, <2>1, <2>2
<1>6. CASE Len(u) = 4
  <2>1. u = <<"E", "[", "?", "n">>  BY <1>2, <1>6, SpelledFour
  <2>2. Classify(<<"E", "[", "?", "n">>) = "partial"
    <3>1. "n" \in Symbol  BY DEF Symbol
    <3> QED BY <3>1, ClassifyFour
  <2> QED BY <1>1, <2>1, <2>2
<1> QED BY <1>2, <1>3, <1>4, <1>5, <1>6

\* A report is what a candidate of four bytes ends as, at the end of its item.
LEMMA FeedReports ==
  ASSUME SplitterTyped, PlacesInv, Feed, reports' # reports
  PROVE  reports' = reports + 1 /\ rest' = <<>>
<1>1. HoldInv  BY DEF PlacesInv
<1>2. PICK b : Feeds(b)  BY <1>1, FeedIs
<1>3. b \in Byte /\ b = Head(rest)
  <2>1. rest \in Seq(Byte) /\ rest # <<>> /\ b = rest[1] /\ b \in Byte  BY <1>2 DEF Feeds, SplitterTyped
  <2> QED BY <2>1, HeadTailProperties
<1>4. hold.kind = "candidate" /\ FeedCandidate(b)
  <2>1. (CASE hold.kind = "none" /\ b.symbol = "E" ->
                    hold' = Hold("candidate", <<b>>) /\ UNCHANGED <<passthrough, sequences, reports>>
          [] hold.kind = "none" /\ b.symbol # "E" ->
                    passthrough' = Append(passthrough, b) /\ UNCHANGED <<hold, sequences, reports>>
          [] hold.kind = "candidate" -> FeedCandidate(b)
          [] hold.kind = "paste" -> FeedPaste(b)
          [] OTHER -> FeedBody(b))
    BY <1>3 DEF Feed
  <2>2. hold.kind \in Kinds  BY DEF SplitterTyped
  <2>3. hold.kind # "none"  BY <2>1
  <2>4. hold.kind = "paste" => FALSE
    <3>1. hold.kind = "paste" => FeedPaste(b)  BY <2>1
    <3> QED BY <3>1 DEF FeedPaste
  <2>5. hold.kind \in {"body", "discard", "overflow"} => FALSE
    <3>1. hold.kind \in {"body", "discard", "overflow"} => FeedBody(b)  BY <2>1
    <3> QED BY <3>1 DEF FeedBody
  <2>6. hold.kind = "candidate"  BY <2>2, <2>3, <2>4, <2>5 DEF Kinds
  <2> QED BY <2>1, <2>6
<1>5. Begun(hold.bytes) /\ hold.bytes \in Seq(Byte)
  BY <1>4 DEF PlacesInv, HoldInv, SplitterTyped
<1>6. /\ Classify(Symbols(Append(hold.bytes, b))) = "report"
      /\ reports' = reports + 1
  BY <1>4 DEF FeedCandidate
<1>7. Len(hold.bytes) = 4 /\ b.symbol = "y"
  BY <1>3, <1>5, <1>6, VerdictIs
<1>8. Len(rest) \in Nat \ {0} /\ Spells(b.owner, Len(rest), "y") /\ ((rest' # <<>>) <=> Len(rest) > 1)
  BY <1>2, <1>7, FeedPlaces DEF PlacesInv
<1>9. Len(rest) = 1  BY <1>8 DEF Spells
<1> QED BY <1>6, <1>8, <1>9

LEMMA CountsFeed ==
  ASSUME BodyMax \in Nat \ {0, 1}, SplitterTyped, PlacesInv, CountsInv, BodyInv, Feed
  PROVE  CountsInv' /\ BodyInv'
<1>1. PICK b : Feeds(b)  BY FeedIs DEF PlacesInv
<1>2. PICK r, n : r = Len(rest) /\ n = Len(hold.bytes) /\ Reading(b, r, n)
  BY <1>1, FeedReads
<1>3. Effect(b, n)  BY <1>2, FeedLeaves DEF PlacesInv
<1>4. /\ r \in Nat \ {0} /\ n \in Nat /\ Len(rest') = r - 1 /\ Spells(b.owner, r, b.symbol)
      /\ (rest' # <<>>) <=> r > 1
      /\ rest' # <<>> => rest'[1].owner = b.owner
      /\ rest # <<>> /\ rest[1] = b /\ items' = items
      /\ packets' = IF b.owner = "packet" /\ rest' = <<>> THEN packets + 1 ELSE packets
  BY <1>1, <1>2 DEF Reading, Feeds
<1>5. items \in Nat /\ sequences \in Nat /\ packets \in Nat /\ reports \in Nat
  BY DEF SplitterTyped, CountsInv
<1>6. MayComplete' => MayComplete  BY <1>2, <1>4 DEF MayComplete
<1>7. sequences' <= items' /\ (MayComplete' => sequences' < items')
  <2>1. CASE sequences' = sequences
    BY <1>4, <1>5, <1>6, <2>1 DEF CountsInv
  <2>2. CASE sequences' # sequences
    <3>1. hold.kind = "body" /\ hold'.kind = "none" /\ sequences' = sequences + 1
      BY <1>3, <2>2 DEF Effect
    <3>2. b.symbol \in {"T", "S"}
      BY <1>3, <3>1 DEF Effect, Leaves
    <3>3. \/ b.owner = "quoted" /\ r \in {4, 5}
          \/ b.owner = "packet" /\ r \in 1..3
          \/ b.owner = "overlong" /\ r \in 1..(BodyMax + 2)
          \/ b.owner = "colour" /\ r \in {1, 2}
      BY <1>2, <1>4, <3>1 DEF PlacesInv, LostInv
    <3>4. (b.owner = "quoted" /\ r = 4) \/ (b.owner # "quoted" /\ r = 1)
      BY <1>4, <3>2, <3>3 DEF Spells
    <3>5. MayComplete
      BY <1>2, <1>4, <3>4 DEF MayComplete
    <3>6. ~MayComplete'
      <4>1. CASE b.owner # "quoted"
        <5>1. r = 1  BY <3>4, <4>1
        <5>2. rest' = <<>>  BY <1>4, <5>1
        <5> QED BY <5>2 DEF MayComplete
      <4>2. CASE b.owner = "quoted"
        <5>1. r = 4  BY <3>4, <4>2
        <5>2. rest' # <<>> /\ rest'[1].owner = "quoted" /\ Len(rest') = 3  BY <1>4, <4>2, <5>1
        <5> QED BY <5>2 DEF MayComplete
      <4> QED BY <4>1, <4>2
    <3> QED BY <1>4, <1>5, <3>1, <3>5, <3>6 DEF CountsInv
  <2> QED BY <2>1, <2>2
<1>8. reports' \in Nat /\ reports' <= items' /\ (rest' # <<>> => reports' < items')
  <2>1. CASE reports' = reports
    BY <1>4, <1>5, <2>1 DEF CountsInv
  <2>2. CASE reports' # reports
    BY <1>4, <1>5, <2>2, FeedReports DEF CountsInv
  <2> QED BY <2>1, <2>2
<1>9. packets' <= items' /\ (rest' # <<>> => packets' < items')
  BY <1>4, <1>5 DEF CountsInv
<1>10. BodyInv'
  <2> SUFFICES ASSUME hold'.kind = "body" PROVE Len(hold'.bytes) <= BodyMax
    BY DEF BodyInv
  <2>1. hold.kind \in Kinds  BY DEF SplitterTyped
  <2>2. CASE hold.kind = "candidate"
    BY <1>3, <2>2 DEF Effect, Leaves
  <2>3. CASE hold.kind \in {"body", "discard", "overflow"}
    BY <1>3, <1>4, <2>3 DEF Effect, Leaves
  <2>4. CASE hold.kind \in {"none", "paste"}
    BY <1>3, <2>4 DEF Effect, Leaves
  <2> QED BY <2>1, <2>2, <2>3, <2>4 DEF Kinds
<1> QED BY <1>4, <1>7, <1>8, <1>9, <1>10 DEF CountsInv

LEMMA CountsStep ==
  ASSUME BodyMax \in Nat \ {0, 1}, MaxItems \in Nat, SplitterTyped, PlacesInv, CountsInv, BodyInv,
         [Next]_vars
  PROVE  CountsInv' /\ BodyInv'
<1>1. CASE Feed  BY <1>1, CountsFeed
<1>2. CASE Expire
  <2>1. hold'.kind = "none" /\ UNCHANGED <<rest, items, sequences, reports, packets>>
    BY <1>2 DEF Expire, None
  <2> QED BY <2>1 DEF CountsInv, BodyInv, MayComplete
<1>3. ASSUME NEW item \in User \cup Terminal, Write(item) PROVE CountsInv' /\ BodyInv'
  <2>1. /\ items' = items + 1 /\ items < MaxItems
        /\ UNCHANGED <<hold, sequences, reports, packets>>
    BY <1>3 DEF Write
  <2>2. items \in Nat /\ sequences \in Nat /\ packets \in Nat  BY DEF SplitterTyped
  <2> QED BY <2>1, <2>2 DEF CountsInv, BodyInv
<1>4. CASE UNCHANGED vars
  BY <1>4 DEF vars, CountsInv, BodyInv, MayComplete
<1> QED BY <1>1, <1>2, <1>3, <1>4 DEF Next

\* The types of the splitter, for any number of items and any length of a body.
LEMMA SplitterTypes ==
  ASSUME BodyMax \in Nat \ {0, 1}, MaxItems \in Nat, Hasty = FALSE
  PROVE  Spec => []TypeOK
<1>1. Init => CountsInv /\ BodyInv
  BY DEF Init, None, CountsInv, BodyInv, MayComplete
<1>2. SplitInv /\ CountsInv /\ BodyInv /\ [Next]_vars => CountsInv' /\ BodyInv'
  BY CountsStep DEF SplitInv
<1>3. SplitInv /\ CountsInv /\ BodyInv => TypeOK
  <2> SUFFICES ASSUME SplitInv, CountsInv, BodyInv PROVE TypeOK  OBVIOUS
  <2>1. /\ hold.kind \in Kinds /\ hold.bytes \in Seq(Byte) /\ items \in Nat /\ sequences \in Nat
        /\ packets \in Nat /\ cut \in BOOLEAN /\ reports \in Nat /\ items <= MaxItems
    BY DEF SplitInv, SplitterTyped, CountsInv
  <2>2. hold.kind = "none" => hold.bytes = <<>>
    BY DEF SplitInv, PlacesInv, HoldInv
  <2>3. hold.kind = "candidate" => Classify(Symbols(hold.bytes)) = "partial"
    BY <2>1, BegunIsPartial DEF SplitInv, PlacesInv, HoldInv
  <2>4. {sequences, reports, packets, items} \subseteq 0..MaxItems
    BY <2>1 DEF CountsInv
  <2> QED BY <2>1, <2>2, <2>3, <2>4 DEF TypeOK, Kinds, BodyInv
<1> QED BY <1>1, <1>2, <1>3, SplitAlways, PTL DEF Spec

-----------------------------------------------------------------------------
(* The theorems *)

\* Whatever is typed, pasted and written by the terminal, and whenever a hold expires, the
\* user's bytes come out, all of them and in their order.
THEOREM UserBytesComeOut ==
  ASSUME BodyMax \in Nat \ {0, 1}, Hasty = FALSE
  PROVE  Spec => []UserBytesKept
<1>1. SplitInv => UserBytesKept
  BY SplitShows
<1> QED
  BY <1>1, SplitAlways, PTL

\* On a steady link none of the protocol's bytes reach the key reader, and every packet
\* reaches the protocol machine.
THEOREM ProtocolStaysInside ==
  ASSUME BodyMax \in Nat \ {0, 1}, Hasty = FALSE
  PROVE  Spec => []NothingLeaks
<1>1. SplitInv => NothingLeaks
  BY SplitShows
<1> QED
  BY <1>1, SplitAlways, PTL

=============================================================================
