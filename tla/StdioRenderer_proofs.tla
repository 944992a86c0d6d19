------------------------ MODULE StdioRenderer_proofs -------------------------
(* Theorems about StdioRenderer, for any number of turns, messages and deltas. *)
EXTENDS StdioRenderer, DataInduction, TLAPS

-----------------------------------------------------------------------------
(* The invariants *)

Own == {"ok", "error"}
Results == Own \cup {"aborted_tools", "aborted_streaming"}
TypeInv ==
    /\ phase \in Phases /\ results \in Seq(Results)
    /\ turns \in Nat /\ calls \in Nat /\ pending \in Nat
FlagsInv == aborted \in BOOLEAN /\ rendered \in BOOLEAN /\ lastError \in BOOLEAN

\* What the renderer knows of the tools is what the turn has open.
ToolsInv ==
    StreamJson =>
        /\ phase \in {"streaming", "final"} => pending = 0 /\ ~aborted
        /\ phase = "tools" => pending > 0 /\ pending = calls /\ ~aborted
        /\ phase = "cut" => aborted

\* The ledger of the results, phase by phase.
ResultInv ==
    /\ \A i, j \in DOMAIN results : results[i] \in Own /\ results[j] \in Own => i = j
    /\ phase \in {"streaming", "tools", "cut", "final", "broken"} => results = <<>>
    /\ phase \in {"idle", "broken"} => ~rendered
    /\ phase \in {"failing", "tail"} => rendered /\ results # <<>>
    /\ phase = "idle" /\ turns > 0 => results # <<>>

\* The exit code is that of the last result, and before the first one it is 0.
ExitInv ==
    /\ phase \in {"idle", "failing", "tail"} /\ results # <<>> =>
          (exit = "failure" <=> results[Len(results)] = "error")
    /\ ~StreamJson /\ results = <<>> => exit = "ok"

Inv == TypeInv /\ FlagsInv /\ ToolsInv /\ ResultInv /\ ExitInv

-----------------------------------------------------------------------------
(* Steps *)

LEMMA Started ==
  ASSUME Init
  PROVE  Inv
<1>1. phase = "idle" /\ turns = 0 /\ results = <<>> /\ exit = "ok" /\ ~rendered
  BY DEF Init
<1>2. TypeInv
  BY DEF Init, TypeInv, Phases
<1>3. FlagsInv
  BY DEF Init, FlagsInv
<1> QED
  BY <1>1, <1>2, <1>3 DEF Inv, ToolsInv, ResultInv, ExitInv

LEMMA TypeStep ==
  ASSUME TypeInv, [Next]_vars
  PROVE  TypeInv'
<1> USE DEF TypeInv, Phases, mode
<1>1. CASE TurnStarted
  BY <1>1 DEF TurnStarted, ResetLedger
<1>2. CASE ErrorEvent
  <2>1. results' \in Seq(Results) /\ turns' \in Nat
    <3>1. CASE phase = "failing"
      BY <1>2, <3>1 DEF ErrorEvent
    <3>2. CASE phase = "idle"
      BY <1>2, <3>2 DEF ErrorEvent, NewTurn
    <3> QED
      BY <1>2, <3>1, <3>2 DEF ErrorEvent
  <2>2. phase' \in Phases
    BY <1>2 DEF ErrorEvent
  <2> QED
    BY <1>2, <2>1, <2>2 DEF ErrorEvent
<1>3. CASE Done
  <2>1. "error" \in Results
    BY DEF Results, Own
  <2> QED
    BY <1>3, <2>1 DEF Done, ResetLedger
<1>4. CASE Interrupted
  <2>1. Reason \in Results
    BY DEF Reason, Results
  <2> QED
    BY <1>4, <2>1 DEF Interrupted, ResetLedger
<1>5. CASE ToolResultTurn
  BY <1>5 DEF ToolResultTurn, ToolResult
<1>6. CASE CutToolResult
  BY <1>6 DEF CutToolResult, ToolResult
<1>7. ASSUME NEW k \in Kinds, NEW final \in BOOLEAN, Delta(k, final) PROVE TypeInv'
  BY <1>7 DEF Delta
<1>8. ASSUME NEW tools \in 0..2, AssistantTurn(tools) PROVE TypeInv'
  BY <1>8 DEF AssistantTurn
<1>9. ASSUME NEW ok \in BOOLEAN, TurnResult(ok) PROVE TypeInv'
  <2>1. (IF ok THEN "ok" ELSE "error") \in Results
    BY DEF Results, Own
  <2>2. results' \in Seq(Results)
    BY <1>9, <2>1 DEF TurnResult
  <2> QED
    BY <1>9, <2>2 DEF TurnResult, NewTurn
<1>10. CASE UNCHANGED vars
  BY <1>10 DEF vars
<1> QED
  BY <1>1, <1>2, <1>3, <1>4, <1>5, <1>6, <1>7, <1>8, <1>9, <1>10 DEF Next

LEMMA FlagsStep ==
  ASSUME FlagsInv, [Next]_vars
  PROVE  FlagsInv'
<1> USE DEF FlagsInv, mode
<1>1. CASE TurnStarted
  BY <1>1 DEF TurnStarted, ResetLedger
<1>2. CASE ErrorEvent
  BY <1>2 DEF ErrorEvent
<1>3. CASE Done
  BY <1>3 DEF Done, ResetLedger
<1>4. CASE Interrupted
  BY <1>4 DEF Interrupted, ResetLedger
<1>5. CASE ToolResultTurn
  BY <1>5 DEF ToolResultTurn, ToolResult
<1>6. CASE CutToolResult
  BY <1>6 DEF CutToolResult, ToolResult
<1>7. ASSUME NEW k \in Kinds, NEW final \in BOOLEAN, Delta(k, final) PROVE FlagsInv'
  BY <1>7 DEF Delta
<1>8. ASSUME NEW tools \in 0..2, AssistantTurn(tools) PROVE FlagsInv'
  BY <1>8 DEF AssistantTurn
<1>9. ASSUME NEW ok \in BOOLEAN, TurnResult(ok) PROVE FlagsInv'
  BY <1>9 DEF TurnResult
<1>10. CASE UNCHANGED vars
  BY <1>10 DEF vars
<1> QED
  BY <1>1, <1>2, <1>3, <1>4, <1>5, <1>6, <1>7, <1>8, <1>9, <1>10 DEF Next

LEMMA ToolsStep ==
  ASSUME TypeInv, FlagsInv, ToolsInv, [Next]_vars
  PROVE  ToolsInv'
<1> USE DEF TypeInv, FlagsInv, ToolsInv, StreamJson, mode
<1>1. CASE TurnStarted
  BY <1>1 DEF TurnStarted
<1>2. CASE ErrorEvent
  BY <1>2 DEF ErrorEvent
<1>3. CASE Done
  BY <1>3 DEF Done
<1>4. CASE Interrupted
  BY <1>4 DEF Interrupted
<1>5. CASE ToolResultTurn
  BY <1>5 DEF ToolResultTurn, ToolResult
<1>6. CASE CutToolResult
  BY <1>6 DEF CutToolResult, ToolResult
<1>7. ASSUME NEW k \in Kinds, NEW final \in BOOLEAN, Delta(k, final) PROVE ToolsInv'
  BY <1>7 DEF Delta
<1>8. ASSUME NEW tools \in 0..2, AssistantTurn(tools) PROVE ToolsInv'
  BY <1>8 DEF AssistantTurn
<1>9. ASSUME NEW ok \in BOOLEAN, TurnResult(ok) PROVE ToolsInv'
  BY <1>9 DEF TurnResult
<1>10. CASE UNCHANGED vars
  BY <1>10 DEF vars
<1> QED
  BY <1>1, <1>2, <1>3, <1>4, <1>5, <1>6, <1>7, <1>8, <1>9, <1>10 DEF Next

\* A result is added behind the others.
LEMMA Appended ==
  ASSUME NEW s \in Seq(Results), NEW r \in Results
  PROVE  /\ Append(s, r) # <<>> /\ Append(s, r)[Len(Append(s, r))] = r
         /\ DOMAIN Append(s, r) = DOMAIN s \cup {Len(s) + 1}
         /\ \A i \in DOMAIN s : Append(s, r)[i] = s[i]
OBVIOUS

LEMMA ResultStep ==
  ASSUME TypeInv, FlagsInv, ResultInv, ExitInv, ~Over, [Next]_vars
  PROVE  ResultInv' /\ ExitInv'
<1> USE DEF TypeInv, FlagsInv, ResultInv, ExitInv, StreamJson, mode
<1>1. CASE TurnStarted
  BY <1>1 DEF TurnStarted, ResetLedger, Over
<1>2. CASE ErrorEvent
  BY <1>2 DEF ErrorEvent, NewTurn, Over
<1>3. CASE Done
  <2>1. CASE rendered
    BY <1>3, <2>1 DEF Done, ResetLedger
  <2>2. CASE ~rendered
    <3>1. results' = <<"error">> /\ exit' = "failure" /\ ~rendered' /\ phase' = "idle"
      BY <1>3, <2>2 DEF Done, ResetLedger
    <3> QED
      BY <3>1
  <2> QED
    BY <2>1, <2>2
<1>4. CASE Interrupted
  <2>1. Reason \in Results \ Own
    BY DEF Reason, Results, Own
  <2>2. results' = Append(results, Reason) /\ exit' = "ok" /\ ~rendered' /\ phase' = "idle"
    BY <1>4 DEF Interrupted, ResetLedger
  <2> QED
    BY <2>1, <2>2, Appended DEF Own
<1>5. CASE ToolResultTurn
  BY <1>5 DEF ToolResultTurn
<1>6. CASE CutToolResult
  BY <1>6 DEF CutToolResult
<1>7. ASSUME NEW k \in Kinds, NEW final \in BOOLEAN, Delta(k, final)
      PROVE  ResultInv' /\ ExitInv'
  BY <1>7 DEF Delta
<1>8. ASSUME NEW tools \in 0..2, AssistantTurn(tools) PROVE ResultInv' /\ ExitInv'
  BY <1>8 DEF AssistantTurn
<1>9. ASSUME NEW ok \in BOOLEAN, TurnResult(ok) PROVE ResultInv' /\ ExitInv'
  <2>1. results' = <<IF ok THEN "ok" ELSE "error">>
    <3>1. (IF phase = "idle" THEN <<>> ELSE results) = <<>>
      BY <1>9 DEF TurnResult
    <3>2. results' = Append(<<>>, IF ok THEN "ok" ELSE "error")
      BY <1>9, <3>1 DEF TurnResult
    <3> QED
      BY <3>2
  <2>2. phase' \in {"tail", "failing"} /\ rendered'
    BY <1>9 DEF TurnResult
  <2>3. exit' = "failure" <=> ~ok
    BY <1>9 DEF TurnResult, Over
  <2> QED
    BY <2>1, <2>2, <2>3
<1>10. CASE UNCHANGED vars
  BY <1>10 DEF vars
<1> QED
  BY <1>1, <1>2, <1>3, <1>4, <1>5, <1>6, <1>7, <1>8, <1>9, <1>10 DEF Next

LEMMA Invariant == Spec => []Inv
<1>1. Inv /\ [Next]_vars => Inv'
  <2> SUFFICES ASSUME Inv, [Next]_vars PROVE Inv'
    OBVIOUS
  <2>1. CASE UNCHANGED vars
    BY <2>1 DEF vars, Inv, TypeInv, FlagsInv, ToolsInv, ResultInv, ExitInv, StreamJson
  <2>2. CASE Next
    BY <2>2, TypeStep, FlagsStep, ToolsStep, ResultStep DEF Inv, Next
  <2> QED
    BY <2>1, <2>2
<1> QED
  BY <1>1, Started, PTL DEF Spec

-----------------------------------------------------------------------------
(* Reading frames *)

Readers == [place : {"outside", "message", "block", "lost"}, msg : Nat, next : Nat, last : Nat]
FrameKinds == {"message_start", "block_start", "delta", "block_stop", "message_delta",
               "message_stop", "assistant", "result", "tool_result"}
Frames == [kind : FrameKinds, at : Nat]

\* The recursion of ReadFrames, as a relation.
Follows(r, at, s) == r[0] = at /\ \A i \in 1..Len(s) : r[i] = Read(r[i - 1], s[i])

\* Where the reader is when the stream is s.
At(at, s) ==
    /\ at \in Readers /\ at.place # "lost" /\ at.last = 0
    /\ s.id = 0 => at.place = "outside"
    /\ s.id # 0 => at.msg = s.id /\ at.next = s.next
    /\ s.id # 0 /\ s.block = "none" => at.place = "message"
    /\ s.id # 0 /\ s.block # "none" => at.place = "block" /\ s.index = s.next - 1 /\ s.next > 0

Streams == [id : Nat, block : Kinds \cup {"none"}, index : Nat, next : Nat]
StreamInv ==
    /\ stream \in Streams /\ minted \in Nat
    /\ stream.id = 0 => stream = Closed
    /\ stream.id # 0 => StreamJson /\ phase \in {"streaming", "cut"}

\* The frames to which the next ones are added.
Base == IF Ended THEN <<>> ELSE out

NestInv ==
    /\ StreamInv /\ out \in Seq(Frames)
    /\ At(ReadFrames(Fresh, Base), stream)
    /\ FramesNest

LEMMA ReadStays ==
  ASSUME NEW at \in Readers, NEW f \in Frames
  PROVE  Read(at, f) \in Readers
<1>1. /\ f.at \in Nat /\ at.next \in Nat /\ at.msg \in Nat /\ at.last \in Nat
      /\ at.next + 1 \in Nat /\ 0 \in Nat
  BY DEF Readers, Frames
<1>2. ASSUME NEW p \in {"outside", "message", "block", "lost"}, NEW m \in Nat, NEW n \in Nat,
             NEW l \in Nat
      PROVE  Reader(p, m, n, l) \in Readers
  BY DEF Readers, Reader
<1> QED BY <1>1, <1>2 DEF Read

LEMMA ReadFramesRuns ==
  ASSUME NEW at \in Readers, NEW s \in Seq(Frames)
  PROVE  \E r \in [0..Len(s) -> Readers] :
           Follows(r, at, s) /\ ReadFrames(at, s) = r[Len(s)]
<1> DEFINE n == Len(s)
           step == [p \in (1..n) \X Readers |-> Read(p[2], s[p[1]])]
           Body(k) == [i \in 0..n |-> IF i = 0 THEN at ELSE Read(k[i - 1], s[i])]
           g == CHOOSE k : k = Body(k)
<1>1. n \in Nat /\ \A i \in 1..n : s[i] \in Frames
  BY ElementOfSeq, LenProperties
<1>2. step \in [(1..n) \X Readers -> Readers]
  <2>1. ASSUME NEW p \in (1..n) \X Readers
        PROVE  Read(p[2], s[p[1]]) \in Readers
    <3>1. p[1] \in 1..n /\ p[2] \in Readers  OBVIOUS
    <3>2. s[p[1]] \in Frames  BY <1>1, <3>1
    <3> QED BY <3>1, <3>2, ReadStays
  <2> QED BY <2>1
<1>4. PICK f \in [0..n -> Readers] : Runs(f, n, at, step)
  <2> HIDE DEF step, n
  <2> QED BY <1>1, <1>2, Recursion
<1>5. \A i \in 1..n : f[i] = Read(f[i - 1], s[i])
  <2> SUFFICES ASSUME NEW i \in 1..n PROVE f[i] = Read(f[i - 1], s[i])
    OBVIOUS
  <2>1. f[i] = step[<<i, f[i - 1]>>]  BY <1>4 DEF Runs
  <2>2. i - 1 \in 0..n /\ f[i - 1] \in Readers
    <3>1. n \in Nat  BY <1>1
    <3> HIDE DEF n
    <3>2. i - 1 \in 0..n  BY <3>1
    <3> QED BY <3>2, <1>4
  <2>3. <<i, f[i - 1]>> \in (1..n) \X Readers  BY <2>2
  <2> HIDE DEF n
  <2> QED BY <2>1, <2>3
<1>6. f = Body(f)
  <2>1. f[0] = at  BY <1>4 DEF Runs
  <2>2. \A i \in 0..n : f[i] = Body(f)[i]
    <3> SUFFICES ASSUME NEW i \in 0..n PROVE f[i] = Body(f)[i]
      OBVIOUS
    <3>1. CASE i = 0  BY <2>1, <3>1
    <3>2. CASE i # 0
      <4>1. i \in 1..n  BY <1>1, <3>2
      <4> HIDE DEF n
      <4> QED BY <1>5, <3>2, <4>1
    <3> QED BY <3>1, <3>2
  <2> HIDE DEF n
  <2>3. f \in [0..n -> Readers] /\ DOMAIN Body(f) = 0..n /\ Body(f) = [i \in 0..n |-> Body(f)[i]]
    BY <1>4
  <2>4. f = [i \in 0..n |-> f[i]]  BY <1>4
  <2> HIDE DEF Body
  <2> QED BY <2>2, <2>3, <2>4
<1>7. g = Body(g)
  <2> HIDE DEF Body
  <2> QED BY <1>6
<1>8. ReadFrames(at, s) = g[n]
  BY DEF ReadFrames
<1>9. \A i \in 0..n : g[i] = f[i]
  <2> DEFINE P == {i \in Nat : i <= n => g[i] = f[i]}
  <2>1. 0 \in P
    <3>1. Body(g)[0] = at
      <4> HIDE DEF g
      <4> QED BY <1>1
    <3> HIDE DEF Body, g
    <3> QED BY <1>4, <1>7, <3>1 DEF Runs
  <2>2. ASSUME NEW i \in Nat, i \in P PROVE i + 1 \in P
    <3> SUFFICES ASSUME i + 1 <= n PROVE g[i + 1] = f[i + 1]
      OBVIOUS
    <3>1. i + 1 \in 1..n /\ i + 1 # 0 /\ (i + 1) - 1 = i /\ i <= n  BY <1>1
    <3>2. Body(g)[i + 1] = Read(g[i], s[i + 1])
      <4> HIDE DEF g, n
      <4> QED BY <3>1
    <3>3. f[i + 1] = Read(f[i], s[i + 1])
      <4> HIDE DEF n
      <4> QED BY <1>5, <3>1
    <3> HIDE DEF Body, g, n
    <3> QED BY <2>2, <3>1, <3>2, <3>3, <1>7
  <2>3. Nat \subseteq P
    <3> HIDE DEF P
    <3> QED BY <2>1, <2>2, SetInduction
  <2> HIDE DEF g
  <2> QED BY <2>3, <1>1
<1>10. ReadFrames(at, s) = f[n]
  <2> HIDE DEF g, n
  <2> QED BY <1>1, <1>8, <1>9
<1>11. Follows(f, at, s)
  BY <1>4, <1>5 DEF Follows, Runs
<1> QED BY <1>10, <1>11

LEMMA ReadAppend ==
  ASSUME NEW at \in Readers, NEW s \in Seq(Frames), NEW f \in Frames
  PROVE  ReadFrames(at, Append(s, f)) = Read(ReadFrames(at, s), f)
<1> DEFINE n == Len(s)
<1>1. /\ n \in Nat /\ Append(s, f) \in Seq(Frames) /\ Len(Append(s, f)) = n + 1
      /\ Append(s, f)[n + 1] = f /\ \A i \in 1..n : Append(s, f)[i] = s[i]
  BY AppendProperties, LenProperties
<1>2. PICK r \in [0..n -> Readers] : Follows(r, at, s) /\ ReadFrames(at, s) = r[n]
  BY ReadFramesRuns
<1>3. PICK q \in [0..(n + 1) -> Readers] :
        Follows(q, at, Append(s, f)) /\ ReadFrames(at, Append(s, f)) = q[n + 1]
  <2> HIDE DEF n
  <2> QED BY <1>1, ReadFramesRuns
<1>4. /\ r[0] = at /\ \A i \in 1..n : r[i] = Read(r[i - 1], s[i])
      /\ q[0] = at /\ \A i \in 1..n : q[i] = Read(q[i - 1], s[i])
      /\ q[n + 1] = Read(q[(n + 1) - 1], f)
  <2>1. \A i \in 1..n : i \in 1..(n + 1)  BY <1>1
  <2>2. n + 1 \in 1..(n + 1)  BY <1>1
  <2> HIDE DEF n
  <2>3. /\ r[0] = at /\ \A i \in 1..Len(s) : r[i] = Read(r[i - 1], s[i])
        /\ q[0] = at /\ \A i \in 1..(n + 1) : q[i] = Read(q[i - 1], Append(s, f)[i])
    BY <1>1, <1>2, <1>3 DEF Follows
  <2> QED BY <1>1, <2>1, <2>2, <2>3 DEF n
<1> DEFINE P == {i \in Nat : i <= n => r[i] = q[i]}
<1> HIDE DEF n
<1>5. 0 \in P  BY <1>4
<1>6. ASSUME NEW i \in Nat, i \in P PROVE i + 1 \in P
  <2> SUFFICES ASSUME i + 1 <= n PROVE r[i + 1] = q[i + 1]
    OBVIOUS
  <2>1. i + 1 \in 1..n /\ (i + 1) - 1 = i /\ i <= n  BY <1>1
  <2> QED BY <1>4, <1>6, <2>1
<1>7. Nat \subseteq P
  <2> HIDE DEF P
  <2> QED BY <1>5, <1>6, SetInduction
<1>8. r[n] = q[n] /\ (n + 1) - 1 = n  BY <1>1, <1>7
<1> QED BY <1>2, <1>3, <1>4, <1>8

LEMMA ReadNone ==
  ASSUME NEW at \in Readers
  PROVE  ReadFrames(at, <<>>) = at
<1>1. <<>> \in Seq(Frames) /\ Len(<<>>) = 0  OBVIOUS
<1>2. PICK r : Follows(r, at, <<>>) /\ ReadFrames(at, <<>>) = r[Len(<<>>)]
  BY <1>1, ReadFramesRuns
<1> QED BY <1>1, <1>2 DEF Follows

LEMMA ReadInReaders ==
  ASSUME NEW at \in Readers, NEW s \in Seq(Frames)
  PROVE  ReadFrames(at, s) \in Readers
<1>1. Len(s) \in Nat  BY LenProperties
<1>2. PICK r \in [0..Len(s) -> Readers] : ReadFrames(at, s) = r[Len(s)]
  BY ReadFramesRuns
<1> QED BY <1>1, <1>2

\* Reading one sequence after the other.
LEMMA ReadCat ==
  ASSUME NEW at \in Readers, NEW s \in Seq(Frames), NEW t \in Seq(Frames)
  PROVE  ReadFrames(at, s \o t) = ReadFrames(ReadFrames(at, s), t)
<1> DEFINE P == {u \in Seq(Frames) : ReadFrames(at, s \o u) = ReadFrames(ReadFrames(at, s), u)}
<1>1. ReadFrames(at, s) \in Readers  BY ReadInReaders
<1>2. <<>> \in P
  <2>1. s \o <<>> = s /\ <<>> \in Seq(Frames)  OBVIOUS
  <2> QED BY <1>1, <2>1, ReadNone
<1>3. ASSUME NEW u \in Seq(Frames), NEW e \in Frames, u \in P PROVE Append(u, e) \in P
  <2>1. /\ s \o Append(u, e) = Append(s \o u, e) /\ s \o u \in Seq(Frames)
        /\ Append(u, e) \in Seq(Frames)
    OBVIOUS
  <2>2. ReadFrames(at, Append(s \o u, e)) = Read(ReadFrames(at, s \o u), e)
    BY <2>1, ReadAppend
  <2>3. ReadFrames(ReadFrames(at, s), Append(u, e)) = Read(ReadFrames(ReadFrames(at, s), u), e)
    BY <1>1, ReadAppend
  <2> QED BY <1>3, <2>1, <2>2, <2>3
<1>4. Seq(Frames) \subseteq P
  <2> HIDE DEF P
  <2> QED BY <1>2, <1>3, SeqInduction
<1> QED BY <1>4

LEMMA ReadOne ==
  ASSUME NEW at \in Readers, NEW f \in Frames
  PROVE  ReadFrames(at, <<f>>) = Read(at, f)
<1>1. <<>> \in Seq(Frames) /\ <<f>> = Append(<<>>, f)  OBVIOUS
<1> QED BY <1>1, ReadAppend, ReadNone

LEMMA ReadTwo ==
  ASSUME NEW at \in Readers, NEW f \in Frames, NEW g \in Frames
  PROVE  ReadFrames(at, <<f, g>>) = Read(Read(at, f), g)
<1>1. <<f>> \in Seq(Frames) /\ <<f, g>> = Append(<<f>>, g)  OBVIOUS
<1>2. ReadFrames(at, Append(<<f>>, g)) = Read(ReadFrames(at, <<f>>), g)
  BY <1>1, ReadAppend
<1> QED BY <1>1, <1>2, ReadOne

-----------------------------------------------------------------------------
(* What each step prints, read on *)

\* The frames that end nothing.
Plain == [kind : FrameKinds \ {"result"}, at : Nat]

LEMMA PlainSeq ==
  /\ Seq(Plain) \subseteq Seq(Frames) /\ <<>> \in Seq(Plain)
  /\ \A s, t \in Seq(Plain) : s \o t \in Seq(Plain)
<1>1. Plain \subseteq Frames  BY DEF Plain, Frames
<1> HIDE DEF Plain, Frames
<1> QED BY <1>1

LEMMA PlainFrame ==
  ASSUME NEW k \in FrameKinds \ {"result"}, NEW i \in Nat
  PROVE  /\ Frame(k, i) \in Plain /\ Frame(k, i) \in Frames /\ <<Frame(k, i)>> \in Seq(Plain)
         /\ Frame(k, i).kind = k /\ Frame(k, i).at = i
<1>1. Frame(k, i) \in Plain /\ Frame(k, i).kind = k /\ Frame(k, i).at = i
  BY DEF Plain, Frame
<1>2. Frame(k, i) \in Frames  BY <1>1 DEF Plain, Frames
<1> HIDE DEF Plain, Frames, Frame
<1> QED BY <1>1, <1>2

\* What a reader does with a frame of each kind that belongs where he is.
LEMMA ReadsOn ==
  ASSUME NEW at \in Readers, NEW i \in Nat
  PROVE  /\ at.place = "outside" =>
              Read(at, Frame("message_start", i)) = Reader("message", i, 0, at.last)
         /\ at.place = "message" /\ i = at.next =>
              Read(at, Frame("block_start", i)) = Reader("block", at.msg, at.next + 1, at.last)
         /\ at.place = "block" /\ i = at.next - 1 => Read(at, Frame("delta", i)) = at
         /\ at.place = "block" /\ i = at.next - 1 =>
              Read(at, Frame("block_stop", i)) = Reader("message", at.msg, at.next, at.last)
         /\ at.place = "message" /\ i = at.msg => Read(at, Frame("message_delta", i)) = at
         /\ at.place = "message" /\ i = at.msg =>
              Read(at, Frame("message_stop", i)) = Reader("outside", 0, 0, i)
         /\ at.place = "outside" /\ i = at.last =>
              Read(at, Frame("assistant", i)) = Reader("outside", 0, 0, 0)
         /\ at.place = "outside" => Read(at, Frame("result", i)) = at
         /\ at.place # "lost" => Read(at, Frame("tool_result", i)) = at
BY DEF Read, Frame

LEMMA ReaderFields ==
  ASSUME NEW p \in {"outside", "message", "block", "lost"}, NEW m \in Nat, NEW n \in Nat,
         NEW l \in Nat
  PROVE  /\ Reader(p, m, n, l) \in Readers
         /\ Reader(p, m, n, l).place = p /\ Reader(p, m, n, l).msg = m
         /\ Reader(p, m, n, l).next = n /\ Reader(p, m, n, l).last = l
BY DEF Reader, Readers

LEMMA StreamFields ==
  ASSUME NEW s \in Streams
  PROVE  /\ s.id \in Nat /\ s.index \in Nat /\ s.next \in Nat /\ s.block \in Kinds \cup {"none"}
BY DEF Streams

\* The block that is open is stopped, the message stays open.
LEMMA StopReads ==
  ASSUME NEW s \in Streams, NEW at \in Readers, At(at, s), s.id # 0
  PROVE  /\ StopBlock(s) \in Seq(Plain)
         /\ ReadFrames(at, StopBlock(s)) = Reader("message", s.id, s.next, 0)
<1>1. CASE s.block = "none"
  <2>1. at = Reader(at.place, at.msg, at.next, at.last)  BY DEF Readers, Reader
  <2>2. at = Reader("message", s.id, s.next, 0)  BY <1>1, <2>1 DEF At
  <2> QED BY <1>1, <2>2, ReadNone, PlainSeq DEF StopBlock
<1>2. CASE s.block # "none"
  <2>1. at.place = "block" /\ s.index = at.next - 1 /\ at.msg = s.id /\ at.next = s.next
        /\ at.last = 0
    BY <1>2 DEF At
  <2>2. "block_stop" \in FrameKinds \ {"result"} /\ s.index \in Nat
    BY StreamFields DEF FrameKinds
  <2>3. /\ Frame("block_stop", s.index) \in Frames
        /\ <<Frame("block_stop", s.index)>> \in Seq(Plain)
    BY <2>2, PlainFrame
  <2>4. Read(at, Frame("block_stop", s.index)) = Reader("message", s.id, s.next, 0)
    BY <2>1, <2>2, ReadsOn
  <2> QED BY <1>2, <2>3, <2>4, ReadOne DEF StopBlock
<1> QED BY <1>1, <1>2

\* A message that is closed leaves its reader outside, waiting for its snapshot.
LEMMA CloseReads ==
  ASSUME NEW s \in Streams, NEW at \in Readers, At(at, s)
  PROVE  /\ CloseMessage(s) \in Seq(Plain)
         /\ ReadFrames(at, CloseMessage(s)) \in Readers
         /\ ReadFrames(at, CloseMessage(s)).place = "outside"
         /\ ReadFrames(at, CloseMessage(s)).last = s.id
<1>1. CASE s.id = 0
  <2>1. CloseMessage(s) = <<>>  BY <1>1 DEF CloseMessage
  <2> QED BY <1>1, <2>1, ReadNone, PlainSeq DEF At
<1>2. CASE s.id # 0
  <2> DEFINE d == Frame("message_delta", s.id)
             e == Frame("message_stop", s.id)
  <2>1. /\ StopBlock(s) \in Seq(Plain)
        /\ ReadFrames(at, StopBlock(s)) = Reader("message", s.id, s.next, 0)
    BY <1>2, StopReads
  <2>2. s.id \in Nat /\ s.next \in Nat /\ 0 \in Nat  BY StreamFields
  <2>3. /\ "message_delta" \in FrameKinds \ {"result"}
        /\ "message_stop" \in FrameKinds \ {"result"}
    BY DEF FrameKinds
  <2>4. d \in Plain /\ e \in Plain /\ d \in Frames /\ e \in Frames
    BY <2>2, <2>3, PlainFrame
  <2>5. PICK a : a = Reader("message", s.id, s.next, 0)  OBVIOUS
  <2>6. a \in Readers /\ a.place = "message" /\ a.msg = s.id
    BY <2>2, <2>5, ReaderFields
  <2>7. Read(a, d) = a /\ Read(a, e) = Reader("outside", 0, 0, s.id)
    BY <2>2, <2>6, ReadsOn
  <2> HIDE DEF d, e
  <2>8. <<d, e>> \in Seq(Plain) /\ <<d, e>> \in Seq(Frames) /\ StopBlock(s) \in Seq(Frames)
        /\ StopBlock(s) \o <<d, e>> \in Seq(Plain)
    <3>1. <<d, e>> \in Seq(Plain)  BY <2>4
    <3> QED BY <2>1, <3>1, PlainSeq
  <2>9. ReadFrames(at, StopBlock(s) \o <<d, e>>) = Reader("outside", 0, 0, s.id)
    <3>1. ReadFrames(at, StopBlock(s) \o <<d, e>>) = ReadFrames(a, <<d, e>>)
      BY <2>1, <2>5, <2>8, ReadCat
    <3>2. ReadFrames(a, <<d, e>>) = Read(Read(a, d), e)
      BY <2>4, <2>6, ReadTwo
    <3> QED BY <2>7, <3>1, <3>2
  <2>10. CloseMessage(s) = StopBlock(s) \o <<d, e>>
    BY <1>2 DEF CloseMessage, d, e
  <2>11. Reader("outside", 0, 0, s.id) \in Readers
         /\ Reader("outside", 0, 0, s.id).place = "outside"
         /\ Reader("outside", 0, 0, s.id).last = s.id
    BY <2>2, ReaderFields
  <2> QED BY <2>8, <2>9, <2>10, <2>11
<1> QED BY <1>1, <1>2

LEMMA SwitchedFields ==
  ASSUME NEW s \in Streams, NEW k \in Kinds
  PROVE  /\ Switched(s, k) \in Streams
         /\ Switched(s, k).id = s.id /\ Switched(s, k).block = k
         /\ Switched(s, k).index = (IF s.block = k THEN s.index ELSE s.next)
         /\ Switched(s, k).next = (IF s.block = k THEN s.next ELSE s.next + 1)
<1>1. CASE s.block = k
  BY <1>1 DEF Switched
<1>2. CASE s.block # k
  <2>1. PICK n \in Nat : n = s.next + 1  BY StreamFields
  <2>2. s.next \in Nat  BY StreamFields
  <2>3. Switched(s, k) = [s EXCEPT !.block = k, !.index = s.next, !.next = n]
    BY <1>2, <2>1 DEF Switched
  <2> QED BY <1>2, <2>1, <2>2, <2>3 DEF Streams
<1> QED BY <1>1, <1>2

LEMMA Messages ==
  ASSUME NEW s \in Streams, s.id = 0 => s = Closed, NEW i \in Nat, i # 0, minted + 1 = i,
         NEW k \in Kinds
  PROVE  /\ Opened(s) \in Streams /\ Switched(s, k) \in Streams
         /\ Opened(s).id # 0 /\ Opened(s).id = (IF s.id = 0 THEN i ELSE s.id)
         /\ Opened(s).block = s.block /\ Opened(s).index = s.index
         /\ Opened(s).next = s.next
         /\ Switched(s, k).id = s.id /\ Switched(s, k).block = k
         /\ Switched(s, k).index = (IF s.block = k THEN s.index ELSE s.next)
         /\ Switched(s, k).next = (IF s.block = k THEN s.next ELSE s.next + 1)
<1>1. CASE s.id # 0
  <2>1. Opened(s) = s  BY <1>1 DEF Opened
  <2> QED BY <1>1, <2>1, SwitchedFields
<1>2. CASE s.id = 0
  <2>1. s = Closed  BY <1>2
  <2>2. Opened(s) = [Closed EXCEPT !.id = i]  BY <1>2 DEF Opened
  <2>3. /\ Opened(s) \in Streams /\ Opened(s).id = i /\ Opened(s).block = s.block
        /\ Opened(s).index = s.index /\ Opened(s).next = s.next
    BY <2>1, <2>2 DEF Streams, Closed
  <2> QED BY <1>2, <2>3, SwitchedFields
<1> QED BY <1>1, <1>2

\* The start of a message, the end of a block and the start of the next: what a delta
\* needs before it.
LEMMA OpenReads ==
  ASSUME NEW s \in Streams, s.id = 0 => s = Closed, NEW i \in Nat, i # 0, minted + 1 = i,
         NEW at \in Readers, At(at, s),
         NEW start, start = IF s.id = 0 THEN <<Frame("message_start", minted + 1)>> ELSE <<>>
  PROVE  /\ start \in Seq(Plain) /\ ReadFrames(at, start) \in Readers
         /\ At(ReadFrames(at, start), Opened(s))
<1>1. CASE s.id # 0
  <2>1. start = <<>> /\ Opened(s) = s  BY <1>1 DEF Opened
  <2> QED BY <2>1, PlainSeq, ReadNone
<1>2. CASE s.id = 0
  <2>1. "message_start" \in FrameKinds \ {"result"}  BY DEF FrameKinds
  <2>2. Frame("message_start", i) \in Frames /\ start \in Seq(Plain)
        /\ start = <<Frame("message_start", i)>>
    BY <1>2, <2>1, PlainFrame
  <2>3. at.place = "outside" /\ at.last = 0  BY <1>2 DEF At
  <2>4. ReadFrames(at, start) = Reader("message", i, 0, 0)
    <3>1. Read(at, Frame("message_start", i)) = Reader("message", i, 0, at.last)
      BY <2>3, ReadsOn
    <3> QED BY <2>2, <2>3, <3>1, ReadOne
  <2>5. PICK a : a = Reader("message", i, 0, 0)  OBVIOUS
  <2>6. a \in Readers /\ a.place = "message" /\ a.msg = i /\ a.next = 0 /\ a.last = 0
    BY <2>5, ReaderFields
  <2>7. Opened(s).id = i /\ Opened(s).block = "none" /\ Opened(s).next = 0
    BY <1>2 DEF Opened, Closed
  <2>8. At(a, Opened(s))
    <3>1. PICK o : o = Opened(s)  OBVIOUS
    <3>2. At(a, o)  BY <2>6, <2>7, <3>1 DEF At
    <3> QED BY <3>1, <3>2
  <2> QED BY <2>2, <2>4, <2>5, <2>6, <2>8
<1> QED BY <1>1, <1>2

LEMMA SwitchReads ==
  ASSUME NEW s \in Streams, s.id # 0, NEW k \in Kinds, NEW at \in Readers, At(at, s),
         Switched(s, k) \in Streams,
         NEW switch,
         switch = IF s.block = k THEN <<>> ELSE StopBlock(s) \o <<Frame("block_start", s.next)>>
  PROVE  /\ switch \in Seq(Plain) /\ ReadFrames(at, switch) \in Readers
         /\ At(ReadFrames(at, switch), Switched(s, k))
<1>1. CASE s.block = k
  <2>1. switch = <<>> /\ Switched(s, k) = s  BY <1>1 DEF Switched
  <2> QED BY <2>1, PlainSeq, ReadNone
<1>2. CASE s.block # k
  <2>1. s.next \in Nat /\ s.id \in Nat /\ 0 \in Nat  BY StreamFields
  <2>2. PICK m \in Nat : m = s.next + 1  BY <2>1
  <2>3. "block_start" \in FrameKinds \ {"result"}  BY DEF FrameKinds
  <2>4. PICK f : f = Frame("block_start", s.next)  OBVIOUS
  <2>5. f \in Frames /\ <<f>> \in Seq(Plain)  BY <2>1, <2>3, <2>4, PlainFrame
  <2>6. PICK a : a = Reader("message", s.id, s.next, 0)  OBVIOUS
  <2>7. a \in Readers /\ a.place = "message" /\ a.msg = s.id /\ a.next = s.next /\ a.last = 0
    BY <2>1, <2>6, ReaderFields
  <2>8. PICK b : b = Reader("block", s.id, m, 0)  OBVIOUS
  <2>9. b \in Readers /\ b.place = "block" /\ b.msg = s.id /\ b.next = m /\ b.last = 0
    <3>1. m \in Nat  BY <2>2
    <3>2. "block" \in {"outside", "message", "block", "lost"}  OBVIOUS
    <3>3. s.id \in Nat /\ 0 \in Nat  BY <2>1
    <3> QED BY <2>8, <3>1, <3>2, <3>3, ReaderFields
  <2>10. Read(a, f) = b
    <3>1. Read(a, f) = Reader("block", a.msg, a.next + 1, a.last)
      BY <2>1, <2>4, <2>7, ReadsOn
    <3> QED BY <2>7, <2>8, <2>2, <3>1
  <2>11. switch = StopBlock(s) \o <<f>>  BY <1>2, <2>4
  <2>12. StopBlock(s) \in Seq(Plain) /\ ReadFrames(at, StopBlock(s)) = a
    BY <2>6, StopReads
  <2>13. ReadFrames(at, switch) = b
    <3>1. StopBlock(s) \in Seq(Frames) /\ <<f>> \in Seq(Frames)  BY <2>5, <2>12, PlainSeq
    <3>2. ReadFrames(at, switch) = ReadFrames(a, <<f>>)  BY <2>11, <2>12, <3>1, ReadCat
    <3> QED BY <2>5, <2>7, <2>10, <3>2, ReadOne
  <2>14. PICK t : t = Switched(s, k)  OBVIOUS
  <2>15. t.id = s.id /\ t.block = k /\ t.index = s.next /\ t.next = s.next + 1
    BY <1>2, <2>14 DEF Switched, Streams
  <2>16. k # "none"  BY DEF Kinds
  <2>17. t.next = m /\ t.index = m - 1 /\ m > 0  BY <2>1, <2>15, <2>2
  <2>18. At(b, t)  BY <2>9, <2>15, <2>16, <2>17 DEF At
  <2> QED BY <2>5, <2>9, <2>11, <2>12, <2>13, <2>14, <2>18, PlainSeq
<1> QED BY <1>1, <1>2

\* The delta itself, in the block that is open.
LEMMA DeltaReads ==
  ASSUME NEW s \in Streams, s.id # 0, s.block # "none", NEW at \in Readers, At(at, s)
  PROVE  /\ <<Frame("delta", s.index)>> \in Seq(Plain)
         /\ ReadFrames(at, <<Frame("delta", s.index)>>) = at
<1>1. s.index \in Nat /\ at.place = "block" /\ s.index = at.next - 1
  BY StreamFields DEF At
<1>2. "delta" \in FrameKinds \ {"result"}  BY DEF FrameKinds
<1>3. Frame("delta", s.index) \in Frames /\ <<Frame("delta", s.index)>> \in Seq(Plain)
  BY <1>1, <1>2, PlainFrame
<1>4. Read(at, Frame("delta", s.index)) = at  BY <1>1, ReadsOn
<1> QED BY <1>3, <1>4, ReadOne

\* A tool call that is complete ends its block.
LEMMA FinalReads ==
  ASSUME NEW s \in Streams, s.id # 0, NEW at \in Readers, At(at, s)
  PROVE  /\ [s EXCEPT !.block = "none"] \in Streams
         /\ ReadFrames(at, StopBlock(s)) \in Readers
         /\ At(ReadFrames(at, StopBlock(s)), [s EXCEPT !.block = "none"])
<1>1. s.id \in Nat /\ s.next \in Nat /\ 0 \in Nat  BY StreamFields
<1>2. PICK a : a = Reader("message", s.id, s.next, 0)  OBVIOUS
<1>3. a \in Readers /\ a.place = "message" /\ a.msg = s.id /\ a.next = s.next /\ a.last = 0
  BY <1>1, <1>2, ReaderFields
<1>4. ReadFrames(at, StopBlock(s)) = a  BY <1>2, StopReads
<1>5. PICK t : t = [s EXCEPT !.block = "none"]  OBVIOUS
<1>6. t \in Streams /\ t.id = s.id /\ t.next = s.next /\ t.block = "none"
  BY <1>5 DEF Streams
<1>7. At(a, t)  BY <1>3, <1>6 DEF At
<1> QED BY <1>3, <1>4, <1>5, <1>6, <1>7

\* One delta, whatever is open: all its frames, and where they leave the reader.
LEMMA DeltaFramesRead ==
  ASSUME NEW s \in Streams, s.id = 0 => s = Closed, minted \in Nat, NEW k \in Kinds,
         NEW final \in BOOLEAN, NEW at \in Readers, At(at, s),
         NEW t, t = Switched(Opened(s), k),
         NEW frames, frames = DeltaFrames(s, k) \o (IF final THEN StopBlock(t) ELSE <<>>),
         NEW u, u = IF final THEN [t EXCEPT !.block = "none"] ELSE t
  PROVE  /\ frames \in Seq(Plain) /\ u \in Streams /\ u.id # 0 /\ Opened(s).id \in Nat
         /\ ReadFrames(at, frames) \in Readers /\ At(ReadFrames(at, frames), u)
<1>1. PICK i \in Nat : i # 0 /\ minted + 1 = i
  <2>1. minted + 1 \in Nat /\ minted + 1 # 0  OBVIOUS
  <2> QED BY <2>1
<1>2. PICK o : o = Opened(s)  OBVIOUS
<1>3. /\ o \in Streams /\ o.id # 0 /\ o.block = s.block /\ o.index = s.index
      /\ o.next = s.next
  BY <1>1, <1>2, Messages
<1>4. /\ t \in Streams /\ t.id = o.id /\ t.block = k
      /\ t.index = (IF o.block = k THEN o.index ELSE o.next)
  <2>1. o.id = 0 => o = Closed  BY <1>3
  <2> QED BY <1>1, <1>2, <1>3, <2>1, Messages
<1>5. PICK a : a = (IF s.id = 0 THEN <<Frame("message_start", minted + 1)>> ELSE <<>>)
  OBVIOUS
<1>6. PICK b : b = (IF o.block = k THEN <<>>
                    ELSE StopBlock(o) \o <<Frame("block_start", o.next)>>)
  OBVIOUS
<1>7. PICK c : c = <<Frame("delta", t.index)>>  OBVIOUS
<1>8. PICK d : d = (IF final THEN StopBlock(t) ELSE <<>>)  OBVIOUS
<1>9. frames = ((a \o b) \o c) \o d
  <2>1. StopBlock(o) = StopBlock(s)  BY <1>3 DEF StopBlock
  <2>2. Switched(s, k).index = t.index
    BY <1>1, <1>3, <1>4, Messages
  <2>3. DeltaFrames(s, k) = (a \o b) \o c
    BY <1>3, <1>5, <1>6, <1>7, <2>1, <2>2 DEF DeltaFrames
  <2> QED BY <1>8, <2>3
<1>10. PICK p : p = ReadFrames(at, a)  OBVIOUS
<1>11. a \in Seq(Plain) /\ p \in Readers /\ At(p, o)
  BY <1>1, <1>2, <1>5, <1>10, OpenReads
<1>12. PICK q : q = ReadFrames(p, b)  OBVIOUS
<1>13. b \in Seq(Plain) /\ q \in Readers /\ At(q, t)
  <2>1. t = Switched(o, k)  BY <1>2
  <2> QED BY <1>3, <1>4, <1>6, <1>11, <1>12, <2>1, SwitchReads
<1>14. k # "none"  BY DEF Kinds
<1>15. c \in Seq(Plain) /\ ReadFrames(q, c) = q
  BY <1>3, <1>4, <1>7, <1>13, <1>14, DeltaReads
<1>16. PICK r : r = ReadFrames(q, d)  OBVIOUS
<1>17. d \in Seq(Plain) /\ r \in Readers /\ u \in Streams /\ u.id # 0 /\ At(r, u)
  <2>1. CASE final
    <3>1. d = StopBlock(t) /\ u = [t EXCEPT !.block = "none"]  BY <1>8, <2>1
    <3>2. d \in Seq(Plain)  BY <1>3, <1>4, <1>13, <3>1, StopReads
    <3>3. u \in Streams /\ r \in Readers /\ At(r, u)
      BY <1>3, <1>4, <1>13, <1>16, <3>1, FinalReads
    <3>4. u.id = t.id  BY <1>4, <3>1 DEF Streams
    <3> QED BY <1>3, <1>4, <3>2, <3>3, <3>4
  <2>2. CASE ~final
    <3>1. d = <<>> /\ u = t  BY <1>8, <2>2
    <3> QED BY <1>3, <1>4, <1>13, <1>16, <3>1, PlainSeq, ReadNone
  <2> QED BY <2>1, <2>2
<1>18. frames \in Seq(Plain) /\ ReadFrames(at, frames) = r
  <2>1. /\ a \o b \in Seq(Plain) /\ (a \o b) \o c \in Seq(Plain)
        /\ ((a \o b) \o c) \o d \in Seq(Plain)
    BY <1>11, <1>13, <1>15, <1>17, PlainSeq
  <2>2. /\ a \in Seq(Frames) /\ b \in Seq(Frames) /\ c \in Seq(Frames) /\ d \in Seq(Frames)
        /\ a \o b \in Seq(Frames) /\ (a \o b) \o c \in Seq(Frames)
    BY <1>11, <1>13, <1>15, <1>17, <2>1, PlainSeq
  <2>3. ReadFrames(at, a \o b) = q  BY <1>10, <1>12, <2>2, ReadCat
  <2>4. ReadFrames(at, (a \o b) \o c) = q  BY <1>15, <2>2, <2>3, ReadCat
  <2>5. ReadFrames(at, ((a \o b) \o c) \o d) = r  BY <1>16, <2>2, <2>4, ReadCat
  <2> QED BY <1>9, <2>1, <2>5
<1>19. Opened(s).id \in Nat  BY <1>2, <1>3, StreamFields
<1> QED BY <1>17, <1>18, <1>19

-----------------------------------------------------------------------------
(* The frames nest after each step *)

LEMMA Emitted ==
  ASSUME NestInv, NEW frames \in Seq(Frames), Emit(frames)
  PROVE  /\ Fresh \in Readers /\ Base \in Seq(Frames) /\ out' \in Seq(Frames)
         /\ out' = Base \o frames
         /\ ReadFrames(Fresh, out') = ReadFrames(ReadFrames(Fresh, Base), frames)
<1>1. Fresh \in Readers  BY ReaderFields DEF Fresh
<1>2. Base \in Seq(Frames) /\ out' = Base \o frames
  BY DEF NestInv, Base, Emit
<1>3. out' \in Seq(Frames)
  <2> HIDE DEF Frames
  <2> QED BY <1>2
<1> QED BY <1>1, <1>2, <1>3, ReadCat

\* Only a result ends what a reader of the next frame starts from.
LEMMA PlainEnd ==
  ASSUME out \in Seq(Frames), NEW frames \in Seq(Plain), Emit(frames)
  PROVE  Base' = out'
<1>1. \A f \in Plain : f.kind # "result"  BY DEF Plain
<1>2. Base \in Seq(Frames) /\ out' = Base \o frames  BY DEF Base, Emit
<1>3. CASE frames = <<>>
  <2>1. out' = Base
    <3> HIDE DEF Frames
    <3> QED BY <1>2, <1>3
  <2>2. ~Ended'
    <3>1. CASE Ended  BY <2>1, <3>1 DEF Base, Ended
    <3>2. CASE ~Ended  BY <2>1, <3>2 DEF Base, Ended
    <3> QED BY <3>1, <3>2
  <2> QED BY <2>2 DEF Base
<1>4. CASE frames # <<>>
  <2>1. Last(out') \in Plain
    <3> HIDE DEF Plain, Frames
    <3>1. Len(frames) \in Nat /\ Len(frames) # 0 /\ Len(Base) \in Nat
      BY <1>2, <1>4, LenProperties, EmptySeq
    <3>2. Len(frames) \in 1..Len(frames) /\ frames[Len(frames)] \in Plain
      BY <3>1, ElementOfSeq
    <3>3. /\ Len(out') = Len(Base) + Len(frames)
          /\ out'[Len(Base) + Len(frames)] = frames[Len(frames)]
      BY <1>2, <3>1, <3>2
    <3> QED BY <3>2, <3>3 DEF Last
  <2> QED BY <1>1, <2>1 DEF Base, Ended
<1> QED BY <1>3, <1>4

LEMMA NestPlain ==
  ASSUME NestInv, NEW frames \in Seq(Plain), Emit(frames), StreamInv',
         At(ReadFrames(ReadFrames(Fresh, Base), frames), stream')
  PROVE  NestInv'
<1>1. frames \in Seq(Frames)  BY PlainSeq
<1>2. out' \in Seq(Frames) /\ ReadFrames(Fresh, out') = ReadFrames(ReadFrames(Fresh, Base), frames)
  BY <1>1, Emitted
<1>3. Base' = out'  BY PlainEnd DEF NestInv
<1>4. At(ReadFrames(Fresh, out'), stream')  BY <1>2
<1>5. ReadFrames(Fresh, out').place # "lost"  BY <1>4 DEF At
<1> QED BY <1>2, <1>3, <1>4, <1>5 DEF NestInv, FramesNest

LEMMA NestEnded ==
  ASSUME NestInv, NEW t \in Seq(Plain), Emit(t \o <<Frame("result", 0)>>),
         NEW q \in Readers, q = ReadFrames(ReadFrames(Fresh, Base), t), q.place = "outside",
         StreamInv', stream' = Closed
  PROVE  NestInv'
<1> DEFINE f == Frame("result", 0)
<1>1. f \in Frames /\ f.kind = "result"  BY DEF Frame, Frames, FrameKinds
<1>2. Read(q, f) = q
  <2>1. 0 \in Nat  OBVIOUS
  <2> QED BY <2>1, ReadsOn
<1> HIDE DEF f
<1>3. t \in Seq(Frames)  BY PlainSeq
<1>4. t \o <<f>> = Append(t, f) /\ Append(t, f) \in Seq(Frames)
  <2> HIDE DEF Frames
  <2> QED BY <1>1, <1>3
<1>5. Emit(Append(t, f))  BY <1>4 DEF f
<1>6. /\ Fresh \in Readers /\ Base \in Seq(Frames) /\ out' \in Seq(Frames)
      /\ out' = Base \o Append(t, f)
      /\ ReadFrames(Fresh, out') = ReadFrames(ReadFrames(Fresh, Base), Append(t, f))
  BY <1>4, <1>5, Emitted
<1>7. ReadFrames(Fresh, out') = q
  <2>1. ReadFrames(Fresh, Base) \in Readers  BY <1>6, ReadInReaders
  <2> QED BY <1>1, <1>2, <1>3, <1>6, <2>1, ReadAppend
<1>8. Ended'
  <2> HIDE DEF Frames
  <2>1. out' = Append(Base \o t, f) /\ Base \o t \in Seq(Frames)
    BY <1>1, <1>3, <1>6
  <2>2. out' # <<>> /\ out'[Len(out')] = f  BY <1>1, <2>1
  <2> QED BY <1>1, <2>2 DEF Ended, Last
<1>9. Base' = <<>>  BY <1>8 DEF Base
<1>10. ReadFrames(Fresh, Base') = Fresh  BY <1>6, <1>9, ReadNone
<1>11. At(Fresh, Closed)
  <2>1. Fresh.place = "outside" /\ Fresh.last = 0  BY ReaderFields DEF Fresh
  <2> QED BY <1>6, <2>1 DEF At, Closed
<1> QED BY <1>6, <1>7, <1>10, <1>11 DEF NestInv, FramesNest

LEMMA NestSilent ==
  ASSUME NestInv, StreamInv', UNCHANGED <<out, stream>>
  PROVE  NestInv'
<1>1. out' = out /\ stream' = stream  OBVIOUS
<1>2. Base' = Base  BY <1>1 DEF Base, Ended
<1> QED BY <1>1, <1>2 DEF NestInv, FramesNest

\* What ends a turn closes the message and prints the result.
LEMMA NestResult ==
  ASSUME NestInv, Emit(CloseMessage(stream) \o ResultFrame), stream' = Closed, StreamInv'
  PROVE  NestInv'
<1>1. PICK at : at = ReadFrames(Fresh, Base)  OBVIOUS
<1>2. at \in Readers /\ At(at, stream) /\ stream \in Streams
  BY <1>1 DEF NestInv, StreamInv, At
<1>3. PICK t : t = CloseMessage(stream)  OBVIOUS
<1>4. /\ t \in Seq(Plain) /\ ReadFrames(at, t) \in Readers
      /\ ReadFrames(at, t).place = "outside"
  BY <1>2, <1>3, CloseReads
<1>5. CASE format = "text"
  <2>1. stream = Closed /\ stream.id = 0  BY <1>5 DEF NestInv, StreamInv, StreamJson
  <2>2. t = <<>>  BY <1>3, <2>1 DEF CloseMessage
  <2>3. t \o <<>> = <<>>  BY <2>2
  <2>4. Emit(<<>>)  BY <1>3, <1>5, <2>3 DEF ResultFrame
  <2>5. At(ReadFrames(at, <<>>), stream')  BY <1>2, <2>1, ReadNone
  <2> QED BY <1>1, <2>4, <2>5, NestPlain, PlainSeq
<1>6. CASE format # "text"
  <2>1. Emit(t \o <<Frame("result", 0)>>)  BY <1>3, <1>6 DEF ResultFrame
  <2> QED BY <1>1, <1>4, <2>1, NestEnded
<1> QED BY <1>5, <1>6

LEMMA StreamStep ==
  ASSUME StreamInv, [Next]_vars
  PROVE  StreamInv'
<1> USE DEF StreamInv, StreamJson, mode
<1>0. Closed \in Streams /\ Closed.id = 0  BY DEF Streams, Closed
<1>1. CASE TurnStarted
  BY <1>0, <1>1 DEF TurnStarted
<1>2. CASE ErrorEvent
  BY <1>2 DEF ErrorEvent
<1>3. CASE Done
  BY <1>0, <1>3 DEF Done
<1>4. CASE Interrupted
  BY <1>0, <1>4 DEF Interrupted
<1>5. CASE ToolResultTurn
  BY <1>5 DEF ToolResultTurn
<1>6. CASE CutToolResult
  BY <1>6 DEF CutToolResult
<1>7. ASSUME NEW k \in Kinds, NEW final \in BOOLEAN, Delta(k, final) PROVE StreamInv'
  <2>1. CASE StreamJson /\ partial
    <3> DEFINE t == Switched(Opened(stream), k)
               u == IF final THEN [t EXCEPT !.block = "none"] ELSE t
    <3>1. stream' = u /\ minted' = Opened(stream).id /\ phase' = "streaming" /\ format' = format
      BY <1>7, <2>1 DEF Delta
    <3>2. PICK i \in Nat : i # 0 /\ minted + 1 = i
      <4>1. minted + 1 \in Nat /\ minted + 1 # 0  OBVIOUS
      <4> QED BY <4>1
    <3>3. /\ Opened(stream) \in Streams /\ Opened(stream).id # 0
      BY <3>2, Messages
    <3>4. t \in Streams /\ t.id = Opened(stream).id
      BY <3>3, SwitchedFields
    <3>5. u \in Streams /\ u.id # 0
      <4> HIDE DEF t
      <4>1. [t EXCEPT !.block = "none"] \in Streams /\ [t EXCEPT !.block = "none"].id = t.id
        BY <3>4 DEF Streams
      <4> QED BY <3>3, <3>4, <4>1
    <3>6. Opened(stream).id \in Nat  BY <3>3, StreamFields
    <3> HIDE DEF u
    <3> QED BY <2>1, <3>1, <3>5, <3>6
  <2>2. CASE ~(StreamJson /\ partial)
    <3>1. UNCHANGED <<stream, minted, phase, format>>
      BY <1>7, <2>2 DEF Delta
    <3> QED BY <3>1
  <2> QED BY <2>1, <2>2
<1>8. ASSUME NEW tools \in 0..2, AssistantTurn(tools) PROVE StreamInv'
  BY <1>0, <1>8 DEF AssistantTurn
<1>9. ASSUME NEW ok \in BOOLEAN, TurnResult(ok) PROVE StreamInv'
  BY <1>0, <1>9 DEF TurnResult
<1>10. CASE UNCHANGED vars
  BY <1>10 DEF vars
<1> QED
  BY <1>1, <1>2, <1>3, <1>4, <1>5, <1>6, <1>7, <1>8, <1>9, <1>10 DEF Next

LEMMA NestStep ==
  ASSUME NestInv, [Next]_vars
  PROVE  NestInv'
<1>1. StreamInv /\ StreamInv'  BY StreamStep DEF NestInv
<1>2. PICK at : at = ReadFrames(Fresh, Base)  OBVIOUS
<1>3. at \in Readers /\ At(at, stream) /\ stream \in Streams
  BY <1>1, <1>2 DEF NestInv, StreamInv, At
<1>4. CASE TurnStarted
  <2>1. stream = Closed /\ stream.id = 0  BY <1>1, <1>4 DEF TurnStarted, StreamInv
  <2>2. Emit(<<>>) /\ stream' = stream
    BY <1>4, <2>1 DEF TurnStarted, CloseMessage
  <2>3. At(ReadFrames(at, <<>>), stream')  BY <1>3, <2>2, ReadNone
  <2> QED BY <1>1, <1>2, <2>2, <2>3, NestPlain, PlainSeq
<1>5. CASE ErrorEvent
  <2>1. UNCHANGED <<out, stream>>  BY <1>5 DEF ErrorEvent
  <2> QED BY <1>1, <2>1, NestSilent
<1>6. CASE Done
  <2>1. CASE rendered
    <3>1. UNCHANGED <<out, stream>>  BY <1>6, <2>1 DEF Done
    <3> QED BY <1>1, <3>1, NestSilent
  <2>2. CASE ~rendered
    <3>1. Emit(CloseMessage(stream) \o ResultFrame) /\ stream' = Closed
      BY <1>6, <2>2 DEF Done
    <3> QED BY <1>1, <3>1, NestResult
  <2> QED BY <2>1, <2>2
<1>7. CASE Interrupted
  <2>1. Emit(CloseMessage(stream) \o ResultFrame) /\ stream' = Closed
    BY <1>7 DEF Interrupted
  <2> QED BY <1>1, <2>1, NestResult
<1>8. ASSUME NEW cut \in BOOLEAN, ToolResult(cut), stream' = stream PROVE NestInv'
  <2>1. CASE ~StreamJson
    <3>1. UNCHANGED <<out, stream>>  BY <1>8, <2>1 DEF ToolResult
    <3> QED BY <1>1, <3>1, NestSilent
  <2>2. CASE StreamJson
    <3>1. Emit(<<Frame("tool_result", 0)>>)  BY <1>8, <2>2 DEF ToolResult
    <3>2. "tool_result" \in FrameKinds \ {"result"} /\ 0 \in Nat  BY DEF FrameKinds
    <3>3. PICK f : f = Frame("tool_result", 0)  OBVIOUS
    <3>4. <<f>> \in Seq(Plain) /\ f \in Frames  BY <3>2, <3>3, PlainFrame
    <3>5. at.place # "lost"  BY <1>3 DEF At
    <3>6. Read(at, f) = at  BY <1>3, <3>2, <3>3, <3>5, ReadsOn
    <3>7. ReadFrames(at, <<f>>) = at  BY <1>3, <3>4, <3>6, ReadOne
    <3> QED BY <1>1, <1>2, <1>3, <1>8, <3>1, <3>3, <3>4, <3>7, NestPlain
  <2> QED BY <2>1, <2>2
<1>9. CASE ToolResultTurn
  BY <1>8, <1>9 DEF ToolResultTurn
<1>10. CASE CutToolResult
  BY <1>8, <1>10 DEF CutToolResult
<1>11. ASSUME NEW k \in Kinds, NEW final \in BOOLEAN, Delta(k, final) PROVE NestInv'
  <2>1. CASE StreamJson /\ partial
    <3>1. PICK t : t = Switched(Opened(stream), k)  OBVIOUS
    <3>2. PICK u : u = IF final THEN [t EXCEPT !.block = "none"] ELSE t  OBVIOUS
    <3>3. PICK frames :
            frames = DeltaFrames(stream, k) \o (IF final THEN StopBlock(t) ELSE <<>>)
      OBVIOUS
    <3>4. Emit(frames) /\ stream' = u
      BY <1>11, <2>1, <3>1, <3>2, <3>3 DEF Delta
    <3>5. minted \in Nat /\ (stream.id = 0 => stream = Closed)  BY <1>1 DEF StreamInv
    <3>6. frames \in Seq(Plain) /\ At(ReadFrames(at, frames), u)
      BY <1>3, <3>1, <3>2, <3>3, <3>5, DeltaFramesRead
    <3> QED BY <1>1, <1>2, <3>4, <3>6, NestPlain
  <2>2. CASE ~(StreamJson /\ partial)
    <3>1. UNCHANGED <<out, stream>>  BY <1>11, <2>2 DEF Delta
    <3> QED BY <1>1, <3>1, NestSilent
  <2> QED BY <2>1, <2>2
<1>12. ASSUME NEW tools \in 0..2, AssistantTurn(tools) PROVE NestInv'
  <2>1. CASE StreamJson
    <3>1. PICK i : i = stream.id  OBVIOUS
    <3>2. PICK t : t = CloseMessage(stream)  OBVIOUS
    <3>3. PICK f : f = Frame("assistant", i)  OBVIOUS
    <3>4. PICK q : q = ReadFrames(at, t)  OBVIOUS
    <3>5. t \in Seq(Plain) /\ q \in Readers /\ q.place = "outside" /\ q.last = i /\ i \in Nat
      BY <1>3, <3>1, <3>2, <3>4, CloseReads, StreamFields
    <3>6. "assistant" \in FrameKinds \ {"result"}  BY DEF FrameKinds
    <3>7. <<f>> \in Seq(Plain) /\ f \in Frames  BY <3>3, <3>5, <3>6, PlainFrame
    <3>8. Read(q, f) = Fresh  BY <3>3, <3>5, ReadsOn DEF Fresh
    <3>9. t \o <<f>> \in Seq(Plain) /\ t \in Seq(Frames) /\ <<f>> \in Seq(Frames)
      BY <3>5, <3>7, PlainSeq
    <3>10. ReadFrames(at, t \o <<f>>) = Fresh
      <4>1. ReadFrames(at, t \o <<f>>) = ReadFrames(q, <<f>>)
        BY <1>3, <3>4, <3>9, ReadCat
      <4> QED BY <3>5, <3>7, <3>8, <4>1, ReadOne
    <3>11. Emit(t \o <<f>>) /\ stream' = Closed
      BY <1>12, <2>1, <3>1, <3>2, <3>3 DEF AssistantTurn
    <3>12. At(Fresh, Closed)
      <4>1. Fresh \in Readers /\ Fresh.place = "outside" /\ Fresh.last = 0
        BY ReaderFields DEF Fresh
      <4> QED BY <4>1 DEF At, Closed
    <3> QED BY <1>1, <1>2, <3>9, <3>10, <3>11, <3>12, NestPlain
  <2>2. CASE ~StreamJson
    <3>1. UNCHANGED <<out, stream>>  BY <1>12, <2>2 DEF AssistantTurn
    <3> QED BY <1>1, <3>1, NestSilent
  <2> QED BY <2>1, <2>2
<1>13. ASSUME NEW ok \in BOOLEAN, TurnResult(ok) PROVE NestInv'
  <2>1. Emit(CloseMessage(stream) \o ResultFrame) /\ stream' = Closed
    <3>1. CASE StreamJson  BY <1>13, <3>1 DEF TurnResult
    <3>2. CASE ~StreamJson
      <4>1. stream = Closed /\ stream.id = 0  BY <1>1, <3>2 DEF StreamInv
      <4>2. CloseMessage(stream) = <<>>  BY <4>1 DEF CloseMessage
      <4> QED BY <1>13, <3>2, <4>1, <4>2 DEF TurnResult
    <3> QED BY <3>1, <3>2
  <2> QED BY <1>1, <2>1, NestResult
<1>14. CASE UNCHANGED vars
  <2>1. UNCHANGED <<out, stream>>  BY <1>14 DEF vars
  <2> QED BY <1>1, <2>1, NestSilent
<1> QED
  BY <1>4, <1>5, <1>6, <1>7, <1>9, <1>10, <1>11, <1>12, <1>13, <1>14 DEF Next

LEMMA NestInvariant == Spec => []NestInv
<1>1. Init => NestInv
  <2> SUFFICES ASSUME Init PROVE NestInv
    OBVIOUS
  <2>1. out = <<>> /\ stream = Closed /\ minted = 0  BY DEF Init
  <2>2. StreamInv  BY <2>1 DEF StreamInv, Streams, Closed
  <2>3. Base = <<>>  BY <2>1 DEF Base
  <2>4. Fresh \in Readers /\ Fresh.place = "outside" /\ Fresh.last = 0
    BY ReaderFields DEF Fresh
  <2>5. ReadFrames(Fresh, <<>>) = Fresh  BY <2>4, ReadNone
  <2>6. At(Fresh, Closed)  BY <2>4 DEF At, Closed
  <2>7. <<>> \in Seq(Frames)  BY EmptySeq
  <2> QED BY <2>1, <2>2, <2>3, <2>4, <2>5, <2>6, <2>7 DEF NestInv, FramesNest
<1> QED BY <1>1, NestStep, PTL DEF Spec

-----------------------------------------------------------------------------
(* Types *)

\* The bounds, and the tools the renderer waits for: at most two of every round.
BoundsInv ==
    /\ format \in {"text", "json", "stream-json"} /\ partial \in BOOLEAN
    /\ turns \in 0..MaxTurns /\ rounds \in 0..MaxRounds /\ calls \in 0..2 /\ deltas \in 0..MaxDeltas
    /\ pending \in Nat /\ pending <= 2 * rounds
    /\ stream.id <= minted /\ exit \in {"ok", "failure"}

LEMMA BoundsStep ==
  ASSUME MaxTurns \in Nat, MaxDeltas \in Nat, MaxRounds \in Nat,
         BoundsInv, StreamInv, [Next]_vars
  PROVE  BoundsInv'
<1> USE DEF BoundsInv, mode
<1>0. Closed.id = 0 /\ stream.id \in Nat /\ minted \in Nat
  BY DEF Closed, StreamInv, Streams
<1>1. CASE TurnStarted
  BY <1>0, <1>1 DEF TurnStarted, ResetLedger
<1>2. CASE ErrorEvent
  BY <1>0, <1>2 DEF ErrorEvent, NewTurn
<1>3. CASE Done
  BY <1>0, <1>3 DEF Done, ResetLedger
<1>4. CASE Interrupted
  BY <1>0, <1>4 DEF Interrupted, ResetLedger
<1>5. CASE ToolResultTurn
  BY <1>0, <1>5 DEF ToolResultTurn, ToolResult
<1>6. CASE CutToolResult
  BY <1>0, <1>6 DEF CutToolResult, ToolResult
<1>7. ASSUME NEW k \in Kinds, NEW final \in BOOLEAN, Delta(k, final) PROVE BoundsInv'
  <2>1. CASE StreamJson /\ partial
    <3> DEFINE t == Switched(Opened(stream), k)
               u == IF final THEN [t EXCEPT !.block = "none"] ELSE t
    <3>1. stream' = u /\ minted' = Opened(stream).id
      BY <1>7, <2>1 DEF Delta
    <3>2. PICK i \in Nat : i # 0 /\ minted + 1 = i
      <4>1. minted + 1 \in Nat /\ minted + 1 # 0  BY <1>0
      <4> QED BY <4>1
    <3>3. /\ Opened(stream) \in Streams /\ Opened(stream).id # 0
      BY <3>2, Messages DEF StreamInv
    <3>4. t \in Streams /\ t.id = Opened(stream).id
      BY <3>3, SwitchedFields
    <3>5. u.id = t.id
      <4> HIDE DEF t
      <4> QED BY <3>4 DEF Streams
    <3>6. stream'.id = minted' /\ minted' \in Nat  BY <3>1, <3>3, <3>4, <3>5, StreamFields
    <3> QED BY <1>7, <3>6 DEF Delta
  <2>2. CASE ~(StreamJson /\ partial)
    BY <1>0, <1>7, <2>2 DEF Delta
  <2> QED BY <2>1, <2>2
<1>8. ASSUME NEW tools \in 0..2, AssistantTurn(tools) PROVE BoundsInv'
  BY <1>0, <1>8 DEF AssistantTurn
<1>9. ASSUME NEW ok \in BOOLEAN, TurnResult(ok) PROVE BoundsInv'
  BY <1>0, <1>9 DEF TurnResult, NewTurn
<1>10. CASE UNCHANGED vars
  BY <1>10 DEF vars
<1> QED
  BY <1>1, <1>2, <1>3, <1>4, <1>5, <1>6, <1>7, <1>8, <1>9, <1>10 DEF Next

\* The types of the renderer, for any bounds.
LEMMA RendererTypes ==
  ASSUME MaxTurns \in Nat, MaxDeltas \in Nat, MaxRounds \in Nat
  PROVE  Spec => []TypeOK
<1>1. Init => BoundsInv  BY DEF Init, BoundsInv, Closed
<1>2. BoundsInv /\ StreamInv /\ [Next]_vars => BoundsInv'  BY BoundsStep
<1>3. NestInv => StreamInv  BY DEF NestInv
<1>4. Inv /\ NestInv /\ BoundsInv => TypeOK
  <2> SUFFICES ASSUME Inv, NestInv, BoundsInv PROVE TypeOK  OBVIOUS
  <2>1. /\ phase \in Phases /\ results \in Seq(Results) /\ stream \in Streams /\ minted \in Nat
        /\ stream.id = 0 => stream = Closed
        /\ {aborted, rendered, lastError} \subseteq BOOLEAN
    BY DEF Inv, TypeInv, FlagsInv, NestInv, StreamInv
  <2>2. \A i \in 1..Len(results) : results[i] \in Results  BY <2>1
  <2>3. stream.id \in 0..minted /\ stream.block \in Kinds \cup {"none"}
    BY <2>1 DEF BoundsInv, Streams
  <2>4. pending \in 0..(2 * MaxRounds)  BY DEF BoundsInv
  <2> QED BY <2>1, <2>2, <2>3, <2>4 DEF TypeOK, BoundsInv, Results, Own
<1> QED BY <1>1, <1>2, <1>3, <1>4, Invariant, NestInvariant, PTL DEF Spec

-----------------------------------------------------------------------------
(* The theorems *)

\* Every turn has one result of its own, whichever of turn_result, error, done and
\* interrupted ends it, and the process exits by the last one.
THEOREM OneResultAlways == Spec => []OneResultPerTurn
<1>1. Inv => OneResultPerTurn
  BY DEF Inv, TypeInv, ResultInv, ExitInv, OneResultPerTurn, Own, Last
<1> QED
  BY <1>1, Invariant, PTL

\* The reason of an interrupted turn says whether tool calls were cut, for any number of
\* calls, rounds and turns before it (handle_interrupted, pending_tools).
THEOREM ReasonTellsPhaseAlways == Spec => ReasonTellsPhase
<1>1. Inv /\ [Next]_vars =>
        [phase # "idle" /\ Interrupted /\ StreamJson =>
            (Last(results') = "aborted_tools" <=> phase \in {"tools", "cut"})]_vars
  <2> SUFFICES ASSUME Inv, phase # "idle", Interrupted, StreamJson
               PROVE  Last(results') = "aborted_tools" <=> phase \in {"tools", "cut"}
    OBVIOUS
  <2>1. Last(results') = Reason
    <3>1. Reason \in Results
      BY DEF Reason, Results
    <3> QED
      BY <3>1, Appended DEF Interrupted, Inv, TypeInv, Last
  <2>2. phase \in {"streaming", "tools", "cut", "final"}
    BY DEF Interrupted
  <2> QED
    BY <2>1, <2>2 DEF Reason, Inv, TypeInv, ToolsInv
<1> QED
  BY <1>1, Invariant, PTL DEF Spec, ReasonTellsPhase

\* The frames nest in every format: a turn cut anywhere, by a failure, the turn limit or an
\* interrupt, leaves no block and no message open before its snapshot or its result, and the
\* indexes of the blocks rise from 0 in each message (StreamState).
THEOREM FramesAlwaysNest == Spec => []FramesNest
<1>1. NestInv => FramesNest
  BY DEF NestInv
<1> QED
  BY <1>1, NestInvariant, PTL

=============================================================================
