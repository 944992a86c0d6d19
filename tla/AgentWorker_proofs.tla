------------------------- MODULE AgentWorker_proofs -------------------------
(***************************************************************************)
(* Theorems about AgentWorker, for every value of its constants: its       *)
(* types, the one consumer, the paired context, the recovery from every    *)
(* death, and the way of an input, up to the refinement of InputPromise.   *)
(***************************************************************************)
EXTENDS AgentWorker, AgentRefinement, DataInduction, FiniteSetTheorems, SequenceTheorems,
        TLAPS

-----------------------------------------------------------------------------
(* Sequences of inputs and of context entries                              *)

LEMMA SeqRangeType ==
  ASSUME NEW S, NEW s \in Seq(S)
  PROVE  SeqRange(s) \subseteq S
<1>1. DOMAIN s = 1..Len(s)
  BY LenProperties
<1>2. \A i \in 1..Len(s) : s[i] \in S
  BY ElementOfSeq
<1>3. QED
  BY <1>1, <1>2 DEF SeqRange

\* The steer drain takes a part of the queue.
LEMMA SteerLenType ==
  ASSUME NEW q \in Seq(Messages)
  PROVE  SteerLen(q) \in 0..Len(q)
<1> DEFINE P == {n \in 1..Len(q) : \A j \in 1..n : q[j] \notin Media}
<1>1. Len(q) \in Nat  BY LenProperties
<1>2. IsFiniteSet(1..Len(q)) /\ Cardinality(1..Len(q)) = Len(q)
  BY <1>1, FS_Interval
<1>3. P \in SUBSET (1..Len(q))  OBVIOUS
<1>4. IsFiniteSet(P) /\ Cardinality(P) <= Len(q)  BY <1>2, <1>3, FS_Subset
<1>5. Cardinality(P) \in Nat  BY <1>4, FS_CardinalityType
<1> QED BY <1>1, <1>4, <1>5 DEF SteerLen

LEMMA SubSeqType ==
  ASSUME NEW S, NEW s \in Seq(S), NEW m \in Nat \ {0}, NEW n \in Nat, n <= Len(s)
  PROVE  /\ SubSeq(s, m, n) \in Seq(S)
         /\ Len(SubSeq(s, m, n)) \in Nat
<1>1. Len(s) \in Nat  BY LenProperties
<1>2. \A i \in m..n : s[i] \in S  BY <1>1, ElementOfSeq
<1> QED BY <1>2, SubSeqProperties, LenProperties

LEMMA SteeredType ==
  ASSUME inbox \in Seq(Messages)
  PROVE  Steered \in Seq(Messages) /\ Unsteered \in Seq(Messages)
<1>1. Len(inbox) \in Nat /\ SteerLen(inbox) \in Nat /\ SteerLen(inbox) <= Len(inbox)
  BY SteerLenType, LenProperties
<1>2. SubSeq(inbox, 1, SteerLen(inbox)) \in Seq(Messages)  BY <1>1, SubSeqType
<1>3. Steered \in Seq(Messages)  BY <1>2, EmptySeq DEF Steered
<1>4. Len(Steered) + 1 \in Nat \ {0}  BY <1>3, LenProperties
<1>5. Unsteered \in Seq(Messages)  BY <1>1, <1>4, SubSeqType DEF Unsteered
<1> QED BY <1>3, <1>5

LEMMA SingleEntry ==
  ASSUME NEW e \in Entry
  PROVE  /\ <<e>> \in Seq(Entry) /\ Len(<<e>>) = 1 /\ <<e>>[1] = e
<1>1. <<e>> = Append(<<>>, e)  OBVIOUS
<1> QED BY <1>1, EmptySeq, AppendProperties

LEMMA UserEntryType ==
  ASSUME NEW ms \in Seq(Messages)
  PROVE  UserEntry(ms) \in Entry
BY EmptySeq DEF UserEntry, Entry

LEMMA AssistantEntryType ==
  ASSUME NEW cs \in Seq(Calls)
  PROVE  AssistantEntry(cs) \in Entry
BY EmptySeq DEF AssistantEntry, Entry

LEMMA ToolEntriesType ==
  ASSUME NEW cs \in Seq(Calls), NEW note \in Seq(Messages)
  PROVE  /\ ToolEntries(cs, note) \in Seq(Entry)
         /\ Len(ToolEntries(cs, note)) = Len(cs)
         /\ \A k \in 1..Len(cs) : /\ ToolEntries(cs, note)[k].kind = "tool"
                                  /\ ToolEntries(cs, note)[k].calls = <<cs[k]>>
<1> DEFINE T == ToolEntries(cs, note)
<1>1. Len(cs) \in Nat  BY LenProperties
<1>2. ASSUME NEW k \in 1..Len(cs)
      PROVE  T[k] \in Entry /\ T[k].kind = "tool" /\ T[k].calls = <<cs[k]>>
  <2>1. cs[k] \in Calls  BY ElementOfSeq
  <2>2. <<cs[k]>> = Append(<<>>, cs[k])  OBVIOUS
  <2>3. <<cs[k]>> \in Seq(Calls)  BY <2>1, <2>2, EmptySeq, AppendProperties
  <2> QED BY <2>3, EmptySeq DEF ToolEntries, Entry
<1>3. T \in [1..Len(cs) -> Entry]  BY <1>2 DEF ToolEntries
<1>4. T \in Seq(Entry)  BY <1>1, <1>3, SeqDef
<1>5. Len(T) = Len(cs)  BY <1>1, <1>3, <1>4, LenProperties
<1> QED BY <1>2, <1>4, <1>5

\* What a round adds to the context.
RoundEntries(cs, note) == <<AssistantEntry(cs)>> \o ToolEntries(cs, note)

LEMMA RoundEntriesType ==
  ASSUME NEW cs \in Seq(Calls), NEW note \in Seq(Messages)
  PROVE  /\ RoundEntries(cs, note) \in Seq(Entry)
         /\ Len(RoundEntries(cs, note)) = 1 + Len(cs)
         /\ RoundEntries(cs, note)[1] = AssistantEntry(cs)
         /\ \A k \in 1..Len(cs) :
              RoundEntries(cs, note)[1 + k] = ToolEntries(cs, note)[k]
<1> DEFINE a == <<AssistantEntry(cs)>>
           t == ToolEntries(cs, note)
<1>1. a \in Seq(Entry) /\ Len(a) = 1 /\ a[1] = AssistantEntry(cs)
  BY AssistantEntryType, SingleEntry
<1>2. t \in Seq(Entry) /\ Len(t) = Len(cs)  BY ToolEntriesType
<1>3. Len(cs) \in Nat  BY LenProperties
<1> HIDE DEF a, t
<1>4. /\ a \o t \in Seq(Entry)
      /\ Len(a \o t) = 1 + Len(cs)
      /\ \A i \in 1..(1 + Len(cs)) : (a \o t)[i] = IF i <= 1 THEN a[i] ELSE t[i - 1]
  <2>1. /\ a \o t \in Seq(Entry)
        /\ Len(a \o t) = Len(a) + Len(t)
        /\ \A i \in 1..(Len(a) + Len(t)) :
             (a \o t)[i] = IF i <= Len(a) THEN a[i] ELSE t[i - Len(a)]
    BY <1>1, <1>2, ConcatProperties
  <2> QED BY <1>1, <1>2, <2>1
<1>5. \A k \in 1..Len(cs) : (a \o t)[1 + k] = t[k]
  <2> TAKE k \in 1..Len(cs)
  <2>1. 1 + k \in 1..(1 + Len(cs)) /\ ~(1 + k <= 1) /\ (1 + k) - 1 = k  BY <1>3
  <2> QED BY <1>4, <2>1
<1>6. (a \o t)[1] = a[1]  BY <1>3, <1>4
<1> QED BY <1>1, <1>4, <1>5, <1>6 DEF RoundEntries, a, t

\* Appending a round to the context, the way the code's add_messages does.
LEMMA AppendRound ==
  ASSUME NEW s \in Seq(Entry), NEW cs \in Seq(Calls), NEW note \in Seq(Messages)
  PROVE  /\ s \o <<AssistantEntry(cs)>> \o ToolEntries(cs, note)
              = s \o RoundEntries(cs, note)
         /\ s \o RoundEntries(cs, note) \in Seq(Entry)
<1>1. <<AssistantEntry(cs)>> \in Seq(Entry)  BY AssistantEntryType, SingleEntry
<1>2. ToolEntries(cs, note) \in Seq(Entry)  BY ToolEntriesType
<1>3. (s \o <<AssistantEntry(cs)>>) \o ToolEntries(cs, note)
        = s \o (<<AssistantEntry(cs)>> \o ToolEntries(cs, note))
  BY <1>1, <1>2, ConcatAssociative
<1> QED BY <1>3, RoundEntriesType, ConcatProperties DEF RoundEntries
-----------------------------------------------------------------------------
(* Types                                                                   *)

LEMMA NextSplit ==
  ASSUME Next
  PROVE  \/ \E m \in Messages, c \in Calls \cup {NoTask} : Post(m, c)
         \/ \E w \in Workers :
              \/ Take(w) \/ AddUserMessage(w) \/ Generate(w) \/ Retry(w) \/ StartTools(w)
              \/ FinishTurn(w) \/ FailTurn(w) \/ CommitRound(w)
              \/ CancelIdle(w) \/ CancelInHook(w) \/ CancelGeneration(w) \/ AbsorbCancel(w)
              \/ EnterReap(w) \/ Reap(w) \/ CancelReap(w) \/ Crash(w) \/ Renew(w)
         \/ \E c \in Calls :
              \/ Ask(c) \/ AskReturns(c) \/ AskStruck(c) \/ ToolEnds(c) \/ ToolCancelled(c)
         \/ \E i \in Interrupters : Interrupt(i)
         \/ Shutdown
         \/ \E i \in Callers :
              \/ Acquire(i) \/ LadderDone(i) \/ LadderTimeout(i) \/ CallerCancelled(i)
BY DEF Next, WorkerStep, ToolProgress, CallerStep

\* A call on the ladder has a worker to stop.
Targets == \A i \in Callers : call[i] = "ladder" => target[i] \in Workers

\* Only the callers' steps touch the state of the calls, only they and a renewal
\* choose the current worker.
LEMMA OtherSteps ==
  ASSUME [Next]_vars
  PROVE  \/ \E i \in Interrupters : Interrupt(i)
         \/ Shutdown
         \/ \E i \in Callers :
              \/ Acquire(i) \/ LadderDone(i) \/ LadderTimeout(i) \/ CallerCancelled(i)
         \/ UNCHANGED callVars
<1>1. CASE \E m \in Messages, c \in Calls \cup {NoTask} : Post(m, c)
  BY <1>1 DEF Post
<1>2. ASSUME NEW w \in Workers,
              \/ Take(w) \/ AddUserMessage(w) \/ Generate(w) \/ Retry(w) \/ StartTools(w)
              \/ FinishTurn(w) \/ FailTurn(w) \/ CommitRound(w)
              \/ CancelIdle(w) \/ CancelInHook(w) \/ CancelGeneration(w) \/ AbsorbCancel(w)
              \/ EnterReap(w) \/ Reap(w) \/ CancelReap(w) \/ Crash(w) \/ Renew(w)
      PROVE  UNCHANGED callVars
  BY <1>2 DEF Take, AddUserMessage, Generate, Retry, StartTools, FinishTurn, FailTurn,
              CommitRound, CancelIdle, CancelInHook, CancelGeneration, AbsorbCancel,
              EnterReap, Reap, CancelReap, Crash, Renew
<1>3. ASSUME NEW c \in Calls,
             Ask(c) \/ AskReturns(c) \/ AskStruck(c) \/ ToolEnds(c) \/ ToolCancelled(c)
      PROVE  UNCHANGED callVars
  BY <1>3 DEF Ask, AskReturns, AskStruck, ToolEnds, ToolCancelled, ToolStep
<1>4. CASE UNCHANGED vars
  BY <1>4 DEF vars
<1> QED BY <1>1, <1>2, <1>3, <1>4, NextSplit

LEMMA InitType == Init => TypeOK
<1> SUFFICES ASSUME Init PROVE TypeOK  OBVIOUS
<1>1. <<>> \in Seq(Messages) /\ <<>> \in Seq(Entry) /\ <<>> \in Seq(Callers) /\ NoAcc \in Acc
  BY EmptySeq DEF NoAcc, Acc
<1> QED BY <1>1, AgentAssumption
  DEF Init, TypeOK, WorkerPC, Live, InTurn, ToolState

\* Leaving a turn, by whatever way, keeps the types of the worker's state.
LEMMA LeaveTurnType ==
  ASSUME TypeOK, NEW w \in Workers, LeaveTurn(w)
  PROVE  /\ batch' \in [Workers -> Seq(Messages)]
         /\ acc' \in [Workers -> Acc]
         /\ rounds' \in [Workers -> Nat] /\ retries' \in [Workers -> Nat]
<1>1. <<>> \in Seq(Messages) /\ NoAcc \in Acc  BY EmptySeq DEF NoAcc, Acc
<1> QED BY <1>1 DEF TypeOK, LeaveTurn

LEMMA BackToInboxType ==
  ASSUME TypeOK, NEW w \in Workers, BackToInbox(w)
  PROVE  /\ batch' \in [Workers -> Seq(Messages)]
         /\ acc' \in [Workers -> Acc]
         /\ rounds' \in [Workers -> Nat] /\ retries' \in [Workers -> Nat]
         /\ pc' \in [Workers -> WorkerPC] /\ cancelling' \in [Workers -> BOOLEAN]
         /\ ended' \subseteq Workers
BY LeaveTurnType DEF BackToInbox, TypeOK, WorkerPC, Live

LEMMA DiesType ==
  ASSUME TypeOK, NEW w \in Workers, NEW how \in Ended, Dies(w, how)
  PROVE  /\ batch' \in [Workers -> Seq(Messages)]
         /\ acc' \in [Workers -> Acc]
         /\ rounds' \in [Workers -> Nat] /\ retries' \in [Workers -> Nat]
         /\ pc' \in [Workers -> WorkerPC] /\ cancelling' \in [Workers -> BOOLEAN]
         /\ ended' \subseteq Workers
BY LeaveTurnType DEF Dies, TypeOK, WorkerPC

LEMMA CommitType ==
  ASSUME TypeOK, NEW w \in Workers,
         CommitWithSteer(w) \/ LoseSteered(w) \/ LoseRound(w)
  PROVE  /\ chain' \in Seq(Entry) /\ inbox' \in Seq(Messages)
         /\ abandoned' \subseteq Messages
         /\ UNCHANGED <<posted, waiters, answers>>
<1>1. Steered \in Seq(Messages) /\ Unsteered \in Seq(Messages)  BY SteeredType DEF TypeOK
<1>2. SeqRange(Steered) \subseteq Messages  BY <1>1, SeqRangeType
<1>3. acc[w].calls \in Seq(Calls)  BY DEF TypeOK, Acc
<1>4. CASE CommitWithSteer(w)
  BY <1>1, <1>3, <1>4, AppendRound DEF CommitWithSteer, TypeOK
<1>5. CASE LoseSteered(w)
  BY <1>1, <1>2, <1>5 DEF LoseSteered, TypeOK
<1>6. CASE LoseRound(w)
  BY <1>6 DEF LoseRound, TypeOK, inboxVars
<1> QED BY <1>4, <1>5, <1>6

LEMMA CommitCutOffType ==
  ASSUME TypeOK, NEW w \in Workers, UNCHANGED chain \/ CommitCutOff(w)
  PROVE  chain' \in Seq(Entry)
<1>1. chain \in Seq(Entry)  BY DEF TypeOK
<1>2. AssistantEntry(<<>>) \in Entry  BY EmptySeq, AssistantEntryType
<1>3. Append(chain, AssistantEntry(<<>>)) \in Seq(Entry)  BY <1>1, <1>2, AppendProperties
<1> QED BY <1>1, <1>3 DEF CommitCutOff

LEMMA ConcludeType ==
  ASSUME TypeOK, NEW i \in Callers, NEW w \in Workers, NEW stopped, Conclude(i, w, stopped)
  PROVE  /\ pc' \in [Workers -> WorkerPC] /\ cur' \in Workers
         /\ armed' \subseteq Workers
         /\ call' \in [Callers -> {"idle", "lock", "ladder", "done"}]
         /\ holder' \in Callers \cup {NoTask}
BY DEF TypeOK, Conclude, SpawnWorker, WorkerPC, Live

LEMMA FirstRungType ==
  ASSUME TypeOK, NEW i \in Callers, FirstRung(i)
  PROVE  /\ pc' \in [Workers -> WorkerPC] /\ cur' \in Workers
         /\ armed' \subseteq Workers
         /\ call' \in [Callers -> {"idle", "lock", "ladder", "done"}]
         /\ holder' \in Callers \cup {NoTask}
         /\ cancelling' \in [Workers -> BOOLEAN]
         /\ attempt' \in [Callers -> Nat]
         /\ target' \in [Callers -> Workers \cup {NoTask}]
<1>1. cur \in Workers  BY DEF TypeOK
<1>2. CASE pc[cur] \in Ended
  <2>1. Conclude(i, cur, TRUE) /\ UNCHANGED <<cancelling, attempt>>
    BY <1>2 DEF FirstRung
  <2>2. target' = [target EXCEPT ![i] = cur]  BY DEF FirstRung
  <2> HIDE DEF FirstRung
  <2> QED BY <1>1, <2>1, <2>2, ConcludeType DEF TypeOK
<1>3. CASE pc[cur] \notin Ended
  <2>1. /\ cancelling' = [cancelling EXCEPT ![cur] = TRUE]
        /\ attempt' = [attempt EXCEPT ![i] = 1]
        /\ call' = [call EXCEPT ![i] = "ladder"]
        /\ target' = [target EXCEPT ![i] = cur]
        /\ holder' = i
        /\ UNCHANGED <<pc, cur, armed>>
    BY <1>3 DEF FirstRung
  <2> QED BY <1>1, <2>1 DEF TypeOK
<1> QED BY <1>2, <1>3

LEMMA ClearInboxType ==
  ASSUME TypeOK, NEW i \in Callers, ClearInbox(i)
  PROVE  /\ posted' \in Seq(Messages) /\ inbox' \in Seq(Messages)
         /\ waiters' \subseteq Calls /\ answers' \subseteq Messages
         /\ tool' \in [Calls -> ToolState]
         /\ discarded' \in [Callers -> SUBSET Messages]
<1>1. SeqRange(inbox) \subseteq Messages  BY SeqRangeType DEF TypeOK
<1>2. "struck" \in ToolState  BY DEF ToolState
<1>3. <<>> \in Seq(Messages)  BY EmptySeq
<1> QED BY <1>1, <1>2, <1>3 DEF ClearInbox, TypeOK
\* Every variable keeps its type.
LEMMA TypeStep == TypeOK /\ Targets /\ [Next]_vars => TypeOK'
<1> SUFFICES ASSUME TypeOK, Targets, [Next]_vars PROVE TypeOK'
  OBVIOUS
<1>1. ASSUME NEW m \in Messages, NEW c \in Calls \cup {NoTask}, Post(m, c)
      PROVE  TypeOK'
  <2>1. Append(posted, m) \in Seq(Messages) /\ Append(inbox, m) \in Seq(Messages)
    BY AppendProperties DEF TypeOK
  <2>2. "answered" \in ToolState  BY DEF ToolState
  <2>3. CASE c \in waiters /\ tool[c] = "ask"
    BY <1>1, <2>1, <2>2, <2>3 DEF Post, TypeOK, turnVars, taskVars, callVars
  <2>4. CASE ~(c \in waiters /\ tool[c] = "ask")
    BY <1>1, <2>1, <2>4 DEF Post, TypeOK, turnVars, taskVars, callVars
  <2> QED BY <2>3, <2>4
<1>2. ASSUME NEW w \in Workers, Take(w)
      PROVE  TypeOK'
  <2>1. <<>> \in Seq(Messages) /\ "hook" \in WorkerPC
    BY EmptySeq DEF WorkerPC, Live, InTurn
  <2> QED BY <1>2, <2>1 DEF Take, TypeOK, taskVars, callVars
<1>3. ASSUME NEW w \in Workers, AddUserMessage(w)
      PROVE  TypeOK'
  <2>1. UserEntry(batch[w]) \in Entry  BY UserEntryType DEF TypeOK
  <2>2. Append(chain, UserEntry(batch[w])) \in Seq(Entry)
    BY <2>1, AppendProperties DEF TypeOK
  <2>3. <<>> \in Seq(Messages) /\ "llm" \in WorkerPC
    BY EmptySeq DEF WorkerPC, Live, InTurn
  <2>4. CASE BackToInbox(w)
    BY <1>3, <2>2, <2>4, BackToInboxType
    DEF AddUserMessage, TypeOK, inboxVars, callVars
  <2>5. CASE ~BackToInbox(w)
    BY ZenonT(30), <1>3, <2>2, <2>3, <2>5 DEF AddUserMessage, TypeOK, inboxVars, callVars
  <2> QED BY <2>4, <2>5
<1>4. ASSUME NEW w \in Workers, Generate(w)
      PROVE  TypeOK'
  <2>1. acc[w] \in Acc  BY DEF TypeOK
  <2>2. acc' \in [Workers -> Acc] /\ tool' \in [Calls -> ToolState]
    <3>1. CASE acc' = [acc EXCEPT ![w].text = TRUE] /\ UNCHANGED tool
      BY <2>1, <3>1 DEF TypeOK, Acc
    <3>2. CASE acc' = [acc EXCEPT ![w].open = TRUE] /\ UNCHANGED tool
      BY <2>1, <3>2 DEF TypeOK, Acc
    <3>3. ASSUME NEW c \in Calls,
                 acc' = [acc EXCEPT ![w].open = FALSE, ![w].calls = Append(@, c)],
                 tool' = [tool EXCEPT ![c] = "named"]
          PROVE  acc' \in [Workers -> Acc] /\ tool' \in [Calls -> ToolState]
      <4>1. Append(acc[w].calls, c) \in Seq(Calls)  BY <2>1, AppendProperties DEF Acc
      <4> QED BY <2>1, <3>3, <4>1 DEF TypeOK, Acc, ToolState
    <3> QED BY <1>4, <3>1, <3>2, <3>3 DEF Generate
  <2> QED BY <1>4, <2>2 DEF Generate, TypeOK, inboxVars, taskVars, callVars
<1>5. ASSUME NEW w \in Workers, Retry(w)
      PROVE  TypeOK'
  <2>1. NoAcc \in Acc  BY EmptySeq DEF NoAcc, Acc
  <2>2. chain' \in Seq(Entry)  BY <1>5, CommitCutOffType DEF Retry
  <2> QED BY SMTT(30), <1>5, <2>1, <2>2 DEF Retry, TypeOK, inboxVars, taskVars, callVars
<1>6. ASSUME NEW w \in Workers, StartTools(w)
      PROVE  TypeOK'
  BY <1>6 DEF StartTools, TypeOK, ToolState, WorkerPC, Live, InTurn, inboxVars, turnVars,
              taskVars, callVars
<1>7. ASSUME NEW w \in Workers, FinishTurn(w)
      PROVE  TypeOK'
  <2>1. AssistantEntry(<<>>) \in Entry  BY EmptySeq, AssistantEntryType
  <2>2. Append(chain, AssistantEntry(<<>>)) \in Seq(Entry)
    BY <2>1, AppendProperties DEF TypeOK
  <2> QED BY <1>7, <2>2, BackToInboxType DEF FinishTurn, TypeOK, inboxVars, callVars
<1>8. ASSUME NEW w \in Workers, FailTurn(w)
      PROVE  TypeOK'
  <2>1. SeqRange(batch[w]) \subseteq Messages  BY SeqRangeType DEF TypeOK
  <2>2. chain' \in Seq(Entry)  BY <1>8, CommitCutOffType DEF FailTurn
  <2> QED BY <1>8, <2>1, <2>2, BackToInboxType DEF FailTurn, TypeOK, inboxVars, callVars
<1>9. ASSUME NEW w \in Workers, CommitRound(w)
      PROVE  TypeOK'
  <2>1. /\ chain' \in Seq(Entry) /\ inbox' \in Seq(Messages)
        /\ abandoned' \subseteq Messages
        /\ UNCHANGED <<posted, waiters, answers>>
    BY <1>9, CommitType DEF CommitRound
  <2>2. NoAcc \in Acc  BY EmptySeq DEF NoAcc, Acc
  <2>3. CASE BackToInbox(w)
    BY <1>9, <2>1, <2>3, BackToInboxType DEF CommitRound, TypeOK, callVars
  <2>4. CASE ~BackToInbox(w)
    <3>1. /\ pc' = [pc EXCEPT ![w] = "llm"]
          /\ acc' = [acc EXCEPT ![w] = NoAcc]
          /\ rounds' = [rounds EXCEPT ![w] = @ + 1]
          /\ retries' = [retries EXCEPT ![w] = 0]
          /\ UNCHANGED <<batch, cancelling, ended, tool, cur, armed, callVars, crashes>>
      BY <1>9, <2>4 DEF CommitRound
    <3>2. "llm" \in WorkerPC  BY DEF WorkerPC, Live, InTurn
    <3>3. pc' \in [Workers -> WorkerPC] /\ acc' \in [Workers -> Acc]
      BY <2>2, <3>1, <3>2 DEF TypeOK
    <3>4. rounds' \in [Workers -> Nat] /\ retries' \in [Workers -> Nat]
      BY <3>1 DEF TypeOK
    <3> QED BY <2>1, <3>1, <3>3, <3>4 DEF TypeOK, callVars
  <2> QED BY <2>3, <2>4
<1>10. ASSUME NEW w \in Workers, CancelIdle(w) \/ CancelReap(w)
       PROVE  TypeOK'
  BY <1>10, DiesType DEF CancelIdle, CancelReap, TypeOK, Ended, inboxVars, callVars
<1>11. ASSUME NEW w \in Workers, CancelInHook(w)
       PROVE  TypeOK'
  <2>1. SeqRange(batch[w]) \subseteq Messages  BY SeqRangeType DEF TypeOK
  <2> QED BY <1>11, <2>1, DiesType DEF CancelInHook, TypeOK, Ended, inboxVars, callVars
<1>12. ASSUME NEW w \in Workers, CancelGeneration(w)
       PROVE  TypeOK'
  <2>1. acc[w].calls \in Seq(Calls) /\ <<>> \in Seq(Messages)
    BY EmptySeq DEF TypeOK, Acc
  <2>2. chain \o <<AssistantEntry(acc[w].calls)>> \o ToolEntries(acc[w].calls, <<>>)
          \in Seq(Entry)
    <3>1. chain \in Seq(Entry)  BY DEF TypeOK
    <3>2. chain \o RoundEntries(acc[w].calls, <<>>) \in Seq(Entry)
      BY <2>1, <3>1, AppendRound
    <3>3. chain \o <<AssistantEntry(acc[w].calls)>> \o ToolEntries(acc[w].calls, <<>>)
            = chain \o RoundEntries(acc[w].calls, <<>>)
      BY <2>1, <3>1, AppendRound
    <3> QED BY <3>2, <3>3
  <2>3. chain' \in Seq(Entry)  BY <1>12, <2>2 DEF CancelGeneration, TypeOK
  <2>4. Dies(w, "cancelled") \/ BackToInbox(w)  BY <1>12 DEF CancelGeneration
  <2>5. UNCHANGED <<inboxVars, tool, abandoned, cur, armed, callVars, crashes>>
    BY <1>12 DEF CancelGeneration
  <2>6. "cancelled" \in Ended  BY DEF Ended
  <2>7. CASE Dies(w, "cancelled")
    BY <2>3, <2>5, <2>6, <2>7, DiesType DEF TypeOK, inboxVars, callVars
  <2>8. CASE BackToInbox(w)
    BY <2>3, <2>5, <2>8, BackToInboxType DEF TypeOK, inboxVars, callVars
  <2> QED BY <2>4, <2>7, <2>8
<1>13. ASSUME NEW w \in Workers, AbsorbCancel(w)
       PROVE  TypeOK'
  BY <1>13 DEF AbsorbCancel, TypeOK, inboxVars, turnVars, taskVars, callVars
<1>14. ASSUME NEW w \in Workers, EnterReap(w)
       PROVE  TypeOK'
  BY <1>14 DEF EnterReap, TypeOK, WorkerPC, Live, InTurn, inboxVars, turnVars, taskVars,
               callVars
<1>15. ASSUME NEW w \in Workers, Reap(w)
       PROVE  TypeOK'
  <2>1. /\ chain' \in Seq(Entry) /\ inbox' \in Seq(Messages)
        /\ abandoned' \subseteq Messages
        /\ UNCHANGED <<posted, waiters, answers>>
    BY <1>15, CommitType DEF Reap
  <2>2. UNCHANGED <<tool, cur, armed, callVars, crashes>>  BY <1>15 DEF Reap
  <2>3. "cancelled" \in Ended  BY DEF Ended
  <2>4. CASE Dies(w, "cancelled")
    BY <2>1, <2>2, <2>3, <2>4, DiesType DEF TypeOK, callVars
  <2>5. CASE BackToInbox(w)
    BY <2>1, <2>2, <2>5, BackToInboxType DEF TypeOK, callVars
  <2> QED BY <1>15, <2>4, <2>5 DEF Reap
<1>16. ASSUME NEW w \in Workers, Crash(w)
       PROVE  TypeOK'
  <2>1. SeqRange(batch[w]) \subseteq Messages  BY SeqRangeType DEF TypeOK
  <2>2. /\ crashes' = crashes + 1
        /\ abandoned' = abandoned \cup SeqRange(batch[w])
        /\ Dies(w, "crashed")
        /\ UNCHANGED <<inboxVars, tool, chain, cur, armed, callVars>>
    BY <1>16 DEF Crash
  <2>3. "crashed" \in Ended  BY DEF Ended
  <2>4. /\ batch' \in [Workers -> Seq(Messages)]
        /\ acc' \in [Workers -> Acc]
        /\ rounds' \in [Workers -> Nat] /\ retries' \in [Workers -> Nat]
        /\ pc' \in [Workers -> WorkerPC] /\ cancelling' \in [Workers -> BOOLEAN]
        /\ ended' \subseteq Workers
    BY <2>2, <2>3, DiesType
  <2>5. abandoned' \subseteq Messages /\ crashes' \in Nat
    BY <2>1, <2>2 DEF TypeOK
  <2> QED BY <2>2, <2>4, <2>5 DEF TypeOK, inboxVars, callVars
<1>17. ASSUME NEW w \in Workers, Renew(w)
       PROVE  TypeOK'
  BY <1>17 DEF Renew, SpawnWorker, TypeOK, WorkerPC, Live, inboxVars, turnVars, callVars
<1>18. ASSUME NEW c \in Calls,
              Ask(c) \/ AskReturns(c) \/ AskStruck(c) \/ ToolEnds(c) \/ ToolCancelled(c)
       PROVE  TypeOK'
  <2>1. waiters' \subseteq Calls
    BY <1>18 DEF Ask, AskReturns, AskStruck, ToolEnds, ToolCancelled, TypeOK
  <2>2. PICK from \in SUBSET ToolState, to \in ToolState : ToolStep(c, from, to)
    BY <1>18 DEF Ask, AskReturns, AskStruck, ToolEnds, ToolCancelled, ToolState
  <2> QED BY <2>1, <2>2 DEF ToolStep, TypeOK, turnVars, taskVars, callVars
<1>19. ASSUME NEW i \in Interrupters, Interrupt(i)
       PROVE  TypeOK'
  <2>1. i \in Callers  BY DEF Callers
  <2>2. CASE LockFree
    BY <1>19, <2>1, <2>2, ClearInboxType, FirstRungType DEF Interrupt, TypeOK, turnVars
  <2>3. CASE ~LockFree
    <3>1. Append(lockq, i) \in Seq(Callers)  BY <2>1, AppendProperties DEF TypeOK
    <3> QED BY <1>19, <2>1, <2>3, <3>1, ClearInboxType
            DEF Interrupt, WaitForLock, TypeOK, turnVars
  <2> QED BY <2>2, <2>3
<1>20. CASE Shutdown
  <2>1. Closer \in Callers  BY DEF Callers
  <2>2. CASE LockFree
    BY <1>20, <2>1, <2>2, ClearInboxType, FirstRungType DEF Shutdown, TypeOK, turnVars
  <2>3. CASE ~LockFree
    <3>1. Append(lockq, Closer) \in Seq(Callers)  BY <2>1, AppendProperties DEF TypeOK
    <3> QED BY <1>20, <2>1, <2>3, <3>1
            DEF Shutdown, WaitForLock, TypeOK, inboxVars, turnVars
  <2> QED BY <2>2, <2>3
<1>21. ASSUME NEW i \in Callers, Acquire(i)
       PROVE  TypeOK'
  <2>1. Tail(lockq) \in Seq(Callers)
    BY <1>21, HeadTailProperties DEF Acquire, TypeOK
  <2>2. FirstRung(i)  BY <1>21 DEF Acquire
  <2>3. CASE i = Closer
    BY <1>21, <2>1, <2>2, <2>3, ClearInboxType, FirstRungType DEF Acquire, TypeOK, turnVars
  <2>4. CASE i # Closer
    BY <1>21, <2>1, <2>2, <2>4, FirstRungType DEF Acquire, TypeOK, inboxVars, turnVars
  <2> QED BY <2>3, <2>4
<1>22. ASSUME NEW i \in Callers, LadderDone(i) \/ CallerCancelled(i)
       PROVE  TypeOK'
  <2>1. target[i] \in Workers  BY <1>22 DEF Targets, LadderDone, CallerCancelled
  <2> QED BY <1>22, <2>1, ConcludeType
          DEF LadderDone, CallerCancelled, TypeOK, inboxVars, turnVars
<1>23. ASSUME NEW i \in Callers, LadderTimeout(i)
       PROVE  TypeOK'
  <2>1. target[i] \in Workers  BY <1>23 DEF Targets, LadderTimeout
  <2>2. UNCHANGED <<inboxVars, turnVars, tool, chain, abandoned, ended, closing, target,
                    lockq, discarded, crashes>>
    BY <1>23 DEF LadderTimeout
  <2>3. CASE attempt[i] < MaxCancels
    <3>1. /\ attempt' = [attempt EXCEPT ![i] = @ + 1]
          /\ cancelling' = [cancelling EXCEPT ![target[i]] = TRUE]
          /\ UNCHANGED <<pc, cur, armed, call, holder>>
      BY <1>23, <2>3 DEF LadderTimeout
    <3> QED BY SMTT(30), <2>1, <2>2, <3>1 DEF TypeOK, inboxVars, turnVars
  <2>4. CASE ~(attempt[i] < MaxCancels)
    <3>1. Conclude(i, target[i], FALSE) /\ UNCHANGED <<attempt, cancelling>>
      BY <1>23, <2>4 DEF LadderTimeout
    <3> QED BY <2>1, <2>2, <3>1, ConcludeType DEF TypeOK, inboxVars, turnVars
  <2> QED BY <2>3, <2>4
<1>24. CASE UNCHANGED vars
  BY <1>24 DEF vars, TypeOK, inboxVars, turnVars, taskVars, callVars
<1> QED
  BY <1>1, <1>2, <1>3, <1>4, <1>5, <1>6, <1>7, <1>8, <1>9, <1>10, <1>11, <1>12, <1>13,
     <1>14, <1>15, <1>16, <1>17, <1>18, <1>19, <1>20, <1>21, <1>22, <1>23, <1>24, NextSplit
LEMMA TargetsStep == TypeOK /\ Targets /\ [Next]_vars => Targets'
<1> SUFFICES ASSUME TypeOK, Targets, [Next]_vars PROVE Targets'
  OBVIOUS
<1>1. CASE UNCHANGED <<call, target>>
  BY <1>1 DEF Targets
<1>2. ASSUME NEW i \in Callers, NEW w \in Workers, NEW stopped,
             Conclude(i, w, stopped), UNCHANGED target
      PROVE  Targets'
  BY <1>2 DEF Conclude, Targets, TypeOK
<1>3. ASSUME NEW i \in Callers, FirstRung(i)
      PROVE  Targets'
  <2>1. CASE pc[cur] \in Ended
    BY <1>3, <2>1 DEF FirstRung, Conclude, Targets, TypeOK
  <2>2. CASE pc[cur] \notin Ended
    BY <1>3, <2>2 DEF FirstRung, Targets, TypeOK
  <2> QED BY <2>1, <2>2
<1>4. ASSUME NEW i \in Callers, WaitForLock(i)
      PROVE  Targets'
  BY <1>4 DEF WaitForLock, Targets, TypeOK
<1>5. ASSUME NEW i \in Interrupters, Interrupt(i)
      PROVE  Targets'
  BY <1>3, <1>4, <1>5 DEF Interrupt, Callers
<1>6. CASE Shutdown
  BY <1>3, <1>4, <1>6 DEF Shutdown, Callers
<1>7. ASSUME NEW i \in Callers, Acquire(i)
      PROVE  Targets'
  BY <1>3, <1>7 DEF Acquire
<1>8. ASSUME NEW i \in Callers, LadderDone(i) \/ LadderTimeout(i) \/ CallerCancelled(i)
      PROVE  Targets'
  <2>1. target[i] \in Workers
    BY <1>8 DEF Targets, LadderDone, LadderTimeout, CallerCancelled
  <2> QED BY <1>1, <1>2, <1>8, <2>1 DEF LadderDone, LadderTimeout, CallerCancelled
<1>9. QED
  BY <1>1, <1>5, <1>6, <1>7, <1>8, OtherSteps DEF callVars
\* Every variable of the agent keeps its type, in every reachable state.
THEOREM TypeCorrect == Spec => [](TypeOK /\ Targets)
<1>1. Init => TypeOK /\ Targets
  BY InitType DEF Init, Targets
<1>2. TypeOK /\ Targets /\ [Next]_vars => (TypeOK /\ Targets)'
  BY TypeStep, TargetsStep
<1>3. QED
  BY <1>1, <1>2, PTL DEF Spec

-----------------------------------------------------------------------------
(* One consumer                                                            *)

\* A worker whose done callbacks are due has ended.
EndedIsDead == \A w \in ended : pc[w] \in Ended

\* What a step may do to the workers: nothing, move one live worker, or put a
\* new worker in the place of a current one that has ended, before shutdown.
Still == UNCHANGED <<pc, cur>> /\ ended' \subseteq ended

Moves(w) ==
  /\ pc[w] \in Live
  /\ cur' = cur
  /\ \/ /\ \E x \in Live : pc' = [pc EXCEPT ![w] = x]
        /\ ended' \subseteq ended
     \/ /\ \E x \in Ended : pc' = [pc EXCEPT ![w] = x]
        /\ ended' \subseteq ended \cup {w}

Rebuilds == ~closing /\ pc[cur] \in Ended /\ SpawnWorker /\ ended' \subseteq ended

LEMMA BackToInboxMoves ==
  ASSUME NEW w \in Workers, pc[w] \in Live, BackToInbox(w), UNCHANGED cur
  PROVE  Moves(w)
BY DEF BackToInbox, Moves, Live

LEMMA DiesMoves ==
  ASSUME NEW w \in Workers, NEW how \in Ended, pc[w] \in Live, Dies(w, how), UNCHANGED cur
  PROVE  Moves(w)
BY DEF Dies, Moves

LEMMA ConcludeShape ==
  ASSUME NEW i \in Callers, NEW w \in Workers, NEW stopped \in BOOLEAN,
         Conclude(i, w, stopped), stopped => pc[w] \in Ended, ended' \subseteq ended
  PROVE  Still \/ Rebuilds
BY DEF Conclude, Still, Rebuilds

LEMMA FirstRungShape ==
  ASSUME TypeOK, NEW i \in Callers, FirstRung(i), ended' \subseteq ended
  PROVE  Still \/ Rebuilds
<1>1. CASE pc[cur] \in Ended
  <2>1. Conclude(i, cur, TRUE)  BY <1>1 DEF FirstRung
  <2> QED BY <1>1, <2>1, ConcludeShape DEF TypeOK
<1>2. CASE pc[cur] \notin Ended
  BY <1>2 DEF FirstRung, Still
<1> QED BY <1>1, <1>2

LEMMA StepShape ==
  ASSUME TypeOK, Targets, EndedIsDead, [Next]_vars
  PROVE  Still \/ Rebuilds \/ \E w \in Workers : Moves(w)
<1>1. ASSUME NEW m \in Messages, NEW c \in Calls \cup {NoTask}, Post(m, c)
      PROVE  Still
  BY <1>1 DEF Post, Still, taskVars
<1>2. ASSUME NEW w \in Workers,
             \/ Generate(w) \/ Retry(w) \/ AbsorbCancel(w)
      PROVE  Still
  BY <1>2 DEF Generate, Retry, AbsorbCancel, Still, taskVars
<1>3. ASSUME NEW w \in Workers,
             \/ Take(w) \/ StartTools(w) \/ EnterReap(w)
      PROVE  Moves(w)
  BY <1>3 DEF Take, StartTools, EnterReap, Moves, Live, InTurn, taskVars
<1>4. ASSUME NEW w \in Workers,
             AddUserMessage(w) \/ FinishTurn(w) \/ FailTurn(w) \/ CommitRound(w)
      PROVE  Moves(w)
  <2>1. pc[w] \in Live /\ cur' = cur
    BY <1>4 DEF AddUserMessage, FinishTurn, FailTurn, CommitRound, Live, InTurn
  <2>2. BackToInbox(w) \/ (pc' = [pc EXCEPT ![w] = "llm"] /\ ended' = ended)
    BY <1>4 DEF AddUserMessage, FinishTurn, FailTurn, CommitRound
  <2>3. CASE pc' = [pc EXCEPT ![w] = "llm"] /\ ended' = ended
    BY <2>1, <2>3 DEF Moves, Live, InTurn
  <2> QED BY <2>1, <2>2, <2>3, BackToInboxMoves
<1>5. ASSUME NEW w \in Workers,
             \/ CancelIdle(w) \/ CancelInHook(w) \/ CancelGeneration(w)
             \/ Reap(w) \/ CancelReap(w) \/ Crash(w)
      PROVE  Moves(w)
  <2>1. pc[w] \in Live /\ cur' = cur
    BY <1>5 DEF CancelIdle, CancelInHook, CancelGeneration, Reap, CancelReap, Crash, Live,
                InTurn
  <2>2. BackToInbox(w) \/ Dies(w, "cancelled") \/ Dies(w, "crashed")
    BY <1>5 DEF CancelIdle, CancelInHook, CancelGeneration, Reap, CancelReap, Crash
  <2> QED BY <2>1, <2>2, BackToInboxMoves, DiesMoves DEF Ended
<1>6. ASSUME NEW w \in Workers, Renew(w)
      PROVE  Still \/ Rebuilds
  BY <1>6 DEF Renew, Still, Rebuilds, EndedIsDead
<1>7. ASSUME NEW c \in Calls,
             Ask(c) \/ AskReturns(c) \/ AskStruck(c) \/ ToolEnds(c) \/ ToolCancelled(c)
      PROVE  Still
  BY <1>7 DEF Ask, AskReturns, AskStruck, ToolEnds, ToolCancelled, ToolStep, Still, taskVars
<1>8. ASSUME NEW i \in Callers, FirstRung(i), ended' = ended
      PROVE  Still \/ Rebuilds
  BY <1>8, FirstRungShape
<1>9. ASSUME NEW i \in Callers, WaitForLock(i), ended' = ended
      PROVE  Still
  BY <1>9 DEF WaitForLock, Still
<1>10. ASSUME NEW i \in Interrupters, Interrupt(i)
       PROVE  Still \/ Rebuilds
  BY <1>8, <1>9, <1>10 DEF Interrupt, Callers
<1>11. CASE Shutdown
  BY <1>8, <1>9, <1>11 DEF Shutdown, Callers
<1>12. ASSUME NEW i \in Callers, Acquire(i)
       PROVE  Still \/ Rebuilds
  BY <1>8, <1>12 DEF Acquire
<1>13. ASSUME NEW i \in Callers, LadderDone(i) \/ LadderTimeout(i) \/ CallerCancelled(i)
       PROVE  Still \/ Rebuilds
  <2>1. target[i] \in Workers /\ ended' = ended
    BY <1>13 DEF Targets, LadderDone, LadderTimeout, CallerCancelled
  <2>2. CASE UNCHANGED <<pc, cur>>
    BY <2>1, <2>2 DEF Still
  <2>3. CASE Conclude(i, target[i], TRUE) /\ pc[target[i]] \in Ended
    BY <2>1, <2>3, ConcludeShape
  <2>4. CASE Conclude(i, target[i], FALSE)
    BY <2>1, <2>4, ConcludeShape
  <2>5. CASE Conclude(i, target[i], pc[target[i]] \in Ended)
    BY <2>1, <2>5 DEF Conclude, Still, Rebuilds
  <2> QED BY <1>13, <2>2, <2>3, <2>4, <2>5 DEF LadderDone, LadderTimeout, CallerCancelled
<1>14. CASE UNCHANGED vars
  BY <1>14 DEF vars, taskVars, Still
<1> QED
  BY <1>1, <1>2, <1>3, <1>4, <1>5, <1>6, <1>7, <1>10, <1>11, <1>12, <1>13, <1>14, NextSplit

ConsumerInv == OneConsumer /\ EndedIsDead

LEMMA ConsumerStep ==
  ASSUME TypeOK, Targets, ConsumerInv, [Next]_vars
  PROVE  ConsumerInv'
<1>1. CASE Still
  BY <1>1 DEF Still, ConsumerInv, OneConsumer, EndedIsDead
<1>2. CASE Rebuilds
  <2>1. PICK w \in Workers : pc[w] = "none" /\ pc' = [pc EXCEPT ![w] = "get"] /\ cur' = w
    BY <1>2 DEF Rebuilds, SpawnWorker
  <2>2. \A v \in Workers : pc[v] \notin Live
    BY <1>2 DEF Rebuilds, ConsumerInv, OneConsumer, Live, InTurn, Ended
  <2>3. OneConsumer'
    BY <2>1, <2>2 DEF OneConsumer, TypeOK
  <2>4. w \notin ended
    BY <2>1 DEF ConsumerInv, EndedIsDead, Ended
  <2>5. EndedIsDead'
    BY <1>2, <2>1, <2>4 DEF Rebuilds, ConsumerInv, EndedIsDead, TypeOK
  <2> QED BY <2>3, <2>5 DEF ConsumerInv
<1>3. ASSUME NEW w \in Workers, Moves(w)
      PROVE  ConsumerInv'
  <2>1. w = cur  BY <1>3 DEF Moves, ConsumerInv, OneConsumer
  <2>2. OneConsumer'
    BY <1>3, <2>1 DEF Moves, ConsumerInv, OneConsumer, TypeOK
  <2>3. w \notin ended
    BY <1>3 DEF Moves, ConsumerInv, EndedIsDead, Live, InTurn, Ended
  <2>4. EndedIsDead'
    BY <1>3, <2>3 DEF Moves, ConsumerInv, EndedIsDead, TypeOK
  <2> QED BY <2>2, <2>4 DEF ConsumerInv
<1> QED BY <1>1, <1>2, <1>3, StepShape DEF ConsumerInv

\* The inbox never has two consumers: interrupts, the renewal of a retained
\* worker and the renewal after a crash may race for the same death, and every
\* one of them rebuilds only a worker that is still current and has ended.
THEOREM OneConsumerAlways == Spec => []OneConsumer
<1>1. Init => ConsumerInv
  BY DEF Init, ConsumerInv, OneConsumer, EndedIsDead, Live, InTurn
<1>2. TypeOK /\ Targets /\ ConsumerInv /\ [Next]_vars => ConsumerInv'
  BY ConsumerStep
<1>3. ConsumerInv => OneConsumer
  BY DEF ConsumerInv
<1>4. QED
  BY <1>1, <1>2, <1>3, TypeCorrect, PTL DEF Spec

LEMMA NoRevivalStep ==
  ASSUME TypeOK, Targets, EndedIsDead, [Next]_vars
  PROVE  closing => \A w \in Workers : pc[w] \notin Live => pc'[w] \notin Live
BY StepShape DEF Still, Rebuilds, Moves, TypeOK

\* After shutdown() no interrupt, no queued interrupt and no done callback
\* brings a worker to life.
THEOREM NoRevivalAlways == Spec => NoRevival
<1>1. Init => ConsumerInv
  BY DEF Init, ConsumerInv, OneConsumer, EndedIsDead, Live, InTurn
<1>2. TypeOK /\ Targets /\ ConsumerInv /\ [Next]_vars => ConsumerInv'
  BY ConsumerStep
<1>3. TypeOK /\ Targets /\ ConsumerInv /\ [Next]_vars
        => [closing => \A w \in Workers : pc[w] \notin Live => pc'[w] \notin Live]_vars
  BY NoRevivalStep DEF ConsumerInv
<1>4. QED
  BY <1>1, <1>2, <1>3, TypeCorrect, PTL DEF Spec, NoRevival

\* interrupt() drops the backlog it finds on entry, before it waits for the
\* lock, and nothing later.
THEOREM DroppedOnEntryAlways == Spec => DroppedOnEntry
<1>1. TypeOK /\ [Next]_vars
        => [\A i \in Interrupters : discarded'[i] # discarded[i] => call[i] = "idle"]_vars
  <2> SUFFICES ASSUME TypeOK, [Next]_vars, NEW i \in Interrupters, discarded'[i] # discarded[i]
               PROVE  call[i] = "idle"
    OBVIOUS
  <2>1. ASSUME NEW j \in Callers, ClearInbox(j)
        PROVE  j = i
    BY <2>1 DEF ClearInbox, TypeOK, Callers
  <2>2. ASSUME NEW j \in Interrupters, Interrupt(j)
        PROVE  call[i] = "idle"
    BY <2>1, <2>2 DEF Interrupt, Callers
  <2>3. CASE Shutdown
    BY <2>1, <2>3, AgentAssumption DEF Shutdown, Callers
  <2>4. ASSUME NEW j \in Callers, Acquire(j)
        PROVE  FALSE
    BY <2>1, <2>4, AgentAssumption DEF Acquire, Callers
  <2>5. ASSUME NEW j \in Callers, LadderDone(j) \/ LadderTimeout(j) \/ CallerCancelled(j)
        PROVE  FALSE
    BY <2>5 DEF LadderDone, LadderTimeout, CallerCancelled
  <2>6. CASE UNCHANGED callVars
    BY <2>6 DEF callVars
  <2> QED BY <2>2, <2>3, <2>4, <2>5, <2>6, OtherSteps
<1>2. QED
  BY <1>1, TypeCorrect, PTL DEF Spec, DroppedOnEntry

-----------------------------------------------------------------------------
(* Paired sequences                                                        *)

LEMMA PairedConcat ==
  ASSUME NEW s \in Seq(Entry), NEW t \in Seq(Entry), PairedIn(s), PairedIn(t)
  PROVE  PairedIn(s \o t)
<1> DEFINE c == s \o t
<1>1. /\ Len(s) \in Nat /\ Len(t) \in Nat
      /\ DOMAIN s = 1..Len(s) /\ DOMAIN t = 1..Len(t)
  BY LenProperties
<1>2. /\ c \in Seq(Entry) /\ Len(c) = Len(s) + Len(t)
      /\ \A i \in 1..(Len(s) + Len(t)) : c[i] = IF i <= Len(s) THEN s[i] ELSE t[i - Len(s)]
  BY ConcatProperties
<1>3. DOMAIN c = 1..(Len(s) + Len(t))  BY <1>2, LenProperties
<1> HIDE DEF c
<1> SUFFICES ASSUME NEW i \in 1..(Len(s) + Len(t)), c[i].kind = "assistant",
                    NEW k \in 1..Len(c[i].calls)
             PROVE  /\ i + k <= Len(c)
                    /\ c[i + k].kind = "tool"
                    /\ c[i + k].calls = <<c[i].calls[k]>>
  BY <1>3 DEF PairedIn, c
<1>4. Len(c[i].calls) \in Nat
  <2>1. c[i] \in Entry  BY <1>2, ElementOfSeq
  <2>2. c[i].calls \in Seq(Calls)  BY <2>1 DEF Entry
  <2> QED BY <2>2, LenProperties
<1>5. CASE i <= Len(s)
  <2>1. i \in 1..Len(s) /\ c[i] = s[i]  BY <1>1, <1>2, <1>5
  <2>2. /\ i + k <= Len(s)
        /\ s[i + k].kind = "tool"
        /\ s[i + k].calls = <<s[i].calls[k]>>
    BY <1>1, <2>1 DEF PairedIn
  <2>3. i + k \in 1..(Len(s) + Len(t)) /\ c[i + k] = s[i + k]
    BY <1>1, <1>2, <1>4, <2>2
  <2> QED BY <1>1, <1>2, <1>4, <2>1, <2>2, <2>3
<1>6. CASE ~(i <= Len(s))
  <2> DEFINE j == i - Len(s)
  <2>1. j \in 1..Len(t) /\ c[i] = t[j]  BY <1>1, <1>2, <1>6
  <2>2. /\ j + k <= Len(t)
        /\ t[j + k].kind = "tool"
        /\ t[j + k].calls = <<t[j].calls[k]>>
    BY <1>1, <2>1 DEF PairedIn
  <2>3. /\ i + k \in 1..(Len(s) + Len(t))
        /\ ~(i + k <= Len(s))
        /\ (i + k) - Len(s) = j + k
    BY <1>1, <1>4, <1>6, <2>2
  <2>4. c[i + k] = t[j + k]  BY <1>2, <2>3
  <2> QED BY <1>1, <1>2, <1>4, <2>1, <2>2, <2>3, <2>4
<1> QED BY <1>5, <1>6

LEMMA PairedSingle ==
  ASSUME NEW e \in Entry, e.calls = <<>>
  PROVE  <<e>> \in Seq(Entry) /\ PairedIn(<<e>>)
<1>1. <<e>> \in Seq(Entry) /\ Len(<<e>>) = 1 /\ <<e>>[1] = e  BY SingleEntry
<1>2. DOMAIN <<e>> = 1..1  BY <1>1, LenProperties
<1>3. Len(e.calls) = 0  BY EmptySeq
<1> QED BY <1>1, <1>2, <1>3 DEF PairedIn

\* A round as it is committed, whatever cut it short.
LEMMA PairedRound ==
  ASSUME NEW cs \in Seq(Calls), NEW note \in Seq(Messages)
  PROVE  PairedIn(RoundEntries(cs, note))
<1> DEFINE r == RoundEntries(cs, note)
<1>1. Len(cs) \in Nat  BY LenProperties
<1>2. /\ r \in Seq(Entry) /\ Len(r) = 1 + Len(cs)
      /\ r[1] = AssistantEntry(cs)
      /\ \A k \in 1..Len(cs) : r[1 + k] = ToolEntries(cs, note)[k]
  BY RoundEntriesType
<1>3. DOMAIN r = 1..(1 + Len(cs))  BY <1>2, LenProperties
<1>4. \A k \in 1..Len(cs) : r[1 + k].kind = "tool" /\ r[1 + k].calls = <<cs[k]>>
  BY <1>2, ToolEntriesType
<1> HIDE DEF r
<1> SUFFICES ASSUME NEW i \in 1..(1 + Len(cs)), r[i].kind = "assistant",
                    NEW k \in 1..Len(r[i].calls)
             PROVE  /\ i + k <= Len(r)
                    /\ r[i + k].kind = "tool"
                    /\ r[i + k].calls = <<r[i].calls[k]>>
  BY <1>3 DEF PairedIn, r
<1>5. i = 1
  <2> SUFFICES ASSUME i # 1 PROVE FALSE  OBVIOUS
  <2>1. PICK k0 \in 1..Len(cs) : i = 1 + k0
    <3>1. i - 1 \in 1..Len(cs) /\ i = 1 + (i - 1)  BY <1>1
    <3> QED BY <3>1
  <2> QED BY <1>4, <2>1
<1>6. r[i].calls = cs  BY <1>2, <1>5 DEF AssistantEntry
<1> QED BY <1>1, <1>2, <1>4, <1>5, <1>6

-----------------------------------------------------------------------------
(* What a step may do to the context                                       *)

ChainGrows ==
  \/ UNCHANGED chain
  \/ \E e \in Entry : e.calls = <<>> /\ chain' = Append(chain, e)
  \/ \E cs \in Seq(Calls), note \in Seq(Messages) : chain' = chain \o RoundEntries(cs, note)

LEMMA AddedEntry ==
  ASSUME NEW e \in Entry, e.calls = <<>>, chain' = Append(chain, e)
  PROVE  ChainGrows
BY DEF ChainGrows

LEMMA AddedAnswer ==
  ASSUME chain' = Append(chain, AssistantEntry(<<>>))
  PROVE  ChainGrows
<1>1. AssistantEntry(<<>>) \in Entry  BY EmptySeq, AssistantEntryType
<1>2. AssistantEntry(<<>>).calls = <<>>  BY DEF AssistantEntry
<1> QED BY <1>1, <1>2, AddedEntry

LEMMA AddedRound ==
  ASSUME TypeOK, NEW cs \in Seq(Calls), NEW note \in Seq(Messages),
         chain' = chain \o <<AssistantEntry(cs)>> \o ToolEntries(cs, note)
  PROVE  ChainGrows
<1>1. chain \in Seq(Entry)  BY DEF TypeOK
<1>2. chain' = chain \o RoundEntries(cs, note)  BY <1>1, AppendRound
<1> QED BY <1>2 DEF ChainGrows

LEMMA ChainShape ==
  ASSUME TypeOK, [Next]_vars
  PROVE  ChainGrows
<1>1. ASSUME NEW m \in Messages, NEW c \in Calls \cup {NoTask}, Post(m, c)
      PROVE  ChainGrows
  BY <1>1 DEF Post, ChainGrows
<1>2. ASSUME NEW w \in Workers,
             \/ Take(w) \/ Generate(w) \/ StartTools(w) \/ CancelIdle(w) \/ CancelInHook(w)
             \/ AbsorbCancel(w) \/ EnterReap(w) \/ CancelReap(w) \/ Crash(w) \/ Renew(w)
      PROVE  ChainGrows
  BY <1>2 DEF Take, Generate, StartTools, CancelIdle, CancelInHook, AbsorbCancel, EnterReap,
              CancelReap, Crash, Renew, ChainGrows
<1>3. ASSUME NEW w \in Workers, AddUserMessage(w)
      PROVE  ChainGrows
  <2>1. UserEntry(batch[w]) \in Entry  BY UserEntryType DEF TypeOK
  <2>2. UserEntry(batch[w]).calls = <<>>  BY DEF UserEntry
  <2>3. chain' = Append(chain, UserEntry(batch[w]))  BY <1>3 DEF AddUserMessage
  <2> QED BY <2>1, <2>2, <2>3, AddedEntry
<1>4. ASSUME NEW w \in Workers, Retry(w) \/ FinishTurn(w) \/ FailTurn(w)
      PROVE  ChainGrows
  <2>1. UNCHANGED chain \/ chain' = Append(chain, AssistantEntry(<<>>))
    BY <1>4 DEF Retry, FinishTurn, FailTurn, CommitCutOff
  <2> QED BY <2>1, AddedAnswer DEF ChainGrows
<1>5. ASSUME NEW w \in Workers, CommitRound(w) \/ Reap(w)
      PROVE  ChainGrows
  <2>1. CASE CommitWithSteer(w)
    <3>1. acc[w].calls \in Seq(Calls) /\ Steered \in Seq(Messages)
      BY SteeredType DEF TypeOK, Acc
    <3>2. chain' = chain \o <<AssistantEntry(acc[w].calls)>>
                         \o ToolEntries(acc[w].calls, Steered)
      BY <2>1 DEF CommitWithSteer
    <3> QED BY <3>1, <3>2, AddedRound
  <2>2. CASE LoseSteered(w) \/ LoseRound(w)
    BY <2>2 DEF LoseSteered, LoseRound, ChainGrows
  <2> QED BY <1>5, <2>1, <2>2 DEF CommitRound, Reap
<1>6. ASSUME NEW w \in Workers, CancelGeneration(w)
      PROVE  ChainGrows
  <2>1. acc[w].calls \in Seq(Calls) /\ <<>> \in Seq(Messages)
    BY EmptySeq DEF TypeOK, Acc
  <2>2. \/ UNCHANGED chain
        \/ chain' = chain \o <<AssistantEntry(acc[w].calls)>> \o ToolEntries(acc[w].calls, <<>>)
    BY <1>6 DEF CancelGeneration
  <2> QED BY <2>1, <2>2, AddedRound DEF ChainGrows
<1>7. ASSUME NEW c \in Calls,
             Ask(c) \/ AskReturns(c) \/ AskStruck(c) \/ ToolEnds(c) \/ ToolCancelled(c)
      PROVE  ChainGrows
  BY <1>7 DEF Ask, AskReturns, AskStruck, ToolEnds, ToolCancelled, ToolStep, ChainGrows
<1>8. ASSUME NEW i \in Interrupters, Interrupt(i)
      PROVE  ChainGrows
  BY <1>8 DEF Interrupt, ChainGrows
<1>9. CASE Shutdown
  BY <1>9 DEF Shutdown, ChainGrows
<1>10. ASSUME NEW i \in Callers,
              Acquire(i) \/ LadderDone(i) \/ LadderTimeout(i) \/ CallerCancelled(i)
       PROVE  ChainGrows
  BY <1>10 DEF Acquire, LadderDone, LadderTimeout, CallerCancelled, ChainGrows
<1>11. CASE UNCHANGED vars
  BY <1>11 DEF vars, ChainGrows
<1> QED
  BY <1>1, <1>2, <1>3, <1>4, <1>5, <1>6, <1>7, <1>8, <1>9, <1>10, <1>11, NextSplit

LEMMA PairedStep ==
  ASSUME TypeOK, [Next]_vars, Paired
  PROVE  Paired'
<1>1. chain \in Seq(Entry) /\ PairedIn(chain)  BY DEF TypeOK, Paired
<1>2. CASE UNCHANGED chain
  BY <1>2 DEF Paired, PairedIn
<1>3. ASSUME NEW e \in Entry, e.calls = <<>>, chain' = Append(chain, e)
      PROVE  Paired'
  <2>1. <<e>> \in Seq(Entry) /\ PairedIn(<<e>>)  BY <1>3, PairedSingle
  <2>2. Append(chain, e) = chain \o <<e>>  BY <1>1, <1>3, AppendIsConcat
  <2>3. PairedIn(chain \o <<e>>)  BY <1>1, <2>1, PairedConcat
  <2> QED BY SMTT(30), <1>3, <2>2, <2>3 DEF Paired, PairedIn
<1>4. ASSUME NEW cs \in Seq(Calls), NEW note \in Seq(Messages),
             chain' = chain \o RoundEntries(cs, note)
      PROVE  Paired'
  <2>1. RoundEntries(cs, note) \in Seq(Entry)  BY RoundEntriesType
  <2>2. PairedIn(RoundEntries(cs, note))  BY PairedRound
  <2>3. PairedIn(chain \o RoundEntries(cs, note))  BY <1>1, <2>1, <2>2, PairedConcat
  <2> QED BY <1>4, <2>3 DEF Paired, PairedIn
<1> QED BY <1>2, <1>3, <1>4, ChainShape DEF ChainGrows

\* An assistant message with tool calls is always followed by the result of
\* each of its calls, however its generation or its tools were interrupted: the
\* provider never sees a dangling tool call.
THEOREM PairedAlways == Spec => []Paired
<1>1. Init => Paired
  BY DEF Init, Paired, PairedIn
<1>2. TypeOK /\ Paired /\ [Next]_vars => Paired'
  BY PairedStep
<1>3. QED
  BY <1>1, <1>2, TypeCorrect, PTL DEF Spec

-----------------------------------------------------------------------------
(* The tools of a generation                                               *)

\* Only a worker in the model, in the tools or in the cleanup has calls, and
\* those of a generation have not started.
AccShape ==
  \A w \in Workers :
    /\ pc[w] \notin {"llm", "tools", "reap"} => acc[w].calls = <<>>
    /\ pc[w] = "llm" => \A c \in SeqRange(acc[w].calls) : tool[c] = "named"

\* What a step does to the tools, other than to name a call or start a round.
ToolMoves ==
  \A c \in Calls : tool'[c] = tool[c] \/ (tool[c] # "named" /\ tool'[c] # "named")

LEMMA LeaveTurnEmpties ==
  ASSUME TypeOK, NEW w \in Workers, LeaveTurn(w)
  PROVE  acc' = [acc EXCEPT ![w] = NoAcc] /\ NoAcc.calls = <<>> /\ SeqRange(<<>>) = {}
BY DEF LeaveTurn, NoAcc, SeqRange

\* A worker that leaves its turn keeps the shape, and so does everybody else.
LEMMA LeavingShape ==
  ASSUME TypeOK, AccShape, NEW w \in Workers, LeaveTurn(w), UNCHANGED tool,
         NEW x, pc' = [pc EXCEPT ![w] = x]
  PROVE  AccShape'
<1>1. acc' = [acc EXCEPT ![w] = NoAcc] /\ NoAcc.calls = <<>> /\ SeqRange(<<>>) = {}
  BY LeaveTurnEmpties
<1>2. acc'[w].calls = <<>>  BY <1>1 DEF TypeOK
<1>3. ASSUME NEW v \in Workers, v # w
      PROVE  acc'[v] = acc[v] /\ pc'[v] = pc[v]
  BY <1>1, <1>3 DEF TypeOK
<1> QED BY <1>1, <1>2, <1>3 DEF AccShape

LEMMA KeepingShape ==
  ASSUME TypeOK, AccShape, UNCHANGED acc, ToolMoves,
         \A v \in Workers : pc'[v] = pc[v] \/ (pc[v] = "none" /\ pc'[v] = "get")
  PROVE  AccShape'
<1> SUFFICES ASSUME NEW w \in Workers
             PROVE  /\ pc'[w] \notin {"llm", "tools", "reap"} => acc[w].calls = <<>>
                    /\ pc'[w] = "llm" => \A c \in SeqRange(acc[w].calls) : tool'[c] = "named"
  BY DEF AccShape
<1>1. SeqRange(acc[w].calls) \subseteq Calls  BY SeqRangeType DEF TypeOK, Acc
<1> QED BY <1>1 DEF AccShape, ToolMoves

LEMMA ToolStepMoves ==
  ASSUME TypeOK, NEW c \in Calls,
         Ask(c) \/ AskReturns(c) \/ AskStruck(c) \/ ToolEnds(c) \/ ToolCancelled(c)
  PROVE  ToolMoves /\ UNCHANGED <<acc, pc>>
<1>1. ASSUME NEW from, NEW to, ToolStep(c, from, to), "named" \notin from, to # "named"
      PROVE  ToolMoves /\ UNCHANGED <<acc, pc>>
  BY <1>1 DEF ToolStep, ToolMoves, turnVars, TypeOK
<1> QED BY <1>1 DEF Ask, AskReturns, AskStruck, ToolEnds, ToolCancelled

LEMMA ClearInboxMoves ==
  ASSUME TypeOK, NEW i \in Callers, ClearInbox(i)
  PROVE  ToolMoves
BY DEF ClearInbox, ToolMoves

\* The callers and the renewal create workers, and move none.
LEMMA CallersCreate ==
  ASSUME TypeOK, NEW i \in Callers, NEW w, NEW s,
         Conclude(i, w, s) \/ FirstRung(i) \/ WaitForLock(i)
  PROVE  \A v \in Workers : pc'[v] = pc[v] \/ (pc[v] = "none" /\ pc'[v] = "get")
BY DEF Conclude, FirstRung, WaitForLock, SpawnWorker, TypeOK

LEMMA AccShapeStep ==
  ASSUME TypeOK, Targets, OneConsumer, AccShape, [Next]_vars
  PROVE  AccShape'
<1>1. ASSUME NEW m \in Messages, NEW c \in Calls \cup {NoTask}, Post(m, c)
      PROVE  AccShape'
  <2>1. ToolMoves  BY <1>1 DEF Post, ToolMoves, TypeOK
  <2> QED BY <1>1, <2>1, KeepingShape DEF Post, turnVars
<1>2. ASSUME NEW w \in Workers, Take(w) \/ EnterReap(w)
      PROVE  AccShape'
  BY ZenonT(90), <1>2 DEF Take, EnterReap, AccShape, TypeOK, turnVars
<1>3. ASSUME NEW w \in Workers, AbsorbCancel(w)
      PROVE  AccShape'
  BY <1>3 DEF AbsorbCancel, AccShape, turnVars
<1>4. ASSUME NEW w \in Workers, BackToInbox(w) \/ Dies(w, "cancelled") \/ Dies(w, "crashed"),
             UNCHANGED tool
      PROVE  AccShape'
  BY <1>4, LeavingShape DEF BackToInbox, Dies
<1>5. ASSUME NEW w \in Workers,
             \/ FinishTurn(w) \/ FailTurn(w)
             \/ CancelIdle(w) \/ CancelInHook(w) \/ CancelGeneration(w)
             \/ Reap(w) \/ CancelReap(w) \/ Crash(w)
      PROVE  AccShape'
  <2>1. UNCHANGED tool
    BY <1>5 DEF FinishTurn, FailTurn, CancelIdle, CancelInHook, CancelGeneration, Reap,
                CancelReap, Crash
  <2>2. BackToInbox(w) \/ Dies(w, "cancelled") \/ Dies(w, "crashed")
    BY <1>5 DEF FinishTurn, FailTurn, CancelIdle, CancelInHook, CancelGeneration, Reap,
                CancelReap, Crash
  <2> QED BY <1>4, <2>1, <2>2
<1>6. ASSUME NEW w \in Workers, AddUserMessage(w)
      PROVE  AccShape'
  <2>1. CASE BackToInbox(w)
    BY <1>4, <1>6, <2>1 DEF AddUserMessage
  <2>2. CASE pc' = [pc EXCEPT ![w] = "llm"] /\ UNCHANGED acc
    <3>1. acc[w].calls = <<>> /\ SeqRange(<<>>) = {}
      BY <1>6 DEF AddUserMessage, AccShape, SeqRange
    <3> QED BY <1>6, <2>2, <3>1 DEF AddUserMessage, AccShape, TypeOK
  <2> QED BY <1>6, <2>1, <2>2 DEF AddUserMessage
<1>7. ASSUME NEW w \in Workers, Retry(w)
      PROVE  AccShape'
  <2>1. acc'[w].calls = <<>> /\ SeqRange(<<>>) = {}
    BY <1>7 DEF Retry, NoAcc, SeqRange, TypeOK
  <2>2. UNCHANGED <<pc, tool>> /\ \A v \in Workers : v # w => acc'[v] = acc[v]
    BY <1>7 DEF Retry, TypeOK
  <2> QED BY <2>1, <2>2 DEF AccShape
<1>8. ASSUME NEW w \in Workers, CommitRound(w)
      PROVE  AccShape'
  <2>1. CASE BackToInbox(w)
    BY <1>4, <1>8, <2>1 DEF CommitRound
  <2>2. CASE pc' = [pc EXCEPT ![w] = "llm"] /\ acc' = [acc EXCEPT ![w] = NoAcc]
    <3>1. acc'[w].calls = <<>> /\ SeqRange(<<>>) = {}
      BY <2>2 DEF NoAcc, SeqRange, TypeOK
    <3>2. UNCHANGED tool /\ \A v \in Workers : v # w => acc'[v] = acc[v] /\ pc'[v] = pc[v]
      BY <1>8, <2>2 DEF CommitRound, TypeOK
    <3> QED BY <3>1, <3>2 DEF AccShape
  <2> QED BY <1>8, <2>1, <2>2 DEF CommitRound
<1>9. ASSUME NEW w \in Workers, Generate(w)
      PROVE  AccShape'
  <2>1. /\ pc[w] = "llm" /\ UNCHANGED pc
        /\ \A v \in Workers : v # w => acc'[v] = acc[v]
    BY <1>9 DEF Generate, TypeOK
  <2>2. \A c \in Calls : tool[c] = "named" => tool'[c] = "named"
    BY <1>9 DEF Generate, TypeOK
  <2>3. \A v \in Workers : SeqRange(acc[v].calls) \subseteq Calls
    BY SeqRangeType DEF TypeOK, Acc
  <2>4. \A c \in SeqRange(acc'[w].calls) : tool'[c] = "named"
    <3>1. CASE acc'[w].calls = acc[w].calls
      BY <2>1, <2>2, <2>3, <3>1 DEF AccShape
    <3>2. ASSUME NEW c \in Calls, acc'[w].calls = Append(acc[w].calls, c), tool'[c] = "named"
          PROVE  \A d \in SeqRange(acc'[w].calls) : tool'[d] = "named"
      <4>1. SeqRange(Append(acc[w].calls, c)) \subseteq SeqRange(acc[w].calls) \cup {c}
        BY SMTT(30) DEF SeqRange, TypeOK, Acc
      <4> QED BY <2>1, <2>2, <2>3, <3>2, <4>1 DEF AccShape
    <3>3. \/ acc'[w].calls = acc[w].calls
          \/ \E c \in Calls : acc'[w].calls = Append(acc[w].calls, c) /\ tool'[c] = "named"
      BY <1>9 DEF Generate, TypeOK, Acc
    <3> QED BY <3>1, <3>2, <3>3
  <2> QED BY <2>1, <2>2, <2>3, <2>4 DEF AccShape
<1>10. ASSUME NEW w \in Workers, StartTools(w)
       PROVE  AccShape'
  <2>1. pc'[w] = "tools" /\ UNCHANGED acc /\ \A v \in Workers : v # w => pc'[v] = pc[v]
    BY <1>10 DEF StartTools, TypeOK, turnVars
  <2>2. \A v \in Workers : v # w => pc[v] # "llm"
    BY <1>10 DEF StartTools, OneConsumer, Live, InTurn
  <2> QED BY <2>1, <2>2 DEF AccShape
<1>11. ASSUME NEW w \in Workers, Renew(w)
       PROVE  AccShape'
  <2>1. ToolMoves /\ UNCHANGED acc  BY <1>11 DEF Renew, ToolMoves, turnVars
  <2>2. \A v \in Workers : pc'[v] = pc[v] \/ (pc[v] = "none" /\ pc'[v] = "get")
    BY <1>11 DEF Renew, SpawnWorker, TypeOK
  <2> QED BY <2>1, <2>2, KeepingShape
<1>12. ASSUME NEW c \in Calls,
              Ask(c) \/ AskReturns(c) \/ AskStruck(c) \/ ToolEnds(c) \/ ToolCancelled(c)
       PROVE  AccShape'
  BY <1>12, ToolStepMoves, KeepingShape
<1>13. ASSUME NEW i \in Callers, FirstRung(i) \/ WaitForLock(i),
              ClearInbox(i) \/ UNCHANGED tool, UNCHANGED acc
       PROVE  AccShape'
  <2>1. ToolMoves  BY <1>13, ClearInboxMoves DEF ToolMoves
  <2> QED BY <1>13, <2>1, CallersCreate, KeepingShape
<1>14. ASSUME NEW i \in Interrupters, Interrupt(i)
       PROVE  AccShape'
  BY <1>13, <1>14 DEF Interrupt, Callers, turnVars
<1>15. CASE Shutdown
  BY <1>13, <1>15 DEF Shutdown, Callers, turnVars
<1>16. ASSUME NEW i \in Callers, Acquire(i)
       PROVE  AccShape'
  BY <1>13, <1>16 DEF Acquire, turnVars
<1>17. ASSUME NEW i \in Callers, LadderDone(i) \/ LadderTimeout(i) \/ CallerCancelled(i)
       PROVE  AccShape'
  <2>1. ToolMoves /\ UNCHANGED acc
    BY <1>17 DEF LadderDone, LadderTimeout, CallerCancelled, ToolMoves, turnVars
  <2>2. CASE UNCHANGED pc
    BY <2>1, <2>2, KeepingShape
  <2>3. ASSUME NEW s, Conclude(i, target[i], s)
        PROVE  AccShape'
    BY <2>1, <2>3, CallersCreate, KeepingShape
  <2> QED BY <1>17, <2>2, <2>3 DEF LadderDone, LadderTimeout, CallerCancelled
<1>18. CASE UNCHANGED vars
  BY <1>18 DEF vars, AccShape, turnVars
<1> QED
  BY <1>1, <1>2, <1>3, <1>5, <1>6, <1>7, <1>8, <1>9, <1>10, <1>11, <1>12, <1>14, <1>15,
     <1>16, <1>17, <1>18, NextSplit

-----------------------------------------------------------------------------
(* Asks                                                                    *)

AsksInv == AccShape /\ AsksAreAnswerable

LEMMA AsksKept ==
  ASSUME AsksAreAnswerable, UNCHANGED <<tool, waiters>>
  PROVE  AsksAreAnswerable'
BY DEF AsksAreAnswerable

\* cancel_all_waiters forgets the futures and cancels every one that waits.
LEMMA ClearInboxAsks ==
  ASSUME TypeOK, AsksAreAnswerable, NEW i \in Callers, ClearInbox(i)
  PROVE  AsksAreAnswerable'
BY DEF ClearInbox, AsksAreAnswerable, TypeOK

LEMMA AsksStep ==
  ASSUME TypeOK, AsksInv, [Next]_vars
  PROVE  AsksAreAnswerable'
<1> USE DEF AsksInv
<1>1. ASSUME NEW m \in Messages, NEW c \in Calls \cup {NoTask}, Post(m, c)
      PROVE  AsksAreAnswerable'
  <2>1. CASE c \in waiters /\ tool[c] = "ask"
    BY <1>1, <2>1 DEF Post, AsksAreAnswerable, TypeOK
  <2>2. CASE ~(c \in waiters /\ tool[c] = "ask")
    BY <1>1, <2>2, AsksKept DEF Post
  <2> QED BY <2>1, <2>2
<1>2. ASSUME NEW w \in Workers,
             \/ Take(w) \/ AddUserMessage(w) \/ Retry(w) \/ FinishTurn(w) \/ FailTurn(w)
             \/ CancelIdle(w) \/ CancelInHook(w) \/ CancelGeneration(w) \/ AbsorbCancel(w)
             \/ EnterReap(w) \/ CancelReap(w) \/ Crash(w) \/ Renew(w)
      PROVE  AsksAreAnswerable'
  <2>1. UNCHANGED <<tool, waiters>>
    BY <1>2 DEF Take, AddUserMessage, Retry, FinishTurn, FailTurn, CancelIdle, CancelInHook,
                CancelGeneration, AbsorbCancel, EnterReap, CancelReap, Crash, Renew, inboxVars
  <2> QED BY <2>1, AsksKept
<1>3. ASSUME NEW w \in Workers, CommitRound(w) \/ Reap(w)
      PROVE  AsksAreAnswerable'
  <2>1. UNCHANGED <<tool, waiters>>
    BY <1>3 DEF CommitRound, Reap, CommitWithSteer, LoseSteered, LoseRound, inboxVars
  <2> QED BY <2>1, AsksKept
<1>4. ASSUME NEW w \in Workers, Generate(w)
      PROVE  AsksAreAnswerable'
  <2>1. UNCHANGED waiters  BY <1>4 DEF Generate, inboxVars
  <2>2. \A c \in Calls : tool'[c] = tool[c] \/ (tool[c] = "idle" /\ tool'[c] = "named")
    BY <1>4 DEF Generate, TypeOK
  <2> QED BY <2>1, <2>2 DEF AsksAreAnswerable, TypeOK
<1>5. ASSUME NEW w \in Workers, StartTools(w)
      PROVE  AsksAreAnswerable'
  <2>1. UNCHANGED waiters  BY <1>5 DEF StartTools, inboxVars
  <2>2. \A c \in Calls : tool'[c] = tool[c] \/ (tool[c] = "named" /\ tool'[c] = "run")
    BY <1>5 DEF StartTools, AccShape, TypeOK
  <2> QED BY <2>1, <2>2 DEF AsksAreAnswerable, TypeOK
<1>6. ASSUME NEW c \in Calls,
             Ask(c) \/ AskReturns(c) \/ AskStruck(c) \/ ToolEnds(c) \/ ToolCancelled(c)
      PROVE  AsksAreAnswerable'
  <2>1. CASE Ask(c)
    BY <2>1 DEF Ask, ToolStep, AsksAreAnswerable, TypeOK
  <2>2. CASE AskReturns(c) \/ AskStruck(c) \/ ToolCancelled(c)
    BY <2>2 DEF AskReturns, AskStruck, ToolCancelled, ToolStep, AsksAreAnswerable, TypeOK
  <2>3. CASE ToolEnds(c)
    BY <2>3 DEF ToolEnds, ToolStep, AsksAreAnswerable, TypeOK
  <2> QED BY <1>6, <2>1, <2>2, <2>3
<1>7. ASSUME NEW i \in Interrupters, Interrupt(i)
      PROVE  AsksAreAnswerable'
  BY <1>7, ClearInboxAsks DEF Interrupt, Callers
<1>8. CASE Shutdown
  BY <1>8, ClearInboxAsks, AsksKept DEF Shutdown, Callers, inboxVars
<1>9. ASSUME NEW i \in Callers, Acquire(i)
      PROVE  AsksAreAnswerable'
  BY <1>9, ClearInboxAsks, AsksKept DEF Acquire, inboxVars
<1>10. ASSUME NEW i \in Callers, LadderDone(i) \/ LadderTimeout(i) \/ CallerCancelled(i)
       PROVE  AsksAreAnswerable'
  BY <1>10, AsksKept DEF LadderDone, LadderTimeout, CallerCancelled, inboxVars
<1>11. CASE UNCHANGED vars
  BY <1>11, AsksKept DEF vars, inboxVars
<1> QED
  BY <1>1, <1>2, <1>3, <1>4, <1>5, <1>6, <1>7, <1>8, <1>9, <1>10, <1>11, NextSplit

\* A tool that waits for the user can always be answered, and no waiter outlives
\* its question: interrupts, timeouts and cancelled tools that race for the same
\* future leave neither a dead question nor a deaf tool.
THEOREM AsksAreAnswerableAlways == Spec => []AsksAreAnswerable
<1>1. Init => AsksInv
  BY DEF Init, AsksInv, AccShape, AsksAreAnswerable, NoAcc
<1>2. TypeOK /\ Targets /\ OneConsumer /\ AsksInv /\ [Next]_vars => AsksInv'
  BY AccShapeStep, AsksStep DEF AsksInv
<1>3. AsksInv => AsksAreAnswerable
  BY DEF AsksInv
<1>4. QED
  BY <1>1, <1>2, <1>3, TypeCorrect, OneConsumerAlways, PTL DEF Spec
-----------------------------------------------------------------------------
(* No zombie                                                               *)

\* This worker is on its way to end cancelled.
Stopping(w) ==
  \/ cancelling[w]
  \/ pc[w] = "reap"
  \/ pc[w] = "tools" /\ \E c \in SeqRange(acc[w].calls) : tool[c] \in {"struck", "gone"}

\* Somebody will see it end.
Covered(w) ==
  \/ w \in armed
  \/ \E i \in Interrupters : call[i] = "ladder" /\ target[i] = w
  \/ lockq # <<>>

Supervised == ~closing /\ Stopping(cur) => Covered(cur)

Answered == \A w \in Workers : cancelling[w] => pc[w] \in Live

Born == pc[cur] # "none" /\ \A i \in Callers : call[i] = "ladder" => pc[target[i]] # "none"

ClosedFirst == ~closing => call[Closer] = "idle" /\ \A k \in DOMAIN lockq : lockq[k] # Closer

RecoveryInv == Supervised /\ Answered /\ Born /\ ClosedFirst /\ NoZombie

\* The current worker goes on, no closer to its death than before.
LEMMA LivingStep ==
  ASSUME TypeOK, Targets, RecoveryInv, UNCHANGED <<cur, armed, callVars>>,
         pc'[cur] \in Live, \A v \in Workers : v # cur => pc'[v] = pc[v],
         \A v \in Workers : cancelling'[v] => cancelling[v],
         Stopping(cur)' => Stopping(cur)
  PROVE  RecoveryInv'
<1>1. Supervised'  BY DEF RecoveryInv, Supervised, Covered, callVars
<1>2. Answered'  BY DEF RecoveryInv, Answered
<1>3. Born'
  <2>1. \A i \in Callers : call'[i] = "ladder" => target'[i] \in Workers
    BY DEF Targets, callVars
  <2>2. "none" \notin Live  BY DEF Live, InTurn
  <2> QED BY <2>1, <2>2 DEF RecoveryInv, Born, callVars
<1>4. ClosedFirst'  BY DEF RecoveryInv, ClosedFirst, callVars
<1>5. NoZombie'  BY DEF NoZombie
<1> QED BY <1>1, <1>2, <1>3, <1>4, <1>5 DEF RecoveryInv

\* The current worker dies, of its own crash or watched over.
LEMMA DyingStep ==
  ASSUME TypeOK, Targets, RecoveryInv, UNCHANGED <<cur, armed, callVars>>,
         NEW how \in Ended, Dies(cur, how), how = "crashed" \/ Stopping(cur)
  PROVE  RecoveryInv'
<1>1. /\ pc' = [pc EXCEPT ![cur] = how]
      /\ cancelling' = [cancelling EXCEPT ![cur] = FALSE]
      /\ ended' = ended \cup {cur}
      /\ cur \in Workers
  BY DEF Dies, TypeOK
<1>2. Supervised'
  BY <1>1 DEF Supervised, Stopping, Ended, TypeOK
<1>3. Answered'
  BY <1>1 DEF RecoveryInv, Answered, TypeOK
<1>4. Born'
  BY <1>1 DEF RecoveryInv, Born, Ended, Targets, TypeOK, callVars
<1>5. ClosedFirst'  BY DEF RecoveryInv, ClosedFirst, callVars
<1>6. NoZombie'
  <2>1. CASE how = "crashed"
    BY <1>1, <2>1 DEF NoZombie, Recovery, TypeOK
  <2>2. CASE ~closing /\ Stopping(cur)
    <3>1. Covered(cur)  BY <2>2 DEF RecoveryInv, Supervised
    <3> QED BY <1>1, <3>1 DEF Covered, NoZombie, Recovery, callVars
  <2>3. CASE closing
    BY <2>3 DEF NoZombie, callVars
  <2> QED BY <2>1, <2>2, <2>3
<1> QED BY <1>2, <1>3, <1>4, <1>5, <1>6 DEF RecoveryInv

\* A new worker takes the place of the current one.
LEMMA SpawnStep ==
  ASSUME TypeOK, Targets, RecoveryInv, SpawnWorker, UNCHANGED <<cancelling, closing>>,
         \A i \in Callers : call'[i] = "ladder" => call[i] = "ladder" /\ target'[i] = target[i],
         ClosedFirst'
  PROVE  RecoveryInv'
<1>1. PICK w \in Workers : pc[w] = "none" /\ pc' = [pc EXCEPT ![w] = "get"] /\ cur' = w
  BY DEF SpawnWorker
<1>2. pc'[w] = "get" /\ \A v \in Workers : v # w => pc'[v] = pc[v]
  BY <1>1 DEF TypeOK
<1>3. ~cancelling'[w]
  BY <1>1 DEF RecoveryInv, Answered, Live, InTurn
<1>4. Supervised'
  BY <1>1, <1>2, <1>3 DEF Supervised, Stopping
<1>5. Answered'
  BY <1>2, <1>3 DEF RecoveryInv, Answered
<1>6. Born'
  BY <1>1, <1>2 DEF RecoveryInv, Born, Targets
<1>7. NoZombie'
  BY <1>1, <1>2 DEF NoZombie, Live
<1> QED BY <1>4, <1>5, <1>6, <1>7 DEF RecoveryInv
\* The queue of the lock.
LEMMA LockQueue ==
  ASSUME NEW S, NEW s \in Seq(S), NEW x, NEW y \in S
  PROVE  /\ Append(s, y) # <<>>
         /\ y # x /\ (\A k \in DOMAIN s : s[k] # x) =>
              \A k \in DOMAIN Append(s, y) : Append(s, y)[k] # x
         /\ s # <<>> /\ (\A k \in DOMAIN s : s[k] # x) =>
              \A k \in DOMAIN Tail(s) : Tail(s)[k] # x
<1>1. Len(s) \in Nat /\ DOMAIN s = 1..Len(s)  BY LenProperties
<1>2. /\ Append(s, y) # <<>>
      /\ DOMAIN Append(s, y) = 1..(Len(s) + 1)
      /\ \A k \in 1..Len(s) : Append(s, y)[k] = s[k]
      /\ Append(s, y)[Len(s) + 1] = y
  BY <1>1, AppendProperties, LenProperties
<1>3. ASSUME s # <<>>
      PROVE  /\ DOMAIN Tail(s) = 1..(Len(s) - 1)
             /\ \A k \in 1..(Len(s) - 1) : Tail(s)[k] = s[k + 1]
  BY <1>1, <1>3, HeadTailProperties, LenProperties
<1> QED BY <1>1, <1>2, <1>3

LEMMA ClosedFirstStep ==
  ASSUME TypeOK, ClosedFirst, [Next]_vars
  PROVE  ClosedFirst'
<1>1. ASSUME NEW i \in Callers,
             call' = [call EXCEPT ![i] = "ladder"] \/ call' = [call EXCEPT ![i] = "done"],
             UNCHANGED closing, i # Closer \/ closing,
             lockq' = lockq \/ (lockq # <<>> /\ lockq' = Tail(lockq))
      PROVE  ClosedFirst'
  <2>1. CASE closing
    BY <1>1, <2>1 DEF ClosedFirst
  <2>2. CASE ~closing
    <3>1. call'[Closer] = "idle"
      BY <1>1, <2>2 DEF ClosedFirst, TypeOK, Callers
    <3>2. lockq \in Seq(Callers) /\ \A k \in DOMAIN lockq : lockq[k] # Closer
      BY <2>2 DEF ClosedFirst, TypeOK
    <3>3. lockq # <<>> => \A k \in DOMAIN Tail(lockq) : Tail(lockq)[k] # Closer
      BY <1>1, <3>2, LockQueue
    <3>4. \A k \in DOMAIN lockq' : lockq'[k] # Closer
      BY <1>1, <3>2, <3>3
    <3> QED BY <3>1, <3>4 DEF ClosedFirst
  <2> QED BY <2>1, <2>2
<1>2. ASSUME NEW i \in Callers, FirstRung(i)
      PROVE  call' = [call EXCEPT ![i] = "ladder"] \/ call' = [call EXCEPT ![i] = "done"]
  BY <1>2 DEF FirstRung, Conclude
<1>3. ASSUME NEW i \in Interrupters, Interrupt(i)
      PROVE  ClosedFirst'
  <2>1. i # Closer /\ i \in Callers /\ UNCHANGED closing
    BY <1>3, AgentAssumption DEF Interrupt, Callers
  <2>2. CASE LockFree
    BY <1>1, <1>2, <1>3, <2>1, <2>2 DEF Interrupt
  <2>3. CASE ~LockFree
    <3>1. lockq' = Append(lockq, i) /\ call' = [call EXCEPT ![i] = "lock"]
      BY <1>3, <2>3 DEF Interrupt, WaitForLock
    <3>2. ~closing => call'[Closer] = "idle"
      BY <2>1, <3>1 DEF ClosedFirst, TypeOK, Callers
    <3>3. ~closing => \A k \in DOMAIN lockq' : lockq'[k] # Closer
      BY SMTT(30), <2>1, <3>1, LockQueue DEF ClosedFirst, TypeOK, Callers
    <3> QED BY <2>1, <3>2, <3>3 DEF ClosedFirst
  <2> QED BY <2>2, <2>3
<1>4. CASE Shutdown
  BY <1>4 DEF Shutdown, ClosedFirst
<1>5. ASSUME NEW i \in Callers, Acquire(i)
      PROVE  ClosedFirst'
  <2>1. i # Closer \/ closing
    BY <1>5 DEF Acquire, ClosedFirst, TypeOK
  <2> QED BY <1>1, <1>2, <1>5, <2>1 DEF Acquire
<1>6. ASSUME NEW i \in Callers, LadderDone(i) \/ LadderTimeout(i) \/ CallerCancelled(i)
      PROVE  ClosedFirst'
  <2>1. i # Closer \/ closing
    BY <1>6 DEF LadderDone, LadderTimeout, CallerCancelled, ClosedFirst
  <2>2. UNCHANGED <<closing, lockq>>
    BY <1>6 DEF LadderDone, LadderTimeout, CallerCancelled
  <2>3. UNCHANGED call \/ call' = [call EXCEPT ![i] = "done"]
    BY <1>6 DEF LadderDone, LadderTimeout, CallerCancelled, Conclude
  <2> QED BY <1>1, <2>1, <2>2, <2>3 DEF ClosedFirst
<1>7. CASE UNCHANGED callVars
  BY <1>7 DEF callVars, ClosedFirst
<1> QED BY <1>3, <1>4, <1>5, <1>6, <1>7, OtherSteps

\* A caller that gets the lock rebuilds a dead worker or watches a live one.
LEMMA FirstRungCovers ==
  ASSUME TypeOK, Targets, RecoveryInv, NEW i \in Callers, FirstRung(i), UNCHANGED ended,
         IF i = Closer THEN closing' ELSE UNCHANGED closing, ClosedFirst'
  PROVE  RecoveryInv'
<1>1. CASE pc[cur] \in Ended
  <2>1. Conclude(i, cur, TRUE) /\ UNCHANGED cancelling
        /\ target' = [target EXCEPT ![i] = cur]
    BY <1>1 DEF FirstRung
  <2>2. \A j \in Callers : call'[j] = "ladder" => call[j] = "ladder" /\ target'[j] = target[j]
    BY <2>1 DEF Conclude, TypeOK
  <2>3. CASE i # Closer /\ ~closing
    <3>1. SpawnWorker /\ UNCHANGED closing  BY <2>1, <2>3 DEF Conclude
    <3> QED BY <2>1, <2>2, <3>1, SpawnStep
  <2>4. CASE ~(i # Closer /\ ~closing)
    <3>1. UNCHANGED <<pc, cur>> /\ closing'  BY <2>1, <2>4 DEF Conclude
    <3>2. Supervised' /\ NoZombie'  BY <3>1 DEF Supervised, NoZombie
    <3>3. Answered' /\ Born'
      BY <2>1, <2>2, <3>1 DEF RecoveryInv, Answered, Born
    <3> QED BY <3>2, <3>3 DEF RecoveryInv
  <2> QED BY <2>3, <2>4
<1>2. CASE pc[cur] \notin Ended
  <2>1. /\ cancelling' = [cancelling EXCEPT ![cur] = TRUE]
        /\ call' = [call EXCEPT ![i] = "ladder"]
        /\ target' = [target EXCEPT ![i] = cur]
        /\ UNCHANGED <<pc, cur, armed>>
    BY <1>2 DEF FirstRung
  <2>2. cur \in Workers /\ pc[cur] \in Live
    BY <1>2 DEF RecoveryInv, Born, TypeOK, WorkerPC
  <2>3. call'[i] = "ladder" /\ target'[i] = cur'
    BY <2>1 DEF TypeOK
  <2>4. Supervised'
    BY <2>3 DEF Supervised, Covered, Callers
  <2>5. Answered'
    BY <2>1, <2>2 DEF RecoveryInv, Answered, TypeOK
  <2>6. Born'
    BY <2>1, <2>3 DEF RecoveryInv, Born, TypeOK
  <2>7. NoZombie'
    BY <2>1, <2>2 DEF NoZombie
  <2> QED BY <2>4, <2>5, <2>6, <2>7 DEF RecoveryInv
<1> QED BY <1>1, <1>2

\* A caller that waits for the lock will look at the worker when it gets it.
LEMMA WaitForLockCovers ==
  ASSUME TypeOK, Targets, RecoveryInv, NEW i \in Callers, WaitForLock(i), ClosedFirst'
  PROVE  RecoveryInv'
<1>1. /\ lockq' # <<>> /\ call' = [call EXCEPT ![i] = "lock"]
      /\ UNCHANGED <<target, pc, cancelling, cur>>
  BY LockQueue DEF WaitForLock, TypeOK
<1>2. Supervised' /\ NoZombie'
  BY <1>1 DEF Supervised, Covered, NoZombie, Recovery
<1>3. Answered' /\ Born'
  BY <1>1 DEF RecoveryInv, Answered, Born, TypeOK
<1> QED BY <1>2, <1>3 DEF RecoveryInv

\* A call ends: it has rebuilt the worker, armed its renewal, or found another
\* one in its place.
LEMMA ConcludeCovers ==
  ASSUME TypeOK, Targets, RecoveryInv, NEW i \in Callers, call[i] = "ladder",
         NEW stopped \in BOOLEAN, stopped <=> pc[target[i]] \in Ended,
         Conclude(i, target[i], stopped),
         UNCHANGED <<cancelling, acc, tool, ended, closing, target, lockq>>, ClosedFirst'
  PROVE  RecoveryInv'
<1>1. /\ call' = [call EXCEPT ![i] = "done"]
      /\ \A j \in Callers : call'[j] = "ladder" => call[j] = "ladder" /\ target'[j] = target[j]
      /\ target[i] \in Workers
  BY DEF Conclude, TypeOK, Targets
<1>2. CASE stopped /\ i # Closer /\ cur = target[i] /\ ~closing
  <2>1. SpawnWorker  BY <1>2 DEF Conclude
  <2> QED BY <1>1, <2>1, SpawnStep
<1>3. CASE ~(stopped /\ i # Closer /\ cur = target[i] /\ ~closing)
  <2>1. UNCHANGED <<pc, cur>>
    BY <1>3 DEF Conclude
  <2>2. Answered' /\ Born'
    BY <1>1, <2>1 DEF RecoveryInv, Answered, Born
  <2>3. armed' = IF ~stopped /\ i # Closer THEN armed \cup {target[i]} ELSE armed
    BY DEF Conclude
  <2>4. CASE closing
    BY <2>2, <2>4 DEF RecoveryInv, Supervised, NoZombie
  <2>5. CASE ~closing
    <3>1. i \in Interrupters
      BY <2>5 DEF RecoveryInv, ClosedFirst, Callers
    <3>2. \A j \in Interrupters : j # i => call'[j] = call[j] /\ target'[j] = target[j]
      BY <1>1 DEF TypeOK, Callers
    <3>3. i # Closer  BY <3>1, AgentAssumption
    <3>4. Supervised'
      <4>1. Stopping(cur)' => Stopping(cur)  BY <2>1 DEF Stopping
      <4>2. CASE target[i] = cur
        <5>1. ~stopped  BY <1>3, <2>5, <3>3, <4>2
        <5> QED BY <2>1, <2>3, <3>3, <4>2, <5>1 DEF Supervised, Covered
      <4>3. CASE target[i] # cur
        BY <2>1, <2>3, <3>2, <4>1, <4>3 DEF RecoveryInv, Supervised, Covered
      <4> QED BY <4>2, <4>3
    <3>5. NoZombie'
      <4>1. CASE target[i] = cur
        <5>1. pc[cur] \notin Ended  BY <1>3, <2>5, <3>3, <4>1
        <5>2. pc[cur] \in Live  BY <5>1 DEF RecoveryInv, Born, TypeOK, WorkerPC
        <5> QED BY <2>1, <5>2 DEF NoZombie
      <4>2. CASE target[i] # cur
        BY <2>1, <2>3, <3>2, <4>2 DEF RecoveryInv, NoZombie, Recovery
      <4> QED BY <4>1, <4>2
    <3> QED BY <2>2, <3>4, <3>5 DEF RecoveryInv
  <2> QED BY <2>4, <2>5
<1> QED BY <1>2, <1>3
\* A worker's step concerns the current one, which goes on or dies.
LEMMA WorkerCovers ==
  ASSUME TypeOK, Targets, OneConsumer, RecoveryInv, NEW w \in Workers,
         \/ Take(w) \/ AddUserMessage(w) \/ Generate(w) \/ Retry(w) \/ StartTools(w)
         \/ FinishTurn(w) \/ FailTurn(w) \/ CommitRound(w)
         \/ CancelIdle(w) \/ CancelInHook(w) \/ CancelGeneration(w) \/ AbsorbCancel(w)
         \/ EnterReap(w) \/ Reap(w) \/ CancelReap(w) \/ Crash(w)
  PROVE  RecoveryInv'
<1>1. w = cur /\ pc[cur] \in Live /\ UNCHANGED <<cur, armed, callVars>>
  BY DEF Take, AddUserMessage, Generate, Retry, StartTools, FinishTurn, FailTurn, CommitRound,
         CancelIdle, CancelInHook, CancelGeneration, AbsorbCancel, EnterReap, Reap,
         CancelReap, Crash, OneConsumer, Live, InTurn, taskVars
<1>2. ASSUME BackToInbox(w)
      PROVE  RecoveryInv'
  <2>1. pc' = [pc EXCEPT ![w] = "get"] /\ cancelling' = [cancelling EXCEPT ![w] = FALSE]
    BY <1>2 DEF BackToInbox
  <2>2. ~(Stopping(cur)') /\ pc'[cur] \in Live
    BY <1>1, <2>1 DEF Stopping, TypeOK, Live
  <2>3. /\ \A v \in Workers : v # cur => pc'[v] = pc[v]
        /\ \A v \in Workers : cancelling'[v] => cancelling[v]
    BY <1>1, <2>1 DEF TypeOK
  <2> QED BY <1>1, <2>2, <2>3, LivingStep
<1>3. ASSUME \/ Take(w) \/ EnterReap(w) \/ AbsorbCancel(w) \/ Retry(w) \/ Generate(w)
             \/ StartTools(w)
             \/ AddUserMessage(w) /\ ~BackToInbox(w)
             \/ CommitRound(w) /\ ~BackToInbox(w)
      PROVE  RecoveryInv'
  <2>1. /\ \A v \in Workers : v # w => pc'[v] = pc[v]
        /\ \A v \in Workers : cancelling'[v] => cancelling[v]
        /\ pc'[w] \in Live
    BY <1>1, <1>3 DEF Take, EnterReap, AbsorbCancel, Retry, Generate, StartTools,
                      AddUserMessage, CommitRound, TypeOK, Live, InTurn
  <2>2. Stopping(cur)' => Stopping(cur)
    <3>1. CASE Take(w) \/ AbsorbCancel(w) \/ Retry(w) \/ Generate(w)
      BY <1>1, <3>1 DEF Take, AbsorbCancel, Retry, Generate, Stopping, TypeOK
    <3>2. CASE EnterReap(w)
      BY <1>1, <3>2 DEF EnterReap, Stopping
    <3>3. CASE StartTools(w)
      <4>1. SeqRange(acc[w].calls) \subseteq Calls  BY SeqRangeType DEF TypeOK, Acc
      <4> QED BY <1>1, <3>3, <4>1 DEF StartTools, Stopping, TypeOK, turnVars
    <3>4. CASE (AddUserMessage(w) \/ CommitRound(w)) /\ ~BackToInbox(w)
      BY <1>1, <3>4 DEF AddUserMessage, CommitRound, Stopping, TypeOK
    <3> QED BY <1>3, <3>1, <3>2, <3>3, <3>4
  <2> QED BY <1>1, <2>1, <2>2, LivingStep
<1>4. ASSUME CancelIdle(w) \/ CancelInHook(w) \/ CancelGeneration(w) \/ Reap(w) \/ CancelReap(w),
             Dies(w, "cancelled")
      PROVE  RecoveryInv'
  <2>1. Stopping(cur)
    BY <1>1, <1>4 DEF CancelIdle, CancelInHook, CancelGeneration, Reap, CancelReap, Stopping
  <2> QED BY <1>1, <1>4, <2>1, DyingStep DEF Ended
<1>5. ASSUME Dies(w, "crashed")
      PROVE  RecoveryInv'
  BY <1>1, <1>5, DyingStep DEF Ended
<1> QED
  BY <1>2, <1>3, <1>4, <1>5 DEF FinishTurn, FailTurn, CancelIdle, CancelInHook,
     CancelGeneration, Reap, CancelReap, Crash

\* Only a stopping worker cancels its tools.
LEMMA ToolCovers ==
  ASSUME TypeOK, Targets, OneConsumer, RecoveryInv, NEW c \in Calls,
         Ask(c) \/ AskReturns(c) \/ AskStruck(c) \/ ToolEnds(c) \/ ToolCancelled(c)
  PROVE  RecoveryInv'
<1>1. UNCHANGED <<pc, cancelling, acc, cur, ended, armed, callVars>>
  BY DEF Ask, AskReturns, AskStruck, ToolEnds, ToolCancelled, ToolStep, turnVars, taskVars
<1>2. Stopping(cur)' => Stopping(cur)
  <2>1. \/ \A d \in Calls : tool'[d] \in {"struck", "gone"} => tool[d] \in {"struck", "gone"}
        \/ ToolCancelled(c) /\ \A d \in Calls : d # c => tool'[d] = tool[d]
    BY DEF Ask, AskReturns, AskStruck, ToolEnds, ToolCancelled, ToolStep, TypeOK
  <2>2. SeqRange(acc[cur].calls) \subseteq Calls  BY SeqRangeType DEF TypeOK, Acc
  <2>3. CASE ToolCancelled(c) /\ pc[cur] = "tools" /\ c \in SeqRange(acc[cur].calls)
    <3>1. PICK w \in Workers : pc[w] = "reap" \/ (pc[w] = "tools" /\ cancelling[w])
      BY <2>3 DEF ToolCancelled, Doomed
    <3>2. w = cur  BY <3>1 DEF OneConsumer, Live, InTurn
    <3> QED BY <3>1, <3>2 DEF Stopping
  <2> QED BY <1>1, <2>1, <2>2, <2>3 DEF Stopping
<1>3. Supervised' /\ Answered' /\ Born' /\ ClosedFirst' /\ NoZombie'
  BY <1>1, <1>2 DEF RecoveryInv, Supervised, Covered, Answered, Born, ClosedFirst, NoZombie,
                    Recovery, callVars
<1> QED BY <1>3 DEF RecoveryInv

LEMMA RecoveryStep ==
  ASSUME TypeOK, Targets, OneConsumer, RecoveryInv, [Next]_vars
  PROVE  RecoveryInv'
<1>0. ClosedFirst'  BY ClosedFirstStep DEF RecoveryInv
<1>1. ASSUME NEW m \in Messages, NEW c \in Calls \cup {NoTask}, Post(m, c)
      PROVE  RecoveryInv'
  <2>1. UNCHANGED <<pc, cancelling, acc, cur, ended, armed, callVars>>
    BY <1>1 DEF Post, turnVars, taskVars
  <2>2. \A d \in Calls : tool'[d] \in {"struck", "gone"} => tool[d] \in {"struck", "gone"}
    BY <1>1 DEF Post, TypeOK
  <2>3. SeqRange(acc[cur].calls) \subseteq Calls  BY SeqRangeType DEF TypeOK, Acc
  <2>4. Stopping(cur)' => Stopping(cur)  BY <2>1, <2>2, <2>3 DEF Stopping
  <2> QED BY <1>0, <2>1, <2>4 DEF RecoveryInv, Supervised, Covered, Answered, Born, NoZombie,
                             Recovery, callVars
<1>2. ASSUME NEW w \in Workers, Renew(w)
      PROVE  RecoveryInv'
  <2>1. /\ ended' = ended \ {w}
        /\ UNCHANGED <<cancelling, acc, tool, armed, callVars>>
    BY <1>2 DEF Renew, turnVars
  <2>2. CASE SpawnWorker
    BY <1>0, <2>1, <2>2, SpawnStep DEF callVars
  <2>3. CASE /\ ~(cur = w /\ ~closing /\ (pc[w] = "crashed" \/ w \in armed))
             /\ UNCHANGED <<pc, cur>>
    <3>1. NoZombie'
      BY <2>1, <2>3 DEF RecoveryInv, NoZombie, Recovery, callVars
    <3>2. Supervised' /\ Answered' /\ Born'
      BY <2>1, <2>3 DEF RecoveryInv, Supervised, Stopping, Covered, Answered, Born, callVars
    <3> QED BY <1>0, <3>1, <3>2 DEF RecoveryInv
  <2> QED BY <1>2, <2>2, <2>3 DEF Renew
<1>3. ASSUME NEW i \in Interrupters, Interrupt(i)
      PROVE  RecoveryInv'
  <2>1. i \in Callers /\ i # Closer /\ UNCHANGED <<closing, ended>>
    BY <1>3, AgentAssumption DEF Interrupt, Callers
  <2> QED BY <1>0, <1>3, <2>1, FirstRungCovers, WaitForLockCovers DEF Interrupt
<1>4. CASE Shutdown
  <2>1. Closer \in Callers /\ closing' /\ UNCHANGED ended
    BY <1>4 DEF Shutdown, Callers
  <2> QED BY <1>0, <1>4, <2>1, FirstRungCovers, WaitForLockCovers DEF Shutdown
<1>5. ASSUME NEW i \in Callers, Acquire(i)
      PROVE  RecoveryInv'
  <2>1. i # Closer \/ closing
    BY <1>5 DEF Acquire, RecoveryInv, ClosedFirst, TypeOK
  <2>2. FirstRung(i) /\ UNCHANGED <<closing, ended>>
    BY <1>5 DEF Acquire
  <2>3. IF i = Closer THEN closing' ELSE UNCHANGED closing
    BY <2>1, <2>2
  <2> QED BY <1>0, <2>2, <2>3, FirstRungCovers
<1>6. ASSUME NEW i \in Callers, NEW stopped \in BOOLEAN, call[i] = "ladder",
             stopped <=> pc[target[i]] \in Ended, Conclude(i, target[i], stopped),
             UNCHANGED <<cancelling, acc, tool, ended, closing, target, lockq>>
      PROVE  RecoveryInv'
  BY <1>0, <1>6, ConcludeCovers
<1>7. ASSUME NEW i \in Callers, LadderDone(i) \/ CallerCancelled(i)
      PROVE  RecoveryInv'
  <2>1. /\ call[i] = "ladder"
        /\ UNCHANGED <<cancelling, acc, tool, ended, closing, target, lockq>>
    BY <1>7 DEF LadderDone, CallerCancelled, turnVars
  <2>2. CASE pc[target[i]] \in Ended
    <3>1. Conclude(i, target[i], TRUE)
      BY <1>7, <2>2 DEF LadderDone, CallerCancelled, Conclude
    <3> QED BY <1>6, <2>1, <2>2, <3>1
  <2>3. CASE pc[target[i]] \notin Ended
    <3>1. Conclude(i, target[i], FALSE)
      BY <1>7, <2>3 DEF LadderDone, CallerCancelled, Conclude
    <3> QED BY <1>6, <2>1, <2>3, <3>1
  <2> QED BY <2>2, <2>3
<1>8. ASSUME NEW i \in Callers, LadderTimeout(i)
      PROVE  RecoveryInv'
  <2>1. CASE attempt[i] < MaxCancels
    <3>1. /\ call[i] = "ladder" /\ pc[target[i]] \notin Ended /\ target[i] \in Workers
          /\ cancelling' = [cancelling EXCEPT ![target[i]] = TRUE]
          /\ UNCHANGED <<pc, cur, acc, tool, armed, ended, call, target, closing, lockq>>
      BY <1>8, <2>1 DEF LadderTimeout, Targets, turnVars
    <3>2. pc[target[i]] \in Live
      BY <3>1 DEF RecoveryInv, Born, TypeOK, WorkerPC
    <3>3. Answered'  BY <3>1, <3>2 DEF RecoveryInv, Answered, TypeOK
    <3>4. Supervised'
      <4>1. CASE target[i] = cur
        BY <3>1, <4>1 DEF RecoveryInv, ClosedFirst, Callers, Supervised, Covered
      <4>2. CASE target[i] # cur
        BY <3>1, <4>2 DEF RecoveryInv, Supervised, Stopping, Covered, TypeOK
      <4> QED BY <4>1, <4>2
    <3>5. Born' /\ NoZombie'
      BY <3>1 DEF RecoveryInv, Born, NoZombie, Recovery
    <3> QED BY <1>0, <3>3, <3>4, <3>5 DEF RecoveryInv
  <2>2. CASE ~(attempt[i] < MaxCancels)
    BY <1>6, <1>8, <2>2 DEF LadderTimeout, turnVars
  <2> QED BY <2>1, <2>2
<1>9. CASE UNCHANGED vars
  BY <1>0, <1>9 DEF vars, turnVars, taskVars, callVars, RecoveryInv, Supervised, Stopping,
                    Covered, Answered, Born, NoZombie, Recovery
<1> QED
  BY <1>1, <1>2, <1>3, <1>4, <1>5, <1>7, <1>8, <1>9, WorkerCovers, ToolCovers, NextSplit

\* Whatever interrupts, crashes, timeouts and cancelled callers do, while the
\* agent is not shut down a worker consumes its inbox, or the done callback or
\* the call that will rebuild it is still to run.
THEOREM NoZombieAlways == Spec => []NoZombie
<1>1. Init => RecoveryInv
  BY AgentAssumption DEF Init, RecoveryInv, Supervised, Stopping, Answered, Born, ClosedFirst,
                         NoZombie, Live, Callers
<1>2. TypeOK /\ Targets /\ OneConsumer /\ RecoveryInv /\ [Next]_vars => RecoveryInv'
  BY RecoveryStep
<1>3. RecoveryInv => NoZombie
  BY DEF RecoveryInv
<1>4. QED
  BY <1>1, <1>2, <1>3, TypeCorrect, OneConsumerAlways, PTL DEF Spec

-----------------------------------------------------------------------------
(* What a context shows: the inputs of its entries, one after the other    *)

\* The solution of the recursion of FlattenSeq, extended to the empty prefix.
Flattens(ss, f) ==
  /\ f[0] = <<>>
  /\ \A i \in 1..Len(ss) : f[i] = f[i - 1] \o ss[i]

LEMMA FlattensExists ==
  ASSUME NEW S, NEW ss \in Seq(Seq(S))
  PROVE  \E f \in [0..Len(ss) -> Seq(S)] : Flattens(ss, f)
<1> DEFINE step == [p \in (1..Len(ss)) \X Seq(S) |-> p[2] \o ss[p[1]]]
<1>1. Len(ss) \in Nat /\ <<>> \in Seq(S)  BY LenProperties, EmptySeq
<1>2. step \in [(1..Len(ss)) \X Seq(S) -> Seq(S)]
  <2>1. ASSUME NEW p \in (1..Len(ss)) \X Seq(S) PROVE p[2] \o ss[p[1]] \in Seq(S)
    <3>1. ss[p[1]] \in Seq(S)  BY ElementOfSeq
    <3> QED BY <3>1, ConcatProperties
  <2> QED BY <2>1
<1>3. \A i \in 1..Len(ss), x \in Seq(S) : step[<<i, x>>] = x \o ss[i]
  OBVIOUS
<1> HIDE DEF step
<1>4. PICK f \in [0..Len(ss) -> Seq(S)] : Runs(f, Len(ss), <<>>, step)
  BY <1>1, <1>2, Recursion
<1>5. ASSUME NEW i \in 1..Len(ss) PROVE f[i] = f[i - 1] \o ss[i]
  <2>1. f[i - 1] \in Seq(S)
    <3>1. i - 1 \in 0..Len(ss)  BY <1>1
    <3> QED BY <3>1
  <2> QED BY <1>3, <1>4, <2>1 DEF Runs
<1> QED BY <1>4, <1>5 DEF Runs, Flattens

LEMMA FlattensIs ==
  ASSUME NEW S, NEW ss \in Seq(Seq(S)), NEW f \in [0..Len(ss) -> Seq(S)], Flattens(ss, f)
  PROVE  FlattenSeq(ss) = f[Len(ss)]
<1> DEFINE n == Len(ss)
           Solves(h) == h = [i \in 1..n |-> IF i = 1 THEN ss[i] ELSE h[i - 1] \o ss[i]]
           g == [i \in 1..n |-> f[i]]
<1>1. n \in Nat  BY LenProperties
<1>2. CASE n = 0
  <2>1. ss = <<>>  BY <1>2, EmptySeq
  <2> QED BY <1>2, <2>1 DEF FlattenSeq, Flattens
<1>3. CASE n # 0
  <2>1. Solves(g)
    <3>1. ASSUME NEW i \in 1..n
          PROVE  f[i] = IF i = 1 THEN ss[i] ELSE g[i - 1] \o ss[i]
      <4>1. CASE i = 1
        <5>1. f[1] = <<>> \o ss[1]
          <6>1. 1 \in 1..Len(ss) /\ 1 - 1 = 0  BY <1>1, <1>3
          <6> QED BY <6>1 DEF Flattens
        <5>2. ss[1] \in Seq(S)  BY <1>1, <1>3, ElementOfSeq
        <5> QED BY <4>1, <5>1, <5>2, ConcatEmptySeq
      <4>2. CASE i # 1
        <5>1. i - 1 \in 1..n  BY <1>1, <4>2
        <5> QED BY <4>2, <5>1 DEF Flattens
      <4> QED BY <4>1, <4>2
    <3> QED BY <3>1
  <2>2. ASSUME NEW h, Solves(h) PROVE h = g
    <3> DEFINE P == {i \in Nat : i \in 1..n => h[i] = f[i]}
    <3>1. 0 \in P  OBVIOUS
    <3>2. ASSUME NEW i \in Nat, i \in P PROVE i + 1 \in P
      <4> SUFFICES ASSUME i + 1 \in 1..n PROVE h[i + 1] = f[i + 1]
        OBVIOUS
      <4>1. h[i + 1] = IF i + 1 = 1 THEN ss[i + 1] ELSE h[(i + 1) - 1] \o ss[i + 1]
        BY <2>2
      <4>2. g[i + 1] = IF i + 1 = 1 THEN ss[i + 1] ELSE g[(i + 1) - 1] \o ss[i + 1]
        BY <2>1
      <4>3. (i + 1) - 1 = i  OBVIOUS
      <4>4. i + 1 # 1 => i \in 1..n  BY <1>1
      <4>5. i + 1 # 1 => h[i] = g[i]  BY <3>2, <4>4
      <4> HIDE DEF g, Solves
      <4>6. h[i + 1] = g[i + 1]  BY <4>1, <4>2, <4>3, <4>5
      <4> USE DEF g
      <4> QED BY <4>6
    <3>3. Nat \subseteq P
      <4> HIDE DEF P
      <4> QED BY <3>1, <3>2, SetInduction
    <3>4. \A i \in 1..n : h[i] = f[i]  BY <1>1, <3>3
    <3>5. h = [i \in 1..n |-> h[i]]  BY <2>2
    <3> QED BY <3>4, <3>5
  <2>3. (CHOOSE h : Solves(h)) = g  BY <2>1, <2>2
  <2>4. FlattenSeq(ss) = (CHOOSE h : Solves(h))[n]
    BY <1>3 DEF FlattenSeq
  <2>5. g[n] = f[n]  BY <1>1, <1>3
  <2> HIDE DEF g, Solves
  <2> QED BY <2>3, <2>4, <2>5
<1> QED BY <1>2, <1>3

LEMMA FlattenAppend ==
  ASSUME NEW S, NEW ss \in Seq(Seq(S)), NEW t \in Seq(S)
  PROVE  /\ FlattenSeq(ss) \in Seq(S)
         /\ FlattenSeq(Append(ss, t)) = FlattenSeq(ss) \o t
<1> DEFINE st == Append(ss, t)
           n == Len(ss)
<1>1. n \in Nat  BY LenProperties
<1>2. st \in Seq(Seq(S)) /\ Len(st) = n + 1 /\ st[n + 1] = t /\ \A i \in 1..n : st[i] = ss[i]
  BY AppendProperties
<1> HIDE DEF st
<1>3. PICK f \in [0..(n + 1) -> Seq(S)] : Flattens(st, f)
  BY <1>2, FlattensExists
<1> DEFINE g == [i \in 0..n |-> f[i]]
<1>4. g \in [0..n -> Seq(S)] /\ g[n] = f[n]  BY <1>1
<1>5. Flattens(ss, g)
  <2>1. ASSUME NEW i \in 1..n PROVE g[i] = g[i - 1] \o ss[i]
    <3>1. i \in 1..(n + 1) /\ g[i] = f[i] /\ g[i - 1] = f[i - 1]  BY <1>1
    <3> QED BY <1>2, <1>3, <3>1 DEF Flattens
  <2>2. g[0] = <<>>  BY <1>1, <1>3 DEF Flattens
  <2> QED BY <2>1, <2>2 DEF Flattens
<1> HIDE DEF g
<1>6. FlattenSeq(ss) = f[n]  BY <1>4, <1>5, FlattensIs
<1>7. FlattenSeq(st) = f[n + 1]  BY <1>2, <1>3, FlattensIs
<1>8. f[n + 1] = f[n] \o t
  <2>1. n + 1 \in 1..(n + 1) /\ (n + 1) - 1 = n  BY <1>1
  <2> QED BY <1>2, <1>3, <2>1 DEF Flattens
<1>9. f[n] \in Seq(S)  BY <1>1
<1> QED BY <1>6, <1>7, <1>8, <1>9 DEF st

\* The inputs the context shows, in its order.
ShownBy(s) == FlattenSeq([i \in DOMAIN s |-> s[i].msgs])

LEMMA EntryMsgs ==
  ASSUME NEW s \in Seq(Entry)
  PROVE  [i \in DOMAIN s |-> s[i].msgs] \in Seq(Seq(Messages))
<1> DEFINE ms == [i \in 1..Len(s) |-> s[i].msgs]
<1>1. Len(s) \in Nat /\ DOMAIN s = 1..Len(s)  BY LenProperties
<1>2. ASSUME NEW i \in 1..Len(s) PROVE s[i].msgs \in Seq(Messages)
  <2>1. s[i] \in Entry  BY ElementOfSeq
  <2> QED BY <2>1 DEF Entry
<1>3. ms \in [1..Len(s) -> Seq(Messages)]  BY <1>2
<1>4. ms \in Seq(Seq(Messages))  BY <1>1, <1>3, SeqDef
<1> QED BY <1>1, <1>4

LEMMA ShownAppend ==
  ASSUME NEW s \in Seq(Entry), NEW e \in Entry
  PROVE  /\ ShownBy(s) \in Seq(Messages)
         /\ ShownBy(Append(s, e)) = ShownBy(s) \o e.msgs
<1> DEFINE n == Len(s)
           ms == [i \in DOMAIN s |-> s[i].msgs]
           se == Append(s, e)
           mse == [i \in DOMAIN se |-> se[i].msgs]
<1>1. n \in Nat /\ DOMAIN s = 1..n  BY LenProperties
<1>2. /\ se \in Seq(Entry) /\ Len(se) = n + 1
      /\ \A i \in 1..n : se[i] = s[i]
      /\ se[n + 1] = e
  BY AppendProperties
<1> HIDE DEF se
<1>3. DOMAIN se = 1..(n + 1)  BY <1>2, LenProperties
<1>4. ms \in Seq(Seq(Messages)) /\ mse \in Seq(Seq(Messages)) /\ e.msgs \in Seq(Messages)
  BY <1>2, EntryMsgs DEF Entry
<1>5. Len(ms) = n /\ Len(mse) = n + 1
  BY <1>1, <1>3, <1>4, LenProperties
<1> DEFINE u == Append(ms, e.msgs)
<1>6. /\ u \in Seq(Seq(Messages)) /\ Len(u) = n + 1
      /\ \A i \in 1..n : u[i] = ms[i]
      /\ u[n + 1] = e.msgs
  BY <1>4, <1>5, AppendProperties
<1> HIDE DEF u
<1>7. \A i \in 1..(n + 1) : mse[i] = u[i]
  <2> TAKE i \in 1..(n + 1)
  <2>1. CASE i \in 1..n
    BY <1>1, <1>2, <1>3, <1>6, <2>1
  <2>2. CASE i = n + 1
    BY <1>2, <1>3, <1>6, <2>2
  <2> QED BY <1>1, <2>1, <2>2
<1> HIDE DEF mse, ms
<1>8. mse = u  BY <1>4, <1>5, <1>6, <1>7, SeqEqual
<1>9. FlattenSeq(ms) \in Seq(Messages) /\ FlattenSeq(u) = FlattenSeq(ms) \o e.msgs
  BY <1>4, FlattenAppend DEF u
<1> QED BY <1>8, <1>9 DEF ShownBy, ms, mse, se

LEMMA ShownEmpty == ShownBy(<<>>) = <<>>
<1>1. [i \in DOMAIN <<>> |-> <<>>[i].msgs] = <<>>
  <2>1. <<>> \in Seq(Entry)  BY EmptySeq
  <2> DEFINE ms == [i \in DOMAIN <<>> |-> <<>>[i].msgs]
  <2>2. ms \in Seq(Seq(Messages))  BY <2>1, EntryMsgs
  <2>3. DOMAIN ms = {}  OBVIOUS
  <2> HIDE DEF ms
  <2>4. Len(ms) = 0  BY <2>2, <2>3, LenProperties
  <2> QED BY <2>2, <2>4, EmptySeq DEF ms
<1>2. Len(<<>>) = 0  BY EmptySeq
<1> QED BY <1>1, <1>2 DEF ShownBy, FlattenSeq

\* What is added to the context carries inputs in its last entry at most: the
\* merged user message, the steer note.
Carries(d, ms) ==
  /\ d = <<>> => ms = <<>>
  /\ \A k \in 1..Len(d) : d[k].msgs = IF k = Len(d) THEN ms ELSE <<>>

LEMMA ShownQuiet ==
  ASSUME NEW s \in Seq(Entry)
  PROVE  \A d \in Seq(Entry) :
           (\A k \in 1..Len(d) : d[k].msgs = <<>>) => ShownBy(s \o d) = ShownBy(s)
<1> DEFINE Quiet(d) == \A k \in 1..Len(d) : d[k].msgs = <<>>
           P == {d \in Seq(Entry) : Quiet(d) => ShownBy(s \o d) = ShownBy(s)}
<1>1. <<>> \in P  BY EmptySeq, ConcatEmptySeq
<1>2. ASSUME NEW d \in Seq(Entry), NEW e \in Entry, d \in P PROVE Append(d, e) \in P
  <2>1. /\ Append(d, e) \in Seq(Entry) /\ Len(Append(d, e)) = Len(d) + 1 /\ Len(d) \in Nat
        /\ \A i \in 1..Len(d) : Append(d, e)[i] = d[i]
        /\ Append(d, e)[Len(d) + 1] = e
    BY AppendProperties, LenProperties
  <2> SUFFICES ASSUME Quiet(Append(d, e))
               PROVE  ShownBy(s \o Append(d, e)) = ShownBy(s)
    BY <2>1
  <2>2. Quiet(d)
    <3> TAKE k \in 1..Len(d)
    <3>1. k \in 1..Len(Append(d, e))  BY <2>1
    <3> QED BY <2>1, <3>1
  <2>3. e.msgs = <<>>
    <3>1. Len(d) + 1 \in 1..Len(Append(d, e))  BY <2>1
    <3> QED BY <2>1, <3>1
  <2>4. s \o Append(d, e) = Append(s \o d, e)
    <3>1. s \o d \in Seq(Entry) /\ <<e>> \in Seq(Entry)  BY ConcatProperties, SingleEntry
    <3>2. Append(d, e) = d \o <<e>> /\ Append(s \o d, e) = (s \o d) \o <<e>>
      BY <3>1, AppendIsConcat
    <3> QED BY <3>1, <3>2, ConcatAssociative
  <2>5. s \o d \in Seq(Entry)  BY ConcatProperties
  <2>6. ShownBy(s \o d) \in Seq(Messages)
        /\ ShownBy(Append(s \o d, e)) = ShownBy(s \o d) \o <<>>
    BY <2>3, <2>5, ShownAppend
  <2>7. ShownBy(s \o d) \o <<>> = ShownBy(s \o d)  BY <2>6, ConcatEmptySeq
  <2>8. ShownBy(s \o d) = ShownBy(s)  BY <1>2, <2>2
  <2> QED BY <2>4, <2>6, <2>7, <2>8
<1>3. Seq(Entry) \subseteq P
  <2> HIDE DEF P
  <2> QED BY <1>1, <1>2, SeqInduction
<1> QED BY <1>3

LEMMA ShownConcat ==
  ASSUME NEW s \in Seq(Entry), NEW d \in Seq(Entry), NEW ms \in Seq(Messages), Carries(d, ms)
  PROVE  /\ ShownBy(s) \in Seq(Messages)
         /\ ShownBy(s \o d) = ShownBy(s) \o ms
<1>1. ShownBy(s) \in Seq(Messages)
  BY ShownAppend, UserEntryType, EmptySeq
<1>2. CASE d = <<>>
  BY <1>1, <1>2, ConcatEmptySeq DEF Carries
<1>3. CASE d # <<>>
  <2>1. PICK q \in Seq(Entry), e \in Entry : d = Append(q, e)
    BY <1>3, SequenceEmptyOrAppend
  <2>2. /\ Len(d) = Len(q) + 1 /\ Len(q) \in Nat
        /\ \A i \in 1..Len(q) : d[i] = q[i]
        /\ d[Len(q) + 1] = e
    BY <2>1, AppendProperties, LenProperties
  <2>3. \A k \in 1..Len(q) : q[k].msgs = <<>>
    <3> TAKE k \in 1..Len(q)
    <3>1. k \in 1..Len(d) /\ k # Len(d)  BY <2>2
    <3> QED BY <2>2, <3>1 DEF Carries
  <2>4. e.msgs = ms
    <3>1. Len(d) \in 1..Len(d)  BY <2>2
    <3> QED BY <2>2, <3>1 DEF Carries
  <2>5. s \o d = Append(s \o q, e)
    <3>1. s \o q \in Seq(Entry) /\ <<e>> \in Seq(Entry)  BY ConcatProperties, SingleEntry
    <3>2. d = q \o <<e>> /\ Append(s \o q, e) = (s \o q) \o <<e>>
      BY <2>1, <3>1, AppendIsConcat
    <3> QED BY <3>1, <3>2, ConcatAssociative
  <2>6. s \o q \in Seq(Entry) /\ ShownBy(s \o q) = ShownBy(s)
    BY <2>3, ShownQuiet, ConcatProperties
  <2> QED BY <1>1, <2>4, <2>5, <2>6, ShownAppend
<1> QED BY <1>2, <1>3

-----------------------------------------------------------------------------
(* What a step may do to the inputs                                        *)

\* A turn that waits for its hook has a batch and no other has one; a round that
\* runs has calls.
TurnShape ==
  \A w \in Workers :
    /\ batch[w] # <<>> <=> pc[w] = "hook"
    /\ pc[w] \in {"tools", "reap"} => acc[w].calls # <<>>

\* A call waits for the lock at one place, and has dropped nothing before it ran:
\* an interrupt not before it was made, a shutdown not before it had the lock.
WaitersOnce ==
  /\ \A k \in DOMAIN lockq : call[lockq[k]] = "lock"
  /\ \A j, k \in DOMAIN lockq : lockq[j] = lockq[k] => j = k
DropsOnce ==
  \A i \in Callers :
    call[i] = "idle" \/ (i = Closer /\ call[i] = "lock") => discarded[i] = {}

Brings(ms) == \E d \in Seq(Entry) : Carries(d, ms) /\ chain' = chain \o d

Goes(w, x) == pc' = [pc EXCEPT ![w] = x] /\ cur' = cur

SameTurn ==
  \/ UNCHANGED <<pc, cur>>
  \/ ~closing /\ pc[cur] \in Ended /\ SpawnWorker
  \/ \E w \in Workers, x \in InTurn : pc[w] \in InTurn \ {"hook"} /\ x # "hook" /\ Goes(w, x)

Arrives(m) ==
  /\ m \notin SeqRange(posted) /\ posted' = Append(posted, m)
  /\ \/ inbox' = Append(inbox, m) /\ UNCHANGED answers
     \/ answers' = answers \cup {m} /\ UNCHANGED inbox
  /\ UNCHANGED <<batch, chain, abandoned, discarded, pc, cur>>

Begins(w) ==
  /\ pc[w] = "get" /\ inbox # <<>>
  /\ batch' = [batch EXCEPT ![w] = inbox] /\ inbox' = <<>>
  /\ Goes(w, "hook")
  /\ UNCHANGED <<posted, answers, chain, abandoned, discarded>>

Shows(w) ==
  /\ pc[w] = "hook" /\ Brings(batch[w])
  /\ batch' = [batch EXCEPT ![w] = <<>>]
  /\ \E x \in {"llm", "get"} : Goes(w, x)
  /\ UNCHANGED <<posted, inbox, answers, abandoned, discarded>>

Drains(w) ==
  /\ pc[w] \in {"tools", "reap"}
  /\ inbox' = Unsteered
  /\ \/ Brings(Steered) /\ (\E x \in {"llm", "get", "cancelled"} : Goes(w, x))
        /\ UNCHANGED abandoned
     \/ /\ Steered # <<>> /\ UNCHANGED chain /\ Goes(w, "get")
        /\ abandoned' = abandoned \cup SeqRange(Steered)
  /\ UNCHANGED <<posted, answers, batch, discarded>>

Leaves(w) ==
  /\ pc[w] \in Live /\ Brings(<<>>)
  /\ batch' = [batch EXCEPT ![w] = <<>>]
  /\ abandoned' = abandoned \cup SeqRange(batch[w])
  /\ \E x \in {"get", "cancelled", "crashed"} : Goes(w, x)
  /\ UNCHANGED <<posted, inbox, answers, discarded>>

Clears(i) ==
  /\ discarded[i] = {} /\ discarded' = [discarded EXCEPT ![i] = SeqRange(inbox)]
  /\ inbox' = <<>>
  /\ SameTurn
  /\ UNCHANGED <<posted, answers, batch, chain, abandoned>>

Stays ==
  /\ SameTurn /\ Brings(<<>>)
  /\ UNCHANGED <<posted, inbox, answers, batch, abandoned, discarded>>

InputMoves ==
  \/ \E m \in Messages : Arrives(m)
  \/ \E w \in Workers : Begins(w) \/ Shows(w) \/ Drains(w) \/ Leaves(w)
  \/ \E i \in Callers : Clears(i)
  \/ Stays

LEMMA BringsNothing ==
  ASSUME TypeOK, UNCHANGED chain
  PROVE  Brings(<<>>)
<1>1. <<>> \in Seq(Entry) /\ Len(<<>>) = 0  BY EmptySeq
<1>2. chain = chain \o <<>>  BY ConcatEmptySeq DEF TypeOK
<1>3. Carries(<<>>, <<>>)  BY <1>1 DEF Carries
<1> QED BY <1>1, <1>2, <1>3 DEF Brings

LEMMA BringsEntry ==
  ASSUME TypeOK, NEW e \in Entry, chain' = Append(chain, e)
  PROVE  Brings(e.msgs)
<1>1. <<e>> \in Seq(Entry) /\ Len(<<e>>) = 1 /\ <<e>>[1] = e  BY SingleEntry
<1>2. chain' = chain \o <<e>>  BY AppendIsConcat DEF TypeOK
<1>3. Carries(<<e>>, e.msgs)
  <2>1. <<e>> # <<>>  BY <1>1, EmptySeq
  <2>2. \A k \in 1..1 : k = 1  OBVIOUS
  <2> QED BY <1>1, <2>1, <2>2 DEF Carries
<1> QED BY <1>1, <1>2, <1>3 DEF Brings

LEMMA BringsAnswer ==
  ASSUME TypeOK, NEW w \in Workers, UNCHANGED chain \/ chain' = Append(chain, AssistantEntry(<<>>))
  PROVE  Brings(<<>>)
<1>1. AssistantEntry(<<>>) \in Entry /\ AssistantEntry(<<>>).msgs = <<>>
  BY EmptySeq, AssistantEntryType DEF AssistantEntry
<1>2. CASE UNCHANGED chain  BY <1>2, BringsNothing
<1>3. CASE chain' = Append(chain, AssistantEntry(<<>>))
  <2>1. Brings(AssistantEntry(<<>>).msgs)  BY <1>1, <1>3, BringsEntry
  <2> QED BY <1>1, <2>1
<1> QED BY <1>2, <1>3

LEMMA BringsRound ==
  ASSUME TypeOK, NEW cs \in Seq(Calls), NEW note \in Seq(Messages),
         cs # <<>> \/ note = <<>>,
         chain' = chain \o <<AssistantEntry(cs)>> \o ToolEntries(cs, note)
  PROVE  Brings(note)
<1> DEFINE d == RoundEntries(cs, note)
<1>1. chain' = chain \o d  BY AppendRound DEF TypeOK
<1>2. Len(cs) \in Nat /\ (cs # <<>> => Len(cs) # 0)  BY LenProperties, EmptySeq
<1>3. /\ d \in Seq(Entry) /\ Len(d) = 1 + Len(cs)
      /\ d[1] = AssistantEntry(cs)
      /\ \A k \in 1..Len(cs) : d[1 + k] = ToolEntries(cs, note)[k]
  BY RoundEntriesType
<1>4. \A k \in 1..Len(cs) :
        ToolEntries(cs, note)[k].msgs = IF k = Len(cs) THEN note ELSE <<>>
  BY DEF ToolEntries
<1>5. d[1].msgs = <<>>  BY <1>3 DEF AssistantEntry
<1> HIDE DEF d
<1>6. Carries(d, note)
  <2>1. d # <<>>  BY <1>2, <1>3, EmptySeq
  <2>2. ASSUME NEW k \in 1..Len(d) PROVE d[k].msgs = IF k = Len(d) THEN note ELSE <<>>
    <3>1. CASE k = 1
      <4>1. k = Len(d) => note = <<>>  BY <1>2, <1>3, <3>1
      <4> QED BY <1>5, <3>1, <4>1
    <3>2. CASE k # 1
      <4> DEFINE j == k - 1
      <4>1. j \in 1..Len(cs) /\ k = 1 + j /\ (j = Len(cs) <=> k = Len(d))
        BY <1>2, <1>3, <3>2
      <4> HIDE DEF j
      <4> QED BY <1>3, <1>4, <4>1
    <3> QED BY <3>1, <3>2
  <2> QED BY <2>1, <2>2 DEF Carries
<1> QED BY <1>1, <1>3, <1>6 DEF Brings

LEMMA TurnShapeStep ==
  ASSUME TypeOK, TurnShape, [Next]_vars
  PROVE  TurnShape'
<1>1. ASSUME NEW w \in Workers, LeaveTurn(w),
             \E x \in {"get", "cancelled", "crashed"} : pc' = [pc EXCEPT ![w] = x]
      PROVE  TurnShape'
  BY <1>1 DEF LeaveTurn, TurnShape, TypeOK
<1>2. ASSUME UNCHANGED <<batch, acc>>,
             \A v \in Workers : pc'[v] = pc[v] \/ (pc[v] = "none" /\ pc'[v] = "get")
      PROVE  TurnShape'
  BY <1>2 DEF TurnShape
<1>3. ASSUME NEW w \in Workers, Take(w)
      PROVE  TurnShape'
  BY <1>3 DEF Take, TurnShape, TypeOK
<1>4. ASSUME NEW w \in Workers, AddUserMessage(w)
      PROVE  TurnShape'
  <2>1. CASE pc' = [pc EXCEPT ![w] = "llm"] /\ batch' = [batch EXCEPT ![w] = <<>>]
             /\ UNCHANGED acc
    BY <2>1 DEF TurnShape, TypeOK
  <2>2. CASE BackToInbox(w)
    BY <1>1, <2>2 DEF BackToInbox
  <2> QED BY <1>4, <2>1, <2>2 DEF AddUserMessage
<1>5. ASSUME NEW w \in Workers, Generate(w) \/ Retry(w)
      PROVE  TurnShape'
  <2>1. pc[w] = "llm" /\ UNCHANGED <<pc, batch>>
    BY <1>5 DEF Generate, Retry
  <2>2. \A v \in Workers : v # w => acc'[v] = acc[v]
    <3>1. CASE Generate(w)
      BY <3>1 DEF Generate, TypeOK
    <3>2. CASE Retry(w)
      BY <3>2 DEF Retry, TypeOK
    <3> QED BY <1>5, <3>1, <3>2
  <2> QED BY <2>1, <2>2 DEF TurnShape
<1>6. ASSUME NEW w \in Workers, StartTools(w) \/ EnterReap(w)
      PROVE  TurnShape'
  <2>1. UNCHANGED <<batch, acc>> /\ acc[w].calls # <<>> /\ batch[w] = <<>>
    BY <1>6 DEF StartTools, EnterReap, turnVars, TurnShape
  <2>2. pc' = [pc EXCEPT ![w] = "tools"] \/ pc' = [pc EXCEPT ![w] = "reap"]
    BY <1>6 DEF StartTools, EnterReap
  <2> QED BY <2>1, <2>2 DEF TurnShape, TypeOK
<1>7. ASSUME NEW w \in Workers, CommitRound(w)
      PROVE  TurnShape'
  <2>1. CASE /\ pc' = [pc EXCEPT ![w] = "llm"] /\ acc' = [acc EXCEPT ![w] = NoAcc]
             /\ UNCHANGED batch
    <3>1. batch[w] = <<>>  BY <1>7 DEF CommitRound, TurnShape
    <3> QED BY <2>1, <3>1 DEF TurnShape, TypeOK
  <2>2. CASE BackToInbox(w)
    BY <1>1, <2>2 DEF BackToInbox
  <2> QED BY <1>7, <2>1, <2>2 DEF CommitRound
<1>8. ASSUME NEW w \in Workers,
             \/ FinishTurn(w) \/ FailTurn(w) \/ CancelIdle(w) \/ CancelInHook(w)
             \/ CancelGeneration(w) \/ Reap(w) \/ CancelReap(w) \/ Crash(w)
      PROVE  TurnShape'
  <2>1. BackToInbox(w) \/ Dies(w, "cancelled") \/ Dies(w, "crashed")
    BY <1>8 DEF FinishTurn, FailTurn, CancelIdle, CancelInHook, CancelGeneration, Reap,
                CancelReap, Crash
  <2> QED BY <1>1, <2>1 DEF BackToInbox, Dies
<1>9. ASSUME NEW m \in Messages, NEW c \in Calls \cup {NoTask}, Post(m, c)
      PROVE  TurnShape'
  BY <1>2, <1>9 DEF Post, turnVars
<1>10. ASSUME NEW w \in Workers, AbsorbCancel(w) \/ Renew(w)
       PROVE  TurnShape'
  <2>1. UNCHANGED <<batch, acc>>  BY <1>10 DEF AbsorbCancel, Renew, turnVars
  <2>2. UNCHANGED pc \/ SpawnWorker  BY <1>10 DEF AbsorbCancel, Renew
  <2> QED BY <1>2, <2>1, <2>2 DEF SpawnWorker, TypeOK
<1>11. ASSUME NEW c \in Calls,
              Ask(c) \/ AskReturns(c) \/ AskStruck(c) \/ ToolEnds(c) \/ ToolCancelled(c)
       PROVE  TurnShape'
  <2>1. UNCHANGED <<batch, acc, pc>>
    BY <1>11 DEF Ask, AskReturns, AskStruck, ToolEnds, ToolCancelled, ToolStep, turnVars
  <2> QED BY <1>2, <2>1
<1>12. ASSUME NEW i \in Callers, UNCHANGED turnVars,
              FirstRung(i) \/ WaitForLock(i) \/ LadderDone(i) \/ LadderTimeout(i) \/ CallerCancelled(i)
       PROVE  TurnShape'
  <2>1. UNCHANGED pc \/ SpawnWorker
    BY <1>12 DEF FirstRung, WaitForLock, LadderDone, LadderTimeout, CallerCancelled, Conclude
  <2> QED BY <1>2, <1>12, <2>1 DEF SpawnWorker, TypeOK, turnVars
<1>13. ASSUME NEW i \in Interrupters, Interrupt(i)
       PROVE  TurnShape'
  BY <1>12, <1>13 DEF Interrupt, Callers
<1>14. CASE Shutdown
  BY <1>12, <1>14 DEF Shutdown, Callers
<1>15. ASSUME NEW i \in Callers,
              Acquire(i) \/ LadderDone(i) \/ LadderTimeout(i) \/ CallerCancelled(i)
       PROVE  TurnShape'
  BY <1>12, <1>15 DEF Acquire, LadderDone, LadderTimeout, CallerCancelled
<1>16. CASE UNCHANGED vars
  BY <1>2, <1>16 DEF vars, turnVars
<1> QED BY <1>3, <1>4, <1>5, <1>6, <1>7, <1>8, <1>9, <1>10, <1>11, <1>13, <1>14, <1>15,
           <1>16, NextSplit

\* The calls that wait for the lock, and what each call has dropped.
LEMMA WaitersStep ==
  ASSUME TypeOK, WaitersOnce, DropsOnce, [Next]_vars
  PROVE  WaitersOnce' /\ DropsOnce'
<1>0. lockq \in Seq(Callers)  BY DEF TypeOK
<1>1. ASSUME NEW i \in Callers, FirstRung(i)
      PROVE  call' = [call EXCEPT ![i] = "ladder"] \/ call' = [call EXCEPT ![i] = "done"]
  BY <1>1 DEF FirstRung, Conclude
<1>2. ASSUME NEW i \in Callers, ClearInbox(i)
      PROVE  \A j \in Callers : j # i => discarded'[j] = discarded[j]
  BY <1>2 DEF ClearInbox, TypeOK
<1>3. ASSUME NEW i \in Callers, LockFree, FirstRung(i), ClearInbox(i), UNCHANGED lockq
      PROVE  WaitersOnce' /\ DropsOnce'
  <2>1. lockq' = <<>> /\ DOMAIN lockq' = {}  BY <1>3, EmptySeq DEF LockFree
  <2>2. WaitersOnce'  BY <2>1 DEF WaitersOnce
  <2>3. DropsOnce'  BY <1>1, <1>2, <1>3 DEF DropsOnce, TypeOK
  <2> QED BY <2>2, <2>3
<1>4. ASSUME NEW i \in Callers, call[i] = "idle", WaitForLock(i)
      PROVE  WaitersOnce'
  <2>1. lockq' = Append(lockq, i) /\ call' = [call EXCEPT ![i] = "lock"]
    BY <1>4 DEF WaitForLock
  <2>2. /\ Len(lockq) \in Nat /\ DOMAIN lockq = 1..Len(lockq)
        /\ DOMAIN lockq' = 1..(Len(lockq) + 1)
        /\ \A k \in 1..Len(lockq) : lockq'[k] = lockq[k]
        /\ lockq'[Len(lockq) + 1] = i
    BY <1>0, <2>1, AppendProperties, LenProperties
  <2>3. \A k \in 1..Len(lockq) : lockq[k] # i /\ call[lockq[k]] = "lock" /\ lockq[k] \in Callers
    BY <1>0, <1>4, <2>2, ElementOfSeq DEF WaitersOnce
  <2>4. \A k \in 1..(Len(lockq) + 1) : k \in 1..Len(lockq) \/ k = Len(lockq) + 1
    BY <2>2
  <2>5. \A k \in DOMAIN lockq' : call'[lockq'[k]] = "lock"
    BY <2>1, <2>2, <2>3, <2>4 DEF TypeOK
  <2>6. \A j, k \in DOMAIN lockq' : lockq'[j] = lockq'[k] => j = k
    BY <2>2, <2>3, <2>4 DEF WaitersOnce
  <2> QED BY <2>5, <2>6 DEF WaitersOnce
<1>5. ASSUME NEW i \in Interrupters, Interrupt(i)
      PROVE  WaitersOnce' /\ DropsOnce'
  <2>1. i \in Callers /\ i # Closer /\ call[i] = "idle" /\ ClearInbox(i)
    BY <1>5, AgentAssumption DEF Interrupt, Callers
  <2>2. CASE LockFree
    BY <1>3, <1>5, <2>1, <2>2 DEF Interrupt
  <2>3. CASE ~LockFree
    <3>1. WaitForLock(i)  BY <1>5, <2>3 DEF Interrupt
    <3>2. DropsOnce'
      BY <1>2, <2>1, <3>1 DEF WaitForLock, DropsOnce, TypeOK
    <3> QED BY <1>4, <2>1, <3>1, <3>2
  <2> QED BY <2>2, <2>3
<1>6. CASE Shutdown
  <2>1. Closer \in Callers /\ call[Closer] = "idle"
    BY <1>6 DEF Shutdown, Callers
  <2>2. CASE LockFree
    BY <1>3, <1>6, <2>1, <2>2 DEF Shutdown
  <2>3. CASE ~LockFree
    <3>1. WaitForLock(Closer) /\ UNCHANGED discarded  BY <1>6, <2>3 DEF Shutdown
    <3>2. DropsOnce'
      BY <2>1, <3>1 DEF WaitForLock, DropsOnce, TypeOK
    <3> QED BY <1>4, <2>1, <3>1, <3>2
  <2> QED BY <2>2, <2>3
<1>7. ASSUME NEW i \in Callers, Acquire(i)
      PROVE  WaitersOnce' /\ DropsOnce'
  <2>1. /\ lockq # <<>> /\ i = Head(lockq) /\ lockq' = Tail(lockq) /\ FirstRung(i)
        /\ ClearInbox(i) \/ UNCHANGED discarded
    BY <1>7 DEF Acquire
  <2>2. /\ Len(lockq) \in Nat \ {0} /\ DOMAIN lockq = 1..Len(lockq)
        /\ DOMAIN lockq' = 1..(Len(lockq) - 1)
        /\ \A k \in 1..(Len(lockq) - 1) : lockq'[k] = lockq[k + 1]
        /\ i = lockq[1]
    BY <1>0, <2>1, HeadTailProperties, LenProperties, EmptySeq
  <2>3. \A k \in 1..(Len(lockq) - 1) : /\ k + 1 \in 1..Len(lockq) /\ k + 1 # 1 /\ 1 \in 1..Len(lockq)
                                       /\ lockq[k + 1] # i
    BY <2>2 DEF WaitersOnce
  <2>4. \A j \in Callers : j # i => call'[j] = call[j]
    BY <1>1, <2>1 DEF TypeOK
  <2>5. \A k \in DOMAIN lockq' : call'[lockq'[k]] = "lock"
    <3> TAKE k \in DOMAIN lockq'
    <3>1. k + 1 \in 1..Len(lockq) /\ lockq[k + 1] # i /\ lockq'[k] = lockq[k + 1]
      BY <2>2, <2>3
    <3>2. lockq[k + 1] \in Callers  BY <1>0, <3>1, ElementOfSeq
    <3> QED BY <2>2, <2>4, <3>1, <3>2 DEF WaitersOnce
  <2>6. \A j, k \in DOMAIN lockq' : lockq'[j] = lockq'[k] => j = k
    <3> TAKE j, k \in DOMAIN lockq'
    <3>1. j + 1 \in 1..Len(lockq) /\ lockq'[j] = lockq[j + 1]
          /\ k + 1 \in 1..Len(lockq) /\ lockq'[k] = lockq[k + 1]
      BY <2>2, <2>3
    <3>2. lockq[j + 1] = lockq[k + 1] => j + 1 = k + 1
      BY <2>2, <3>1 DEF WaitersOnce
    <3> QED BY <2>2, <3>1, <3>2
  <2>7. DropsOnce'
    BY <1>1, <1>2, <2>1 DEF DropsOnce, TypeOK
  <2> QED BY <2>5, <2>6, <2>7 DEF WaitersOnce
<1>8. ASSUME NEW i \in Callers, LadderDone(i) \/ LadderTimeout(i) \/ CallerCancelled(i)
      PROVE  WaitersOnce' /\ DropsOnce'
  <2>1. call[i] = "ladder" /\ UNCHANGED <<lockq, discarded>>
    BY <1>8 DEF LadderDone, LadderTimeout, CallerCancelled
  <2>2. UNCHANGED call \/ call' = [call EXCEPT ![i] = "done"]
    BY <1>8 DEF LadderDone, LadderTimeout, CallerCancelled, Conclude
  <2>3. \A j \in Callers : call[j] = "lock" => call'[j] = "lock"
    BY <2>1, <2>2 DEF TypeOK
  <2>4. \A k \in DOMAIN lockq : lockq[k] \in Callers
    BY <1>0, ElementOfSeq, LenProperties
  <2>5. WaitersOnce'  BY <2>1, <2>3, <2>4 DEF WaitersOnce
  <2>6. DropsOnce'  BY <2>1, <2>2 DEF DropsOnce, TypeOK
  <2> QED BY <2>5, <2>6
<1>9. CASE UNCHANGED callVars
  BY <1>9 DEF callVars, WaitersOnce, DropsOnce
<1> QED BY <1>5, <1>6, <1>7, <1>8, <1>9, OtherSteps

LEMMA LeavingInputs ==
  ASSUME TypeOK, NEW w \in Workers, pc[w] \in Live, Brings(<<>>),
         BackToInbox(w) \/ Dies(w, "cancelled") \/ Dies(w, "crashed"),
         abandoned' = abandoned \cup SeqRange(batch[w]),
         UNCHANGED <<inboxVars, cur, callVars>>
  PROVE  Leaves(w)
<1>1. batch' = [batch EXCEPT ![w] = <<>>]  BY DEF BackToInbox, Dies, LeaveTurn
<1>2. \E x \in {"get", "cancelled", "crashed"} : Goes(w, x)
  BY DEF BackToInbox, Dies, Goes
<1> QED BY <1>1, <1>2 DEF Leaves, inboxVars, callVars

\* Without a batch nothing is lost with the turn.
LEMMA LeavingEmpty ==
  ASSUME TypeOK, TurnShape, NEW w \in Workers, pc[w] # "hook"
  PROVE  /\ batch[w] = <<>> /\ SeqRange(batch[w]) = {}
         /\ batch = [batch EXCEPT ![w] = <<>>]
<1>1. batch[w] = <<>>  BY DEF TurnShape
<1>2. SeqRange(<<>>) = {}  BY DEF SeqRange
<1> QED BY <1>1, <1>2 DEF TypeOK

LEMMA DrainingInputs ==
  ASSUME TypeOK, TurnShape, NEW w \in Workers, CommitRound(w) \/ Reap(w)
  PROVE  Drains(w) \/ Leaves(w)
<1>1. pc[w] \in {"tools", "reap"} /\ pc[w] # "hook" /\ pc[w] \in Live /\ UNCHANGED <<cur, callVars>>
  BY DEF CommitRound, Reap, Live, InTurn
<1>2. acc[w].calls \in Seq(Calls) /\ acc[w].calls # <<>> /\ Steered \in Seq(Messages)
  BY <1>1, SteeredType DEF TypeOK, Acc, TurnShape
<1>3. batch = [batch EXCEPT ![w] = <<>>] /\ SeqRange(batch[w]) = {}
  BY <1>1, LeavingEmpty
<1>4. ASSUME BackToInbox(w) \/ Dies(w, "cancelled")
      PROVE  batch' = batch /\ \E x \in {"get", "cancelled"} : Goes(w, x)
  BY <1>1, <1>3, <1>4 DEF BackToInbox, Dies, LeaveTurn, Goes
<1>5. ASSUME BackToInbox(w) PROVE Goes(w, "get")
  BY <1>1, <1>5 DEF BackToInbox, Goes
<1>6. CASE CommitWithSteer(w)
  <2>1. Brings(Steered)
    BY <1>2, <1>6, BringsRound DEF CommitWithSteer
  <2>2. inbox' = Unsteered /\ UNCHANGED <<posted, answers, abandoned>>
    BY <1>6 DEF CommitWithSteer
  <2>3. \/ BackToInbox(w) \/ Dies(w, "cancelled")
        \/ pc' = [pc EXCEPT ![w] = "llm"] /\ UNCHANGED batch
    BY DEF CommitRound, Reap
  <2>4. batch' = batch /\ \E x \in {"llm", "get", "cancelled"} : Goes(w, x)
    BY <1>1, <1>4, <2>3 DEF Goes
  <2> QED BY <1>1, <2>1, <2>2, <2>4 DEF Drains, callVars
<1>7. CASE LoseSteered(w) /\ BackToInbox(w)
  <2>1. /\ Steered # <<>> /\ inbox' = Unsteered /\ UNCHANGED <<posted, answers, chain>>
        /\ abandoned' = abandoned \cup SeqRange(Steered)
    BY <1>7 DEF LoseSteered
  <2> QED BY <1>1, <1>4, <1>5, <1>7, <2>1 DEF Drains, callVars
<1>8. CASE LoseRound(w) /\ BackToInbox(w)
  <2>1. UNCHANGED <<inboxVars, chain, abandoned>>  BY <1>8 DEF LoseRound
  <2>2. Brings(<<>>)  BY <2>1, BringsNothing
  <2>3. abandoned' = abandoned \cup SeqRange(batch[w])  BY <1>3, <2>1
  <2> QED BY <1>1, <1>8, <2>1, <2>2, <2>3, LeavingInputs
<1> QED BY <1>6, <1>7, <1>8 DEF CommitRound, Reap

LEMMA ClearingInputs ==
  ASSUME TypeOK, NEW i \in Callers, discarded[i] = {}, ClearInbox(i), SameTurn,
         UNCHANGED <<turnVars, chain, abandoned>>
  PROVE  Clears(i)
BY DEF ClearInbox, Clears, turnVars

LEMMA CallersTurn ==
  ASSUME TypeOK, NEW i \in Callers, FirstRung(i) \/ WaitForLock(i)
  PROVE  SameTurn
<1>1. CASE WaitForLock(i)
  BY <1>1 DEF WaitForLock, SameTurn
<1>2. CASE FirstRung(i) /\ pc[cur] \in Ended
  <2>1. Conclude(i, cur, TRUE)  BY <1>2 DEF FirstRung
  <2> QED BY <1>2, <2>1 DEF Conclude, SameTurn
<1>3. CASE FirstRung(i) /\ pc[cur] \notin Ended
  BY <1>3 DEF FirstRung, SameTurn
<1> QED BY <1>1, <1>2, <1>3

\* Every step of the agent moves the inputs in one of these ways.
LEMMA InputShape ==
  ASSUME TypeOK, Targets, EndedIsDead, TurnShape, WaitersOnce, DropsOnce, [Next]_vars
  PROVE  InputMoves
<1>1. ASSUME NEW m \in Messages, NEW c \in Calls \cup {NoTask}, Post(m, c)
      PROVE  Arrives(m)
  BY <1>1 DEF Post, Arrives, turnVars, taskVars, callVars
<1>2. ASSUME NEW w \in Workers, Take(w)
      PROVE  Begins(w)
  BY <1>2 DEF Take, Begins, Goes, taskVars, callVars
<1>3. ASSUME NEW w \in Workers, AddUserMessage(w)
      PROVE  Shows(w)
  <2>1. UserEntry(batch[w]) \in Entry /\ UserEntry(batch[w]).msgs = batch[w]
    BY UserEntryType DEF TypeOK, UserEntry
  <2>2. chain' = Append(chain, UserEntry(batch[w]))  BY <1>3 DEF AddUserMessage
  <2>3. Brings(batch[w])
    <3>1. Brings(UserEntry(batch[w]).msgs)  BY <2>1, <2>2, BringsEntry
    <3> QED BY <2>1, <3>1
  <2>4. /\ pc[w] = "hook" /\ batch' = [batch EXCEPT ![w] = <<>>]
        /\ UNCHANGED <<posted, inbox, answers, abandoned, discarded>>
        /\ \E x \in {"llm", "get"} : Goes(w, x)
    BY <1>3 DEF AddUserMessage, BackToInbox, LeaveTurn, Goes, inboxVars, callVars
  <2> QED BY <2>3, <2>4 DEF Shows
<1>4. ASSUME NEW w \in Workers,
             Generate(w) \/ Retry(w) \/ StartTools(w) \/ AbsorbCancel(w) \/ EnterReap(w)
      PROVE  Stays
  <2>1. UNCHANGED <<posted, inbox, answers, batch, abandoned, discarded, cur>>
    BY <1>4 DEF Generate, Retry, StartTools, AbsorbCancel, EnterReap, inboxVars, turnVars,
                callVars, taskVars
  <2>2. Brings(<<>>)
    <3>1. UNCHANGED chain \/ chain' = Append(chain, AssistantEntry(<<>>))
      BY <1>4 DEF Generate, Retry, StartTools, AbsorbCancel, EnterReap, CommitCutOff
    <3> QED BY <3>1, BringsAnswer
  <2>3. SameTurn
    <3>1. CASE UNCHANGED pc
      BY <2>1, <3>1 DEF SameTurn
    <3>2. CASE StartTools(w) \/ EnterReap(w)
      BY <2>1, <3>2 DEF StartTools, EnterReap, SameTurn, Goes, InTurn
    <3> QED BY <1>4, <3>1, <3>2 DEF Generate, Retry, AbsorbCancel
  <2> QED BY <2>1, <2>2, <2>3 DEF Stays
<1>5. ASSUME NEW w \in Workers, FinishTurn(w) \/ FailTurn(w)
      PROVE  Leaves(w)
  <2>1. UNCHANGED chain \/ chain' = Append(chain, AssistantEntry(<<>>))
    BY <1>5 DEF FinishTurn, FailTurn, CommitCutOff
  <2>2. /\ pc[w] \in Live /\ BackToInbox(w) /\ UNCHANGED <<inboxVars, cur, callVars>>
    BY <1>5 DEF FinishTurn, FailTurn, Live, InTurn
  <2>3. abandoned' = abandoned \cup SeqRange(batch[w])
    BY <1>5, LeavingEmpty DEF FinishTurn, FailTurn
  <2> QED BY <2>1, <2>2, <2>3, BringsAnswer, LeavingInputs
<1>6. ASSUME NEW w \in Workers, CommitRound(w) \/ Reap(w)
      PROVE  Drains(w) \/ Leaves(w)
  BY <1>6, DrainingInputs
<1>7. ASSUME NEW w \in Workers, CancelIdle(w) \/ CancelInHook(w) \/ CancelReap(w) \/ Crash(w)
      PROVE  Leaves(w)
  <2>1. /\ pc[w] \in Live /\ UNCHANGED <<inboxVars, cur, callVars, chain>>
        /\ Dies(w, "cancelled") \/ Dies(w, "crashed")
    BY <1>7 DEF CancelIdle, CancelInHook, CancelReap, Crash, Live, InTurn
  <2>2. abandoned' = abandoned \cup SeqRange(batch[w])
    BY <1>7, LeavingEmpty DEF CancelIdle, CancelInHook, CancelReap, Crash
  <2> QED BY <2>1, <2>2, BringsNothing, LeavingInputs
<1>8. ASSUME NEW w \in Workers, CancelGeneration(w)
      PROVE  Leaves(w)
  <2>1. /\ pc[w] \in Live /\ pc[w] # "hook" /\ UNCHANGED <<inboxVars, cur, callVars, abandoned>>
        /\ BackToInbox(w) \/ Dies(w, "cancelled")
        /\ \/ UNCHANGED chain
           \/ chain' = chain \o <<AssistantEntry(acc[w].calls)>> \o ToolEntries(acc[w].calls, <<>>)
    BY <1>8 DEF CancelGeneration, Live, InTurn
  <2>2. Brings(<<>>)
    <3>1. acc[w].calls \in Seq(Calls) /\ <<>> \in Seq(Messages)
      BY EmptySeq DEF TypeOK, Acc
    <3> QED BY <2>1, <3>1, BringsNothing, BringsRound
  <2>3. abandoned' = abandoned \cup SeqRange(batch[w])
    BY <2>1, LeavingEmpty
  <2> QED BY <2>1, <2>2, <2>3, LeavingInputs
<1>9. ASSUME NEW w \in Workers, Renew(w)
      PROVE  Stays
  <2>1. UNCHANGED <<posted, inbox, answers, batch, abandoned, discarded, chain>>
    BY <1>9 DEF Renew, inboxVars, turnVars, callVars
  <2>2. SameTurn
    BY <1>9 DEF Renew, SameTurn, EndedIsDead
  <2> QED BY <2>1, <2>2, BringsNothing DEF Stays
<1>10. ASSUME NEW c \in Calls,
              Ask(c) \/ AskReturns(c) \/ AskStruck(c) \/ ToolEnds(c) \/ ToolCancelled(c)
       PROVE  Stays
  <2>1. UNCHANGED <<posted, inbox, answers, batch, abandoned, discarded, chain, pc, cur>>
    BY <1>10 DEF Ask, AskReturns, AskStruck, ToolEnds, ToolCancelled, ToolStep, turnVars,
                 callVars, taskVars
  <2> QED BY <2>1, BringsNothing DEF Stays, SameTurn
<1>11. ASSUME NEW i \in Interrupters, Interrupt(i)
       PROVE  i \in Callers /\ Clears(i)
  <2>1. i \in Callers /\ call[i] = "idle"
    BY <1>11 DEF Interrupt, Callers
  <2>2. discarded[i] = {}
    BY <2>1 DEF DropsOnce
  <2>3. ClearInbox(i) /\ i \in Callers
    BY <1>11 DEF Interrupt, Callers
  <2>4. UNCHANGED <<turnVars, chain, abandoned>> /\ (FirstRung(i) \/ WaitForLock(i))
    BY <1>11 DEF Interrupt
  <2> QED BY <2>2, <2>3, <2>4, CallersTurn, ClearingInputs
<1>12. CASE Shutdown
  <2>1. Closer \in Callers /\ call[Closer] = "idle" /\ UNCHANGED <<turnVars, chain, abandoned>>
    BY <1>12 DEF Shutdown, Callers
  <2>2. discarded[Closer] = {}
    BY <2>1 DEF DropsOnce
  <2>3. CASE LockFree
    <3>1. ClearInbox(Closer) /\ FirstRung(Closer)  BY <1>12, <2>3 DEF Shutdown
    <3>2. Clears(Closer)  BY <2>1, <2>2, <3>1, CallersTurn, ClearingInputs
    <3> QED BY <2>1, <3>2 DEF InputMoves
  <2>4. CASE ~LockFree
    <3>1. WaitForLock(Closer) /\ UNCHANGED <<inboxVars, discarded>>  BY <1>12, <2>4 DEF Shutdown
    <3>2. SameTurn  BY <2>1, <3>1, CallersTurn
    <3>3. Stays  BY <2>1, <3>1, <3>2, BringsNothing DEF Stays, inboxVars, turnVars
    <3> QED BY <3>3 DEF InputMoves
  <2> QED BY <2>3, <2>4
<1>13. ASSUME NEW i \in Callers, Acquire(i)
       PROVE  InputMoves
  <2>1. FirstRung(i) /\ UNCHANGED <<turnVars, chain, abandoned>>  BY <1>13 DEF Acquire
  <2>2. SameTurn  BY <2>1, CallersTurn
  <2>3. CASE i = Closer
    <3>1. ClearInbox(i)  BY <1>13, <2>3 DEF Acquire
    <3>2. lockq \in Seq(Callers) /\ lockq # <<>> /\ i = lockq[1] /\ 1 \in DOMAIN lockq
      BY <1>13, LenProperties, EmptySeq DEF Acquire, TypeOK
    <3>3. call[i] = "lock"  BY <3>2 DEF WaitersOnce
    <3>4. discarded[i] = {}  BY <2>3, <3>3 DEF DropsOnce
    <3> QED BY <2>1, <2>2, <3>1, <3>4, ClearingInputs DEF InputMoves
  <2>4. CASE i # Closer
    <3>1. UNCHANGED <<inboxVars, discarded>>  BY <1>13, <2>4 DEF Acquire
    <3>2. Stays  BY <2>1, <2>2, <3>1, BringsNothing DEF Stays, inboxVars, turnVars
    <3> QED BY <3>2 DEF InputMoves
  <2> QED BY <2>3, <2>4
<1>14. ASSUME NEW i \in Callers, LadderDone(i) \/ LadderTimeout(i) \/ CallerCancelled(i)
       PROVE  Stays
  <2>1. UNCHANGED <<posted, inbox, answers, batch, abandoned, discarded, chain>>
    BY <1>14 DEF LadderDone, LadderTimeout, CallerCancelled, inboxVars, turnVars
  <2>2. target[i] \in Workers  BY <1>14 DEF Targets, LadderDone, LadderTimeout, CallerCancelled
  <2>3. SameTurn
    BY <1>14, <2>2 DEF LadderDone, LadderTimeout, CallerCancelled, Conclude, SameTurn
  <2> QED BY <2>1, <2>3, BringsNothing DEF Stays
<1>15. CASE UNCHANGED vars
  <2>1. UNCHANGED <<posted, inbox, answers, batch, abandoned, discarded, chain, pc, cur>>
    BY <1>15 DEF vars, inboxVars, turnVars, callVars, taskVars
  <2>2. Stays  BY <2>1, BringsNothing DEF Stays, SameTurn
  <2> QED BY <2>2 DEF InputMoves
<1> QED
  BY <1>1, <1>2, <1>3, <1>4, <1>5, <1>6, <1>7, <1>8, <1>9, <1>10, <1>11, <1>12, <1>13, <1>14,
     <1>15, NextSplit DEF InputMoves

-----------------------------------------------------------------------------
(* The line of the inputs                                                  *)

\* The inputs in the order in which the model is shown them: those it was shown, the
\* batch of the turn, the queue.
Line == ShownBy(chain) \o (batch[cur] \o inbox)

Queues(m) ==
  /\ m \notin SeqRange(posted) /\ posted' = Append(posted, m)
  /\ \/ Line' = Append(Line, m) /\ UNCHANGED answers
     \/ Line' = Line /\ answers' = answers \cup {m}
  /\ UNCHANGED <<abandoned, discarded>>

Skips(y) ==
  /\ \E x, z \in Seq(Messages) : Line = x \o (y \o z) /\ Line' = x \o z
  /\ \/ abandoned' = abandoned \cup SeqRange(y) /\ UNCHANGED discarded
     \/ /\ \E i \in Callers : discarded[i] = {} /\ discarded' = [discarded EXCEPT ![i] = SeqRange(y)]
        /\ UNCHANGED abandoned
  /\ UNCHANGED <<posted, answers>>

KeepsLine == Line' = Line /\ UNCHANGED <<posted, answers, abandoned, discarded>>

LineMoves ==
  \/ \E m \in Messages : Queues(m)
  \/ \E y \in Seq(Messages) : Skips(y)
  \/ KeepsLine

LEMMA SteeredFirst ==
  ASSUME inbox \in Seq(Messages)
  PROVE  inbox = Steered \o Unsteered
<1>1. Len(inbox) \in Nat /\ SteerLen(inbox) \in 0..Len(inbox)
  BY SteerLenType, LenProperties
<1>2. SubSeq(inbox, 1, Len(inbox)) = inbox  BY SubSeqFull
<1>3. CASE Steer
  <2> DEFINE n == SteerLen(inbox)
  <2>1. Steered = SubSeq(inbox, 1, n)  BY <1>3 DEF Steered
  <2>2. \A i \in 1..n : inbox[i] \in Messages  BY <1>1, ElementOfSeq
  <2>3. Len(Steered) = n  BY <1>1, <2>1, <2>2, SubSeqProperties
  <2>4. Unsteered = SubSeq(inbox, n + 1, Len(inbox))  BY <2>3 DEF Unsteered
  <2>5. 1 \in 1..(Len(inbox) + 1) /\ n \in (1 - 1)..Len(inbox) /\ Len(inbox) \in n..Len(inbox)
    BY <1>1
  <2> HIDE DEF n
  <2>6. SubSeq(inbox, 1, n) \o SubSeq(inbox, n + 1, Len(inbox)) = SubSeq(inbox, 1, Len(inbox))
    BY <2>5, ConcatAdjacentSubSeq
  <2> QED BY <1>2, <2>1, <2>4, <2>6
<1>4. CASE ~Steer
  <2>1. Steered = <<>>  BY <1>4 DEF Steered
  <2>2. Unsteered = inbox  BY <1>2, <2>1, EmptySeq DEF Unsteered
  <2> QED BY <2>1, <2>2, ConcatEmptySeq
<1> QED BY <1>3, <1>4

LEMMA SameTurnBatch ==
  ASSUME TypeOK, TurnShape, SameTurn, UNCHANGED batch
  PROVE  batch'[cur'] = batch[cur]
<1>1. CASE cur' = cur
  BY <1>1
<1>2. CASE pc[cur] \in Ended /\ SpawnWorker
  <2>1. PICK w \in Workers : pc[w] = "none" /\ cur' = w  BY <1>2 DEF SpawnWorker
  <2>2. batch[w] = <<>> /\ batch[cur] = <<>>
    BY <1>2, <2>1 DEF TurnShape, TypeOK, Ended
  <2> QED BY <2>1, <2>2
<1> QED BY <1>1, <1>2 DEF SameTurn, Goes

LEMMA BroughtLine ==
  ASSUME TypeOK, NEW ms \in Seq(Messages), Brings(ms)
  PROVE  ShownBy(chain) \in Seq(Messages) /\ ShownBy(chain') = ShownBy(chain) \o ms
BY ShownConcat DEF Brings, TypeOK

LEMMA ShownType == TypeOK => ShownBy(chain) \in Seq(Messages)
BY ShownAppend, UserEntryType, EmptySeq DEF TypeOK

LEMMA LineShape ==
  ASSUME TypeOK, TypeOK', OneConsumer, TurnShape, InputMoves
  PROVE  LineMoves
<1> DEFINE C == ShownBy(chain)
           B == batch[cur]
<1>0. /\ C \in Seq(Messages) /\ B \in Seq(Messages) /\ inbox \in Seq(Messages)
      /\ <<>> \in Seq(Messages) /\ B \o inbox \in Seq(Messages)
      /\ Line = C \o (B \o inbox) /\ cur \in Workers
  BY ShownType, EmptySeq, ConcatProperties DEF TypeOK, Line
<1>1. ASSUME NEW s \in Seq(Messages) PROVE <<>> \o s = s /\ s \o <<>> = s
  BY ConcatEmptySeq
<1> HIDE DEF C, B
<1>2. ASSUME NEW m \in Messages, Arrives(m) PROVE Queues(m)
  <2>1. CASE inbox' = Append(inbox, m) /\ UNCHANGED answers
    <3>1. <<m>> \in Seq(Messages)
      <4>1. <<m>> = Append(<<>>, m)  OBVIOUS
      <4> QED BY <1>0, <4>1, AppendProperties
    <3>2. Append(inbox, m) = inbox \o <<m>> /\ Line \in Seq(Messages)
      BY <1>0, AppendIsConcat, ConcatProperties
    <3>3. Append(Line, m) = Line \o <<m>>  BY <3>2, AppendIsConcat
    <3>4. (C \o (B \o inbox)) \o <<m>> = C \o ((B \o inbox) \o <<m>>)
      <4> DEFINE R == B \o inbox
                 T == <<m>>
      <4>1. R \in Seq(Messages) /\ T \in Seq(Messages) /\ C \in Seq(Messages)  BY <1>0, <3>1
      <4> HIDE DEF R, T
      <4>2. (C \o R) \o T = C \o (R \o T)  BY <4>1, ConcatAssociative
      <4> QED BY <4>2 DEF R, T
    <3>5. (B \o inbox) \o <<m>> = B \o (inbox \o <<m>>)
      BY <1>0, <3>1, ConcatAssociative
    <3>6. Line' = C \o (B \o Append(inbox, m))
      BY <1>2, <2>1 DEF Arrives, Line, C, B
    <3> QED BY <1>0, <1>2, <2>1, <3>2, <3>3, <3>4, <3>5, <3>6 DEF Arrives, Queues
  <2>2. CASE answers' = answers \cup {m} /\ UNCHANGED inbox
    <3>1. Line' = Line  BY <1>2, <2>2 DEF Arrives, Line
    <3> QED BY <1>2, <2>2, <3>1 DEF Arrives, Queues
  <2> QED BY <1>2, <2>1, <2>2 DEF Arrives
<1>3. ASSUME NEW w \in Workers, Begins(w) PROVE KeepsLine
  <2>1. w = cur /\ B = <<>>
    BY <1>3 DEF Begins, OneConsumer, TurnShape, Live, B
  <2>2. batch'[cur'] = inbox /\ ShownBy(chain)' = C /\ inbox' = <<>>
    BY <1>3, <2>1 DEF Begins, Goes, TypeOK, C
  <2>3. Line' = C \o (inbox \o <<>>)  BY <2>2 DEF Line
  <2>4. Line' = Line  BY <1>0, <1>1, <2>1, <2>3
  <2> QED BY <1>3, <2>4 DEF Begins, KeepsLine
<1>4. ASSUME NEW w \in Workers, Shows(w) PROVE KeepsLine
  <2>1. w = cur
    BY <1>4 DEF Shows, OneConsumer, Live, InTurn
  <2>2. batch'[cur'] = <<>> /\ inbox' = inbox
    BY <1>4, <2>1 DEF Shows, Goes, TypeOK
  <2>3. ShownBy(chain') = C \o B
    BY <1>0, <1>4, <2>1, BroughtLine DEF Shows, C, B
  <2>4. Line' = (C \o B) \o (<<>> \o inbox)  BY <2>2, <2>3 DEF Line
  <2>5. Line' = Line  BY <1>0, <1>1, <2>4, ConcatAssociative
  <2> QED BY <1>4, <2>5 DEF Shows, KeepsLine
<1>5. ASSUME NEW w \in Workers, Drains(w) PROVE LineMoves
  <2>1. w = cur /\ B = <<>>
    BY <1>5 DEF Drains, OneConsumer, TurnShape, Live, InTurn, B
  <2>2. batch'[cur'] = <<>> /\ inbox' = Unsteered
    BY <1>5, <2>1 DEF Drains, Goes, B
  <2>3. inbox = Steered \o Unsteered /\ Steered \in Seq(Messages) /\ Unsteered \in Seq(Messages)
    BY <1>0, SteeredFirst, SteeredType
  <2>4. Line = C \o (Steered \o Unsteered)  BY <1>0, <1>1, <2>1, <2>3
  <2>5. CASE Brings(Steered) /\ UNCHANGED abandoned
    <3>1. ShownBy(chain') = C \o Steered  BY <2>3, <2>5, BroughtLine DEF C
    <3>2. Line' = (C \o Steered) \o (<<>> \o Unsteered)  BY <2>2, <3>1 DEF Line
    <3>3. <<>> \o Unsteered = Unsteered  BY <1>1, <2>3
    <3>4. (C \o Steered) \o Unsteered = C \o (Steered \o Unsteered)
      <4>1. C \in Seq(Messages) /\ Steered \in Seq(Messages) /\ Unsteered \in Seq(Messages)
        BY <1>0, <2>3
      <4> QED BY <4>1, ConcatAssociative
    <3>5. Line' = Line  BY <2>4, <3>2, <3>3, <3>4
    <3> QED BY <1>5, <2>5, <3>5 DEF Drains, KeepsLine, LineMoves
  <2>6. CASE UNCHANGED chain /\ abandoned' = abandoned \cup SeqRange(Steered)
    <3>1. Line' = C \o (<<>> \o Unsteered)  BY <2>2, <2>6 DEF Line, C
    <3>2. Line' = C \o Unsteered  BY <1>1, <2>3, <3>1
    <3>3. Skips(Steered)
      BY <1>0, <1>5, <2>3, <2>4, <2>6, <3>2 DEF Drains, Skips
    <3> QED BY <2>3, <3>3 DEF LineMoves
  <2> QED BY <1>5, <2>5, <2>6 DEF Drains
<1>6. ASSUME NEW w \in Workers, Leaves(w) PROVE Skips(B)
  <2>1. w = cur
    BY <1>6 DEF Leaves, OneConsumer
  <2>2. batch'[cur'] = <<>> /\ inbox' = inbox /\ abandoned' = abandoned \cup SeqRange(B)
    BY <1>6, <2>1 DEF Leaves, Goes, TypeOK, B
  <2>3. ShownBy(chain') = C \o <<>>
    BY <1>0, <1>6, BroughtLine DEF Leaves, C
  <2>4. Line' = C \o (<<>> \o inbox)  BY <1>0, <1>1, <2>2, <2>3 DEF Line
  <2>5. Line' = C \o inbox  BY <1>0, <1>1, <2>4
  <2> QED BY <1>0, <1>6, <2>2, <2>5 DEF Leaves, Skips
<1>7. ASSUME NEW i \in Callers, Clears(i) PROVE Skips(inbox)
  <2>1. batch'[cur'] = B /\ inbox' = <<>> /\ UNCHANGED chain
    BY <1>7, SameTurnBatch DEF Clears, B
  <2>2. Line' = C \o (B \o <<>>)  BY <2>1 DEF Line, C
  <2>3. Line' = (C \o B) \o <<>>  BY <1>0, <1>1, <2>2, ConcatProperties
  <2>4. Line = (C \o B) \o (inbox \o <<>>)  BY <1>0, <1>1, ConcatAssociative
  <2>5. C \o B \in Seq(Messages)  BY <1>0, ConcatProperties
  <2> QED BY <1>0, <1>7, <2>3, <2>4, <2>5 DEF Clears, Skips
<1>8. CASE Stays
  <2>1. batch'[cur'] = B /\ inbox' = inbox
    BY <1>8, SameTurnBatch DEF Stays, B
  <2>2. ShownBy(chain') = C \o <<>>
    BY <1>0, <1>8, BroughtLine DEF Stays, C
  <2>3. Line' = Line  BY <1>0, <1>1, <2>1, <2>2 DEF Line
  <2> QED BY <1>8, <2>3 DEF Stays, KeepsLine, LineMoves
<1>9. ASSUME NEW w \in Workers, Begins(w) \/ Shows(w) \/ Drains(w) \/ Leaves(w)
      PROVE  LineMoves
  BY <1>0, <1>3, <1>4, <1>5, <1>6, <1>9 DEF LineMoves
<1>10. ASSUME NEW i \in Callers, Clears(i)
       PROVE  LineMoves
  BY <1>0, <1>7, <1>10 DEF LineMoves
<1> QED BY <1>2, <1>8, <1>9, <1>10 DEF InputMoves, LineMoves

-----------------------------------------------------------------------------
(* The line is in the order of acceptance, and every input is in it or settled *)

Precedes(p, x, y) == \E i, j \in DOMAIN p : i < j /\ p[i] = x /\ p[j] = y

InOrder(p, s) == \A a, b \in DOMAIN s : a < b => Precedes(p, s[a], s[b])

PostedOnce == \A i, j \in DOMAIN posted : posted[i] = posted[j] => i = j

Placed ==
  /\ \A m \in SeqRange(posted) :
       \/ m \in SeqRange(Line) \/ m \in answers \/ m \in abandoned
       \/ \E i \in Callers : m \in discarded[i]
  /\ \A m \in SeqRange(Line) :
       /\ m \in SeqRange(posted) /\ m \notin answers /\ m \notin abandoned
       /\ \A i \in Callers : m \notin discarded[i]
  /\ \A m \in answers :
       /\ m \in SeqRange(posted) /\ m \notin abandoned
       /\ \A i \in Callers : m \notin discarded[i]
  /\ \A m \in abandoned :
       /\ m \in SeqRange(posted)
       /\ \A i \in Callers : m \notin discarded[i]
  /\ \A i \in Callers : \A m \in discarded[i] :
       /\ m \in SeqRange(posted)
       /\ \A j \in Callers : m \in discarded[j] => j = i

LineInv == InOrder(posted, Line) /\ PostedOnce /\ Placed

LEMMA LineType == TypeOK => Line \in Seq(Messages)
BY ShownType, ConcatProperties DEF TypeOK, Line

LEMMA RangeAppend ==
  ASSUME NEW S, NEW s \in Seq(S), NEW e \in S
  PROVE  SeqRange(Append(s, e)) = SeqRange(s) \cup {e}
<1>1. /\ Len(s) \in Nat /\ DOMAIN s = 1..Len(s) /\ DOMAIN Append(s, e) = 1..(Len(s) + 1)
      /\ \A i \in 1..Len(s) : Append(s, e)[i] = s[i]
      /\ Append(s, e)[Len(s) + 1] = e
  BY AppendProperties, LenProperties
<1>2. ASSUME NEW x \in SeqRange(Append(s, e)) PROVE x \in SeqRange(s) \cup {e}
  BY <1>1 DEF SeqRange
<1>3. ASSUME NEW x \in SeqRange(s) \cup {e} PROVE x \in SeqRange(Append(s, e))
  <2>1. CASE x = e
    <3>1. Len(s) + 1 \in DOMAIN Append(s, e)  BY <1>1
    <3> QED BY <1>1, <2>1, <3>1 DEF SeqRange
  <2>2. CASE x # e
    <3>1. PICK i \in DOMAIN s : x = s[i]  BY <1>3, <2>2 DEF SeqRange
    <3>2. i \in DOMAIN Append(s, e) /\ Append(s, e)[i] = x  BY <1>1, <3>1
    <3> QED BY <3>2 DEF SeqRange
  <2> QED BY <2>1, <2>2
<1> QED BY <1>2, <1>3

LEMMA RangeConcat ==
  ASSUME NEW S, NEW s \in Seq(S), NEW t \in Seq(S)
  PROVE  SeqRange(s \o t) = SeqRange(s) \cup SeqRange(t)
<1>1. /\ Len(s) \in Nat /\ Len(t) \in Nat /\ DOMAIN s = 1..Len(s) /\ DOMAIN t = 1..Len(t)
      /\ DOMAIN (s \o t) = 1..(Len(s) + Len(t))
      /\ \A i \in 1..(Len(s) + Len(t)) : (s \o t)[i] = IF i <= Len(s) THEN s[i] ELSE t[i - Len(s)]
  BY ConcatProperties, LenProperties
<1>2. ASSUME NEW x \in SeqRange(s \o t) PROVE x \in SeqRange(s) \cup SeqRange(t)
  <2>1. PICK i \in 1..(Len(s) + Len(t)) : x = (s \o t)[i]  BY <1>1, <1>2 DEF SeqRange
  <2>2. CASE i <= Len(s)
    <3>1. i \in DOMAIN s /\ x = s[i]  BY <1>1, <2>1, <2>2
    <3> QED BY <3>1 DEF SeqRange
  <2>3. CASE ~(i <= Len(s))
    <3>1. i - Len(s) \in DOMAIN t /\ x = t[i - Len(s)]  BY <1>1, <2>1, <2>3
    <3> QED BY <3>1 DEF SeqRange
  <2> QED BY <2>2, <2>3
<1>3. ASSUME NEW x \in SeqRange(s) PROVE x \in SeqRange(s \o t)
  <2>1. PICK i \in 1..Len(s) : x = s[i]  BY <1>1, <1>3 DEF SeqRange
  <2>2. i \in DOMAIN (s \o t) /\ (s \o t)[i] = x  BY <1>1, <2>1
  <2> QED BY <2>2 DEF SeqRange
<1>4. ASSUME NEW x \in SeqRange(t) PROVE x \in SeqRange(s \o t)
  <2>1. PICK i \in 1..Len(t) : x = t[i]  BY <1>1, <1>4 DEF SeqRange
  <2>2. Len(s) + i \in DOMAIN (s \o t) /\ (s \o t)[Len(s) + i] = x  BY <1>1, <2>1
  <2> QED BY <2>2 DEF SeqRange
<1> QED BY <1>2, <1>3, <1>4

\* A line that loses a part keeps its order, and nothing of the part is in it twice.
LEMMA OrderedSkip ==
  ASSUME NEW p, NEW x \in Seq(Messages), NEW y \in Seq(Messages), NEW z \in Seq(Messages),
         InOrder(p, x \o (y \o z))
  PROVE  InOrder(p, x \o z)
<1> DEFINE s == x \o (y \o z)
           t == x \o z
           up(i) == IF i <= Len(x) THEN i ELSE i + Len(y)
<1>1. /\ Len(x) \in Nat /\ Len(y) \in Nat /\ Len(z) \in Nat
      /\ y \o z \in Seq(Messages) /\ Len(y \o z) = Len(y) + Len(z)
      /\ \A i \in 1..(Len(y) + Len(z)) : (y \o z)[i] = IF i <= Len(y) THEN y[i] ELSE z[i - Len(y)]
  BY ConcatProperties, LenProperties
<1>2. /\ s \in Seq(Messages) /\ Len(s) = Len(x) + (Len(y) + Len(z))
      /\ \A i \in 1..(Len(x) + (Len(y) + Len(z))) :
           s[i] = IF i <= Len(x) THEN x[i] ELSE (y \o z)[i - Len(x)]
  BY <1>1, ConcatProperties
<1>3. /\ t \in Seq(Messages) /\ Len(t) = Len(x) + Len(z)
      /\ \A i \in 1..(Len(x) + Len(z)) : t[i] = IF i <= Len(x) THEN x[i] ELSE z[i - Len(x)]
  BY ConcatProperties
<1> HIDE DEF s, t
<1>4. DOMAIN s = 1..(Len(x) + (Len(y) + Len(z))) /\ DOMAIN t = 1..(Len(x) + Len(z))
  BY <1>2, <1>3, LenProperties
<1>5. ASSUME NEW i \in DOMAIN t PROVE up(i) \in DOMAIN s /\ s[up(i)] = t[i]
  <2>1. CASE i <= Len(x)
    <3>1. i \in DOMAIN s /\ s[i] = x[i] /\ t[i] = x[i]  BY <1>1, <1>2, <1>3, <1>4, <2>1
    <3> QED BY <2>1, <3>1
  <2>2. CASE ~(i <= Len(x))
    <3>1. /\ i + Len(y) \in DOMAIN s /\ ~(i + Len(y) <= Len(x))
          /\ (i + Len(y)) - Len(x) \in 1..(Len(y) + Len(z))
          /\ ~((i + Len(y)) - Len(x) <= Len(y))
          /\ ((i + Len(y)) - Len(x)) - Len(y) = i - Len(x)
      BY <1>1, <1>4, <2>2
    <3>2. s[i + Len(y)] = (y \o z)[(i + Len(y)) - Len(x)]  BY <1>2, <1>4, <3>1
    <3>3. (y \o z)[(i + Len(y)) - Len(x)] = z[i - Len(x)]  BY <1>1, <3>1
    <3>4. t[i] = z[i - Len(x)]  BY <1>3, <1>4, <2>2
    <3> QED BY <2>2, <3>1, <3>2, <3>3, <3>4
  <2> QED BY <2>1, <2>2
<1>6. \A i, j \in DOMAIN t : i < j => up(i) < up(j)
  BY <1>1, <1>4
<1> HIDE DEF up
<1> QED BY <1>5, <1>6 DEF InOrder, s, t

LEMMA OrderedOnce ==
  ASSUME posted \in Seq(Messages), PostedOnce,
         NEW x \in Seq(Messages), NEW y \in Seq(Messages), InOrder(posted, x \o y)
  PROVE  SeqRange(x) \cap SeqRange(y) = {}
<1>1. /\ Len(x) \in Nat /\ Len(y) \in Nat /\ DOMAIN x = 1..Len(x) /\ DOMAIN y = 1..Len(y)
      /\ DOMAIN (x \o y) = 1..(Len(x) + Len(y))
      /\ \A i \in 1..(Len(x) + Len(y)) : (x \o y)[i] = IF i <= Len(x) THEN x[i] ELSE y[i - Len(x)]
  BY ConcatProperties, LenProperties
<1> SUFFICES ASSUME NEW i \in 1..Len(x), NEW j \in 1..Len(y), x[i] = y[j] PROVE FALSE
  BY <1>1 DEF SeqRange
<1>2. /\ i \in DOMAIN (x \o y) /\ Len(x) + j \in DOMAIN (x \o y) /\ i < Len(x) + j
      /\ (x \o y)[i] = x[i] /\ (x \o y)[Len(x) + j] = y[j]
  BY <1>1
<1>3. Precedes(posted, x[i], x[i])  BY <1>2 DEF InOrder
<1>4. DOMAIN posted = 1..Len(posted) /\ Len(posted) \in Nat  BY LenProperties
<1> QED BY <1>3, <1>4 DEF Precedes, PostedOnce

LEMMA QueueStep ==
  ASSUME TypeOK, LineInv, NEW m \in Messages, Queues(m)
  PROVE  LineInv'
<1>1. /\ posted \in Seq(Messages) /\ Line \in Seq(Messages)
  BY LineType DEF TypeOK
<1>2. /\ m \notin SeqRange(posted) /\ posted' = Append(posted, m)
      /\ UNCHANGED <<abandoned, discarded>>
  BY DEF Queues
<1>3. /\ Len(posted) \in Nat /\ DOMAIN posted = 1..Len(posted)
      /\ DOMAIN posted' = 1..(Len(posted) + 1)
      /\ \A i \in 1..Len(posted) : posted'[i] = posted[i]
      /\ posted'[Len(posted) + 1] = m
  BY <1>1, <1>2, AppendProperties, LenProperties
<1>4. SeqRange(posted') = SeqRange(posted) \cup {m}
  BY <1>1, <1>2, RangeAppend
<1>5. PostedOnce'
  <2> SUFFICES ASSUME NEW i \in DOMAIN posted', NEW j \in DOMAIN posted', posted'[i] = posted'[j]
               PROVE  i = j
    BY DEF PostedOnce
  <2>1. \A k \in 1..Len(posted) : posted[k] # m  BY <1>2, <1>3 DEF SeqRange
  <2>2. CASE i \in 1..Len(posted) /\ j \in 1..Len(posted)
    BY <1>3, <2>2 DEF LineInv, PostedOnce
  <2>3. CASE ~(i \in 1..Len(posted) /\ j \in 1..Len(posted))
    BY <1>3, <2>1, <2>3
  <2> QED BY <2>2, <2>3
<1>6. \A x, y : Precedes(posted, x, y) => Precedes(posted', x, y)
  <2> SUFFICES ASSUME NEW x, NEW y, Precedes(posted, x, y) PROVE Precedes(posted', x, y)
    OBVIOUS
  <2>1. PICK i, j \in DOMAIN posted : i < j /\ posted[i] = x /\ posted[j] = y
    BY DEF Precedes
  <2>2. i \in DOMAIN posted' /\ j \in DOMAIN posted' /\ posted'[i] = x /\ posted'[j] = y
    BY <1>3, <2>1
  <2> QED BY <2>1, <2>2 DEF Precedes
<1>7. CASE Line' = Append(Line, m) /\ UNCHANGED answers
  <2>1. /\ Len(Line) \in Nat /\ DOMAIN Line = 1..Len(Line)
        /\ DOMAIN Line' = 1..(Len(Line) + 1)
        /\ \A i \in 1..Len(Line) : Line'[i] = Line[i]
        /\ Line'[Len(Line) + 1] = m
    BY <1>1, <1>7, AppendProperties, LenProperties
  <2>2. SeqRange(Line') = SeqRange(Line) \cup {m}
    BY <1>1, <1>7, RangeAppend
  <2>3. InOrder(posted', Line')
    <3> SUFFICES ASSUME NEW a \in DOMAIN Line', NEW b \in DOMAIN Line', a < b
                 PROVE  Precedes(posted', Line'[a], Line'[b])
      BY DEF InOrder
    <3>1. a \in 1..Len(Line) /\ Line'[a] = Line[a]  BY <2>1
    <3>2. CASE b \in 1..Len(Line)
      BY <1>6, <2>1, <3>1, <3>2 DEF LineInv, InOrder
    <3>3. CASE b = Len(Line) + 1
      <4>1. Line[a] \in SeqRange(posted)
        BY <2>1, <3>1 DEF LineInv, Placed, SeqRange
      <4>2. PICK i \in 1..Len(posted) : posted[i] = Line[a]
        BY <1>3, <4>1 DEF SeqRange
      <4>3. /\ i \in DOMAIN posted' /\ Len(posted) + 1 \in DOMAIN posted' /\ i < Len(posted) + 1
            /\ posted'[i] = Line'[a] /\ posted'[Len(posted) + 1] = Line'[b]
        BY <1>3, <2>1, <3>1, <3>3, <4>2
      <4> QED BY <4>3 DEF Precedes
    <3> QED BY <2>1, <3>2, <3>3
  <2>4. Placed'
    BY <1>2, <1>4, <1>7, <2>2 DEF LineInv, Placed
  <2> QED BY <1>5, <2>3, <2>4 DEF LineInv
<1>8. CASE Line' = Line /\ answers' = answers \cup {m}
  <2>1. InOrder(posted', Line')
    BY <1>6, <1>8 DEF LineInv, InOrder
  <2>2. Placed'
    BY <1>2, <1>4, <1>8 DEF LineInv, Placed
  <2> QED BY <1>5, <2>1, <2>2 DEF LineInv
<1> QED BY <1>7, <1>8 DEF Queues

LEMMA SkipStep ==
  ASSUME TypeOK, LineInv, NEW y \in Seq(Messages), Skips(y)
  PROVE  LineInv'
<1>1. PICK x \in Seq(Messages), z \in Seq(Messages) : Line = x \o (y \o z) /\ Line' = x \o z
  BY DEF Skips
<1>2. posted \in Seq(Messages) /\ UNCHANGED <<posted, answers>> /\ PostedOnce /\ InOrder(posted, Line) /\ Placed
  BY DEF TypeOK, Skips, LineInv
<1>3. InOrder(posted, Line')  BY <1>1, <1>2, OrderedSkip
<1>4. /\ SeqRange(Line) = SeqRange(x) \cup (SeqRange(y) \cup SeqRange(z))
      /\ SeqRange(Line') = SeqRange(x) \cup SeqRange(z)
  <2>1. y \o z \in Seq(Messages) /\ SeqRange(y \o z) = SeqRange(y) \cup SeqRange(z)
    BY RangeConcat, ConcatProperties
  <2>2. SeqRange(x \o (y \o z)) = SeqRange(x) \cup SeqRange(y \o z)
    <3> DEFINE r == y \o z
    <3>1. r \in Seq(Messages)  BY <2>1
    <3> HIDE DEF r
    <3>2. SeqRange(x \o r) = SeqRange(x) \cup SeqRange(r)  BY <3>1, RangeConcat
    <3> QED BY <3>2 DEF r
  <2>3. SeqRange(x \o z) = SeqRange(x) \cup SeqRange(z)
    BY RangeConcat
  <2> QED BY <1>1, <2>1, <2>2, <2>3
<1>5. SeqRange(x) \cap SeqRange(y) = {}
  <2>1. y \o z \in Seq(Messages)  BY ConcatProperties
  <2>2. SeqRange(x) \cap SeqRange(y \o z) = {}  BY <1>1, <1>2, <2>1, OrderedOnce
  <2> QED BY <2>2, RangeConcat
<1>6. SeqRange(z) \cap SeqRange(y) = {}
  <2>1. <<>> \in Seq(Messages) /\ y \o z \in Seq(Messages)  BY EmptySeq, ConcatProperties
  <2>2. InOrder(posted, <<>> \o (x \o (y \o z)))
    <3>1. x \o (y \o z) \in Seq(Messages)  BY <2>1, ConcatProperties
    <3> QED BY <1>1, <1>2, <3>1, ConcatEmptySeq
  <2>3. InOrder(posted, <<>> \o (y \o z))  BY <2>1, <2>2, OrderedSkip
  <2>4. InOrder(posted, y \o z)  BY <2>1, <2>3, ConcatEmptySeq
  <2> QED BY <1>2, <2>4, OrderedOnce
<1>7. CASE abandoned' = abandoned \cup SeqRange(y) /\ UNCHANGED discarded
  <2>1. Placed'
    BY <1>2, <1>4, <1>5, <1>6, <1>7 DEF Placed
  <2> QED BY <1>2, <1>3, <2>1 DEF LineInv, PostedOnce
<1>8. ASSUME NEW i \in Callers, discarded[i] = {},
             discarded' = [discarded EXCEPT ![i] = SeqRange(y)], UNCHANGED abandoned
      PROVE  LineInv'
  <2>1. discarded'[i] = SeqRange(y) /\ \A j \in Callers : j # i => discarded'[j] = discarded[j]
    BY <1>8 DEF TypeOK
  <2>2. Placed'
    BY <1>2, <1>4, <1>5, <1>6, <1>8, <2>1 DEF Placed
  <2> QED BY <1>2, <1>3, <2>2 DEF LineInv, PostedOnce
<1> QED BY <1>7, <1>8 DEF Skips

LEMMA LineStep ==
  ASSUME TypeOK, LineInv, LineMoves
  PROVE  LineInv'
<1>1. CASE KeepsLine
  BY <1>1 DEF KeepsLine, LineInv, PostedOnce, Placed
<1> QED BY <1>1, QueueStep, SkipStep DEF LineMoves

LEMMA OrderedParts ==
  ASSUME NEW p, NEW x \in Seq(Messages), NEW y \in Seq(Messages), InOrder(p, x \o y)
  PROVE  /\ InOrder(p, x) /\ InOrder(p, y)
         /\ \A m \in SeqRange(x), k \in SeqRange(y) : Precedes(p, m, k)
<1>1. /\ Len(x) \in Nat /\ Len(y) \in Nat /\ DOMAIN x = 1..Len(x) /\ DOMAIN y = 1..Len(y)
      /\ DOMAIN (x \o y) = 1..(Len(x) + Len(y))
      /\ \A i \in 1..(Len(x) + Len(y)) : (x \o y)[i] = IF i <= Len(x) THEN x[i] ELSE y[i - Len(x)]
  BY ConcatProperties, LenProperties
<1>2. ASSUME NEW i \in DOMAIN x
      PROVE  i \in DOMAIN (x \o y) /\ (x \o y)[i] = x[i]
  BY <1>1
<1>3. ASSUME NEW j \in DOMAIN y
      PROVE  Len(x) + j \in DOMAIN (x \o y) /\ (x \o y)[Len(x) + j] = y[j]
  BY <1>1
<1>4. InOrder(p, x)
  BY <1>2 DEF InOrder
<1>5. InOrder(p, y)
  <2> SUFFICES ASSUME NEW a \in DOMAIN y, NEW b \in DOMAIN y, a < b
               PROVE  Precedes(p, y[a], y[b])
    BY DEF InOrder
  <2>1. Len(x) + a < Len(x) + b  BY <1>1
  <2> QED BY <1>3, <2>1 DEF InOrder
<1>6. ASSUME NEW m \in SeqRange(x), NEW k \in SeqRange(y)
      PROVE  Precedes(p, m, k)
  <2>1. PICK a \in DOMAIN x : m = x[a]  BY DEF SeqRange
  <2>2. PICK b \in DOMAIN y : k = y[b]  BY DEF SeqRange
  <2>3. a < Len(x) + b  BY <1>1
  <2> QED BY <1>2, <1>3, <2>1, <2>2, <2>3 DEF InOrder
<1> QED BY <1>4, <1>5, <1>6

\* What the context shows is what its entries show.
LEMMA ShownMembers ==
  ASSUME NEW m
  PROVE  \A s \in Seq(Entry) :
           m \in SeqRange(ShownBy(s)) <=> \E j \in DOMAIN s : m \in SeqRange(s[j].msgs)
<1> DEFINE P == {s \in Seq(Entry) :
                   m \in SeqRange(ShownBy(s)) <=> \E j \in DOMAIN s : m \in SeqRange(s[j].msgs)}
<1>1. <<>> \in P
  <2>1. <<>> \in Seq(Entry) /\ SeqRange(<<>>) = {} /\ DOMAIN <<>> = {}
    BY EmptySeq DEF SeqRange
  <2> QED BY <2>1, ShownEmpty
<1>2. ASSUME NEW s \in Seq(Entry), NEW e \in Entry, s \in P PROVE Append(s, e) \in P
  <2>1. /\ Append(s, e) \in Seq(Entry) /\ Len(s) \in Nat /\ DOMAIN s = 1..Len(s)
        /\ DOMAIN Append(s, e) = 1..(Len(s) + 1)
        /\ \A i \in 1..Len(s) : Append(s, e)[i] = s[i]
        /\ Append(s, e)[Len(s) + 1] = e
    BY AppendProperties, LenProperties
  <2>2. ShownBy(s) \in Seq(Messages) /\ e.msgs \in Seq(Messages)
    BY ShownAppend DEF Entry
  <2>3. SeqRange(ShownBy(Append(s, e))) = SeqRange(ShownBy(s)) \cup SeqRange(e.msgs)
    <3>1. ShownBy(Append(s, e)) = ShownBy(s) \o e.msgs  BY ShownAppend
    <3> QED BY <2>2, <3>1, RangeConcat
  <2>4. ASSUME NEW j \in DOMAIN s, m \in SeqRange(s[j].msgs)
        PROVE  \E k \in DOMAIN Append(s, e) : m \in SeqRange(Append(s, e)[k].msgs)
    <3>1. j \in DOMAIN Append(s, e) /\ Append(s, e)[j] = s[j]  BY <2>1
    <3> QED BY <2>4, <3>1
  <2>5. ASSUME m \in SeqRange(e.msgs)
        PROVE  \E k \in DOMAIN Append(s, e) : m \in SeqRange(Append(s, e)[k].msgs)
    <3>1. Len(s) + 1 \in DOMAIN Append(s, e)  BY <2>1
    <3> QED BY <2>1, <2>5, <3>1
  <2>6. ASSUME NEW k \in DOMAIN Append(s, e), m \in SeqRange(Append(s, e)[k].msgs)
        PROVE  (\E j \in DOMAIN s : m \in SeqRange(s[j].msgs)) \/ m \in SeqRange(e.msgs)
    <3>1. CASE k = Len(s) + 1  BY <2>1, <2>6, <3>1
    <3>2. CASE k # Len(s) + 1
      <4>1. k \in DOMAIN s /\ Append(s, e)[k] = s[k]  BY <2>1, <3>2
      <4> QED BY <2>6, <4>1
    <3> QED BY <3>1, <3>2
  <2> QED BY <1>2, <2>1, <2>3, <2>4, <2>5, <2>6
<1>3. Seq(Entry) \subseteq P
  <2> HIDE DEF P
  <2> QED BY <1>1, <1>2, SeqInduction
<1> QED BY <1>3

\* The order of what is shown, by entries.
EntriesInOrder(p, s) ==
  \A i, j \in DOMAIN s : \A a \in DOMAIN s[i].msgs, b \in DOMAIN s[j].msgs :
    i < j \/ (i = j /\ a < b) => Precedes(p, s[i].msgs[a], s[j].msgs[b])

LEMMA ShownOrder ==
  ASSUME NEW p
  PROVE  \A s \in Seq(Entry) : InOrder(p, ShownBy(s)) => EntriesInOrder(p, s)
<1> DEFINE P == {s \in Seq(Entry) : InOrder(p, ShownBy(s)) => EntriesInOrder(p, s)}
<1>1. <<>> \in P
  BY EmptySeq DEF EntriesInOrder
<1>2. ASSUME NEW s \in Seq(Entry), NEW e \in Entry, s \in P PROVE Append(s, e) \in P
  <2> DEFINE t == Append(s, e)
  <2>1. /\ t \in Seq(Entry) /\ Len(s) \in Nat /\ DOMAIN s = 1..Len(s)
        /\ DOMAIN t = 1..(Len(s) + 1)
        /\ \A i \in 1..Len(s) : t[i] = s[i]
        /\ t[Len(s) + 1] = e
    BY AppendProperties, LenProperties
  <2>2. ShownBy(s) \in Seq(Messages) /\ e.msgs \in Seq(Messages)
    BY ShownAppend DEF Entry
  <2>3. ShownBy(t) = ShownBy(s) \o e.msgs  BY ShownAppend
  <2> HIDE DEF t
  <2> SUFFICES ASSUME InOrder(p, ShownBy(t)) PROVE EntriesInOrder(p, t)
    BY <2>1 DEF t
  <2>4. /\ InOrder(p, ShownBy(s)) /\ InOrder(p, e.msgs)
        /\ \A m \in SeqRange(ShownBy(s)), k \in SeqRange(e.msgs) : Precedes(p, m, k)
    BY <2>2, <2>3, OrderedParts
  <2>5. EntriesInOrder(p, s)  BY <1>2, <2>4
  <2> SUFFICES ASSUME NEW i \in DOMAIN t, NEW j \in DOMAIN t,
                      NEW a \in DOMAIN t[i].msgs, NEW b \in DOMAIN t[j].msgs,
                      i < j \/ (i = j /\ a < b)
               PROVE  Precedes(p, t[i].msgs[a], t[j].msgs[b])
    BY DEF EntriesInOrder
  <2>6. CASE j # Len(s) + 1
    <3>1. i \in DOMAIN s /\ j \in DOMAIN s /\ t[i] = s[i] /\ t[j] = s[j]
      BY <2>1, <2>6
    <3> QED BY <2>5, <3>1 DEF EntriesInOrder
  <2>7. CASE j = Len(s) + 1 /\ i # j
    <3>1. i \in DOMAIN s /\ t[i] = s[i] /\ t[j] = e  BY <2>1, <2>7
    <3>2. t[i].msgs[a] \in SeqRange(s[i].msgs) /\ t[j].msgs[b] \in SeqRange(e.msgs)
      BY <3>1 DEF SeqRange
    <3>3. t[i].msgs[a] \in SeqRange(ShownBy(s))  BY <3>1, <3>2, ShownMembers
    <3> QED BY <2>4, <3>2, <3>3
  <2>8. CASE j = Len(s) + 1 /\ i = j
    <3>1. t[i] = e /\ t[j] = e /\ a < b  BY <2>1, <2>8
    <3> QED BY <2>4, <3>1 DEF InOrder
  <2> QED BY <2>6, <2>7, <2>8
<1>3. Seq(Entry) \subseteq P
  <2> HIDE DEF P
  <2> QED BY <1>1, <1>2, SeqInduction
<1> QED BY <1>3

-----------------------------------------------------------------------------
(* The invariant about inputs                                              *)

InputInv == ConsumerInv /\ TurnShape /\ WaitersOnce /\ DropsOnce /\ LineInv

LEMMA InputInit == Init => InputInv
<1> SUFFICES ASSUME Init PROVE InputInv
  OBVIOUS
<1>1. ConsumerInv
  BY DEF Init, ConsumerInv, OneConsumer, EndedIsDead, Live, InTurn
<1>2. TurnShape
  BY DEF Init, TurnShape
<1>3. DOMAIN <<>> = {} /\ SeqRange(<<>>) = {} /\ <<>> \in Seq(Messages)
  BY EmptySeq DEF SeqRange
<1>4. WaitersOnce /\ DropsOnce
  BY <1>3 DEF Init, WaitersOnce, DropsOnce
<1>5. Line = <<>>
  <2>1. ShownBy(chain) = <<>> /\ batch[cur] = <<>> /\ inbox = <<>>
    BY ShownEmpty DEF Init
  <2> QED BY <1>3, <2>1, ConcatEmptySeq DEF Line
<1>6. LineInv
  <2>1. InOrder(posted, Line)  BY <1>3, <1>5 DEF InOrder
  <2>2. PostedOnce  BY <1>3 DEF Init, PostedOnce
  <2>3. Placed  BY <1>3, <1>5 DEF Init, Placed
  <2> QED BY <2>1, <2>2, <2>3 DEF LineInv
<1> QED BY <1>1, <1>2, <1>4, <1>6 DEF InputInv

LEMMA InputStep ==
  ASSUME TypeOK, TypeOK', Targets, InputInv, [Next]_vars
  PROVE  InputMoves /\ InputInv'
<1>1. ConsumerInv'  BY ConsumerStep DEF InputInv
<1>2. InputMoves  BY InputShape DEF InputInv, ConsumerInv
<1>3. LineMoves  BY <1>2, LineShape DEF InputInv, ConsumerInv
<1>4. LineInv'  BY <1>3, LineStep DEF InputInv
<1>5. TurnShape'  BY TurnShapeStep DEF InputInv
<1>6. (WaitersOnce /\ DropsOnce)'  BY WaitersStep DEF InputInv
<1> QED BY <1>1, <1>2, <1>4, <1>5, <1>6 DEF InputInv

\* What holds of the inputs at every moment: those the model was shown, those
\* of the turn and those that wait form one line in the order of acceptance, and
\* every accepted input is in that line or settled in exactly one way.
THEOREM InputInvAlways == Spec => []InputInv
<1>1. TypeOK /\ TypeOK' /\ Targets /\ InputInv /\ [Next]_vars => InputInv'
  BY InputStep
<1>2. QED
  BY <1>1, InputInit, TypeCorrect, PTL DEF Spec

-----------------------------------------------------------------------------

LEMMA LineParts ==
  ASSUME TypeOK, LineInv
  PROVE  /\ EntriesInOrder(posted, chain) /\ InOrder(posted, inbox)
         /\ \A m \in SeqRange(ShownBy(chain)), k \in SeqRange(inbox) : Precedes(posted, m, k)
         /\ SeqRange(ShownBy(chain)) \cap SeqRange(inbox) = {}
         /\ SeqRange(ShownBy(chain)) \cap SeqRange(batch[cur]) = {}
         /\ SeqRange(batch[cur]) \cap SeqRange(inbox) = {}
         /\ SeqRange(Line) = SeqRange(ShownBy(chain)) \cup SeqRange(batch[cur]) \cup SeqRange(inbox)
<1> DEFINE C == ShownBy(chain)
           B == batch[cur]
           R == B \o inbox
<1>1. C \in Seq(Messages) /\ B \in Seq(Messages) /\ inbox \in Seq(Messages)
      /\ R \in Seq(Messages) /\ posted \in Seq(Messages)
  BY ShownType, ConcatProperties DEF TypeOK
<1>2. SeqRange(R) = SeqRange(B) \cup SeqRange(inbox)
  <2> HIDE DEF B, R
  <2> QED BY <1>1, RangeConcat DEF R
<1>3. InOrder(posted, C \o R) /\ Line = C \o R
  BY DEF LineInv, Line
<1> HIDE DEF C, R
<1>4. SeqRange(Line) = SeqRange(C) \cup SeqRange(R)
  BY <1>1, <1>3, RangeConcat
<1>5. /\ InOrder(posted, C) /\ InOrder(posted, R)
      /\ \A m \in SeqRange(C), k \in SeqRange(R) : Precedes(posted, m, k)
  BY <1>1, <1>3, OrderedParts
<1>6. SeqRange(C) \cap SeqRange(R) = {}
  BY <1>1, <1>3, OrderedOnce DEF LineInv
<1>7. InOrder(posted, B \o inbox)  BY <1>5 DEF R
<1> HIDE DEF B
<1>8. InOrder(posted, inbox) /\ SeqRange(B) \cap SeqRange(inbox) = {}
  BY <1>1, <1>7, OrderedParts, OrderedOnce DEF LineInv
<1>9. EntriesInOrder(posted, chain)
  <2>1. chain \in Seq(Entry)  BY DEF TypeOK
  <2> QED BY <1>5, <2>1, ShownOrder DEF C
<1> QED BY <1>2, <1>4, <1>5, <1>6, <1>8, <1>9 DEF C, B

\* The context shows the inputs in the order in which post() took them, and
\* the queue holds later ones in that order: merging a queue into a turn,
\* steering into a running round and putting back what cannot be steered never
\* let one input overtake another.
THEOREM FifoAlways == Spec => []Fifo
<1>1. TypeOK /\ InputInv => Fifo
  <2> SUFFICES ASSUME TypeOK, InputInv PROVE Fifo
    OBVIOUS
  <2>0. \A x, y : PostedBefore(x, y) <=> Precedes(posted, x, y)
    BY DEF PostedBefore, Precedes
  <2>1. /\ EntriesInOrder(posted, chain) /\ InOrder(posted, inbox)
        /\ \A m \in SeqRange(ShownBy(chain)), k \in SeqRange(inbox) : Precedes(posted, m, k)
    BY LineParts DEF InputInv
  <2>2. ASSUME NEW i \in DOMAIN chain, NEW a \in DOMAIN chain[i].msgs, NEW b \in DOMAIN inbox
        PROVE  PostedBefore(chain[i].msgs[a], inbox[b])
    <3>1. chain[i].msgs[a] \in SeqRange(chain[i].msgs) /\ inbox[b] \in SeqRange(inbox)
      BY DEF SeqRange
    <3>2. chain \in Seq(Entry)  BY DEF TypeOK
    <3>3. chain[i].msgs[a] \in SeqRange(ShownBy(chain))  BY <3>1, <3>2, ShownMembers
    <3> QED BY <2>0, <2>1, <3>1, <3>3
  <2> QED BY <2>0, <2>1, <2>2 DEF Fifo, EntriesInOrder, InOrder
<1>2. QED
  BY <1>1, InputInvAlways, TypeCorrect, PTL

-----------------------------------------------------------------------------
(* One home                                                                *)

LEMMA NeverBeforeItself ==
  ASSUME TypeOK, PostedOnce, NEW x
  PROVE  ~Precedes(posted, x, x)
<1>1. DOMAIN posted = 1..Len(posted) /\ Len(posted) \in Nat
  BY LenProperties DEF TypeOK
<1> QED BY <1>1 DEF Precedes, PostedOnce

LEMMA OneEntry ==
  ASSUME TypeOK, LineInv, NEW m, m \in SeqRange(ShownBy(chain))
  PROVE  \E j \in DOMAIN chain : {k \in DOMAIN chain : m \in SeqRange(chain[k].msgs)} = {j}
<1>1. chain \in Seq(Entry) /\ PostedOnce  BY DEF TypeOK, LineInv
<1>2. PICK j \in DOMAIN chain : m \in SeqRange(chain[j].msgs)
  BY <1>1, ShownMembers
<1>3. ASSUME NEW k \in DOMAIN chain, NEW l \in DOMAIN chain, k < l,
             m \in SeqRange(chain[k].msgs), m \in SeqRange(chain[l].msgs)
      PROVE  FALSE
  <2>1. PICK a \in DOMAIN chain[k].msgs : m = chain[k].msgs[a]  BY <1>3 DEF SeqRange
  <2>2. PICK b \in DOMAIN chain[l].msgs : m = chain[l].msgs[b]  BY <1>3 DEF SeqRange
  <2>3. EntriesInOrder(posted, chain)  BY LineParts
  <2>4. Precedes(posted, m, m)  BY <1>3, <2>1, <2>2, <2>3 DEF EntriesInOrder
  <2> QED BY <1>1, <2>4, NeverBeforeItself
<1>4. DOMAIN chain = 1..Len(chain) /\ Len(chain) \in Nat  BY <1>1, LenProperties
<1>5. \A k \in DOMAIN chain : m \in SeqRange(chain[k].msgs) => k = j
  BY <1>2, <1>3, <1>4
<1> QED BY <1>2, <1>5

LEMMA OnePlace ==
  ASSUME TypeOK, LineInv, NEW m, m \in SeqRange(inbox)
  PROVE  \E j \in DOMAIN inbox : {k \in DOMAIN inbox : inbox[k] = m} = {j}
<1>1. inbox \in Seq(Messages) /\ PostedOnce  BY DEF TypeOK, LineInv
<1>2. PICK j \in DOMAIN inbox : m = inbox[j]  BY DEF SeqRange
<1>3. ASSUME NEW k \in DOMAIN inbox, NEW l \in DOMAIN inbox, k < l, m = inbox[k], m = inbox[l]
      PROVE  FALSE
  <2>1. InOrder(posted, inbox)  BY LineParts
  <2>2. Precedes(posted, m, m)  BY <1>3, <2>1 DEF InOrder
  <2> QED BY <1>1, <2>2, NeverBeforeItself
<1>4. DOMAIN inbox = 1..Len(inbox) /\ Len(inbox) \in Nat  BY <1>1, LenProperties
<1>5. ASSUME NEW k \in DOMAIN inbox, m = inbox[k] PROVE k = j
  <2>1. ~(k < j) /\ ~(j < k)  BY <1>2, <1>3, <1>5
  <2> QED BY <1>4, <2>1
<1> QED BY <1>2, <1>5

LEMMA OneHomeEach ==
  ASSUME TypeOK, InputInv, NEW m \in Messages
  PROVE  Cardinality(Homes(m)) = IF m \in SeqRange(posted) THEN 1 ELSE 0
<1> DEFINE I == {k \in DOMAIN inbox : inbox[k] = m}
           B == {v \in Workers : m \in SeqRange(batch[v])}
           C == {k \in DOMAIN chain : m \in SeqRange(chain[k].msgs)}
           D == {i \in Callers : m \in discarded[i]}
           L == {m} \cap abandoned
           A == {m} \cap answers
<1>1. LineInv /\ Placed /\ cur \in Workers /\ chain \in Seq(Entry)
  BY DEF InputInv, LineInv, TypeOK
<1>2. /\ SeqRange(ShownBy(chain)) \cap SeqRange(inbox) = {}
      /\ SeqRange(ShownBy(chain)) \cap SeqRange(batch[cur]) = {}
      /\ SeqRange(batch[cur]) \cap SeqRange(inbox) = {}
      /\ SeqRange(Line) = SeqRange(ShownBy(chain)) \cup SeqRange(batch[cur]) \cup SeqRange(inbox)
  BY <1>1, LineParts
<1>3. I = {} <=> m \notin SeqRange(inbox)
  BY DEF SeqRange
<1>4. \/ B = {} /\ m \notin SeqRange(batch[cur])
      \/ B = {cur} /\ m \in SeqRange(batch[cur])
  <2>1. ASSUME NEW v \in B PROVE v = cur
    <3>1. batch[v] # <<>>
      <4>1. SeqRange(<<>>) = {}  BY DEF SeqRange
      <4> QED BY <4>1
    <3>2. pc[v] \in Live  BY <3>1 DEF InputInv, TurnShape, Live, InTurn
    <3> QED BY <3>2 DEF InputInv, ConsumerInv, OneConsumer
  <2> QED BY <1>1, <2>1
<1>5. C = {} <=> m \notin SeqRange(ShownBy(chain))
  BY <1>1, ShownMembers
<1>6. m \in SeqRange(ShownBy(chain)) => \E j \in DOMAIN chain : C = {j}
  BY <1>1, OneEntry
<1>7. m \in SeqRange(inbox) => \E j \in DOMAIN inbox : I = {j}
  BY <1>1, OnePlace
<1>8. Homes(m) = {<<"inbox", k>> : k \in I} \cup {<<"batch", w>> : w \in B}
                 \cup {<<"chain", k>> : k \in C} \cup {<<"discarded", i>> : i \in D}
                 \cup {<<"abandoned">> : x \in L} \cup {<<"answer">> : x \in A}
  BY DEF Homes
<1>9. /\ m \in SeqRange(posted) =>
           m \in SeqRange(Line) \/ m \in answers \/ m \in abandoned \/ D # {}
      /\ m \in SeqRange(Line) => m \in SeqRange(posted) /\ A = {} /\ L = {} /\ D = {}
      /\ m \in answers => m \in SeqRange(posted) /\ L = {} /\ D = {} /\ A = {m}
      /\ m \in abandoned => m \in SeqRange(posted) /\ D = {} /\ L = {m}
      /\ m \notin answers => A = {}
      /\ m \notin abandoned => L = {}
      /\ D # {} => m \in SeqRange(posted) /\ \E i \in Callers : D = {i}
  BY <1>1 DEF Placed
<1>10. m \notin SeqRange(Line) => I = {} /\ B = {} /\ C = {}
  BY <1>2, <1>3, <1>4, <1>5
<1>11. D # {} => A = {} /\ L = {}
  BY <1>9
<1> HIDE DEF I, B, C, D, L, A
<1>12. ASSUME m \in SeqRange(posted) PROVE \E h : Homes(m) = {h}
  <2>1. CASE m \in SeqRange(inbox)
    <3>1. B = {} /\ C = {} /\ D = {} /\ L = {} /\ A = {}
      BY <1>2, <1>4, <1>5, <1>9, <2>1
    <3>2. PICK j : I = {j}  BY <1>7, <2>1
    <3>3. Homes(m) = {<<"inbox", j>>}  BY <1>8, <3>1, <3>2
    <3> QED BY <3>3
  <2>2. CASE m \in SeqRange(batch[cur])
    <3>1. I = {} /\ C = {} /\ D = {} /\ L = {} /\ A = {} /\ B = {cur}
      BY <1>2, <1>3, <1>4, <1>5, <1>9, <2>2
    <3>2. Homes(m) = {<<"batch", cur>>}  BY <1>8, <3>1
    <3> QED BY <3>2
  <2>3. CASE m \in SeqRange(ShownBy(chain))
    <3>1. B = {} /\ I = {} /\ D = {} /\ L = {} /\ A = {}
      BY <1>2, <1>3, <1>4, <1>9, <2>3
    <3>2. PICK j : C = {j}  BY <1>6, <2>3
    <3>3. Homes(m) = {<<"chain", j>>}  BY <1>8, <3>1, <3>2
    <3> QED BY <3>3
  <2>4. CASE m \notin SeqRange(Line)
    <3>1. I = {} /\ B = {} /\ C = {}  BY <1>10, <2>4
    <3>2. CASE m \in answers
      <4>1. Homes(m) = {<<"answer">>}  BY <1>8, <1>9, <3>1, <3>2
      <4> QED BY <4>1
    <3>3. CASE m \in abandoned
      <4>0. A = {}  BY <1>9, <3>3
      <4>1. Homes(m) = {<<"abandoned">>}  BY <1>8, <1>9, <3>1, <3>3, <4>0
      <4> QED BY <4>1
    <3>4. CASE D # {}
      <4>1. PICK i : D = {i}  BY <1>9, <3>4
      <4>2. Homes(m) = {<<"discarded", i>>}  BY <1>8, <1>11, <3>1, <3>4, <4>1
      <4> QED BY <4>2
    <3> QED BY <1>9, <1>12, <2>4, <3>2, <3>3, <3>4
  <2> QED BY <1>2, <2>1, <2>2, <2>3, <2>4
<1>13. ASSUME m \notin SeqRange(posted) PROVE Homes(m) = {}
  <2>1. m \notin SeqRange(Line) /\ D = {} /\ A = {} /\ L = {}
    BY <1>9, <1>13
  <2> QED BY <1>8, <1>10, <2>1
<1>14. CASE m \in SeqRange(posted)
  <2>1. PICK h : Homes(m) = {h}  BY <1>12, <1>14
  <2>2. Cardinality({h}) = 1  BY FS_Singleton
  <2> QED BY <1>14, <2>1, <2>2
<1>15. CASE m \notin SeqRange(posted)
  BY <1>13, <1>15, FS_EmptySet
<1> QED BY <1>14, <1>15

\* Every input that post() took is in exactly one place, and no other input is
\* in any.
THEOREM OneHomeAlways == Spec => []OneHome
<1>1. TypeOK /\ InputInv => OneHome
  BY OneHomeEach DEF OneHome
<1>2. QED
  BY <1>1, InputInvAlways, TypeCorrect, PTL

-----------------------------------------------------------------------------
(* The promise                                                             *)

LEMMA ElemsRange ==
  ASSUME NEW S, NEW s \in Seq(S)
  PROVE  Promise!Elems(s) = SeqRange(s)
<1>1. DOMAIN s = 1..Len(s)  BY LenProperties
<1> QED BY <1>1 DEF SeqRange, Promise!Elems

Dropped == UNION {discarded[i] : i \in Callers}

Busy == pc[cur] \in InTurn

LEMMA PromiseStep ==
  ASSUME TypeOK, TypeOK', InputInv, InputMoves
  PROVE  [Promise!Next]_(Promise!promiseVars)
<1> DEFINE Kept == UNCHANGED <<inbox, Busy, batch[cur], ShownBy(chain), answers, Dropped, abandoned>>
<1>0. /\ ConsumerInv /\ OneConsumer /\ TurnShape /\ Placed /\ cur \in Workers
      /\ batch[cur] \in Seq(Messages) /\ inbox \in Seq(Messages) /\ batch \in [Workers -> Seq(Messages)]
      /\ pc \in [Workers -> WorkerPC] /\ ShownBy(chain) \in Seq(Messages)
  BY ShownType DEF InputInv, ConsumerInv, LineInv, TypeOK
<1>1. ASSUME Kept PROVE UNCHANGED Promise!promiseVars
  BY <1>1 DEF Promise!promiseVars, Busy, Dropped, ShownBy
<1>2. ASSUME NEW m \in Messages, Arrives(m) PROVE Promise!Accept(m)
  <2>1. m \notin Promise!Accepted
    <3>1. SeqRange(Line) = SeqRange(ShownBy(chain)) \cup SeqRange(batch[cur]) \cup SeqRange(inbox)
      BY LineParts DEF InputInv
    <3>2. /\ m \notin SeqRange(Line) /\ m \notin answers /\ m \notin abandoned
          /\ m \notin Dropped
      BY <1>0, <1>2 DEF Arrives, Placed, Dropped
    <3>3. /\ Promise!Elems(inbox) = SeqRange(inbox) /\ Promise!Elems(batch[cur]) = SeqRange(batch[cur])
          /\ Promise!Elems(ShownBy(chain)) = SeqRange(ShownBy(chain))
      BY <1>0, ElemsRange
    <3> QED BY <3>1, <3>2, <3>3 DEF Promise!Accepted, Dropped, ShownBy
  <2> QED BY <1>2, <2>1 DEF Arrives, Promise!Accept
<1>3. ASSUME NEW w \in Workers, Begins(w) PROVE Promise!Begin
  <2>1. w = cur  BY <1>0, <1>3 DEF Begins, OneConsumer, Live
  <2>2. ~Busy /\ Busy' /\ (batch[cur])' = inbox
    BY <1>0, <1>3, <2>1 DEF Begins, Goes, Busy, InTurn
  <2> QED BY <1>3, <2>2 DEF Begins, Promise!Begin, Busy
<1>4. ASSUME NEW w \in Workers, Shows(w) PROVE Promise!Show
  <2>1. w = cur  BY <1>0, <1>4 DEF Shows, OneConsumer, Live, InTurn
  <2>2. Busy /\ batch[cur] # <<>> /\ (batch[cur])' = <<>> /\ Busy' \in BOOLEAN
    BY <1>0, <1>4, <2>1 DEF Shows, Goes, Busy, InTurn, TurnShape
  <2>3. ShownBy(chain)' = ShownBy(chain) \o batch[cur]
    BY <1>0, <1>4, <2>1, BroughtLine DEF Shows
  <2> QED BY <1>4, <2>2, <2>3 DEF Shows, Promise!Show, Busy, ShownBy
<1>5. ASSUME NEW w \in Workers, Drains(w) PROVE [Promise!Next]_(Promise!promiseVars)
  <2>1. w = cur  BY <1>0, <1>5 DEF Drains, OneConsumer, Live, InTurn
  <2>2. Busy /\ batch[cur] = <<>> /\ (batch[cur])' = <<>>
    BY <1>0, <1>5, <2>1 DEF Drains, Goes, Busy, InTurn, TurnShape
  <2>3. inbox = Steered \o Unsteered /\ Steered \in Seq(Messages) /\ Unsteered \in Seq(Messages)
        /\ Len(inbox) \in Nat
    BY <1>0, SteeredFirst, SteeredType, LenProperties
  <2>4. UNCHANGED <<answers, Dropped>>
    BY <1>5 DEF Drains, Dropped
  <2>5. Brings(Steered) => ShownBy(chain)' = ShownBy(chain) \o Steered
    BY <2>3, BroughtLine
  <2>6. Promise!Elems(Steered) = SeqRange(Steered)
    BY <2>3, ElemsRange
  <2>7. CASE Steered # <<>>
    <3> DEFINE n == Len(Steered)
    <3>1. n \in 1..Len(inbox) /\ Steered = SubSeq(inbox, 1, n)
      <4>1. Steer /\ Steered = SubSeq(inbox, 1, SteerLen(inbox))
        BY <2>7 DEF Steered
      <4>2. SteerLen(inbox) \in 0..Len(inbox)  BY <1>0, SteerLenType
      <4>3. \A i \in 1..SteerLen(inbox) : inbox[i] \in Messages  BY <1>0, <4>2, ElementOfSeq
      <4>4. Len(Steered) = SteerLen(inbox)  BY <2>3, <4>1, <4>2, <4>3, SubSeqProperties
      <4>5. Len(Steered) # 0  BY <2>3, <2>7, EmptySeq
      <4>6. n = SteerLen(inbox) /\ n # 0  BY <4>4, <4>5
      <4> HIDE DEF n
      <4>7. n \in 1..Len(inbox)  BY <2>3, <4>2, <4>6
      <4>8. Steered = SubSeq(inbox, 1, n)  BY <4>1, <4>6
      <4> QED BY <4>7, <4>8
    <3>2. inbox' = SubSeq(inbox, n + 1, Len(inbox))
      BY <1>5 DEF Drains, Unsteered
    <3>3. Busy' \in BOOLEAN  BY DEF Busy
    <3>4. Goes(w, "get") => ~Busy'
      BY <1>0, <2>1 DEF Goes, Busy, InTurn
    <3> HIDE DEF n
    <3>5. \/ ShownBy(chain)' = ShownBy(chain) \o Steered /\ UNCHANGED abandoned
          \/ /\ abandoned' = abandoned \cup Promise!Elems(Steered) /\ ~Busy'
             /\ UNCHANGED ShownBy(chain)
      BY <1>5, <2>5, <2>6, <3>4 DEF Drains
    <3>6. Promise!Inject(n)
      BY <2>2, <2>4, <3>1, <3>2, <3>3, <3>5 DEF Promise!Inject, Busy, Dropped, ShownBy
    <3> QED BY <3>1, <3>6 DEF Promise!Next
  <2>8. CASE Steered = <<>>
    <3>1. inbox' = inbox  BY <1>5, <2>3, <2>8, ConcatEmptySeq DEF Drains
    <3>2. UNCHANGED <<ShownBy(chain), abandoned>>
      <4>1. ShownBy(chain) \o <<>> = ShownBy(chain)  BY <1>0, ConcatEmptySeq
      <4> QED BY <1>5, <2>5, <2>8, <4>1 DEF Drains
    <3>3. CASE Busy'
      <4>1. Kept  BY <2>2, <2>4, <3>1, <3>2, <3>3 DEF Busy
      <4> QED BY <1>1, <4>1
    <3>4. CASE ~Busy'
      <4>1. Promise!Elems(batch[cur]) = {}
        <5>1. SeqRange(<<>>) = {}  BY DEF SeqRange
        <5> QED BY <2>2, <2>6, <2>8, <5>1
      <4>2. Promise!End
        BY <2>2, <2>4, <3>1, <3>2, <3>4, <4>1 DEF Promise!End, Busy, Dropped, ShownBy
      <4> QED BY <4>2 DEF Promise!Next
    <3> QED BY <3>3, <3>4
  <2> QED BY <2>7, <2>8
<1>6. ASSUME NEW w \in Workers, Leaves(w) PROVE [Promise!Next]_(Promise!promiseVars)
  <2>1. w = cur  BY <1>0, <1>6 DEF Leaves, OneConsumer
  <2>2. (batch[cur])' = <<>> /\ ~Busy'
    BY <1>0, <1>6, <2>1 DEF Leaves, Goes, Busy, InTurn
  <2>3. ShownBy(chain)' = ShownBy(chain)
    <3>1. <<>> \in Seq(Messages)  BY EmptySeq
    <3>2. ShownBy(chain)' = ShownBy(chain) \o <<>>  BY <1>6, <3>1, BroughtLine DEF Leaves
    <3> QED BY <1>0, <3>2, ConcatEmptySeq
  <2>4. /\ abandoned' = abandoned \cup Promise!Elems(batch[cur])
        /\ UNCHANGED <<inbox, answers, Dropped>>
    <3>1. Promise!Elems(batch[cur]) = SeqRange(batch[cur])  BY <1>0, ElemsRange
    <3> QED BY <1>6, <2>1, <3>1 DEF Leaves, Dropped
  <2>5. CASE Busy
    <3>1. Busy' = FALSE  BY <2>2
    <3>2. Promise!End
      BY <2>2, <2>3, <2>4, <2>5, <3>1 DEF Promise!End, Busy, Dropped, ShownBy
    <3> QED BY <3>2 DEF Promise!Next
  <2>6. CASE ~Busy
    <3>1. batch[cur] = <<>>  BY <1>0, <2>6 DEF Busy, TurnShape, InTurn
    <3>2. Promise!Elems(batch[cur]) = {}
      <4>1. SeqRange(<<>>) = {}  BY DEF SeqRange
      <4>2. Promise!Elems(batch[cur]) = SeqRange(batch[cur])  BY <1>0, ElemsRange
      <4> QED BY <3>1, <4>1, <4>2
    <3>3. Kept  BY <2>2, <2>3, <2>4, <2>6, <3>1, <3>2 DEF Busy
    <3> QED BY <1>1, <3>3
  <2> QED BY <2>5, <2>6
<1>7. ASSUME SameTurn PROVE UNCHANGED Busy
  <2>1. CASE UNCHANGED <<pc, cur>>  BY <2>1 DEF Busy
  <2>2. CASE pc[cur] \in Ended /\ SpawnWorker
    BY <1>0, <2>2 DEF SpawnWorker, Busy, Ended, InTurn
  <2>3. ASSUME NEW w \in Workers, NEW x \in InTurn, pc[w] \in InTurn, Goes(w, x)
        PROVE  UNCHANGED Busy
    <3>1. w = cur  BY <1>0, <2>3 DEF OneConsumer, Live
    <3> QED BY <1>0, <2>3, <3>1 DEF Goes, Busy
  <2> QED BY <1>7, <2>1, <2>2, <2>3 DEF SameTurn
<1>8. ASSUME NEW i \in Callers, Clears(i) PROVE [Promise!Next]_(Promise!promiseVars)
  <2>1. UNCHANGED <<Busy, batch[cur], ShownBy(chain), answers, abandoned>>
    BY <1>0, <1>7, <1>8, SameTurnBatch DEF Clears
  <2>2. Dropped' = Dropped \cup Promise!Elems(inbox)
    <3>1. Promise!Elems(inbox) = SeqRange(inbox)  BY <1>0, ElemsRange
    <3>2. discarded'[i] = SeqRange(inbox) /\ \A j \in Callers : j # i => discarded'[j] = discarded[j]
      BY <1>8 DEF Clears, TypeOK
    <3>3. discarded[i] = {}  BY <1>8 DEF Clears
    <3> QED BY <3>1, <3>2, <3>3 DEF Dropped
  <2>3. inbox' = <<>>  BY <1>8 DEF Clears
  <2>4. CASE inbox # <<>>
    <3>1. Promise!Discard
      BY <2>1, <2>2, <2>3, <2>4 DEF Promise!Discard, Busy, Dropped, ShownBy
    <3> QED BY <3>1 DEF Promise!Next
  <2>5. CASE inbox = <<>>
    <3>1. Promise!Elems(inbox) = {}
      <4>1. SeqRange(<<>>) = {}  BY DEF SeqRange
      <4>2. Promise!Elems(inbox) = SeqRange(inbox)  BY <1>0, ElemsRange
      <4> QED BY <2>5, <4>1, <4>2
    <3>2. Kept  BY <2>1, <2>2, <2>3, <2>5, <3>1
    <3> QED BY <1>1, <3>2
  <2> QED BY <2>4, <2>5
<1>9. ASSUME Stays PROVE UNCHANGED Promise!promiseVars
  <2>1. UNCHANGED <<Busy, batch[cur], inbox, answers, abandoned, Dropped>>
    BY <1>0, <1>7, <1>9, SameTurnBatch DEF Stays, Dropped
  <2>2. ShownBy(chain)' = ShownBy(chain)
    <3>1. <<>> \in Seq(Messages)  BY EmptySeq
    <3>2. ShownBy(chain)' = ShownBy(chain) \o <<>>  BY <1>9, <3>1, BroughtLine DEF Stays
    <3> QED BY <1>0, <3>2, ConcatEmptySeq
  <2>3. Kept  BY <2>1, <2>2
  <2> QED BY <1>1, <2>3
<1> QED
  BY <1>2, <1>3, <1>4, <1>5, <1>6, <1>8, <1>9 DEF InputMoves, Promise!Next

\* The worker, its tools, interrupts, shutdown, crashes and renewals together
\* keep the promise InputPromise states: every step of the agent is a step of
\* the promise or leaves its state alone.
THEOREM KeepsPromiseAlways == Spec => KeepsPromise
<1>1. Init => Promise!Init
  <2> SUFFICES ASSUME Init PROVE Promise!Init
    OBVIOUS
  <2>1. ShownBy(chain) = <<>> /\ batch[cur] = <<>> /\ ~Busy /\ Dropped = {}
    BY ShownEmpty DEF Init, Busy, InTurn, Dropped
  <2> QED BY <2>1 DEF Init, Promise!Init, ShownBy, Busy, Dropped
<1>2. TypeOK /\ TypeOK' /\ Targets /\ InputInv /\ [Next]_vars => [Promise!Next]_(Promise!promiseVars)
  BY InputStep, PromiseStep
<1>3. QED
  BY <1>1, <1>2, InputInvAlways, TypeCorrect, PTL DEF Spec, KeepsPromise, Promise!Spec
=============================================================================
