---------------------------- MODULE AgentWorker ----------------------------
(***************************************************************************)
(* One WingAgent: its inbox, the worker task that consumes it (run_turn),  *)
(* the tool tasks of a round, and the callers that interrupt the agent or  *)
(* shut it down (libs/core/wing/agent/{core,inbox,react_loop,              *)
(* tool_executor}.py).  The program is single-threaded asyncio code, so an *)
(* action is what runs between two awaits of one task.                     *)
(***************************************************************************)
EXTENDS Naturals, Sequences, FiniteSets

CONSTANTS
  Messages,      \* user inputs, each posted at most once
  Media,         \* the inputs that carry media (never steered into a round)
  Calls,         \* tool call ids the model may produce, each used once
  Interrupters,  \* callers of interrupt(), one call each
  Closer,        \* the caller of shutdown()
  Workers,       \* identities for the worker tasks ever created
  MaxCancels,    \* _INTERRUPT_MAX_CANCELS
  MaxTurns,      \* max_turns, rounds of one turn
  MaxRetries,    \* retries of one generation (both with_retry ladders)
  MaxCrashes,    \* bound: BaseExceptions that escape run_turn
  NoTask,        \* "no lock holder", "no target"
  Steer          \* the steer switch of the configuration

ASSUME AgentAssumption ==
  /\ Media \subseteq Messages
  /\ Closer \notin Interrupters
  /\ NoTask \notin Interrupters \cup {Closer} \cup Workers
  /\ MaxCancels \in Nat \ {0}
  /\ MaxTurns \in Nat \ {0}
  /\ MaxRetries \in Nat
  /\ MaxCrashes \in Nat
  /\ Workers # {}
  /\ Steer \in BOOLEAN

Callers == Interrupters \cup {Closer}

VARIABLES
  posted,     \* history: the inputs in the order post() took them
  inbox,      \* Inbox._queue
  waiters,    \* keys of Inbox._feedback_waiters
  answers,    \* inputs that went to a waiter instead of the queue
  pc,         \* where each worker task is suspended, or how it ended
  cancelling, \* a cancel() is pending on this worker
  batch,      \* inputs merged into the turn, not yet in the context
  acc,        \* StreamAccumulator of the worker's generation / its round
  rounds,     \* _TurnAccumulator.num_turns
  retries,    \* attempts spent in the current generation
  tool,       \* state of each tool task
  chain,      \* ContextManager messages, in memory
  abandoned,  \* inputs taken from the queue that never reached the chain
  cur,        \* WingAgent._worker
  ended,      \* workers that ended and whose done callbacks have not run
  armed,      \* workers with a _renew callback
  closing,    \* WingAgent._closing
  call,       \* progress of each interrupt() / shutdown() call
  attempt,    \* rung of the cancel ladder
  target,     \* the worker the call is stopping
  holder,     \* who holds _interrupt_lock
  lockq,      \* who waits for it, FIFO
  discarded,  \* inputs each call cleared from the queue
  crashes     \* BaseExceptions so far (bound)

inboxVars == <<posted, inbox, waiters, answers>>
turnVars  == <<batch, acc, rounds, retries>>
taskVars  == <<cur, ended, armed>>
callVars  == <<closing, call, attempt, target, holder, lockq, discarded>>
vars == <<inboxVars, pc, cancelling, turnVars, tool, chain, abandoned,
          taskVars, callVars, crashes>>

-----------------------------------------------------------------------------
(* Values                                                                  *)

Ended    == {"cancelled", "crashed"}
InTurn   == {"hook", "llm", "tools", "reap"}
Live     == {"get"} \cup InTurn
WorkerPC == {"none"} \cup Live \cup Ended

\* "named": its arguments are complete; "ask": awaits a feedback future;
\* "struck": that future was cancelled; "back": the ask is over; "ok": ended
\* with a result; "gone": ended cancelled.
ToolState == {"idle", "named", "run", "ask", "answered", "struck", "back", "ok", "gone"}

NoAcc == [text |-> FALSE, open |-> FALSE, calls |-> <<>>]
Acc   == [text : BOOLEAN, open : BOOLEAN, calls : Seq(Calls)]

Entry == [kind : {"user", "assistant", "tool"}, calls : Seq(Calls), msgs : Seq(Messages)]

UserEntry(ms)      == [kind |-> "user", calls |-> <<>>, msgs |-> ms]
AssistantEntry(cs) == [kind |-> "assistant", calls |-> cs, msgs |-> <<>>]

\* One tool message per call, in call order; `note` is the steer note, which
\* the code puts in front of the last result.
ToolEntries(cs, note) ==
  [k \in 1..Len(cs) |->
     [kind |-> "tool", calls |-> <<cs[k]>>, msgs |-> IF k = Len(cs) THEN note ELSE <<>>]]

SeqRange(s) == {s[i] : i \in DOMAIN s}

TypeOK ==
  /\ posted \in Seq(Messages) /\ inbox \in Seq(Messages)
  /\ waiters \subseteq Calls /\ answers \subseteq Messages
  /\ pc \in [Workers -> WorkerPC]
  /\ cancelling \in [Workers -> BOOLEAN]
  /\ batch \in [Workers -> Seq(Messages)]
  /\ acc \in [Workers -> Acc]
  /\ rounds \in [Workers -> Nat] /\ retries \in [Workers -> Nat]
  /\ tool \in [Calls -> ToolState]
  /\ chain \in Seq(Entry)
  /\ abandoned \subseteq Messages
  /\ cur \in Workers
  /\ ended \subseteq Workers /\ armed \subseteq Workers
  /\ closing \in BOOLEAN
  /\ call \in [Callers -> {"idle", "lock", "ladder", "done"}]
  /\ attempt \in [Callers -> Nat]
  /\ target \in [Callers -> Workers \cup {NoTask}]
  /\ holder \in Callers \cup {NoTask}
  /\ lockq \in Seq(Callers)
  /\ discarded \in [Callers -> SUBSET Messages]
  /\ crashes \in Nat

Init ==
  /\ posted = <<>> /\ inbox = <<>> /\ waiters = {} /\ answers = {}
  /\ cur \in Workers
  /\ pc = [w \in Workers |-> IF w = cur THEN "get" ELSE "none"]
  /\ cancelling = [w \in Workers |-> FALSE]
  /\ batch = [w \in Workers |-> <<>>]
  /\ acc = [w \in Workers |-> NoAcc]
  /\ rounds = [w \in Workers |-> 0] /\ retries = [w \in Workers |-> 0]
  /\ tool = [c \in Calls |-> "idle"]
  /\ chain = <<>>
  /\ abandoned = {}
  /\ ended = {} /\ armed = {}
  /\ closing = FALSE
  /\ call = [i \in Callers |-> "idle"]
  /\ attempt = [i \in Callers |-> 0]
  /\ target = [i \in Callers |-> NoTask]
  /\ holder = NoTask /\ lockq = <<>>
  /\ discarded = [i \in Callers |-> {}]
  /\ crashes = 0

-----------------------------------------------------------------------------
(* Inbox                                                                   *)

\* post(): an input that names a waiting tool call resolves its future, any
\* other goes to the queue, a stale tool_call_id included.
Post(m, c) ==
  /\ m \notin SeqRange(posted)
  /\ posted' = Append(posted, m)
  /\ IF c \in waiters /\ tool[c] = "ask"
     THEN /\ tool' = [tool EXCEPT ![c] = "answered"]
          /\ answers' = answers \cup {m}
          /\ UNCHANGED inbox
     ELSE /\ inbox' = Append(inbox, m)
          /\ UNCHANGED <<tool, answers>>
  /\ UNCHANGED <<waiters, pc, cancelling, turnVars, chain, abandoned, taskVars,
                 callVars, crashes>>

\* drain_for_steer takes the longest prefix without media and puts the rest
\* back in its order.
SteerLen(q) == Cardinality({n \in 1..Len(q) : \A j \in 1..n : q[j] \notin Media})

Steered == IF Steer THEN SubSeq(inbox, 1, SteerLen(inbox)) ELSE <<>>

\* Mutant: what cannot be steered is filtered out instead of put back.
UnsteeredFiltered == <<>>

Unsteered == SubSeq(inbox, Len(Steered) + 1, Len(inbox))

\* Mutant: the waiters are forgotten without cancelling their futures.
ClearInboxSilently(i) ==
  /\ waiters' = {}
  /\ discarded' = [discarded EXCEPT ![i] = SeqRange(inbox)]
  /\ inbox' = <<>>
  /\ UNCHANGED <<posted, answers, tool>>

\* cancel_all_waiters and clear, the first thing an interrupt does.
ClearInbox(i) ==
  /\ tool' = [c \in Calls |-> IF c \in waiters /\ tool[c] = "ask" THEN "struck" ELSE tool[c]]
  /\ waiters' = {}
  /\ discarded' = [discarded EXCEPT ![i] = SeqRange(inbox)]
  /\ inbox' = <<>>
  /\ UNCHANGED <<posted, answers>>

-----------------------------------------------------------------------------
(* The worker: run_turn                                                    *)

LeaveTurn(w) ==
  /\ batch' = [batch EXCEPT ![w] = <<>>]
  /\ acc' = [acc EXCEPT ![w] = NoAcc]
  /\ rounds' = [rounds EXCEPT ![w] = 0]
  /\ retries' = [retries EXCEPT ![w] = 0]

\* The turn is over, with its result or its error reported; _run loops.
BackToInbox(w) ==
  /\ LeaveTurn(w)
  /\ pc' = [pc EXCEPT ![w] = "get"]
  /\ cancelling' = [cancelling EXCEPT ![w] = FALSE]
  /\ UNCHANGED ended

\* The task ends; its done callbacks are scheduled.
Dies(w, how) ==
  /\ LeaveTurn(w)
  /\ pc' = [pc EXCEPT ![w] = how]
  /\ cancelling' = [cancelling EXCEPT ![w] = FALSE]
  /\ ended' = ended \cup {w}

\* inbox.get() returns: the whole queue is merged into one user message.
Take(w) ==
  /\ pc[w] = "get" /\ ~cancelling[w] /\ inbox # <<>>
  /\ batch' = [batch EXCEPT ![w] = inbox]
  /\ inbox' = <<>>
  /\ pc' = [pc EXCEPT ![w] = "hook"]
  /\ UNCHANGED <<posted, waiters, answers, cancelling, acc, rounds, retries, tool,
                 chain, abandoned, taskVars, callVars, crashes>>

\* The before_user_message hook returned: the message enters the chain, in
\* memory even if it cannot be persisted (then the turn fails).
AddUserMessage(w) ==
  /\ pc[w] = "hook" /\ ~cancelling[w]
  /\ chain' = Append(chain, UserEntry(batch[w]))
  /\ \/ /\ pc' = [pc EXCEPT ![w] = "llm"]
        /\ batch' = [batch EXCEPT ![w] = <<>>]
        /\ UNCHANGED <<acc, rounds, retries, cancelling, ended>>
     \/ BackToInbox(w)
  /\ UNCHANGED <<inboxVars, tool, abandoned, cur, armed, callVars, crashes>>

\* The stream brings text, opens a tool call or completes the open one.
Generate(w) ==
  /\ pc[w] = "llm" /\ ~cancelling[w]
  /\ \/ /\ ~acc[w].text
        /\ acc' = [acc EXCEPT ![w].text = TRUE]
        /\ UNCHANGED tool
     \/ /\ ~acc[w].open /\ \E c \in Calls : tool[c] = "idle"
        /\ acc' = [acc EXCEPT ![w].open = TRUE]
        /\ UNCHANGED tool
     \/ \E c \in Calls :
          /\ acc[w].open /\ tool[c] = "idle"
          /\ acc' = [acc EXCEPT ![w].open = FALSE, ![w].calls = Append(@, c)]
          /\ tool' = [tool EXCEPT ![c] = "named"]
  /\ UNCHANGED <<inboxVars, pc, cancelling, batch, rounds, retries, chain, abandoned,
                 taskVars, callVars, crashes>>

\* Text whose only tool call was cut off is committed before the attempt is
\* given up.
CommitCutOff(w) ==
  /\ acc[w].text /\ acc[w].open /\ acc[w].calls = <<>>
  /\ chain' = Append(chain, AssistantEntry(<<>>))

\* The stream failed or ended with nothing usable: another attempt.
Retry(w) ==
  /\ pc[w] = "llm" /\ ~cancelling[w] /\ retries[w] < MaxRetries
  /\ retries' = [retries EXCEPT ![w] = @ + 1]
  /\ acc' = [acc EXCEPT ![w] = NoAcc]
  /\ UNCHANGED chain \/ CommitCutOff(w)
  /\ UNCHANGED <<inboxVars, pc, cancelling, batch, rounds, tool, abandoned, taskVars,
                 callVars, crashes>>

\* The stream ended with completed calls: their tasks start; a call still
\* open is left out.
StartTools(w) ==
  /\ pc[w] = "llm" /\ ~cancelling[w] /\ acc[w].calls # <<>>
  /\ pc' = [pc EXCEPT ![w] = "tools"]
  /\ tool' = [c \in Calls |-> IF c \in SeqRange(acc[w].calls) THEN "run" ELSE tool[c]]
  /\ UNCHANGED <<inboxVars, cancelling, turnVars, chain, abandoned, taskVars, callVars,
                 crashes>>

\* The stream ended with text and no call: the answer is committed.
FinishTurn(w) ==
  /\ pc[w] = "llm" /\ ~cancelling[w]
  /\ acc[w].calls = <<>> /\ acc[w].text /\ ~acc[w].open
  /\ chain' = Append(chain, AssistantEntry(<<>>))
  /\ BackToInbox(w)
  /\ UNCHANGED <<inboxVars, tool, abandoned, cur, armed, callVars, crashes>>

\* An exception ends the turn: a strict event could not be persisted, the
\* provider gave up, the retries ran out.
FailTurn(w) ==
  /\ pc[w] \in {"hook", "llm"} /\ ~cancelling[w]
  /\ UNCHANGED chain \/ CommitCutOff(w)
  /\ abandoned' = abandoned \cup SeqRange(batch[w])
  /\ BackToInbox(w)
  /\ UNCHANGED <<inboxVars, tool, cur, armed, callVars, crashes>>

\* Mutant: steering skips what it cannot take and goes on.
CommitOvertaking(w) ==
  LET text == SelectSeq(inbox, LAMBDA m : m \notin Media) IN
  /\ chain' = chain \o <<AssistantEntry(acc[w].calls)>> \o ToolEntries(acc[w].calls, text)
  /\ inbox' = SelectSeq(inbox, LAMBDA m : m \in Media)
  /\ UNCHANGED <<posted, waiters, answers, abandoned>>

\* The round's messages go to the chain in one add_messages call, with what
\* the steer drain took from the queue.
CommitWithSteer(w) ==
  /\ chain' = chain \o <<AssistantEntry(acc[w].calls)>> \o ToolEntries(acc[w].calls, Steered)
  /\ inbox' = Unsteered
  /\ UNCHANGED <<posted, waiters, answers, abandoned>>

\* The acceptance event of a steered input could not be persisted: what was
\* drained and the round's messages are lost.
LoseSteered(w) ==
  /\ Steered # <<>>
  /\ abandoned' = abandoned \cup SeqRange(Steered)
  /\ inbox' = Unsteered
  /\ UNCHANGED <<posted, waiters, answers, chain>>

\* Every tool ended: commit, then the next round, or the end of the turn at
\* max_turns, or the error path if the round could not be persisted.
CommitRound(w) ==
  /\ pc[w] = "tools" /\ ~cancelling[w]
  /\ \A c \in SeqRange(acc[w].calls) : tool[c] = "ok"
  /\ \/ /\ rounds[w] + 1 < MaxTurns
        /\ CommitWithSteer(w)
        /\ pc' = [pc EXCEPT ![w] = "llm"]
        /\ acc' = [acc EXCEPT ![w] = NoAcc]
        /\ rounds' = [rounds EXCEPT ![w] = @ + 1]
        /\ retries' = [retries EXCEPT ![w] = 0]
        /\ UNCHANGED <<batch, cancelling, ended>>
     \/ (CommitWithSteer(w) \/ LoseSteered(w)) /\ BackToInbox(w)
  /\ UNCHANGED <<tool, cur, armed, callVars, crashes>>

-----------------------------------------------------------------------------
(* Cancellation delivered to the worker                                    *)

\* At inbox.get(): the queue keeps its items.
CancelIdle(w) ==
  /\ pc[w] = "get" /\ cancelling[w]
  /\ Dies(w, "cancelled")
  /\ UNCHANGED <<inboxVars, tool, chain, abandoned, cur, armed, callVars, crashes>>

\* In the hook: the merged input is not in the chain yet.
CancelInHook(w) ==
  /\ pc[w] = "hook" /\ cancelling[w]
  /\ abandoned' = abandoned \cup SeqRange(batch[w])
  /\ Dies(w, "cancelled")
  /\ UNCHANGED <<inboxVars, tool, chain, cur, armed, callVars, crashes>>

\* Mutant: the completed calls are committed without synthesized results.
CancelGenerationDangling(w) ==
  /\ pc[w] = "llm" /\ cancelling[w]
  /\ chain' = Append(chain, AssistantEntry(acc[w].calls))
  /\ Dies(w, "cancelled")
  /\ UNCHANGED <<inboxVars, tool, abandoned, cur, armed, callVars, crashes>>

\* In the stream: what was accumulated is committed, each completed call with
\* a synthesized result; if that cannot be persisted, the error replaces the
\* cancellation and the worker goes on.
CancelGeneration(w) ==
  /\ pc[w] = "llm" /\ cancelling[w]
  /\ IF acc[w].text \/ acc[w].calls # <<>>
     THEN /\ chain' = chain \o <<AssistantEntry(acc[w].calls)>>
                            \o ToolEntries(acc[w].calls, <<>>)
          /\ Dies(w, "cancelled") \/ BackToInbox(w)
     ELSE UNCHANGED chain /\ Dies(w, "cancelled")
  /\ UNCHANGED <<inboxVars, tool, abandoned, cur, armed, callVars, crashes>>

\* The await swallowed the cancellation.
AbsorbCancel(w) ==
  /\ pc[w] \in {"hook", "llm"} /\ cancelling[w]
  /\ cancelling' = [cancelling EXCEPT ![w] = FALSE]
  /\ UNCHANGED <<inboxVars, pc, turnVars, tool, chain, abandoned, taskVars, callVars,
                 crashes>>

\* gather raises as soon as one tool task is cancelled, or when all have
\* ended; the others are then cancelled and waited for.
EnterReap(w) ==
  /\ pc[w] = "tools"
  /\ LET cs == SeqRange(acc[w].calls) IN
       \/ \E c \in cs : tool[c] = "gone"
       \/ cancelling[w] /\ \A c \in cs : tool[c] = "ok"
  /\ pc' = [pc EXCEPT ![w] = "reap"]
  /\ cancelling' = [cancelling EXCEPT ![w] = FALSE]
  /\ UNCHANGED <<inboxVars, turnVars, tool, chain, abandoned, taskVars, callVars, crashes>>

\* The cleanup gather returns when the last tool has ended, and not before:
\* its timeout cancels the tools again and then waits for them too.
RoundEnded(w) == \A c \in SeqRange(acc[w].calls) : tool[c] \in {"ok", "gone"}

\* The event of a synthesized result could not be persisted: the round's
\* messages are lost.
LoseRound(w) ==
  /\ \E c \in SeqRange(acc[w].calls) : tool[c] = "gone"
  /\ UNCHANGED <<inboxVars, chain, abandoned>>

\* The round is committed, with the steer drain, and the cancellation goes on;
\* an error takes its place.
Reap(w) ==
  /\ pc[w] = "reap" /\ ~cancelling[w] /\ RoundEnded(w)
  /\ \/ CommitWithSteer(w) /\ (Dies(w, "cancelled") \/ BackToInbox(w))
     \/ (LoseSteered(w) \/ LoseRound(w)) /\ BackToInbox(w)
  /\ UNCHANGED <<tool, cur, armed, callVars, crashes>>

\* Cancelled again while reaping: the round is lost.
CancelReap(w) ==
  /\ pc[w] = "reap" /\ cancelling[w] /\ RoundEnded(w)
  /\ Dies(w, "cancelled")
  /\ UNCHANGED <<inboxVars, tool, chain, abandoned, cur, armed, callVars, crashes>>

\* A BaseException that no handler of run_turn or _run catches.
Crash(w) ==
  /\ pc[w] \in {"hook", "llm", "tools"} /\ crashes < MaxCrashes
  /\ crashes' = crashes + 1
  /\ abandoned' = abandoned \cup SeqRange(batch[w])
  /\ Dies(w, "crashed")
  /\ UNCHANGED <<inboxVars, tool, chain, cur, armed, callVars>>

-----------------------------------------------------------------------------
(* Tool tasks                                                              *)

\* The worker of its round has cancelled this tool; tools that a crash orphaned
\* run on.
Doomed(c) ==
  \E w \in Workers :
    /\ c \in SeqRange(acc[w].calls)
    /\ pc[w] = "reap" \/ (pc[w] = "tools" /\ cancelling[w])

ToolStep(c, from, to) ==
  /\ tool[c] \in from
  /\ tool' = [tool EXCEPT ![c] = to]
  /\ UNCHANGED <<posted, inbox, answers, pc, cancelling, turnVars, chain, abandoned,
                 taskVars, callVars, crashes>>

\* ask_feedback registers its future (bound: one ask per call).
Ask(c) == ToolStep(c, {"run"}, "ask") /\ waiters' = waiters \cup {c}

\* The future was resolved or timed out; `finally` unregisters it.
AskReturns(c) == ToolStep(c, {"ask", "answered"}, "back") /\ waiters' = waiters \ {c}

\* The future was cancelled by cancel_all_waiters.
AskStruck(c) == ToolStep(c, {"struck"}, "gone") /\ waiters' = waiters \ {c}

ToolEnds(c) == ToolStep(c, {"run", "back"}, "ok") /\ UNCHANGED waiters

ToolCancelled(c) ==
  /\ Doomed(c)
  /\ ToolStep(c, {"run", "ask", "answered", "back"}, "gone")
  /\ waiters' = waiters \ {c}

-----------------------------------------------------------------------------
(* interrupt(), shutdown() and the renewal callbacks                       *)

SpawnWorker ==
  \E w \in Workers : /\ pc[w] = "none"
                     /\ pc' = [pc EXCEPT ![w] = "get"]
                     /\ cur' = w

\* Mutant: rebuilds whoever is current by now.
ConcludeBlindly(i, w, stopped) ==
  /\ IF stopped /\ i # Closer /\ ~closing THEN SpawnWorker ELSE UNCHANGED <<pc, cur>>
  /\ armed' = IF ~stopped /\ i # Closer THEN armed \cup {w} ELSE armed
  /\ call' = [call EXCEPT ![i] = "done"]
  /\ holder' = NoTask

\* Mutant: an interrupt that waited through a shutdown revives the agent.
ConcludeReviving(i, w, stopped) ==
  /\ IF stopped /\ i # Closer /\ cur = w THEN SpawnWorker ELSE UNCHANGED <<pc, cur>>
  /\ armed' = IF ~stopped /\ i # Closer THEN armed \cup {w} ELSE armed
  /\ call' = [call EXCEPT ![i] = "done"]
  /\ holder' = NoTask

\* Mutant: a worker that was stopped and is not rebuilt is forgotten.
ConcludeForgetting(i, w, stopped) ==
  /\ IF stopped /\ cur = w
     THEN IF i # Closer /\ ~closing THEN SpawnWorker ELSE cur' = NoTask /\ UNCHANGED pc
     ELSE UNCHANGED <<pc, cur>>
  /\ armed' = IF ~stopped /\ i # Closer THEN armed \cup {w} ELSE armed
  /\ call' = [call EXCEPT ![i] = "done"]
  /\ holder' = NoTask

\* The end of interrupt() / shutdown(): rebuild a stopped worker that is still
\* current, or arm the renewal of one that would not stop.
Conclude(i, w, stopped) ==
  /\ IF stopped /\ i # Closer /\ cur = w /\ ~closing
     THEN SpawnWorker
     ELSE UNCHANGED <<pc, cur>>
  /\ armed' = IF ~stopped /\ i # Closer THEN armed \cup {w} ELSE armed
  /\ call' = [call EXCEPT ![i] = "done"]
  /\ holder' = NoTask

\* First rung of _stop_worker, right after the lock is taken.
FirstRung(i) ==
  /\ target' = [target EXCEPT ![i] = cur]
  /\ IF pc[cur] \in Ended
     THEN Conclude(i, cur, TRUE) /\ UNCHANGED <<cancelling, attempt>>
     ELSE /\ cancelling' = [cancelling EXCEPT ![cur] = TRUE]
          /\ attempt' = [attempt EXCEPT ![i] = 1]
          /\ call' = [call EXCEPT ![i] = "ladder"]
          /\ holder' = i
          /\ UNCHANGED <<pc, cur, armed>>

LockFree == holder = NoTask /\ lockq = <<>>

WaitForLock(i) ==
  /\ lockq' = Append(lockq, i)
  /\ call' = [call EXCEPT ![i] = "lock"]
  /\ UNCHANGED <<holder, target, attempt, pc, cancelling, cur, armed>>

\* interrupt(): the backlog is dropped before the lock.
Interrupt(i) ==
  /\ call[i] = "idle"
  /\ ClearInbox(i)
  /\ IF LockFree THEN FirstRung(i) /\ UNCHANGED lockq ELSE WaitForLock(i)
  /\ UNCHANGED <<turnVars, chain, abandoned, ended, closing, crashes>>

\* shutdown(): _closing at once, the backlog under the lock.
Shutdown ==
  /\ call[Closer] = "idle"
  /\ closing' = TRUE
  /\ IF LockFree
     THEN ClearInbox(Closer) /\ FirstRung(Closer) /\ UNCHANGED lockq
     ELSE WaitForLock(Closer) /\ UNCHANGED <<inboxVars, tool, discarded>>
  /\ UNCHANGED <<turnVars, chain, abandoned, ended, crashes>>

\* Mutant: interrupt() clears the backlog under the lock, as shutdown() does.
AcquireClearing(i) ==
  /\ holder = NoTask /\ lockq # <<>> /\ Head(lockq) = i
  /\ lockq' = Tail(lockq)
  /\ ClearInbox(i)
  /\ FirstRung(i)
  /\ UNCHANGED <<turnVars, chain, abandoned, ended, closing, crashes>>

\* The lock is handed to the first waiter.
Acquire(i) ==
  /\ holder = NoTask /\ lockq # <<>> /\ Head(lockq) = i
  /\ lockq' = Tail(lockq)
  /\ IF i = Closer THEN ClearInbox(i) ELSE UNCHANGED <<inboxVars, tool, discarded>>
  /\ FirstRung(i)
  /\ UNCHANGED <<turnVars, chain, abandoned, ended, closing, crashes>>

\* asyncio.wait returns because the worker ended.
LadderDone(i) ==
  /\ call[i] = "ladder" /\ pc[target[i]] \in Ended
  /\ Conclude(i, target[i], TRUE)
  /\ UNCHANGED <<inboxVars, cancelling, turnVars, tool, chain, abandoned, ended, closing,
                 attempt, target, lockq, discarded, crashes>>

\* Mutant: the ladder does not give up.
LadderTimeoutEndless(i) ==
  /\ call[i] = "ladder" /\ pc[target[i]] \notin Ended
  /\ attempt' = [attempt EXCEPT ![i] = IF @ < MaxCancels THEN @ + 1 ELSE @]
  /\ cancelling' = [cancelling EXCEPT ![target[i]] = TRUE]
  /\ UNCHANGED <<inboxVars, pc, turnVars, tool, chain, abandoned, cur, armed, ended,
                 closing, call, target, holder, lockq, discarded, crashes>>

\* asyncio.wait timed out: cancel again, or give up after the last rung.
LadderTimeout(i) ==
  /\ call[i] = "ladder" /\ pc[target[i]] \notin Ended
  /\ IF attempt[i] < MaxCancels
     THEN /\ attempt' = [attempt EXCEPT ![i] = @ + 1]
          /\ cancelling' = [cancelling EXCEPT ![target[i]] = TRUE]
          /\ UNCHANGED <<pc, cur, armed, call, holder>>
     ELSE Conclude(i, target[i], FALSE) /\ UNCHANGED <<attempt, cancelling>>
  /\ UNCHANGED <<inboxVars, turnVars, tool, chain, abandoned, ended, closing, target,
                 lockq, discarded, crashes>>

\* The calling task itself is cancelled on the ladder.
CallerCancelled(i) ==
  /\ call[i] = "ladder"
  /\ Conclude(i, target[i], pc[target[i]] \in Ended)
  /\ UNCHANGED <<inboxVars, cancelling, turnVars, tool, chain, abandoned, ended, closing,
                 attempt, target, lockq, discarded, crashes>>

\* Mutant: _renew skips cancelled workers, as _on_worker_done does.
RenewCrashedOnly(w) ==
  /\ w \in ended
  /\ ended' = ended \ {w}
  /\ IF cur = w /\ ~closing /\ pc[w] = "crashed" THEN SpawnWorker ELSE UNCHANGED <<pc, cur>>
  /\ UNCHANGED <<inboxVars, cancelling, turnVars, tool, chain, abandoned, armed, callVars,
                 crashes>>

\* Mutant: only the ladder's _renew rebuilds.
RenewArmedOnly(w) ==
  /\ w \in ended
  /\ ended' = ended \ {w}
  /\ IF cur = w /\ ~closing /\ w \in armed THEN SpawnWorker ELSE UNCHANGED <<pc, cur>>
  /\ UNCHANGED <<inboxVars, cancelling, turnVars, tool, chain, abandoned, armed, callVars,
                 crashes>>

\* The done callbacks, _on_worker_done and then _renew if it was registered:
\* a worker that crashed, or that ended after the ladder gave up, is rebuilt.
Renew(w) ==
  /\ w \in ended
  /\ ended' = ended \ {w}
  /\ IF cur = w /\ ~closing /\ (pc[w] = "crashed" \/ w \in armed)
     THEN SpawnWorker
     ELSE UNCHANGED <<pc, cur>>
  /\ UNCHANGED <<inboxVars, cancelling, turnVars, tool, chain, abandoned, armed, callVars,
                 crashes>>

-----------------------------------------------------------------------------

WorkerStep(w) ==
  \/ Take(w) \/ AddUserMessage(w) \/ Generate(w) \/ StartTools(w) \/ FinishTurn(w)
  \/ CommitRound(w) \/ FailTurn(w)
  \/ CancelIdle(w) \/ CancelInHook(w) \/ CancelGeneration(w)
  \/ EnterReap(w) \/ Reap(w) \/ CancelReap(w)

ToolProgress(c) == AskReturns(c) \/ AskStruck(c) \/ ToolEnds(c) \/ ToolCancelled(c)

CallerStep(i) == Acquire(i) \/ LadderDone(i) \/ LadderTimeout(i)

Next ==
  \/ \E m \in Messages, c \in Calls \cup {NoTask} : Post(m, c)
  \/ \E w \in Workers : WorkerStep(w) \/ Retry(w) \/ AbsorbCancel(w) \/ Crash(w) \/ Renew(w)
  \/ \E c \in Calls : Ask(c) \/ ToolProgress(c)
  \/ \E i \in Interrupters : Interrupt(i)
  \/ Shutdown
  \/ \E i \in Callers : CallerStep(i) \/ CallerCancelled(i)

Spec == Init /\ [][Next]_vars

\* The event loop runs a caller that is ready, and the waits of the ladder have
\* a deadline.
CallerFairness == \A i \in Callers : WF_vars(CallerStep(i))

\* It runs a worker that is ready; a stream ends or idles out.
WorkerFairness == \A w \in Workers : WF_vars(WorkerStep(w)) /\ WF_vars(Renew(w))

\* Tools end by themselves (asks have a timeout).
ToolFairness == \A c \in Calls : WF_vars(ToolProgress(c))

LadderSpec   == Spec /\ CallerFairness
StubbornSpec == Spec /\ CallerFairness /\ WorkerFairness
FairSpec     == Spec /\ CallerFairness /\ WorkerFairness /\ ToolFairness

-----------------------------------------------------------------------------
(* Safety                                                                  *)

\* Never two consumers of one inbox: the only worker that is alive is the
\* current one, whatever interrupts, renewals and a retained worker do.
OneConsumer == \A w \in Workers : pc[w] \in Live => w = cur

\* Who will put a dead current worker right: its own done callback, or the
\* call that is stopping it.
Recovery ==
  \/ cur \in ended /\ (pc[cur] = "crashed" \/ cur \in armed)
  \/ \E i \in Interrupters : call[i] = "ladder" /\ target[i] = cur
  \/ lockq # <<>>

\* While the agent is not shut down, a worker consumes the inbox or somebody
\* is bound to rebuild it: no death, at any point of a race, leaves a zombie.
NoZombie == ~closing => pc[cur] \in Live \/ Recovery

\* Every assistant message with tool calls is followed by one tool message
\* per call, in order, whatever cut the round short.
PairedIn(s) ==
  \A i \in DOMAIN s : s[i].kind = "assistant" =>
    \A k \in 1..Len(s[i].calls) :
      /\ i + k <= Len(s)
      /\ s[i + k].kind = "tool"
      /\ s[i + k].calls = <<s[i].calls[k]>>
Paired == PairedIn(chain)

\* Where an input is.
Homes(m) ==
  {<<"inbox", k>> : k \in {j \in DOMAIN inbox : inbox[j] = m}}
  \cup {<<"batch", w>> : w \in {v \in Workers : m \in SeqRange(batch[v])}}
  \cup {<<"chain", k>> : k \in {j \in DOMAIN chain : m \in SeqRange(chain[j].msgs)}}
  \cup {<<"discarded", i>> : i \in {j \in Callers : m \in discarded[j]}}
  \cup {<<"abandoned">> : x \in {m} \cap abandoned}
  \cup {<<"answer">> : x \in {m} \cap answers}

\* An accepted post is never lost and never duplicated: it is queued, merged,
\* in the context, reported as dropped by exactly one call, lost with a turn
\* that failed, or it answered an ask.
OneHome == \A m \in Messages :
  Cardinality(Homes(m)) = IF m \in SeqRange(posted) THEN 1 ELSE 0

PostedBefore(x, y) == \E i, j \in DOMAIN posted : i < j /\ posted[i] = x /\ posted[j] = y

\* The context and then the queue hold the inputs in the order they were
\* posted: merging, steering and the put-back of unsteerable inputs keep it.
Fifo ==
  /\ \A i, j \in DOMAIN chain :
       \A a \in DOMAIN chain[i].msgs, b \in DOMAIN chain[j].msgs :
         i < j \/ (i = j /\ a < b) => PostedBefore(chain[i].msgs[a], chain[j].msgs[b])
  /\ \A i \in DOMAIN chain, a \in 1..Len(posted), b \in DOMAIN inbox :
       a \in DOMAIN chain[i].msgs => PostedBefore(chain[i].msgs[a], inbox[b])
  /\ \A a, b \in DOMAIN inbox : a < b => PostedBefore(inbox[a], inbox[b])

\* An ask that waits can be answered, and a registered waiter belongs to an
\* ask: no interrupt leaves the session "waiting" on a dead question or a tool
\* deaf to its answer.
AsksAreAnswerable ==
  /\ \A c \in Calls : tool[c] = "ask" => c \in waiters
  /\ \A c \in waiters : tool[c] \in {"ask", "answered"}

\* After shutdown() nothing brings a worker to life.
NoRevival == [][closing => \A w \in Workers : pc[w] \notin Live => pc'[w] \notin Live]_vars

\* architecture.md: an input that arrives while an interrupt is stopping the
\* worker is left to the next consumer.
LeftToSuccessor ==
  [][\A w \in Workers : pc[w] = "reap" /\ pc'[w] = "cancelled" => inbox' = inbox]_vars

\* An interrupt drops the backlog it found on entry and nothing that arrives
\* while it waits for the lock or stops the worker.
DroppedOnEntry ==
  [][\A i \in Interrupters : discarded'[i] # discarded[i] => call[i] = "idle"]_vars

(* Liveness                                                                *)

\* interrupt() and shutdown() always return, whatever the worker and its tools
\* do: the ladder is bounded and the lock is released.
InterruptReturns == \A i \in Callers : call[i] \in {"lock", "ladder"} ~> call[i] = "done"

\* A queued input is consumed or dropped, unless the agent is shut down.
InputsAreConsumed ==
  \A m \in Messages : m \in SeqRange(inbox) ~> (m \notin SeqRange(inbox) \/ closing)

\* architecture.md: the timeout of the cleanup gather keeps a tool that swallows
\* its cancellation from holding up the interrupted round for ever.
ReapingEnds == \A w \in Workers : pc[w] = "reap" ~> pc[w] # "reap"
=============================================================================
