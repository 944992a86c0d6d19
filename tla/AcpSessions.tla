----------------------------- MODULE AcpSessions -----------------------------
(***************************************************************************)
(* The session table of `wing acp` (acp/session.rs) and the handlers that  *)
(* use it (acp/agent.rs): session/prompt, session/load, session/close and  *)
(* session/cancel on ONE session id, the pump that owns the WebSocket, and *)
(* as much of the gateway as they see of it.  Handlers are tasks of a      *)
(* multi-threaded runtime: one action per stretch between two awaits, and  *)
(* a stretch that reads shared state and writes it later is cut in two.    *)
(***************************************************************************)
EXTENDS Naturals, Sequences, SequencesExt

CONSTANTS
    Prompts, Loads, Closes,  \* the requests the client makes, one task each
    NoTask,                  \* nobody
    MaxEntries,              \* bound: table entries ever made for the id
    MaxMishaps,              \* bound: loads, cancels, closes, failed subscribes, stream ends
    EventBuffer,             \* EVENT_BUFFER: capacity of a session's channel
    OutboundBuffer,          \* OUTBOUND_BUFFER: capacity of the pump's queue
    WsMayDie,                \* may the gateway's event stream end?
    TailInTime,              \* do trailing frames come within the 50 ms grace?
    ClientOverlaps           \* may it load while a load or a close is unanswered?

Tasks == Prompts \cup Loads \cup Closes

ASSUME AcpConstants ==
    /\ NoTask \notin Tasks /\ "ghost" \notin Tasks
    /\ Prompts \cap Loads = {} /\ Prompts \cap Closes = {} /\ Loads \cap Closes = {}
    /\ MaxEntries \in Nat /\ MaxMishaps \in Nat
    /\ EventBuffer \in Nat \ {0} /\ OutboundBuffer \in Nat \ {0}
    /\ {WsMayDie, TailInTime, ClientOverlaps} \subseteq BOOLEAN

VARIABLES
    table,      \* the entry the session id maps to, 0 = none
    made,       \* entries made so far: entry n is the n-th Arc<SessionEntry>
    entries,    \* events (receiver of the channel), turn, attach, closing, cancel
    gate,       \* per entry the FIFO of its gate; the head holds it
    streamDead, \* hub.stream_dead
    pump,       \* "run" | "dead" | "draining" | "closed"
    outbound,   \* what the pump has still to send
    pc, ent, rx, created, \* of each task: place, entry held, channel, made it?
    reply,      \* what the client was answered
    gw,         \* the gateway: inbox, turn, phase, waiter, asked, subscribed
    evq,        \* events on their way to the pump
    interrupts, \* HTTP interrupts under way, by the prompt they were meant for
    mishaps,    \* bound counter
    endedBy     \* history: the terminal event that ended each prompt

vars == <<table, made, entries, gate, streamDead, pump, outbound, pc, ent, rx,
          created, reply, gw, evq, interrupts, mishaps, endedBy>>
hubVars  == <<table, made, entries>>
pumpVars == <<streamDead, pump>>
gwVars   == <<gw, evq, interrupts>>

Ghost == "ghost"    \* the sender of a turn no prompt asked for
Event(kind, of) == [kind |-> kind, of |-> of]
Terminal == {"turn_result", "interrupted", "error"}
NoEvent == Event("none", NoTask)

FreshEntry == [events |-> NoTask, turn |-> FALSE, attach |-> FALSE,
               closing |-> FALSE, cancel |-> FALSE]

Init ==
    /\ table = 0 /\ made = 0
    /\ entries = [e \in 1..MaxEntries |-> FreshEntry]
    /\ gate = [e \in 1..MaxEntries |-> <<>>]
    /\ streamDead = FALSE /\ pump = "run" /\ outbound = <<>>
    /\ pc = [t \in Tasks |-> "idle"]
    /\ ent = [t \in Tasks |-> 0]
    /\ rx = [t \in Tasks |-> <<>>]
    /\ created = [t \in Tasks |-> FALSE]
    /\ reply = [t \in Tasks |-> "none"]
    /\ gw = [inbox |-> <<>>, turn |-> NoTask, phase |-> "idle", waiter |-> FALSE,
             asked |-> {}, subscribed |-> FALSE]
    /\ evq = <<>>
    /\ interrupts = [p \in Prompts |-> 0]
    /\ mishaps = 0
    /\ endedBy = [p \in Prompts |-> NoEvent]

Mishap == mishaps < MaxMishaps /\ mishaps' = mishaps + 1

-----------------------------------------------------------------------------
(* SessionEntry *)

Disarmed(e) == [e EXCEPT !.events = NoTask, !.turn = FALSE, !.attach = FALSE]
ArmTurn(e, t) == [e EXCEPT !.events = t, !.turn = TRUE, !.cancel = FALSE]
ArmAttached(e, t) == [e EXCEPT !.events = t, !.attach = TRUE]
IsArmed(e) == e.turn \/ e.attach

Holds(t) == ent[t] # 0 /\ gate[ent[t]] # <<>> /\ Head(gate[ent[t]]) = t
Queue(t, e) == gate' = [gate EXCEPT ![e] = Append(@, t)]
Release(t) == gate' = [gate EXCEPT ![ent[t]] = Tail(@)]
IsCurrent(t) == table = ent[t]

Goto(t, place) == pc' = [pc EXCEPT ![t] = place]
Answer(t, r) == Goto(t, "done") /\ reply' = [reply EXCEPT ![t] = r]
\* Mutant: the gate is freed and the channel left to the next holder.
DropHandleLeavesChannel(t) ==
    /\ entries' = entries
    /\ Release(t)
    /\ rx' = [rx EXCEPT ![t] = <<>>]

\* Drop for Turn and Attached: the channel is taken down, then the gate freed.
DropHandle(t) ==
    /\ entries' = [entries EXCEPT ![ent[t]] = Disarmed(@)]
    /\ Release(t)
    /\ rx' = [rx EXCEPT ![t] = <<>>]

\* remove_entry: out of the table, whichever entry is there, and disarmed.
RemoveEntry(en) ==
    /\ table' = 0
    /\ entries' = IF table = 0 THEN en ELSE [en EXCEPT ![table] = Disarmed(@)]

-----------------------------------------------------------------------------
(* session/new: nobody else knows the id before the answer. *)
NewSession ==
    /\ made = 0 /\ MaxEntries > 0 /\ ~streamDead
    /\ made' = 1 /\ table' = 1
    /\ gw' = [gw EXCEPT !.subscribed = TRUE]
    /\ UNCHANGED <<entries, gate, pumpVars, outbound, pc, ent, rx, created,
                   reply, evq, interrupts, mishaps, endedBy>>

(* session/prompt: begin_turn *)
PromptStart(p) ==
    /\ pc[p] = "idle"
    /\ \/ /\ table = 0
          /\ Answer(p, "unknown")
          /\ UNCHANGED <<ent, gate>>
       \/ /\ table # 0
          /\ ent' = [ent EXCEPT ![p] = table]
          /\ Queue(p, table)
          /\ Goto(p, "gate")
          /\ UNCHANGED reply
    /\ UNCHANGED <<hubVars, pumpVars, outbound, rx, created, gwVars, mishaps, endedBy>>

\* With the gate in hand: is the entry still the one in the table, is the stream
\* alive?  What a load had made for itself is rolled back on a dead stream.
TakeGate(t) ==
    /\ pc[t] = "gate" /\ Holds(t)
    /\ \/ /\ IsCurrent(t) /\ ~streamDead
          /\ Goto(t, "alive")
          /\ UNCHANGED <<table, entries, gate, reply>>
       \/ /\ ~IsCurrent(t)
          /\ Answer(t, "unknown") /\ Release(t)
          /\ UNCHANGED <<table, entries>>
       \/ /\ IsCurrent(t) /\ streamDead
          /\ Answer(t, "disconnected") /\ Release(t)
          /\ IF created[t] THEN RemoveEntry(entries) ELSE UNCHANGED <<table, entries>>
    /\ UNCHANGED <<made, pumpVars, outbound, ent, rx, created, gwVars, mishaps, endedBy>>

\* Into the queue at once, or when there is room.
Send(p, m, waiting) ==
    IF Len(outbound) < OutboundBuffer
    THEN outbound' = Append(outbound, m) /\ Goto(p, "loop")
    ELSE Goto(p, waiting) /\ UNCHANGED outbound
Message(p) == [kind |-> "message", of |-> p]
AskReply(p) == [kind |-> "answer", of |-> p]

\* Mutant: the message is sent before the entry is looked at.
PromptArmSendsFirst(p) ==
    /\ pc[p] = "alive" /\ Len(outbound) < OutboundBuffer
    /\ outbound' = Append(outbound, Message(p))
    /\ IF entries[ent[p]].closing
       THEN Answer(p, "unknown") /\ Release(p) /\ UNCHANGED entries
       ELSE /\ entries' = [entries EXCEPT ![ent[p]] = ArmTurn(@, p)]
            /\ Goto(p, "loop")
            /\ UNCHANGED <<gate, reply>>
    /\ UNCHANGED <<table, made, pumpVars, ent, rx, created, gwVars, mishaps, endedBy>>

PromptArm(p) ==
    /\ pc[p] = "alive"
    /\ IF entries[ent[p]].closing
       THEN Answer(p, "unknown") /\ Release(p) /\ UNCHANGED <<entries, outbound>>
       ELSE /\ entries' = [entries EXCEPT ![ent[p]] = ArmTurn(@, p)]
            /\ Send(p, Message(p), "armed")
            /\ UNCHANGED <<gate, reply>>
    /\ UNCHANGED <<table, made, pumpVars, ent, rx, created, gwVars, mishaps, endedBy>>

SendQueued(p) ==
    /\ pc[p] \in {"armed", "answer"}
    /\ Len(outbound) < OutboundBuffer
    /\ Send(p, IF pc[p] = "armed" THEN Message(p) ELSE AskReply(p), pc[p])
    /\ UNCHANGED <<hubVars, gate, pumpVars, ent, rx, created, reply, gwVars, mishaps, endedBy>>

(* run_turn *)
PromptNext(p) ==
    /\ pc[p] = "loop" /\ rx[p] # <<>>
    /\ rx' = [rx EXCEPT ![p] = Tail(@)]
    /\ LET ev == Head(rx[p]) IN
       /\ Goto(p, CASE ev.kind = "ask" -> "ask"
                    [] ev.kind \in Terminal -> "drain"
                    [] OTHER -> "loop")
       /\ endedBy' = IF ev.kind \in Terminal THEN [endedBy EXCEPT ![p] = ev] ELSE endedBy
    /\ UNCHANGED <<hubVars, gate, pumpVars, outbound, ent, created, reply, gwVars, mishaps>>

\* next_event returns None: the sender is gone and the channel is empty.
PromptStreamEnded(p) ==
    /\ pc[p] = "loop" /\ rx[p] = <<>> /\ entries[ent[p]].events # p
    /\ DropHandle(p)
    /\ Answer(p, "stream_ended")
    /\ UNCHANGED <<table, made, pumpVars, outbound, ent, created, gwVars, mishaps, endedBy>>

\* The three arms of the select around an ask; the cancelled one is polled first.
AskAbandoned(p) ==
    /\ pc[p] = "ask" /\ entries[ent[p]].cancel
    /\ Goto(p, "loop")
    /\ UNCHANGED <<hubVars, gate, pumpVars, outbound, ent, rx, created, reply, gwVars, mishaps, endedBy>>

AskResolved(p) ==
    /\ pc[p] = "ask" /\ ~entries[ent[p]].cancel
    /\ Send(p, AskReply(p), "answer")
    /\ UNCHANGED <<hubVars, gate, pumpVars, ent, rx, created, reply, gwVars, mishaps, endedBy>>

StopReason(ev) == CASE ev.kind = "turn_result" -> "end_turn"
                    [] ev.kind = "interrupted" -> "cancelled"
                    [] OTHER -> "failed"

(* drain_trailing, then Turn is dropped and the answer given *)
Finish(p) == DropHandle(p) /\ Answer(p, StopReason(endedBy[p]))

PromptDrain(p) ==
    /\ pc[p] = "drain" /\ rx[p] # <<>>
    /\ IF Head(rx[p]).kind = "done"
       THEN Finish(p)
       ELSE /\ rx' = [rx EXCEPT ![p] = Tail(@)]
            /\ UNCHANGED <<pc, reply, entries, gate>>
    /\ UNCHANGED <<table, made, pumpVars, outbound, ent, created, gwVars, mishaps, endedBy>>

\* Frames of p's own turn the gateway has still to send or the pump to hand out.
TailComing(p) ==
    \/ gw.turn = p /\ gw.phase = "tail"
    \/ \E i \in 1..Len(evq) : evq[i].of = p

\* Mutant: no grace for the frames that trail the terminal one.
PromptDrainSkipped(p) ==
    /\ pc[p] = "drain" /\ rx[p] = <<>>
    /\ Finish(p)
    /\ UNCHANGED <<table, made, pumpVars, outbound, ent, created, gwVars, mishaps, endedBy>>

\* The grace is over, or the sender is gone, with nothing in the channel.
PromptDrainOver(p) ==
    /\ pc[p] = "drain" /\ rx[p] = <<>>
    /\ entries[ent[p]].events = p => ~(TailInTime /\ TailComing(p))
    /\ Finish(p)
    /\ UNCHANGED <<table, made, pumpVars, outbound, ent, created, gwVars, mishaps, endedBy>>

-----------------------------------------------------------------------------
(* session/load and session/resume: attach_session, attach_and_subscribe *)
RequestUnanswered == \E t \in Loads \cup Closes : pc[t] \notin {"idle", "done"}

LoadStart(l) ==
    /\ pc[l] = "idle"
    /\ Mishap
    /\ ClientOverlaps \/ ~RequestUnanswered
    /\ \/ /\ streamDead
          /\ Answer(l, "disconnected")
          /\ UNCHANGED <<table, made, ent, gate, created>>
       \/ /\ ~streamDead
          /\ \/ table # 0 /\ UNCHANGED <<table, made, created>>
             \/ /\ table = 0 /\ made < MaxEntries
                /\ made' = made + 1 /\ table' = made + 1
                /\ created' = [created EXCEPT ![l] = TRUE]
          /\ ent' = [ent EXCEPT ![l] = table']
          /\ Queue(l, table')
          /\ Goto(l, "gate")
          /\ UNCHANGED reply
    /\ UNCHANGED <<entries, pumpVars, outbound, rx, gwVars, endedBy>>

\* Mutant: a load does not look whether the entry is being closed.
LoadArmAnyway(l) ==
    /\ pc[l] = "alive"
    /\ entries' = [entries EXCEPT ![ent[l]] = ArmAttached(@, l)]
    /\ Goto(l, "armed")
    /\ UNCHANGED <<table, made, gate, pumpVars, outbound, ent, rx, created, reply, gwVars,
                   mishaps, endedBy>>

LoadArm(l) ==
    /\ pc[l] = "alive"
    /\ IF entries[ent[l]].closing
       THEN Answer(l, "unknown") /\ Release(l) /\ UNCHANGED entries
       ELSE /\ entries' = [entries EXCEPT ![ent[l]] = ArmAttached(@, l)]
            /\ Goto(l, "armed")
            /\ UNCHANGED <<gate, reply>>
    /\ UNCHANGED <<table, made, pumpVars, outbound, ent, rx, created, gwVars, mishaps, endedBy>>

\* The gateway routes the session to this client and pushes a snapshot at once.
\* A resume does not wait for it.
LoadSubscribe(l) ==
    /\ pc[l] = "armed"
    /\ gw' = [gw EXCEPT !.subscribed = TRUE]
    /\ evq' = Append(evq, Event("sync_session", l))
    /\ \E place \in {"snapshot", "facts"} : Goto(l, place)
    /\ UNCHANGED <<hubVars, gate, pumpVars, outbound, ent, rx, created, reply, interrupts,
                   mishaps, endedBy>>

\* Mutant: the route is rolled back even when the entry is not.
LoadSubscribeFailsForAll(l) ==
    /\ pc[l] = "armed"
    /\ Mishap
    /\ gw' = [gw EXCEPT !.subscribed = FALSE]
    /\ IF created[l]
       THEN /\ RemoveEntry(entries)
            /\ Goto(l, "rollback")
            /\ UNCHANGED <<gate, rx, reply>>
       ELSE /\ DropHandle(l)
            /\ Answer(l, "gateway")
            /\ UNCHANGED table
    /\ UNCHANGED <<made, pumpVars, outbound, ent, created, evq, interrupts, endedBy>>

\* The request failed, or only its answer was lost: the route may exist.  Only
\* an entry this load made is rolled back, before the best-effort unsubscribe.
LoadSubscribeFails(l) ==
    /\ pc[l] = "armed"
    /\ Mishap
    /\ \E routed \in BOOLEAN :
          gw' = [gw EXCEPT !.subscribed = @ \/ routed]
    /\ IF created[l]
       THEN /\ RemoveEntry(entries)
            /\ Goto(l, "rollback")
            /\ UNCHANGED <<gate, rx, reply>>
       ELSE /\ DropHandle(l)
            /\ Answer(l, "gateway")
            /\ UNCHANGED table
    /\ UNCHANGED <<made, pumpVars, outbound, ent, created, evq, interrupts, endedBy>>

LoadRollback(l) ==
    /\ pc[l] = "rollback"
    /\ \E sub \in {FALSE, gw.subscribed} : gw' = [gw EXCEPT !.subscribed = sub]
    /\ DropHandle(l)
    /\ Answer(l, "gateway")
    /\ UNCHANGED <<table, made, pumpVars, outbound, ent, created, evq, interrupts, mishaps, endedBy>>

\* read_snapshot: frames before the snapshot are dropped.
LoadRead(l) ==
    /\ pc[l] = "snapshot" /\ rx[l] # <<>>
    /\ rx' = [rx EXCEPT ![l] = Tail(@)]
    /\ Goto(l, IF Head(rx[l]).kind = "sync_session" THEN "facts" ELSE "snapshot")
    /\ UNCHANGED <<hubVars, gate, pumpVars, outbound, ent, created, reply, gwVars, mishaps, endedBy>>

LoadGivesUp(l) ==
    /\ pc[l] = "snapshot" /\ rx[l] = <<>>
    /\ DropHandle(l)
    /\ Answer(l, IF entries[ent[l]].events = l THEN "timeout" ELSE "disconnected")
    /\ UNCHANGED <<table, made, pumpVars, outbound, ent, created, gwVars, mishaps, endedBy>>

LoadFinish(l) ==
    /\ pc[l] = "facts"
    /\ DropHandle(l)
    /\ Answer(l, "ok")
    /\ UNCHANGED <<table, made, pumpVars, outbound, ent, created, gwVars, mishaps, endedBy>>

-----------------------------------------------------------------------------
(* request_cancel: only a turn in flight is interrupted, by an HTTP request
   that arrives when it arrives. *)
\* Mutant: the ask in hand is called off, the gateway is not interrupted.
CancelTurnSilent ==
    LET e == table IN
    IF e # 0 /\ entries[e].turn
    THEN /\ entries' = [entries EXCEPT ![e].cancel = TRUE]
         /\ UNCHANGED interrupts
    ELSE UNCHANGED <<entries, interrupts>>

CancelTurn ==
    LET e == table IN
    IF e # 0 /\ entries[e].turn
    THEN /\ entries' = [entries EXCEPT ![e].cancel = TRUE]
         /\ interrupts' = [interrupts EXCEPT ![entries[e].events] = @ + 1]
    ELSE UNCHANGED <<entries, interrupts>>

ClientCancel ==
    /\ table # 0 /\ entries[table].turn
    /\ Mishap
    /\ CancelTurn
    /\ UNCHANGED <<table, made, gate, pumpVars, outbound, pc, ent, rx, created, reply,
                   gw, evq, endedBy>>

(* close_session *)
CloseStart(c) ==
    /\ pc[c] = "idle"
    /\ Mishap
    /\ \/ /\ table = 0
          /\ Answer(c, "ok")
          /\ UNCHANGED <<ent, entries>>
       \/ /\ table # 0
          /\ ent' = [ent EXCEPT ![c] = table]
          /\ entries' = [entries EXCEPT ![table].closing = TRUE]
          /\ Goto(c, "marked")
          /\ UNCHANGED reply
    /\ UNCHANGED <<table, made, gate, pumpVars, outbound, rx, created, gwVars, endedBy>>

\* The turn in flight is cancelled; an entry still armed then is waited for at its
\* gate, for CLOSE_GRACE at most.
CloseCancel(c) ==
    /\ pc[c] = "marked"
    /\ IF entries[ent[c]].turn THEN CancelTurn ELSE UNCHANGED <<entries, interrupts>>
    /\ IF IsArmed(entries[ent[c]])
       THEN Queue(c, ent[c]) /\ Goto(c, "wait")
       ELSE Goto(c, "remove") /\ UNCHANGED gate
    /\ UNCHANGED <<table, made, pumpVars, outbound, ent, rx, created, reply,
                   gw, evq, mishaps, endedBy>>

\* Got the gate (and let it go at once), or gave up waiting.
CloseReclaim(c) ==
    /\ pc[c] = "wait"
    /\ \E i \in DOMAIN gate[ent[c]] :
          gate[ent[c]][i] = c /\ gate' = [gate EXCEPT ![ent[c]] = RemoveAt(@, i)]
    /\ Goto(c, "remove")
    /\ UNCHANGED <<hubVars, pumpVars, outbound, ent, rx, created, reply, gwVars, mishaps, endedBy>>

CloseRemove(c) ==
    /\ pc[c] = "remove"
    /\ RemoveEntry(entries)
    /\ Goto(c, "unsubscribe")
    /\ UNCHANGED <<made, gate, pumpVars, outbound, ent, rx, created, reply, gwVars, mishaps, endedBy>>

\* unsubscribe and release, both best effort.
CloseFinish(c) ==
    /\ pc[c] = "unsubscribe"
    /\ \E sub \in {FALSE, gw.subscribed} : gw' = [gw EXCEPT !.subscribed = sub]
    /\ Answer(c, "ok")
    /\ UNCHANGED <<hubVars, gate, pumpVars, outbound, ent, rx, created, evq, interrupts,
                   mishaps, endedBy>>

-----------------------------------------------------------------------------
(* pump and dispatch *)
PumpDispatch ==
    /\ pump = "run" /\ evq # <<>>
    /\ evq' = Tail(evq)
    /\ LET t == IF table = 0 THEN NoTask ELSE entries[table].events IN
       rx' = IF t = NoTask \/ Len(rx[t]) >= EventBuffer
             THEN rx ELSE [rx EXCEPT ![t] = Append(@, Head(evq))]
    /\ UNCHANGED <<hubVars, gate, pumpVars, outbound, pc, ent, created, reply, gw,
                   interrupts, mishaps, endedBy>>

\* A message starts a turn; an answer goes to the ask that waits for it, and is
\* taken for an ordinary message when none does.
PumpSend ==
    /\ pump = "run" /\ outbound # <<>>
    /\ outbound' = Tail(outbound)
    /\ LET m == Head(outbound) IN
       gw' = IF m.kind = "message" THEN [gw EXCEPT !.inbox = Append(@, m.of)]
             ELSE IF gw.waiter /\ gw.turn = m.of THEN [gw EXCEPT !.waiter = FALSE]
             ELSE [gw EXCEPT !.inbox = Append(@, Ghost)]
    /\ UNCHANGED <<hubVars, gate, pumpVars, pc, ent, rx, created, reply, evq, interrupts,
                   mishaps, endedBy>>

StreamEnds ==
    /\ WsMayDie /\ pump = "run"
    /\ Mishap
    /\ pump' = "dead" /\ streamDead' = TRUE
    /\ evq' = <<>>
    /\ UNCHANGED <<hubVars, gate, outbound, pc, ent, rx, created, reply, gw, interrupts,
                   endedBy>>

FailInFlight ==
    /\ pump = "dead"
    /\ pump' = "draining"
    /\ entries' = IF table = 0 THEN entries ELSE [entries EXCEPT ![table] = Disarmed(@)]
    /\ UNCHANGED <<table, made, gate, streamDead, outbound, pc, ent, rx, created, reply,
                   gwVars, mishaps, endedBy>>

\* The pending replies are in, or DRAIN_GRACE is over: the process ends.
PumpCloses ==
    /\ pump = "draining"
    /\ pump' = "closed"
    /\ UNCHANGED <<hubVars, gate, streamDead, outbound, pc, ent, rx, created, reply,
                   gwVars, mishaps, endedBy>>

-----------------------------------------------------------------------------
(* The gateway, as far as these handlers see it. *)
Emit(evs) == evq' = IF gw.subscribed THEN evq \o evs ELSE evq

GwTurn ==
    /\ gw.phase = "idle" /\ gw.inbox # <<>>
    /\ gw' = [gw EXCEPT !.phase = "run", !.turn = Head(gw.inbox), !.inbox = Tail(@)]
    /\ UNCHANGED evq

GwAsk ==
    /\ gw.phase = "run" /\ ~gw.waiter /\ gw.turn \in Prompts \ gw.asked
    /\ gw' = [gw EXCEPT !.waiter = TRUE, !.asked = @ \cup {gw.turn}]
    /\ Emit(<<Event("ask", gw.turn)>>)

GwResult ==
    /\ gw.phase = "run" /\ ~gw.waiter
    /\ gw' = [gw EXCEPT !.phase = "tail"]
    /\ Emit(<<Event("turn_result", gw.turn)>>)

\* After turn_result comes done, and on the failure path error before it.
GwTail ==
    /\ gw.phase = "tail"
    /\ gw' = [gw EXCEPT !.phase = "idle", !.turn = NoTask]
    /\ \E failed \in BOOLEAN :
          Emit((IF failed THEN <<Event("error", gw.turn)>> ELSE <<>>)
               \o <<Event("done", gw.turn)>>)

\* An interrupt drops the backlog and the waiter, stops whatever runs and is
\* broadcast in any case.
GwInterrupt(p) ==
    /\ interrupts[p] > 0
    /\ interrupts' = [interrupts EXCEPT ![p] = @ - 1]
    /\ gw' = [gw EXCEPT !.inbox = <<>>, !.waiter = FALSE, !.phase = "idle", !.turn = NoTask]
    /\ Emit(<<Event("interrupted", p)>>)

\* What it does once the stream is dead reaches nobody.
Gateway ==
    /\ pump = "run"
    /\ \/ (GwTurn \/ GwAsk \/ GwResult \/ GwTail) /\ UNCHANGED interrupts
       \/ \E p \in Prompts : GwInterrupt(p)
    /\ UNCHANGED <<hubVars, gate, pumpVars, outbound, pc, ent, rx, created, reply,
                   mishaps, endedBy>>

-----------------------------------------------------------------------------
PromptStep(p) ==
    \/ TakeGate(p) \/ PromptArm(p) \/ SendQueued(p) \/ PromptNext(p) \/ PromptStreamEnded(p)
    \/ AskAbandoned(p) \/ AskResolved(p) \/ PromptDrain(p) \/ PromptDrainOver(p)
LoadStep(l) ==
    \/ TakeGate(l) \/ LoadArm(l) \/ LoadSubscribe(l) \/ LoadSubscribeFails(l)
    \/ LoadRollback(l) \/ LoadRead(l) \/ LoadGivesUp(l) \/ LoadFinish(l)
CloseStep(c) ==
    \/ CloseCancel(c) \/ CloseReclaim(c) \/ CloseRemove(c) \/ CloseFinish(c)
Pump == PumpDispatch \/ PumpSend \/ FailInFlight \/ PumpCloses

Next ==
    /\ pump # "closed"
    /\ \/ NewSession \/ ClientCancel \/ StreamEnds \/ Pump \/ Gateway
       \/ \E p \in Prompts : PromptStart(p) \/ PromptStep(p)
       \/ \E l \in Loads : LoadStart(l) \/ LoadStep(l)
       \/ \E c \in Closes : CloseStart(c) \/ CloseStep(c)

Spec == Init /\ [][Next]_vars

\* The executor runs every task, the pump and the gateway; the client answers
\* what it is asked.
Fairness ==
    /\ \A p \in Prompts : WF_vars(pump # "closed" /\ PromptStep(p))
    /\ \A l \in Loads : WF_vars(pump # "closed" /\ LoadStep(l))
    /\ \A c \in Closes : WF_vars(pump # "closed" /\ CloseStep(c))
    /\ WF_vars(pump # "closed" /\ Pump)
    /\ WF_vars(pump # "closed" /\ Gateway)
FairSpec == Spec /\ Fairness

-----------------------------------------------------------------------------
Places == {"idle", "gate", "alive", "armed", "loop", "ask", "answer", "drain",
           "rollback", "snapshot", "facts", "marked", "wait",
           "remove", "unsubscribe", "done"}
Replies == {"none", "unknown", "disconnected", "stream_ended", "end_turn", "cancelled",
            "failed", "gateway", "timeout", "ok"}
EventKinds == {"none", "ask", "turn_result", "error", "done", "interrupted", "sync_session"}

\* The type of every variable; only an entry made so far is in the table.
TypeOK ==
    /\ made \in 0..MaxEntries /\ table \in 0..made
    /\ entries \in [1..MaxEntries -> [events : Tasks \cup {NoTask}, turn : BOOLEAN,
                        attach : BOOLEAN, closing : BOOLEAN, cancel : BOOLEAN]]
    /\ \A e \in 1..MaxEntries : gate[e] \in Seq(Tasks)
    /\ streamDead \in BOOLEAN /\ pump \in {"run", "dead", "draining", "closed"}
    /\ pc \in [Tasks -> Places] /\ reply \in [Tasks -> Replies]
    /\ ent \in [Tasks -> 0..MaxEntries] /\ created \in [Tasks -> BOOLEAN]
    /\ \A t \in Tasks : \A i \in 1..Len(rx[t]) : rx[t][i].kind \in EventKinds
    /\ gw.phase \in {"idle", "run", "tail"} /\ gw.waiter \in BOOLEAN
    /\ interrupts \in [Prompts -> Nat] /\ mishaps \in 0..MaxMishaps

\* Events of an entry only ever go to the task that holds its gate, so a handle
\* that is dropped late never takes down the channel of its successor.
ReceiverHoldsGate ==
    \A e \in 1..MaxEntries :
        entries[e].events # NoTask => gate[e] # <<>> /\ Head(gate[e]) = entries[e].events

\* A prompt refused as unknown was never sent: no turn runs behind the client's back.
RefusedIsUnsent ==
    \A p \in Prompts : reply[p] \in {"unknown", "disconnected"} =>
        /\ \A i \in 1..Len(outbound) : outbound[i].of # p
        /\ gw.turn # p /\ \A i \in 1..Len(gw.inbox) : gw.inbox[i] # p

\* A prompt ends on the result or the error of another turn only when an earlier
\* prompt was cut short and left its turn behind: what trails an ordinary end is
\* drained before the gate is handed on.
EndedByOwnTurn ==
    \A p \in Prompts : endedBy[p].kind \in {"turn_result", "error"} =>
        \/ endedBy[p].of = p
        \/ \E q \in Prompts \ {p} :
              \/ endedBy[q].kind = "interrupted"
              \/ ent[q] # 0 /\ entries[ent[q]].closing

\* Once a close has marked an entry, nobody arms it again.
NothingArmedAfterClose ==
    [][\A e \in 1..MaxEntries : entries[e].closing =>
          entries'[e].events \in {entries[e].events, NoTask}]_vars

\* A prompt whose turn was asked to stop is answered, wherever the cancel finds it:
\* before its message is sent, in an ask, or while its result is on the way.
CancelledIsAnswered ==
    \A p \in Prompts :
        (pc[p] # "done" /\ ent[p] # 0 /\ entries[ent[p]].events = p /\ entries[ent[p]].cancel)
            ~> (pc[p] = "done" \/ pump = "closed")

\* A session that is in the table and that no request is working on has its route at
\* the gateway.
EntryHasRoute ==
    table # 0 /\ (\A t \in Tasks : pc[t] \in {"idle", "done"}) => gw.subscribed
=============================================================================
