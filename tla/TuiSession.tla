----------------------------- MODULE TuiSession -----------------------------
(***************************************************************************)
(* The TUI's session (app/): the composer, the queue of messages sent and  *)
(* not yet accepted, the ask panels and the working flag, which follow the *)
(* gateway's events; the chain of background sends; the connection and its *)
(* recovery; the switch to another session.  The gateway and the agents    *)
(* behind it are what the client's code relies on: one inbox and one turn  *)
(* for each session, one ordered stream of events for each connection.     *)
(***************************************************************************)
EXTENDS Naturals, Sequences, FiniteSets, SequencesExt

CONSTANTS Sessions, Home,  \* the sessions, and the one shown first
          MaxSends,        \* bound: messages submitted
          MaxAsks,         \* bound: questions of the agents
          MaxSwitches,     \* bound: switches to another session
          MaxMishaps       \* bound: lost links, failed uploads and calls, rejected frames

VARIABLES
    shown, draft, pending, cells, panels, working,  \* App: session_id, input, chat, ask_panels, turn
    link, conn,           \* run_app: transport and recovery_pending; the connection's number
    chain, failed,        \* send_chain, as the sends not yet done; the SendFailed results
    upstream, wire, subs, \* frames and events on the connection, the client's subscriptions
    srv,                  \* the gateway's sessions
    texts,                \* history: what each message carries
    asks, switches, mishaps

appVars  == <<shown, draft, pending, cells, panels, working>>
linkVars == <<link, conn>>
sendVars == <<chain, failed>>
gwVars   == <<upstream, wire, subs, srv>>
bounds   == <<asks, switches, mishaps>>
vars == <<appVars, linkVars, sendVars, gwVars, texts, bounds>>

NoAsk == 0
Sends == Len(texts)         \* messages are numbered as they are submitted
Reply(a) == MaxSends + a    \* the message number of the answer to an ask
Carried(r) == IF r \in DOMAIN texts THEN ToSet(texts[r]) ELSE {}

Idle == [inbox |-> <<>>, accepted |-> <<>>, working |-> FALSE, ask |-> NoAsk]

Init ==
    /\ shown = Home /\ draft = <<>> /\ pending = {} /\ cells = {} /\ panels = <<>>
    /\ working = FALSE /\ link = "up" /\ conn = 1 /\ chain = <<>> /\ failed = <<>>
    /\ upstream = <<>> /\ wire = <<>> /\ subs = {Home} /\ srv = [s \in Sessions |-> Idle]
    /\ texts = <<>> /\ asks = 0 /\ switches = 0 /\ mishaps = 0

Mishap == mishaps < MaxMishaps /\ mishaps' = mishaps + 1

-----------------------------------------------------------------------------
(* The user.  An ask panel owns the keyboard while it is open. *)
\* The draft, or a new text when it is empty, leaves the composer as one message.
Submit ==
    /\ panels = <<>> /\ Sends < MaxSends
    /\ LET n    == Sends + 1
           text == IF draft = <<>> THEN <<n>> ELSE draft
       IN  /\ texts' = Append(texts, text)
           /\ IF link = "down"       \* dispatch_send_message: restored at once
              THEN draft' = text /\ UNCHANGED <<pending, chain>>
              ELSE /\ draft' = <<>>
                   /\ pending' = pending \cup {n}
                   /\ chain' = Append(chain, [req |-> n, to |-> shown, conn |-> conn, ask |-> NoAsk])
    /\ UNCHANGED <<shown, cells, panels, working, linkVars, failed, gwVars, bounds>>

\* The answer has no entry in the pending queue: without a link it is lost.
AnswerAsk ==
    /\ panels # <<>> /\ panels' = Tail(panels)
    /\ chain' = IF link = "down" THEN chain
                ELSE Append(chain, [req |-> Reply(Head(panels)), to |-> shown, conn |-> conn,
                                    ask |-> Head(panels)])
    /\ UNCHANGED <<shown, draft, pending, cells, working, linkVars, failed, gwVars, texts, bounds>>

\* /clear wipes the view, the pending queue with it.
ClearChat ==
    /\ panels = <<>> /\ (pending # {} \/ cells # {})
    /\ pending' = {} /\ cells' = {}
    /\ UNCHANGED <<shown, draft, panels, working, linkVars, sendVars, gwVars, texts, bounds>>

Tell(event) == wire' = IF event.of \in subs THEN Append(wire, event) ELSE wire

\* Esc: the call overtakes the frames on the connection.
Interrupt ==
    /\ link # "down" /\ (srv[shown].working \/ srv[shown].inbox # <<>>)
    /\ srv' = [srv EXCEPT ![shown].inbox = <<>>, ![shown].working = FALSE, ![shown].ask = NoAsk]
    /\ Tell([kind |-> "interrupted", of |-> shown, dropped |-> ToSet(srv[shown].inbox)])
    /\ UNCHANGED <<appVars, linkVars, sendVars, upstream, subs, texts, bounds>>

Snapshot(s) == [kind |-> "sync", of |-> s, accepted |-> ToSet(srv[s].accepted),
                working |-> srv[s].working, ask |-> srv[s].ask]

\* switch_session: a failure of either call is only logged; the session resumed may be the
\* one that is shown.
SwitchTo(s, subscribed, unsubscribed) ==
    /\ link # "down" /\ switches < MaxSwitches
    /\ switches' = switches + 1
    /\ IF subscribed /\ unsubscribed THEN UNCHANGED mishaps ELSE Mishap
    /\ subs' = (subs \cup IF subscribed THEN {s} ELSE {}) \ (IF unsubscribed THEN {shown} ELSE {})
    /\ wire' = IF subscribed THEN Append(wire, Snapshot(s)) ELSE wire
    /\ UNCHANGED <<appVars, linkVars, sendVars, upstream, srv, texts, asks>>

-----------------------------------------------------------------------------
(* The chain of sends: one after the other, each on the connection of its time. *)
Live(item) == link # "down" /\ item.conn = conn

\* Mutant: a frame that was written is reported as failed too.
SendHeadUnsure ==
    /\ chain # <<>> /\ Live(Head(chain))
    /\ chain' = Tail(chain) /\ upstream' = Append(upstream, Head(chain))
    /\ failed' = Append(failed, Head(chain).req)
    /\ UNCHANGED <<appVars, linkVars, wire, subs, srv, texts, bounds>>

SendHead ==
    /\ chain # <<>> /\ Live(Head(chain))
    /\ chain' = Tail(chain) /\ upstream' = Append(upstream, Head(chain))
    /\ UNCHANGED <<appVars, linkVars, failed, wire, subs, srv, texts, bounds>>

\* The write task may outlive its connection for a while: the frame is then lost unnoticed.
SendIntoDeadLink ==
    /\ chain # <<>> /\ ~Live(Head(chain)) /\ chain' = Tail(chain)
    /\ UNCHANGED <<appVars, linkVars, failed, gwVars, texts, bounds>>

SendFails ==
    /\ chain # <<>> /\ chain' = Tail(chain) /\ failed' = Append(failed, Head(chain).req)
    /\ IF Live(Head(chain)) THEN Mishap ELSE UNCHANGED mishaps      \* an upload failed
    /\ UNCHANGED <<appVars, linkVars, gwVars, texts, asks, switches>>

\* Mutant: the message stays in the pending queue.
RefillKeeping(r) ==
    /\ pending' = pending
    /\ draft' = IF r \in pending THEN draft \o texts[r] ELSE draft

\* take_pending and restore_draft
Refill(r) ==
    /\ pending' = pending \ {r}
    /\ draft' = IF r \in pending THEN draft \o texts[r] ELSE draft

RestoreFailedSend ==
    /\ failed # <<>> /\ failed' = Tail(failed) /\ Refill(Head(failed))
    /\ UNCHANGED <<shown, cells, panels, working, linkVars, chain, gwVars, texts, bounds>>

-----------------------------------------------------------------------------
(* The connection. *)
LinkLost ==
    /\ link # "down" /\ Mishap
    /\ link' = "down" /\ subs' = {} /\ upstream' = <<>> /\ wire' = <<>>
    /\ UNCHANGED <<appVars, conn, sendVars, srv, texts, asks, switches>>

Reconnect ==
    /\ link = "down" /\ link' = "recovering" /\ conn' = conn + 1
    /\ UNCHANGED <<appVars, sendVars, gwVars, texts, bounds>>

RecoverSession ==
    /\ link = "recovering" /\ link' = "up"
    /\ subs' = subs \cup {shown} /\ wire' = Append(wire, Snapshot(shown))
    /\ UNCHANGED <<appVars, conn, sendVars, upstream, srv, texts, bounds>>

-----------------------------------------------------------------------------
(* The gateway. *)
\* An answer whose waiter is gone is queued like a message.
FrameArrives ==
    /\ upstream # <<>> /\ upstream' = Tail(upstream)
    /\ LET f == Head(upstream) IN
       srv' = IF f.ask # NoAsk /\ srv[f.to].ask = f.ask THEN [srv EXCEPT ![f.to].ask = NoAsk]
              ELSE [srv EXCEPT ![f.to].inbox = Append(@, f.req)]
    /\ UNCHANGED <<appVars, linkVars, sendVars, wire, subs, texts, bounds>>

\* The error goes to the connection, whatever it is subscribed to.
FrameRejected ==
    /\ upstream # <<>> /\ upstream' = Tail(upstream) /\ Mishap
    /\ wire' = Append(wire, [kind |-> "error", of |-> Head(upstream).to, req |-> Head(upstream).req])
    /\ UNCHANGED <<appVars, linkVars, sendVars, subs, srv, texts, asks, switches>>

Accept(s) == [srv EXCEPT ![s].working = TRUE, ![s].accepted = Append(@, Head(srv[s].inbox)),
                         ![s].inbox = Tail(@)]

TurnStarts(s) ==
    /\ ~srv[s].working /\ srv[s].inbox # <<>> /\ srv' = Accept(s)
    /\ wire' = IF s \in subs THEN wire \o << [kind |-> "started", of |-> s],
                                             [kind |-> "accepted", of |-> s, req |-> Head(srv[s].inbox)] >>
               ELSE wire
    /\ UNCHANGED <<appVars, linkVars, sendVars, upstream, subs, texts, bounds>>

TurnSteered(s) ==
    /\ srv[s].working /\ srv[s].ask = NoAsk /\ srv[s].inbox # <<>> /\ srv' = Accept(s)
    /\ Tell([kind |-> "accepted", of |-> s, req |-> Head(srv[s].inbox)])
    /\ UNCHANGED <<appVars, linkVars, sendVars, upstream, subs, texts, bounds>>

TurnAsks(s) ==
    /\ srv[s].working /\ srv[s].ask = NoAsk /\ asks < MaxAsks /\ asks' = asks + 1
    /\ srv' = [srv EXCEPT ![s].ask = asks']
    /\ Tell([kind |-> "ask", of |-> s, ask |-> asks'])
    /\ UNCHANGED <<appVars, linkVars, sendVars, upstream, subs, texts, switches, mishaps>>

TurnEnds(s) ==
    /\ srv[s].working /\ srv[s].ask = NoAsk /\ srv' = [srv EXCEPT ![s].working = FALSE]
    /\ Tell([kind |-> "done", of |-> s])
    /\ UNCHANGED <<appVars, linkVars, sendVars, upstream, subs, texts, bounds>>

-----------------------------------------------------------------------------
(* handle_event *)
Event == Head(wire)
Receive(kind) == wire # <<>> /\ wire' = Tail(wire) /\ Event.kind = kind
Here == Event.of = shown
Bubbles(reqs, kind) == {<<r, kind>> : r \in reqs}
outside == <<linkVars, sendVars, upstream, subs, srv, texts, bounds>>

\* Mutant: the snapshot leaves the working flag alone.
SyncSessionStillWorking ==
    /\ Receive("sync")
    /\ shown' = Event.of /\ pending' = {} /\ cells' = Bubbles(Event.accepted, "user")
    /\ panels' = IF Event.ask = NoAsk THEN <<>> ELSE <<Event.ask>>
    /\ UNCHANGED <<draft, working, outside>>

\* apply_sync_session: the snapshot replaces the view, of whatever session it is.
SyncSession ==
    /\ Receive("sync")
    /\ shown' = Event.of /\ pending' = {} /\ cells' = Bubbles(Event.accepted, "user")
    /\ panels' = IF Event.ask = NoAsk THEN <<>> ELSE <<Event.ask>>
    /\ working' = Event.working
    /\ UNCHANGED <<draft, outside>>

ForeignEvent ==
    /\ wire # <<>> /\ Event.kind # "sync" /\ ~Here /\ wire' = Tail(wire)
    /\ UNCHANGED <<appVars, outside>>

TurnStarted ==
    /\ Receive("started") /\ Here /\ working' = TRUE
    /\ UNCHANGED <<shown, draft, pending, cells, panels, outside>>

\* promote_pending: a message this client does not track is not rendered.
UserMessageAccepted ==
    /\ Receive("accepted") /\ Here /\ pending' = pending \ {Event.req}
    /\ cells' = cells \cup Bubbles(pending \cap {Event.req}, "user")
    /\ UNCHANGED <<shown, draft, panels, working, outside>>

EndOfTurn == working' = FALSE /\ panels' = <<>>     \* finish_turn and clear_ask_state

\* promote_all_pending
Done ==
    /\ Receive("done") /\ Here /\ EndOfTurn
    /\ cells' = cells \cup Bubbles(pending, "user") /\ pending' = {}
    /\ UNCHANGED <<shown, draft, outside>>

\* discard_pending
Interrupted ==
    /\ Receive("interrupted") /\ Here /\ EndOfTurn
    /\ cells' = cells \cup Bubbles(pending \cap Event.dropped, "discarded")
    /\ pending' = pending \ Event.dropped
    /\ UNCHANGED <<shown, draft, outside>>

Ask ==
    /\ Receive("ask") /\ Here /\ panels' = Append(panels, Event.ask)
    /\ UNCHANGED <<shown, draft, pending, cells, working, outside>>

Error ==
    /\ Receive("error") /\ Here /\ EndOfTurn /\ Refill(Event.req)
    /\ UNCHANGED <<shown, cells, outside>>

-----------------------------------------------------------------------------
User == \/ Submit \/ AnswerAsk \/ ClearChat \/ Interrupt
        \/ \E s \in Sessions, subscribed, unsubscribed \in BOOLEAN : SwitchTo(s, subscribed, unsubscribed)
Client == \/ SendHead \/ SendIntoDeadLink \/ SendFails \/ RestoreFailedSend
          \/ LinkLost \/ Reconnect \/ RecoverSession
Gateway == \/ FrameArrives \/ FrameRejected
           \/ \E s \in Sessions : TurnStarts(s) \/ TurnSteered(s) \/ TurnAsks(s) \/ TurnEnds(s)
HandleEvent == \/ SyncSession \/ ForeignEvent \/ TurnStarted \/ UserMessageAccepted
               \/ Done \/ Interrupted \/ Ask \/ Error

Next == User \/ Client \/ Gateway \/ HandleEvent
Spec == Init /\ [][Next]_vars

-----------------------------------------------------------------------------
Requests == 1..(MaxSends + MaxAsks)

\* The type of every variable; a message number stands for a text or an answer.
TypeOK ==
    /\ shown \in Sessions /\ ToSet(draft) \subseteq 1..MaxSends /\ pending \subseteq 1..Sends
    /\ cells \subseteq Requests \X {"user", "discarded"} /\ ToSet(panels) \subseteq 1..MaxAsks
    /\ working \in BOOLEAN /\ link \in {"up", "recovering", "down"} /\ conn \in 1..(MaxMishaps + 1)
    /\ ToSet(failed) \subseteq Requests /\ subs \subseteq Sessions
    /\ \A s \in Sessions : /\ ToSet(srv[s].inbox) \cup ToSet(srv[s].accepted) \subseteq Requests
                           /\ srv[s].working \in BOOLEAN /\ srv[s].ask \in 0..MaxAsks

\* Where a text is on its way to a model, or has been fed to one.
Underway(r) ==
    \/ \E i \in DOMAIN chain : chain[i].req = r
    \/ \E i \in DOMAIN upstream : upstream[i].req = r
    \/ \E s \in Sessions : Contains(srv[s].inbox, r) \/ Contains(srv[s].accepted, r)

\* A text is sent at most once: what is back in the draft is not on its way, and what
\* was sent again is not also on its way in its first message - over lost links, failed
\* uploads, rejected frames and switches of the session (restore_failed_send, Error).
NeverSentTwice ==
    \A t \in 1..Sends :
        LET copies == {r \in 1..Sends : t \in Carried(r) /\ Underway(r)}
        IN  Cardinality(copies) <= (IF Contains(draft, t) THEN 0 ELSE 1)

\* A text is shown in one place: the draft (once), the pending queue, or the history.
ShownOnce ==
    \A t \in 1..Sends :
        LET queued == {r \in pending : t \in Carried(r)}
            told   == {c \in cells : t \in Carried(c[1])}
        IN  Cardinality({i \in DOMAIN draft : draft[i] = t}) + Cardinality(queued) + Cardinality(told) <= 1

\* Once every event has been handled, neither a panel nor the working flag outlives the
\* turn it belongs to (clear_ask_state, apply_sync_session).  A question answered while
\* the session is being recovered may still be open again, until that turn ends.
Settled == link = "up" /\ wire = <<>> /\ shown \in subs
NothingOutlivesTheTurn ==
    Settled /\ ~srv[shown].working => panels = <<>> /\ ~working

=============================================================================
