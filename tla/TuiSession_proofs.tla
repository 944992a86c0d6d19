--------------------------- MODULE TuiSession_proofs --------------------------
(* Theorems about TuiSession, for any number of messages, questions, switches and mishaps: *)
(* a text is sent at most once and shown in one place, and nothing of a turn outlives it.  *)
EXTENDS TuiSession, SequenceTheorems, FiniteSetTheorems, TLAPS

-----------------------------------------------------------------------------
(* Types *)
Items == [req : Nat, to : Sessions, conn : Nat, ask : 0..MaxAsks]
TuiEvents ==
    [kind : {"started", "done"}, of : Sessions]
    \cup [kind : {"accepted", "error"}, of : Sessions, req : Nat]
    \cup [kind : {"interrupted"}, of : Sessions, dropped : SUBSET Nat]
    \cup [kind : {"ask"}, of : Sessions, ask : 1..MaxAsks]
    \cup [kind : {"sync"}, of : Sessions, accepted : SUBSET Nat, working : BOOLEAN,
          ask : 0..MaxAsks]
Servers == [inbox : Seq(Nat), accepted : Seq(Nat), working : BOOLEAN, ask : 0..MaxAsks]

ScreenType ==
    /\ shown \in Sessions /\ working \in BOOLEAN /\ panels \in Seq(1..MaxAsks)
    /\ draft \in Seq(Nat) /\ texts \in Seq(Seq(Nat)) /\ pending \subseteq Nat
FlowType ==
    /\ chain \in Seq(Items) /\ upstream \in Seq(Items) /\ failed \in Seq(Nat)
    /\ wire \in Seq(TuiEvents) /\ conn \in Nat
ServerType ==
    srv \in [Sessions -> Servers] /\ asks \in 0..MaxAsks /\ subs \subseteq Sessions
\* The first session is one, and the bounds are numbers.
SessionConstants == Home \in Sessions /\ MaxSends \in Nat /\ MaxAsks \in Nat
SessionType == SessionConstants /\ ScreenType /\ FlowType /\ ServerType

LEMMA Numbers ==
  ASSUME SessionType
  PROVE  SessionConstants
BY DEF SessionType

LEMMA SessionSplit ==
  ASSUME [Next]_vars
  PROVE  \/ Submit \/ AnswerAsk \/ ClearChat \/ Interrupt
         \/ \E s \in Sessions, yes \in BOOLEAN, no \in BOOLEAN : SwitchTo(s, yes, no)
         \/ SendHead \/ SendIntoDeadLink \/ SendFails \/ RestoreFailedSend
         \/ LinkLost \/ Reconnect \/ RecoverSession \/ FrameArrives \/ FrameRejected
         \/ \E s \in Sessions : TurnStarts(s) \/ TurnSteered(s) \/ TurnAsks(s) \/ TurnEnds(s)
         \/ SyncSession \/ ForeignEvent \/ TurnStarted \/ UserMessageAccepted
         \/ Done \/ Interrupted \/ Ask \/ Error \/ UNCHANGED vars
BY DEF Next, User, Client, Gateway, HandleEvent

\* The ends of a queue.
LEMMA QueueEnds ==
  ASSUME NEW S, NEW q \in Seq(S)
  PROVE  /\ \A x \in S : Append(q, x) \in Seq(S)
         /\ q # <<>> => Head(q) \in S /\ Tail(q) \in Seq(S)
OBVIOUS

\* An event of each kind is an event.
LEMMA EventKindsOk ==
  ASSUME NEW s \in Sessions
  PROVE  /\ [kind |-> "started", of |-> s] \in TuiEvents
         /\ [kind |-> "done", of |-> s] \in TuiEvents
         /\ \A r \in Nat : /\ [kind |-> "accepted", of |-> s, req |-> r] \in TuiEvents
                           /\ [kind |-> "error", of |-> s, req |-> r] \in TuiEvents
         /\ \A d \in SUBSET Nat : [kind |-> "interrupted", of |-> s, dropped |-> d] \in TuiEvents
         /\ \A a \in 1..MaxAsks : [kind |-> "ask", of |-> s, ask |-> a] \in TuiEvents
         /\ \A d \in SUBSET Nat, w \in BOOLEAN, a \in 0..MaxAsks :
               [kind |-> "sync", of |-> s, accepted |-> d, working |-> w, ask |-> a] \in TuiEvents
BY DEF TuiEvents

LEMMA EventFields ==
  ASSUME NEW e \in TuiEvents
  PROVE  /\ e.of \in Sessions
         /\ e.kind \in {"started", "done", "accepted", "error", "interrupted", "ask", "sync"}
         /\ e.kind \in {"accepted", "error"} => e.req \in Nat
         /\ e.kind = "ask" => e.ask \in 1..MaxAsks
         /\ e.kind = "sync" => /\ e.accepted \subseteq Nat /\ e.working \in BOOLEAN
                               /\ e.ask \in 0..MaxAsks
BY DEF TuiEvents

LEMMA ItemFields ==
  ASSUME NEW f \in Items
  PROVE  f.req \in Nat /\ f.to \in Sessions /\ f.ask \in 0..MaxAsks
BY DEF Items

LEMMA ServerFields ==
  ASSUME NEW v \in Servers
  PROVE  /\ v.inbox \in Seq(Nat) /\ v.accepted \in Seq(Nat)
         /\ v.working \in BOOLEAN /\ v.ask \in 0..MaxAsks
         /\ \A q \in Seq(Nat) : [v EXCEPT !.inbox = q] \in Servers
         /\ \A a \in 0..MaxAsks : [v EXCEPT !.ask = a] \in Servers
         /\ \A w \in BOOLEAN : [v EXCEPT !.working = w] \in Servers
BY DEF Servers

LEMMA ToSetIn ==
  ASSUME NEW S, NEW q \in Seq(S)
  PROVE  ToSet(q) \subseteq S
BY DEF ToSet

LEMMA RefillType ==
  ASSUME SessionType, NEW r, Refill(r), pending \subseteq DOMAIN texts
  PROVE  draft' \in Seq(Nat)
<1>1. r \in pending => texts[r] \in Seq(Nat)
  BY DEF SessionType, ScreenType
<1> QED
  BY <1>1 DEF Refill, SessionType, ScreenType

LEMMA ScreenStep ==
  ASSUME SessionType, pending \subseteq DOMAIN texts, [Next]_vars
  PROVE  ScreenType'
<1>1. CASE Submit
  <2> DEFINE text == IF draft = <<>> THEN <<Sends + 1>> ELSE draft
  <2>1. text \in Seq(Nat) /\ Sends + 1 \in Nat
    BY DEF SessionType, ScreenType, Sends
  <2>2. texts' = Append(texts, text) /\ draft' \in {text, <<>>}
        /\ pending' \in {pending, pending \cup {Sends + 1}}
    BY <1>1 DEF Submit
  <2>3. UNCHANGED <<shown, panels, working>>
    BY <1>1 DEF Submit
  <2> HIDE DEF text
  <2>4. texts' \in Seq(Seq(Nat))
    BY <2>1, <2>2, QueueEnds DEF SessionType, ScreenType
  <2>5. draft' \in Seq(Nat)
    BY <2>1, <2>2, EmptySeq
  <2> QED
    BY <2>1, <2>2, <2>3, <2>4, <2>5 DEF SessionType, ScreenType
<1>2. CASE AnswerAsk
  BY <1>2, QueueEnds DEF AnswerAsk, SessionType, ScreenType
<1>3. CASE ClearChat
  BY <1>3 DEF ClearChat, SessionType, ScreenType, appVars, vars, outside
<1>4. CASE Interrupt
  BY <1>4 DEF Interrupt, SessionType, ScreenType, appVars, vars, outside
<1>5. ASSUME NEW s \in Sessions, NEW yes \in BOOLEAN, NEW no \in BOOLEAN, SwitchTo(s, yes, no)
      PROVE  ScreenType'
  BY <1>5 DEF SwitchTo, SessionType, ScreenType, appVars, vars, outside
<1>6. CASE SendHead
  BY <1>6 DEF SendHead, SessionType, ScreenType, appVars, vars, outside
<1>7. CASE SendIntoDeadLink
  BY <1>7 DEF SendIntoDeadLink, SessionType, ScreenType, appVars, vars, outside
<1>8. CASE SendFails
  BY <1>8 DEF SendFails, SessionType, ScreenType, appVars, vars, outside
<1>9. CASE RestoreFailedSend
  <2>1. draft' \in Seq(Nat)
    BY <1>9, RefillType DEF RestoreFailedSend
  <2> QED
    BY <1>9, <2>1 DEF RestoreFailedSend, Refill, SessionType, ScreenType
<1>10. CASE LinkLost
  BY <1>10 DEF LinkLost, SessionType, ScreenType, appVars, vars, outside
<1>11. CASE Reconnect
  BY <1>11 DEF Reconnect, SessionType, ScreenType, appVars, vars, outside
<1>12. CASE RecoverSession
  BY <1>12 DEF RecoverSession, SessionType, ScreenType, appVars, vars, outside
<1>13. CASE FrameArrives
  BY <1>13 DEF FrameArrives, SessionType, ScreenType, appVars, vars, outside
<1>14. CASE FrameRejected
  BY <1>14 DEF FrameRejected, SessionType, ScreenType, appVars, vars, outside
<1>15. ASSUME NEW s \in Sessions, TurnStarts(s) PROVE ScreenType'
  BY <1>15 DEF TurnStarts, SessionType, ScreenType, appVars, vars, outside
<1>16. ASSUME NEW s \in Sessions, TurnSteered(s) PROVE ScreenType'
  BY <1>16 DEF TurnSteered, SessionType, ScreenType, appVars, vars, outside
<1>17. ASSUME NEW s \in Sessions, TurnAsks(s) PROVE ScreenType'
  BY <1>17 DEF TurnAsks, SessionType, ScreenType, appVars, vars, outside
<1>18. ASSUME NEW s \in Sessions, TurnEnds(s) PROVE ScreenType'
  BY <1>18 DEF TurnEnds, SessionType, ScreenType, appVars, vars, outside
<1>19. CASE SyncSession
  <2>1. Event \in TuiEvents /\ Event.kind = "sync"
    BY <1>19, QueueEnds DEF SyncSession, Receive, Event, SessionType, FlowType
  <2>2. Event.of \in Sessions /\ Event.working \in BOOLEAN /\ Event.ask \in 0..MaxAsks
    BY <2>1, EventFields
  <2>3. panels' \in Seq(1..MaxAsks)
    <3>1. Event.ask # NoAsk => Event.ask \in 1..MaxAsks
      BY <2>2, Numbers DEF NoAsk, SessionConstants
    <3>2. \A a \in 1..MaxAsks : <<a>> \in Seq(1..MaxAsks)
      OBVIOUS
    <3> QED
      BY <1>19, <3>1, <3>2, EmptySeq DEF SyncSession
  <2> QED
    BY <1>19, <2>2, <2>3 DEF SyncSession, SessionType, ScreenType, outside
<1>20. CASE ForeignEvent
  BY <1>20 DEF ForeignEvent, SessionType, ScreenType, appVars, vars, outside
<1>21. CASE TurnStarted
  BY <1>21 DEF TurnStarted, SessionType, ScreenType, appVars, vars, outside
<1>22. CASE UserMessageAccepted
  BY <1>22 DEF UserMessageAccepted, SessionType, ScreenType, outside
<1>23. CASE Done
  BY <1>23, EmptySeq DEF Done, EndOfTurn, SessionType, ScreenType, outside
<1>24. CASE Interrupted
  BY <1>24, EmptySeq DEF Interrupted, EndOfTurn, SessionType, ScreenType, outside
<1>25. CASE Ask
  <2>1. Event.ask \in 1..MaxAsks
    BY <1>25, QueueEnds, EventFields DEF Ask, Receive, Event, SessionType, FlowType
  <2> QED
    BY <1>25, <2>1 DEF Ask, SessionType, ScreenType, outside
<1>26. CASE Error
  <2>1. draft' \in Seq(Nat)
    BY <1>26, RefillType DEF Error
  <2> QED
    BY <1>26, <2>1, EmptySeq DEF Error, Refill, EndOfTurn, SessionType, ScreenType, outside
<1>27. CASE UNCHANGED vars
  BY <1>27 DEF SessionType, ScreenType, appVars, vars, outside
<1> QED
  BY <1>1, <1>2, <1>3, <1>4, <1>5, <1>6, <1>7, <1>8, <1>9, <1>10, <1>11, <1>12, <1>13, <1>14,
     <1>15, <1>16, <1>17, <1>18, <1>19, <1>20, <1>21, <1>22, <1>23, <1>24, <1>25, <1>26, <1>27,
     SessionSplit

LEMMA SnapshotType ==
  ASSUME SessionType, NEW s \in Sessions
  PROVE  Snapshot(s) \in TuiEvents
<1>1. srv[s] \in Servers
  BY DEF SessionType, ServerType
<1>2. srv[s].accepted \in Seq(Nat) /\ srv[s].working \in BOOLEAN /\ srv[s].ask \in 0..MaxAsks
  BY <1>1 DEF Servers
<1>3. ToSet(srv[s].accepted) \in SUBSET Nat
  BY <1>2, ToSetIn
<1> QED
  BY <1>2, <1>3, EventKindsOk DEF Snapshot

LEMMA FlowStep ==
  ASSUME SessionType, [Next]_vars
  PROVE  FlowType'
<1>1. CASE Submit
  <2>1. chain' \in Seq(Items)
    <3>1. \A n \in Nat, a \in 0..MaxAsks :
             [req |-> n, to |-> shown, conn |-> conn, ask |-> a] \in Items
      BY DEF Items, SessionType, ScreenType, FlowType
    <3>2. Sends + 1 \in Nat /\ NoAsk \in 0..MaxAsks
      BY DEF Sends, NoAsk, SessionType, ScreenType, SessionConstants
    <3> QED
      BY <1>1, <3>1, <3>2, QueueEnds DEF Submit, SessionType, FlowType
  <2> QED
    BY <1>1, <2>1 DEF Submit, SessionType, FlowType, linkVars, sendVars, gwVars, vars, outside
<1>2. CASE AnswerAsk
  <2>1. chain' \in Seq(Items)
    <3>1. \A n \in Nat, a \in 0..MaxAsks :
             [req |-> n, to |-> shown, conn |-> conn, ask |-> a] \in Items
      BY DEF Items, SessionType, ScreenType, FlowType
    <3>2. Reply(Head(panels)) \in Nat /\ Head(panels) \in 0..MaxAsks
      BY <1>2, QueueEnds DEF AnswerAsk, Reply, SessionType, ScreenType, SessionConstants
    <3> QED
      BY <1>2, <3>1, <3>2, QueueEnds DEF AnswerAsk, SessionType, FlowType
  <2> QED
    BY <1>2, <2>1 DEF AnswerAsk, SessionType, FlowType, linkVars, sendVars, gwVars, vars,
       outside
<1>3. CASE ClearChat
  BY <1>3 DEF ClearChat, SessionType, FlowType, linkVars, sendVars, gwVars, vars, outside
<1>4. CASE Interrupt
  <2>1. ToSet(srv[shown].inbox) \in SUBSET Nat
    BY ToSetIn DEF SessionType, ScreenType, ServerType, Servers
  <2>2. wire' \in Seq(TuiEvents)
    BY <1>4, <2>1, EventKindsOk, QueueEnds DEF Interrupt, Tell, SessionType, ScreenType,
       FlowType
  <2> QED
    BY <1>4, <2>2 DEF Interrupt, SessionType, FlowType, linkVars, sendVars, gwVars, vars,
       outside
<1>5. ASSUME NEW s \in Sessions, NEW yes \in BOOLEAN, NEW no \in BOOLEAN, SwitchTo(s, yes, no)
      PROVE  FlowType'
  <2>1. wire' \in Seq(TuiEvents)
    BY <1>5, SnapshotType, QueueEnds DEF SwitchTo, SessionType, FlowType
  <2> QED
    BY <1>5, <2>1 DEF SwitchTo, SessionType, FlowType, linkVars, sendVars, gwVars, vars, outside
<1>6. CASE SendHead
  BY <1>6, QueueEnds DEF SendHead, SessionType, FlowType, linkVars, sendVars, gwVars, vars,
     outside
<1>7. CASE SendIntoDeadLink
  BY <1>7, QueueEnds DEF SendIntoDeadLink, SessionType, FlowType, linkVars, sendVars, gwVars,
     vars, outside
<1>8. CASE SendFails
  <2>1. Head(chain).req \in Nat /\ Tail(chain) \in Seq(Items)
    BY <1>8, QueueEnds, ItemFields DEF SendFails, SessionType, FlowType
  <2> QED
    BY <1>8, <2>1, QueueEnds DEF SendFails, SessionType, FlowType, linkVars, sendVars, gwVars,
       vars, outside
<1>9. CASE RestoreFailedSend
  BY <1>9, QueueEnds DEF RestoreFailedSend, SessionType, FlowType, linkVars, sendVars, gwVars,
     vars, outside
<1>10. CASE LinkLost
  BY <1>10, EmptySeq DEF LinkLost, SessionType, FlowType, linkVars, sendVars, gwVars, vars,
     outside
<1>11. CASE Reconnect
  BY <1>11 DEF Reconnect, SessionType, FlowType, linkVars, sendVars, gwVars, vars, outside
<1>12. CASE RecoverSession
  <2>1. wire' \in Seq(TuiEvents)
    BY <1>12, SnapshotType, QueueEnds DEF RecoverSession, SessionType, ScreenType, FlowType
  <2> QED
    BY <1>12, <2>1 DEF RecoverSession, SessionType, FlowType, linkVars, sendVars, gwVars, vars,
       outside
<1>13. CASE FrameArrives
  BY <1>13, QueueEnds DEF FrameArrives, SessionType, FlowType, linkVars, sendVars, gwVars, vars,
     outside
<1>14. CASE FrameRejected
  <2>1. /\ Head(upstream).req \in Nat
        /\ Head(upstream).to \in Sessions
        /\ Tail(upstream) \in Seq(Items)
    BY <1>14, QueueEnds, ItemFields DEF FrameRejected, SessionType, FlowType
  <2>2. wire' \in Seq(TuiEvents)
    BY <1>14, <2>1, EventKindsOk, QueueEnds DEF FrameRejected, SessionType, FlowType
  <2> QED
    BY <1>14, <2>1, <2>2 DEF FrameRejected, SessionType, FlowType, linkVars, sendVars, gwVars,
       vars, outside
<1>15. ASSUME NEW s \in Sessions, TurnStarts(s) PROVE FlowType'
  <2>1. Head(srv[s].inbox) \in Nat
    BY <1>15, QueueEnds DEF TurnStarts, SessionType, ServerType, Servers
  <2>2. << [kind |-> "started", of |-> s],
           [kind |-> "accepted", of |-> s, req |-> Head(srv[s].inbox)] >> \in Seq(TuiEvents)
    <3>1. \A e, f \in TuiEvents : <<e, f>> \in Seq(TuiEvents)
      OBVIOUS
    <3> QED
      BY <2>1, <3>1, EventKindsOk
  <2>3. wire' \in Seq(TuiEvents)
    BY <1>15, <2>2, ConcatProperties DEF TurnStarts, SessionType, FlowType
  <2> QED
    BY <1>15, <2>3 DEF TurnStarts, SessionType, FlowType, linkVars, sendVars, gwVars, vars,
       outside
<1>16. ASSUME NEW s \in Sessions, TurnSteered(s) PROVE FlowType'
  <2>1. Head(srv[s].inbox) \in Nat
    BY <1>16, QueueEnds DEF TurnSteered, SessionType, ServerType, Servers
  <2>2. wire' \in Seq(TuiEvents)
    BY <1>16, <2>1, EventKindsOk, QueueEnds DEF TurnSteered, Tell, SessionType, FlowType
  <2> QED
    BY <1>16, <2>2 DEF TurnSteered, SessionType, FlowType, linkVars, sendVars, gwVars, vars,
       outside
<1>17. ASSUME NEW s \in Sessions, TurnAsks(s) PROVE FlowType'
  <2>1. asks' \in 1..MaxAsks
    BY <1>17 DEF TurnAsks, SessionType, ServerType, SessionConstants
  <2>2. wire' \in Seq(TuiEvents)
    BY <1>17, <2>1, EventKindsOk, QueueEnds DEF TurnAsks, Tell, SessionType, FlowType
  <2> QED
    BY <1>17, <2>2 DEF TurnAsks, SessionType, FlowType, linkVars, sendVars, gwVars, vars,
       outside
<1>18. ASSUME NEW s \in Sessions, TurnEnds(s) PROVE FlowType'
  <2>1. wire' \in Seq(TuiEvents)
    BY <1>18, EventKindsOk, QueueEnds DEF TurnEnds, Tell, SessionType, FlowType
  <2> QED
    BY <1>18, <2>1 DEF TurnEnds, SessionType, FlowType, linkVars, sendVars, gwVars, vars,
       outside
<1>19. CASE SyncSession
  BY <1>19, QueueEnds DEF SyncSession, Receive, SessionType, FlowType, linkVars, sendVars,
     gwVars, vars, outside
<1>20. CASE ForeignEvent
  BY <1>20, QueueEnds DEF ForeignEvent, SessionType, FlowType, linkVars, sendVars, gwVars, vars,
     outside
<1>21. CASE TurnStarted
  BY <1>21, QueueEnds DEF TurnStarted, Receive, SessionType, FlowType, linkVars, sendVars,
     gwVars, vars, outside
<1>22. CASE UserMessageAccepted
  BY <1>22, QueueEnds DEF UserMessageAccepted, Receive, SessionType, FlowType, linkVars,
     sendVars, gwVars, vars, outside
<1>23. CASE Done
  BY <1>23, QueueEnds DEF Done, Receive, SessionType, FlowType, linkVars, sendVars, gwVars,
     vars, outside
<1>24. CASE Interrupted
  BY <1>24, QueueEnds DEF Interrupted, Receive, SessionType, FlowType, linkVars, sendVars,
     gwVars, vars, outside
<1>25. CASE Ask
  BY <1>25, QueueEnds DEF Ask, Receive, SessionType, FlowType, linkVars, sendVars, gwVars, vars,
     outside
<1>26. CASE Error
  BY <1>26, QueueEnds DEF Error, Receive, SessionType, FlowType, linkVars, sendVars, gwVars,
     vars, outside
<1>27. CASE UNCHANGED vars
  BY <1>27 DEF SessionType, FlowType, linkVars, sendVars, gwVars, vars, outside
<1> QED
  BY <1>1, <1>2, <1>3, <1>4, <1>5, <1>6, <1>7, <1>8, <1>9, <1>10, <1>11, <1>12, <1>13, <1>14,
     <1>15, <1>16, <1>17, <1>18, <1>19, <1>20, <1>21, <1>22, <1>23, <1>24, <1>25, <1>26, <1>27,
     SessionSplit

LEMMA AcceptType ==
  ASSUME SessionType, NEW s \in Sessions, srv[s].inbox # <<>>
  PROVE  Accept(s) \in [Sessions -> Servers]
<1>1. srv[s] \in Servers
  BY DEF SessionType, ServerType
<1>2. Head(srv[s].inbox) \in Nat /\ Tail(srv[s].inbox) \in Seq(Nat)
  BY <1>1, QueueEnds DEF Servers
<1>3. Append(srv[s].accepted, Head(srv[s].inbox)) \in Seq(Nat)
  BY <1>1, <1>2, QueueEnds DEF Servers
<1> QED
  BY <1>1, <1>2, <1>3 DEF Accept, Servers, SessionType, ServerType

LEMMA ServerStep ==
  ASSUME SessionType, [Next]_vars
  PROVE  ServerType'
<1>1. CASE Submit
  BY <1>1 DEF Submit, SessionType, ServerType, gwVars, bounds, vars, outside
<1>2. CASE AnswerAsk
  BY <1>2 DEF AnswerAsk, SessionType, ServerType, gwVars, bounds, vars, outside
<1>3. CASE ClearChat
  BY <1>3 DEF ClearChat, SessionType, ServerType, gwVars, bounds, vars, outside
<1>4. CASE Interrupt
  <2>1. NoAsk \in 0..MaxAsks /\ <<>> \in Seq(Nat)
    BY Numbers, EmptySeq DEF NoAsk, SessionConstants
  <2>2. srv' \in [Sessions -> Servers]
    BY <1>4, <2>1 DEF Interrupt, Servers, SessionType, ServerType
  <2> QED
    BY <1>4, <2>2 DEF Interrupt, SessionType, ServerType, gwVars, bounds, vars, outside
<1>5. ASSUME NEW s \in Sessions, NEW yes \in BOOLEAN, NEW no \in BOOLEAN, SwitchTo(s, yes, no)
      PROVE  ServerType'
  BY <1>5 DEF SwitchTo, ScreenType, SessionType, ServerType, gwVars, bounds, vars, outside
<1>6. CASE SendHead
  BY <1>6 DEF SendHead, SessionType, ServerType, gwVars, bounds, vars, outside
<1>7. CASE SendIntoDeadLink
  BY <1>7 DEF SendIntoDeadLink, SessionType, ServerType, gwVars, bounds, vars, outside
<1>8. CASE SendFails
  BY <1>8 DEF SendFails, SessionType, ServerType, gwVars, bounds, vars, outside
<1>9. CASE RestoreFailedSend
  BY <1>9 DEF RestoreFailedSend, SessionType, ServerType, gwVars, bounds, vars, outside
<1>10. CASE LinkLost
  BY <1>10 DEF LinkLost, SessionType, ServerType, gwVars, bounds, vars, outside
<1>11. CASE Reconnect
  BY <1>11 DEF Reconnect, SessionType, ServerType, gwVars, bounds, vars, outside
<1>12. CASE RecoverSession
  <2>1. subs' \subseteq Sessions /\ srv' = srv /\ asks' = asks
    BY <1>12 DEF RecoverSession, ScreenType, bounds, SessionType, ServerType, gwVars, bounds,
       vars, outside
  <2> QED
    BY <2>1 DEF SessionType, ServerType
<1>13. CASE FrameArrives
  <2>1. Head(upstream).req \in Nat
    BY <1>13, QueueEnds, ItemFields DEF FrameArrives, SessionType, FlowType
  <2>2. \A s \in Sessions : /\ [srv[s] EXCEPT !.ask = NoAsk] \in Servers
                            /\ [srv[s] EXCEPT !.inbox = Append(@, Head(upstream).req)] \in Servers
    <3>1. \A s \in Sessions : srv[s] \in Servers
      BY DEF SessionType, ServerType
    <3>2. NoAsk \in 0..MaxAsks
      BY Numbers DEF NoAsk, SessionConstants
    <3>3. \A s \in Sessions : Append(srv[s].inbox, Head(upstream).req) \in Seq(Nat)
      BY <2>1, <3>1, ServerFields, QueueEnds
    <3> QED
      BY <3>1, <3>2, <3>3, ServerFields
  <2>3. srv' \in [Sessions -> Servers]
    BY <1>13, <2>2 DEF FrameArrives, SessionType, ServerType
  <2> QED
    BY <1>13, <2>3 DEF FrameArrives, SessionType, ServerType, gwVars, bounds, vars, outside
<1>14. CASE FrameRejected
  BY <1>14 DEF FrameRejected, SessionType, ServerType, gwVars, bounds, vars, outside
<1>15. ASSUME NEW s \in Sessions, TurnStarts(s) PROVE ServerType'
  <2>1. srv' \in [Sessions -> Servers]
    BY <1>15, AcceptType DEF TurnStarts, SessionType
  <2> QED
    BY <1>15, <2>1 DEF TurnStarts, SessionType, ServerType, gwVars, bounds, vars, outside
<1>16. ASSUME NEW s \in Sessions, TurnSteered(s) PROVE ServerType'
  <2>1. srv' \in [Sessions -> Servers]
    BY <1>16, AcceptType DEF TurnSteered, SessionType
  <2> QED
    BY <1>16, <2>1 DEF TurnSteered, SessionType, ServerType, gwVars, bounds, vars, outside
<1>17. ASSUME NEW s \in Sessions, TurnAsks(s) PROVE ServerType'
  <2>1. asks' \in 0..MaxAsks
    BY <1>17 DEF TurnAsks, SessionType, ServerType, SessionConstants
  <2>2. srv' \in [Sessions -> Servers]
    BY <1>17, <2>1 DEF TurnAsks, Servers, SessionType, ServerType
  <2> QED
    BY <1>17, <2>1, <2>2 DEF TurnAsks, SessionType, ServerType, gwVars, bounds, vars, outside
<1>18. ASSUME NEW s \in Sessions, TurnEnds(s) PROVE ServerType'
  <2>1. srv' \in [Sessions -> Servers]
    BY <1>18 DEF TurnEnds, Servers, SessionType, ServerType
  <2> QED
    BY <1>18, <2>1 DEF TurnEnds, SessionType, ServerType, gwVars, bounds, vars, outside
<1>19. CASE SyncSession
  BY <1>19 DEF SyncSession, SessionType, ServerType, gwVars, bounds, vars, outside
<1>20. CASE ForeignEvent
  BY <1>20 DEF ForeignEvent, SessionType, ServerType, gwVars, bounds, vars, outside
<1>21. CASE TurnStarted
  BY <1>21 DEF TurnStarted, SessionType, ServerType, gwVars, bounds, vars, outside
<1>22. CASE UserMessageAccepted
  BY <1>22 DEF UserMessageAccepted, SessionType, ServerType, gwVars, bounds, vars, outside
<1>23. CASE Done
  BY <1>23 DEF Done, SessionType, ServerType, gwVars, bounds, vars, outside
<1>24. CASE Interrupted
  BY <1>24 DEF Interrupted, SessionType, ServerType, gwVars, bounds, vars, outside
<1>25. CASE Ask
  BY <1>25 DEF Ask, SessionType, ServerType, gwVars, bounds, vars, outside
<1>26. CASE Error
  BY <1>26 DEF Error, SessionType, ServerType, gwVars, bounds, vars, outside
<1>27. CASE UNCHANGED vars
  BY <1>27 DEF SessionType, ServerType, gwVars, bounds, vars, outside
<1> QED
  BY <1>1, <1>2, <1>3, <1>4, <1>5, <1>6, <1>7, <1>8, <1>9, <1>10, <1>11, <1>12, <1>13, <1>14,
     <1>15, <1>16, <1>17, <1>18, <1>19, <1>20, <1>21, <1>22, <1>23, <1>24, <1>25, <1>26, <1>27,
     SessionSplit

-----------------------------------------------------------------------------
(* Where a message is *)

Messages == 1..MaxSends
ByUser == 1..Sends
In(q, r) == \E i \in DOMAIN q : q[i].req = r
Rejected(r) == \E i \in 1..Len(wire) : wire[i].kind = "error" /\ wire[i].req = r
Distinct(q) == \A i, j \in DOMAIN q : q[i].req = q[j].req /\ q[i].req \in Messages => i = j
AtGateway(r) == \E s \in Sessions : Contains(srv[s].inbox, r) \/ Contains(srv[s].accepted, r)
Failing(r) == Contains(failed, r) \/ Rejected(r)
Travels(r) == In(chain, r) \/ In(upstream, r)

\* A message is in one place: the chain, the connection, the gateway, or among those
\* that are known to have failed.
NumberInv ==
    /\ Sends <= MaxSends
    /\ \A r \in Messages : Travels(r) \/ AtGateway(r) \/ Failing(r) => r \in ByUser
PlaceInv ==
    /\ Distinct(chain) /\ Distinct(upstream)
    /\ \A r \in Messages : /\ ~(In(chain, r) /\ In(upstream, r))
                           /\ ~(Travels(r) /\ AtGateway(r))
                           /\ ~(Failing(r) /\ (Travels(r) \/ AtGateway(r)))

LEMMA AppendIn ==
  ASSUME NEW S, NEW q \in Seq(S), NEW x \in S, NEW r
  PROVE  /\ In(Append(q, x), r) <=> In(q, r) \/ x.req = r
         /\ Distinct(q) /\ (x.req \in Messages => ~In(q, x.req)) => Distinct(Append(q, x))
<1>1. Append(q, x) \in Seq(S) /\ DOMAIN Append(q, x) = 1..(Len(q) + 1) /\ DOMAIN q = 1..Len(q)
      /\ Len(q) \in Nat
  OBVIOUS
<1>2. \A i \in 1..(Len(q) + 1) : Append(q, x)[i] = IF i <= Len(q) THEN q[i] ELSE x
  OBVIOUS
<1>3. \A i \in 1..Len(q) : Append(q, x)[i] = q[i]
  BY <1>1, <1>2
<1>4. Append(q, x)[Len(q) + 1] = x
  BY <1>1, <1>2
<1>5. In(Append(q, x), r) <=> In(q, r) \/ x.req = r
  BY <1>1, <1>3, <1>4 DEF In
<1>6. ASSUME Distinct(q), x.req \in Messages => ~In(q, x.req) PROVE Distinct(Append(q, x))
  <2> SUFFICES ASSUME NEW i \in 1..(Len(q) + 1), NEW j \in 1..(Len(q) + 1),
                      Append(q, x)[i].req = Append(q, x)[j].req,
                      Append(q, x)[i].req \in Messages
               PROVE  i = j
    BY <1>1 DEF Distinct
  <2>1. CASE i \in 1..Len(q) /\ j \in 1..Len(q)
    BY <1>1, <1>3, <1>6, <2>1 DEF Distinct
  <2>2. CASE i = Len(q) + 1 /\ j \in 1..Len(q)
    BY <1>1, <1>3, <1>4, <1>6, <2>2 DEF In
  <2>3. CASE j = Len(q) + 1 /\ i \in 1..Len(q)
    BY <1>1, <1>3, <1>4, <1>6, <2>3 DEF In
  <2> QED
    BY <1>1, <2>1, <2>2, <2>3
<1> QED
  BY <1>5, <1>6

LEMMA TailIn ==
  ASSUME NEW S, NEW q \in Seq(S), q # <<>>, NEW r
  PROVE  /\ In(q, Head(q).req) /\ (In(Tail(q), r) => In(q, r))
         /\ Distinct(q) => /\ Distinct(Tail(q))
                           /\ Head(q).req \in Messages => ~In(Tail(q), Head(q).req)
<1>1. /\ Len(q) \in Nat \ {0} /\ DOMAIN q = 1..Len(q) /\ DOMAIN Tail(q) = 1..(Len(q) - 1)
      /\ Head(q) = q[1] /\ \A i \in 1..(Len(q) - 1) : Tail(q)[i] = q[i + 1]
  OBVIOUS
<1>2. \A i \in 1..(Len(q) - 1) : i + 1 \in 1..Len(q) /\ i + 1 # 1
  BY <1>1
<1>3. 1 \in 1..Len(q)
  BY <1>1
<1>4. In(q, Head(q).req) /\ (In(Tail(q), r) => In(q, r))
  BY <1>1, <1>2, <1>3 DEF In
<1>5. ASSUME Distinct(q) PROVE Distinct(Tail(q))
  <2> SUFFICES ASSUME NEW i \in 1..(Len(q) - 1), NEW j \in 1..(Len(q) - 1),
                      q[i + 1].req = q[j + 1].req, q[i + 1].req \in Messages
               PROVE  i = j
    BY <1>1 DEF Distinct
  <2>1. i + 1 = j + 1
    BY <1>1, <1>2, <1>5 DEF Distinct
  <2> QED
    BY <1>1, <2>1
<1>6. ASSUME Distinct(q), Head(q).req \in Messages PROVE ~In(Tail(q), Head(q).req)
  BY <1>1, <1>2, <1>3, <1>6 DEF Distinct, In
<1> QED
  BY <1>4, <1>5, <1>6

LEMMA EmptyIn ==
  ASSUME NEW r
  PROVE  ~In(<<>>, r) /\ Distinct(<<>>) /\ ~Contains(<<>>, r)
BY DEF In, Distinct, Contains

LEMMA ContainsEnds ==
  ASSUME NEW S, NEW q \in Seq(S), NEW r
  PROVE  /\ \A x \in S : Contains(Append(q, x), r) <=> Contains(q, r) \/ x = r
         /\ q # <<>> => Contains(q, Head(q)) /\ (Contains(Tail(q), r) => Contains(q, r))
<1>1. ASSUME NEW x \in S PROVE Contains(Append(q, x), r) <=> Contains(q, r) \/ x = r
  <2>1. Len(Append(q, x)) = Len(q) + 1 /\ Len(q) \in Nat
    OBVIOUS
  <2>2. \A i \in 1..(Len(q) + 1) : Append(q, x)[i] = IF i <= Len(q) THEN q[i] ELSE x
    OBVIOUS
  <2>3. \A i \in 1..(Len(q) + 1) : i <= Len(q) => i \in 1..Len(q)
    BY <2>1
  <2>4. \A i \in 1..Len(q) : i \in 1..(Len(q) + 1) /\ i <= Len(q)
    BY <2>1
  <2>5. Len(q) + 1 \in 1..(Len(q) + 1) /\ ~(Len(q) + 1 <= Len(q))
    BY <2>1
  <2> QED
    BY <2>1, <2>2, <2>3, <2>4, <2>5 DEF Contains
<1>2. ASSUME q # <<>> PROVE Contains(q, Head(q)) /\ (Contains(Tail(q), r) => Contains(q, r))
  <2>1. /\ Len(q) \in Nat \ {0} /\ Len(Tail(q)) = Len(q) - 1
        /\ Head(q) = q[1] /\ \A i \in 1..(Len(q) - 1) : Tail(q)[i] = q[i + 1]
    BY <1>2
  <2>2. 1 \in 1..Len(q) /\ \A i \in 1..(Len(q) - 1) : i + 1 \in 1..Len(q)
    BY <2>1
  <2> QED
    BY <2>1, <2>2 DEF Contains
<1> QED
  BY <1>1, <1>2

\* The gateway forgets nothing it has accepted, and gets a message only from the
\* connection.
LEMMA GatewaySteps ==
  ASSUME SessionType, [Next]_vars, NEW s \in Sessions, NEW r
  PROVE  /\ Contains(srv[s].accepted, r) => Contains(srv'[s].accepted, r)
         /\ Contains(srv'[s].inbox, r) \/ Contains(srv'[s].accepted, r) =>
               \/ Contains(srv[s].inbox, r) \/ Contains(srv[s].accepted, r)
               \/ FrameArrives /\ Head(upstream).req = r
<1> DEFINE Goal == /\ Contains(srv[s].accepted, r) => Contains(srv'[s].accepted, r)
                   /\ Contains(srv'[s].inbox, r) \/ Contains(srv'[s].accepted, r) =>
                         \/ Contains(srv[s].inbox, r) \/ Contains(srv[s].accepted, r)
                         \/ FrameArrives /\ Head(upstream).req = r
<1> SUFFICES Goal
  OBVIOUS
<1>a. srv[s] \in Servers /\ srv[s].inbox \in Seq(Nat) /\ srv[s].accepted \in Seq(Nat)
  BY ServerFields DEF SessionType, ServerType
<1>b. ASSUME NEW v \in Sessions, srv[v].inbox # <<>>, srv' = Accept(v) PROVE Goal
  <2>1. CASE v # s
    <3>1. srv'[s] = srv[s]
      BY <1>b, <2>1 DEF Accept, SessionType, ServerType
    <3> QED
      BY <3>1
  <2>2. CASE v = s
    <3>1. /\ srv'[s].accepted = Append(srv[s].accepted, Head(srv[s].inbox))
          /\ srv'[s].inbox = Tail(srv[s].inbox)
      BY <1>b, <2>2 DEF Accept, SessionType, ServerType, Servers
    <3>2. Head(srv[s].inbox) \in Nat
      BY <1>a, <1>b, <2>2, QueueEnds
    <3> HIDE DEF Goal
    <3>3. /\ Contains(srv[s].inbox, Head(srv[s].inbox))
          /\ Contains(Tail(srv[s].inbox), r) => Contains(srv[s].inbox, r)
      BY <1>a, <1>b, <2>2, ContainsEnds
    <3>4. Contains(Append(srv[s].accepted, Head(srv[s].inbox)), r)
             <=> Contains(srv[s].accepted, r) \/ Head(srv[s].inbox) = r
      BY <1>a, <3>2, ContainsEnds
    <3> QED
      BY <3>1, <3>3, <3>4 DEF Goal
  <2> QED
    BY <2>1, <2>2
<1>c. ASSUME srv'[s] = srv[s] PROVE Goal
  BY <1>c
<1>d. ASSUME srv'[s].accepted = srv[s].accepted, srv'[s].inbox \in {srv[s].inbox, <<>>} PROVE Goal
  BY <1>d, EmptyIn
<1> HIDE DEF Goal
<1>1. CASE Submit
  BY <1>1, <1>c DEF Submit, gwVars
<1>2. CASE AnswerAsk
  BY <1>2, <1>c DEF AnswerAsk, gwVars
<1>3. CASE ClearChat
  BY <1>3, <1>c DEF ClearChat, gwVars
<1>4. CASE Interrupt
  <2>1. srv'[s].accepted = srv[s].accepted /\ srv'[s].inbox \in {srv[s].inbox, <<>>}
    BY <1>4, <1>a DEF Interrupt, Servers, SessionType, ServerType
  <2> QED
    BY <1>d, <2>1
<1>5. ASSUME NEW v \in Sessions, NEW yes \in BOOLEAN, NEW no \in BOOLEAN, SwitchTo(v, yes, no)
      PROVE  Goal
  BY <1>5, <1>c DEF SwitchTo, gwVars
<1>6. CASE SendHead
  BY <1>6, <1>c DEF SendHead
<1>7. CASE SendIntoDeadLink
  BY <1>7, <1>c DEF SendIntoDeadLink, gwVars
<1>8. CASE SendFails
  BY <1>8, <1>c DEF SendFails, gwVars
<1>9. CASE RestoreFailedSend
  BY <1>9, <1>c DEF RestoreFailedSend, gwVars
<1>10. CASE LinkLost
  BY <1>10, <1>c DEF LinkLost, gwVars
<1>11. CASE Reconnect
  BY <1>11, <1>c DEF Reconnect, gwVars
<1>12. CASE RecoverSession
  BY <1>12, <1>c DEF RecoverSession, gwVars
<1>13. CASE FrameArrives
  <2>1. Head(upstream).req \in Nat
    BY <1>13, QueueEnds, ItemFields DEF FrameArrives, SessionType, FlowType
  <2>2. /\ srv'[s].accepted = srv[s].accepted
        /\ srv'[s].inbox \in {srv[s].inbox, Append(srv[s].inbox, Head(upstream).req)}
    BY <1>13, <1>a DEF FrameArrives, Servers, SessionType, ServerType
  <2>3. Contains(Append(srv[s].inbox, Head(upstream).req), r)
           <=> Contains(srv[s].inbox, r) \/ Head(upstream).req = r
    BY <1>a, <2>1, ContainsEnds
  <2> QED
    BY <1>13, <2>2, <2>3 DEF Goal
<1>14. CASE FrameRejected
  BY <1>14, <1>c DEF FrameRejected, gwVars
<1>15. ASSUME NEW v \in Sessions, TurnStarts(v) PROVE Goal
  BY <1>15, <1>b DEF TurnStarts
<1>16. ASSUME NEW v \in Sessions, TurnSteered(v) PROVE Goal
  BY <1>16, <1>b DEF TurnSteered
<1>17. ASSUME NEW v \in Sessions, TurnAsks(v) PROVE Goal
  <2>1. srv'[s].accepted = srv[s].accepted /\ srv'[s].inbox \in {srv[s].inbox, <<>>}
    BY <1>17, <1>a DEF TurnAsks, Servers, SessionType, ServerType
  <2> QED
    BY <1>d, <2>1
<1>18. ASSUME NEW v \in Sessions, TurnEnds(v) PROVE Goal
  <2>1. srv'[s].accepted = srv[s].accepted /\ srv'[s].inbox \in {srv[s].inbox, <<>>}
    BY <1>18, <1>a DEF TurnEnds, Servers, SessionType, ServerType
  <2> QED
    BY <1>d, <2>1
<1>19. CASE SyncSession
  BY <1>19, <1>c DEF SyncSession, gwVars, outside
<1>20. CASE ForeignEvent
  BY <1>20, <1>c DEF ForeignEvent, gwVars, outside
<1>21. CASE TurnStarted
  BY <1>21, <1>c DEF TurnStarted, gwVars, outside
<1>22. CASE UserMessageAccepted
  BY <1>22, <1>c DEF UserMessageAccepted, gwVars, outside
<1>23. CASE Done
  BY <1>23, <1>c DEF Done, gwVars, outside
<1>24. CASE Interrupted
  BY <1>24, <1>c DEF Interrupted, gwVars, outside
<1>25. CASE Ask
  BY <1>25, <1>c DEF Ask, gwVars, outside
<1>26. CASE Error
  BY <1>26, <1>c DEF Error, gwVars, outside
<1>27. CASE UNCHANGED vars
  BY <1>27, <1>c DEF gwVars, vars
<1> QED
  BY <1>1, <1>2, <1>3, <1>4, <1>5, <1>6, <1>7, <1>8, <1>9, <1>10, <1>11, <1>12, <1>13, <1>14,
     <1>15, <1>16, <1>17, <1>18, <1>19, <1>20, <1>21, <1>22, <1>23, <1>24, <1>25, <1>26, <1>27,
     SessionSplit

LEMMA AppendTwice ==
  ASSUME NEW S, NEW q \in Seq(S), NEW x \in S, NEW y \in S
  PROVE  q \o <<x, y>> = Append(Append(q, x), y)
OBVIOUS

\* Only the gateway's refusal puts an error on the connection, and a snapshot is one of
\* the moment.
Brings(e) ==
    \/ e.kind \notin {"error", "sync"}
    \/ e.kind = "error" /\ FrameRejected /\ Head(upstream).req = e.req
    \/ e.kind = "sync" /\ srv' = srv /\ \E s \in Sessions : e = Snapshot(s)

LEMMA WireSteps ==
  ASSUME SessionType, [Next]_vars, NEW e
  PROVE  Contains(wire', e) => Contains(wire, e) \/ Brings(e)
<1> DEFINE Goal == Contains(wire', e) => Contains(wire, e) \/ Brings(e)
<1> SUFFICES Goal
  OBVIOUS
<1>a. ASSUME wire' = wire PROVE Goal
  BY <1>a
<1>b. ASSUME NEW f \in TuiEvents, Brings(f), wire' = Append(wire, f) PROVE Goal
  BY <1>b, ContainsEnds DEF SessionType, FlowType
<1>c. ASSUME wire # <<>>, wire' = Tail(wire) PROVE Goal
  BY <1>c, ContainsEnds DEF SessionType, FlowType
<1> HIDE DEF Goal
<1>1. CASE Submit
  BY <1>1, <1>a DEF Submit, gwVars
<1>2. CASE AnswerAsk
  BY <1>2, <1>a DEF AnswerAsk, gwVars
<1>3. CASE ClearChat
  BY <1>3, <1>a DEF ClearChat, gwVars
<1>4. CASE Interrupt
  <2>1. ToSet(srv[shown].inbox) \in SUBSET Nat
    BY ToSetIn, ServerFields DEF SessionType, ScreenType, ServerType
  <2>2. PICK f \in TuiEvents : f.kind = "interrupted" /\ wire' \in {wire, Append(wire, f)}
    BY <1>4, <2>1, EventKindsOk DEF Interrupt, Tell, SessionType, ScreenType
  <2> QED
    BY <2>2, <1>a, <1>b DEF Brings
<1>5. ASSUME NEW s \in Sessions, NEW yes \in BOOLEAN, NEW no \in BOOLEAN, SwitchTo(s, yes, no)
      PROVE  Goal
  <2>1. Snapshot(s) \in TuiEvents /\ Snapshot(s).kind = "sync"
    BY SnapshotType DEF Snapshot
  <2>2. wire' \in {wire, Append(wire, Snapshot(s))} /\ srv' = srv
    BY <1>5 DEF SwitchTo
  <2> QED
    BY <2>1, <2>2, <1>a, <1>b DEF Brings
<1>6. CASE SendHead
  BY <1>6, <1>a DEF SendHead
<1>7. CASE SendIntoDeadLink
  BY <1>7, <1>a DEF SendIntoDeadLink, gwVars
<1>8. CASE SendFails
  BY <1>8, <1>a DEF SendFails, gwVars
<1>9. CASE RestoreFailedSend
  BY <1>9, <1>a DEF RestoreFailedSend, gwVars
<1>10. CASE LinkLost
  BY <1>10, EmptyIn DEF LinkLost, Goal
<1>11. CASE Reconnect
  BY <1>11, <1>a DEF Reconnect, gwVars
<1>12. CASE RecoverSession
  <2>1. Snapshot(shown) \in TuiEvents /\ Snapshot(shown).kind = "sync" /\ shown \in Sessions
    BY SnapshotType DEF Snapshot, SessionType, ScreenType
  <2>2. wire' = Append(wire, Snapshot(shown)) /\ srv' = srv
    BY <1>12 DEF RecoverSession
  <2> QED
    BY <2>1, <2>2, <1>b DEF Brings
<1>13. CASE FrameArrives
  BY <1>13, <1>a DEF FrameArrives, gwVars
<1>14. CASE FrameRejected
  <2>1. Head(upstream).req \in Nat /\ Head(upstream).to \in Sessions
    BY <1>14, QueueEnds, ItemFields DEF FrameRejected, SessionType, FlowType
  <2> DEFINE f == [kind |-> "error", of |-> Head(upstream).to, req |-> Head(upstream).req]
  <2>2. f \in TuiEvents /\ f.kind = "error" /\ f.req = Head(upstream).req
    BY <2>1, EventKindsOk
  <2>3. wire' = Append(wire, f)
    BY <1>14 DEF FrameRejected
  <2> HIDE DEF f
  <2> QED
    BY <1>14, <2>2, <2>3, <1>b DEF Brings
<1>15. ASSUME NEW s \in Sessions, TurnStarts(s) PROVE Goal
  <2>1. Head(srv[s].inbox) \in Nat
    BY <1>15, QueueEnds, ServerFields DEF TurnStarts, SessionType, ServerType
  <2>2. PICK f \in TuiEvents, g \in TuiEvents :
           /\ f.kind = "started" /\ g.kind = "accepted"
           /\ wire' \in {wire, wire \o <<f, g>>}
    BY <1>15, <2>1, EventKindsOk DEF TurnStarts
  <2>3. wire \o <<f, g>> = Append(Append(wire, f), g) /\ Append(wire, f) \in Seq(TuiEvents)
    BY <2>2, AppendTwice, QueueEnds DEF SessionType, FlowType
  <2>4. Contains(wire \o <<f, g>>, e) => Contains(wire, e) \/ e \in {f, g}
    <3>1. Contains(Append(wire, f), e) <=> Contains(wire, e) \/ f = e
      BY <2>2, ContainsEnds DEF SessionType, FlowType
    <3>2. Contains(Append(Append(wire, f), g), e) <=> Contains(Append(wire, f), e) \/ g = e
      BY <2>2, <2>3, ContainsEnds
    <3> QED
      BY <2>3, <3>1, <3>2
  <2> QED
    BY <1>a, <2>2, <2>4 DEF Goal, Brings
<1>16. ASSUME NEW s \in Sessions, TurnSteered(s) PROVE Goal
  <2>1. Head(srv[s].inbox) \in Nat
    BY <1>16, QueueEnds, ServerFields DEF TurnSteered, SessionType, ServerType
  <2>2. PICK f \in TuiEvents : f.kind = "accepted" /\ wire' \in {wire, Append(wire, f)}
    BY <1>16, <2>1, EventKindsOk DEF TurnSteered, Tell
  <2> QED
    BY <2>2, <1>a, <1>b DEF Brings
<1>17. ASSUME NEW s \in Sessions, TurnAsks(s) PROVE Goal
  <2>1. asks' \in 1..MaxAsks
    BY <1>17 DEF TurnAsks, SessionType, ServerType, SessionConstants
  <2>2. PICK f \in TuiEvents : f.kind = "ask" /\ wire' \in {wire, Append(wire, f)}
    BY <1>17, <2>1, EventKindsOk DEF TurnAsks, Tell
  <2> QED
    BY <2>2, <1>a, <1>b DEF Brings
<1>18. ASSUME NEW s \in Sessions, TurnEnds(s) PROVE Goal
  <2>2. PICK f \in TuiEvents : f.kind = "done" /\ wire' \in {wire, Append(wire, f)}
    BY <1>18, EventKindsOk DEF TurnEnds, Tell
  <2> QED
    BY <2>2, <1>a, <1>b DEF Brings
<1>19. CASE SyncSession
  BY <1>19, <1>c DEF SyncSession, Receive
<1>20. CASE ForeignEvent
  BY <1>20, <1>c DEF ForeignEvent
<1>21. CASE TurnStarted
  BY <1>21, <1>c DEF TurnStarted, Receive
<1>22. CASE UserMessageAccepted
  BY <1>22, <1>c DEF UserMessageAccepted, Receive
<1>23. CASE Done
  BY <1>23, <1>c DEF Done, Receive
<1>24. CASE Interrupted
  BY <1>24, <1>c DEF Interrupted, Receive
<1>25. CASE Ask
  BY <1>25, <1>c DEF Ask, Receive
<1>26. CASE Error
  BY <1>26, <1>c DEF Error, Receive
<1>27. CASE UNCHANGED vars
  BY <1>27, <1>a DEF gwVars, vars
<1> QED
  BY <1>1, <1>2, <1>3, <1>4, <1>5, <1>6, <1>7, <1>8, <1>9, <1>10, <1>11, <1>12, <1>13, <1>14,
     <1>15, <1>16, <1>17, <1>18, <1>19, <1>20, <1>21, <1>22, <1>23, <1>24, <1>25, <1>26, <1>27,
     SessionSplit

-----------------------------------------------------------------------------
LEMMA ItemIn ==
  ASSUME SessionType
  PROVE  \A n \in Nat, a \in 0..MaxAsks :
            [req |-> n, to |-> shown, conn |-> conn, ask |-> a] \in Items
BY DEF Items, SessionType, ScreenType, FlowType

\* The gateway takes a frame only off the connection.
LEMMA FramesPop ==
  ASSUME SessionType, FrameArrives \/ FrameRejected
  PROVE  upstream # <<>> /\ upstream' = Tail(upstream) /\ upstream' # upstream /\ link' = link
<1>1. upstream # <<>> /\ upstream' = Tail(upstream) /\ link' = link
  BY DEF FrameArrives, FrameRejected, linkVars
<1>2. Tail(upstream) # upstream
  BY <1>1 DEF SessionType, FlowType
<1> QED
  BY <1>1, <1>2

LEMMA NotBoth ==
  ASSUME SessionType
  PROVE  ~(FrameArrives /\ FrameRejected)
<1> SUFFICES ASSUME FrameArrives, FrameRejected PROVE FALSE
  OBVIOUS
<1> DEFINE e == [kind |-> "error", of |-> Head(upstream).to, req |-> Head(upstream).req]
<1>1. wire' = wire /\ wire' = Append(wire, e)
  BY DEF FrameArrives, FrameRejected
<1> HIDE DEF e
<1>2. Append(wire, e) # wire
  BY DEF SessionType, FlowType
<1> QED
  BY <1>1, <1>2

\* Nothing new, nothing doubled.
Fades ==
    /\ Distinct(chain') /\ Distinct(upstream')
    /\ \A r \in Messages : /\ In(chain', r) => In(chain, r)
                           /\ In(upstream', r) => In(upstream, r)
                           /\ Contains(failed', r) => Contains(failed, r)

LEMMA Fading ==
  ASSUME SessionType, [Next]_vars, NumberInv, PlaceInv, Fades, texts' = texts,
         ~FrameArrives, ~FrameRejected
  PROVE  NumberInv' /\ PlaceInv'
<1>1. \A r \in Messages : AtGateway(r)' => AtGateway(r)
  BY GatewaySteps DEF AtGateway
<1>2. \A r \in Messages : Rejected(r)' => Rejected(r)
  <2> SUFFICES ASSUME NEW r \in Messages, Rejected(r)' PROVE Rejected(r)
    OBVIOUS
  <2>1. PICK e : Contains(wire', e) /\ e.kind = "error" /\ e.req = r
    BY DEF Rejected, Contains
  <2>2. Contains(wire, e)
    BY <2>1, WireSteps DEF Brings
  <2> QED
    BY <2>1, <2>2 DEF Rejected, Contains
<1>3. Messages' = Messages /\ ByUser' = ByUser /\ Sends' = Sends
  BY DEF Messages, ByUser, Sends
<1>4. NumberInv'
  BY <1>1, <1>2, <1>3 DEF NumberInv, Fades, Travels, Failing
<1>5. PlaceInv'
  BY <1>1, <1>2, <1>3 DEF PlaceInv, Fades, Travels, Failing
<1> QED
  BY <1>4, <1>5

LEMMA SessionPlaces ==
  ASSUME SessionType, [Next]_vars, NumberInv, PlaceInv
  PROVE  NumberInv' /\ PlaceInv'
<1> DEFINE Goal == NumberInv' /\ PlaceInv'
<1> SUFFICES Goal
  OBVIOUS
<1>a. ASSUME chain' = chain, upstream' = upstream, failed' = failed, texts' = texts PROVE Goal
  <2>1. ~FrameArrives /\ ~FrameRejected
    BY <1>a, FramesPop
  <2>2. Fades
    BY <1>a DEF Fades, PlaceInv
  <2> QED
    BY <1>a, <2>1, <2>2, Fading
<1>b. ASSUME NEW r \in Messages, FrameArrives \/ FrameRejected
      PROVE  /\ In(upstream', r) => In(upstream, r)
             /\ In(upstream, Head(upstream).req)
             /\ Head(upstream).req \in Messages => ~In(upstream', Head(upstream).req)
  <2>1. upstream # <<>> /\ upstream' = Tail(upstream) /\ upstream \in Seq(Items)
    BY <1>b, FramesPop DEF SessionType, FlowType
  <2> QED
    BY <2>1, TailIn DEF PlaceInv
<1>c. ASSUME FrameArrives \/ FrameRejected PROVE Distinct(upstream')
  <2>1. upstream # <<>> /\ upstream' = Tail(upstream) /\ upstream \in Seq(Items)
    BY <1>c, FramesPop DEF SessionType, FlowType
  <2> QED
    BY <2>1, TailIn DEF PlaceInv
<1>d. ASSUME chain # <<>>, chain' = Tail(chain)
      PROVE  /\ Distinct(chain') /\ In(chain, Head(chain).req)
             /\ Head(chain).req \in Messages => ~In(chain', Head(chain).req)
             /\ \A r \in Messages : In(chain', r) => In(chain, r)
  BY <1>d, TailIn DEF SessionType, FlowType, PlaceInv
<1>e. \A r : AtGateway(r)' => AtGateway(r) \/ (FrameArrives /\ Head(upstream).req = r)
  BY GatewaySteps DEF AtGateway
<1>f. \A r : Rejected(r)' => Rejected(r) \/ (FrameRejected /\ Head(upstream).req = r)
  <2> SUFFICES ASSUME NEW r, Rejected(r)'
               PROVE Rejected(r) \/ (FrameRejected /\ Head(upstream).req = r)
    OBVIOUS
  <2>1. PICK e : Contains(wire', e) /\ e.kind = "error" /\ e.req = r
    BY DEF Rejected, Contains
  <2>2. Contains(wire, e) \/ (FrameRejected /\ Head(upstream).req = r)
    BY <2>1, WireSteps DEF Brings
  <2> QED
    BY <2>1, <2>2 DEF Rejected, Contains
<1>g. texts' = texts => Messages' = Messages /\ ByUser' = ByUser /\ Sends' = Sends
  BY DEF Messages, ByUser, Sends
<1> HIDE DEF Goal
<1>1. CASE Submit
  <2>1. ~FrameArrives /\ ~FrameRejected
    BY <1>1, FramesPop DEF Submit, gwVars
  <2> DEFINE n == Sends + 1
             text == IF draft = <<>> THEN <<n>> ELSE draft
             item == [req |-> n, to |-> shown, conn |-> conn, ask |-> NoAsk]
  <2>2. UNCHANGED <<upstream, failed>> /\ chain' \in {chain, Append(chain, item)}
    BY <1>1 DEF Submit, gwVars
  <2>3. /\ Sends \in Nat
        /\ Sends' = n
        /\ n \in Messages
        /\ n \notin ByUser
        /\ ByUser' = ByUser \cup {n}
        /\ Messages' = Messages /\ n <= MaxSends
    <3>1. Sends < MaxSends /\ texts' = Append(texts, text)
      BY <1>1 DEF Submit
    <3> QED
      BY <3>1 DEF SessionType, ScreenType, Sends, Messages, ByUser, SessionConstants
  <2>4. ~Travels(n) /\ ~AtGateway(n) /\ ~Failing(n)
    BY <2>3 DEF NumberInv
  <2>5. item \in Items /\ item.req = n
    <3>1. n \in Nat /\ NoAsk \in 0..MaxAsks
      BY <2>3, Numbers DEF NoAsk, SessionConstants
    <3> HIDE DEF n
    <3> QED
      BY <3>1, ItemIn
  <2> HIDE DEF item, n
  <2>6. /\ Distinct(chain') /\ \A r : In(chain', r) => In(chain, r) \/ r = n
    <3>1. chain \in Seq(Items) /\ Distinct(chain) /\ ~In(chain, item.req)
      BY <2>4, <2>5 DEF PlaceInv, Travels, SessionType, FlowType
    <3>2. \A r : In(Append(chain, item), r) <=> In(chain, r) \/ item.req = r
      BY <2>5, <3>1, AppendIn
    <3>3. Distinct(Append(chain, item))
      BY <2>5, <3>1, AppendIn
    <3> QED
      BY <2>2, <2>5, <3>1, <3>2, <3>3
  <2>7. NumberInv'
    BY <1>e, <1>f, <2>1, <2>2, <2>3, <2>6 DEF NumberInv, Travels, Failing
  <2>8. PlaceInv'
    BY <1>e, <1>f, <2>1, <2>2, <2>3, <2>4, <2>6 DEF PlaceInv, Travels, Failing
  <2> QED
    BY <2>7, <2>8 DEF Goal
<1>2. CASE AnswerAsk
  <2>1. ~FrameArrives /\ ~FrameRejected
    BY <1>2, FramesPop DEF AnswerAsk, gwVars
  <2> DEFINE item ==
               [req |-> Reply(Head(panels)), to |-> shown, conn |-> conn, ask |-> Head(panels)]
  <2>2. UNCHANGED <<upstream, failed, texts>> /\ chain' \in {chain, Append(chain, item)}
    BY <1>2 DEF AnswerAsk, gwVars, sendVars
  <2>3. Head(panels) \in 1..MaxAsks
    BY <1>2, QueueEnds DEF AnswerAsk, SessionType, ScreenType
  <2>4. /\ Reply(Head(panels)) \in Nat
        /\ Reply(Head(panels)) \notin Messages
        /\ Head(panels) \in 0..MaxAsks
    BY <2>3, Numbers DEF Reply, Messages, SessionConstants
  <2>5. item \in Items /\ item.req \notin Messages
    BY <2>4, ItemIn
  <2> HIDE DEF item
  <2>6. /\ Distinct(chain') /\ \A r \in Messages : In(chain', r) => In(chain, r)
    <3>1. chain \in Seq(Items) /\ Distinct(chain)
      BY DEF PlaceInv, SessionType, FlowType
    <3>2. \A r : In(Append(chain, item), r) <=> In(chain, r) \/ item.req = r
      BY <2>5, <3>1, AppendIn
    <3>3. Distinct(Append(chain, item))
      BY <2>5, <3>1, AppendIn
    <3> QED
      BY <2>2, <2>5, <3>1, <3>2, <3>3
  <2>7. Fades
    BY <2>2, <2>6 DEF Fades, PlaceInv
  <2> QED
    BY <2>1, <2>2, <2>7, Fading DEF Goal
<1>3. CASE ClearChat
  BY <1>3, <1>a DEF ClearChat, sendVars, gwVars
<1>4. CASE Interrupt
  BY <1>4, <1>a DEF Interrupt, sendVars, gwVars
<1>5. ASSUME NEW s \in Sessions, NEW yes \in BOOLEAN, NEW no \in BOOLEAN, SwitchTo(s, yes, no)
      PROVE  Goal
  BY <1>5, <1>a DEF SwitchTo, sendVars, gwVars
<1>6. CASE SendHead
  <2>1. ~FrameArrives /\ ~FrameRejected
    BY <1>6, FramesPop DEF SendHead, linkVars, SessionType, FlowType
  <2>2. chain # <<>> /\ chain' = Tail(chain) /\ upstream' = Append(upstream, Head(chain))
        /\ UNCHANGED <<failed, texts>>
    BY <1>6 DEF SendHead
  <2>3. Head(chain) \in Items
    BY <2>2, QueueEnds DEF SessionType, FlowType
  <2>4. Head(chain).req \in Messages => ~In(upstream, Head(chain).req)
    BY <1>d, <2>2 DEF PlaceInv
  <2>5. Distinct(upstream') /\ \A r : In(upstream', r) <=> In(upstream, r) \/ Head(chain).req = r
    BY <2>2, <2>3, <2>4, AppendIn DEF PlaceInv, SessionType, FlowType
  <2>6. NumberInv'
    BY <1>d, <1>e, <1>f, <1>g, <2>1, <2>2, <2>5 DEF NumberInv, Travels, Failing
  <2>7. PlaceInv'
    BY <1>d, <1>e, <1>f, <1>g, <2>1, <2>2, <2>5 DEF PlaceInv, Travels, Failing
  <2> QED
    BY <2>6, <2>7 DEF Goal
<1>7. CASE SendIntoDeadLink
  <2>1. ~FrameArrives /\ ~FrameRejected
    BY <1>7, FramesPop DEF SendIntoDeadLink, gwVars
  <2>2. chain # <<>> /\ chain' = Tail(chain) /\ UNCHANGED <<upstream, failed, texts>>
    BY <1>7 DEF SendIntoDeadLink, gwVars
  <2>3. Fades
    BY <1>d, <2>2 DEF Fades, PlaceInv
  <2> QED
    BY <2>1, <2>2, <2>3, Fading DEF Goal
<1>8. CASE SendFails
  <2>1. ~FrameArrives /\ ~FrameRejected
    BY <1>8, FramesPop DEF SendFails, gwVars
  <2>2. chain # <<>> /\ chain' = Tail(chain) /\ failed' = Append(failed, Head(chain).req)
        /\ UNCHANGED <<upstream, texts>>
    BY <1>8 DEF SendFails, gwVars
  <2>3. Head(chain).req \in Nat
    BY <2>2, QueueEnds, ItemFields DEF SessionType, FlowType
  <2>4. \A r : Contains(failed', r) <=> Contains(failed, r) \/ Head(chain).req = r
    BY <2>2, <2>3, ContainsEnds DEF SessionType, FlowType
  <2>5. NumberInv'
    BY <1>d, <1>e, <1>f, <1>g, <2>1, <2>2, <2>4 DEF NumberInv, Travels, Failing
  <2>6. PlaceInv'
    BY <1>d, <1>e, <1>f, <1>g, <2>1, <2>2, <2>4 DEF PlaceInv, Travels, Failing
  <2> QED
    BY <2>5, <2>6 DEF Goal
<1>9. CASE RestoreFailedSend
  <2>1. ~FrameArrives /\ ~FrameRejected
    BY <1>9, FramesPop DEF RestoreFailedSend, gwVars
  <2>2. failed # <<>> /\ failed' = Tail(failed) /\ UNCHANGED <<chain, upstream, texts>>
    BY <1>9 DEF RestoreFailedSend, gwVars
  <2>3. Fades
    BY <2>2, ContainsEnds DEF Fades, PlaceInv, SessionType, FlowType
  <2> QED
    BY <2>1, <2>2, <2>3, Fading DEF Goal
<1>10. CASE LinkLost
  <2>1. ~FrameArrives /\ ~FrameRejected
    BY <1>10, FramesPop DEF LinkLost
  <2>2. upstream' = <<>> /\ UNCHANGED <<chain, failed, texts>>
    BY <1>10 DEF LinkLost, sendVars
  <2>3. Fades
    BY <2>2, EmptyIn DEF Fades, PlaceInv
  <2> QED
    BY <2>1, <2>2, <2>3, Fading DEF Goal
<1>11. CASE Reconnect
  BY <1>11, <1>a DEF Reconnect, sendVars, gwVars
<1>12. CASE RecoverSession
  BY <1>12, <1>a DEF RecoverSession, sendVars, gwVars
<1>13. CASE FrameArrives
  <2>1. ~FrameRejected
    BY <1>13, NotBoth
  <2>2. UNCHANGED <<chain, failed, texts>>
    BY <1>13 DEF FrameArrives, sendVars
  <2>3. NumberInv'
    BY <1>13, <1>b, <1>e, <1>f, <1>g, <2>1, <2>2 DEF NumberInv, Travels, Failing
  <2>4. PlaceInv'
    BY <1>13, <1>b, <1>c, <1>e, <1>f, <1>g, <2>1, <2>2 DEF PlaceInv, Travels, Failing
  <2> QED
    BY <2>3, <2>4 DEF Goal
<1>14. CASE FrameRejected
  <2>1. ~FrameArrives
    BY <1>14, NotBoth
  <2>2. UNCHANGED <<chain, failed, texts>>
    BY <1>14 DEF FrameRejected, sendVars
  <2>3. NumberInv'
    BY <1>14, <1>b, <1>e, <1>f, <1>g, <2>1, <2>2 DEF NumberInv, Travels, Failing
  <2>4. PlaceInv'
    BY <1>14, <1>b, <1>c, <1>e, <1>f, <1>g, <2>1, <2>2 DEF PlaceInv, Travels, Failing
  <2> QED
    BY <2>3, <2>4 DEF Goal
<1>15. ASSUME NEW s \in Sessions, TurnStarts(s) PROVE Goal
  BY <1>15, <1>a DEF TurnStarts, sendVars, gwVars
<1>16. ASSUME NEW s \in Sessions, TurnSteered(s) PROVE Goal
  BY <1>16, <1>a DEF TurnSteered, sendVars, gwVars
<1>17. ASSUME NEW s \in Sessions, TurnAsks(s) PROVE Goal
  BY <1>17, <1>a DEF TurnAsks, sendVars, gwVars
<1>18. ASSUME NEW s \in Sessions, TurnEnds(s) PROVE Goal
  BY <1>18, <1>a DEF TurnEnds, sendVars, gwVars
<1>19. CASE SyncSession
  BY <1>19, <1>a DEF SyncSession, sendVars, gwVars, outside
<1>20. CASE ForeignEvent
  BY <1>20, <1>a DEF ForeignEvent, sendVars, gwVars, outside
<1>21. CASE TurnStarted
  BY <1>21, <1>a DEF TurnStarted, sendVars, gwVars, outside
<1>22. CASE UserMessageAccepted
  BY <1>22, <1>a DEF UserMessageAccepted, sendVars, gwVars, outside
<1>23. CASE Done
  BY <1>23, <1>a DEF Done, sendVars, gwVars, outside
<1>24. CASE Interrupted
  BY <1>24, <1>a DEF Interrupted, sendVars, gwVars, outside
<1>25. CASE Ask
  BY <1>25, <1>a DEF Ask, sendVars, gwVars, outside
<1>26. CASE Error
  BY <1>26, <1>a DEF Error, sendVars, gwVars, outside
<1>27. CASE UNCHANGED vars
  BY <1>27, <1>a DEF sendVars, gwVars, vars
<1> QED
  BY <1>1, <1>2, <1>3, <1>4, <1>5, <1>6, <1>7, <1>8, <1>9, <1>10, <1>11, <1>12, <1>13, <1>14,
     <1>15, <1>16, <1>17, <1>18, <1>19, <1>20, <1>21, <1>22, <1>23, <1>24, <1>25, <1>26, <1>27,
     SessionSplit

-----------------------------------------------------------------------------
(* What is shown *)

\* A snapshot on the way tells of accepted messages only.
SnapshotInv ==
    \A e : Contains(wire, e) /\ e.kind = "sync" =>
        \A r \in e.accepted : Contains(srv[e.of].accepted, r)

LEMMA WireEvents ==
  ASSUME SessionType, NEW e, Contains(wire, e)
  PROVE  e \in TuiEvents
BY DEF SessionType, FlowType, Contains

LEMMA SnapshotKept ==
  ASSUME SessionType, [Next]_vars, SnapshotInv
  PROVE  SnapshotInv'
<1> SUFFICES ASSUME NEW e, Contains(wire', e), e.kind = "sync", NEW r \in e.accepted
             PROVE  Contains(srv'[e.of].accepted, r)
  BY DEF SnapshotInv
<1>1. CASE Contains(wire, e)
  <2>1. e.of \in Sessions
    BY <1>1, WireEvents, EventFields
  <2>2. Contains(srv[e.of].accepted, r)
    BY <1>1 DEF SnapshotInv
  <2> QED
    BY <2>1, <2>2, GatewaySteps
<1>2. CASE ~Contains(wire, e)
  <2>1. Brings(e)
    BY <1>2, WireSteps
  <2>2. srv' = srv /\ \E s \in Sessions : e = Snapshot(s)
    BY <2>1 DEF Brings
  <2>3. PICK s \in Sessions : e = Snapshot(s)
    BY <2>2
  <2>4. e.of = s /\ e.accepted = ToSet(srv[s].accepted)
    BY <2>3 DEF Snapshot
  <2>5. srv[s].accepted \in Seq(Nat)
    BY ServerFields DEF SessionType, ServerType
  <2>6. Contains(srv[s].accepted, r)
    BY <2>4, <2>5 DEF ToSet, Contains
  <2> QED
    BY <2>2, <2>4, <2>6
<1> QED
  BY <1>1, <1>2

\* A message in the history is neither pending nor there twice.
Told(r) == <<r, "user">> \in cells \/ <<r, "discarded">> \in cells
ToldInv ==
    /\ cells \subseteq Nat \X {"user", "discarded"} /\ pending \subseteq ByUser
    /\ \A r : ~(<<r, "user">> \in cells /\ <<r, "discarded">> \in cells)
    /\ \A r : Told(r) => r \notin pending /\ (r \in Messages => r \in ByUser)

\* What one step does to the queue and the history: nothing, some of the queue goes to
\* the history, or the history starts anew from what the gateway has accepted.
Vanish == cells' = cells /\ pending' \subseteq pending
Settle == \E R \in SUBSET pending, k \in {"user", "discarded"} :
             pending' = pending \ R /\ cells' = cells \cup Bubbles(R, k)
Renew == \E R \in SUBSET Nat :
            /\ pending' = {} /\ cells' = Bubbles(R, "user")
            /\ \A r \in R : AtGateway(r)
Queues(n) == n \in Messages \ ByUser /\ cells' = cells /\ pending' = pending \cup {n}

LEMMA BubblesAre ==
  ASSUME NEW R, NEW k
  PROVE  \A r, j : <<r, j>> \in Bubbles(R, k) <=> r \in R /\ j = k
BY DEF Bubbles

LEMMA CellsType ==
  ASSUME NEW R \in SUBSET Nat, NEW k \in {"user", "discarded"}
  PROVE  Bubbles(R, k) \subseteq Nat \X {"user", "discarded"}
BY DEF Bubbles

LEMMA ToldKept ==
  ASSUME ToldInv, NumberInv, Messages' = Messages, ByUser \subseteq ByUser', ByUser \subseteq Nat,
         \/ Vanish \/ Settle \/ Renew
         \/ \E n \in ByUser' : Queues(n)
  PROVE  /\ ToldInv'
         /\ \A r : Told(r)' => Told(r) \/ r \in pending \/ AtGateway(r)
<1>1. CASE Vanish
  BY <1>1 DEF ToldInv, Told, Vanish
<1>2. CASE \E n \in ByUser' : Queues(n)
  BY <1>2 DEF ToldInv, Told, Queues
<1>3. CASE Settle
  <2>1. PICK R \in SUBSET pending, k \in {"user", "discarded"} :
           pending' = pending \ R /\ cells' = cells \cup Bubbles(R, k)
    BY <1>3 DEF Settle
  <2>2. R \in SUBSET Nat
    BY <2>1 DEF ToldInv
  <2>3. Bubbles(R, k) \subseteq Nat \X {"user", "discarded"}
    BY <2>2, CellsType
  <2>4. \A r, j : <<r, j>> \in cells' <=> <<r, j>> \in cells \/ (r \in R /\ j = k)
    BY <2>1, BubblesAre
  <2>5. \A r : Told(r)' <=> Told(r) \/ r \in R
    BY <2>4 DEF Told
  <2>6. \A r \in R : <<r, "user">> \notin cells /\ <<r, "discarded">> \notin cells
    BY <2>1 DEF ToldInv, Told
  <2>7. cells' \subseteq Nat \X {"user", "discarded"} /\ pending' \subseteq ByUser'
    BY <2>1, <2>3 DEF ToldInv
  <2>8. \A r : ~(<<r, "user">> \in cells' /\ <<r, "discarded">> \in cells')
    <3> SUFFICES ASSUME NEW r, <<r, "user">> \in cells', <<r, "discarded">> \in cells'
                 PROVE  FALSE
      OBVIOUS
    <3>1. r \in R
      BY <2>4 DEF ToldInv
    <3>2. "user" = k /\ "discarded" = k
      BY <2>4, <2>6, <3>1
    <3> QED
      BY <3>2
  <2>9. \A r : Told(r)' => r \notin pending' /\ (r \in Messages => r \in ByUser')
    BY <2>1, <2>5 DEF ToldInv
  <2> QED
    BY <2>5, <2>7, <2>8, <2>9 DEF ToldInv
<1>4. CASE Renew
  <2>1. PICK R \in SUBSET Nat : /\ pending' = {} /\ cells' = Bubbles(R, "user")
                                /\ \A r \in R : AtGateway(r)
    BY <1>4 DEF Renew
  <2>2. \A r, j : <<r, j>> \in cells' <=> r \in R /\ j = "user"
    BY <2>1, BubblesAre
  <2>3. \A r : Told(r)' <=> r \in R
    BY <2>2 DEF Told
  <2>4. cells' \subseteq Nat \X {"user", "discarded"} /\ pending' \subseteq ByUser'
    BY <2>1, CellsType
  <2>5. \A r : Told(r)' => r \notin pending' /\ (r \in Messages => r \in ByUser')
    BY <2>1, <2>3 DEF NumberInv
  <2> QED
    BY <2>1, <2>2, <2>3, <2>4, <2>5 DEF ToldInv
<1> QED
  BY <1>1, <1>2, <1>3, <1>4

-----------------------------------------------------------------------------
(* What a message carries *)
Single(q) == \A i, j \in 1..Len(q) : q[i] = q[j] => i = j
Apart(p, q) == \A t : ~(Contains(p, t) /\ Contains(q, t))
Keeps(r) == r \in pending \/ Travels(r) \/ AtGateway(r) \/ Told(r)

\* The texts of the messages on their way, waiting or told, and that of the composer, have
\* nothing in common.
DraftInv == Single(draft) /\ \A t : Contains(draft, t) => t \in ByUser
CarryInv == \A r \in ByUser : Single(texts[r]) /\ \A t : Contains(texts[r], t) => t \in ByUser
HolderInv ==
    /\ \A r \in ByUser : Keeps(r) => Apart(texts[r], draft)
    /\ \A r, q \in ByUser : Keeps(r) /\ Keeps(q) /\ r # q => Apart(texts[r], texts[q])
TextInv == DraftInv /\ CarryInv /\ HolderInv

LEMMA OneText ==
  ASSUME NEW n
  PROVE  Single(<<n>>) /\ \A t : Contains(<<n>>, t) <=> t = n
<1>1. Len(<<n>>) = 1 /\ <<n>>[1] = n /\ 1..1 = {1}
  OBVIOUS
<1> QED
  BY <1>1 DEF Single, Contains

LEMMA NoText == Single(<<>>) /\ \A t : ~Contains(<<>>, t)
<1>1. Len(<<>>) = 0 /\ 1..0 = {}
  OBVIOUS
<1> QED
  BY <1>1 DEF Single, Contains

LEMMA JoinText ==
  ASSUME NEW p \in Seq(Nat), NEW q \in Seq(Nat)
  PROVE  /\ \A t : Contains(p \o q, t) <=> Contains(p, t) \/ Contains(q, t)
         /\ Single(p) /\ Single(q) /\ Apart(p, q) => Single(p \o q)
<1>1. /\ Len(p) \in Nat /\ Len(q) \in Nat /\ Len(p \o q) = Len(p) + Len(q)
      /\ \A i \in 1..Len(p) : (p \o q)[i] = p[i]
      /\ \A i \in (Len(p) + 1)..(Len(p) + Len(q)) : (p \o q)[i] = q[i - Len(p)]
  OBVIOUS
<1>2. \A i \in 1..(Len(p) + Len(q)) : \/ i \in 1..Len(p)
                                      \/ /\ i \in (Len(p) + 1)..(Len(p) + Len(q))
                                         /\ i - Len(p) \in 1..Len(q)
  BY <1>1
<1>3. \A i \in 1..Len(p) : i \in 1..(Len(p) + Len(q))
  BY <1>1
<1>4. \A i \in 1..Len(q) : /\ i + Len(p) \in (Len(p) + 1)..(Len(p) + Len(q))
                           /\ i + Len(p) \in 1..(Len(p) + Len(q))
                           /\ (i + Len(p)) - Len(p) = i
  BY <1>1
<1>5. ASSUME NEW t PROVE Contains(p \o q, t) <=> Contains(p, t) \/ Contains(q, t)
  <2>1. Contains(p \o q, t) => Contains(p, t) \/ Contains(q, t)
    BY <1>1, <1>2 DEF Contains
  <2>2. Contains(p, t) => Contains(p \o q, t)
    BY <1>1, <1>3 DEF Contains
  <2>3. Contains(q, t) => Contains(p \o q, t)
    <3> SUFFICES ASSUME NEW i \in 1..Len(q), q[i] = t PROVE Contains(p \o q, t)
      BY DEF Contains
    <3>1. (p \o q)[i + Len(p)] = t
      BY <1>1, <1>4
    <3> QED
      BY <1>1, <1>4, <3>1 DEF Contains
  <2> QED
    BY <2>1, <2>2, <2>3
<1>6. ASSUME Single(p), Single(q), Apart(p, q) PROVE Single(p \o q)
  <2> SUFFICES ASSUME NEW i \in 1..(Len(p) + Len(q)), NEW j \in 1..(Len(p) + Len(q)),
                      (p \o q)[i] = (p \o q)[j]
               PROVE  i = j
    BY <1>1 DEF Single
  <2>1. CASE i \in 1..Len(p) /\ j \in 1..Len(p)
    BY <1>1, <1>6, <2>1 DEF Single
  <2>2. CASE i \in 1..Len(p) /\ j \notin 1..Len(p)
    BY <1>1, <1>2, <1>6, <2>2 DEF Apart, Contains
  <2>3. CASE i \notin 1..Len(p) /\ j \in 1..Len(p)
    BY <1>1, <1>2, <1>6, <2>3 DEF Apart, Contains
  <2>4. CASE i \notin 1..Len(p) /\ j \notin 1..Len(p)
    <3>1. i - Len(p) \in 1..Len(q) /\ j - Len(p) \in 1..Len(q) /\ q[i - Len(p)] = q[j - Len(p)]
      BY <1>1, <1>2, <2>4
    <3>2. i - Len(p) = j - Len(p)
      BY <1>6, <3>1 DEF Single
    <3> QED
      BY <1>1, <3>2
  <2> QED
    BY <2>1, <2>2, <2>3, <2>4
<1> QED
  BY <1>5, <1>6

\* A step that starts no message and leaves the composer alone.
LEMMA TextKept ==
  ASSUME TextInv, texts' = texts, draft' = draft, ByUser' = ByUser,
         \A r \in ByUser : Keeps(r)' => Keeps(r)
  PROVE  TextInv'
BY DEF TextInv, DraftInv, CarryInv, HolderInv

\* A message that is on its way nowhere comes back to the composer.
LEMMA TextRestored ==
  ASSUME TextInv, texts' = texts, ByUser' = ByUser, draft \in Seq(Nat),
         NEW r \in ByUser, texts[r] \in Seq(Nat), draft' = draft \o texts[r],
         Keeps(r), ~(Keeps(r)'),
         \A q \in ByUser : Keeps(q)' => Keeps(q)
  PROVE  TextInv'
<1>1. \A t : Contains(draft', t) <=> Contains(draft, t) \/ Contains(texts[r], t)
  BY JoinText
<1>2. Apart(draft, texts[r])
  BY DEF TextInv, HolderInv, Apart
<1>3. Single(draft')
  BY <1>2, JoinText DEF TextInv, DraftInv, CarryInv
<1>4. DraftInv' /\ CarryInv'
  BY <1>1, <1>3 DEF TextInv, DraftInv, CarryInv
<1>5. ASSUME NEW q \in ByUser, Keeps(q)' PROVE Apart(texts[q], draft')
  <2>1. Keeps(q) /\ q # r
    BY <1>5
  <2>2. Apart(texts[q], draft) /\ Apart(texts[q], texts[r])
    BY <2>1 DEF TextInv, HolderInv
  <2> QED
    BY <1>1, <2>2 DEF Apart
<1>6. HolderInv'
  BY <1>5 DEF TextInv, HolderInv
<1> QED
  BY <1>4, <1>6 DEF TextInv

\* A new message takes the composer's text with it, or a text of its own.
LEMMA TextSubmitted ==
  ASSUME TextInv, SessionType, NEW n, n = Sends + 1, ~Keeps(n),
         NEW text \in Seq(Nat), text = IF draft = <<>> THEN <<n>> ELSE draft,
         texts' = Append(texts, text),
         \/ draft' = text /\ ~(Keeps(n)')
         \/ draft' = <<>>,
         \A q \in ByUser : Keeps(q)' => Keeps(q)
  PROVE  TextInv'
<1>1. /\ Sends \in Nat /\ n \in Nat /\ n \notin ByUser /\ ByUser' = ByUser \cup {n}
      /\ texts'[n] = text /\ \A r \in ByUser : texts'[r] = texts[r]
  BY DEF SessionType, ScreenType, Sends, ByUser
<1>2. Single(text) /\ \A t : Contains(text, t) => t \in ByUser'
  BY <1>1, OneText DEF TextInv, DraftInv
<1>3. \A r \in ByUser : Keeps(r) => Apart(texts[r], text)
  <2>1. CASE draft = <<>>
    BY <1>1, <2>1, OneText DEF TextInv, CarryInv, Apart
  <2>2. CASE draft # <<>>
    BY <2>2 DEF TextInv, HolderInv
  <2> QED
    BY <2>1, <2>2
<1>4. DraftInv'
  BY <1>1, <1>2, NoText DEF DraftInv
<1>5. CarryInv'
  BY <1>1, <1>2 DEF TextInv, CarryInv
<1>6. ASSUME NEW r \in ByUser', Keeps(r)' PROVE Apart(texts'[r], draft')
  <2>1. CASE r = n
    BY <1>6, <2>1, NoText DEF Apart
  <2>2. CASE r # n
    <3>1. r \in ByUser /\ Keeps(r) /\ texts'[r] = texts[r]
      BY <1>1, <1>6, <2>2
    <3>2. Apart(texts[r], text) /\ Apart(texts[r], <<>>)
      BY <1>3, <3>1, NoText DEF Apart
    <3> QED
      BY <3>1, <3>2
  <2> QED
    BY <2>1, <2>2
<1>7. ASSUME NEW r \in ByUser', NEW q \in ByUser', Keeps(r)', Keeps(q)', r # q
      PROVE  Apart(texts'[r], texts'[q])
  <2>1. CASE r # n /\ q # n
    BY <1>1, <1>7, <2>1 DEF TextInv, HolderInv
  <2>2. CASE r = n
    <3>1. q \in ByUser /\ Keeps(q)
      BY <1>1, <1>7, <2>2
    <3> QED
      BY <1>1, <1>3, <2>2, <3>1 DEF Apart
  <2>3. CASE q = n
    <3>1. r \in ByUser /\ Keeps(r)
      BY <1>1, <1>7, <2>3
    <3> QED
      BY <1>1, <1>3, <2>3, <3>1 DEF Apart
  <2> QED
    BY <2>1, <2>2, <2>3
<1>8. HolderInv'
  BY <1>6, <1>7 DEF HolderInv
<1> QED
  BY <1>4, <1>5, <1>8 DEF TextInv

-----------------------------------------------------------------------------
\* Only a new message enters the chain, and only what is in the chain the connection.
LEMMA TravelSteps ==
  ASSUME SessionType, [Next]_vars, NEW r \in Messages, Travels(r)'
  PROVE  Travels(r) \/ (Submit /\ r = Sends + 1)
<1> DEFINE Goal == Travels(r)' => Travels(r) \/ (Submit /\ r = Sends + 1)
<1> SUFFICES Goal
  OBVIOUS
<1>a. ASSUME chain' = chain, upstream' = upstream PROVE Goal
  BY <1>a DEF Travels
<1>b. ASSUME chain # <<>>, chain' = Tail(chain), upstream' = upstream PROVE Goal
  <2>1. In(chain', r) => In(chain, r)
    BY <1>b, TailIn DEF SessionType, FlowType
  <2> QED
    BY <1>b, <2>1 DEF Travels
<1>c. ASSUME upstream # <<>>, upstream' = Tail(upstream), chain' = chain PROVE Goal
  <2>1. In(upstream', r) => In(upstream, r)
    BY <1>c, TailIn DEF SessionType, FlowType
  <2> QED
    BY <1>c, <2>1 DEF Travels
<1>d. ASSUME NEW f \in Items, chain' = Append(chain, f), upstream' = upstream,
             f.req = r => Submit /\ r = Sends + 1
      PROVE  Goal
  <2>1. In(chain', r) <=> In(chain, r) \/ f.req = r
    BY <1>d, AppendIn DEF SessionType, FlowType
  <2> QED
    BY <1>d, <2>1 DEF Travels
<1> HIDE DEF Goal
<1>1. CASE Submit
  <2> DEFINE n == Sends + 1
             item == [req |-> n, to |-> shown, conn |-> conn, ask |-> NoAsk]
  <2>1. upstream' = upstream /\ chain' \in {chain, Append(chain, item)}
    BY <1>1 DEF Submit, gwVars
  <2>2. n \in Nat /\ NoAsk \in 0..MaxAsks
    BY DEF NoAsk, SessionType, ScreenType, Sends, SessionConstants
  <2> HIDE DEF n
  <2>3. item \in Items /\ item.req = n
    BY <2>2, ItemIn
  <2> HIDE DEF item
  <2> QED
    BY <1>1, <1>a, <1>d, <2>1, <2>3 DEF n
<1>2. CASE AnswerAsk
  <2> DEFINE a == Head(panels)
             item == [req |-> Reply(a), to |-> shown, conn |-> conn, ask |-> a]
  <2>1. upstream' = upstream /\ chain' \in {chain, Append(chain, item)}
    BY <1>2 DEF AnswerAsk, gwVars
  <2>2. a \in 1..MaxAsks
    BY <1>2, QueueEnds DEF AnswerAsk, SessionType, ScreenType
  <2> HIDE DEF a
  <2>3. Reply(a) \in Nat /\ Reply(a) \notin Messages /\ a \in 0..MaxAsks
    BY <2>2, Numbers DEF Reply, Messages, SessionConstants
  <2>4. item \in Items /\ item.req \notin Messages
    BY <2>3, ItemIn
  <2> HIDE DEF item
  <2> QED
    BY <1>a, <1>d, <2>1, <2>4
<1>3. CASE ClearChat
  BY <1>3, <1>a DEF ClearChat, sendVars, gwVars
<1>4. CASE Interrupt
  BY <1>4, <1>a DEF Interrupt, sendVars, gwVars
<1>5. ASSUME NEW s \in Sessions, NEW yes \in BOOLEAN, NEW no \in BOOLEAN, SwitchTo(s, yes, no)
      PROVE  Goal
  BY <1>5, <1>a DEF SwitchTo, sendVars, gwVars
<1>6. CASE SendHead
  <2>1. chain # <<>> /\ chain' = Tail(chain) /\ upstream' = Append(upstream, Head(chain))
    BY <1>6 DEF SendHead
  <2>2. Head(chain) \in Items
    BY <2>1, QueueEnds DEF SessionType, FlowType
  <2>3. In(upstream', r) <=> In(upstream, r) \/ Head(chain).req = r
    BY <2>1, <2>2, AppendIn DEF SessionType, FlowType
  <2>4. In(chain, Head(chain).req) /\ (In(chain', r) => In(chain, r))
    BY <2>1, TailIn DEF SessionType, FlowType
  <2> QED
    BY <2>3, <2>4 DEF Goal, Travels
<1>7. CASE SendIntoDeadLink
  BY <1>7, <1>b DEF SendIntoDeadLink, gwVars
<1>8. CASE SendFails
  BY <1>8, <1>b DEF SendFails, gwVars
<1>9. CASE RestoreFailedSend
  BY <1>9, <1>a DEF RestoreFailedSend, gwVars
<1>10. CASE LinkLost
  BY <1>10, EmptyIn DEF LinkLost, sendVars, Goal, Travels
<1>11. CASE Reconnect
  BY <1>11, <1>a DEF Reconnect, sendVars, gwVars
<1>12. CASE RecoverSession
  BY <1>12, <1>a DEF RecoverSession, sendVars, gwVars
<1>13. CASE FrameArrives
  BY <1>13, <1>c DEF FrameArrives, sendVars
<1>14. CASE FrameRejected
  BY <1>14, <1>c DEF FrameRejected, sendVars
<1>15. ASSUME NEW s \in Sessions, TurnStarts(s) PROVE Goal
  BY <1>15, <1>a DEF TurnStarts, sendVars, gwVars
<1>16. ASSUME NEW s \in Sessions, TurnSteered(s) PROVE Goal
  BY <1>16, <1>a DEF TurnSteered, sendVars, gwVars
<1>17. ASSUME NEW s \in Sessions, TurnAsks(s) PROVE Goal
  BY <1>17, <1>a DEF TurnAsks, sendVars, gwVars
<1>18. ASSUME NEW s \in Sessions, TurnEnds(s) PROVE Goal
  BY <1>18, <1>a DEF TurnEnds, sendVars, gwVars
<1>19. CASE SyncSession
  BY <1>19, <1>a DEF SyncSession, sendVars, gwVars, outside
<1>20. CASE ForeignEvent
  BY <1>20, <1>a DEF ForeignEvent, sendVars, gwVars, outside
<1>21. CASE TurnStarted
  BY <1>21, <1>a DEF TurnStarted, sendVars, gwVars, outside
<1>22. CASE UserMessageAccepted
  BY <1>22, <1>a DEF UserMessageAccepted, sendVars, gwVars, outside
<1>23. CASE Done
  BY <1>23, <1>a DEF Done, sendVars, gwVars, outside
<1>24. CASE Interrupted
  BY <1>24, <1>a DEF Interrupted, sendVars, gwVars, outside
<1>25. CASE Ask
  BY <1>25, <1>a DEF Ask, sendVars, gwVars, outside
<1>26. CASE Error
  BY <1>26, <1>a DEF Error, sendVars, gwVars, outside
<1>27. CASE UNCHANGED vars
  BY <1>27, <1>a DEF sendVars, gwVars, vars
<1> QED
  BY <1>1, <1>2, <1>3, <1>4, <1>5, <1>6, <1>7, <1>8, <1>9, <1>10, <1>11, <1>12, <1>13, <1>14,
     <1>15, <1>16, <1>17, <1>18, <1>19, <1>20, <1>21, <1>22, <1>23, <1>24, <1>25, <1>26, <1>27,
     SessionSplit

LEMMA UnderwaySteps ==
  ASSUME SessionType, [Next]_vars, NEW r \in Messages, Travels(r)' \/ AtGateway(r)'
  PROVE  Travels(r) \/ AtGateway(r) \/ (Submit /\ r = Sends + 1)
<1>1. CASE Travels(r)'
  BY <1>1, TravelSteps
<1>2. CASE AtGateway(r)'
  <2>1. AtGateway(r) \/ (FrameArrives /\ Head(upstream).req = r)
    BY <1>2, GatewaySteps DEF AtGateway
  <2>2. FrameArrives => In(upstream, Head(upstream).req)
    BY TailIn, FramesPop DEF SessionType, FlowType
  <2> QED
    BY <2>1, <2>2 DEF Travels
<1> QED
  BY <1>1, <1>2

\* What each action does to the history.
LEMMA CellSteps ==
  ASSUME SessionType, [Next]_vars, SnapshotInv, ToldInv
  PROVE  \/ Vanish \/ Settle \/ Renew
         \/ Submit /\ cells' = cells /\ pending' = pending \cup {Sends + 1}
<1> DEFINE Goal == \/ Vanish \/ Settle \/ Renew
                   \/ Submit /\ cells' = cells /\ pending' = pending \cup {Sends + 1}
<1> SUFFICES Goal
  OBVIOUS
<1>a. ASSUME cells' = cells, pending' \subseteq pending PROVE Goal
  BY <1>a DEF Vanish
<1> HIDE DEF Goal
<1>1. CASE Submit
  <2>1. cells' = cells /\ pending' \in {pending, pending \cup {Sends + 1}}
    BY <1>1 DEF Submit
  <2> QED
    BY <1>1, <2>1, <1>a DEF Goal
<1>2. CASE AnswerAsk
  BY <1>2, <1>a DEF AnswerAsk, Refill
<1>3. CASE ClearChat
  <2>1. pending' = {} /\ cells' = Bubbles({}, "user")
    BY <1>3 DEF ClearChat, Bubbles
  <2> QED
    BY <2>1 DEF Goal, Renew
<1>4. CASE Interrupt
  BY <1>4, <1>a DEF Interrupt, Refill, appVars
<1>5. ASSUME NEW s \in Sessions, NEW yes \in BOOLEAN, NEW no \in BOOLEAN, SwitchTo(s, yes, no)
      PROVE  Goal
  BY <1>5, <1>a DEF SwitchTo, Refill, appVars
<1>6. CASE SendHead
  BY <1>6, <1>a DEF SendHead, Refill, appVars
<1>7. CASE SendIntoDeadLink
  BY <1>7, <1>a DEF SendIntoDeadLink, Refill, appVars
<1>8. CASE SendFails
  BY <1>8, <1>a DEF SendFails, Refill, appVars
<1>9. CASE RestoreFailedSend
  BY <1>9, <1>a DEF RestoreFailedSend, Refill
<1>10. CASE LinkLost
  BY <1>10, <1>a DEF LinkLost, Refill, appVars
<1>11. CASE Reconnect
  BY <1>11, <1>a DEF Reconnect, Refill, appVars
<1>12. CASE RecoverSession
  BY <1>12, <1>a DEF RecoverSession, Refill, appVars
<1>13. CASE FrameArrives
  BY <1>13, <1>a DEF FrameArrives, Refill, appVars
<1>14. CASE FrameRejected
  BY <1>14, <1>a DEF FrameRejected, Refill, appVars
<1>15. ASSUME NEW s \in Sessions, TurnStarts(s) PROVE Goal
  BY <1>15, <1>a DEF TurnStarts, Refill, appVars
<1>16. ASSUME NEW s \in Sessions, TurnSteered(s) PROVE Goal
  BY <1>16, <1>a DEF TurnSteered, Refill, appVars
<1>17. ASSUME NEW s \in Sessions, TurnAsks(s) PROVE Goal
  BY <1>17, <1>a DEF TurnAsks, Refill, appVars
<1>18. ASSUME NEW s \in Sessions, TurnEnds(s) PROVE Goal
  BY <1>18, <1>a DEF TurnEnds, Refill, appVars
<1>19. CASE SyncSession
  <2>1. wire # <<>> /\ Event.kind = "sync" /\ Event = Head(wire)
        /\ pending' = {} /\ cells' = Bubbles(Event.accepted, "user")
    BY <1>19 DEF SyncSession, Receive, Event
  <2>2. Contains(wire, Event) /\ Event \in TuiEvents
    BY <2>1, ContainsEnds, QueueEnds DEF SessionType, FlowType
  <2>3. Event.of \in Sessions /\ Event.accepted \subseteq Nat
    BY <2>1, <2>2, EventFields
  <2>4. \A r \in Event.accepted : AtGateway(r)
    BY <2>1, <2>2, <2>3 DEF SnapshotInv, AtGateway
  <2> QED
    BY <2>1, <2>3, <2>4 DEF Goal, Renew
<1>20. CASE ForeignEvent
  BY <1>20, <1>a DEF ForeignEvent, Refill, appVars, outside
<1>21. CASE TurnStarted
  BY <1>21, <1>a DEF TurnStarted, Refill, outside
<1>22. CASE UserMessageAccepted
  <2> DEFINE R == pending \cap {Event.req}
  <2>1. pending' = pending \ R /\ cells' = cells \cup Bubbles(R, "user")
    BY <1>22 DEF UserMessageAccepted
  <2> QED
    BY <2>1 DEF Goal, Settle
<1>23. CASE Done
  <2>1. pending' = pending \ pending /\ cells' = cells \cup Bubbles(pending, "user")
    BY <1>23 DEF Done
  <2> QED
    BY <2>1 DEF Goal, Settle
<1>24. CASE Interrupted
  <2> DEFINE R == pending \cap Event.dropped
  <2>1. pending' = pending \ R /\ cells' = cells \cup Bubbles(R, "discarded")
    BY <1>24 DEF Interrupted
  <2> QED
    BY <2>1 DEF Goal, Settle
<1>25. CASE Ask
  BY <1>25, <1>a DEF Ask, Refill, outside
<1>26. CASE Error
  BY <1>26, <1>a DEF Error, Refill, outside
<1>27. CASE UNCHANGED vars
  BY <1>27, <1>a DEF Refill, appVars, vars, outside
<1> QED
  BY <1>1, <1>2, <1>3, <1>4, <1>5, <1>6, <1>7, <1>8, <1>9, <1>10, <1>11, <1>12, <1>13, <1>14,
     <1>15, <1>16, <1>17, <1>18, <1>19, <1>20, <1>21, <1>22, <1>23, <1>24, <1>25, <1>26, <1>27,
     SessionSplit

\* What each action does to the composer.
Restores(r) == Refill(r) /\ Failing(r) /\ cells' = cells /\ texts' = texts
               /\ upstream' = upstream
LEMMA DraftSteps ==
  ASSUME SessionType, [Next]_vars
  PROVE  \/ draft' = draft /\ texts' = texts
         \/ Submit
         \/ \E r \in Nat : Restores(r)
<1> DEFINE Goal == \/ draft' = draft /\ texts' = texts
                   \/ Submit
                   \/ \E r \in Nat : Restores(r)
<1> SUFFICES Goal
  OBVIOUS
<1>a. ASSUME draft' = draft, texts' = texts PROVE Goal
  BY <1>a
<1> HIDE DEF Goal
<1>1. CASE Submit
  BY <1>1 DEF Goal
<1>2. CASE AnswerAsk
  BY <1>2, <1>a DEF AnswerAsk
<1>3. CASE ClearChat
  BY <1>3, <1>a DEF ClearChat
<1>4. CASE Interrupt
  BY <1>4, <1>a DEF Interrupt, appVars
<1>5. ASSUME NEW s \in Sessions, NEW yes \in BOOLEAN, NEW no \in BOOLEAN, SwitchTo(s, yes, no)
      PROVE  Goal
  BY <1>5, <1>a DEF SwitchTo, appVars
<1>6. CASE SendHead
  BY <1>6, <1>a DEF SendHead, appVars
<1>7. CASE SendIntoDeadLink
  BY <1>7, <1>a DEF SendIntoDeadLink, appVars
<1>8. CASE SendFails
  BY <1>8, <1>a DEF SendFails, appVars
<1>9. CASE RestoreFailedSend
  <2>1. failed # <<>> /\ Refill(Head(failed)) /\ cells' = cells /\ texts' = texts
        /\ upstream' = upstream
    BY <1>9 DEF RestoreFailedSend, gwVars
  <2>2. Head(failed) \in Nat /\ Contains(failed, Head(failed))
    BY <2>1, QueueEnds, ContainsEnds DEF SessionType, FlowType
  <2> QED
    BY <2>1, <2>2 DEF Goal, Restores, Failing
<1>10. CASE LinkLost
  BY <1>10, <1>a DEF LinkLost, appVars
<1>11. CASE Reconnect
  BY <1>11, <1>a DEF Reconnect, appVars
<1>12. CASE RecoverSession
  BY <1>12, <1>a DEF RecoverSession, appVars
<1>13. CASE FrameArrives
  BY <1>13, <1>a DEF FrameArrives, appVars
<1>14. CASE FrameRejected
  BY <1>14, <1>a DEF FrameRejected, appVars
<1>15. ASSUME NEW s \in Sessions, TurnStarts(s) PROVE Goal
  BY <1>15, <1>a DEF TurnStarts, appVars
<1>16. ASSUME NEW s \in Sessions, TurnSteered(s) PROVE Goal
  BY <1>16, <1>a DEF TurnSteered, appVars
<1>17. ASSUME NEW s \in Sessions, TurnAsks(s) PROVE Goal
  BY <1>17, <1>a DEF TurnAsks, appVars
<1>18. ASSUME NEW s \in Sessions, TurnEnds(s) PROVE Goal
  BY <1>18, <1>a DEF TurnEnds, appVars
<1>19. CASE SyncSession
  BY <1>19, <1>a DEF SyncSession, outside
<1>20. CASE ForeignEvent
  BY <1>20, <1>a DEF ForeignEvent, appVars, outside
<1>21. CASE TurnStarted
  BY <1>21, <1>a DEF TurnStarted, outside
<1>22. CASE UserMessageAccepted
  BY <1>22, <1>a DEF UserMessageAccepted, outside
<1>23. CASE Done
  BY <1>23, <1>a DEF Done, outside
<1>24. CASE Interrupted
  BY <1>24, <1>a DEF Interrupted, outside
<1>25. CASE Ask
  BY <1>25, <1>a DEF Ask, outside
<1>26. CASE Error
  <2>1. wire # <<>> /\ Event.kind = "error" /\ Refill(Event.req) /\ cells' = cells
        /\ texts' = texts /\ upstream' = upstream
    BY <1>26 DEF Error, Receive, outside
  <2>2. Event \in TuiEvents /\ Contains(wire, Event)
    BY <2>1, QueueEnds, ContainsEnds DEF Event, SessionType, FlowType
  <2>3. Event.req \in Nat /\ Rejected(Event.req)
    BY <2>1, <2>2, EventFields DEF Contains, Rejected
  <2> QED
    BY <2>1, <2>3 DEF Goal, Restores, Failing
<1>27. CASE UNCHANGED vars
  BY <1>27, <1>a DEF appVars, vars, outside
<1> QED
  BY <1>1, <1>2, <1>3, <1>4, <1>5, <1>6, <1>7, <1>8, <1>9, <1>10, <1>11, <1>12, <1>13, <1>14,
     <1>15, <1>16, <1>17, <1>18, <1>19, <1>20, <1>21, <1>22, <1>23, <1>24, <1>25, <1>26, <1>27,
     SessionSplit

LEMMA SessionTexts ==
  ASSUME SessionType, [Next]_vars, NumberInv, PlaceInv, SnapshotInv, ToldInv, TextInv
  PROVE  ToldInv' /\ TextInv'
<1>1. /\ Messages' = Messages /\ Sends \in Nat /\ ByUser \subseteq Nat /\ ByUser \subseteq Messages
      /\ (texts' = texts => Sends' = Sends /\ ByUser' = ByUser)
  BY DEF Messages, ByUser, Sends, NumberInv, SessionType, ScreenType, SessionConstants
<1>2. Submit => /\ Sends + 1 \in Messages \ ByUser /\ ByUser' = ByUser \cup {Sends + 1}
                /\ \E text \in Seq(Nat) :
                      /\ text = (IF draft = <<>> THEN <<Sends + 1>> ELSE draft)
                      /\ texts' = Append(texts, text)
                      /\ \/ draft' = text /\ pending' = pending /\ chain' = chain
                         \/ draft' = <<>>
  <2> SUFFICES ASSUME Submit
               PROVE  /\ Sends + 1 \in Messages \ ByUser /\ ByUser' = ByUser \cup {Sends + 1}
                      /\ \E text \in Seq(Nat) :
                            /\ text = (IF draft = <<>> THEN <<Sends + 1>> ELSE draft)
                            /\ texts' = Append(texts, text)
                            /\ \/ draft' = text /\ pending' = pending /\ chain' = chain
                               \/ draft' = <<>>
    OBVIOUS
  <2> DEFINE text == IF draft = <<>> THEN <<Sends + 1>> ELSE draft
  <2>1. /\ Sends < MaxSends /\ texts' = Append(texts, text)
        /\ \/ draft' = text /\ pending' = pending /\ chain' = chain
           \/ draft' = <<>>
    BY DEF Submit
  <2>2. text \in Seq(Nat)
    BY <1>1 DEF SessionType, ScreenType
  <2>3. Sends + 1 \in Messages \ ByUser
    BY <1>1, <2>1, Numbers DEF Messages, ByUser, SessionConstants
  <2> HIDE DEF text
  <2>4. ByUser' = ByUser \cup {Sends + 1}
    BY <1>1, <2>1, <2>2 DEF ByUser, Sends, SessionType, ScreenType
  <2> QED
    BY <2>1, <2>2, <2>3, <2>4 DEF text
<1>3. ~Submit => texts' = texts
  BY DraftSteps DEF Restores
<1>4. ByUser \subseteq ByUser'
  BY <1>1, <1>2, <1>3
<1>5. ToldInv' /\ \A r : Told(r)' => Told(r) \/ r \in pending \/ AtGateway(r)
  <2>1. Vanish \/ Settle \/ Renew \/ \E n \in ByUser' : Queues(n)
    BY CellSteps, <1>2 DEF Queues
  <2> QED
    BY <1>1, <1>4, <2>1, ToldKept
<1>6. pending' \subseteq pending \cup {Sends + 1} /\ (~Submit => pending' \subseteq pending)
  BY CellSteps DEF Vanish, Settle, Renew
<1>7. \A r \in ByUser : Keeps(r)' => Keeps(r)
  <2>1. \A r \in ByUser : r # Sends + 1
    BY <1>1 DEF ByUser
  <2>2. \A r \in ByUser : Travels(r)' \/ AtGateway(r)' => Travels(r) \/ AtGateway(r)
    BY <1>1, <2>1, UnderwaySteps
  <2> QED
    BY <1>5, <1>6, <2>1, <2>2 DEF Keeps
<1>8. CASE Submit
  <2>10. PICK n \in Messages : n = Sends + 1
    BY <1>2, <1>8
  <2>1. n \in Messages \ ByUser
    BY <1>2, <1>8, <2>10
  <2>2. ~Travels(n) /\ ~AtGateway(n) /\ ~Told(n) /\ n \notin pending
    BY <2>1 DEF NumberInv, ToldInv
  <2>3. ~Keeps(n)
    BY <2>2 DEF Keeps
  <2>4. PICK text \in Seq(Nat) :
           /\ text = (IF draft = <<>> THEN <<n>> ELSE draft)
           /\ texts' = Append(texts, text)
           /\ \/ draft' = text /\ pending' = pending /\ chain' = chain
              \/ draft' = <<>>
    BY <1>2, <1>8, <2>10
  <2>5. upstream' = upstream
    BY <1>8 DEF Submit, gwVars
  <2>6. ~FrameArrives
    BY <2>5, FramesPop
  <2>7. ~(AtGateway(n)')
    BY <2>2, <2>6, GatewaySteps DEF AtGateway
  <2>8. ~(Told(n)')
    BY <1>5, <2>2
  <2>9. pending' = pending /\ chain' = chain => ~(Keeps(n)')
    BY <2>2, <2>5, <2>7, <2>8 DEF Keeps, Travels
  <2>11. TextInv'
    BY <1>7, <2>3, <2>4, <2>9, <2>10, TextSubmitted
  <2> QED
    BY <1>5, <2>11
<1>9. CASE \E r \in Nat : Restores(r)
  <2>1. PICK r \in Nat : Restores(r)
    BY <1>9
  <2>2. Refill(r) /\ Failing(r) /\ cells' = cells /\ texts' = texts /\ upstream' = upstream
    BY <2>1 DEF Restores
  <2>3. CASE r \notin pending
    <3>1. draft' = draft
      BY <2>2, <2>3 DEF Refill
    <3> QED
      BY <1>1, <1>5, <1>7, <2>2, <3>1, TextKept
  <2>4. CASE r \in pending
    <3>1. r \in ByUser /\ r \in Messages /\ r # Sends + 1
      BY <1>1, <2>4 DEF ToldInv, ByUser
    <3>2. ~Travels(r) /\ ~AtGateway(r) /\ ~Told(r) /\ Keeps(r)
      BY <2>2, <2>4, <3>1 DEF PlaceInv, ToldInv, Keeps
    <3>3. ~(Travels(r)') /\ ~(AtGateway(r)')
      BY <3>1, <3>2, UnderwaySteps
    <3>4. ~(Told(r)') /\ r \notin pending'
      BY <2>2, <3>2 DEF Told, Refill
    <3>5. ~(Keeps(r)')
      BY <3>3, <3>4 DEF Keeps
    <3>6. draft' = draft \o texts[r]
      BY <2>2, <2>4 DEF Refill
    <3>7. draft \in Seq(Nat) /\ texts[r] \in Seq(Nat)
      BY <3>1 DEF SessionType, ScreenType, ByUser, Sends
    <3>8. TextInv'
      BY <1>1, <1>7, <2>2, <3>1, <3>2, <3>5, <3>6, <3>7, TextRestored
    <3> QED
      BY <1>5, <3>8
  <2> QED
    BY <2>3, <2>4
<1>10. CASE draft' = draft /\ texts' = texts
  BY <1>1, <1>5, <1>7, <1>10, TextKept
<1> QED
  BY <1>8, <1>9, <1>10, DraftSteps

-----------------------------------------------------------------------------
SessionInv == SessionType /\ NumberInv /\ PlaceInv /\ SnapshotInv /\ ToldInv /\ TextInv

LEMMA SessionStarts ==
  ASSUME SessionConstants, Init
  PROVE  SessionInv
<1>1. SessionType
  <2>1. ScreenType
    <3>1. \A S : <<>> \in Seq(S)
      OBVIOUS
    <3> QED
      BY <3>1 DEF Init, ScreenType, SessionConstants
  <2>2. FlowType
    BY DEF Init, FlowType
  <2>3. Idle \in Servers
    BY DEF Servers, Idle, NoAsk, SessionConstants
  <2>4. ServerType
    BY <2>3 DEF Init, ServerType, SessionConstants
  <2> QED
    BY <2>1, <2>2, <2>4 DEF SessionType
<1>2. Sends = 0 /\ ByUser = {} /\ \A s \in Sessions : srv[s] = Idle
  BY DEF Init, Sends, ByUser
<1>3. \A r : ~Travels(r) /\ ~AtGateway(r) /\ ~Failing(r) /\ ~Told(r)
  BY <1>2 DEF Init, Travels, AtGateway, Failing, Rejected, In, Told, Contains, Idle
<1>4. NumberInv /\ PlaceInv
  <2>1. Distinct(chain) /\ Distinct(upstream)
    BY EmptyIn DEF Init
  <2>2. Sends <= MaxSends
    BY <1>2 DEF SessionConstants
  <2>3. NumberInv
    BY <1>3, <2>2 DEF NumberInv
  <2>4. PlaceInv
    BY <1>3, <2>1 DEF PlaceInv, Travels
  <2> QED
    BY <2>3, <2>4
<1>5. SnapshotInv /\ ToldInv
  BY <1>2, <1>3 DEF Init, SnapshotInv, ToldInv, Contains
<1>6. TextInv
  BY <1>2, NoText DEF Init, TextInv, DraftInv, CarryInv, HolderInv
<1> QED
  BY <1>1, <1>4, <1>5, <1>6 DEF SessionInv

LEMMA SessionSteps == SessionInv /\ [Next]_vars => SessionInv'
<1> SUFFICES ASSUME SessionInv, [Next]_vars PROVE SessionInv'
  OBVIOUS
<1>1. pending \subseteq DOMAIN texts
  BY DEF SessionInv, ToldInv, ByUser, Sends, SessionType, ScreenType
<1>2. SessionType'
  BY <1>1, ScreenStep, FlowStep, ServerStep DEF SessionInv, SessionType
<1>3. NumberInv' /\ PlaceInv'
  BY SessionPlaces DEF SessionInv
<1>4. SnapshotInv'
  BY SnapshotKept DEF SessionInv
<1>5. ToldInv' /\ TextInv'
  BY SessionTexts DEF SessionInv
<1> QED
  BY <1>2, <1>3, <1>4, <1>5 DEF SessionInv

LEMMA SessionAlways ==
  ASSUME SessionConstants
  PROVE  Spec => []SessionInv
<1>1. Init => SessionInv
  BY SessionStarts
<1> QED
  BY <1>1, SessionSteps, PTL DEF Spec

-----------------------------------------------------------------------------
(* The bounds of TypeOK *)

\* A message that is anywhere was submitted, or answers a question.
Held(r) == In(chain, r) \/ In(upstream, r) \/ Contains(failed, r)
RequestInv == \A r : Held(r) \/ AtGateway(r) \/ Rejected(r) \/ Told(r) => r \in Requests

\* Every connection but the first replaces one that was lost.
LinkInv ==
    /\ link \in {"up", "recovering", "down"} /\ mishaps \in Nat /\ mishaps <= MaxMishaps
    /\ conn \in Nat \ {0} /\ conn <= (IF link = "down" THEN mishaps ELSE mishaps + 1)

\* What a queue holds once one is added or its head is gone.
LEMMA HeldSteps ==
  ASSUME SessionType, NumberInv, [Next]_vars, NEW r, Held(r)'
  PROVE  Held(r) \/ r \in Requests
<1> DEFINE Goal == Held(r)' => Held(r) \/ r \in Requests
<1> SUFFICES Goal
  OBVIOUS
<1>t. chain \in Seq(Items) /\ upstream \in Seq(Items) /\ failed \in Seq(Nat)
  BY DEF SessionType, FlowType
<1>a. ASSUME UNCHANGED <<chain, upstream, failed>> PROVE Goal
  BY <1>a DEF Held
<1>b. ASSUME chain # <<>>, chain' = Tail(chain), upstream' = upstream, failed' = failed PROVE Goal
  BY <1>b, <1>t, TailIn DEF Held
<1>c. ASSUME upstream # <<>>, upstream' = Tail(upstream), chain' = chain, failed' = failed PROVE Goal
  BY <1>c, <1>t, TailIn DEF Held
<1>d. ASSUME NEW f \in Items, chain' = Append(chain, f), upstream' = upstream, failed' = failed,
             f.req \in Requests
      PROVE  Goal
  <2>1. In(chain', r) <=> In(chain, r) \/ f.req = r
    BY <1>d, <1>t, AppendIn
  <2> QED
    BY <1>d, <2>1 DEF Held
<1>e. chain # <<>> => /\ In(chain, Head(chain).req) /\ Head(chain) \in Items
                      /\ Head(chain).req \in Nat /\ (In(Tail(chain), r) => In(chain, r))
  BY <1>t, TailIn, QueueEnds, ItemFields
<1> HIDE DEF Goal
<1>1. CASE Submit
  <2> DEFINE n == Sends + 1
             item == [req |-> n, to |-> shown, conn |-> conn, ask |-> NoAsk]
  <2>1. upstream' = upstream /\ failed' = failed /\ chain' \in {chain, Append(chain, item)}
        /\ Sends < MaxSends
    BY <1>1 DEF Submit, gwVars
  <2>2. n \in Nat /\ n \in Requests /\ NoAsk \in 0..MaxAsks
    BY <2>1 DEF NoAsk, SessionType, ScreenType, Sends, SessionConstants, Requests
  <2> HIDE DEF n
  <2>3. item \in Items /\ item.req = n
    BY <2>2, ItemIn
  <2> HIDE DEF item
  <2> QED
    BY <1>a, <1>d, <2>1, <2>2, <2>3
<1>2. CASE AnswerAsk
  <2> DEFINE a == Head(panels)
             item == [req |-> Reply(a), to |-> shown, conn |-> conn, ask |-> a]
  <2>1. upstream' = upstream /\ failed' = failed /\ chain' \in {chain, Append(chain, item)}
    BY <1>2 DEF AnswerAsk, gwVars
  <2>2. a \in 1..MaxAsks
    BY <1>2, QueueEnds DEF AnswerAsk, SessionType, ScreenType
  <2> HIDE DEF a
  <2>3. Reply(a) \in Nat /\ Reply(a) \in Requests /\ a \in 0..MaxAsks
    BY <2>2, Numbers DEF Reply, Requests, SessionConstants
  <2>4. item \in Items /\ item.req \in Requests
    BY <2>3, ItemIn
  <2> HIDE DEF item
  <2> QED
    BY <1>a, <1>d, <2>1, <2>4
<1>3. CASE ClearChat
  BY <1>3, <1>a DEF ClearChat, sendVars, gwVars
<1>4. CASE Interrupt
  BY <1>4, <1>a DEF Interrupt, sendVars, gwVars
<1>5. ASSUME NEW s \in Sessions, NEW yes \in BOOLEAN, NEW no \in BOOLEAN, SwitchTo(s, yes, no)
      PROVE  Goal
  BY <1>5, <1>a DEF SwitchTo, sendVars, gwVars
<1>6. CASE SendHead
  <2>1. /\ chain # <<>> /\ chain' = Tail(chain) /\ upstream' = Append(upstream, Head(chain))
        /\ failed' = failed
    BY <1>6 DEF SendHead
  <2>2. In(upstream', r) <=> In(upstream, r) \/ Head(chain).req = r
    BY <1>e, <1>t, <2>1, AppendIn
  <2> QED
    BY <1>e, <2>1, <2>2 DEF Goal, Held
<1>7. CASE SendIntoDeadLink
  BY <1>7, <1>b DEF SendIntoDeadLink, gwVars
<1>8. CASE SendFails
  <2>1. /\ chain # <<>> /\ chain' = Tail(chain) /\ upstream' = upstream
        /\ failed' = Append(failed, Head(chain).req)
    BY <1>8 DEF SendFails, gwVars
  <2>2. Contains(failed', r) <=> Contains(failed, r) \/ Head(chain).req = r
    BY <1>e, <1>t, <2>1, ContainsEnds
  <2> QED
    BY <1>e, <2>1, <2>2 DEF Goal, Held
<1>9. CASE RestoreFailedSend
  <2>1. failed # <<>> /\ failed' = Tail(failed) /\ chain' = chain /\ upstream' = upstream
    BY <1>9 DEF RestoreFailedSend, gwVars
  <2>2. Contains(failed', r) => Contains(failed, r)
    BY <1>t, <2>1, ContainsEnds
  <2> QED
    BY <2>1, <2>2 DEF Goal, Held
<1>10. CASE LinkLost
  BY <1>10, EmptyIn DEF LinkLost, sendVars, Goal, Held
<1>11. CASE Reconnect
  BY <1>11, <1>a DEF Reconnect, sendVars, gwVars
<1>12. CASE RecoverSession
  BY <1>12, <1>a DEF RecoverSession, sendVars, gwVars
<1>13. CASE FrameArrives
  BY <1>13, <1>c DEF FrameArrives, sendVars
<1>14. CASE FrameRejected
  BY <1>14, <1>c DEF FrameRejected, sendVars
<1>15. ASSUME NEW s \in Sessions, TurnStarts(s) \/ TurnSteered(s) \/ TurnAsks(s) \/ TurnEnds(s)
       PROVE Goal
  BY <1>15, <1>a DEF TurnStarts, TurnSteered, TurnAsks, TurnEnds, sendVars, gwVars
<1>16. CASE SyncSession \/ ForeignEvent \/ TurnStarted
  BY <1>16, <1>a DEF SyncSession, ForeignEvent, TurnStarted, sendVars, gwVars, outside
<1>17. CASE UserMessageAccepted \/ Done \/ Interrupted
  BY <1>17, <1>a DEF UserMessageAccepted, Done, Interrupted, sendVars, gwVars, outside
<1>18. CASE Ask \/ Error
  BY <1>18, <1>a DEF Ask, Error, sendVars, gwVars, outside
<1>19. CASE UNCHANGED vars
  BY <1>19, <1>a DEF sendVars, gwVars, vars
<1> QED
  BY <1>1, <1>2, <1>3, <1>4, <1>5, <1>6, <1>7, <1>8, <1>9, <1>10, <1>11, <1>12, <1>13, <1>14,
     <1>15, <1>16, <1>17, <1>18, <1>19, SessionSplit

LEMMA RequestStep ==
  ASSUME SessionInv, [Next]_vars, RequestInv
  PROVE  RequestInv'
<1>1. Requests' = Requests /\ ByUser \subseteq Requests
  BY DEF Requests, ByUser, Sends, SessionInv, NumberInv, SessionType, ScreenType, SessionConstants
<1> SUFFICES ASSUME NEW r, (Held(r) \/ AtGateway(r) \/ Rejected(r) \/ Told(r))'
             PROVE  r \in Requests
  BY <1>1 DEF RequestInv
<1>2. FrameArrives \/ FrameRejected => In(upstream, Head(upstream).req)
  BY TailIn, FramesPop DEF SessionInv, SessionType, FlowType
<1>3. Held(r)' => r \in Requests
  BY HeldSteps DEF SessionInv, RequestInv
<1>4. AtGateway(r)' => r \in Requests
  BY <1>2, GatewaySteps DEF SessionInv, AtGateway, RequestInv, Held
<1>5. Rejected(r)' => r \in Requests
  <2> SUFFICES ASSUME Rejected(r)' PROVE r \in Requests
    OBVIOUS
  <2>1. PICK e : Contains(wire', e) /\ e.kind = "error" /\ e.req = r
    BY DEF Rejected, Contains
  <2>2. Contains(wire, e) \/ (FrameRejected /\ Head(upstream).req = r)
    BY <2>1, WireSteps DEF SessionInv, Brings
  <2>3. Contains(wire, e) => Rejected(r)
    BY <2>1 DEF Rejected, Contains
  <2> QED
    BY <1>2, <2>2, <2>3 DEF RequestInv, Held
<1>6. Told(r)' => Told(r) \/ r \in pending \/ AtGateway(r)
  <2>1. Vanish \/ Settle \/ Renew \/ cells' = cells
    BY CellSteps DEF SessionInv
  <2>2. CASE Vanish \/ cells' = cells
    BY <2>2 DEF Told, Vanish
  <2>3. CASE Settle
    BY <2>3, BubblesAre DEF Told, Settle
  <2>4. CASE Renew
    BY <2>4, BubblesAre DEF Told, Renew
  <2> QED
    BY <2>1, <2>2, <2>3, <2>4
<1>7. Told(r)' => r \in Requests
  BY <1>1, <1>6 DEF SessionInv, ToldInv, RequestInv
<1> QED
  BY <1>3, <1>4, <1>5, <1>7

LEMMA LinkStep ==
  ASSUME MaxMishaps \in Nat, LinkInv, [Next]_vars
  PROVE  LinkInv'
<1>1. CASE UNCHANGED <<linkVars, mishaps>>
  BY <1>1 DEF LinkInv, linkVars
<1>2. CASE UNCHANGED linkVars /\ Mishap
  BY <1>2 DEF LinkInv, linkVars, Mishap
<1>3. CASE LinkLost
  BY <1>3 DEF LinkLost, LinkInv, Mishap
<1>4. CASE Reconnect
  BY <1>4 DEF Reconnect, LinkInv, bounds
<1>5. CASE RecoverSession
  BY <1>5 DEF RecoverSession, LinkInv, bounds
<1>6. CASE User
  BY <1>1, <1>2, <1>6 DEF User, Submit, AnswerAsk, ClearChat, Interrupt, SwitchTo, bounds
<1>7. CASE SendHead \/ SendIntoDeadLink \/ SendFails \/ RestoreFailedSend
  BY <1>1, <1>2, <1>7 DEF SendHead, SendIntoDeadLink, SendFails, RestoreFailedSend, bounds
<1>8. CASE Gateway
  BY <1>1, <1>2, <1>8 DEF Gateway, FrameArrives, FrameRejected, TurnStarts, TurnSteered,
                          TurnAsks, TurnEnds, bounds
<1>9. CASE HandleEvent
  BY <1>1, <1>9 DEF HandleEvent, SyncSession, ForeignEvent, TurnStarted, UserMessageAccepted,
                    Done, Interrupted, Ask, Error, outside, bounds
<1>10. CASE UNCHANGED vars
  BY <1>1, <1>10 DEF vars, bounds
<1> QED
  BY <1>3, <1>4, <1>5, <1>6, <1>7, <1>8, <1>9, <1>10 DEF Next, Client

LEMMA TypesHold ==
  ASSUME SessionInv, RequestInv, LinkInv, MaxMishaps \in Nat
  PROVE  TypeOK
<1>0. \A q \in Seq(Nat) : \A r \in ToSet(q) : Contains(q, r)
  BY DEF ToSet, Contains
<1>1. SessionType /\ ScreenType /\ FlowType /\ ServerType
  BY DEF SessionInv, SessionType
<1>2. /\ shown \in Sessions /\ pending \subseteq 1..Sends /\ ToSet(panels) \subseteq 1..MaxAsks
      /\ working \in BOOLEAN /\ link \in {"up", "recovering", "down"} /\ subs \subseteq Sessions
  BY <1>1, ToSetIn DEF ScreenType, ServerType, SessionInv, ToldInv, ByUser, LinkInv
<1>3. conn \in 1..(MaxMishaps + 1)
  BY DEF LinkInv
<1>4. ToSet(draft) \subseteq 1..MaxSends
  <2> SUFFICES ASSUME NEW t \in ToSet(draft) PROVE t \in 1..MaxSends
    OBVIOUS
  <2>1. Contains(draft, t)
    BY <1>1, <1>0 DEF ScreenType
  <2>2. t \in 1..Sends /\ Sends <= MaxSends /\ Sends \in Nat /\ MaxSends \in Nat
    BY <1>1, <2>1, Numbers DEF SessionInv, TextInv, DraftInv, NumberInv, ByUser, Sends, ScreenType,
                               SessionConstants
  <2> QED
    BY <2>2
<1>5. cells \subseteq Requests \X {"user", "discarded"}
  <2> SUFFICES ASSUME NEW c \in cells PROVE c \in Requests \X {"user", "discarded"}
    OBVIOUS
  <2>1. PICK r \in Nat, k \in {"user", "discarded"} : c = <<r, k>>
    BY DEF SessionInv, ToldInv
  <2>2. Told(r)
    BY <2>1 DEF Told
  <2>3. r \in Requests
    BY <2>2 DEF RequestInv
  <2> QED
    BY <2>1, <2>3
<1>7. ToSet(failed) \subseteq Requests
  BY <1>1, <1>0 DEF FlowType, RequestInv, Held
<1>8. ASSUME NEW s \in Sessions
      PROVE  /\ ToSet(srv[s].inbox) \cup ToSet(srv[s].accepted) \subseteq Requests
             /\ srv[s].working \in BOOLEAN /\ srv[s].ask \in 0..MaxAsks
  <2>1. /\ srv[s].inbox \in Seq(Nat) /\ srv[s].accepted \in Seq(Nat)
        /\ srv[s].working \in BOOLEAN /\ srv[s].ask \in 0..MaxAsks
    BY <1>1, ServerFields DEF ServerType
  <2>2. \A r : Contains(srv[s].inbox, r) \/ Contains(srv[s].accepted, r) => r \in Requests
    BY DEF RequestInv, AtGateway
  <2> QED
    BY <1>0, <2>1, <2>2
<1> QED
  BY <1>2, <1>3, <1>4, <1>5, <1>7, <1>8 DEF TypeOK

\* The screen, the queues, the connection and the gateway's sessions hold values of their
\* types: only messages that were submitted or answer a question, and a connection for each
\* that was lost.
LEMMA SessionTypes ==
  ASSUME SessionConstants, MaxMishaps \in Nat
  PROVE  Spec => []TypeOK
<1>1. Init => RequestInv /\ LinkInv
  BY DEF Init, RequestInv, LinkInv, Held, In, AtGateway, Rejected, Told, Contains, Idle
<1>2. SessionInv /\ RequestInv /\ LinkInv /\ [Next]_vars => RequestInv' /\ LinkInv'
  BY RequestStep, LinkStep
<1>3. SessionInv /\ RequestInv /\ LinkInv => TypeOK
  BY TypesHold
<1> QED
  BY <1>1, <1>2, <1>3, SessionAlways, PTL DEF Spec

\* A set whose elements are all equal has at most one.
LEMMA AtMostOne ==
  ASSUME NEW S, \A x, y \in S : x = y
  PROVE  Cardinality(S) \in {0, 1} /\ (S = {} => Cardinality(S) = 0)
<1>1. CASE S = {}
  BY <1>1, FS_EmptySet
<1>2. CASE S # {}
  <2>1. PICK x : S = {x}
    BY <1>2
  <2> QED
    BY <1>2, <2>1, FS_Singleton
<1> QED
  BY <1>1, <1>2

LEMMA CarriedIs ==
  ASSUME SessionInv, NEW r, NEW t \in Carried(r)
  PROVE  r \in ByUser /\ Contains(texts[r], t)
<1>1. r \in DOMAIN texts /\ t \in ToSet(texts[r])
  BY DEF Carried
<1>2. texts \in Seq(Seq(Nat)) /\ DOMAIN texts = 1..Len(texts)
  BY DEF SessionInv, SessionType, ScreenType
<1>3. r \in ByUser /\ texts[r] \in Seq(Nat)
  BY <1>1, <1>2 DEF ByUser, Sends
<1> QED
  BY <1>1, <1>3 DEF ToSet, Contains

\* Two messages that carry one text are one, and then the composer does not hold it.
LEMMA OneHolder ==
  ASSUME SessionInv, NEW t, NEW r, t \in Carried(r), Keeps(r)
  PROVE  /\ ~Contains(draft, t)
         /\ \A q : t \in Carried(q) /\ Keeps(q) => q = r
BY CarriedIs DEF SessionInv, TextInv, HolderInv, Apart

\* A text is sent at most once: among its messages at most one is still under way or with
\* the gateway, and none is while the text is back in the composer, over failed sends, lost
\* links, refused frames and interrupts (restore_failed_send, take_pending).
THEOREM SentAtMostOnce ==
  ASSUME SessionConstants
  PROVE  Spec => []NeverSentTwice
<1>1. SessionInv => NeverSentTwice
  <2> SUFFICES ASSUME SessionInv, NEW t \in 1..Sends
               PROVE  Cardinality({r \in 1..Sends : t \in Carried(r) /\ Underway(r)})
                         <= (IF Contains(draft, t) THEN 0 ELSE 1)
    BY DEF NeverSentTwice
  <2> DEFINE copies == {r \in 1..Sends : t \in Carried(r) /\ Underway(r)}
  <2>1. \A r \in copies : t \in Carried(r) /\ Keeps(r)
    BY DEF Keeps, Underway, Travels, In, AtGateway
  <2>2. \A x, y \in copies : x = y
    BY <2>1, OneHolder
  <2>3. Contains(draft, t) => copies = {}
    BY <2>1, OneHolder
  <2> HIDE DEF copies
  <2>4. Cardinality(copies) \in {0, 1} /\ (copies = {} => Cardinality(copies) = 0)
    BY <2>2, AtMostOne
  <2>5. Cardinality(copies) <= (IF Contains(draft, t) THEN 0 ELSE 1)
    BY <2>3, <2>4
  <2> QED
    BY <2>5 DEF copies
<1> QED
  BY <1>1, SessionAlways, PTL

\* A text is shown in one place: the composer, the pending queue or the history, whatever
\* is refused, interrupted, switched away from or synchronised anew.
THEOREM ShownInOnePlace ==
  ASSUME SessionConstants
  PROVE  Spec => []ShownOnce
<1>1. SessionInv => ShownOnce
  <2> SUFFICES ASSUME SessionInv, NEW t \in 1..Sends
               PROVE  Cardinality({i \in DOMAIN draft : draft[i] = t})
                        + Cardinality({r \in pending : t \in Carried(r)})
                        + Cardinality({c \in cells : t \in Carried(c[1])}) <= 1
    BY DEF ShownOnce
  <2> DEFINE typed  == {i \in DOMAIN draft : draft[i] = t}
             queued == {r \in pending : t \in Carried(r)}
             told   == {c \in cells : t \in Carried(c[1])}
  <2>0. DOMAIN draft = 1..Len(draft)
    BY DEF SessionInv, SessionType, ScreenType
  <2>1. \A i, j \in typed : i = j
    BY <2>0 DEF SessionInv, TextInv, DraftInv, Single
  <2>2. typed # {} => Contains(draft, t)
    BY <2>0 DEF Contains
  <2>3. \A r \in queued : t \in Carried(r) /\ Keeps(r)
    BY DEF Keeps
  <2>4. \A c \in told : /\ c = <<c[1], c[2]>> /\ c[2] \in {"user", "discarded"}
                        /\ <<c[1], c[2]>> \in cells
    BY DEF SessionInv, ToldInv
  <2>5. \A c \in told : t \in Carried(c[1]) /\ Told(c[1]) /\ Keeps(c[1])
    BY <2>4 DEF Told, Keeps
  <2>6. \A r, q \in queued : r = q
    BY <2>3, OneHolder
  <2>7. \A c, d \in told : c = d
    <3> SUFFICES ASSUME NEW c \in told, NEW d \in told PROVE c = d
      OBVIOUS
    <3>1. c[1] = d[1]
      BY <2>5, OneHolder
    <3>2. PICK r : r = c[1]
      OBVIOUS
    <3>3. PICK k : k = c[2]
      OBVIOUS
    <3>4. PICK j : j = d[2]
      OBVIOUS
    <3>5. /\ c = <<r, k>> /\ d = <<r, j>> /\ <<r, k>> \in cells /\ <<r, j>> \in cells
          /\ k \in {"user", "discarded"} /\ j \in {"user", "discarded"}
      <4>1. /\ c = <<c[1], c[2]>> /\ c[2] \in {"user", "discarded"} /\ <<c[1], c[2]>> \in cells
            /\ d = <<d[1], d[2]>> /\ d[2] \in {"user", "discarded"} /\ <<d[1], d[2]>> \in cells
        BY <2>4
      <4> QED
        BY <3>1, <3>2, <3>3, <3>4, <4>1, Zenon
    <3>6. k = j
      BY <3>5 DEF SessionInv, ToldInv
    <3> QED
      BY <3>5, <3>6
  <2>8. typed = {} \/ (queued = {} /\ told = {})
    BY <2>2, <2>3, <2>5, OneHolder
  <2>9. queued = {} \/ told = {}
    <3> SUFFICES ASSUME NEW r \in queued, NEW c \in told PROVE FALSE
      OBVIOUS
    <3>1. c[1] = r
      BY <2>3, <2>5, OneHolder
    <3> QED
      BY <2>5, <3>1 DEF SessionInv, ToldInv
  <2> HIDE DEF typed, queued, told
  <2>10. /\ Cardinality(typed) \in {0, 1} /\ (typed = {} => Cardinality(typed) = 0)
         /\ Cardinality(queued) \in {0, 1} /\ (queued = {} => Cardinality(queued) = 0)
         /\ Cardinality(told) \in {0, 1} /\ (told = {} => Cardinality(told) = 0)
    BY <2>1, <2>6, <2>7, AtMostOne
  <2>11. Cardinality(typed) + Cardinality(queued) + Cardinality(told) <= 1
    BY <2>8, <2>9, <2>10
  <2> QED
    BY <2>11 DEF typed, queued, told
<1> QED
  BY <1>1, SessionAlways, PTL

-----------------------------------------------------------------------------
(* What the view will be once the events on the way are handled *)
EndKinds == {"done", "interrupted", "error"}
StartKinds == {"started", "ask"}

\* The view is set anew by the last snapshot on the way (k), or is the one of now (0).
LastBase(k) ==
    /\ k \in 0..Len(wire) /\ (k = 0 \/ wire[k].kind = "sync")
    /\ \A i \in (k + 1)..Len(wire) : wire[i].kind # "sync"
Viewed(k) == IF k = 0 THEN shown ELSE wire[k].of
Calm(k) == IF k = 0 THEN panels = <<>> /\ ~working
           ELSE wire[k].ask = NoAsk /\ ~wire[k].working
Ends(j, s) == wire[j].of = s /\ wire[j].kind \in EndKinds
Rest(j, s) == \A i \in (j + 1)..Len(wire) : ~(wire[i].of = s /\ wire[i].kind \in StartKinds)

\* When the session to be shown is at rest and subscribed, the view comes to rest too: by
\* its base, or by an event that ends the turn, with nothing after it that starts one.
Settles(k) ==
    \E j \in k..Len(wire) : /\ IF j = k THEN Calm(k) ELSE Ends(j, Viewed(k))
                            /\ Rest(j, Viewed(k))
ViewInv ==
    \A k : LastBase(k) /\ Viewed(k) \in subs /\ ~srv[Viewed(k)].working => Settles(k)

\* A session that asks is working.
AskInv == \A s \in Sessions : ~srv[s].working => srv[s].ask = NoAsk

\* Events are added, none of them a snapshot.
Added(s) == /\ Len(wire') > Len(wire)
            /\ wire'[Len(wire')].of = s /\ wire'[Len(wire')].kind \in EndKinds
Spared(s) == \A i \in (Len(wire) + 1)..Len(wire') :
                ~(wire'[i].of = s /\ wire'[i].kind \in StartKinds)
LEMMA ViewGrows ==
  ASSUME ViewInv, Len(wire) \in Nat, Len(wire') \in Nat, Len(wire) <= Len(wire'),
         \A i \in 1..Len(wire) : wire'[i] = wire[i],
         \A i \in (Len(wire) + 1)..Len(wire') : wire'[i].kind # "sync",
         shown' = shown, panels = <<>> /\ ~working => panels' = <<>> /\ ~working',
         \A s \in subs' : ~srv'[s].working =>
            Added(s) \/ (s \in subs /\ ~srv[s].working /\ Spared(s))
  PROVE  ViewInv'
<1> SUFFICES ASSUME NEW k, LastBase(k)', Viewed(k)' \in subs', ~srv'[Viewed(k)'].working
             PROVE  Settles(k)'
  BY DEF ViewInv
<1>1. k \in 0..Len(wire)
  BY DEF LastBase
<1>2. LastBase(k)
  BY <1>1 DEF LastBase
<1>3. Viewed(k)' = Viewed(k) /\ (Calm(k) => Calm(k)')
  BY <1>1 DEF Viewed, Calm
<1> DEFINE s == Viewed(k)
<1>4. PICK v : v = s
  OBVIOUS
<1>5. CASE Added(v)
  <2>1. PICK m \in Nat : m = Len(wire')
    OBVIOUS
  <2>2. m \in k..m /\ m # k /\ wire'[m].of = v /\ wire'[m].kind \in EndKinds
    BY <1>1, <1>5, <2>1 DEF Added
  <2>3. Ends(m, v)' /\ Rest(m, v)'
    BY <2>1, <2>2 DEF Ends, Rest
  <2>4. \E j \in k..Len(wire') : /\ IF j = k THEN Calm(k)' ELSE Ends(j, v)'
                                 /\ Rest(j, v)'
    BY <2>1, <2>2, <2>3
  <2> QED
    BY <1>3, <1>4, <2>4 DEF Settles
<1>6. CASE v \in subs /\ ~srv[v].working /\ Spared(v)
  <2>1. Settles(k)
    BY <1>2, <1>4, <1>6 DEF ViewInv
  <2>2. PICK j \in k..Len(wire) : /\ IF j = k THEN Calm(k) ELSE Ends(j, v)
                                  /\ Rest(j, v)
    BY <1>4, <2>1 DEF Settles
  <2>3. j \in k..Len(wire') /\ (j # k => j \in 1..Len(wire))
    BY <1>1
  <2>4. IF j = k THEN Calm(k)' ELSE Ends(j, v)'
    BY <1>3, <2>2, <2>3 DEF Ends
  <2>5. Rest(j, v)'
    BY SMTT(30), <1>1, <1>6, <2>2 DEF Rest, Spared
  <2> QED
    BY <1>3, <1>4, <2>3, <2>4, <2>5 DEF Settles
<1> QED
  BY <1>3, <1>4, <1>5, <1>6

\* A snapshot of the moment is added.
LEMMA ViewRenewed ==
  ASSUME SessionType, AskInv, NEW s \in Sessions, wire' = Append(wire, Snapshot(s)), srv' = srv
  PROVE  ViewInv'
<1>1. /\ Len(wire) \in Nat /\ Len(wire') = Len(wire) + 1 /\ wire'[Len(wire) + 1] = Snapshot(s)
  BY DEF SessionType, FlowType
<1>2. PICK e : e = Snapshot(s)
  OBVIOUS
<1>3. /\ e.kind = "sync" /\ e.of = s /\ e.ask = srv[s].ask /\ e.working = srv[s].working
  BY <1>2 DEF Snapshot
<1> SUFFICES ASSUME NEW k, LastBase(k)', Viewed(k)' \in subs', ~srv'[Viewed(k)'].working
             PROVE  Settles(k)'
  BY DEF ViewInv
<1>4. k = Len(wire) + 1
  <2>1. k \in 0..(Len(wire) + 1) /\ \A i \in (k + 1)..(Len(wire) + 1) : wire'[i].kind # "sync"
    BY <1>1 DEF LastBase
  <2> QED
    BY <1>1, <1>2, <1>3, <2>1
<1>5. Viewed(k)' = s /\ wire'[k] = e /\ k # 0
  BY <1>1, <1>2, <1>3, <1>4 DEF Viewed
<1>6. Calm(k)'
  BY <1>3, <1>5 DEF Calm, AskInv
<1>7. Rest(k, Viewed(k))' /\ k \in k..Len(wire')
  BY <1>1, <1>4 DEF Rest
<1> QED
  BY <1>6, <1>7 DEF Settles

\* An event is handled.
Handled(e) ==
    IF e.kind = "sync"
    THEN shown' = e.of /\ (e.ask = NoAsk /\ ~e.working => panels' = <<>> /\ ~working')
    ELSE /\ shown' = shown
         /\ e.of = shown /\ e.kind \in EndKinds => panels' = <<>> /\ ~working'
         /\ (panels = <<>> /\ ~working) /\ ~(e.of = shown /\ e.kind \in StartKinds) =>
               panels' = <<>> /\ ~working'
LEMMA ViewHandled ==
  ASSUME SessionType, ViewInv, wire # <<>>, wire' = Tail(wire), srv' = srv, subs' = subs,
         NEW e, e = Head(wire), Handled(e)
  PROVE  ViewInv'
<1>1. /\ Len(wire) \in Nat \ {0} /\ Len(wire') = Len(wire) - 1 /\ e = wire[1]
      /\ \A i \in 1..(Len(wire) - 1) : wire'[i] = wire[i + 1]
  BY SMTT(30) DEF SessionType, FlowType
<1>a. PICK n \in Nat : Len(wire) = n + 1 /\ Len(wire') = n
  <2>1. Len(wire) - 1 \in Nat /\ Len(wire) = (Len(wire) - 1) + 1
    BY <1>1
  <2> QED
    BY <1>1, <2>1
<1>b. \A i \in 1..n : wire'[i] = wire[i + 1]
  BY <1>1, <1>a
<1> SUFFICES ASSUME NEW k, LastBase(k)', Viewed(k)' \in subs', ~srv'[Viewed(k)'].working
             PROVE  Settles(k)'
  BY DEF ViewInv
<1>2. k \in 0..n /\ (k = 0 \/ wire'[k].kind = "sync")
      /\ \A i \in (k + 1)..n : wire'[i].kind # "sync"
  BY <1>a DEF LastBase
<1>3. \A i \in (k + 2)..(n + 1) : wire[i].kind # "sync"
  <2> SUFFICES ASSUME NEW i \in (k + 2)..(n + 1) PROVE wire[i].kind # "sync"
    OBVIOUS
  <2>1. i - 1 \in (k + 1)..n /\ i - 1 \in 1..n /\ (i - 1) + 1 = i
    BY <1>2
  <2> QED
    BY <1>2, <1>b, <2>1
<1>4. \A v : \A j \in 0..n : Rest(j + 1, v) => Rest(j, v)'
  <2> SUFFICES ASSUME NEW v, NEW j \in 0..n, Rest(j + 1, v), NEW i \in (j + 1)..n
               PROVE  ~(wire'[i].of = v /\ wire'[i].kind \in StartKinds)
    BY <1>a DEF Rest
  <2>1. i \in 1..n /\ i + 1 \in (j + 2)..(n + 1) /\ (j + 1) + 1 = j + 2
    OBVIOUS
  <2> QED
    BY <1>a, <1>b, <2>1 DEF Rest
<1>5. ASSUME LastBase(k + 1), Viewed(k)' = Viewed(k + 1), Calm(k + 1) => Calm(k)'
      PROVE  Settles(k)'
  <2>1. Settles(k + 1)
    BY <1>5 DEF ViewInv
  <2>2. PICK v : v = Viewed(k + 1)
    OBVIOUS
  <2>3. PICK j \in (k + 1)..(n + 1) : /\ IF j = k + 1 THEN Calm(k + 1) ELSE Ends(j, v)
                                      /\ Rest(j, v)
    BY <1>a, <2>1, <2>2 DEF Settles
  <2>4. j - 1 \in k..n /\ j - 1 \in 0..n /\ (j - 1) + 1 = j /\ (j - 1 = k <=> j = k + 1)
        /\ (j # k + 1 => j - 1 \in 1..n)
    BY <1>2
  <2>5. Rest(j - 1, v)'
    BY <1>4, <2>3, <2>4
  <2>6. IF j - 1 = k THEN Calm(k)' ELSE Ends(j - 1, v)'
    BY <1>5, <1>b, <2>3, <2>4 DEF Ends
  <2> QED
    BY <1>5, <1>a, <2>2, <2>4, <2>5, <2>6 DEF Settles
<1>6. CASE k # 0
  <2>1. k \in 1..n /\ wire'[k] = wire[k + 1] /\ k + 1 # 0
    <3>1. k \in 0..n
      BY <1>2
    <3>2. k \in 1..n /\ k + 1 # 0
      BY <1>6, <3>1
    <3> QED
      BY <1>b, <3>2
  <2>2. LastBase(k + 1)
    BY <1>a, <1>2, <1>3, <1>6, <2>1 DEF LastBase
  <2>3. Viewed(k)' = Viewed(k + 1) /\ (Calm(k + 1) => Calm(k)')
    BY <1>6, <2>1 DEF Viewed, Calm
  <2> QED
    BY <1>5, <2>2, <2>3
<1>7. CASE k = 0 /\ e.kind = "sync"
  <2>1. k + 1 = 1 /\ k + 2 = 2 /\ 1 # 0
    BY <1>7
  <2>2. LastBase(k + 1)
    BY <1>1, <1>a, <1>3, <1>7, <2>1 DEF LastBase
  <2>3. Viewed(k)' = Viewed(k + 1) /\ (Calm(k + 1) => Calm(k)')
    BY <1>1, <1>7, <2>1 DEF Viewed, Calm, Handled
  <2> QED
    BY <1>5, <2>2, <2>3
<1>8. CASE k = 0 /\ e.kind # "sync"
  <2>1. LastBase(0)
    BY <1>1, <1>a, <1>3, <1>8 DEF LastBase
  <2>2. Viewed(0)' = shown /\ Viewed(0) = shown
    BY <1>8 DEF Viewed, Handled
  <2>3. Settles(0)
    BY <1>8, <2>1, <2>2 DEF ViewInv
  <2>4. PICK j \in 0..(n + 1) : /\ IF j = 0 THEN Calm(0) ELSE Ends(j, shown)
                                /\ Rest(j, shown)
    BY <1>a, <2>2, <2>3 DEF Settles
  <2>5. CASE j = 0
    <3>1. Calm(0)
      BY <2>4, <2>5
    <3>2. ~(e.of = shown /\ e.kind \in StartKinds)
      BY <1>1, <1>a, <2>4, <2>5 DEF Rest
    <3>3. Calm(0)'
      BY <1>8, <3>1, <3>2 DEF Calm, Handled
    <3>4. Rest(0 + 1, shown)
      BY <1>a, <2>4, <2>5 DEF Rest
    <3> QED
      BY <1>8, <1>a, <2>2, <3>3, <3>4, <1>4 DEF Settles
  <2>6. CASE j = 1
    <3>1. Calm(0)'
      BY <1>1, <1>8, <2>4, <2>6 DEF Calm, Handled, Ends
    <3>2. Rest(0 + 1, shown)
      BY <2>4, <2>6
    <3> QED
      BY <1>8, <1>a, <2>2, <3>1, <3>2, <1>4 DEF Settles
  <2>7. CASE j > 1
    <3>1. j - 1 \in 1..n /\ (j - 1) + 1 = j
      BY <2>7
    <3>2. PICK v : v = shown
      OBVIOUS
    <3>3. Ends(j - 1, v)' /\ Rest(j - 1, v)'
      <4>1. Ends(j, v) /\ Rest(j, v) /\ j - 1 \in 0..n /\ j # 0
        BY <2>4, <2>7, <3>1, <3>2
      <4>2. wire'[j - 1] = wire[j]
        BY <1>b, <3>1
      <4>3. Rest(j - 1, v)'
        BY <1>4, <3>1, <4>1
      <4> QED
        BY <4>1, <4>2, <4>3 DEF Ends
    <3> QED
      BY SMTT(30), <1>8, <1>a, <2>2, <3>1, <3>2, <3>3 DEF Settles
  <2> QED
    BY <2>5, <2>6, <2>7
<1> QED
  BY <1>6, <1>7, <1>8

-----------------------------------------------------------------------------
LEMMA AskSteps ==
  ASSUME SessionType, [Next]_vars, AskInv
  PROVE  AskInv'
<1> DEFINE Goal == \A s \in Sessions : ~srv'[s].working => srv'[s].ask = NoAsk
<1> SUFFICES Goal
  BY DEF AskInv
<1>a. ASSUME srv' = srv PROVE Goal
  BY <1>a DEF AskInv
<1>b. ASSUME NEW v \in Sessions, \A s \in Sessions \ {v} : srv'[s] = srv[s],
             srv'[v].working \/ srv'[v].ask = NoAsk
      PROVE  Goal
  BY <1>b DEF AskInv
<1>c. ASSUME NEW v \in Sessions, srv[v].inbox # <<>>, srv' = Accept(v) PROVE Goal
  <2>1. /\ \A s \in Sessions \ {v} : srv'[s] = srv[s]
        /\ srv'[v].working
    BY <1>c DEF Accept, SessionType, ServerType, Servers
  <2> QED
    BY <1>b, <2>1
<1> HIDE DEF Goal
<1>1. CASE Submit
  BY <1>1, <1>a DEF Submit, gwVars
<1>2. CASE AnswerAsk
  BY <1>2, <1>a DEF AnswerAsk, gwVars
<1>3. CASE ClearChat
  BY <1>3, <1>a DEF ClearChat, gwVars
<1>4. CASE Interrupt
  <2>1. shown \in Sessions /\ (\A s \in Sessions \ {shown} : srv'[s] = srv[s])
        /\ srv'[shown].ask = NoAsk
    BY <1>4 DEF Interrupt, SessionType, ScreenType, ServerType, Servers
  <2> QED
    BY <1>b, <2>1
<1>5. ASSUME NEW s \in Sessions, NEW yes \in BOOLEAN, NEW no \in BOOLEAN, SwitchTo(s, yes, no)
      PROVE  Goal
  BY <1>5, <1>a DEF SwitchTo, gwVars
<1>6. CASE SendHead
  BY <1>6, <1>a DEF SendHead
<1>7. CASE SendIntoDeadLink
  BY <1>7, <1>a DEF SendIntoDeadLink, gwVars
<1>8. CASE SendFails
  BY <1>8, <1>a DEF SendFails, gwVars
<1>9. CASE RestoreFailedSend
  BY <1>9, <1>a DEF RestoreFailedSend, gwVars
<1>10. CASE LinkLost
  BY <1>10, <1>a DEF LinkLost, gwVars
<1>11. CASE Reconnect
  BY <1>11, <1>a DEF Reconnect, gwVars
<1>12. CASE RecoverSession
  BY <1>12, <1>a DEF RecoverSession, gwVars
<1>13. CASE FrameArrives
  <2>1. PICK v : v = Head(upstream).to
    OBVIOUS
  <2>2. v \in Sessions
    BY <1>13, <2>1, QueueEnds, ItemFields DEF FrameArrives, SessionType, FlowType
  <2>3. /\ \A s \in Sessions \ {v} : srv'[s] = srv[s]
        /\ srv'[v].working = srv[v].working /\ srv'[v].ask \in {srv[v].ask, NoAsk}
    BY <1>13, <2>1, <2>2 DEF FrameArrives, SessionType, ServerType, Servers
  <2> QED
    BY <1>b, <2>2, <2>3 DEF AskInv
<1>14. CASE FrameRejected
  BY <1>14, <1>a DEF FrameRejected, gwVars
<1>15. ASSUME NEW s \in Sessions, TurnStarts(s) PROVE Goal
  BY <1>15, <1>c DEF TurnStarts
<1>16. ASSUME NEW s \in Sessions, TurnSteered(s) PROVE Goal
  BY <1>16, <1>c DEF TurnSteered
<1>17. ASSUME NEW s \in Sessions, TurnAsks(s) PROVE Goal
  <2>1. /\ \A v \in Sessions \ {s} : srv'[v] = srv[v]
        /\ srv'[s].working
    BY <1>17 DEF TurnAsks, SessionType, ServerType, Servers
  <2> QED
    BY <1>b, <2>1
<1>18. ASSUME NEW s \in Sessions, TurnEnds(s) PROVE Goal
  <2>1. /\ \A v \in Sessions \ {s} : srv'[v] = srv[v]
        /\ srv'[s].ask = NoAsk
    BY <1>18 DEF TurnEnds, SessionType, ServerType, Servers
  <2> QED
    BY <1>b, <2>1
<1>19. CASE SyncSession
  BY <1>19, <1>a DEF SyncSession, gwVars, outside
<1>20. CASE ForeignEvent
  BY <1>20, <1>a DEF ForeignEvent, gwVars, outside
<1>21. CASE TurnStarted
  BY <1>21, <1>a DEF TurnStarted, gwVars, outside
<1>22. CASE UserMessageAccepted
  BY <1>22, <1>a DEF UserMessageAccepted, gwVars, outside
<1>23. CASE Done
  BY <1>23, <1>a DEF Done, gwVars, outside
<1>24. CASE Interrupted
  BY <1>24, <1>a DEF Interrupted, gwVars, outside
<1>25. CASE Ask
  BY <1>25, <1>a DEF Ask, gwVars, outside
<1>26. CASE Error
  BY <1>26, <1>a DEF Error, gwVars, outside
<1>27. CASE UNCHANGED vars
  BY <1>27, <1>a DEF gwVars, vars
<1> QED
  BY <1>1, <1>2, <1>3, <1>4, <1>5, <1>6, <1>7, <1>8, <1>9, <1>10, <1>11, <1>12, <1>13, <1>14,
     <1>15, <1>16, <1>17, <1>18, <1>19, <1>20, <1>21, <1>22, <1>23, <1>24, <1>25, <1>26, <1>27,
     SessionSplit

\* An event is sent to the client if it is subscribed.
LEMMA ViewTold ==
  ASSUME SessionType, ViewInv, NEW f \in TuiEvents, f.kind # "sync", Tell(f), subs' = subs,
         shown' = shown, panels' = panels, working' = working,
         \A s \in subs : ~srv'[s].working =>
            \/ f.of = s /\ f.kind \in EndKinds
            \/ ~srv[s].working /\ ~(f.of = s /\ f.kind \in StartKinds)
  PROVE  ViewInv'
<1>1. Len(wire) \in Nat /\ wire' \in {wire, Append(wire, f)} /\ (f.of \in subs => wire' # wire)
  BY DEF Tell, SessionType, FlowType
<1>2. CASE wire' = wire
  <2>1. \A s \in subs : f.of # s /\ Spared(s)
    BY <1>1, <1>2 DEF Spared
  <2> QED
    BY <1>1, <1>2, <2>1, ViewGrows
<1>3. CASE wire' = Append(wire, f)
  <2>1. /\ Len(wire') = Len(wire) + 1 /\ \A i \in 1..Len(wire) : wire'[i] = wire[i]
        /\ wire'[Len(wire) + 1] = f
    BY <1>3 DEF SessionType, FlowType
  <2>2. \A i \in (Len(wire) + 1)..Len(wire') : wire'[i] = f
    BY <1>1, <2>1
  <2>3. \A s : f.of = s /\ f.kind \in EndKinds => Added(s)
    BY <1>1, <2>1 DEF Added
  <2>4. \A s : ~(f.of = s /\ f.kind \in StartKinds) => Spared(s)
    BY <2>2 DEF Spared
  <2>5. \A s \in subs' :
           ~srv'[s].working => Added(s) \/ (s \in subs /\ ~srv[s].working /\ Spared(s))
    BY <2>3, <2>4
  <2>6. Len(wire) <= Len(wire') /\ Len(wire') \in Nat
        /\ \A i \in (Len(wire) + 1)..Len(wire') : wire'[i].kind # "sync"
    BY <1>1, <2>1, <2>2
  <2> QED
    BY <1>1, <2>1, <2>5, <2>6, ViewGrows
<1> QED
  BY <1>1, <1>2, <1>3

LEMMA ViewSteps ==
  ASSUME SessionType, [Next]_vars, AskInv, ViewInv
  PROVE  ViewInv'
<1> DEFINE Goal == ViewInv'
<1> SUFFICES Goal
  OBVIOUS
<1>a. ASSUME wire' = wire, shown' = shown, panels = <<>> /\ ~working => panels' = <<>> /\ ~working',
             \A s \in subs' : ~srv'[s].working => s \in subs /\ ~srv[s].working
      PROVE  Goal
  <2>1. Len(wire) \in Nat /\ \A s : Spared(s)
    BY <1>a DEF Spared, SessionType, FlowType
  <2> QED
    BY <1>a, <2>1, ViewGrows
<1>b. ASSUME UNCHANGED <<wire, shown, panels, working, srv, subs>> PROVE Goal
  BY <1>a, <1>b
<1>c. ASSUME wire # <<>>, wire' = Tail(wire), srv' = srv, subs' = subs, Handled(Event)
      PROVE  Goal
  BY <1>c, ViewHandled DEF Event
<1> HIDE DEF Goal
<1>1. CASE Submit
  BY <1>1, <1>b DEF Submit, gwVars
<1>2. CASE AnswerAsk
  BY <1>2, <1>a DEF AnswerAsk, gwVars
<1>3. CASE ClearChat
  BY <1>3, <1>b DEF ClearChat, gwVars
<1>4. CASE Interrupt
  <2>1. ToSet(srv[shown].inbox) \in SUBSET Nat /\ shown \in Sessions
    BY ToSetIn, ServerFields DEF SessionType, ScreenType, ServerType
  <2>2. PICK f \in TuiEvents : f.kind = "interrupted" /\ f.of = shown /\ Tell(f)
    BY <1>4, <2>1, EventKindsOk DEF Interrupt
  <2>3. /\ UNCHANGED <<subs, shown, panels, working>>
        /\ \A s \in Sessions \ {shown} : srv'[s] = srv[s]
    BY <1>4 DEF Interrupt, appVars, SessionType, ServerType
  <2>4. \A s \in subs : ~srv'[s].working =>
           \/ f.of = s /\ f.kind \in EndKinds
           \/ ~srv[s].working /\ ~(f.of = s /\ f.kind \in StartKinds)
    BY <2>2, <2>3 DEF EndKinds, StartKinds, SessionType, ServerType
  <2> QED
    BY <2>2, <2>3, <2>4, ViewTold DEF Goal
<1>5. ASSUME NEW s \in Sessions, NEW yes \in BOOLEAN, NEW no \in BOOLEAN, SwitchTo(s, yes, no)
      PROVE  Goal
  <2>1. UNCHANGED <<shown, panels, working, srv>>
    BY <1>5 DEF SwitchTo, appVars
  <2>2. CASE yes
    <3>1. wire' = Append(wire, Snapshot(s))
      BY <1>5, <2>2 DEF SwitchTo
    <3> QED
      BY <2>1, <3>1, ViewRenewed DEF Goal
  <2>3. CASE ~yes
    <3>1. wire' = wire /\ subs' \subseteq subs
      BY <1>5, <2>3 DEF SwitchTo
    <3> QED
      BY <1>a, <2>1, <3>1
  <2> QED
    BY <2>2, <2>3
<1>6. CASE SendHead
  BY <1>6, <1>b DEF SendHead, appVars
<1>7. CASE SendIntoDeadLink
  BY <1>7, <1>b DEF SendIntoDeadLink, appVars, gwVars
<1>8. CASE SendFails
  BY <1>8, <1>b DEF SendFails, appVars, gwVars
<1>9. CASE RestoreFailedSend
  BY <1>9, <1>b DEF RestoreFailedSend, gwVars
<1>10. CASE LinkLost
  <2>1. subs' = {}
    BY <1>10 DEF LinkLost
  <2> QED
    BY <2>1 DEF Goal, ViewInv
<1>11. CASE Reconnect
  BY <1>11, <1>b DEF Reconnect, appVars, gwVars
<1>12. CASE RecoverSession
  <2>1. shown \in Sessions /\ wire' = Append(wire, Snapshot(shown)) /\ srv' = srv
    BY <1>12 DEF RecoverSession, SessionType, ScreenType
  <2> QED
    BY <2>1, ViewRenewed DEF Goal
<1>13. CASE FrameArrives
  <2>1. Head(upstream).to \in Sessions
    BY <1>13, QueueEnds, ItemFields DEF FrameArrives, SessionType, FlowType
  <2>2. \A s \in Sessions : srv'[s].working = srv[s].working
    BY <1>13, <2>1 DEF FrameArrives, SessionType, ServerType, Servers
  <2>3. UNCHANGED <<wire, shown, panels, working, subs>>
    BY <1>13 DEF FrameArrives, appVars
  <2> QED
    BY <1>a, <2>2, <2>3 DEF SessionType, ServerType
<1>14. CASE FrameRejected
  <2>1. Head(upstream).req \in Nat /\ Head(upstream).to \in Sessions
    BY <1>14, QueueEnds, ItemFields DEF FrameRejected, SessionType, FlowType
  <2> DEFINE e == [kind |-> "error", of |-> Head(upstream).to, req |-> Head(upstream).req]
  <2>2. wire' = Append(wire, e) /\ e.kind = "error"
        /\ UNCHANGED <<shown, panels, working, srv, subs>>
    BY <1>14 DEF FrameRejected, appVars
  <2> HIDE DEF e
  <2>3. PICK f : f = e
    OBVIOUS
  <2>4. /\ Len(wire) \in Nat /\ Len(wire') = Len(wire) + 1
        /\ \A i \in 1..Len(wire) : wire'[i] = wire[i]
        /\ \A i \in (Len(wire) + 1)..Len(wire') : wire'[i] = f
    BY <2>2, <2>3 DEF SessionType, FlowType
  <2>5. f.kind # "sync" /\ f.kind \notin StartKinds
    BY <2>2, <2>3 DEF StartKinds
  <2>6. \A s : Spared(s)
    BY <2>4, <2>5 DEF Spared
  <2>7. \A i \in (Len(wire) + 1)..Len(wire') : wire'[i].kind # "sync"
    BY <2>4, <2>5
  <2> QED
    BY <2>2, <2>4, <2>6, <2>7, ViewGrows DEF Goal
<1>15. ASSUME NEW s \in Sessions, TurnStarts(s) PROVE Goal
  <2>1. Head(srv[s].inbox) \in Nat
    BY <1>15, QueueEnds, ServerFields DEF TurnStarts, SessionType, ServerType
  <2>2. PICK f \in TuiEvents, g \in TuiEvents :
           /\ f.kind = "started" /\ f.of = s /\ g.kind = "accepted" /\ g.of = s
           /\ wire' = IF s \in subs THEN wire \o <<f, g>> ELSE wire
    BY <1>15, <2>1, EventKindsOk DEF TurnStarts
  <2>3. /\ UNCHANGED <<subs, shown, panels, working>> /\ srv'[s].working
        /\ \A v \in Sessions \ {s} : srv'[v] = srv[v]
    BY <1>15 DEF TurnStarts, Accept, appVars, SessionType, ServerType, Servers
  <2>4. CASE s \notin subs
    BY <1>a, <2>2, <2>3, <2>4 DEF SessionType, ServerType
  <2>5. CASE s \in subs
    <3>1. /\ Len(wire) \in Nat /\ Len(wire') = Len(wire) + 2
          /\ \A i \in 1..Len(wire) : wire'[i] = wire[i]
          /\ \A i \in (Len(wire) + 1)..Len(wire') : wire'[i] \in {f, g}
      BY <2>2, <2>5 DEF SessionType, FlowType
    <3>2. \A v : v # s => Spared(v)
      BY <2>2, <3>1 DEF Spared
    <3>3. \A v \in subs' : ~srv'[v].working => v \in subs /\ ~srv[v].working /\ Spared(v)
      BY <2>3, <3>2 DEF SessionType, ServerType
    <3>4. \A i \in (Len(wire) + 1)..Len(wire') : wire'[i].kind # "sync"
      BY <2>2, <3>1
    <3>5. Len(wire') \in Nat /\ Len(wire) <= Len(wire')
      BY <3>1
    <3> QED
      BY <2>3, <3>1, <3>3, <3>4, <3>5, ViewGrows DEF Goal
  <2> QED
    BY <2>4, <2>5
<1>16. ASSUME NEW s \in Sessions, TurnSteered(s) PROVE Goal
  <2>1. Head(srv[s].inbox) \in Nat
    BY <1>16, QueueEnds, ServerFields DEF TurnSteered, SessionType, ServerType
  <2>2. PICK f \in TuiEvents : f.kind = "accepted" /\ f.of = s /\ Tell(f)
    BY <1>16, <2>1, EventKindsOk DEF TurnSteered
  <2>3. /\ UNCHANGED <<subs, shown, panels, working>>
        /\ \A v \in Sessions \ {s} : srv'[v] = srv[v]
        /\ srv'[s].working
    BY <1>16 DEF TurnSteered, Accept, appVars, SessionType, ServerType, Servers
  <2>4. \A v \in subs : ~srv'[v].working =>
           \/ f.of = v /\ f.kind \in EndKinds
           \/ ~srv[v].working /\ ~(f.of = v /\ f.kind \in StartKinds)
    BY <2>2, <2>3 DEF EndKinds, StartKinds, SessionType, ServerType
  <2> QED
    BY <2>2, <2>3, <2>4, ViewTold DEF Goal
<1>17. ASSUME NEW s \in Sessions, TurnAsks(s) PROVE Goal
  <2>1. asks' \in 1..MaxAsks
    BY <1>17 DEF TurnAsks, SessionType, ServerType, SessionConstants
  <2>2. PICK f \in TuiEvents : f.kind = "ask" /\ f.of = s /\ Tell(f)
    BY <1>17, <2>1, EventKindsOk DEF TurnAsks
  <2>3. /\ UNCHANGED <<subs, shown, panels, working>>
        /\ \A v \in Sessions \ {s} : srv'[v] = srv[v]
        /\ srv'[s].working
    BY <1>17 DEF TurnAsks, Accept, appVars, SessionType, ServerType, Servers
  <2>4. \A v \in subs : ~srv'[v].working =>
           \/ f.of = v /\ f.kind \in EndKinds
           \/ ~srv[v].working /\ ~(f.of = v /\ f.kind \in StartKinds)
    BY <2>2, <2>3 DEF EndKinds, StartKinds, SessionType, ServerType
  <2> QED
    BY <2>2, <2>3, <2>4, ViewTold DEF Goal
<1>18. ASSUME NEW s \in Sessions, TurnEnds(s) PROVE Goal
  <2>1. s \in Sessions
    OBVIOUS
  <2>2. PICK f \in TuiEvents : f.kind = "done" /\ f.of = s /\ Tell(f)
    BY <1>18, <2>1, EventKindsOk DEF TurnEnds
  <2>3. /\ UNCHANGED <<subs, shown, panels, working>>
        /\ \A v \in Sessions \ {s} : srv'[v] = srv[v]
    BY <1>18 DEF TurnEnds, Accept, appVars, SessionType, ServerType, Servers
  <2>4. \A v \in subs : ~srv'[v].working =>
           \/ f.of = v /\ f.kind \in EndKinds
           \/ ~srv[v].working /\ ~(f.of = v /\ f.kind \in StartKinds)
    BY <2>2, <2>3 DEF EndKinds, StartKinds, SessionType, ServerType
  <2> QED
    BY <2>2, <2>3, <2>4, ViewTold DEF Goal
<1>19. CASE SyncSession
  <2>1. /\ wire # <<>> /\ wire' = Tail(wire) /\ srv' = srv /\ subs' = subs
        /\ Event.kind = "sync" /\ shown' = Event.of /\ working' = Event.working
        /\ panels' = IF Event.ask = NoAsk THEN <<>> ELSE <<Event.ask>>
    BY <1>19 DEF SyncSession, Receive, outside
  <2>2. Handled(Event)
    BY <2>1 DEF Handled
  <2> QED
    BY <1>c, <2>1, <2>2
<1>20. CASE ForeignEvent
  <2>1. /\ wire # <<>> /\ wire' = Tail(wire) /\ srv' = srv /\ subs' = subs /\ shown' = shown
        /\ Event.kind # "sync" /\ Event.of # shown /\ UNCHANGED <<panels, working>>
    BY <1>20 DEF ForeignEvent, Here, appVars, outside
  <2>2. Handled(Event)
    BY <2>1 DEF Handled, EndKinds, StartKinds
  <2> QED
    BY <1>c, <2>1, <2>2
<1>21. CASE TurnStarted
  <2>1. /\ wire # <<>> /\ wire' = Tail(wire) /\ srv' = srv /\ subs' = subs /\ shown' = shown
        /\ Event.kind = "started" /\ Event.of = shown /\ panels' = panels
    BY <1>21 DEF TurnStarted, Here, Receive, outside
  <2>2. Handled(Event)
    BY <2>1 DEF Handled, EndKinds, StartKinds
  <2> QED
    BY <1>c, <2>1, <2>2
<1>22. CASE UserMessageAccepted
  <2>1. /\ wire # <<>> /\ wire' = Tail(wire) /\ srv' = srv /\ subs' = subs /\ shown' = shown
        /\ Event.kind = "accepted" /\ UNCHANGED <<panels, working>>
    BY <1>22 DEF UserMessageAccepted, Receive, outside
  <2>2. Handled(Event)
    BY <2>1 DEF Handled, EndKinds, StartKinds
  <2> QED
    BY <1>c, <2>1, <2>2
<1>23. CASE Done
  <2>1. /\ wire # <<>> /\ wire' = Tail(wire) /\ srv' = srv /\ subs' = subs /\ shown' = shown
        /\ Event.kind = "done" /\ working' = FALSE /\ panels' = <<>>
    BY <1>23 DEF Done, Receive, EndOfTurn, outside
  <2>2. Handled(Event)
    BY <2>1 DEF Handled, EndKinds, StartKinds
  <2> QED
    BY <1>c, <2>1, <2>2
<1>24. CASE Interrupted
  <2>1. /\ wire # <<>> /\ wire' = Tail(wire) /\ srv' = srv /\ subs' = subs /\ shown' = shown
        /\ Event.kind = "interrupted" /\ working' = FALSE /\ panels' = <<>>
    BY <1>24 DEF Interrupted, Receive, EndOfTurn, outside
  <2>2. Handled(Event)
    BY <2>1 DEF Handled, EndKinds, StartKinds
  <2> QED
    BY <1>c, <2>1, <2>2
<1>25. CASE Ask
  <2>1. /\ wire # <<>> /\ wire' = Tail(wire) /\ srv' = srv /\ subs' = subs /\ shown' = shown
        /\ Event.kind = "ask" /\ Event.of = shown /\ working' = working
    BY <1>25 DEF Ask, Here, Receive, outside
  <2>2. Handled(Event)
    BY <2>1 DEF Handled, EndKinds, StartKinds
  <2> QED
    BY <1>c, <2>1, <2>2
<1>26. CASE Error
  <2>1. /\ wire # <<>> /\ wire' = Tail(wire) /\ srv' = srv /\ subs' = subs /\ shown' = shown
        /\ Event.kind = "error" /\ working' = FALSE /\ panels' = <<>>
    BY <1>26 DEF Error, Receive, EndOfTurn, outside
  <2>2. Handled(Event)
    BY <2>1 DEF Handled, EndKinds, StartKinds
  <2> QED
    BY <1>c, <2>1, <2>2
<1>27. CASE UNCHANGED vars
  BY <1>27, <1>b DEF appVars, gwVars, vars, outside
<1> QED
  BY <1>1, <1>2, <1>3, <1>4, <1>5, <1>6, <1>7, <1>8, <1>9, <1>10, <1>11, <1>12, <1>13, <1>14,
     <1>15, <1>16, <1>17, <1>18, <1>19, <1>20, <1>21, <1>22, <1>23, <1>24, <1>25, <1>26, <1>27,
     SessionSplit

\* When every event is handled and the shown session's turn is over, no panel of a question
\* is open and the working flag is down, whatever was switched or lost on the way.
THEOREM TurnLeavesNothing ==
  ASSUME SessionConstants
  PROVE  Spec => []NothingOutlivesTheTurn
<1>1. Init => AskInv /\ ViewInv
  <2> SUFFICES ASSUME Init PROVE AskInv /\ ViewInv
    OBVIOUS
  <2>1. AskInv
    BY DEF Init, AskInv, Idle
  <2>2. Len(wire) = 0 /\ 0..0 = {0}
    BY DEF Init
  <2>3. Calm(0) /\ Rest(0, Viewed(0))
    BY <2>2 DEF Init, Calm, Rest
  <2>4. Settles(0)
    BY <2>2, <2>3 DEF Settles
  <2>5. \A k : LastBase(k) => k = 0
    BY <2>2 DEF LastBase
  <2> QED
    BY <2>1, <2>4, <2>5 DEF ViewInv
<1>2. SessionInv /\ AskInv /\ ViewInv /\ [Next]_vars => AskInv' /\ ViewInv'
  BY AskSteps, ViewSteps DEF SessionInv
<1>3. ViewInv => NothingOutlivesTheTurn
  <2> SUFFICES ASSUME ViewInv, wire = <<>>, shown \in subs, ~srv[shown].working
               PROVE  panels = <<>> /\ ~working
    BY DEF NothingOutlivesTheTurn, Settled
  <2>1. Len(wire) = 0 /\ 0..0 = {0}
    OBVIOUS
  <2>2. LastBase(0) /\ Viewed(0) = shown
    BY <2>1 DEF LastBase, Viewed
  <2>3. Settles(0)
    BY <2>2 DEF ViewInv
  <2> QED
    BY <2>1, <2>3 DEF Settles, Calm
<1> QED
  BY <1>1, <1>2, <1>3, SessionAlways, PTL DEF Spec

=============================================================================
