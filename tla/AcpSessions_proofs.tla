------------------------- MODULE AcpSessions_proofs --------------------------
(* Theorems about AcpSessions, for every value of its constants. *)
EXTENDS AcpSessions, SequenceTheorems, TLAPS

-----------------------------------------------------------------------------
(* The invariant *)

EntryRec == [events : Tasks \cup {NoTask}, turn : BOOLEAN, attach : BOOLEAN,
             closing : BOOLEAN, cancel : BOOLEAN]
EventRec == [kind : EventKinds, of : Tasks \cup {NoTask, Ghost}]
Outgoing == [kind : {"message", "answer"}, of : Prompts]
GatewayRec == [inbox : Seq(Prompts \cup {Ghost}), turn : Prompts \cup {Ghost, NoTask},
               phase : {"idle", "run", "tail"}, waiter : BOOLEAN, asked : SUBSET Prompts,
               subscribed : BOOLEAN]

\* What TypeOK says of the elements of the queues, and of the gateway, said of the whole.
HubType ==
    /\ made \in 0..MaxEntries /\ table \in 0..made
    /\ entries \in [1..MaxEntries -> EntryRec]
    /\ gate \in [1..MaxEntries -> Seq(Tasks)]
PumpType == streamDead \in BOOLEAN /\ pump \in {"run", "dead", "draining", "closed"}
TaskType ==
    /\ pc \in [Tasks -> Places] /\ reply \in [Tasks -> Replies]
    /\ ent \in [Tasks -> 0..MaxEntries] /\ created \in [Tasks -> BOOLEAN]
    /\ rx \in [Tasks -> Seq(EventRec)]
WireType ==
    /\ outbound \in Seq(Outgoing) /\ evq \in Seq(EventRec) /\ gw \in GatewayRec
    /\ interrupts \in [Prompts -> Nat] /\ mishaps \in 0..MaxMishaps
    /\ endedBy \in [Prompts -> EventRec]
TypeInv == HubType /\ PumpType /\ TaskType /\ WireType

-----------------------------------------------------------------------------
(* Steps *)

LEMMA NextSplit ==
  ASSUME Next
  PROVE  \/ NewSession \/ ClientCancel \/ StreamEnds \/ PumpDispatch \/ PumpSend
         \/ FailInFlight \/ PumpCloses \/ Gateway
         \/ \E p \in Prompts :
              \/ PromptStart(p) \/ TakeGate(p) \/ PromptArm(p) \/ SendQueued(p)
              \/ PromptNext(p) \/ PromptStreamEnded(p) \/ AskAbandoned(p) \/ AskResolved(p)
              \/ PromptDrain(p) \/ PromptDrainOver(p)
         \/ \E l \in Loads :
              \/ LoadStart(l) \/ TakeGate(l) \/ LoadArm(l) \/ LoadSubscribe(l)
              \/ LoadSubscribeFails(l) \/ LoadRollback(l) \/ LoadRead(l) \/ LoadGivesUp(l)
              \/ LoadFinish(l)
         \/ \E c \in Closes :
              \/ CloseStart(c) \/ CloseCancel(c) \/ CloseReclaim(c) \/ CloseRemove(c)
              \/ CloseFinish(c)
BY DEF Next, PromptStep, LoadStep, CloseStep, Pump

\* Where a task holds the gate of its entry, and where its channel may be in the entry.
InGate == {"alive", "armed", "loop", "ask", "answer", "drain", "rollback", "snapshot",
           "facts"}
Armed == InGate \ {"alive"}

HoldsInv == \A t \in Tasks : pc[t] \in InGate => Holds(t)
EventsInv ==
    \A e \in 1..MaxEntries, t \in Tasks :
        entries[e].events = t => ent[t] = e /\ pc[t] \in Armed

\* Where a prompt's message has not been sent, and what says that it is somewhere.
Early == {"idle", "gate", "alive", "armed"}
Refusals == {"unknown", "disconnected"}
Sent(p) ==
    \/ \E i \in 1..Len(outbound) : outbound[i].of = p
    \/ gw.turn = p
    \/ \E i \in 1..Len(gw.inbox) : gw.inbox[i] = p

ReplyInv == \A p \in Prompts : pc[p] # "done" => reply[p] = "none"
SentInv == \A p \in Prompts : Sent(p) => pc[p] \notin Early /\ reply[p] \notin Refusals

Inv == TypeInv /\ HoldsInv /\ EventsInv /\ ReplyInv /\ SentInv

-----------------------------------------------------------------------------
(* The shapes of a step *)

\* What one step does to the entries.
Disarms ==
    \/ /\ entries' = [entries EXCEPT ![table] = Disarmed(@)]
       /\ table' = 0 \/ pump = "dead"
    \/ \E t \in Tasks : /\ entries' = [entries EXCEPT ![ent[t]] = Disarmed(@)]
                        /\ pc[t] \in Armed /\ pc'[t] = "done"
Marks ==
    \/ entries' = [entries EXCEPT ![table].closing = TRUE]
    \/ entries' = [entries EXCEPT ![table].cancel = TRUE]
Arms(t) ==
    /\ pc[t] = "alive" /\ ~entries[ent[t]].closing
    /\ \/ entries' = [entries EXCEPT ![ent[t]] = ArmTurn(@, t)]
       \/ entries' = [entries EXCEPT ![ent[t]] = ArmAttached(@, t)]
    /\ pc'[t] \in Armed /\ UNCHANGED <<ent, table, gw>>
EntryStep == entries' = entries \/ Disarms \/ Marks \/ \E t \in Tasks : Arms(t)

\* What one step does to the gates and to the places of the tasks.
Others(t) == \A u \in Tasks \ {t} : pc'[u] = pc[u] /\ ent'[u] = ent[u]
Stays == UNCHANGED <<pc, ent, gate>>
OutsideGate(t) ==
    /\ pc[t] \notin InGate /\ pc'[t] \notin InGate
    /\ \/ gate' = gate
       \/ gate' = [gate EXCEPT ![ent'[t]] = Append(@, t)] /\ pc'[t] \in {"gate", "wait"}
Enters(t) ==
    /\ Holds(t) /\ pc[t] = "gate" /\ pc'[t] = "alive" /\ IsCurrent(t)
    /\ UNCHANGED <<gate, ent, table>>
MovesOn(t) ==
    /\ pc[t] \in InGate /\ pc'[t] \in InGate
    /\ pc[t] \in Armed \/ Arms(t)
    /\ pc[t] \in Armed => pc'[t] \in Armed
    /\ UNCHANGED <<gate, ent>>
Leaves(t) ==
    /\ (pc[t] = "gate" /\ Holds(t)) \/ pc[t] \in InGate
    /\ pc'[t] = "done" /\ ent' = ent
    /\ Release(t)
    /\ pc[t] \in Armed => entries' = [entries EXCEPT ![ent[t]] = Disarmed(@)]
Reclaims(t) ==
    /\ pc[t] = "wait" /\ pc'[t] = "remove" /\ ent' = ent
    /\ \E i \in DOMAIN gate[ent[t]] :
          gate[ent[t]][i] = t /\ gate' = [gate EXCEPT ![ent[t]] = RemoveAt(@, i)]
GateStep ==
    \/ Stays
    \/ \E t \in Tasks : /\ Others(t)
                        /\ \/ OutsideGate(t) \/ Enters(t) \/ MovesOn(t)
                           \/ Leaves(t) \/ Reclaims(t)

\* A step leaves the entries alone, takes one down, marks one, or is the arming step
\* of a task that has looked at closing.
LEMMA EntrySteps ==
  ASSUME TypeInv, [Next]_vars
  PROVE  EntryStep
<1>1. CASE NewSession
  BY <1>1 DEF NewSession, EntryStep
<1>2. CASE ClientCancel
  BY <1>2 DEF ClientCancel, CancelTurn, Marks, EntryStep
<1>3. CASE StreamEnds
  BY <1>3 DEF StreamEnds, hubVars, EntryStep
<1>4. CASE PumpDispatch
  BY <1>4 DEF PumpDispatch, hubVars, EntryStep
<1>5. CASE PumpSend
  BY <1>5 DEF PumpSend, hubVars, EntryStep
<1>6. CASE FailInFlight
  BY <1>6 DEF FailInFlight, Disarms, Armed, InGate, Answer, Goto, EntryStep, TypeInv, TaskType
<1>7. CASE PumpCloses
  BY <1>7 DEF PumpCloses, hubVars, EntryStep
<1>8. CASE Gateway
  BY <1>8 DEF Gateway, hubVars, EntryStep
<1>9. ASSUME NEW t \in Prompts, PromptStart(t) PROVE EntryStep
  BY <1>9 DEF PromptStart, hubVars, EntryStep
<1>10. ASSUME NEW t \in Tasks, TakeGate(t) PROVE EntryStep
  BY <1>10 DEF TakeGate, RemoveEntry, Disarms, Armed, InGate, Answer, Goto, EntryStep,
     TypeInv, TaskType
<1>11. ASSUME NEW t \in Prompts, PromptArm(t) PROVE EntryStep
  BY <1>11 DEF PromptArm, Goto, Send, Arms, Armed, InGate, gwVars, EntryStep, Tasks, TypeInv,
     TaskType
<1>12. ASSUME NEW t \in Prompts, SendQueued(t) PROVE EntryStep
  BY <1>12 DEF SendQueued, hubVars, EntryStep
<1>13. ASSUME NEW t \in Prompts, PromptNext(t) PROVE EntryStep
  BY <1>13 DEF PromptNext, hubVars, EntryStep
<1>14. ASSUME NEW t \in Prompts, PromptStreamEnded(t) PROVE EntryStep
  BY <1>14 DEF PromptStreamEnded, DropHandle, Disarms, Armed, InGate, Answer, Goto, EntryStep,
     Tasks, TypeInv, TaskType
<1>15. ASSUME NEW t \in Prompts, AskAbandoned(t) PROVE EntryStep
  BY <1>15 DEF AskAbandoned, hubVars, EntryStep
<1>16. ASSUME NEW t \in Prompts, AskResolved(t) PROVE EntryStep
  BY <1>16 DEF AskResolved, hubVars, EntryStep
<1>17. ASSUME NEW t \in Prompts, PromptDrain(t) PROVE EntryStep
  BY <1>17 DEF PromptDrain, Finish, DropHandle, Disarms, Armed, InGate, Answer, Goto,
     EntryStep, Tasks, TypeInv, TaskType
<1>18. ASSUME NEW t \in Prompts, PromptDrainOver(t) PROVE EntryStep
  BY <1>18 DEF PromptDrainOver, Finish, DropHandle, Disarms, Armed, InGate, Answer, Goto,
     EntryStep, Tasks, TypeInv, TaskType
<1>19. ASSUME NEW t \in Loads, LoadStart(t) PROVE EntryStep
  BY <1>19 DEF LoadStart, EntryStep
<1>20. ASSUME NEW t \in Loads, LoadArm(t) PROVE EntryStep
  BY <1>20 DEF LoadArm, Goto, Arms, Armed, InGate, gwVars, EntryStep, Tasks, TypeInv, TaskType
<1>21. ASSUME NEW t \in Loads, LoadSubscribe(t) PROVE EntryStep
  BY <1>21 DEF LoadSubscribe, hubVars, EntryStep
<1>22. ASSUME NEW t \in Loads, LoadSubscribeFails(t) PROVE EntryStep
  BY <1>22 DEF LoadSubscribeFails, RemoveEntry, DropHandle, Disarms, Armed, InGate, Answer,
     Goto, EntryStep, Tasks, TypeInv, TaskType
<1>23. ASSUME NEW t \in Loads, LoadRollback(t) PROVE EntryStep
  BY <1>23 DEF LoadRollback, DropHandle, Disarms, Armed, InGate, Answer, Goto, EntryStep,
     Tasks, TypeInv, TaskType
<1>24. ASSUME NEW t \in Loads, LoadRead(t) PROVE EntryStep
  BY <1>24 DEF LoadRead, hubVars, EntryStep
<1>25. ASSUME NEW t \in Loads, LoadGivesUp(t) PROVE EntryStep
  BY <1>25 DEF LoadGivesUp, DropHandle, Disarms, Armed, InGate, Answer, Goto, EntryStep,
     Tasks, TypeInv, TaskType
<1>26. ASSUME NEW t \in Loads, LoadFinish(t) PROVE EntryStep
  BY <1>26 DEF LoadFinish, DropHandle, Disarms, Armed, InGate, Answer, Goto, EntryStep, Tasks,
     TypeInv, TaskType
<1>27. ASSUME NEW t \in Closes, CloseStart(t) PROVE EntryStep
  BY <1>27 DEF CloseStart, Marks, EntryStep
<1>28. ASSUME NEW t \in Closes, CloseCancel(t) PROVE EntryStep
  BY <1>28 DEF CloseCancel, CancelTurn, Marks, EntryStep
<1>29. ASSUME NEW t \in Closes, CloseReclaim(t) PROVE EntryStep
  BY <1>29 DEF CloseReclaim, hubVars, EntryStep
<1>30. ASSUME NEW t \in Closes, CloseRemove(t) PROVE EntryStep
  BY <1>30 DEF CloseRemove, RemoveEntry, Disarms, Armed, InGate, Answer, Goto, EntryStep,
     TypeInv, TaskType
<1>31. ASSUME NEW t \in Closes, CloseFinish(t) PROVE EntryStep
  BY <1>31 DEF CloseFinish, hubVars, EntryStep
<1>32. CASE UNCHANGED vars
  BY <1>32 DEF vars, EntryStep
<1> QED
  BY <1>1, <1>2, <1>3, <1>4, <1>5, <1>6, <1>7, <1>8, <1>9, <1>10, <1>11, <1>12,
      <1>13, <1>14, <1>15, <1>16, <1>17, <1>18, <1>19, <1>20, <1>21, <1>22, <1>23,
      <1>24, <1>25, <1>26, <1>27, <1>28, <1>29, <1>30, <1>31, <1>32, NextSplit DEF
      Tasks

\* Closing is remembered: none of the steps arms an entry that carries the mark.
LEMMA ClosedStaysQuiet ==
  ASSUME TypeInv, EntryStep
  PROVE  \A e \in 1..MaxEntries : entries[e].closing =>
             entries'[e].events \in {entries[e].events, NoTask}
<1> SUFFICES ASSUME NEW e \in 1..MaxEntries, entries[e].closing
             PROVE  entries'[e].events \in {entries[e].events, NoTask}
  OBVIOUS
<1>1. CASE entries' = entries
  BY <1>1
<1>2. ASSUME Disarms PROVE entries'[e].events \in {entries[e].events, NoTask}
  <2>1. entries'[e] \in {entries[e], Disarmed(entries[e])}
    BY <1>2 DEF Disarms, TypeInv, HubType
  <2>2. Disarmed(entries[e]).events = NoTask
    BY DEF Disarmed
  <2> QED
    BY <2>1, <2>2
<1>3. ASSUME Marks PROVE entries'[e].events \in {entries[e].events, NoTask}
  <2>1. entries'[e] \in {entries[e], [entries[e] EXCEPT !.closing = TRUE],
                         [entries[e] EXCEPT !.cancel = TRUE]}
    BY <1>3 DEF Marks, TypeInv, HubType
  <2> QED
    BY <2>1 DEF TypeInv, HubType, EntryRec
<1>4. ASSUME NEW t \in Tasks, Arms(t)
      PROVE  entries'[e].events \in {entries[e].events, NoTask}
  <2>1. ent[t] # e
    BY <1>4 DEF Arms
  <2> QED
    BY <1>4, <2>1 DEF Arms, TypeInv, HubType
<1> QED
  BY <1>1, <1>2, <1>3, <1>4 DEF EntryStep

\* One task moves at a time; it queues, takes the gate, works under it, or lets go of
\* it, taking its channel down first.
LEMMA GateSteps ==
  ASSUME TypeInv, [Next]_vars
  PROVE  GateStep
<1>1. CASE NewSession
  BY <1>1 DEF NewSession, Stays, GateStep
<1>2. CASE ClientCancel
  BY <1>2 DEF ClientCancel, Stays, GateStep
<1>3. CASE StreamEnds
  BY <1>3 DEF StreamEnds, Stays, GateStep
<1>4. CASE PumpDispatch
  BY <1>4 DEF PumpDispatch, Stays, GateStep
<1>5. CASE PumpSend
  BY <1>5 DEF PumpSend, Stays, GateStep
<1>6. CASE FailInFlight
  BY <1>6 DEF FailInFlight, Stays, GateStep
<1>7. CASE PumpCloses
  BY <1>7 DEF PumpCloses, Stays, GateStep
<1>8. CASE Gateway
  BY <1>8 DEF Gateway, Stays, GateStep
<1>9. ASSUME NEW t \in Prompts, PromptStart(t) PROVE GateStep
  BY <1>9 DEF PromptStart, OutsideGate, Queue, Answer, Others, InGate, Goto, GateStep,
     Tasks, TypeInv, TaskType
<1>10. ASSUME NEW t \in Tasks, TakeGate(t) PROVE GateStep
  BY <1>10 DEF TakeGate, Enters, Leaves, Answer, Armed, Others, InGate, Goto, GateStep,
     TypeInv, TaskType
<1>11. ASSUME NEW t \in Prompts, PromptArm(t) PROVE GateStep
  BY <1>11 DEF PromptArm, Arms, gwVars, MovesOn, Leaves, Answer, Send, Armed, Others, InGate, Goto,
     GateStep, Tasks, TypeInv, TaskType
<1>12. ASSUME NEW t \in Prompts, SendQueued(t) PROVE GateStep
  BY <1>12 DEF SendQueued, MovesOn, Armed, Send, Others, InGate, Goto, GateStep, Tasks,
     TypeInv, TaskType
<1>13. ASSUME NEW t \in Prompts, PromptNext(t) PROVE GateStep
  BY <1>13 DEF PromptNext, MovesOn, Armed, Others, InGate, Goto, GateStep, Tasks
<1>14. ASSUME NEW t \in Prompts, PromptStreamEnded(t) PROVE GateStep
  BY <1>14 DEF PromptStreamEnded, Leaves, DropHandle, Answer, Others, InGate, Goto,
     GateStep, Tasks, TypeInv, TaskType
<1>15. ASSUME NEW t \in Prompts, AskAbandoned(t) PROVE GateStep
  BY <1>15 DEF AskAbandoned, MovesOn, Armed, Others, InGate, Goto, GateStep, Tasks
<1>16. ASSUME NEW t \in Prompts, AskResolved(t) PROVE GateStep
  BY <1>16 DEF AskResolved, MovesOn, Armed, Send, Others, InGate, Goto, GateStep, Tasks,
     TypeInv, TaskType
<1>17. ASSUME NEW t \in Prompts, PromptDrain(t) PROVE GateStep
  BY <1>17 DEF PromptDrain, Leaves, Finish, DropHandle, Answer, Others, InGate, Goto,
     GateStep, Stays, Tasks, TypeInv, TaskType
<1>18. ASSUME NEW t \in Prompts, PromptDrainOver(t) PROVE GateStep
  BY <1>18 DEF PromptDrainOver, Leaves, Finish, DropHandle, Answer, Others, InGate,
     Goto, GateStep, Tasks, TypeInv, TaskType
<1>19. ASSUME NEW t \in Loads, LoadStart(t) PROVE GateStep
  BY <1>19 DEF LoadStart, OutsideGate, Queue, Answer, Others, InGate, Goto, GateStep,
     Tasks, TypeInv, TaskType
<1>20. ASSUME NEW t \in Loads, LoadArm(t) PROVE GateStep
  BY <1>20
     DEF LoadArm, Arms, gwVars, MovesOn, Leaves, Answer, Armed, Others, InGate, Goto,
     GateStep, Tasks, TypeInv, TaskType
<1>21. ASSUME NEW t \in Loads, LoadSubscribe(t) PROVE GateStep
  BY <1>21 DEF LoadSubscribe, MovesOn, Armed, Others, InGate, Goto, GateStep, Tasks
<1>22. ASSUME NEW t \in Loads, LoadSubscribeFails(t) PROVE GateStep
  BY <1>22 DEF LoadSubscribeFails, MovesOn, Leaves, DropHandle, Answer, Armed, Others,
     InGate, Goto, GateStep, Tasks, TypeInv, TaskType
<1>23. ASSUME NEW t \in Loads, LoadRollback(t) PROVE GateStep
  BY <1>23 DEF LoadRollback, Leaves, DropHandle, Answer, Others, InGate, Goto, GateStep,
     Tasks, TypeInv, TaskType
<1>24. ASSUME NEW t \in Loads, LoadRead(t) PROVE GateStep
  BY <1>24 DEF LoadRead, MovesOn, Armed, Others, InGate, Goto, GateStep, Tasks
<1>25. ASSUME NEW t \in Loads, LoadGivesUp(t) PROVE GateStep
  BY <1>25 DEF LoadGivesUp, Leaves, DropHandle, Answer, Others, InGate, Goto, GateStep,
     Tasks, TypeInv, TaskType
<1>26. ASSUME NEW t \in Loads, LoadFinish(t) PROVE GateStep
  BY <1>26 DEF LoadFinish, Leaves, DropHandle, Answer, Others, InGate, Goto, GateStep,
     Tasks, TypeInv, TaskType
<1>27. ASSUME NEW t \in Closes, CloseStart(t) PROVE GateStep
  BY <1>27 DEF CloseStart, OutsideGate, Answer, Others, InGate, Goto, GateStep, Tasks,
     TypeInv, HubType, TaskType
<1>28. ASSUME NEW t \in Closes, CloseCancel(t) PROVE GateStep
  BY <1>28 DEF CloseCancel, OutsideGate, Queue, Others, InGate, Goto, GateStep, Tasks,
     TypeInv, TaskType
<1>29. ASSUME NEW t \in Closes, CloseReclaim(t) PROVE GateStep
  BY <1>29 DEF CloseReclaim, Reclaims, Others, Goto, GateStep, Tasks, TypeInv, TaskType
<1>30. ASSUME NEW t \in Closes, CloseRemove(t) PROVE GateStep
  BY <1>30 DEF CloseRemove, OutsideGate, Others, InGate, Goto, GateStep, Tasks
<1>31. ASSUME NEW t \in Closes, CloseFinish(t) PROVE GateStep
  BY <1>31 DEF CloseFinish, OutsideGate, Answer, Others, InGate, Goto, GateStep, Tasks
<1>32. CASE UNCHANGED vars
  BY <1>32 DEF vars, GateStep, Stays
<1> QED
  BY <1>1, <1>2, <1>3, <1>4, <1>5, <1>6, <1>7, <1>8, <1>9, <1>10, <1>11, <1>12,
      <1>13, <1>14, <1>15, <1>16, <1>17, <1>18, <1>19, <1>20, <1>21, <1>22, <1>23,
      <1>24, <1>25, <1>26, <1>27, <1>28, <1>29, <1>30, <1>31, <1>32, NextSplit DEF
      Tasks
-----------------------------------------------------------------------------
(* The gate and the channel *)

\* The head of a queue stays the head when somebody queues behind it.
LEMMA HeadOfAppend ==
  ASSUME NEW S, NEW q \in Seq(S), q # <<>>, NEW x \in S
  PROVE  Append(q, x) # <<>> /\ Head(Append(q, x)) = Head(q)
  OBVIOUS

\* Taking out a later element leaves the head, taking out any element shortens.
LEMMA HeadOfRemoveAt ==
  ASSUME NEW S, NEW q \in Seq(S), NEW i \in DOMAIN q
  PROVE  /\ RemoveAt(q, i) \in Seq(S)
         /\ i # 1 => RemoveAt(q, i) # <<>> /\ Head(RemoveAt(q, i)) = Head(q)
<1>1. i \in 1..Len(q) /\ Len(q) \in Nat
  OBVIOUS
<1>2. SubSeq(q, 1, i - 1) \in Seq(S) /\ SubSeq(q, i + 1, Len(q)) \in Seq(S)
  BY <1>1
<1>3. RemoveAt(q, i) \in Seq(S)
  BY <1>2 DEF RemoveAt
<1>4. ASSUME i # 1 PROVE RemoveAt(q, i) # <<>> /\ Head(RemoveAt(q, i)) = Head(q)
  <2>1. Len(SubSeq(q, 1, i - 1)) = i - 1 /\ i - 1 >= 1
    BY <1>1, <1>4
  <2>2. SubSeq(q, 1, i - 1)[1] = q[1]
    BY <1>1, <1>4
  <2>3. Len(RemoveAt(q, i)) >= 1 /\ RemoveAt(q, i)[1] = q[1]
    BY <1>2, <2>1, <2>2 DEF RemoveAt
  <2> QED
    BY <1>1, <1>3, <2>3
<1> QED
  BY <1>3, <1>4

\* Whoever works under a gate still holds it after any step.
LEMMA HoldsStep ==
  ASSUME TypeInv, HoldsInv, GateStep
  PROVE  HoldsInv'
<1> SUFFICES ASSUME NEW u \in Tasks, pc'[u] \in InGate PROVE Holds(u)'
  BY DEF HoldsInv
<1>1. CASE Stays
  BY <1>1 DEF Stays, HoldsInv, Holds
<1>2. ASSUME NEW t \in Tasks, Others(t),
             OutsideGate(t) \/ Enters(t) \/ MovesOn(t) \/ Leaves(t) \/ Reclaims(t)
      PROVE  Holds(u)'
  <2>1. CASE t = u
    <3>1. Enters(t) \/ MovesOn(t)
      BY <1>2, <2>1 DEF OutsideGate, Leaves, Reclaims, InGate
    <3> QED
      BY <2>1, <3>1 DEF Enters, MovesOn, HoldsInv, Holds
  <2>2. CASE t # u
    <3>1. pc[u] \in InGate /\ ent'[u] = ent[u] /\ Holds(u)
      BY <1>2, <2>2 DEF Others, HoldsInv
    <3> DEFINE e == ent[u]
    <3>2. /\ e \in 1..MaxEntries /\ gate[e] \in Seq(Tasks)
          /\ gate[e] # <<>> /\ Head(gate[e]) = u
      BY <3>1 DEF Holds, TypeInv, HubType, TaskType
    <3> SUFFICES gate'[e] # <<>> /\ Head(gate'[e]) = u
      BY <3>1, <3>2 DEF Holds
    <3>3. CASE gate'[e] = gate[e]
      BY <3>2, <3>3
    <3>4. CASE OutsideGate(t)
      <4>1. gate'[e] \in {gate[e], Append(gate[e], t)}
        BY <3>2, <3>4 DEF OutsideGate, TypeInv, HubType
      <4> QED
        BY <3>2, <4>1, HeadOfAppend
    <3>5. CASE Leaves(t)
      <4>1. Holds(t)
        BY <3>5 DEF Leaves, HoldsInv
      <4>2. ent[t] # e
        BY <2>2, <3>2, <4>1 DEF Holds
      <4> QED
        BY <3>2, <3>5, <4>2 DEF Leaves, Release
    <3>6. CASE Reclaims(t)
      <4>1. PICK i \in DOMAIN gate[ent[t]] :
               gate[ent[t]][i] = t /\ gate' = [gate EXCEPT ![ent[t]] = RemoveAt(@, i)]
        BY <3>6 DEF Reclaims
      <4>2. CASE ent[t] = e
        <5>1. i # 1
          BY <2>2, <3>2, <4>1, <4>2
        <5>2. gate'[e] = RemoveAt(gate[e], i)
          BY <3>2, <4>1, <4>2 DEF TypeInv, HubType
        <5> QED
          BY <3>2, <4>1, <4>2, <5>1, <5>2, HeadOfRemoveAt
      <4>3. CASE ent[t] # e
        BY <3>2, <4>1, <4>3
      <4> QED
        BY <4>2, <4>3
    <3> QED
      BY <1>2, <3>3, <3>4, <3>5, <3>6 DEF Enters, MovesOn
  <2> QED
    BY <2>1, <2>2
<1> QED
  BY <1>1, <1>2 DEF GateStep

\* A channel is in an entry only as long as its task works under that entry's gate.
LEMMA EventsStep ==
  ASSUME TypeInv, HoldsInv, EventsInv, GateStep, EntryStep
  PROVE  EventsInv'
<1> SUFFICES ASSUME NEW e \in 1..MaxEntries, NEW u \in Tasks, entries'[e].events = u
             PROVE  ent'[u] = e /\ pc'[u] \in Armed
  BY DEF EventsInv
<1>1. u # NoTask
  BY AcpConstants
<1>2. ASSUME NEW t \in Tasks, Arms(t), ent[t] = e
      PROVE  ent'[u] = e /\ pc'[u] \in Armed
  <2>1. entries'[e].events = t
    <3>1. entries'[e] \in {ArmTurn(entries[e], t), ArmAttached(entries[e], t)}
      BY <1>2 DEF Arms, TypeInv, HubType
    <3> QED
      BY <3>1 DEF ArmTurn, ArmAttached, TypeInv, HubType, EntryRec
  <2> QED
    BY <1>2, <2>1 DEF Arms
<1>3. ASSUME entries[e].events = u
      PROVE  ent'[u] = e /\ pc'[u] \in Armed
  <2>1. ent[u] = e /\ pc[u] \in Armed
    BY <1>3 DEF EventsInv
  <2>2. ASSUME Leaves(u) PROVE FALSE
    <3>1. entries'[e] = Disarmed(entries[e])
      BY <2>1, <2>2 DEF Leaves, TypeInv, HubType
    <3> QED
      BY <1>1, <3>1 DEF Disarmed
  <2> QED
    BY <2>1, <2>2 DEF GateStep, Stays, Others, OutsideGate, Enters, MovesOn, Reclaims,
       Armed, InGate
<1>4. ASSUME \A t \in Tasks : Arms(t) => ent[t] # e
      PROVE  entries'[e].events \in {entries[e].events, NoTask}
  <2>1. CASE entries' = entries
    BY <2>1
  <2>2. CASE Disarms
    <3>1. entries'[e] \in {entries[e], Disarmed(entries[e])}
      BY <2>2 DEF Disarms, TypeInv, HubType
    <3>2. Disarmed(entries[e]).events = NoTask
      BY DEF Disarmed
    <3> QED
      BY <3>1, <3>2
  <2>3. CASE Marks
    <3>1. entries'[e] \in {entries[e], [entries[e] EXCEPT !.closing = TRUE],
                           [entries[e] EXCEPT !.cancel = TRUE]}
      BY <2>3 DEF Marks, TypeInv, HubType
    <3> QED
      BY <3>1 DEF TypeInv, HubType, EntryRec
  <2>4. ASSUME NEW t \in Tasks, Arms(t) PROVE entries'[e] = entries[e]
    BY <1>4, <2>4 DEF Arms, TypeInv, HubType
  <2> QED
    BY <2>1, <2>2, <2>3, <2>4 DEF EntryStep
<1> QED
  BY <1>1, <1>2, <1>3, <1>4

-----------------------------------------------------------------------------
(* Types *)

\* Changing a function at one point, in its domain or not.
LEMMA ExceptType ==
  ASSUME NEW D, NEW R, NEW f \in [D -> R], NEW x, NEW y, x \in D => y \in R
  PROVE  [f EXCEPT ![x] = y] \in [D -> R]
OBVIOUS

LEMMA TableRange ==
  ASSUME TypeInv
  PROVE  table \in 0..MaxEntries
BY AcpConstants DEF TypeInv, HubType

LEMMA EventType ==
  ASSUME NEW k \in EventKinds, NEW o \in Tasks \cup {NoTask, Ghost}
  PROVE  Event(k, o) \in EventRec
BY DEF Event, EventRec

LEMMA EmitType ==
  ASSUME TypeInv, NEW s \in Seq(EventRec), Emit(s)
  PROVE  evq' \in Seq(EventRec)
BY DEF Emit, TypeInv, WireType

\* What waits for room in the pump's queue does not enter it.
LEMMA SendType ==
  ASSUME TypeInv, NEW p \in Prompts, NEW place,
         NEW m \in {Message(p), AskReply(p)}, Send(p, m, place)
  PROVE  outbound' \in Seq(Outgoing)
<1>1. m \in Outgoing
  BY DEF Message, AskReply, Outgoing
<1>2. Append(outbound, m) \in Seq(Outgoing)
  BY <1>1 DEF TypeInv, WireType
<1> QED
  BY <1>2 DEF Send

CountType ==
    made \in 0..MaxEntries /\ table \in 0..made /\ PumpType /\ mishaps \in 0..MaxMishaps

LEMMA CountStep ==
  ASSUME TypeInv, [Next]_vars
  PROVE  CountType'
<1>1. CASE NewSession
  BY <1>1, AcpConstants DEF NewSession, pumpVars, CountType, TypeInv, PumpType, WireType
<1>2. CASE ClientCancel
  BY <1>2, AcpConstants DEF ClientCancel, Mishap, pumpVars, CountType, TypeInv, HubType,
     PumpType, WireType
<1>3. CASE StreamEnds
  BY <1>3, AcpConstants DEF StreamEnds, Mishap, hubVars, CountType, TypeInv, HubType,
     PumpType, WireType
<1>4. CASE PumpDispatch
  BY <1>4, AcpConstants DEF PumpDispatch, hubVars, pumpVars, CountType, TypeInv,
     HubType, PumpType, WireType
<1>5. CASE PumpSend
  BY <1>5, AcpConstants DEF PumpSend, hubVars, pumpVars, CountType, TypeInv, HubType,
     PumpType, WireType
<1>6. CASE FailInFlight
  BY <1>6, AcpConstants DEF FailInFlight, CountType, TypeInv, HubType, PumpType,
     WireType
<1>7. CASE PumpCloses
  BY <1>7, AcpConstants DEF PumpCloses, hubVars, CountType, TypeInv, HubType, PumpType,
     WireType
<1>8. CASE Gateway
  BY <1>8, AcpConstants DEF Gateway, pumpVars, hubVars, CountType, TypeInv, HubType,
     PumpType, WireType
<1>9. ASSUME NEW t \in Prompts, PromptStart(t) PROVE CountType'
  BY <1>9, AcpConstants DEF PromptStart, hubVars, pumpVars, CountType, TypeInv, HubType,
     PumpType, WireType
<1>10. ASSUME NEW t \in Tasks, TakeGate(t) PROVE CountType'
  BY <1>10, AcpConstants DEF TakeGate, pumpVars, RemoveEntry, CountType, TypeInv,
     HubType, PumpType, WireType
<1>11. ASSUME NEW t \in Prompts, PromptArm(t) PROVE CountType'
  BY <1>11, AcpConstants DEF PromptArm, pumpVars, CountType, TypeInv, HubType, PumpType,
     WireType
<1>12. ASSUME NEW t \in Prompts, SendQueued(t) PROVE CountType'
  BY <1>12, AcpConstants DEF SendQueued, hubVars, pumpVars, CountType, TypeInv, HubType,
     PumpType, WireType
<1>13. ASSUME NEW t \in Prompts, PromptNext(t) PROVE CountType'
  BY <1>13, AcpConstants DEF PromptNext, hubVars, pumpVars, CountType, TypeInv, HubType,
     PumpType, WireType
<1>14. ASSUME NEW t \in Prompts, PromptStreamEnded(t) PROVE CountType'
  BY <1>14, AcpConstants DEF PromptStreamEnded, pumpVars, CountType, TypeInv, HubType,
     PumpType, WireType
<1>15. ASSUME NEW t \in Prompts, AskAbandoned(t) PROVE CountType'
  BY <1>15, AcpConstants DEF AskAbandoned, hubVars, pumpVars, CountType, TypeInv,
     HubType, PumpType, WireType
<1>16. ASSUME NEW t \in Prompts, AskResolved(t) PROVE CountType'
  BY <1>16, AcpConstants DEF AskResolved, hubVars, pumpVars, CountType, TypeInv,
     HubType, PumpType, WireType
<1>17. ASSUME NEW t \in Prompts, PromptDrain(t) PROVE CountType'
  BY <1>17, AcpConstants DEF PromptDrain, pumpVars, CountType, TypeInv, HubType,
     PumpType, WireType
<1>18. ASSUME NEW t \in Prompts, PromptDrainOver(t) PROVE CountType'
  BY <1>18, AcpConstants DEF PromptDrainOver, pumpVars, CountType, TypeInv, HubType,
     PumpType, WireType
<1>19. ASSUME NEW t \in Loads, LoadStart(t) PROVE CountType'
  BY <1>19, AcpConstants DEF LoadStart, Mishap, pumpVars, CountType, TypeInv, HubType,
     PumpType, WireType
<1>20. ASSUME NEW t \in Loads, LoadArm(t) PROVE CountType'
  BY <1>20, AcpConstants DEF LoadArm, pumpVars, CountType, TypeInv, HubType, PumpType,
     WireType
<1>21. ASSUME NEW t \in Loads, LoadSubscribe(t) PROVE CountType'
  BY <1>21, AcpConstants DEF LoadSubscribe, hubVars, pumpVars, CountType, TypeInv,
     HubType, PumpType, WireType
<1>22. ASSUME NEW t \in Loads, LoadSubscribeFails(t) PROVE CountType'
  BY <1>22, AcpConstants DEF LoadSubscribeFails, Mishap, pumpVars, RemoveEntry,
     CountType, TypeInv, HubType, PumpType, WireType
<1>23. ASSUME NEW t \in Loads, LoadRollback(t) PROVE CountType'
  BY <1>23, AcpConstants DEF LoadRollback, pumpVars, CountType, TypeInv, HubType,
     PumpType, WireType
<1>24. ASSUME NEW t \in Loads, LoadRead(t) PROVE CountType'
  BY <1>24, AcpConstants DEF LoadRead, hubVars, pumpVars, CountType, TypeInv, HubType,
     PumpType, WireType
<1>25. ASSUME NEW t \in Loads, LoadGivesUp(t) PROVE CountType'
  BY <1>25, AcpConstants DEF LoadGivesUp, pumpVars, CountType, TypeInv, HubType,
     PumpType, WireType
<1>26. ASSUME NEW t \in Loads, LoadFinish(t) PROVE CountType'
  BY <1>26, AcpConstants DEF LoadFinish, pumpVars, CountType, TypeInv, HubType,
     PumpType, WireType
<1>27. ASSUME NEW t \in Closes, CloseStart(t) PROVE CountType'
  BY <1>27, AcpConstants DEF CloseStart, Mishap, pumpVars, CountType, TypeInv, HubType,
     PumpType, WireType
<1>28. ASSUME NEW t \in Closes, CloseCancel(t) PROVE CountType'
  BY <1>28, AcpConstants DEF CloseCancel, pumpVars, CountType, TypeInv, HubType,
     PumpType, WireType
<1>29. ASSUME NEW t \in Closes, CloseReclaim(t) PROVE CountType'
  BY <1>29, AcpConstants DEF CloseReclaim, hubVars, pumpVars, CountType, TypeInv,
     HubType, PumpType, WireType
<1>30. ASSUME NEW t \in Closes, CloseRemove(t) PROVE CountType'
  BY <1>30, AcpConstants DEF CloseRemove, pumpVars, RemoveEntry, CountType, TypeInv,
     HubType, PumpType, WireType
<1>31. ASSUME NEW t \in Closes, CloseFinish(t) PROVE CountType'
  BY <1>31, AcpConstants DEF CloseFinish, hubVars, pumpVars, CountType, TypeInv,
     HubType, PumpType, WireType
<1>32. CASE UNCHANGED vars
  BY <1>32 DEF vars, CountType, TypeInv, HubType, PumpType, WireType
<1> QED
  BY <1>1, <1>2, <1>3, <1>4, <1>5, <1>6, <1>7, <1>8, <1>9, <1>10, <1>11, <1>12,
      <1>13, <1>14, <1>15, <1>16, <1>17, <1>18, <1>19, <1>20, <1>21, <1>22, <1>23,
      <1>24, <1>25, <1>26, <1>27, <1>28, <1>29, <1>30, <1>31, <1>32, NextSplit DEF
      Tasks

LEMMA TaskStep ==
  ASSUME TypeInv, [Next]_vars
  PROVE  TaskType'
<1>1. CASE NewSession
  BY <1>1 DEF NewSession, TypeInv, TaskType
<1>2. CASE ClientCancel
  BY <1>2 DEF ClientCancel, TypeInv, TaskType
<1>3. CASE StreamEnds
  BY <1>3 DEF StreamEnds, TypeInv, TaskType
<1>4. CASE PumpDispatch
  <2>1. Head(evq) \in EventRec
    BY <1>4, HeadTailProperties DEF PumpDispatch, TypeInv, WireType
  <2>2. \A u \in Tasks : Append(rx[u], Head(evq)) \in Seq(EventRec)
    BY <2>1 DEF TypeInv, TaskType
  <2>3. rx' \in [Tasks -> Seq(EventRec)]
    BY <1>4, <2>2 DEF PumpDispatch, TypeInv, TaskType
  <2> QED
    BY <1>4, <2>3 DEF PumpDispatch, TypeInv, TaskType
<1>5. CASE PumpSend
  BY <1>5 DEF PumpSend, TypeInv, TaskType
<1>6. CASE FailInFlight
  BY <1>6 DEF FailInFlight, TypeInv, TaskType
<1>7. CASE PumpCloses
  BY <1>7 DEF PumpCloses, TypeInv, TaskType
<1>8. CASE Gateway
  BY <1>8 DEF Gateway, TypeInv, TaskType
<1>9. ASSUME NEW t \in Prompts, PromptStart(t) PROVE TaskType'
  <2>1. ent' \in [Tasks -> 0..MaxEntries]
    BY <1>9, TableRange DEF PromptStart, TypeInv, TaskType
  <2> QED
    BY <1>9, <2>1 DEF PromptStart, Answer, Goto, Places, Replies, TypeInv, TaskType
<1>10. ASSUME NEW t \in Tasks, TakeGate(t) PROVE TaskType'
  BY <1>10 DEF TakeGate, Answer, Goto, Places, Replies, TypeInv, TaskType
<1>11. ASSUME NEW t \in Prompts, PromptArm(t) PROVE TaskType'
  BY <1>11 DEF PromptArm, Answer, Goto, Places, Replies, Send, TypeInv, TaskType
<1>12. ASSUME NEW t \in Prompts, SendQueued(t) PROVE TaskType'
  BY <1>12 DEF SendQueued, Goto, Places, Send, TypeInv, TaskType
<1>13. ASSUME NEW t \in Prompts, PromptNext(t) PROVE TaskType'
  BY <1>13 DEF PromptNext, Goto, Places, Tasks, TypeInv, TaskType
<1>14. ASSUME NEW t \in Prompts, PromptStreamEnded(t) PROVE TaskType'
  BY <1>14 DEF PromptStreamEnded, Answer, Goto, Places, Replies, DropHandle, TypeInv,
     TaskType
<1>15. ASSUME NEW t \in Prompts, AskAbandoned(t) PROVE TaskType'
  BY <1>15 DEF AskAbandoned, Goto, Places, TypeInv, TaskType
<1>16. ASSUME NEW t \in Prompts, AskResolved(t) PROVE TaskType'
  BY <1>16 DEF AskResolved, Goto, Places, Send, TypeInv, TaskType
<1>17. ASSUME NEW t \in Prompts, PromptDrain(t) PROVE TaskType'
  <2>1. CASE Head(rx[t]).kind = "done"
    <3>1. rx' = [rx EXCEPT ![t] = <<>>]
      BY <1>17, <2>1 DEF PromptDrain, Finish, DropHandle
    <3>2. rx' \in [Tasks -> Seq(EventRec)]
      BY <3>1, ExceptType DEF TypeInv, TaskType
    <3> QED
      BY <1>17, <2>1, <3>2 DEF PromptDrain, Finish, Answer, Goto, StopReason, Places,
         Replies, TypeInv, TaskType
  <2>2. CASE Head(rx[t]).kind # "done"
    <3>1. rx[t] \in Seq(EventRec) /\ rx[t] # <<>>
      BY <1>17 DEF PromptDrain, Tasks, TypeInv, TaskType
    <3>2. Tail(rx[t]) \in Seq(EventRec)
      BY <3>1
    <3> QED
      BY <1>17, <2>2, <3>2 DEF PromptDrain, TypeInv, TaskType
  <2> QED
    BY <2>1, <2>2
<1>18. ASSUME NEW t \in Prompts, PromptDrainOver(t) PROVE TaskType'
  BY <1>18 DEF PromptDrainOver, Answer, Goto, Places, Replies, Finish, DropHandle,
     StopReason, TypeInv, TaskType
<1>19. ASSUME NEW t \in Loads, LoadStart(t) PROVE TaskType'
  <2>1. ent' \in [Tasks -> 0..MaxEntries]
    <3>1. table' \in 0..MaxEntries
      BY <1>19, TableRange, CountStep, AcpConstants DEF CountType
    <3> QED
      BY <1>19, <3>1 DEF LoadStart, TypeInv, TaskType
  <2>2. created' \in [Tasks -> BOOLEAN]
    BY <1>19 DEF LoadStart, TypeInv, TaskType
  <2> QED
    BY <1>19, <2>1, <2>2 DEF LoadStart, Answer, Goto, Places, Replies, TypeInv, TaskType
<1>20. ASSUME NEW t \in Loads, LoadArm(t) PROVE TaskType'
  BY <1>20 DEF LoadArm, Answer, Goto, Places, Replies, TypeInv, TaskType
<1>21. ASSUME NEW t \in Loads, LoadSubscribe(t) PROVE TaskType'
  BY <1>21 DEF LoadSubscribe, Goto, Places, TypeInv, TaskType
<1>22. ASSUME NEW t \in Loads, LoadSubscribeFails(t) PROVE TaskType'
  <2>1. CASE created[t]
    BY <1>22, <2>1 DEF LoadSubscribeFails, Goto, Places, TypeInv, TaskType
  <2>2. CASE ~created[t]
    <3>1. rx' = [rx EXCEPT ![t] = <<>>]
      BY <1>22, <2>2 DEF LoadSubscribeFails, DropHandle
    <3>2. rx' \in [Tasks -> Seq(EventRec)]
      BY <3>1, ExceptType DEF TypeInv, TaskType
    <3>3. pc' = [pc EXCEPT ![t] = "done"] /\ reply' = [reply EXCEPT ![t] = "gateway"]
      BY <1>22, <2>2 DEF LoadSubscribeFails, Answer, Goto
    <3> QED
      BY <1>22, <3>2, <3>3 DEF LoadSubscribeFails, Places, Replies, TypeInv, TaskType
  <2> QED
    BY <2>1, <2>2
<1>23. ASSUME NEW t \in Loads, LoadRollback(t) PROVE TaskType'
  BY <1>23 DEF LoadRollback, Answer, Goto, Places, Replies, DropHandle, Tasks, TypeInv,
     TaskType
<1>24. ASSUME NEW t \in Loads, LoadRead(t) PROVE TaskType'
  BY <1>24 DEF LoadRead, Goto, Places, Tasks, TypeInv, TaskType
<1>25. ASSUME NEW t \in Loads, LoadGivesUp(t) PROVE TaskType'
  BY <1>25 DEF LoadGivesUp, Answer, Goto, Places, Replies, DropHandle, TypeInv, TaskType
<1>26. ASSUME NEW t \in Loads, LoadFinish(t) PROVE TaskType'
  BY <1>26 DEF LoadFinish, Answer, Goto, Places, Replies, DropHandle, Tasks, TypeInv,
     TaskType
<1>27. ASSUME NEW t \in Closes, CloseStart(t) PROVE TaskType'
  <2>1. ent' \in [Tasks -> 0..MaxEntries]
    BY <1>27, TableRange DEF CloseStart, TypeInv, TaskType
  <2> QED
    BY <1>27, <2>1 DEF CloseStart, Answer, Goto, Places, Replies, TypeInv, TaskType
<1>28. ASSUME NEW t \in Closes, CloseCancel(t) PROVE TaskType'
  BY <1>28 DEF CloseCancel, Goto, Places, TypeInv, TaskType
<1>29. ASSUME NEW t \in Closes, CloseReclaim(t) PROVE TaskType'
  BY <1>29 DEF CloseReclaim, Goto, Places, TypeInv, TaskType
<1>30. ASSUME NEW t \in Closes, CloseRemove(t) PROVE TaskType'
  BY <1>30 DEF CloseRemove, Goto, Places, TypeInv, TaskType
<1>31. ASSUME NEW t \in Closes, CloseFinish(t) PROVE TaskType'
  BY <1>31 DEF CloseFinish, Answer, Goto, Places, Replies, TypeInv, TaskType
<1>32. CASE UNCHANGED vars
  BY <1>32 DEF vars, TypeInv, TaskType
<1> QED
  BY <1>1, <1>2, <1>3, <1>4, <1>5, <1>6, <1>7, <1>8, <1>9, <1>10, <1>11, <1>12,
      <1>13, <1>14, <1>15, <1>16, <1>17, <1>18, <1>19, <1>20, <1>21, <1>22, <1>23,
      <1>24, <1>25, <1>26, <1>27, <1>28, <1>29, <1>30, <1>31, <1>32, NextSplit DEF
      Tasks

LEMMA WireStep ==
  ASSUME TypeInv, [Next]_vars
  PROVE  WireType'
<1>1. CASE NewSession
  BY <1>1 DEF NewSession, GatewayRec, TypeInv, WireType
<1>2. CASE ClientCancel
  <2>1. interrupts' \in [Prompts -> Nat]
    <3>1. \A x : [interrupts EXCEPT ![x] = @ + 1] \in [Prompts -> Nat]
      <4>1. \A x \in Prompts : interrupts[x] + 1 \in Nat
        BY DEF TypeInv, WireType
      <4> QED
        BY <4>1, ExceptType DEF TypeInv, WireType
    <3> QED
      BY <1>2, <3>1 DEF ClientCancel, CancelTurn
  <2>2. mishaps' \in 0..MaxMishaps
    BY CountStep DEF CountType
  <2> QED
    BY <1>2, <2>1, <2>2 DEF ClientCancel, TypeInv, WireType
<1>3. CASE StreamEnds
  <2>1. mishaps' \in 0..MaxMishaps /\ <<>> \in Seq(EventRec)
    BY CountStep DEF CountType
  <2> QED
    BY <1>3, <2>1 DEF StreamEnds, TypeInv, WireType
<1>4. CASE PumpDispatch
  BY <1>4 DEF PumpDispatch, TypeInv, WireType
<1>5. CASE PumpSend
  <2>1. Head(outbound) \in Outgoing /\ Tail(outbound) \in Seq(Outgoing)
    BY <1>5, HeadTailProperties DEF PumpSend, TypeInv, WireType
  <2>2. \A m \in Prompts \cup {Ghost} :
           [gw EXCEPT !.inbox = Append(@, m)] \in GatewayRec
    <3>1. \A m \in Prompts \cup {Ghost} : Append(gw.inbox, m) \in Seq(Prompts \cup {Ghost})
      BY DEF TypeInv, WireType, GatewayRec
    <3> QED
      BY <3>1 DEF TypeInv, WireType, GatewayRec
  <2>3. [gw EXCEPT !.waiter = FALSE] \in GatewayRec
    BY DEF TypeInv, WireType, GatewayRec
  <2>4. gw' \in GatewayRec
    BY <1>5, <2>1, <2>2, <2>3 DEF PumpSend, Outgoing
  <2> QED
    BY <1>5, <2>1, <2>4 DEF PumpSend, TypeInv, WireType
<1>6. CASE FailInFlight
  BY <1>6 DEF FailInFlight, gwVars, TypeInv, WireType
<1>7. CASE PumpCloses
  BY <1>7 DEF PumpCloses, gwVars, TypeInv, WireType
<1>8. CASE Gateway
  <2>1. gw.turn \in Tasks \cup {NoTask, Ghost} /\ gw \in GatewayRec
    BY DEF TypeInv, WireType, GatewayRec, Tasks
  <2>2. CASE GwTurn /\ UNCHANGED interrupts
    <3>1. /\ Head(gw.inbox) \in Prompts \cup {Ghost}
          /\ Tail(gw.inbox) \in Seq(Prompts \cup {Ghost})
      BY <2>1, <2>2, HeadTailProperties DEF GwTurn, GatewayRec
    <3>2. gw' \in GatewayRec
      BY <2>1, <2>2, <3>1 DEF GwTurn, GatewayRec
    <3> QED
      BY <1>8, <2>2, <3>2 DEF Gateway, GwTurn, TypeInv, WireType
  <2>3. CASE GwAsk /\ UNCHANGED interrupts
    <3>1. gw' \in GatewayRec
      BY <2>1, <2>3 DEF GwAsk, GatewayRec
    <3>2. Event("ask", gw.turn) \in EventRec
      BY <2>1, EventType DEF EventKinds
    <3>3. evq' \in Seq(EventRec)
      <4>1. <<Event("ask", gw.turn)>> \in Seq(EventRec)
        BY <3>2
      <4> QED
        BY <2>3, <4>1, EmitType DEF GwAsk
    <3> QED
      BY <1>8, <2>3, <3>1, <3>3 DEF Gateway, TypeInv, WireType
  <2>4. CASE GwResult /\ UNCHANGED interrupts
    <3>1. gw' \in GatewayRec
      BY <2>1, <2>4 DEF GwResult, GatewayRec
    <3>2. Event("turn_result", gw.turn) \in EventRec
      BY <2>1, EventType DEF EventKinds
    <3>3. evq' \in Seq(EventRec)
      <4>1. <<Event("turn_result", gw.turn)>> \in Seq(EventRec)
        BY <3>2
      <4> QED
        BY <2>4, <4>1, EmitType DEF GwResult
    <3> QED
      BY <1>8, <2>4, <3>1, <3>3 DEF Gateway, TypeInv, WireType
  <2>5. CASE GwTail /\ UNCHANGED interrupts
    <3>1. gw' \in GatewayRec
      BY <2>1, <2>5 DEF GwTail, GatewayRec
    <3>2. Event("error", gw.turn) \in EventRec /\ Event("done", gw.turn) \in EventRec
      BY <2>1, EventType DEF EventKinds
    <3>3. evq' \in Seq(EventRec)
      <4>1. PICK failed \in BOOLEAN :
               Emit((IF failed THEN <<Event("error", gw.turn)>> ELSE <<>>)
                    \o <<Event("done", gw.turn)>>)
        BY <2>5 DEF GwTail
      <4>2. (IF failed THEN <<Event("error", gw.turn)>> ELSE <<>>)
               \o <<Event("done", gw.turn)>> \in Seq(EventRec)
        BY <3>2
      <4> QED
        BY <4>1, <4>2, EmitType
    <3> QED
      BY <1>8, <2>5, <3>1, <3>3 DEF Gateway, TypeInv, WireType
  <2>6. ASSUME NEW p \in Prompts, GwInterrupt(p) PROVE WireType'
    <3>1. gw' \in GatewayRec
      <4>1. <<>> \in Seq(Prompts \cup {Ghost})
        OBVIOUS
      <4> QED
        BY <2>1, <2>6, <4>1 DEF GwInterrupt, GatewayRec
    <3>2. Event("interrupted", p) \in EventRec
      BY EventType DEF EventKinds, Tasks
    <3>3. evq' \in Seq(EventRec)
      <4>1. <<Event("interrupted", p)>> \in Seq(EventRec)
        BY <3>2
      <4> QED
        BY <2>6, <4>1, EmitType DEF GwInterrupt
    <3>4. interrupts' \in [Prompts -> Nat]
      BY <2>6 DEF GwInterrupt, TypeInv, WireType
    <3> QED
      BY <1>8, <3>1, <3>3, <3>4 DEF Gateway, TypeInv, WireType
  <2> QED
    BY <1>8, <2>2, <2>3, <2>4, <2>5, <2>6 DEF Gateway
<1>9. ASSUME NEW t \in Prompts, PromptStart(t) PROVE WireType'
  BY <1>9 DEF PromptStart, gwVars, TypeInv, WireType
<1>10. ASSUME NEW t \in Tasks, TakeGate(t) PROVE WireType'
  BY <1>10 DEF TakeGate, gwVars, TypeInv, WireType
<1>11. ASSUME NEW t \in Prompts, PromptArm(t) PROVE WireType'
  <2>1. outbound' \in Seq(Outgoing)
    BY <1>11, SendType DEF PromptArm, TypeInv, WireType
  <2> QED
    BY <1>11, <2>1 DEF PromptArm, gwVars, TypeInv, WireType
<1>12. ASSUME NEW t \in Prompts, SendQueued(t) PROVE WireType'
  <2>1. outbound' \in Seq(Outgoing)
    BY <1>12, SendType DEF SendQueued
  <2> QED
    BY <1>12, <2>1 DEF SendQueued, gwVars, TypeInv, WireType
<1>13. ASSUME NEW t \in Prompts, PromptNext(t) PROVE WireType'
  BY <1>13 DEF PromptNext, gwVars, Tasks, TypeInv, TaskType, WireType
<1>14. ASSUME NEW t \in Prompts, PromptStreamEnded(t) PROVE WireType'
  BY <1>14 DEF PromptStreamEnded, gwVars, TypeInv, WireType
<1>15. ASSUME NEW t \in Prompts, AskAbandoned(t) PROVE WireType'
  BY <1>15 DEF AskAbandoned, gwVars, TypeInv, WireType
<1>16. ASSUME NEW t \in Prompts, AskResolved(t) PROVE WireType'
  <2>1. outbound' \in Seq(Outgoing)
    BY <1>16, SendType DEF AskResolved
  <2> QED
    BY <1>16, <2>1 DEF AskResolved, gwVars, TypeInv, WireType
<1>17. ASSUME NEW t \in Prompts, PromptDrain(t) PROVE WireType'
  BY <1>17 DEF PromptDrain, gwVars, TypeInv, WireType
<1>18. ASSUME NEW t \in Prompts, PromptDrainOver(t) PROVE WireType'
  BY <1>18 DEF PromptDrainOver, gwVars, TypeInv, WireType
<1>19. ASSUME NEW t \in Loads, LoadStart(t) PROVE WireType'
  <2>1. mishaps' \in 0..MaxMishaps /\ <<>> \in Seq(EventRec)
    BY CountStep DEF CountType
  <2> QED
    BY <1>19, <2>1 DEF LoadStart, gwVars, TypeInv, WireType
<1>20. ASSUME NEW t \in Loads, LoadArm(t) PROVE WireType'
  BY <1>20 DEF LoadArm, gwVars, TypeInv, WireType
<1>21. ASSUME NEW t \in Loads, LoadSubscribe(t) PROVE WireType'
  <2>1. gw' \in GatewayRec
    BY <1>21 DEF LoadSubscribe, GatewayRec, TypeInv, WireType
  <2>2. Event("sync_session", t) \in EventRec
    BY EventType DEF Tasks, EventKinds
  <2>3. evq' \in Seq(EventRec)
    BY <1>21, <2>2 DEF LoadSubscribe, TypeInv, WireType
  <2> QED
    BY <1>21, <2>1, <2>3 DEF LoadSubscribe, TypeInv, WireType
<1>22. ASSUME NEW t \in Loads, LoadSubscribeFails(t) PROVE WireType'
  <2>1. gw' \in GatewayRec
    BY <1>22 DEF LoadSubscribeFails, GatewayRec, TypeInv, WireType
  <2>2. mishaps' \in 0..MaxMishaps
    BY CountStep DEF CountType
  <2> QED
    BY <1>22, <2>1, <2>2 DEF LoadSubscribeFails, TypeInv, WireType
<1>23. ASSUME NEW t \in Loads, LoadRollback(t) PROVE WireType'
  BY <1>23 DEF LoadRollback, GatewayRec, TypeInv, WireType
<1>24. ASSUME NEW t \in Loads, LoadRead(t) PROVE WireType'
  BY <1>24 DEF LoadRead, gwVars, TypeInv, WireType
<1>25. ASSUME NEW t \in Loads, LoadGivesUp(t) PROVE WireType'
  BY <1>25 DEF LoadGivesUp, gwVars, TypeInv, WireType
<1>26. ASSUME NEW t \in Loads, LoadFinish(t) PROVE WireType'
  BY <1>26 DEF LoadFinish, gwVars, TypeInv, WireType
<1>27. ASSUME NEW t \in Closes, CloseStart(t) PROVE WireType'
  <2>1. mishaps' \in 0..MaxMishaps /\ <<>> \in Seq(EventRec)
    BY CountStep DEF CountType
  <2> QED
    BY <1>27, <2>1 DEF CloseStart, gwVars, TypeInv, WireType
<1>28. ASSUME NEW t \in Closes, CloseCancel(t) PROVE WireType'
  <2>1. interrupts' \in [Prompts -> Nat]
    BY SMTT(30), <1>28 DEF CloseCancel, CancelTurn, TypeInv, WireType
  <2> QED
    BY <1>28, <2>1 DEF CloseCancel, TypeInv, WireType
<1>29. ASSUME NEW t \in Closes, CloseReclaim(t) PROVE WireType'
  BY <1>29 DEF CloseReclaim, gwVars, TypeInv, WireType
<1>30. ASSUME NEW t \in Closes, CloseRemove(t) PROVE WireType'
  BY <1>30 DEF CloseRemove, gwVars, TypeInv, WireType
<1>31. ASSUME NEW t \in Closes, CloseFinish(t) PROVE WireType'
  BY <1>31 DEF CloseFinish, GatewayRec, TypeInv, WireType
<1>32. CASE UNCHANGED vars
  BY <1>32 DEF vars, TypeInv, WireType
<1> QED
  BY <1>1, <1>2, <1>3, <1>4, <1>5, <1>6, <1>7, <1>8, <1>9, <1>10, <1>11, <1>12,
      <1>13, <1>14, <1>15, <1>16, <1>17, <1>18, <1>19, <1>20, <1>21, <1>22, <1>23,
      <1>24, <1>25, <1>26, <1>27, <1>28, <1>29, <1>30, <1>31, <1>32, NextSplit DEF
      Tasks

LEMMA HubStep ==
  ASSUME TypeInv, HoldsInv, [Next]_vars
  PROVE  HubType'
<1>1. made' \in 0..MaxEntries /\ table' \in 0..made'
  BY CountStep DEF CountType
<1>2. entries' \in [1..MaxEntries -> EntryRec]
  <2>1. \A en \in EntryRec, t \in Tasks :
           {Disarmed(en), ArmTurn(en, t), ArmAttached(en, t), [en EXCEPT !.closing = TRUE],
            [en EXCEPT !.cancel = TRUE]} \subseteq EntryRec
    BY DEF Disarmed, ArmTurn, ArmAttached, EntryRec
  <2>2. EntryStep
    BY EntrySteps
  <2>3. \A en \in EntryRec : Disarmed(en) \in EntryRec
    BY ZenonT(30), <2>1, AcpConstants DEF Disarmed, EntryRec
  <2>4. CASE Disarms
    BY <2>3, <2>4 DEF Disarms, TypeInv, HubType
  <2>5. CASE Marks
    <3> DEFINE closed == [entries[table] EXCEPT !.closing = TRUE]
               called == [entries[table] EXCEPT !.cancel = TRUE]
    <3>1. entries' \in {[entries EXCEPT ![table] = closed], [entries EXCEPT ![table] = called]}
      BY <2>5 DEF Marks
    <3>2. table \in 1..MaxEntries => closed \in EntryRec /\ called \in EntryRec
      BY DEF EntryRec, TypeInv, HubType
    <3> HIDE DEF closed, called
    <3> QED
      BY <3>1, <3>2, ExceptType DEF TypeInv, HubType
  <2>6. ASSUME NEW t \in Tasks, Arms(t) PROVE entries' \in [1..MaxEntries -> EntryRec]
    <3>1. entries' \in {[entries EXCEPT ![ent[t]] = ArmTurn(entries[ent[t]], t)],
                        [entries EXCEPT ![ent[t]] = ArmAttached(entries[ent[t]], t)]}
      BY <2>6 DEF Arms
    <3>2. ent[t] \in 1..MaxEntries => /\ ArmTurn(entries[ent[t]], t) \in EntryRec
                                      /\ ArmAttached(entries[ent[t]], t) \in EntryRec
      BY <2>1 DEF TypeInv, HubType
    <3> QED
      BY <3>1, <3>2, ExceptType DEF TypeInv, HubType
  <2> QED
    BY <2>2, <2>4, <2>5, <2>6 DEF EntryStep, TypeInv, HubType
<1>3. gate' \in [1..MaxEntries -> Seq(Tasks)]
  <2>1. GateStep
    BY GateSteps
  <2>2. CASE Stays
    BY <2>2 DEF Stays, TypeInv, HubType
  <2>3. ASSUME NEW t \in Tasks, OutsideGate(t) PROVE gate' \in [1..MaxEntries -> Seq(Tasks)]
    <3>1. \A q \in Seq(Tasks) : Append(q, t) \in Seq(Tasks)
      OBVIOUS
    <3>2. CASE gate' = [gate EXCEPT ![ent'[t]] = Append(@, t)]
      BY <3>1, <3>2 DEF TypeInv, HubType
    <3> QED
      BY <2>3, <3>2 DEF OutsideGate, TypeInv, HubType
  <2>4. ASSUME NEW t \in Tasks, Leaves(t) PROVE gate' \in [1..MaxEntries -> Seq(Tasks)]
    <3>1. gate[ent[t]] # <<>>
      BY <2>4 DEF Leaves, HoldsInv, Holds
    <3>2. ent[t] \in 1..MaxEntries => Tail(gate[ent[t]]) \in Seq(Tasks)
      BY <3>1 DEF TypeInv, HubType
    <3> QED
      BY <2>4, <3>2 DEF Leaves, Release, TypeInv, HubType
  <2>5. ASSUME NEW t \in Tasks, Reclaims(t) PROVE gate' \in [1..MaxEntries -> Seq(Tasks)]
    <3>1. PICK i \in DOMAIN gate[ent[t]] : gate' = [gate EXCEPT ![ent[t]] = RemoveAt(@, i)]
      BY <2>5 DEF Reclaims
    <3>2. CASE ent[t] \in 1..MaxEntries
      BY <3>1, <3>2, HeadOfRemoveAt DEF TypeInv, HubType
    <3>3. CASE ent[t] \notin 1..MaxEntries
      BY <3>1, <3>3 DEF TypeInv, HubType
    <3> QED
      BY <3>2, <3>3
  <2> QED
    BY <2>1, <2>2, <2>3, <2>4, <2>5 DEF GateStep, Enters, MovesOn, TypeInv, HubType
<1> QED
  BY <1>1, <1>2, <1>3 DEF HubType

-----------------------------------------------------------------------------
(* Answers and messages *)

\* A prompt keeps its place and answer, moves on unanswered, or ends: refused only if
\* its message is still with it.
AnswerStep(p) ==
    \/ pc'[p] = pc[p] /\ reply'[p] = reply[p]
    \/ /\ pc[p] # "done" /\ pc'[p] # "done" /\ reply'[p] = reply[p]
       /\ pc'[p] \in Early => pc[p] \in Early
    \/ pc[p] # "done" /\ pc'[p] = "done" /\ (reply'[p] \in Refusals => pc[p] \in Early)
Sends(p) == pc[p] \in {"alive", "armed", "ask", "answer"} /\ pc'[p] = "loop" /\ reply' = reply

LEMMA AnswerSteps ==
  ASSUME TypeInv, [Next]_vars, NEW p \in Prompts
  PROVE  AnswerStep(p)
<1>1. CASE NewSession
  BY <1>1, AcpConstants DEF NewSession, AnswerStep
<1>2. CASE ClientCancel
  BY <1>2, AcpConstants DEF ClientCancel, AnswerStep
<1>3. CASE StreamEnds
  BY <1>3, AcpConstants DEF StreamEnds, AnswerStep
<1>4. CASE PumpDispatch
  BY <1>4, AcpConstants DEF PumpDispatch, AnswerStep
<1>5. CASE PumpSend
  BY <1>5, AcpConstants DEF PumpSend, AnswerStep
<1>6. CASE FailInFlight
  BY <1>6, AcpConstants DEF FailInFlight, AnswerStep
<1>7. CASE PumpCloses
  BY <1>7, AcpConstants DEF PumpCloses, AnswerStep
<1>8. CASE Gateway
  BY <1>8, AcpConstants DEF Gateway, AnswerStep
<1>9. ASSUME NEW t \in Prompts, PromptStart(t) PROVE AnswerStep(p)
  BY <1>9, AcpConstants DEF PromptStart, Answer, Goto, AnswerStep, Early, Tasks,
     TypeInv, TaskType
<1>10. ASSUME NEW t \in Tasks, TakeGate(t) PROVE AnswerStep(p)
  BY <1>10, AcpConstants DEF TakeGate, Answer, Goto, AnswerStep, Early, Tasks, TypeInv,
     TaskType
<1>11. ASSUME NEW t \in Prompts, PromptArm(t) PROVE AnswerStep(p)
  BY <1>11, AcpConstants DEF PromptArm, Answer, Goto, Send, AnswerStep, Early, Tasks,
     TypeInv, TaskType
<1>12. ASSUME NEW t \in Prompts, SendQueued(t) PROVE AnswerStep(p)
  BY <1>12, AcpConstants DEF SendQueued, Goto, Send, AnswerStep, Early, Tasks, TypeInv,
     TaskType
<1>13. ASSUME NEW t \in Prompts, PromptNext(t) PROVE AnswerStep(p)
  BY <1>13, AcpConstants DEF PromptNext, Goto, AnswerStep, Early
<1>14. ASSUME NEW t \in Prompts, PromptStreamEnded(t) PROVE AnswerStep(p)
  BY <1>14, AcpConstants DEF PromptStreamEnded, Answer, Goto, AnswerStep, Refusals,
     TypeInv, TaskType
<1>15. ASSUME NEW t \in Prompts, AskAbandoned(t) PROVE AnswerStep(p)
  BY <1>15, AcpConstants DEF AskAbandoned, Goto, AnswerStep, Early
<1>16. ASSUME NEW t \in Prompts, AskResolved(t) PROVE AnswerStep(p)
  BY <1>16, AcpConstants DEF AskResolved, Goto, Send, AnswerStep, Early, Tasks, TypeInv,
     TaskType
<1>17. ASSUME NEW t \in Prompts, PromptDrain(t) PROVE AnswerStep(p)
  BY <1>17, AcpConstants DEF PromptDrain, Answer, Goto, Finish, StopReason, AnswerStep,
     Refusals, Tasks, TypeInv, TaskType
<1>18. ASSUME NEW t \in Prompts, PromptDrainOver(t) PROVE AnswerStep(p)
  BY <1>18, AcpConstants DEF PromptDrainOver, Answer, Goto, Finish, StopReason,
     AnswerStep, Refusals, TypeInv, TaskType
<1>19. ASSUME NEW t \in Loads, LoadStart(t) PROVE AnswerStep(p)
  BY <1>19, AcpConstants DEF LoadStart, Answer, Goto, AnswerStep, Tasks, TypeInv,
     TaskType
<1>20. ASSUME NEW t \in Loads, LoadArm(t) PROVE AnswerStep(p)
  BY <1>20, AcpConstants DEF LoadArm, Answer, Goto, AnswerStep, Tasks, TypeInv, TaskType
<1>21. ASSUME NEW t \in Loads, LoadSubscribe(t) PROVE AnswerStep(p)
  BY <1>21, AcpConstants DEF LoadSubscribe, Goto, AnswerStep
<1>22. ASSUME NEW t \in Loads, LoadSubscribeFails(t) PROVE AnswerStep(p)
  BY <1>22, AcpConstants DEF LoadSubscribeFails, Answer, Goto, AnswerStep, Tasks,
     TypeInv, TaskType
<1>23. ASSUME NEW t \in Loads, LoadRollback(t) PROVE AnswerStep(p)
  BY <1>23, AcpConstants DEF LoadRollback, Answer, Goto, AnswerStep
<1>24. ASSUME NEW t \in Loads, LoadRead(t) PROVE AnswerStep(p)
  BY <1>24, AcpConstants DEF LoadRead, Goto, AnswerStep
<1>25. ASSUME NEW t \in Loads, LoadGivesUp(t) PROVE AnswerStep(p)
  BY <1>25, AcpConstants DEF LoadGivesUp, Answer, Goto, AnswerStep
<1>26. ASSUME NEW t \in Loads, LoadFinish(t) PROVE AnswerStep(p)
  BY <1>26, AcpConstants DEF LoadFinish, Answer, Goto, AnswerStep
<1>27. ASSUME NEW t \in Closes, CloseStart(t) PROVE AnswerStep(p)
  BY <1>27, AcpConstants DEF CloseStart, Answer, Goto, AnswerStep, Tasks, TypeInv,
     TaskType
<1>28. ASSUME NEW t \in Closes, CloseCancel(t) PROVE AnswerStep(p)
  BY <1>28, AcpConstants DEF CloseCancel, Goto, AnswerStep, Tasks, TypeInv, TaskType
<1>29. ASSUME NEW t \in Closes, CloseReclaim(t) PROVE AnswerStep(p)
  BY <1>29, AcpConstants DEF CloseReclaim, Goto, AnswerStep
<1>30. ASSUME NEW t \in Closes, CloseRemove(t) PROVE AnswerStep(p)
  BY <1>30, AcpConstants DEF CloseRemove, Goto, AnswerStep
<1>31. ASSUME NEW t \in Closes, CloseFinish(t) PROVE AnswerStep(p)
  BY <1>31, AcpConstants DEF CloseFinish, Answer, Goto, AnswerStep
<1>32. CASE UNCHANGED vars
  BY <1>32 DEF vars, AnswerStep
<1> QED
  BY <1>1, <1>2, <1>3, <1>4, <1>5, <1>6, <1>7, <1>8, <1>9, <1>10, <1>11, <1>12,
      <1>13, <1>14, <1>15, <1>16, <1>17, <1>18, <1>19, <1>20, <1>21, <1>22, <1>23,
      <1>24, <1>25, <1>26, <1>27, <1>28, <1>29, <1>30, <1>31, <1>32, NextSplit DEF
      Tasks

\* The message of an appended element is the new one or was there.
LEMMA OfAppend ==
  ASSUME NEW q \in Seq(Outgoing), NEW m \in Outgoing, NEW i \in 1..Len(Append(q, m)),
         Append(q, m)[i].of # m.of
  PROVE  i \in 1..Len(q) /\ Append(q, m)[i] = q[i]
OBVIOUS

\* Nothing is made of a prompt on its way except by the prompt itself.
LEMMA SentSteps ==
  ASSUME TypeInv, [Next]_vars, NEW p \in Prompts
  PROVE  Sent(p)' => Sent(p) \/ Sends(p)
<1>1. CASE NewSession
  BY <1>1 DEF NewSession, Sent
<1>2. CASE ClientCancel
  BY <1>2 DEF ClientCancel, Sent
<1>3. CASE StreamEnds
  BY <1>3 DEF StreamEnds, Sent
<1>4. CASE PumpDispatch
  BY <1>4 DEF PumpDispatch, Sent
<1>5. CASE PumpSend
  <2>1. /\ outbound \in Seq(Outgoing) /\ outbound # <<>> /\ outbound' = Tail(outbound)
        /\ Head(outbound) \in Outgoing
    BY <1>5, HeadTailProperties DEF PumpSend, TypeInv, WireType
  <2>2. /\ gw'.turn = gw.turn
        /\ gw'.inbox \in {gw.inbox, Append(gw.inbox, Head(outbound).of),
                          Append(gw.inbox, Ghost)}
    BY <1>5, <2>1 DEF PumpSend
  <2>3. gw.inbox \in Seq(Prompts \cup {Ghost}) /\ p # Ghost /\ Head(outbound).of \in Prompts
    BY <2>1, AcpConstants DEF TypeInv, WireType, GatewayRec, Outgoing, Ghost, Tasks
  <2>4. ASSUME NEW i \in 1..Len(Tail(outbound)), Tail(outbound)[i].of = p
        PROVE  \E j \in 1..Len(outbound) : outbound[j].of = p
    <3>1. i + 1 \in 1..Len(outbound) /\ outbound[i + 1] = Tail(outbound)[i]
      BY <2>1
    <3> QED
      BY <2>4, <3>1
  <2>5. ASSUME NEW i \in 1..Len(gw'.inbox), gw'.inbox[i] = p
        PROVE  Sent(p)
    <3>1. CASE i \in 1..Len(gw.inbox) /\ gw.inbox[i] = p
      BY <3>1 DEF Sent
    <3>2. CASE Head(outbound).of = p
      <4>1. 1 \in 1..Len(outbound) /\ outbound[1] = Head(outbound)
        BY <2>1
      <4> QED
        BY <3>2, <4>1 DEF Sent
    <3>3. CASE gw'.inbox = gw.inbox
      BY <2>5, <3>3 DEF Sent
    <3>4. ASSUME NEW x \in Prompts \cup {Ghost}, gw'.inbox = Append(gw.inbox, x)
          PROVE  (i \in 1..Len(gw.inbox) /\ gw.inbox[i] = p) \/ x = p
      BY <2>3, <2>5, <3>4
    <3> QED
      BY <2>2, <2>3, <3>1, <3>2, <3>3, <3>4
  <2> QED
    BY <2>1, <2>2, <2>4, <2>5 DEF Sent
<1>6. CASE FailInFlight
  BY <1>6 DEF FailInFlight, gwVars, Sent
<1>7. CASE PumpCloses
  BY <1>7 DEF PumpCloses, gwVars, Sent
<1>8. CASE Gateway
  <2>1. outbound' = outbound
    BY <1>8 DEF Gateway
  <2>2. gw \in GatewayRec /\ p # Ghost /\ p # NoTask
    BY AcpConstants DEF TypeInv, WireType, Ghost, Tasks
  <2>3. CASE GwTurn
    <3>1. /\ gw'.turn = Head(gw.inbox) /\ gw'.inbox = Tail(gw.inbox)
          /\ gw.inbox \in Seq(Prompts \cup {Ghost}) /\ gw.inbox # <<>>
      BY <2>2, <2>3 DEF GwTurn, GatewayRec
    <3>2. ASSUME gw'.turn = p PROVE Sent(p)
      BY <3>1, <3>2 DEF Sent
    <3>3. ASSUME NEW i \in 1..Len(gw'.inbox), gw'.inbox[i] = p PROVE Sent(p)
      <4>1. i + 1 \in 1..Len(gw.inbox) /\ gw.inbox[i + 1] = p
        BY <3>1, <3>3
      <4> QED
        BY <4>1 DEF Sent
    <3> QED
      BY <2>1, <3>2, <3>3 DEF Sent
  <2>4. CASE GwAsk \/ GwResult
    BY <2>1, <2>2, <2>4 DEF GwAsk, GwResult, GatewayRec, Sent
  <2>5. CASE GwTail
    BY <2>1, <2>2, <2>5 DEF GwTail, Sent
  <2>6. ASSUME NEW q \in Prompts, GwInterrupt(q) PROVE Sent(p)' => Sent(p)
    <3>1. gw'.turn = NoTask /\ gw'.inbox = <<>>
      BY <2>2, <2>6 DEF GwInterrupt
    <3> QED
      BY <2>1, <2>2, <3>1 DEF Sent
  <2> QED
    BY <1>8, <2>3, <2>4, <2>5, <2>6 DEF Gateway
<1>9. ASSUME NEW t \in Prompts, PromptStart(t) PROVE Sent(p)' => Sent(p) \/ Sends(p)
  BY <1>9 DEF PromptStart, gwVars, Sent
<1>10. ASSUME NEW t \in Tasks, TakeGate(t) PROVE Sent(p)' => Sent(p) \/ Sends(p)
  BY <1>10 DEF TakeGate, gwVars, Sent
<1>11. ASSUME NEW t \in Prompts, PromptArm(t) PROVE Sent(p)' => Sent(p) \/ Sends(p)
  <2>1. CASE outbound' = outbound
    BY <1>11, <2>1 DEF PromptArm, gwVars, Sent
  <2>2. CASE outbound' # outbound
    <3>1. PICK m \in Outgoing : m.of = t /\ outbound' = Append(outbound, m) /\ pc'[t] = "loop"
      BY <1>11, <2>2 DEF PromptArm, Send, Message, Outgoing, Goto, Tasks, TypeInv,
         TaskType
    <3>2. ASSUME p # t, Sent(p)' PROVE Sent(p)
      BY <1>11, <3>1, <3>2, OfAppend DEF PromptArm, gwVars, Sent
    <3>3. CASE p = t
      BY <1>11, <2>2, <3>1, <3>3 DEF PromptArm, Sends
    <3> QED
      BY <3>2, <3>3
  <2> QED
    BY <2>1, <2>2
<1>12. ASSUME NEW t \in Prompts, SendQueued(t) PROVE Sent(p)' => Sent(p) \/ Sends(p)
  <2>1. CASE outbound' = outbound
    BY <1>12, <2>1 DEF SendQueued, gwVars, Sent
  <2>2. CASE outbound' # outbound
    <3>1. PICK m \in Outgoing : m.of = t /\ outbound' = Append(outbound, m) /\ pc'[t] = "loop"
      BY <1>12, <2>2 DEF SendQueued, Send, Message, AskReply, Outgoing, Goto, Tasks,
         TypeInv, TaskType
    <3>2. ASSUME p # t, Sent(p)' PROVE Sent(p)
      BY <1>12, <3>1, <3>2, OfAppend DEF SendQueued, gwVars, Sent
    <3>3. CASE p = t
      BY <1>12, <2>2, <3>1, <3>3 DEF SendQueued, Sends
    <3> QED
      BY <3>2, <3>3
  <2> QED
    BY <2>1, <2>2
<1>13. ASSUME NEW t \in Prompts, PromptNext(t) PROVE Sent(p)' => Sent(p) \/ Sends(p)
  BY <1>13 DEF PromptNext, gwVars, Sent
<1>14. ASSUME NEW t \in Prompts, PromptStreamEnded(t) PROVE Sent(p)' => Sent(p) \/ Sends(p)
  BY <1>14 DEF PromptStreamEnded, gwVars, Sent
<1>15. ASSUME NEW t \in Prompts, AskAbandoned(t) PROVE Sent(p)' => Sent(p) \/ Sends(p)
  BY <1>15 DEF AskAbandoned, gwVars, Sent
<1>16. ASSUME NEW t \in Prompts, AskResolved(t) PROVE Sent(p)' => Sent(p) \/ Sends(p)
  <2>1. CASE outbound' = outbound
    BY <1>16, <2>1 DEF AskResolved, gwVars, Sent
  <2>2. CASE outbound' # outbound
    <3>1. PICK m \in Outgoing : m.of = t /\ outbound' = Append(outbound, m) /\ pc'[t] = "loop"
      BY <1>16, <2>2 DEF AskResolved, Send, AskReply, Outgoing, Goto, Tasks, TypeInv,
         TaskType
    <3>2. ASSUME p # t, Sent(p)' PROVE Sent(p)
      BY <1>16, <3>1, <3>2, OfAppend DEF AskResolved, gwVars, Sent
    <3>3. CASE p = t
      BY <1>16, <2>2, <3>1, <3>3 DEF AskResolved, Sends
    <3> QED
      BY <3>2, <3>3
  <2> QED
    BY <2>1, <2>2
<1>17. ASSUME NEW t \in Prompts, PromptDrain(t) PROVE Sent(p)' => Sent(p) \/ Sends(p)
  BY <1>17 DEF PromptDrain, gwVars, Sent
<1>18. ASSUME NEW t \in Prompts, PromptDrainOver(t) PROVE Sent(p)' => Sent(p) \/ Sends(p)
  BY <1>18 DEF PromptDrainOver, gwVars, Sent
<1>19. ASSUME NEW t \in Loads, LoadStart(t) PROVE Sent(p)' => Sent(p) \/ Sends(p)
  BY <1>19 DEF LoadStart, gwVars, Sent
<1>20. ASSUME NEW t \in Loads, LoadArm(t) PROVE Sent(p)' => Sent(p) \/ Sends(p)
  BY <1>20 DEF LoadArm, gwVars, Sent
<1>21. ASSUME NEW t \in Loads, LoadSubscribe(t) PROVE Sent(p)' => Sent(p) \/ Sends(p)
  BY <1>21 DEF LoadSubscribe, Sent
<1>22. ASSUME NEW t \in Loads, LoadSubscribeFails(t) PROVE Sent(p)' => Sent(p) \/ Sends(p)
  BY <1>22 DEF LoadSubscribeFails, Sent
<1>23. ASSUME NEW t \in Loads, LoadRollback(t) PROVE Sent(p)' => Sent(p) \/ Sends(p)
  BY <1>23 DEF LoadRollback, Sent
<1>24. ASSUME NEW t \in Loads, LoadRead(t) PROVE Sent(p)' => Sent(p) \/ Sends(p)
  BY <1>24 DEF LoadRead, gwVars, Sent
<1>25. ASSUME NEW t \in Loads, LoadGivesUp(t) PROVE Sent(p)' => Sent(p) \/ Sends(p)
  BY <1>25 DEF LoadGivesUp, gwVars, Sent
<1>26. ASSUME NEW t \in Loads, LoadFinish(t) PROVE Sent(p)' => Sent(p) \/ Sends(p)
  BY <1>26 DEF LoadFinish, gwVars, Sent
<1>27. ASSUME NEW t \in Closes, CloseStart(t) PROVE Sent(p)' => Sent(p) \/ Sends(p)
  BY <1>27 DEF CloseStart, gwVars, Sent
<1>28. ASSUME NEW t \in Closes, CloseCancel(t) PROVE Sent(p)' => Sent(p) \/ Sends(p)
  BY <1>28 DEF CloseCancel, Sent
<1>29. ASSUME NEW t \in Closes, CloseReclaim(t) PROVE Sent(p)' => Sent(p) \/ Sends(p)
  BY <1>29 DEF CloseReclaim, gwVars, Sent
<1>30. ASSUME NEW t \in Closes, CloseRemove(t) PROVE Sent(p)' => Sent(p) \/ Sends(p)
  BY <1>30 DEF CloseRemove, gwVars, Sent
<1>31. ASSUME NEW t \in Closes, CloseFinish(t) PROVE Sent(p)' => Sent(p) \/ Sends(p)
  BY <1>31 DEF CloseFinish, Sent
<1>32. CASE UNCHANGED vars
  BY <1>32 DEF vars, Sent
<1> QED
  BY <1>1, <1>2, <1>3, <1>4, <1>5, <1>6, <1>7, <1>8, <1>9, <1>10, <1>11, <1>12,
      <1>13, <1>14, <1>15, <1>16, <1>17, <1>18, <1>19, <1>20, <1>21, <1>22, <1>23,
      <1>24, <1>25, <1>26, <1>27, <1>28, <1>29, <1>30, <1>31, <1>32, NextSplit DEF
      Tasks

-----------------------------------------------------------------------------
(* The theorems *)

LEMMA InitInv == Init => Inv
<1> SUFFICES ASSUME Init PROVE Inv
  OBVIOUS
<1>1. HubType
  <2>1. FreshEntry \in EntryRec
    BY DEF FreshEntry, EntryRec
  <2> QED
    BY <2>1, AcpConstants DEF Init, HubType
<1>2. TaskType
  BY AcpConstants DEF Init, TaskType, Places, Replies
<1>3. WireType
  <2>1. NoEvent \in EventRec
    BY EventType DEF NoEvent, EventKinds
  <2>2. gw \in GatewayRec
    BY DEF Init, GatewayRec
  <2> QED
    BY <2>1, <2>2, AcpConstants DEF Init, WireType
<1>4. EventsInv
  BY AcpConstants DEF Init, EventsInv, FreshEntry
<1>5. SentInv
  <2>1. outbound = <<>> /\ gw.turn = NoTask /\ gw.inbox = <<>>
    BY DEF Init
  <2> QED
    BY <2>1, AcpConstants DEF SentInv, Sent, Tasks
<1> QED
  BY <1>1, <1>2, <1>3, <1>4, <1>5 DEF Init, Inv, TypeInv, PumpType, HoldsInv, ReplyInv,
     InGate, Tasks

LEMMA NextInv == Inv /\ [Next]_vars => Inv'
<1> SUFFICES ASSUME Inv, [Next]_vars PROVE Inv'
  OBVIOUS
<1>1. TypeInv'
  BY CountStep, TaskStep, WireStep, HubStep DEF Inv, TypeInv, CountType
<1>2. HoldsInv' /\ EventsInv'
  BY EntrySteps, GateSteps, HoldsStep, EventsStep DEF Inv
<1>3. ReplyInv'
  <2> SUFFICES ASSUME NEW p \in Prompts, pc'[p] # "done" PROVE reply'[p] = "none"
    BY DEF ReplyInv
  <2> QED
    BY AnswerSteps DEF Inv, ReplyInv, AnswerStep
<1>4. SentInv'
  <2> SUFFICES ASSUME NEW p \in Prompts, Sent(p)'
               PROVE  pc'[p] \notin Early /\ reply'[p] \notin Refusals
    BY DEF SentInv
  <2>1. CASE Sent(p)
    BY <2>1, AnswerSteps DEF Inv, SentInv, AnswerStep, Early
  <2>2. CASE Sends(p)
    BY <2>2 DEF Inv, ReplyInv, Sends, Early, Refusals
  <2> QED
    BY <2>1, <2>2, SentSteps DEF Inv
<1> QED
  BY <1>1, <1>2, <1>3, <1>4 DEF Inv

LEMMA Invariant == Spec => []Inv
  BY InitInv, NextInv, PTL DEF Spec

\* Every variable keeps its type: the table never maps the session to an entry that was
\* not made, and no task is ever in a place its handler does not have.
THEOREM TypesAreKept == Spec => []TypeOK
<1>1. Inv => TypeOK
  <2> SUFFICES ASSUME Inv PROVE TypeOK
    OBVIOUS
  <2>1. \A t \in Tasks : \A i \in 1..Len(rx[t]) : rx[t][i].kind \in EventKinds
    <3>1. \A t \in Tasks : rx[t] \in Seq(EventRec)
      BY DEF Inv, TypeInv, TaskType
    <3>2. \A q \in Seq(EventRec) : \A i \in 1..Len(q) : q[i] \in EventRec
      OBVIOUS
    <3> QED
      BY <3>1, <3>2 DEF EventRec
  <2> QED
    BY <2>1 DEF Inv, TypeInv, HubType, PumpType, TaskType, WireType, GatewayRec,
       EntryRec, TypeOK
<1> QED
  BY <1>1, Invariant, PTL

\* dispatch hands the frames of a session to the task that holds the gate of its entry and
\* to nobody else, however prompts, loads, closes and the end of the stream interleave:
\* a handle that is dropped late cannot take down its successor's channel.
THEOREM ChannelBelongsToTheGate == Spec => []ReceiverHoldsGate
<1>1. Inv => ReceiverHoldsGate
  <2> SUFFICES ASSUME Inv, NEW e \in 1..MaxEntries, entries[e].events # NoTask
               PROVE  gate[e] # <<>> /\ Head(gate[e]) = entries[e].events
    BY DEF ReceiverHoldsGate
  <2>1. entries[e].events \in Tasks
    BY DEF Inv, TypeInv, HubType, EntryRec
  <2>2. ent[entries[e].events] = e /\ pc[entries[e].events] \in InGate
    BY <2>1 DEF Inv, EventsInv, Armed
  <2> QED
    BY <2>1, <2>2 DEF Inv, HoldsInv, Holds
<1> QED
  BY <1>1, Invariant, PTL

\* Once session/close has marked the entry, no prompt or load that is queued at its gate,
\* or already past its first look, arms it again.
THEOREM ClosedIsNeverArmed == Spec => NothingArmedAfterClose
<1>1. Inv /\ [Next]_vars => [\A e \in 1..MaxEntries : entries[e].closing =>
                                entries'[e].events \in {entries[e].events, NoTask}]_vars
  BY EntrySteps, ClosedStaysQuiet DEF Inv
<1> QED
  BY <1>1, Invariant, PTL DEF Spec, NothingArmedAfterClose

\* A prompt the client was told is unknown or disconnected has no message on the wire, in
\* the gateway's backlog or under way as a turn, then or later.
THEOREM RefusedHasNoTurn == Spec => []RefusedIsUnsent
<1>1. Inv => RefusedIsUnsent
  BY DEF Inv, SentInv, Sent, Refusals, RefusedIsUnsent
<1> QED
  BY <1>1, Invariant, PTL

-----------------------------------------------------------------------------
(* The route of an entry *)

\* A load that has made the entry in the table and has still to subscribe it, and a
\* close that has still to take the entry away.
Requests == Loads \cup Closes
Asking == {"gate", "alive", "armed"}
Closing == {"marked", "wait", "remove"}
Coming == \E l \in Loads : created[l] /\ ent[l] = table /\ pc[l] \in Asking
Going == \E c \in Closes : pc[c] \in Closing

RouteInv == table # 0 => gw.subscribed \/ Coming \/ Going
ClosingInv == \A e \in 1..MaxEntries : entries[e].closing =>
    e <= made /\ (table = e => Going)
UnsubscribeInv == \A t \in Requests : pc[t] \in {"rollback", "unsubscribe"} => table = 0
PlaceInv == \A t \in Requests : pc[t] \notin {"idle", "done"} => ent[t] \in 1..made
RoutedInv == RouteInv /\ ClosingInv /\ UnsubscribeInv /\ PlaceInv

\* What one step does to the routes: nothing, take the entry out of the table, or move
\* one request on.
ClosingKept == \A e \in 1..MaxEntries : entries'[e].closing = entries[e].closing
Rests(t) == pc'[t] = pc[t] /\ ent'[t] = ent[t]
RouteKept == UNCHANGED <<table, made, created>> /\ (gw.subscribed => gw'.subscribed)
Quiet == RouteKept /\ ClosingKept /\ \A t \in Requests : Rests(t)
Removes ==
    /\ table' = 0 /\ made' = made /\ ClosingKept
    /\ \A t \in Requests :
          /\ ent'[t] = ent[t]
          /\ pc'[t] = pc[t] \/ pc[t] \notin {"idle", "done"} \/ pc'[t] = "done"
Moves(t) ==
    /\ RouteKept /\ ClosingKept /\ ent' = ent
    /\ \A u \in Requests \ {t} : pc'[u] = pc[u]
    /\ pc[t] \notin {"idle", "done"} /\ pc'[t] \notin {"rollback", "unsubscribe"}
    /\ t \in Loads /\ pc[t] \in Asking /\ created[t] /\ ent[t] = table =>
          pc'[t] \in Asking \/ gw'.subscribed \/ entries[table].closing
    /\ t \in Closes /\ pc[t] \in Closing => pc'[t] \in Closing

\* A step that leaves the table, the marks and every request where they are.
LEMMA QuietRoutes ==
  ASSUME RoutedInv, Quiet
  PROVE  RoutedInv'
<1>1. RouteInv'
  BY DEF RoutedInv, RouteInv, Coming, Going, Quiet, RouteKept, Rests, Requests
<1>2. ClosingInv'
  BY DEF RoutedInv, ClosingInv, ClosingKept, Going, Quiet, RouteKept, Rests, Requests
<1>3. UnsubscribeInv' /\ PlaceInv'
  BY DEF RoutedInv, UnsubscribeInv, PlaceInv, Quiet, RouteKept, Rests
<1> QED
  BY <1>1, <1>2, <1>3 DEF RoutedInv

\* A step that takes the entry out of the table: no route is owed any more.
LEMMA RemovedRoutes ==
  ASSUME RoutedInv, Removes
  PROVE  RoutedInv'
<1>1. RouteInv' /\ UnsubscribeInv'
  BY DEF RouteInv, UnsubscribeInv, Removes
<1>2. ClosingInv'
  BY DEF RoutedInv, ClosingInv, ClosingKept, Removes
<1>3. PlaceInv'
  BY DEF RoutedInv, PlaceInv, Removes
<1> QED
  BY <1>1, <1>2, <1>3 DEF RoutedInv

\* A step of one request that is working, and still works or leaves a route behind.
LEMMA MovedRoutes ==
  ASSUME TypeInv, RoutedInv, NEW t \in Requests, Moves(t)
  PROVE  RoutedInv'
<1>1. Going => Going'
  BY AcpConstants DEF Going, Moves, Requests
<1>2. RouteInv'
  <2> SUFFICES ASSUME table' # 0 PROVE gw'.subscribed \/ Coming' \/ Going'
    BY DEF RouteInv
  <2>1. table = table' /\ (gw.subscribed => gw'.subscribed)
    BY DEF Moves, RouteKept
  <2>2. ASSUME NEW l \in Loads, created[l], ent[l] = table, pc[l] \in Asking
        PROVE  gw'.subscribed \/ Coming' \/ Going'
    <3>1. created'[l] /\ ent'[l] = table'
      BY <2>2 DEF Moves, RouteKept
    <3>2. pc'[l] \in Asking \/ gw'.subscribed \/ entries[table].closing
      BY <2>2 DEF Moves, Requests
    <3>3. ASSUME entries[table].closing PROVE Going
      <4>1. table \in 1..MaxEntries
        BY <2>1, TableRange
      <4> QED
        BY <3>3, <4>1 DEF RoutedInv, ClosingInv
    <3> QED
      BY <1>1, <3>1, <3>2, <3>3 DEF Coming
  <2> QED
    BY <1>1, <2>1, <2>2 DEF RoutedInv, RouteInv, Coming
<1>3. ClosingInv'
  BY <1>1 DEF RoutedInv, ClosingInv, ClosingKept, Moves, RouteKept
<1>4. UnsubscribeInv' /\ PlaceInv'
  BY DEF RoutedInv, UnsubscribeInv, PlaceInv, Moves, RouteKept
<1> QED
  BY <1>2, <1>3, <1>4 DEF RoutedInv

\* Only a close marks an entry as closing.
LEMMA ClosingStays ==
  ASSUME TypeInv
  PROVE  /\ entries' = entries => ClosingKept
         /\ \A x : entries' = [entries EXCEPT ![x] = Disarmed(@)] => ClosingKept
         /\ \A x : entries' = [entries EXCEPT ![x].cancel = TRUE] => ClosingKept
         /\ \A t \in Tasks : \A x :
               \/ entries' = [entries EXCEPT ![x] = ArmTurn(@, t)]
               \/ entries' = [entries EXCEPT ![x] = ArmAttached(@, t)]
               => ClosingKept
<1>1. \A e \in 1..MaxEntries : entries[e] \in EntryRec
  BY DEF TypeInv, HubType
<1>2. \A r \in EntryRec : Disarmed(r).closing = r.closing
  BY DEF Disarmed, EntryRec
<1>3. \A r \in EntryRec : [r EXCEPT !.cancel = TRUE].closing = r.closing
  BY DEF EntryRec
<1>4. \A t \in Tasks, r \in EntryRec :
         ArmTurn(r, t).closing = r.closing /\ ArmAttached(r, t).closing = r.closing
  BY DEF ArmTurn, ArmAttached, EntryRec
<1>5. ASSUME NEW x, entries' = [entries EXCEPT ![x] = Disarmed(@)] PROVE ClosingKept
  <2>1. \A e \in 1..MaxEntries : entries'[e] \in {entries[e], Disarmed(entries[e])}
    BY <1>5 DEF TypeInv, HubType
  <2> QED
    BY <1>1, <1>2, <2>1 DEF ClosingKept
<1>6. ASSUME NEW x, entries' = [entries EXCEPT ![x].cancel = TRUE] PROVE ClosingKept
  <2>1. \A e \in 1..MaxEntries :
           entries'[e] \in {entries[e], [entries[e] EXCEPT !.cancel = TRUE]}
    BY <1>6 DEF TypeInv, HubType
  <2> QED
    BY <1>1, <1>3, <2>1 DEF ClosingKept
<1>7. ASSUME NEW t \in Tasks, NEW x,
             \/ entries' = [entries EXCEPT ![x] = ArmTurn(@, t)]
             \/ entries' = [entries EXCEPT ![x] = ArmAttached(@, t)]
      PROVE  ClosingKept
  <2>1. \A e \in 1..MaxEntries :
           entries'[e] \in {entries[e], ArmTurn(entries[e], t), ArmAttached(entries[e], t)}
    BY <1>7 DEF TypeInv, HubType
  <2> QED
    BY <1>1, <1>4, <2>1 DEF ClosingKept
<1> QED
  BY <1>5, <1>6, <1>7 DEF ClosingKept

\* What each action does to the routes.
LEMMA RouteSteps ==
  ASSUME TypeInv, HoldsInv, RoutedInv, ~ClientOverlaps, [Next]_vars
  PROVE  RoutedInv'
<1> USE ClosingStays
<1>1. CASE NewSession
  <2>1. \A t \in Requests : pc[t] \in {"idle", "done"}
    BY <1>1 DEF NewSession, RoutedInv, PlaceInv
  <2>2. RouteInv' /\ UnsubscribeInv' /\ PlaceInv'
    BY <1>1, <2>1 DEF NewSession, RouteInv, UnsubscribeInv, PlaceInv, TypeInv, WireType,
         GatewayRec
  <2>3. \A e \in 1..MaxEntries : ~entries[e].closing
    BY <1>1 DEF NewSession, RoutedInv, ClosingInv
  <2> QED
    BY <1>1, <2>2, <2>3 DEF NewSession, RoutedInv, ClosingInv
<1>2. CASE ClientCancel
  BY <1>2, QuietRoutes DEF ClientCancel, CancelTurn, Quiet, RouteKept, Rests
<1>3. CASE StreamEnds
  BY <1>3, QuietRoutes DEF StreamEnds, hubVars, Quiet, RouteKept, Rests
<1>4. CASE PumpDispatch
  BY <1>4, QuietRoutes DEF PumpDispatch, hubVars, Quiet, RouteKept, Rests
<1>5. CASE PumpSend
  <2>1. gw'.subscribed = gw.subscribed
    BY <1>5 DEF PumpSend, TypeInv, WireType, GatewayRec
  <2> QED
    BY <1>5, <2>1, QuietRoutes DEF PumpSend, hubVars, Quiet, RouteKept, Rests
<1>6. CASE FailInFlight
  BY <1>6, QuietRoutes DEF FailInFlight, gwVars, Quiet, RouteKept, Rests
<1>7. CASE PumpCloses
  BY <1>7, QuietRoutes DEF PumpCloses, hubVars, gwVars, Quiet, RouteKept, Rests
<1>8. CASE Gateway
  <2>1. gw'.subscribed = gw.subscribed
    BY <1>8 DEF Gateway, GwTurn, GwAsk, GwResult, GwTail, GwInterrupt, TypeInv, WireType,
         GatewayRec
  <2> QED
    BY <1>8, <2>1, QuietRoutes DEF Gateway, hubVars, Quiet, RouteKept, Rests
<1>9. ASSUME NEW t \in Prompts, PromptStart(t) PROVE RoutedInv'
  BY <1>9, QuietRoutes, AcpConstants DEF PromptStart, Answer, Goto, hubVars, gwVars, TypeInv,
       TaskType, Quiet, RouteKept, Rests, Requests, Tasks
<1>10. ASSUME NEW t \in Tasks, TakeGate(t) PROVE RoutedInv'
  <2>1. \A u \in Requests : ent'[u] = ent[u] /\ (pc'[u] = pc[u] \/ pc[u] \notin {"idle", "done"})
    BY <1>10 DEF TakeGate, Goto, Answer, Requests, Tasks, TypeInv, TaskType
  <2>2. CASE t \in Prompts /\ table' = table /\ entries' = entries
    <3>1. \A u \in Requests : pc'[u] = pc[u]
      BY <1>10, <2>2, AcpConstants DEF TakeGate, Goto, Answer, Requests, Tasks, TypeInv,
           TaskType
    <3> QED
      BY <1>10, <2>1, <2>2, <3>1, QuietRoutes DEF TakeGate, gwVars, Quiet, RouteKept, Rests
  <2>3. CASE IsCurrent(t) /\ streamDead /\ created[t]
    BY <1>10, <2>1, <2>3, RemovedRoutes DEF TakeGate, RemoveEntry, Removes
  <2>4. CASE /\ t \in Requests /\ table' = table /\ entries' = entries
             /\ IsCurrent(t) /\ created[t] => ~streamDead
    <3>1. Moves(t)
      BY <1>10, <2>4, AcpConstants DEF TakeGate, Goto, Answer, IsCurrent, gwVars, Moves,
           RouteKept, Asking, Closing, Requests, Tasks, TypeInv, TaskType
    <3> QED
      BY <2>4, <3>1, MovedRoutes
  <2> QED
    BY <1>10, <2>2, <2>3, <2>4 DEF TakeGate, Requests, Tasks
<1>11. ASSUME NEW t \in Prompts, PromptArm(t) PROVE RoutedInv'
  BY <1>11, QuietRoutes, AcpConstants DEF PromptArm, Answer, Send, Goto, gwVars, TypeInv,
       TaskType, Quiet, RouteKept, Rests, Requests, Tasks
<1>12. ASSUME NEW t \in Prompts, SendQueued(t) PROVE RoutedInv'
  BY <1>12, QuietRoutes, AcpConstants DEF SendQueued, Send, Goto, hubVars, gwVars, TypeInv,
       TaskType, Quiet, RouteKept, Rests, Requests, Tasks
<1>13. ASSUME NEW t \in Prompts, PromptNext(t) PROVE RoutedInv'
  BY <1>13, QuietRoutes, AcpConstants DEF PromptNext, Goto, hubVars, gwVars, TypeInv,
       TaskType, Quiet, RouteKept, Rests, Requests, Tasks
<1>14. ASSUME NEW t \in Prompts, PromptStreamEnded(t) PROVE RoutedInv'
  BY <1>14, QuietRoutes, AcpConstants DEF PromptStreamEnded, DropHandle, Answer, Goto, gwVars,
       TypeInv, TaskType, Quiet, RouteKept, Rests, Requests, Tasks
<1>15. ASSUME NEW t \in Prompts, AskAbandoned(t) PROVE RoutedInv'
  BY <1>15, QuietRoutes, AcpConstants DEF AskAbandoned, Goto, hubVars, gwVars, TypeInv,
       TaskType, Quiet, RouteKept, Rests, Requests, Tasks
<1>16. ASSUME NEW t \in Prompts, AskResolved(t) PROVE RoutedInv'
  BY <1>16, QuietRoutes, AcpConstants DEF AskResolved, Send, Goto, hubVars, gwVars, TypeInv,
       TaskType, Quiet, RouteKept, Rests, Requests, Tasks
<1>17. ASSUME NEW t \in Prompts, PromptDrain(t) PROVE RoutedInv'
  BY <1>17, QuietRoutes, AcpConstants DEF PromptDrain, Finish, DropHandle, Answer, Goto,
       gwVars, TypeInv, TaskType, Quiet, RouteKept, Rests, Requests, Tasks
<1>18. ASSUME NEW t \in Prompts, PromptDrainOver(t) PROVE RoutedInv'
  BY <1>18, QuietRoutes, AcpConstants DEF PromptDrainOver, Finish, DropHandle, Answer, Goto,
       gwVars, TypeInv, TaskType, Quiet, RouteKept, Rests, Requests, Tasks
<1>19. ASSUME NEW t \in Loads, LoadStart(t) PROVE RoutedInv'
  <2>1. \A u \in Requests : pc[u] \in {"idle", "done"}
    BY <1>19 DEF LoadStart, RequestUnanswered, Requests
  <2>2. \A u \in Requests \ {t} : pc'[u] = pc[u] /\ ent'[u] = ent[u]
    BY <1>19 DEF LoadStart, Answer, Goto, Requests, Tasks, TypeInv, TaskType
  <2>3. entries' = entries /\ gw' = gw /\ pc'[t] \in {"gate", "done"}
    BY <1>19 DEF LoadStart, Answer, Goto, gwVars, Tasks, TypeInv, TaskType
  <2>4. ~Going /\ ~Coming
    BY <2>1 DEF Going, Coming, Closing, Asking, Requests
  <2>5. UnsubscribeInv'
    BY <2>1, <2>2, <2>3 DEF UnsubscribeInv
  <2>6. /\ made' >= made /\ made' \in Nat
        /\ (table' = table /\ made' = made) \/ (table' = made + 1 /\ made' = made + 1)
        /\ pc'[t] = "gate" => ent'[t] = table' /\ table' \in 1..made'
    BY <1>19, AcpConstants DEF LoadStart, Answer, Goto, Tasks, TypeInv, HubType, TaskType
  <2>7. PlaceInv'
    BY <2>1, <2>2, <2>3, <2>6 DEF PlaceInv
  <2>8. ClosingInv'
    BY <2>3, <2>4, <2>6, AcpConstants DEF RoutedInv, ClosingInv, TypeInv, HubType
  <2>9. RouteInv'
    <3>1. CASE table' = table
      BY <2>3, <2>4, <3>1 DEF RoutedInv, RouteInv
    <3>2. CASE table' # table
      <4>1. pc'[t] = "gate" /\ created'[t] /\ ent'[t] = table'
        BY <1>19, <3>2 DEF LoadStart, Answer, Goto, Tasks, TypeInv, TaskType
      <4> QED
        BY <4>1 DEF RouteInv, Coming, Asking
    <3> QED
      BY <3>1, <3>2
  <2> QED
    BY <2>5, <2>7, <2>8, <2>9 DEF RoutedInv
<1>20. ASSUME NEW t \in Loads, LoadArm(t) PROVE RoutedInv'
  <2>1. Moves(t)
    BY <1>20, AcpConstants DEF LoadArm, Answer, gwVars, Moves, RouteKept, Goto, Asking,
         Closing, Requests, Tasks, TypeInv, TaskType
  <2> QED
    BY <2>1, MovedRoutes DEF Requests
<1>21. ASSUME NEW t \in Loads, LoadSubscribe(t) PROVE RoutedInv'
  <2>1. Moves(t)
    BY <1>21, AcpConstants DEF LoadSubscribe, hubVars, WireType, GatewayRec, Moves, RouteKept,
         Goto, Asking, Closing, Requests, Tasks, TypeInv, TaskType
  <2> QED
    BY <2>1, MovedRoutes DEF Requests
<1>22. ASSUME NEW t \in Loads, LoadSubscribeFails(t) PROVE RoutedInv'
  <2>1. CASE created[t]
    BY <1>22, <2>1, RemovedRoutes DEF LoadSubscribeFails, RemoveEntry, Goto, Removes,
         Requests, Tasks, TypeInv, TaskType
  <2>2. CASE ~created[t]
    <3>1. gw.subscribed => gw'.subscribed
      BY <1>22 DEF LoadSubscribeFails, TypeInv, WireType, GatewayRec
    <3>2. Moves(t)
      BY <1>22, <2>2, <3>1, AcpConstants DEF LoadSubscribeFails, DropHandle, Answer, Goto,
           Moves, RouteKept, Requests, Tasks, TypeInv, TaskType
    <3> QED
      BY <3>2, MovedRoutes DEF Requests
  <2> QED
    BY <2>1, <2>2
<1>23. ASSUME NEW t \in Loads, LoadRollback(t) PROVE RoutedInv'
  <2>1. table = 0
    BY <1>23 DEF LoadRollback, RoutedInv, UnsubscribeInv, Requests
  <2> QED
    BY <1>23, <2>1, RemovedRoutes DEF LoadRollback, DropHandle, Answer, Goto, Removes,
         Requests, Tasks, TypeInv, TaskType
<1>24. ASSUME NEW t \in Loads, LoadRead(t) PROVE RoutedInv'
  <2>1. Moves(t)
    BY <1>24, AcpConstants DEF LoadRead, hubVars, gwVars, Moves, RouteKept, Goto, Asking,
         Closing, Requests, Tasks, TypeInv, TaskType
  <2> QED
    BY <2>1, MovedRoutes DEF Requests
<1>25. ASSUME NEW t \in Loads, LoadGivesUp(t) PROVE RoutedInv'
  <2>1. Moves(t)
    BY <1>25, AcpConstants DEF LoadGivesUp, DropHandle, Answer, gwVars, Moves, RouteKept,
         Goto, Asking, Closing, Requests, Tasks, TypeInv, TaskType
  <2> QED
    BY <2>1, MovedRoutes DEF Requests
<1>26. ASSUME NEW t \in Loads, LoadFinish(t) PROVE RoutedInv'
  <2>1. Moves(t)
    BY <1>26, AcpConstants DEF LoadFinish, DropHandle, Answer, gwVars, Moves, RouteKept, Goto,
         Asking, Closing, Requests, Tasks, TypeInv, TaskType
  <2> QED
    BY <2>1, MovedRoutes DEF Requests
<1>27. ASSUME NEW t \in Closes, CloseStart(t) PROVE RoutedInv'
  <2>1. CASE table = 0
    BY <1>27, <2>1, RemovedRoutes
    DEF CloseStart, Answer, Goto, Removes, Requests, Tasks, TypeInv, TaskType
  <2>2. CASE table # 0
    <3>1. /\ pc' = [pc EXCEPT ![t] = "marked"] /\ ent' = [ent EXCEPT ![t] = table]
          /\ entries' = [entries EXCEPT ![table].closing = TRUE]
          /\ UNCHANGED <<table, made, created, gw>> /\ pc[t] = "idle"
      BY <1>27, <2>2 DEF CloseStart, Goto, gwVars
    <3>2. \A u \in Requests \ {t} : pc'[u] = pc[u] /\ ent'[u] = ent[u]
      BY <3>1 DEF Requests, Tasks, TypeInv, TaskType
    <3>3. pc'[t] = "marked" /\ ent'[t] = table /\ table \in 1..made
      BY <2>2, <3>1, AcpConstants DEF Tasks, TypeInv, TaskType, HubType
    <3>4. Going'
      BY <3>3 DEF Going, Closing
    <3>5. RouteInv'
      BY <3>4 DEF RouteInv
    <3>6. ClosingInv'
      <4>1. \A e \in 1..MaxEntries : entries'[e].closing => entries[e].closing \/ e = table
        BY <3>1 DEF TypeInv, HubType
      <4>2. table <= made
        BY <3>3, AcpConstants DEF TypeInv, HubType
      <4> QED
        BY <3>1, <3>4, <4>1, <4>2 DEF RoutedInv, ClosingInv
    <3>7. UnsubscribeInv' /\ PlaceInv'
      BY <3>1, <3>2, <3>3 DEF RoutedInv, UnsubscribeInv, PlaceInv
    <3> QED
      BY <3>5, <3>6, <3>7 DEF RoutedInv
  <2> QED
    BY <2>1, <2>2
<1>28. ASSUME NEW t \in Closes, CloseCancel(t) PROVE RoutedInv'
  <2>1. Moves(t)
    BY <1>28, AcpConstants DEF CloseCancel, CancelTurn, Moves, RouteKept, Goto, Asking,
         Closing, Requests, Tasks, TypeInv, TaskType
  <2> QED
    BY <2>1, MovedRoutes DEF Requests
<1>29. ASSUME NEW t \in Closes, CloseReclaim(t) PROVE RoutedInv'
  <2>1. Moves(t)
    BY <1>29, AcpConstants DEF CloseReclaim, hubVars, gwVars, Moves, RouteKept, Goto, Asking,
         Closing, Requests, Tasks, TypeInv, TaskType
  <2> QED
    BY <2>1, MovedRoutes DEF Requests
<1>30. ASSUME NEW t \in Closes, CloseRemove(t) PROVE RoutedInv'
  BY <1>30, RemovedRoutes DEF CloseRemove, RemoveEntry, Goto, Removes, Requests, Tasks,
       TypeInv, TaskType
<1>31. ASSUME NEW t \in Closes, CloseFinish(t) PROVE RoutedInv'
  <2>1. table = 0
    BY <1>31 DEF CloseFinish, RoutedInv, UnsubscribeInv, Requests
  <2> QED
    BY <1>31, <2>1, RemovedRoutes DEF CloseFinish, hubVars, Answer, Goto, Removes, Requests,
         Tasks, TypeInv, TaskType
<1>32. CASE UNCHANGED vars
  BY <1>32, QuietRoutes DEF vars, Quiet, RouteKept, Rests
<1> QED
  BY <1>1, <1>2, <1>3, <1>4, <1>5, <1>6, <1>7, <1>8, <1>9, <1>10, <1>11, <1>12,
      <1>13, <1>14, <1>15, <1>16, <1>17, <1>18, <1>19, <1>20, <1>21, <1>22, <1>23,
      <1>24, <1>25, <1>26, <1>27, <1>28, <1>29, <1>30, <1>31, <1>32, NextSplit DEF
      Tasks

LEMMA InitRoutes == Init => RoutedInv
BY AcpConstants DEF Init, RoutedInv, RouteInv, ClosingInv, FreshEntry, UnsubscribeInv,
   PlaceInv, Requests, Tasks

\* A session in the table that no request is working on is subscribed at the gateway, as
\* long as the editor neither loads nor resumes one with a load or a close unanswered:
\* neither a failed load nor a close leaves an entry whose prompts would hang.
THEOREM LoadedHasRoute == ~ClientOverlaps => (Spec => []EntryHasRoute)
<1> SUFFICES ASSUME ~ClientOverlaps PROVE Spec => []EntryHasRoute
  OBVIOUS
<1>1. Init => RoutedInv
  BY InitRoutes
<1>2. Inv /\ RoutedInv /\ [Next]_vars => RoutedInv'
  BY RouteSteps DEF Inv
<1>3. RoutedInv => EntryHasRoute
  BY DEF RoutedInv, RouteInv, Coming, Going, Asking, Closing, EntryHasRoute, Tasks
<1> QED
  BY <1>1, <1>2, <1>3, Invariant, PTL DEF Spec
-----------------------------------------------------------------------------
(* Which prompt is live *)

\* A prompt is live while the pump hands it the events of the session.
Active(p) == ent[p] # 0 /\ entries[ent[p]].events = p

\* Whoever works on the id works on the entry in the table, a close has marked its
\* entry before it touches anything else, and a load that made the entry has its gate.
TableInv == \A t \in Requests : pc[t] \notin {"idle", "done"} /\ table # 0 => ent[t] = table
MarkedInv == \A c \in Closes : pc[c] \in Closing => entries[ent[c]].closing
FreshInv == \A e \in 1..MaxEntries : e > made => gate[e] = <<>>
FirstInv == \A l \in Loads :
    /\ pc[l] = "idle" => ~created[l]
    /\ created[l] /\ pc[l] = "gate" => Holds(l)
PlacedInv == \A t \in Tasks : pc[t] \notin {"idle", "done"} => ent[t] \in 1..made
WorksInv == PlacedInv /\ TableInv /\ MarkedInv /\ FreshInv /\ FirstInv

\* A prompt with the gate in hand works on the entry in the table unless that one is
\* being closed, a live one has its route, and an armed one is live as long as the
\* stream is.
CurrentInv == \A p \in Prompts : pc[p] \in InGate => entries[ent[p]].closing \/ table = ent[p]
ActiveInv == \A p \in Prompts : Active(p) => table = ent[p] /\ gw.subscribed
ArmedInv == pump = "run" =>
    \A p \in Prompts : pc[p] \in Armed => Active(p) \/ entries[ent[p]].closing
LiveInv == CurrentInv /\ ActiveInv /\ ArmedInv

\* Where a task is on its way, and what it holds on to.
Steady(t) == pc'[t] = pc[t] /\ ent'[t] = ent[t]
Begins(t) ==
    /\ pc[t] = "idle"
    /\ \/ pc'[t] = "done" /\ ent'[t] = ent[t]
       \/ /\ pc'[t] \in {"gate", "marked"} /\ ent'[t] = table' /\ table' # 0
          /\ pc'[t] = "marked" => entries'[table'].closing
GoesOn(t) ==
    /\ pc[t] \notin {"idle", "done"} /\ pc'[t] \notin {"idle", "gate"} /\ ent'[t] = ent[t]
    /\ pc'[t] \in Closing => pc[t] \in Closing
PlaceStep == \A t \in Tasks : Steady(t) \/ Begins(t) \/ GoesOn(t)

\* What a step does to the table.
Kept == UNCHANGED <<table, made, created>>
MadeNew ==
    /\ made = 0 /\ table = 0 /\ made' = 1 /\ table' = 1
    /\ UNCHANGED <<created, entries, gate, pc, ent>>
MadeBy(l) ==
    /\ table = 0 /\ made' = made + 1 /\ table' = made + 1
    /\ \A t \in Requests : pc[t] \in {"idle", "done"}
    /\ pc[l] = "idle" /\ pc' = [pc EXCEPT ![l] = "gate"]
    /\ ent' = [ent EXCEPT ![l] = table']
    /\ gate' = [gate EXCEPT ![table'] = Append(@, l)]
    /\ created' = [created EXCEPT ![l] = TRUE] /\ entries' = entries
TakenOutBy(t) ==
    /\ table' = 0 /\ UNCHANGED <<made, created>>
    /\ \A u \in Tasks \ {t} : Steady(u)
    /\ entries' = IF table = 0 THEN entries ELSE [entries EXCEPT ![table] = Disarmed(@)]
    /\ \/ pc[t] = "gate" /\ Holds(t) /\ table = ent[t] /\ pc'[t] = "done"
       \/ t \in Loads /\ pc[t] = "armed"
       \/ t \in Closes /\ pc[t] = "remove"
TableStep ==
    \/ Kept \/ MadeNew
    \/ \E l \in Loads : MadeBy(l)
    \/ \E t \in Tasks : TakenOutBy(t)

\* A task keeps its place, takes up work on the entry in the table, or goes on with it.
LEMMA PlaceSteps ==
  ASSUME TypeInv, [Next]_vars
  PROVE  PlaceStep
<1>1. CASE NewSession
  BY <1>1, AcpConstants DEF NewSession, PlaceStep, Steady, Begins, GoesOn, Closing, Tasks,
     TypeInv, HubType, TaskType
<1>2. CASE ClientCancel
  BY <1>2, AcpConstants DEF ClientCancel, CancelTurn, PlaceStep, Steady, Begins, GoesOn,
     Closing, Tasks, TypeInv, HubType, TaskType
<1>3. CASE StreamEnds
  BY <1>3, AcpConstants DEF StreamEnds, PlaceStep, Steady, Begins, GoesOn, Closing, Tasks,
     TypeInv, HubType, TaskType
<1>4. CASE PumpDispatch
  BY <1>4, AcpConstants DEF PumpDispatch, PlaceStep, Steady, Begins, GoesOn, Closing, Tasks,
     TypeInv, HubType, TaskType
<1>5. CASE PumpSend
  BY <1>5, AcpConstants DEF PumpSend, PlaceStep, Steady, Begins, GoesOn, Closing, Tasks,
     TypeInv, HubType, TaskType
<1>6. CASE FailInFlight
  BY <1>6, AcpConstants DEF FailInFlight, PlaceStep, Steady, Begins, GoesOn, Closing, Tasks,
     TypeInv, HubType, TaskType
<1>7. CASE PumpCloses
  BY <1>7, AcpConstants DEF PumpCloses, PlaceStep, Steady, Begins, GoesOn, Closing, Tasks,
     TypeInv, HubType, TaskType
<1>8. CASE Gateway
  BY <1>8, AcpConstants DEF Gateway, PlaceStep, Steady, Begins, GoesOn, Closing, Tasks,
     TypeInv, HubType, TaskType
<1>9. ASSUME NEW t \in Prompts, PromptStart(t) PROVE PlaceStep
  BY <1>9, AcpConstants DEF PromptStart, Answer, PlaceStep, Steady, Begins, GoesOn, Closing,
     Tasks, TypeInv, HubType, TaskType, hubVars, Goto
<1>10. ASSUME NEW t \in Tasks, TakeGate(t) PROVE PlaceStep
  BY <1>10, AcpConstants DEF TakeGate, RemoveEntry, Answer, IsCurrent, PlaceStep, Steady,
     Begins, GoesOn, Closing, Tasks, TypeInv, HubType, TaskType, Goto
<1>11. ASSUME NEW t \in Prompts, PromptArm(t) PROVE PlaceStep
  BY <1>11, AcpConstants DEF PromptArm, Answer, Send, PlaceStep, Steady, Begins, GoesOn,
     Closing, Tasks, TypeInv, HubType, TaskType, Goto
<1>12. ASSUME NEW t \in Prompts, SendQueued(t) PROVE PlaceStep
  BY <1>12, AcpConstants DEF SendQueued, Send, PlaceStep, Steady, Begins, GoesOn, Closing,
     Tasks, TypeInv, HubType, TaskType, Goto
<1>13. ASSUME NEW t \in Prompts, PromptNext(t) PROVE PlaceStep
  BY <1>13, AcpConstants DEF PromptNext, PlaceStep, Steady, Begins, GoesOn, Closing, Tasks,
     TypeInv, HubType, TaskType, Goto
<1>14. ASSUME NEW t \in Prompts, PromptStreamEnded(t) PROVE PlaceStep
  BY <1>14, AcpConstants DEF PromptStreamEnded, DropHandle, Answer, PlaceStep, Steady,
     Begins, GoesOn, Closing, Tasks, TypeInv, HubType, TaskType, Goto
<1>15. ASSUME NEW t \in Prompts, AskAbandoned(t) PROVE PlaceStep
  BY <1>15, AcpConstants DEF AskAbandoned, PlaceStep, Steady, Begins, GoesOn, Closing,
     Tasks, TypeInv, HubType, TaskType, Goto
<1>16. ASSUME NEW t \in Prompts, AskResolved(t) PROVE PlaceStep
  BY <1>16, AcpConstants DEF AskResolved, Send, PlaceStep, Steady, Begins, GoesOn, Closing,
     Tasks, TypeInv, HubType, TaskType, Goto
<1>17. ASSUME NEW t \in Prompts, PromptDrain(t) PROVE PlaceStep
  BY <1>17, AcpConstants DEF PromptDrain, Finish, DropHandle, Answer, PlaceStep, Steady,
     Begins, GoesOn, Closing, Tasks, TypeInv, HubType, TaskType, Goto
<1>18. ASSUME NEW t \in Prompts, PromptDrainOver(t) PROVE PlaceStep
  BY <1>18, AcpConstants DEF PromptDrainOver, Finish, DropHandle, Answer, PlaceStep, Steady,
     Begins, GoesOn, Closing, Tasks, TypeInv, HubType, TaskType, Goto
<1>19. ASSUME NEW t \in Loads, LoadStart(t) PROVE PlaceStep
  BY <1>19, AcpConstants DEF LoadStart, Answer, RequestUnanswered, Requests, PlaceStep,
     Steady, Begins, GoesOn, Closing, Tasks, TypeInv, HubType, TaskType, Goto
<1>20. ASSUME NEW t \in Loads, LoadArm(t) PROVE PlaceStep
  BY <1>20, AcpConstants DEF LoadArm, Answer, PlaceStep, Steady, Begins, GoesOn, Closing,
     Tasks, TypeInv, HubType, TaskType, Goto
<1>21. ASSUME NEW t \in Loads, LoadSubscribe(t) PROVE PlaceStep
  BY <1>21, AcpConstants DEF LoadSubscribe, PlaceStep, Steady, Begins, GoesOn, Closing,
     Tasks, TypeInv, HubType, TaskType, Goto
<1>22. ASSUME NEW t \in Loads, LoadSubscribeFails(t) PROVE PlaceStep
  BY <1>22, AcpConstants DEF LoadSubscribeFails, RemoveEntry, DropHandle, Answer, PlaceStep,
     Steady, Begins, GoesOn, Closing, Tasks, TypeInv, HubType, TaskType, Goto
<1>23. ASSUME NEW t \in Loads, LoadRollback(t) PROVE PlaceStep
  BY <1>23, AcpConstants DEF LoadRollback, DropHandle, Answer, PlaceStep, Steady, Begins,
     GoesOn, Closing, Tasks, TypeInv, HubType, TaskType, Goto
<1>24. ASSUME NEW t \in Loads, LoadRead(t) PROVE PlaceStep
  BY <1>24, AcpConstants DEF LoadRead, PlaceStep, Steady, Begins, GoesOn, Closing, Tasks,
     TypeInv, HubType, TaskType, Goto
<1>25. ASSUME NEW t \in Loads, LoadGivesUp(t) PROVE PlaceStep
  BY <1>25, AcpConstants DEF LoadGivesUp, DropHandle, Answer, PlaceStep, Steady, Begins,
     GoesOn, Closing, Tasks, TypeInv, HubType, TaskType, Goto
<1>26. ASSUME NEW t \in Loads, LoadFinish(t) PROVE PlaceStep
  BY <1>26, AcpConstants DEF LoadFinish, DropHandle, Answer, PlaceStep, Steady, Begins,
     GoesOn, Closing, Tasks, TypeInv, HubType, TaskType, Goto
<1>27. ASSUME NEW t \in Closes, CloseStart(t) PROVE PlaceStep
  <2>1. CASE table = 0
    BY <1>27, <2>1 DEF CloseStart, Answer, Goto, PlaceStep, Steady, Begins, Tasks, TypeInv,
       TaskType
  <2>2. CASE table # 0
    <3>1. table \in 1..MaxEntries /\ table' = table
      BY <1>27, <2>2, AcpConstants DEF CloseStart, TypeInv, HubType
    <3>2. entries'[table'].closing
      BY <1>27, <2>2, <3>1 DEF CloseStart, TypeInv, HubType, EntryRec
    <3> QED
      BY <1>27, <2>2, <3>1, <3>2 DEF CloseStart, Goto, PlaceStep, Steady, Begins, Tasks,
         TypeInv, TaskType
  <2> QED
    BY <2>1, <2>2
<1>28. ASSUME NEW t \in Closes, CloseCancel(t) PROVE PlaceStep
  BY <1>28, AcpConstants DEF CloseCancel, CancelTurn, PlaceStep, Steady, Begins, GoesOn,
     Closing, Tasks, TypeInv, HubType, TaskType, Goto
<1>29. ASSUME NEW t \in Closes, CloseReclaim(t) PROVE PlaceStep
  BY <1>29, AcpConstants DEF CloseReclaim, PlaceStep, Steady, Begins, GoesOn, Closing,
     Tasks, TypeInv, HubType, TaskType, Goto
<1>30. ASSUME NEW t \in Closes, CloseRemove(t) PROVE PlaceStep
  BY <1>30, AcpConstants DEF CloseRemove, RemoveEntry, PlaceStep, Steady, Begins, GoesOn,
     Closing, Tasks, TypeInv, HubType, TaskType, Goto
<1>31. ASSUME NEW t \in Closes, CloseFinish(t) PROVE PlaceStep
  BY <1>31, AcpConstants DEF CloseFinish, Answer, PlaceStep, Steady, Begins, GoesOn,
     Closing, Tasks, TypeInv, HubType, TaskType, Goto
<1>32. CASE UNCHANGED vars
  BY <1>32, AcpConstants DEF vars, PlaceStep, Steady, Begins, GoesOn, Closing, Tasks,
     TypeInv, HubType, TaskType
<1> QED
  BY <1>1, <1>2, <1>3, <1>4, <1>5, <1>6, <1>7, <1>8, <1>9, <1>10, <1>11, <1>12, <1>13,
     <1>14, <1>15, <1>16, <1>17, <1>18, <1>19, <1>20, <1>21, <1>22, <1>23, <1>24, <1>25,
     <1>26, <1>27, <1>28, <1>29, <1>30, <1>31, <1>32, NextSplit DEF Tasks

\* The table is kept, gets a new entry, or loses the one it has.
LEMMA TableSteps ==
  ASSUME TypeInv, ~ClientOverlaps, [Next]_vars
  PROVE  TableStep
<1>1. CASE NewSession
  BY <1>1, AcpConstants DEF NewSession, TableStep, Kept, MadeNew, MadeBy, TakenOutBy,
     hubVars, Steady, Tasks, TypeInv, HubType, TaskType
<1>2. CASE ClientCancel
  BY <1>2, AcpConstants DEF ClientCancel, CancelTurn, TableStep, Kept, MadeNew, MadeBy,
     TakenOutBy, hubVars, Steady, Tasks, TypeInv, HubType, TaskType
<1>3. CASE StreamEnds
  BY <1>3, AcpConstants DEF StreamEnds, TableStep, Kept, MadeNew, MadeBy, TakenOutBy,
     hubVars, Steady, Tasks, TypeInv, HubType, TaskType
<1>4. CASE PumpDispatch
  BY <1>4, AcpConstants DEF PumpDispatch, TableStep, Kept, MadeNew, MadeBy, TakenOutBy,
     hubVars, Steady, Tasks, TypeInv, HubType, TaskType
<1>5. CASE PumpSend
  BY <1>5, AcpConstants DEF PumpSend, TableStep, Kept, MadeNew, MadeBy, TakenOutBy, hubVars,
     Steady, Tasks, TypeInv, HubType, TaskType
<1>6. CASE FailInFlight
  BY <1>6, AcpConstants DEF FailInFlight, TableStep, Kept, MadeNew, MadeBy, TakenOutBy,
     hubVars, Steady, Tasks, TypeInv, HubType, TaskType
<1>7. CASE PumpCloses
  BY <1>7, AcpConstants DEF PumpCloses, TableStep, Kept, MadeNew, MadeBy, TakenOutBy,
     hubVars, Steady, Tasks, TypeInv, HubType, TaskType
<1>8. CASE Gateway
  BY <1>8, AcpConstants DEF Gateway, TableStep, Kept, MadeNew, MadeBy, TakenOutBy, hubVars,
     Steady, Tasks, TypeInv, HubType, TaskType
<1>9. ASSUME NEW t \in Prompts, PromptStart(t) PROVE TableStep
  BY <1>9, AcpConstants DEF PromptStart, Answer, TableStep, Kept, MadeNew, MadeBy,
     TakenOutBy, hubVars, Steady, Tasks, TypeInv, HubType, TaskType, Goto
<1>10. ASSUME NEW t \in Tasks, TakeGate(t) PROVE TableStep
  BY <1>10, AcpConstants DEF TakeGate, RemoveEntry, Answer, IsCurrent, TableStep, Kept,
     MadeNew, MadeBy, TakenOutBy, hubVars, Steady, Tasks, TypeInv, HubType, TaskType, Goto
<1>11. ASSUME NEW t \in Prompts, PromptArm(t) PROVE TableStep
  BY <1>11, AcpConstants DEF PromptArm, Answer, Send, TableStep, Kept, MadeNew, MadeBy,
     TakenOutBy, hubVars, Steady, Tasks, TypeInv, HubType, TaskType, Goto
<1>12. ASSUME NEW t \in Prompts, SendQueued(t) PROVE TableStep
  BY <1>12, AcpConstants DEF SendQueued, Send, TableStep, Kept, MadeNew, MadeBy, TakenOutBy,
     hubVars, Steady, Tasks, TypeInv, HubType, TaskType, Goto
<1>13. ASSUME NEW t \in Prompts, PromptNext(t) PROVE TableStep
  BY <1>13, AcpConstants DEF PromptNext, TableStep, Kept, MadeNew, MadeBy, TakenOutBy,
     hubVars, Steady, Tasks, TypeInv, HubType, TaskType, Goto
<1>14. ASSUME NEW t \in Prompts, PromptStreamEnded(t) PROVE TableStep
  BY <1>14, AcpConstants DEF PromptStreamEnded, DropHandle, Answer, TableStep, Kept,
     MadeNew, MadeBy, TakenOutBy, hubVars, Steady, Tasks, TypeInv, HubType, TaskType, Goto
<1>15. ASSUME NEW t \in Prompts, AskAbandoned(t) PROVE TableStep
  BY <1>15, AcpConstants DEF AskAbandoned, TableStep, Kept, MadeNew, MadeBy, TakenOutBy,
     hubVars, Steady, Tasks, TypeInv, HubType, TaskType, Goto
<1>16. ASSUME NEW t \in Prompts, AskResolved(t) PROVE TableStep
  BY <1>16, AcpConstants DEF AskResolved, Send, TableStep, Kept, MadeNew, MadeBy,
     TakenOutBy, hubVars, Steady, Tasks, TypeInv, HubType, TaskType, Goto
<1>17. ASSUME NEW t \in Prompts, PromptDrain(t) PROVE TableStep
  BY <1>17, AcpConstants DEF PromptDrain, Finish, DropHandle, Answer, TableStep, Kept,
     MadeNew, MadeBy, TakenOutBy, hubVars, Steady, Tasks, TypeInv, HubType, TaskType, Goto
<1>18. ASSUME NEW t \in Prompts, PromptDrainOver(t) PROVE TableStep
  BY <1>18, AcpConstants DEF PromptDrainOver, Finish, DropHandle, Answer, TableStep, Kept,
     MadeNew, MadeBy, TakenOutBy, hubVars, Steady, Tasks, TypeInv, HubType, TaskType, Goto
<1>19. ASSUME NEW t \in Loads, LoadStart(t) PROVE TableStep
  <2>1. CASE table' = table /\ made' = made /\ created' = created
    BY <2>1 DEF TableStep, Kept
  <2>2. CASE ~(table' = table /\ made' = made /\ created' = created)
    <3>1. MadeBy(t)
      BY <1>19, <2>2 DEF LoadStart, Answer, Goto, Queue, RequestUnanswered, Requests, MadeBy
    <3> QED
      BY <3>1 DEF TableStep
  <2> QED
    BY <2>1, <2>2
<1>20. ASSUME NEW t \in Loads, LoadArm(t) PROVE TableStep
  BY <1>20, AcpConstants DEF LoadArm, Answer, TableStep, Kept, MadeNew, MadeBy, TakenOutBy,
     hubVars, Steady, Tasks, TypeInv, HubType, TaskType, Goto
<1>21. ASSUME NEW t \in Loads, LoadSubscribe(t) PROVE TableStep
  BY <1>21, AcpConstants DEF LoadSubscribe, TableStep, Kept, MadeNew, MadeBy, TakenOutBy,
     hubVars, Steady, Tasks, TypeInv, HubType, TaskType, Goto
<1>22. ASSUME NEW t \in Loads, LoadSubscribeFails(t) PROVE TableStep
  BY <1>22, AcpConstants DEF LoadSubscribeFails, RemoveEntry, DropHandle, Answer, TableStep,
     Kept, MadeNew, MadeBy, TakenOutBy, hubVars, Steady, Tasks, TypeInv, HubType, TaskType,
     Goto
<1>23. ASSUME NEW t \in Loads, LoadRollback(t) PROVE TableStep
  BY <1>23, AcpConstants DEF LoadRollback, DropHandle, Answer, TableStep, Kept, MadeNew,
     MadeBy, TakenOutBy, hubVars, Steady, Tasks, TypeInv, HubType, TaskType, Goto
<1>24. ASSUME NEW t \in Loads, LoadRead(t) PROVE TableStep
  BY <1>24, AcpConstants DEF LoadRead, TableStep, Kept, MadeNew, MadeBy, TakenOutBy,
     hubVars, Steady, Tasks, TypeInv, HubType, TaskType, Goto
<1>25. ASSUME NEW t \in Loads, LoadGivesUp(t) PROVE TableStep
  BY <1>25, AcpConstants DEF LoadGivesUp, DropHandle, Answer, TableStep, Kept, MadeNew,
     MadeBy, TakenOutBy, hubVars, Steady, Tasks, TypeInv, HubType, TaskType, Goto
<1>26. ASSUME NEW t \in Loads, LoadFinish(t) PROVE TableStep
  BY <1>26, AcpConstants DEF LoadFinish, DropHandle, Answer, TableStep, Kept, MadeNew,
     MadeBy, TakenOutBy, hubVars, Steady, Tasks, TypeInv, HubType, TaskType, Goto
<1>27. ASSUME NEW t \in Closes, CloseStart(t) PROVE TableStep
  BY <1>27, AcpConstants DEF CloseStart, Answer, TableStep, Kept, MadeNew, MadeBy,
     TakenOutBy, hubVars, Steady, Tasks, TypeInv, HubType, TaskType, Goto
<1>28. ASSUME NEW t \in Closes, CloseCancel(t) PROVE TableStep
  BY <1>28, AcpConstants DEF CloseCancel, CancelTurn, TableStep, Kept, MadeNew, MadeBy,
     TakenOutBy, hubVars, Steady, Tasks, TypeInv, HubType, TaskType, Goto
<1>29. ASSUME NEW t \in Closes, CloseReclaim(t) PROVE TableStep
  BY <1>29, AcpConstants DEF CloseReclaim, TableStep, Kept, MadeNew, MadeBy, TakenOutBy,
     hubVars, Steady, Tasks, TypeInv, HubType, TaskType, Goto
<1>30. ASSUME NEW t \in Closes, CloseRemove(t) PROVE TableStep
  BY <1>30, AcpConstants DEF CloseRemove, RemoveEntry, TableStep, Kept, MadeNew, MadeBy,
     TakenOutBy, hubVars, Steady, Tasks, TypeInv, HubType, TaskType, Goto
<1>31. ASSUME NEW t \in Closes, CloseFinish(t) PROVE TableStep
  BY <1>31, AcpConstants DEF CloseFinish, Answer, TableStep, Kept, MadeNew, MadeBy,
     TakenOutBy, hubVars, Steady, Tasks, TypeInv, HubType, TaskType, Goto
<1>32. CASE UNCHANGED vars
  BY <1>32, AcpConstants DEF vars, TableStep, Kept, MadeNew, MadeBy, TakenOutBy, hubVars,
     Steady, Tasks, TypeInv, HubType, TaskType
<1> QED
  BY <1>1, <1>2, <1>3, <1>4, <1>5, <1>6, <1>7, <1>8, <1>9, <1>10, <1>11, <1>12, <1>13,
     <1>14, <1>15, <1>16, <1>17, <1>18, <1>19, <1>20, <1>21, <1>22, <1>23, <1>24, <1>25,
     <1>26, <1>27, <1>28, <1>29, <1>30, <1>31, <1>32, NextSplit DEF Tasks

\* A route goes only in the clean-up of a failed load or of a close.
Unrouting == \E t \in Requests : pc[t] \in {"rollback", "unsubscribe"}
LEMMA SubscribeSteps ==
  ASSUME TypeInv, [Next]_vars, gw.subscribed
  PROVE  gw'.subscribed \/ Unrouting
<1>1. CASE NewSession
  BY <1>1 DEF NewSession, gwVars, TypeInv, WireType, GatewayRec
<1>2. CASE ClientCancel
  BY <1>2 DEF ClientCancel, gwVars, TypeInv, WireType, GatewayRec
<1>3. CASE StreamEnds
  BY <1>3 DEF StreamEnds, gwVars, TypeInv, WireType, GatewayRec
<1>4. CASE PumpDispatch
  BY <1>4 DEF PumpDispatch, gwVars, TypeInv, WireType, GatewayRec
<1>5. CASE PumpSend
  BY <1>5 DEF PumpSend, gwVars, TypeInv, WireType, GatewayRec
<1>6. CASE FailInFlight
  BY <1>6 DEF FailInFlight, gwVars, TypeInv, WireType, GatewayRec
<1>7. CASE PumpCloses
  BY <1>7 DEF PumpCloses, gwVars, TypeInv, WireType, GatewayRec
<1>8. CASE Gateway
  BY <1>8 DEF Gateway, gwVars, TypeInv, WireType, GatewayRec, GwTurn, GwAsk, GwResult,
     GwTail, GwInterrupt
<1>9. ASSUME NEW t \in Prompts, PromptStart(t) PROVE gw'.subscribed \/ Unrouting
  BY <1>9 DEF PromptStart, gwVars, TypeInv, WireType, GatewayRec
<1>10. ASSUME NEW t \in Tasks, TakeGate(t) PROVE gw'.subscribed \/ Unrouting
  BY <1>10 DEF TakeGate, gwVars, TypeInv, WireType, GatewayRec
<1>11. ASSUME NEW t \in Prompts, PromptArm(t) PROVE gw'.subscribed \/ Unrouting
  BY <1>11 DEF PromptArm, gwVars, TypeInv, WireType, GatewayRec
<1>12. ASSUME NEW t \in Prompts, SendQueued(t) PROVE gw'.subscribed \/ Unrouting
  BY <1>12 DEF SendQueued, gwVars, TypeInv, WireType, GatewayRec
<1>13. ASSUME NEW t \in Prompts, PromptNext(t) PROVE gw'.subscribed \/ Unrouting
  BY <1>13 DEF PromptNext, gwVars, TypeInv, WireType, GatewayRec
<1>14. ASSUME NEW t \in Prompts, PromptStreamEnded(t) PROVE gw'.subscribed \/ Unrouting
  BY <1>14 DEF PromptStreamEnded, gwVars, TypeInv, WireType, GatewayRec
<1>15. ASSUME NEW t \in Prompts, AskAbandoned(t) PROVE gw'.subscribed \/ Unrouting
  BY <1>15 DEF AskAbandoned, gwVars, TypeInv, WireType, GatewayRec
<1>16. ASSUME NEW t \in Prompts, AskResolved(t) PROVE gw'.subscribed \/ Unrouting
  BY <1>16 DEF AskResolved, gwVars, TypeInv, WireType, GatewayRec
<1>17. ASSUME NEW t \in Prompts, PromptDrain(t) PROVE gw'.subscribed \/ Unrouting
  BY <1>17 DEF PromptDrain, gwVars, TypeInv, WireType, GatewayRec
<1>18. ASSUME NEW t \in Prompts, PromptDrainOver(t) PROVE gw'.subscribed \/ Unrouting
  BY <1>18 DEF PromptDrainOver, gwVars, TypeInv, WireType, GatewayRec
<1>19. ASSUME NEW t \in Loads, LoadStart(t) PROVE gw'.subscribed \/ Unrouting
  BY <1>19 DEF LoadStart, gwVars, TypeInv, WireType, GatewayRec
<1>20. ASSUME NEW t \in Loads, LoadArm(t) PROVE gw'.subscribed \/ Unrouting
  BY <1>20 DEF LoadArm, gwVars, TypeInv, WireType, GatewayRec
<1>21. ASSUME NEW t \in Loads, LoadSubscribe(t) PROVE gw'.subscribed \/ Unrouting
  BY <1>21 DEF LoadSubscribe, gwVars, TypeInv, WireType, GatewayRec
<1>22. ASSUME NEW t \in Loads, LoadSubscribeFails(t) PROVE gw'.subscribed \/ Unrouting
  BY <1>22 DEF LoadSubscribeFails, gwVars, TypeInv, WireType, GatewayRec
<1>23. ASSUME NEW t \in Loads, LoadRollback(t) PROVE gw'.subscribed \/ Unrouting
  BY <1>23 DEF LoadRollback, gwVars, TypeInv, WireType, GatewayRec, Unrouting, Requests
<1>24. ASSUME NEW t \in Loads, LoadRead(t) PROVE gw'.subscribed \/ Unrouting
  BY <1>24 DEF LoadRead, gwVars, TypeInv, WireType, GatewayRec
<1>25. ASSUME NEW t \in Loads, LoadGivesUp(t) PROVE gw'.subscribed \/ Unrouting
  BY <1>25 DEF LoadGivesUp, gwVars, TypeInv, WireType, GatewayRec
<1>26. ASSUME NEW t \in Loads, LoadFinish(t) PROVE gw'.subscribed \/ Unrouting
  BY <1>26 DEF LoadFinish, gwVars, TypeInv, WireType, GatewayRec
<1>27. ASSUME NEW t \in Closes, CloseStart(t) PROVE gw'.subscribed \/ Unrouting
  BY <1>27 DEF CloseStart, gwVars, TypeInv, WireType, GatewayRec
<1>28. ASSUME NEW t \in Closes, CloseCancel(t) PROVE gw'.subscribed \/ Unrouting
  BY <1>28 DEF CloseCancel, gwVars, TypeInv, WireType, GatewayRec
<1>29. ASSUME NEW t \in Closes, CloseReclaim(t) PROVE gw'.subscribed \/ Unrouting
  BY <1>29 DEF CloseReclaim, gwVars, TypeInv, WireType, GatewayRec
<1>30. ASSUME NEW t \in Closes, CloseRemove(t) PROVE gw'.subscribed \/ Unrouting
  BY <1>30 DEF CloseRemove, gwVars, TypeInv, WireType, GatewayRec
<1>31. ASSUME NEW t \in Closes, CloseFinish(t) PROVE gw'.subscribed \/ Unrouting
  BY <1>31 DEF CloseFinish, gwVars, TypeInv, WireType, GatewayRec, Unrouting, Requests
<1>32. CASE UNCHANGED vars
  BY <1>32 DEF vars, gwVars, TypeInv, WireType, GatewayRec
<1> QED
  BY <1>1, <1>2, <1>3, <1>4, <1>5, <1>6, <1>7, <1>8, <1>9, <1>10, <1>11, <1>12, <1>13,
     <1>14, <1>15, <1>16, <1>17, <1>18, <1>19, <1>20, <1>21, <1>22, <1>23, <1>24, <1>25,
     <1>26, <1>27, <1>28, <1>29, <1>30, <1>31, <1>32, NextSplit DEF Tasks

\* A stream that has ended does not come back.
LEMMA PumpSteps ==
  ASSUME TypeInv, [Next]_vars
  PROVE  pump' = "run" => pump = "run"
<1>1. CASE NewSession
  BY <1>1 DEF NewSession, pumpVars
<1>2. CASE ClientCancel
  BY <1>2 DEF ClientCancel, pumpVars
<1>3. CASE StreamEnds
  BY <1>3 DEF StreamEnds
<1>4. CASE PumpDispatch
  BY <1>4 DEF PumpDispatch, pumpVars
<1>5. CASE PumpSend
  BY <1>5 DEF PumpSend, pumpVars
<1>6. CASE FailInFlight
  BY <1>6 DEF FailInFlight
<1>7. CASE PumpCloses
  BY <1>7 DEF PumpCloses
<1>8. CASE Gateway
  BY <1>8 DEF Gateway, pumpVars
<1>9. ASSUME NEW t \in Prompts, PromptStart(t) PROVE pump' = "run" => pump = "run"
  BY <1>9 DEF PromptStart, pumpVars
<1>10. ASSUME NEW t \in Tasks, TakeGate(t) PROVE pump' = "run" => pump = "run"
  BY <1>10 DEF TakeGate, pumpVars
<1>11. ASSUME NEW t \in Prompts, PromptArm(t) PROVE pump' = "run" => pump = "run"
  BY <1>11 DEF PromptArm, pumpVars
<1>12. ASSUME NEW t \in Prompts, SendQueued(t) PROVE pump' = "run" => pump = "run"
  BY <1>12 DEF SendQueued, pumpVars
<1>13. ASSUME NEW t \in Prompts, PromptNext(t) PROVE pump' = "run" => pump = "run"
  BY <1>13 DEF PromptNext, pumpVars
<1>14. ASSUME NEW t \in Prompts, PromptStreamEnded(t) PROVE pump' = "run" => pump = "run"
  BY <1>14 DEF PromptStreamEnded, pumpVars
<1>15. ASSUME NEW t \in Prompts, AskAbandoned(t) PROVE pump' = "run" => pump = "run"
  BY <1>15 DEF AskAbandoned, pumpVars
<1>16. ASSUME NEW t \in Prompts, AskResolved(t) PROVE pump' = "run" => pump = "run"
  BY <1>16 DEF AskResolved, pumpVars
<1>17. ASSUME NEW t \in Prompts, PromptDrain(t) PROVE pump' = "run" => pump = "run"
  BY <1>17 DEF PromptDrain, pumpVars
<1>18. ASSUME NEW t \in Prompts, PromptDrainOver(t) PROVE pump' = "run" => pump = "run"
  BY <1>18 DEF PromptDrainOver, pumpVars
<1>19. ASSUME NEW t \in Loads, LoadStart(t) PROVE pump' = "run" => pump = "run"
  BY <1>19 DEF LoadStart, pumpVars
<1>20. ASSUME NEW t \in Loads, LoadArm(t) PROVE pump' = "run" => pump = "run"
  BY <1>20 DEF LoadArm, pumpVars
<1>21. ASSUME NEW t \in Loads, LoadSubscribe(t) PROVE pump' = "run" => pump = "run"
  BY <1>21 DEF LoadSubscribe, pumpVars
<1>22. ASSUME NEW t \in Loads, LoadSubscribeFails(t) PROVE pump' = "run" => pump = "run"
  BY <1>22 DEF LoadSubscribeFails, pumpVars
<1>23. ASSUME NEW t \in Loads, LoadRollback(t) PROVE pump' = "run" => pump = "run"
  BY <1>23 DEF LoadRollback, pumpVars
<1>24. ASSUME NEW t \in Loads, LoadRead(t) PROVE pump' = "run" => pump = "run"
  BY <1>24 DEF LoadRead, pumpVars
<1>25. ASSUME NEW t \in Loads, LoadGivesUp(t) PROVE pump' = "run" => pump = "run"
  BY <1>25 DEF LoadGivesUp, pumpVars
<1>26. ASSUME NEW t \in Loads, LoadFinish(t) PROVE pump' = "run" => pump = "run"
  BY <1>26 DEF LoadFinish, pumpVars
<1>27. ASSUME NEW t \in Closes, CloseStart(t) PROVE pump' = "run" => pump = "run"
  BY <1>27 DEF CloseStart, pumpVars
<1>28. ASSUME NEW t \in Closes, CloseCancel(t) PROVE pump' = "run" => pump = "run"
  BY <1>28 DEF CloseCancel, pumpVars
<1>29. ASSUME NEW t \in Closes, CloseReclaim(t) PROVE pump' = "run" => pump = "run"
  BY <1>29 DEF CloseReclaim, pumpVars
<1>30. ASSUME NEW t \in Closes, CloseRemove(t) PROVE pump' = "run" => pump = "run"
  BY <1>30 DEF CloseRemove, pumpVars
<1>31. ASSUME NEW t \in Closes, CloseFinish(t) PROVE pump' = "run" => pump = "run"
  BY <1>31 DEF CloseFinish, pumpVars
<1>32. CASE UNCHANGED vars
  BY <1>32 DEF vars, pumpVars
<1> QED
  BY <1>1, <1>2, <1>3, <1>4, <1>5, <1>6, <1>7, <1>8, <1>9, <1>10, <1>11, <1>12, <1>13,
     <1>14, <1>15, <1>16, <1>17, <1>18, <1>19, <1>20, <1>21, <1>22, <1>23, <1>24, <1>25,
     <1>26, <1>27, <1>28, <1>29, <1>30, <1>31, <1>32, NextSplit DEF Tasks

-----------------------------------------------------------------------------
(* The entry in the table *)

\* Who holds a gate holds it until it moves on.
LEMMA HeldKept ==
  ASSUME TypeInv, HoldsInv, GateStep, NEW u \in Tasks, Holds(u), Steady(u)
  PROVE  Holds(u)'
<1> DEFINE e == ent[u]
<1>1. /\ e \in 1..MaxEntries /\ gate[e] \in Seq(Tasks)
      /\ gate[e] # <<>> /\ Head(gate[e]) = u
  BY DEF Holds, TypeInv, HubType, TaskType
<1> SUFFICES gate'[e] # <<>> /\ Head(gate'[e]) = u
  BY <1>1 DEF Holds, Steady
<1>2. CASE Stays
  BY <1>1, <1>2 DEF Stays
<1>3. ASSUME NEW t \in Tasks, Others(t),
             OutsideGate(t) \/ Enters(t) \/ MovesOn(t) \/ Leaves(t) \/ Reclaims(t)
      PROVE  gate'[e] # <<>> /\ Head(gate'[e]) = u
  <2>1. CASE gate'[e] = gate[e]
    BY <1>1, <2>1
  <2>2. CASE OutsideGate(t)
    <3>1. gate'[e] \in {gate[e], Append(gate[e], t)}
      BY <1>1, <2>2 DEF OutsideGate, TypeInv, HubType
    <3> QED
      BY <1>1, <3>1, HeadOfAppend
  <2>3. CASE Leaves(t)
    <3>1. Holds(t) /\ t # u
      BY <2>3 DEF Leaves, HoldsInv, Steady, InGate
    <3>2. ent[t] # e
      BY <1>1, <3>1 DEF Holds
    <3> QED
      BY <1>1, <2>3, <3>2 DEF Leaves, Release
  <2>4. CASE Reclaims(t)
    <3>1. PICK i \in DOMAIN gate[ent[t]] :
             gate[ent[t]][i] = t /\ gate' = [gate EXCEPT ![ent[t]] = RemoveAt(@, i)]
      BY <2>4 DEF Reclaims
    <3>2. t # u
      BY <2>4 DEF Reclaims, Steady
    <3>3. CASE ent[t] = e
      <4>1. i # 1
        BY <1>1, <3>1, <3>2, <3>3
      <4>2. gate'[e] = RemoveAt(gate[e], i)
        BY <1>1, <3>1, <3>3 DEF TypeInv, HubType
      <4> QED
        BY <1>1, <3>1, <3>3, <4>1, <4>2, HeadOfRemoveAt
    <3>4. CASE ent[t] # e
      BY <1>1, <3>1, <3>4
    <3> QED
      BY <3>3, <3>4
  <2> QED
    BY <1>3, <2>1, <2>2, <2>3, <2>4 DEF Enters, MovesOn
<1> QED
  BY <1>2, <1>3 DEF GateStep

\* Two tasks hold the gate of one entry only if they are one.
LEMMA OneHolder ==
  ASSUME NEW t \in Tasks, NEW u \in Tasks, Holds(t), Holds(u), ent[t] = ent[u]
  PROVE  t = u
BY DEF Holds

\* The mark of a close is not taken off.
LEMMA MarkStays ==
  ASSUME TypeInv, EntryStep, NEW e \in 1..MaxEntries, entries[e].closing
  PROVE  entries'[e].closing
<1>1. entries[e] \in EntryRec
  BY DEF TypeInv, HubType
<1>2. ASSUME Marks PROVE entries'[e].closing
  <2>1. entries'[e] \in {entries[e], [entries[e] EXCEPT !.closing = TRUE],
                         [entries[e] EXCEPT !.cancel = TRUE]}
    BY <1>2 DEF Marks, TypeInv, HubType
  <2> QED
    BY <1>1, <2>1 DEF EntryRec
<1>3. ASSUME ClosingKept PROVE entries'[e].closing
  BY <1>3 DEF ClosingKept
<1> QED
  BY <1>2, <1>3, ClosingStays DEF EntryStep, Disarms, Arms

LEMMA PlacedStep ==
  ASSUME TypeInv, TypeInv', PlaceStep, TableStep, PlacedInv
  PROVE  PlacedInv' /\ made \in Nat /\ made' \in Nat /\ made' >= made
<1>1. made \in Nat /\ made' \in Nat /\ table' \in 0..made'
  BY AcpConstants DEF TypeInv, HubType
<1>2. made' >= made
  BY <1>1 DEF TableStep, Kept, MadeNew, MadeBy, TakenOutBy
<1> SUFFICES ASSUME NEW t \in Tasks, pc'[t] \notin {"idle", "done"}
             PROVE  ent'[t] \in 1..made'
  BY <1>1, <1>2 DEF PlacedInv
<1>3. \/ ent'[t] = table' /\ table' # 0
      \/ ent'[t] = ent[t] /\ ent[t] \in 1..made
  BY DEF PlaceStep, Steady, Begins, GoesOn, PlacedInv
<1> QED
  BY <1>1, <1>2, <1>3

LEMMA WorksStep ==
  ASSUME TypeInv, TypeInv', HoldsInv, HoldsInv', GateStep, EntryStep, PlaceStep, TableStep,
         WorksInv
  PROVE  WorksInv'
<1>1. PlacedInv' /\ made \in Nat /\ made' \in Nat /\ made' >= made
  BY PlacedStep DEF WorksInv
<1>2. TableInv'
  <2> SUFFICES ASSUME NEW t \in Requests, pc'[t] \notin {"idle", "done"}, table' # 0
               PROVE  ent'[t] = table'
    BY DEF TableInv
  <2>1. \/ ent'[t] = table'
        \/ pc[t] \notin {"idle", "done"} /\ ent'[t] = ent[t]
    BY DEF PlaceStep, Steady, Begins, GoesOn, Requests, Tasks
  <2>2. ASSUME pc[t] \notin {"idle", "done"} PROVE ent[t] = table'
    <3>1. ent[t] \in 1..made
      BY <2>2 DEF WorksInv, PlacedInv, Requests, Tasks
    <3>2. Kept
      BY <1>1, <2>2, <3>1 DEF TableStep, MadeNew, MadeBy, TakenOutBy
    <3> QED
      BY <2>2, <3>2 DEF Kept, WorksInv, TableInv
  <2> QED
    BY <2>1, <2>2
<1>3. MarkedInv'
  <2> SUFFICES ASSUME NEW c \in Closes, pc'[c] \in Closing
               PROVE  entries'[ent'[c]].closing
    BY DEF MarkedInv
  <2>1. CASE Begins(c)
    BY <2>1 DEF Begins, Closing
  <2>2. CASE Steady(c) \/ GoesOn(c)
    <3>1. pc[c] \in Closing /\ ent'[c] = ent[c]
      BY <2>2 DEF Steady, GoesOn
    <3>2. entries[ent[c]].closing /\ ent[c] \in 1..made
      BY <3>1 DEF WorksInv, MarkedInv, PlacedInv, Closing, Tasks
    <3>3. ent[c] \in 1..MaxEntries
      BY <3>2, AcpConstants DEF TypeInv, HubType
    <3> QED
      BY <3>1, <3>2, <3>3, MarkStays
  <2> QED
    BY <2>1, <2>2 DEF PlaceStep, Tasks
<1>4. FreshInv'
  <2> SUFFICES ASSUME NEW e \in 1..MaxEntries, e > made' PROVE gate'[e] = <<>>
    BY DEF FreshInv
  <2>1. e > made /\ gate[e] = <<>>
    BY <1>1 DEF WorksInv, FreshInv
  <2>2. ASSUME NEW t \in Tasks, OutsideGate(t) PROVE gate'[e] = gate[e]
    <3>1. CASE gate' = gate
      BY <3>1
    <3>2. CASE gate' = [gate EXCEPT ![ent'[t]] = Append(@, t)] /\ pc'[t] \in {"gate", "wait"}
      <4>1. ent'[t] \in 1..made'
        BY <1>1, <3>2 DEF PlacedInv
      <4> QED
        BY <1>1, <3>2, <4>1 DEF TypeInv, HubType
    <3> QED
      BY <2>2, <3>1, <3>2 DEF OutsideGate
  <2>3. ASSUME NEW t \in Tasks, Leaves(t) PROVE gate'[e] = gate[e]
    <3>1. ent[t] \in 1..made
      BY <2>3 DEF Leaves, InGate, WorksInv, PlacedInv
    <3> QED
      BY <1>1, <2>1, <2>3, <3>1 DEF Leaves, Release, TypeInv, HubType
  <2>4. ASSUME NEW t \in Tasks, Reclaims(t) PROVE gate'[e] = gate[e]
    <3>1. ent[t] \in 1..made
      BY <2>4 DEF Reclaims, WorksInv, PlacedInv
    <3> QED
      BY <1>1, <2>1, <2>4, <3>1 DEF Reclaims, TypeInv, HubType
  <2> QED
    BY <2>1, <2>2, <2>3, <2>4 DEF GateStep, Stays, Enters, MovesOn
<1>5. FirstInv'
  <2> SUFFICES ASSUME NEW l \in Loads
               PROVE  /\ pc'[l] = "idle" => ~created'[l]
                      /\ created'[l] /\ pc'[l] = "gate" => Holds(l)'
    BY DEF FirstInv
  <2>1. pc[l] = "idle" => ~created[l]
    BY DEF WorksInv, FirstInv
  <2>2. l \in Tasks /\ (Steady(l) \/ Begins(l) \/ GoesOn(l))
    BY DEF PlaceStep, Tasks
  <2>3. CASE MadeBy(l)
    <3>1. pc'[l] = "gate" /\ ent'[l] = made + 1 /\ gate'[made + 1] = Append(gate[made + 1], l)
      <4>1. made + 1 \in 1..MaxEntries
        BY <1>1, <2>3, AcpConstants DEF MadeBy, TypeInv, HubType
      <4> QED
        BY <2>2, <2>3, <4>1 DEF MadeBy, TypeInv, HubType, TaskType
    <3>2. made + 1 \in 1..MaxEntries /\ gate[made + 1] = <<>>
      <4>1. made + 1 \in 1..MaxEntries
        BY <1>1, <2>3, AcpConstants DEF MadeBy, TypeInv, HubType
      <4> QED
        BY <1>1, <4>1 DEF WorksInv, FreshInv
    <3>3. gate'[made + 1] = <<l>>
      BY <2>2, <3>1, <3>2
    <3> QED
      BY <1>1, <3>1, <3>3 DEF Holds
  <2>4. CASE ~MadeBy(l)
    <3>1. created'[l] = created[l]
      <4>1. ASSUME NEW m \in Loads, MadeBy(m) PROVE created'[l] = created[l]
        <5>1. m # l
          BY <2>4, <4>1
        <5> QED
          BY <2>2, <4>1, <5>1 DEF MadeBy, TypeInv, TaskType
      <4> QED
        BY <4>1 DEF TableStep, Kept, MadeNew, TakenOutBy
    <3>2. CASE Steady(l)
      BY <2>2, <3>1, <3>2, HeldKept DEF Steady, WorksInv, FirstInv
    <3>3. CASE Begins(l) \/ GoesOn(l)
      BY <2>1, <3>1, <3>3 DEF Begins, GoesOn
    <3> QED
      BY <2>2, <3>2, <3>3
  <2> QED
    BY <2>3, <2>4
<1> QED
  BY <1>1, <1>2, <1>3, <1>4, <1>5 DEF WorksInv

-----------------------------------------------------------------------------
(* A live prompt *)

\* A prompt that is live was so before, or has just been armed.
LEMMA ActiveSteps ==
  ASSUME TypeInv, TypeInv', EventsInv, EntryStep, NEW p \in Prompts, Active(p)'
  PROVE  \/ Active(p) /\ ent'[p] = ent[p]
         \/ Arms(p)
<1> DEFINE e == ent'[p]
<1>1. p \in Tasks /\ p # NoTask /\ e # 0 /\ entries'[e].events = p
  BY AcpConstants DEF Active, Tasks
<1>2. CASE e \in 1..MaxEntries
  <2>1. ASSUME NEW t \in Tasks, Arms(t), ent[t] = e PROVE Arms(p)
    <3>1. entries'[e] \in {ArmTurn(entries[e], t), ArmAttached(entries[e], t)}
      BY <1>2, <2>1 DEF Arms, TypeInv, HubType
    <3>2. entries'[e].events = t
      BY <1>2, <3>1 DEF ArmTurn, ArmAttached, TypeInv, HubType, EntryRec
    <3> QED
      BY <1>1, <2>1, <3>2
  <2>2. ASSUME \A t \in Tasks : Arms(t) => ent[t] # e
        PROVE  entries[e].events = p
    <3>1. CASE entries' = entries
      BY <1>1, <3>1
    <3>2. CASE Disarms
      <4>1. entries'[e] \in {entries[e], Disarmed(entries[e])}
        BY <1>2, <3>2 DEF Disarms, TypeInv, HubType
      <4>2. Disarmed(entries[e]).events = NoTask
        BY DEF Disarmed
      <4> QED
        BY <1>1, <4>1, <4>2
    <3>3. CASE Marks
      <4>1. entries'[e] \in {entries[e], [entries[e] EXCEPT !.closing = TRUE],
                             [entries[e] EXCEPT !.cancel = TRUE]}
        BY <1>2, <3>3 DEF Marks, TypeInv, HubType
      <4> QED
        BY <1>1, <1>2, <4>1 DEF TypeInv, HubType, EntryRec
    <3>4. ASSUME NEW t \in Tasks, Arms(t) PROVE entries'[e] = entries[e]
      BY <1>2, <2>2, <3>4 DEF Arms, TypeInv, HubType
    <3> QED
      BY <1>1, <3>1, <3>2, <3>3, <3>4 DEF EntryStep
  <2>3. ASSUME entries[e].events = p PROVE Active(p) /\ ent'[p] = ent[p]
    BY <1>1, <1>2, <2>3 DEF EventsInv, Active
  <2> QED
    BY <2>1, <2>2, <2>3
<1>3. e \in 1..MaxEntries
  BY <1>1 DEF TypeInv, TaskType
<1> QED
  BY <1>2, <1>3

\* A prompt that has the gate has it on the entry in the table.
LEMMA CurrentStep ==
  ASSUME TypeInv, HoldsInv, GateStep, EntryStep, PlaceStep, TableStep, WorksInv, CurrentInv
  PROVE  CurrentInv'
<1> SUFFICES ASSUME NEW p \in Prompts, pc'[p] \in InGate
             PROVE  entries'[ent'[p]].closing \/ table' = ent'[p]
  BY DEF CurrentInv
<1>1. p \in Tasks /\ ent'[p] = ent[p]
  BY DEF PlaceStep, Steady, Begins, GoesOn, InGate, Tasks
<1>2. CASE pc[p] \in InGate
  <2>1. Holds(p) /\ ent[p] \in 1..MaxEntries
    BY <1>1, <1>2 DEF HoldsInv, Holds, TypeInv, TaskType
  <2>2. CASE entries[ent[p]].closing
    BY <1>1, <2>1, <2>2, MarkStays
  <2>3. CASE table = ent[p]
    <3>1. CASE Kept
      BY <1>1, <2>3, <3>1 DEF Kept
    <3>2. ASSUME NEW t \in Tasks, TakenOutBy(t) PROVE entries[ent[p]].closing
      <4>1. CASE pc[t] = "gate" /\ Holds(t) /\ table = ent[t]
        BY <1>1, <1>2, <2>1, <2>3, <4>1, OneHolder DEF InGate
      <4>2. CASE t \in Loads /\ pc[t] = "armed"
        <5>1. Holds(t) /\ ent[t] = table
          BY <2>1, <2>3, <4>2 DEF HoldsInv, InGate, WorksInv, TableInv, Requests
        <5> QED
          BY <1>1, <2>1, <2>3, <4>2, <5>1, OneHolder, AcpConstants
      <4>3. CASE t \in Closes /\ pc[t] = "remove"
        BY <2>1, <2>3, <4>3 DEF WorksInv, TableInv, MarkedInv, Requests, Closing
      <4> QED
        BY <3>2, <4>1, <4>2, <4>3 DEF TakenOutBy
    <3>3. ~MadeNew /\ \A l \in Loads : ~MadeBy(l)
      BY <2>1, <2>3 DEF MadeNew, MadeBy
    <3>4. ASSUME entries[ent[p]].closing PROVE entries'[ent'[p]].closing
      BY <1>1, <2>1, <3>4, MarkStays
    <3> QED
      BY <3>1, <3>2, <3>3, <3>4 DEF TableStep
  <2> QED
    BY <1>2, <2>2, <2>3 DEF CurrentInv
<1>3. CASE pc[p] \notin InGate
  <2>1. PICK t \in Tasks : /\ Others(t)
                           /\ \/ OutsideGate(t) \/ Enters(t) \/ MovesOn(t)
                              \/ Leaves(t) \/ Reclaims(t)
    BY <1>3 DEF GateStep, Stays
  <2>2. t = p
    BY <1>1, <1>3, <2>1 DEF Others
  <2>3. Enters(p)
    BY <1>3, <2>1, <2>2 DEF OutsideGate, MovesOn, Leaves, Reclaims, InGate
  <2> QED
    BY <1>1, <2>3 DEF Enters, IsCurrent
<1> QED
  BY <1>2, <1>3

LEMMA ActiveStep ==
  ASSUME TypeInv, TypeInv', HoldsInv, EventsInv, EntryStep, TableStep, RoutedInv, WorksInv,
         CurrentInv, ActiveInv, gw.subscribed => gw'.subscribed \/ Unrouting
  PROVE  ActiveInv'
<1> SUFFICES ASSUME NEW p \in Prompts, Active(p)'
             PROVE  table' = ent'[p] /\ gw'.subscribed
  BY DEF ActiveInv
<1>1. CASE Active(p) /\ ent'[p] = ent[p]
  <2>1. table = ent[p] /\ table # 0 /\ gw.subscribed
    BY <1>1 DEF ActiveInv, Active
  <2>2. gw'.subscribed
    BY <2>1 DEF Unrouting, RoutedInv, UnsubscribeInv
  <2>3. ~MadeNew /\ \A l \in Loads : ~MadeBy(l)
    BY <2>1 DEF MadeNew, MadeBy
  <2>4. ASSUME NEW t \in Tasks, TakenOutBy(t) PROVE FALSE
    <3>1. table \in 1..MaxEntries
      BY <2>1, TableRange
    <3>2. entries'[table] = Disarmed(entries[table])
      BY <2>1, <2>4, <3>1 DEF TakenOutBy, TypeInv, HubType
    <3>3. entries'[table].events = NoTask
      BY <3>2 DEF Disarmed
    <3> QED
      BY <1>1, <2>1, <3>3, AcpConstants DEF Active, Tasks
  <2> QED
    BY <1>1, <2>1, <2>2, <2>3, <2>4 DEF TableStep, Kept
<1>2. CASE Arms(p)
  <2>1. pc[p] = "alive" /\ ~entries[ent[p]].closing /\ UNCHANGED <<ent, table, gw>> /\ p \in Tasks
    BY <1>2 DEF Arms, Tasks
  <2>2. Holds(p) /\ table = ent[p] /\ table # 0
    BY <2>1 DEF HoldsInv, CurrentInv, InGate, Holds
  <2>3. ~Going
    BY <2>1, <2>2 DEF Going, WorksInv, TableInv, MarkedInv, Closing, Requests
  <2>4. ~Coming
    <3> SUFFICES ASSUME NEW l \in Loads, created[l], ent[l] = table, pc[l] \in Asking
                 PROVE  FALSE
      BY DEF Coming
    <3>1. Holds(l)
      BY DEF Asking, WorksInv, FirstInv, HoldsInv, InGate, Tasks
    <3> QED
      BY <2>1, <2>2, <3>1, OneHolder, AcpConstants DEF Tasks
  <2> QED
    BY <2>1, <2>2, <2>3, <2>4 DEF RoutedInv, RouteInv
<1> QED
  BY <1>1, <1>2, ActiveSteps

\* A prompt stays live until it lets go of the gate, its entry is closed or the stream ends.
LEMMA ActiveStays ==
  ASSUME TypeInv, HoldsInv, EventsInv, GateStep, EntryStep, PlaceStep, TableStep, WorksInv,
         ActiveInv, pump # "dead", NEW p \in Prompts, Active(p), pc'[p] # "done"
  PROVE  Active(p)' \/ entries[ent[p]].closing
<1> DEFINE e == ent[p]
<1>1. p \in Tasks /\ p # NoTask /\ e \in 1..MaxEntries /\ entries[e].events = p
  BY AcpConstants DEF Active, Tasks, TypeInv, TaskType
<1>2. pc[p] \in Armed /\ Holds(p) /\ table = e
  BY <1>1 DEF EventsInv, HoldsInv, Armed, ActiveInv
<1>3. ent'[p] = e
  BY <1>1, <1>2 DEF PlaceStep, Steady, Begins, GoesOn, Armed, InGate
<1> SUFFICES ASSUME ~entries[e].closing PROVE entries'[e].events = p
  BY <1>1, <1>3 DEF Active
<1>4. CASE entries' = entries
  BY <1>1, <1>4
<1>5. CASE Disarms
  <2>1. ASSUME NEW t \in Tasks, entries' = [entries EXCEPT ![ent[t]] = Disarmed(@)],
               pc[t] \in Armed, pc'[t] = "done"
        PROVE  entries'[e].events = p
    <3>1. ent[t] # e
      BY <1>1, <1>2, <2>1, OneHolder DEF HoldsInv, Armed
    <3> QED
      BY <1>1, <2>1, <3>1 DEF TypeInv, HubType
  <2>2. ASSUME table' = 0 PROVE FALSE
    <3>1. PICK t \in Tasks : TakenOutBy(t)
      BY <1>1, <1>2, <2>2, AcpConstants DEF TableStep, Kept, MadeNew, MadeBy, TypeInv, HubType
    <3>2. CASE pc[t] = "gate" /\ Holds(t) /\ table = ent[t]
      BY <1>1, <1>2, <3>2, OneHolder DEF Armed, InGate
    <3>3. CASE t \in Loads /\ pc[t] = "armed"
      <4>1. Holds(t) /\ ent[t] = table
        BY <1>1, <1>2, <3>3 DEF HoldsInv, InGate, WorksInv, TableInv, Requests
      <4> QED
        BY <1>1, <1>2, <3>3, <4>1, OneHolder, AcpConstants
    <3>4. CASE t \in Closes /\ pc[t] = "remove"
      BY <1>1, <1>2, <3>4 DEF WorksInv, TableInv, MarkedInv, Requests, Closing
    <3> QED
      BY <3>1, <3>2, <3>3, <3>4 DEF TakenOutBy
  <2> QED
    BY <1>5, <2>1, <2>2 DEF Disarms
<1>6. CASE Marks
  <2>1. entries'[e] \in {entries[e], [entries[e] EXCEPT !.closing = TRUE],
                         [entries[e] EXCEPT !.cancel = TRUE]}
    BY <1>1, <1>6 DEF Marks, TypeInv, HubType
  <2> QED
    BY <1>1, <2>1 DEF TypeInv, HubType, EntryRec
<1>7. ASSUME NEW t \in Tasks, Arms(t) PROVE entries'[e].events = p
  <2>1. ent[t] # e
    <3>1. Holds(t) /\ t # p
      BY <1>2, <1>7 DEF Arms, HoldsInv, Armed, InGate
    <3> QED
      BY <1>1, <1>2, <3>1, OneHolder
  <2> QED
    BY <1>1, <1>7, <2>1 DEF Arms, TypeInv, HubType
<1> QED
  BY <1>4, <1>5, <1>6, <1>7 DEF EntryStep

LEMMA ArmedStep ==
  ASSUME TypeInv, HoldsInv, EventsInv, GateStep, EntryStep, PlaceStep, TableStep, WorksInv,
         ActiveInv, ArmedInv, pump' = "run" => pump = "run"
  PROVE  ArmedInv'
<1> SUFFICES ASSUME pump' = "run", NEW p \in Prompts, pc'[p] \in Armed
             PROVE  Active(p)' \/ entries'[ent'[p]].closing
  BY DEF ArmedInv
<1>1. p \in Tasks /\ ent'[p] = ent[p] /\ pump # "dead"
  BY DEF PlaceStep, Steady, Begins, GoesOn, Armed, InGate, Tasks
<1>2. CASE pc[p] \in Armed
  <2>1. ent[p] \in 1..MaxEntries
    BY <1>1, <1>2 DEF HoldsInv, Holds, Armed, TypeInv, TaskType
  <2>2. CASE entries[ent[p]].closing
    BY <1>1, <2>1, <2>2, MarkStays
  <2>3. CASE Active(p)
    <3>1. Active(p)' \/ entries[ent[p]].closing
      BY <1>1, <2>3, ActiveStays DEF Armed, InGate
    <3> QED
      BY <1>1, <2>1, <3>1, MarkStays
  <2> QED
    BY <1>1, <1>2, <2>2, <2>3 DEF ArmedInv
<1>3. CASE pc[p] \notin Armed
  <2>1. Arms(p)
    BY <1>1, <1>3 DEF GateStep, Stays, Others, OutsideGate, Enters, MovesOn, Leaves, Reclaims,
       Armed, InGate
  <2>2. Holds(p) /\ ent[p] \in 1..MaxEntries
    BY <1>1, <2>1 DEF Arms, HoldsInv, InGate, Holds, TypeInv, TaskType
  <2>3. entries'[ent[p]] \in {ArmTurn(entries[ent[p]], p), ArmAttached(entries[ent[p]], p)}
    BY <2>1, <2>2 DEF Arms, TypeInv, HubType
  <2>4. entries'[ent[p]].events = p
    BY <2>2, <2>3 DEF ArmTurn, ArmAttached, TypeInv, HubType, EntryRec
  <2> QED
    BY <1>1, <2>2, <2>4 DEF Active
<1> QED
  BY <1>2, <1>3


-----------------------------------------------------------------------------
(* What a step does to a prompt and to its stream *)

\* The only steps of a prompt that end it once it is armed.
Ended(p) == PromptStreamEnded(p) \/ PromptDrain(p) \/ PromptDrainOver(p)
Waiting == {"armed", "loop", "ask", "answer"}
KeepStep(p) ==
    /\ pc[p] \in {"drain", "done"} => pc'[p] \in {"drain", "done"}
    /\ endedBy'[p] = endedBy[p] \/ PromptNext(p)
    /\ pc'[p] \notin Armed =>
          rx'[p] = <<>> \/ (rx'[p] = rx[p] /\ pc[p] \notin Armed) \/ PumpDispatch
    /\ pc[p] \in Armed /\ pc'[p] = "done" => Ended(p)
    /\ pc'[p] \in Waiting => /\ pc[p] \in Waiting \cup {"alive"}
                             /\ rx'[p] = rx[p] \/ PromptNext(p) \/ PumpDispatch
    /\ pc'[p] = "drain" => pc[p] = "drain" \/ PromptNext(p)

LEMMA KeepSteps ==
  ASSUME TypeInv, [Next]_vars, NEW p \in Prompts
  PROVE  KeepStep(p)
<1>1. CASE NewSession
  BY <1>1, AcpConstants DEF NewSession, KeepStep, Armed, InGate, Waiting, Tasks, TypeInv,
     TaskType, WireType
<1>2. CASE ClientCancel
  BY <1>2, AcpConstants DEF ClientCancel, CancelTurn, KeepStep, Armed, InGate, Waiting,
     Tasks, TypeInv, TaskType, WireType
<1>3. CASE StreamEnds
  BY <1>3, AcpConstants DEF StreamEnds, KeepStep, Armed, InGate, Waiting, Tasks, TypeInv,
     TaskType, WireType
<1>4. CASE PumpDispatch
  BY <1>4, AcpConstants DEF PumpDispatch, KeepStep, Armed, InGate, Waiting, Tasks, TypeInv,
     TaskType, WireType
<1>5. CASE PumpSend
  BY <1>5, AcpConstants DEF PumpSend, KeepStep, Armed, InGate, Waiting, Tasks, TypeInv,
     TaskType, WireType
<1>6. CASE FailInFlight
  BY <1>6, AcpConstants DEF FailInFlight, KeepStep, Armed, InGate, Waiting, Tasks, TypeInv,
     TaskType, WireType
<1>7. CASE PumpCloses
  BY <1>7, AcpConstants DEF PumpCloses, KeepStep, Armed, InGate, Waiting, Tasks, TypeInv,
     TaskType, WireType
<1>8. CASE Gateway
  BY <1>8, AcpConstants DEF Gateway, KeepStep, Armed, InGate, Waiting, Tasks, TypeInv,
     TaskType, WireType
<1>9. ASSUME NEW t \in Prompts, PromptStart(t) PROVE KeepStep(p)
  BY <1>9, AcpConstants DEF PromptStart, Answer, KeepStep, Armed, InGate, Waiting, Tasks,
     TypeInv, TaskType, WireType, Goto
<1>10. ASSUME NEW t \in Tasks, TakeGate(t) PROVE KeepStep(p)
  BY <1>10, AcpConstants DEF TakeGate, RemoveEntry, Answer, IsCurrent, KeepStep, Armed,
     InGate, Waiting, Tasks, TypeInv, TaskType, WireType, Goto
<1>11. ASSUME NEW t \in Prompts, PromptArm(t) PROVE KeepStep(p)
  BY <1>11, AcpConstants DEF PromptArm, Answer, Send, KeepStep, Armed, InGate, Waiting,
     Tasks, TypeInv, TaskType, WireType, Goto
<1>12. ASSUME NEW t \in Prompts, SendQueued(t) PROVE KeepStep(p)
  BY <1>12, AcpConstants DEF SendQueued, Send, KeepStep, Armed, InGate, Waiting, Tasks,
     TypeInv, TaskType, WireType, Goto
<1>13. ASSUME NEW t \in Prompts, PromptNext(t) PROVE KeepStep(p)
  <2>1. CASE t = p
    <3>1. pc[p] = "loop" /\ pc'[p] \in {"ask", "drain", "loop"}
      BY <1>13, <2>1 DEF PromptNext, Goto, Tasks, TypeInv, TaskType
    <3> QED
      BY <1>13, <2>1, <3>1 DEF KeepStep, Armed, InGate, Waiting
  <2>2. CASE t # p
    <3>1. pc'[p] = pc[p] /\ rx'[p] = rx[p] /\ endedBy'[p] = endedBy[p]
      BY <1>13, <2>2 DEF PromptNext, Goto, Tasks, TypeInv, TaskType, WireType
    <3> QED
      BY <3>1 DEF KeepStep, Armed, InGate, Waiting
  <2> QED
    BY <2>1, <2>2
<1>14. ASSUME NEW t \in Prompts, PromptStreamEnded(t) PROVE KeepStep(p)
  BY <1>14, AcpConstants DEF PromptStreamEnded, DropHandle, Answer, KeepStep, Armed, InGate,
     Waiting, Tasks, TypeInv, TaskType, WireType, Ended, Goto
<1>15. ASSUME NEW t \in Prompts, AskAbandoned(t) PROVE KeepStep(p)
  BY <1>15, AcpConstants DEF AskAbandoned, KeepStep, Armed, InGate, Waiting, Tasks, TypeInv,
     TaskType, WireType, Goto
<1>16. ASSUME NEW t \in Prompts, AskResolved(t) PROVE KeepStep(p)
  BY <1>16, AcpConstants DEF AskResolved, Send, KeepStep, Armed, InGate, Waiting, Tasks,
     TypeInv, TaskType, WireType, Goto
<1>17. ASSUME NEW t \in Prompts, PromptDrain(t) PROVE KeepStep(p)
  BY <1>17, AcpConstants DEF PromptDrain, Finish, DropHandle, Answer, KeepStep, Armed,
     InGate, Waiting, Tasks, TypeInv, TaskType, WireType, Ended, Goto
<1>18. ASSUME NEW t \in Prompts, PromptDrainOver(t) PROVE KeepStep(p)
  BY <1>18, AcpConstants DEF PromptDrainOver, Finish, DropHandle, Answer, KeepStep, Armed,
     InGate, Waiting, Tasks, TypeInv, TaskType, WireType, Ended, Goto
<1>19. ASSUME NEW t \in Loads, LoadStart(t) PROVE KeepStep(p)
  BY <1>19, AcpConstants DEF LoadStart, Answer, RequestUnanswered, Requests, KeepStep,
     Armed, InGate, Waiting, Tasks, TypeInv, TaskType, WireType, Goto
<1>20. ASSUME NEW t \in Loads, LoadArm(t) PROVE KeepStep(p)
  BY <1>20, AcpConstants DEF LoadArm, Answer, KeepStep, Armed, InGate, Waiting, Tasks,
     TypeInv, TaskType, WireType, Goto
<1>21. ASSUME NEW t \in Loads, LoadSubscribe(t) PROVE KeepStep(p)
  BY <1>21, AcpConstants DEF LoadSubscribe, KeepStep, Armed, InGate, Waiting, Tasks,
     TypeInv, TaskType, WireType, Goto
<1>22. ASSUME NEW t \in Loads, LoadSubscribeFails(t) PROVE KeepStep(p)
  BY <1>22, AcpConstants DEF LoadSubscribeFails, RemoveEntry, DropHandle, Answer, KeepStep,
     Armed, InGate, Waiting, Tasks, TypeInv, TaskType, WireType, Goto
<1>23. ASSUME NEW t \in Loads, LoadRollback(t) PROVE KeepStep(p)
  BY <1>23, AcpConstants DEF LoadRollback, DropHandle, Answer, KeepStep, Armed, InGate,
     Waiting, Tasks, TypeInv, TaskType, WireType, Goto
<1>24. ASSUME NEW t \in Loads, LoadRead(t) PROVE KeepStep(p)
  BY <1>24, AcpConstants DEF LoadRead, KeepStep, Armed, InGate, Waiting, Tasks, TypeInv,
     TaskType, WireType, Goto
<1>25. ASSUME NEW t \in Loads, LoadGivesUp(t) PROVE KeepStep(p)
  BY <1>25, AcpConstants DEF LoadGivesUp, DropHandle, Answer, KeepStep, Armed, InGate,
     Waiting, Tasks, TypeInv, TaskType, WireType, Goto
<1>26. ASSUME NEW t \in Loads, LoadFinish(t) PROVE KeepStep(p)
  BY <1>26, AcpConstants DEF LoadFinish, DropHandle, Answer, KeepStep, Armed, InGate,
     Waiting, Tasks, TypeInv, TaskType, WireType, Goto
<1>27. ASSUME NEW t \in Closes, CloseStart(t) PROVE KeepStep(p)
  BY <1>27, AcpConstants DEF CloseStart, Answer, KeepStep, Armed, InGate, Waiting, Tasks,
     TypeInv, TaskType, WireType, Goto
<1>28. ASSUME NEW t \in Closes, CloseCancel(t) PROVE KeepStep(p)
  BY <1>28, AcpConstants DEF CloseCancel, CancelTurn, KeepStep, Armed, InGate, Waiting,
     Tasks, TypeInv, TaskType, WireType, Goto
<1>29. ASSUME NEW t \in Closes, CloseReclaim(t) PROVE KeepStep(p)
  BY <1>29, AcpConstants DEF CloseReclaim, KeepStep, Armed, InGate, Waiting, Tasks, TypeInv,
     TaskType, WireType, Goto
<1>30. ASSUME NEW t \in Closes, CloseRemove(t) PROVE KeepStep(p)
  BY <1>30, AcpConstants DEF CloseRemove, RemoveEntry, KeepStep, Armed, InGate, Waiting,
     Tasks, TypeInv, TaskType, WireType, Goto
<1>31. ASSUME NEW t \in Closes, CloseFinish(t) PROVE KeepStep(p)
  BY <1>31, AcpConstants DEF CloseFinish, Answer, KeepStep, Armed, InGate, Waiting, Tasks,
     TypeInv, TaskType, WireType, Goto
<1>32. CASE UNCHANGED vars
  BY <1>32, AcpConstants DEF vars, KeepStep, Armed, InGate, Waiting, Tasks, TypeInv,
     TaskType, WireType
<1> QED
  BY <1>1, <1>2, <1>3, <1>4, <1>5, <1>6, <1>7, <1>8, <1>9, <1>10, <1>11, <1>12, <1>13,
     <1>14, <1>15, <1>16, <1>17, <1>18, <1>19, <1>20, <1>21, <1>22, <1>23, <1>24, <1>25,
     <1>26, <1>27, <1>28, <1>29, <1>30, <1>31, <1>32, NextSplit DEF Tasks

\* What the turn at the gateway is up to, and a prompt that neither sends nor reads.
SameTurn ==
    /\ gw'.inbox = gw.inbox /\ gw'.turn = gw.turn /\ gw'.phase = gw.phase
    /\ gw'.waiter = gw.waiter
Calm(p) ==
    /\ rx'[p] = rx[p] /\ endedBy'[p] = endedBy[p]
    /\ pc'[p] = pc[p] \/ (pc[p] \notin Armed /\ pc'[p] \notin Armed)
Own(p) == PromptNext(p) \/ AskAbandoned(p) \/ Ended(p)
Hushed == UNCHANGED <<outbound, evq>> /\ SameTurn /\ \A p \in Prompts : Calm(p) \/ Own(p)
Wire ==
    \/ PumpDispatch \/ PumpSend \/ StreamEnds \/ Gateway
    \/ \E l \in Loads : LoadSubscribe(l)
Sending(p) == PromptArm(p) \/ SendQueued(p) \/ AskResolved(p)

\* A step leaves the stream alone and moves one prompt at most, moves the stream, or sends.
LEMMA StreamSteps ==
  ASSUME TypeInv, [Next]_vars
  PROVE  Hushed \/ Wire \/ \E p \in Prompts : Sending(p)
<1>1. CASE NewSession
  BY <1>1, AcpConstants DEF NewSession, Hushed, Calm, SameTurn, Armed, InGate, gwVars,
     Tasks, TypeInv, TaskType, WireType, GatewayRec
<1>2. CASE ClientCancel
  BY <1>2, AcpConstants DEF ClientCancel, CancelTurn, Hushed, Calm, SameTurn, Armed, InGate,
     gwVars, Tasks, TypeInv, TaskType, WireType, GatewayRec
<1>3. CASE StreamEnds
  BY <1>3 DEF Wire
<1>4. CASE PumpDispatch
  BY <1>4 DEF Wire
<1>5. CASE PumpSend
  BY <1>5 DEF Wire
<1>6. CASE FailInFlight
  BY <1>6, AcpConstants DEF FailInFlight, Hushed, Calm, SameTurn, Armed, InGate, gwVars,
     Tasks, TypeInv, TaskType, WireType, GatewayRec
<1>7. CASE PumpCloses
  BY <1>7, AcpConstants DEF PumpCloses, Hushed, Calm, SameTurn, Armed, InGate, gwVars,
     Tasks, TypeInv, TaskType, WireType, GatewayRec
<1>8. CASE Gateway
  BY <1>8 DEF Wire
<1>9. ASSUME NEW t \in Prompts, PromptStart(t) PROVE Hushed
  BY <1>9, AcpConstants DEF PromptStart, Answer, Hushed, Calm, SameTurn, Armed, InGate,
     gwVars, Tasks, TypeInv, TaskType, WireType, GatewayRec, Goto
<1>10. ASSUME NEW t \in Tasks, TakeGate(t) PROVE Hushed
  BY <1>10, AcpConstants DEF TakeGate, RemoveEntry, Answer, IsCurrent, Hushed, Calm,
     SameTurn, Armed, InGate, gwVars, Tasks, TypeInv, TaskType, WireType, GatewayRec, Goto
<1>11. ASSUME NEW t \in Prompts, PromptArm(t) PROVE Sending(t)
  BY <1>11 DEF Sending
<1>12. ASSUME NEW t \in Prompts, SendQueued(t) PROVE Sending(t)
  BY <1>12 DEF Sending
<1>13. ASSUME NEW t \in Prompts, PromptNext(t) PROVE Hushed
  BY <1>13, AcpConstants DEF PromptNext, Hushed, Calm, SameTurn, Armed, InGate, gwVars,
     Tasks, TypeInv, TaskType, WireType, GatewayRec, Own, Goto
<1>14. ASSUME NEW t \in Prompts, PromptStreamEnded(t) PROVE Hushed
  BY <1>14, AcpConstants DEF PromptStreamEnded, DropHandle, Answer, Hushed, Calm, SameTurn,
     Armed, InGate, gwVars, Tasks, TypeInv, TaskType, WireType, GatewayRec, Own, Ended, Goto
<1>15. ASSUME NEW t \in Prompts, AskAbandoned(t) PROVE Hushed
  BY <1>15, AcpConstants DEF AskAbandoned, Hushed, Calm, SameTurn, Armed, InGate, gwVars,
     Tasks, TypeInv, TaskType, WireType, GatewayRec, Own, Goto
<1>16. ASSUME NEW t \in Prompts, AskResolved(t) PROVE Sending(t)
  BY <1>16 DEF Sending
<1>17. ASSUME NEW t \in Prompts, PromptDrain(t) PROVE Hushed
  BY <1>17, AcpConstants DEF PromptDrain, Finish, DropHandle, Answer, Hushed, Calm,
     SameTurn, Armed, InGate, gwVars, Tasks, TypeInv, TaskType, WireType, GatewayRec, Own,
     Ended, Goto
<1>18. ASSUME NEW t \in Prompts, PromptDrainOver(t) PROVE Hushed
  BY <1>18, AcpConstants DEF PromptDrainOver, Finish, DropHandle, Answer, Hushed, Calm,
     SameTurn, Armed, InGate, gwVars, Tasks, TypeInv, TaskType, WireType, GatewayRec, Own,
     Ended, Goto
<1>19. ASSUME NEW t \in Loads, LoadStart(t) PROVE Hushed
  BY <1>19, AcpConstants DEF LoadStart, Answer, RequestUnanswered, Requests, Hushed, Calm,
     SameTurn, Armed, InGate, gwVars, Tasks, TypeInv, TaskType, WireType, GatewayRec, Goto
<1>20. ASSUME NEW t \in Loads, LoadArm(t) PROVE Hushed
  BY <1>20, AcpConstants DEF LoadArm, Answer, Hushed, Calm, SameTurn, Armed, InGate, gwVars,
     Tasks, TypeInv, TaskType, WireType, GatewayRec, Goto
<1>21. ASSUME NEW t \in Loads, LoadSubscribe(t) PROVE Wire
  BY <1>21 DEF Wire
<1>22. ASSUME NEW t \in Loads, LoadSubscribeFails(t) PROVE Hushed
  BY <1>22, AcpConstants DEF LoadSubscribeFails, RemoveEntry, DropHandle, Answer, Hushed,
     Calm, SameTurn, Armed, InGate, gwVars, Tasks, TypeInv, TaskType, WireType, GatewayRec,
     Goto
<1>23. ASSUME NEW t \in Loads, LoadRollback(t) PROVE Hushed
  BY <1>23, AcpConstants DEF LoadRollback, DropHandle, Answer, Hushed, Calm, SameTurn,
     Armed, InGate, gwVars, Tasks, TypeInv, TaskType, WireType, GatewayRec, Goto
<1>24. ASSUME NEW t \in Loads, LoadRead(t) PROVE Hushed
  BY <1>24, AcpConstants DEF LoadRead, Hushed, Calm, SameTurn, Armed, InGate, gwVars, Tasks,
     TypeInv, TaskType, WireType, GatewayRec, Goto
<1>25. ASSUME NEW t \in Loads, LoadGivesUp(t) PROVE Hushed
  BY <1>25, AcpConstants DEF LoadGivesUp, DropHandle, Answer, Hushed, Calm, SameTurn, Armed,
     InGate, gwVars, Tasks, TypeInv, TaskType, WireType, GatewayRec, Goto
<1>26. ASSUME NEW t \in Loads, LoadFinish(t) PROVE Hushed
  BY <1>26, AcpConstants DEF LoadFinish, DropHandle, Answer, Hushed, Calm, SameTurn, Armed,
     InGate, gwVars, Tasks, TypeInv, TaskType, WireType, GatewayRec, Goto
<1>27. ASSUME NEW t \in Closes, CloseStart(t) PROVE Hushed
  BY <1>27, AcpConstants DEF CloseStart, Answer, Hushed, Calm, SameTurn, Armed, InGate,
     gwVars, Tasks, TypeInv, TaskType, WireType, GatewayRec, Goto
<1>28. ASSUME NEW t \in Closes, CloseCancel(t) PROVE Hushed
  BY <1>28, AcpConstants DEF CloseCancel, CancelTurn, Hushed, Calm, SameTurn, Armed, InGate,
     gwVars, Tasks, TypeInv, TaskType, WireType, GatewayRec, Goto
<1>29. ASSUME NEW t \in Closes, CloseReclaim(t) PROVE Hushed
  BY <1>29, AcpConstants DEF CloseReclaim, Hushed, Calm, SameTurn, Armed, InGate, gwVars,
     Tasks, TypeInv, TaskType, WireType, GatewayRec, Goto
<1>30. ASSUME NEW t \in Closes, CloseRemove(t) PROVE Hushed
  BY <1>30, AcpConstants DEF CloseRemove, RemoveEntry, Hushed, Calm, SameTurn, Armed,
     InGate, gwVars, Tasks, TypeInv, TaskType, WireType, GatewayRec, Goto
<1>31. ASSUME NEW t \in Closes, CloseFinish(t) PROVE Hushed
  BY <1>31, AcpConstants DEF CloseFinish, Answer, Hushed, Calm, SameTurn, Armed, InGate,
     gwVars, Tasks, TypeInv, TaskType, WireType, GatewayRec, Goto
<1>32. CASE UNCHANGED vars
  BY <1>32, AcpConstants DEF vars, Hushed, Calm, SameTurn, Armed, InGate, gwVars, Tasks,
     TypeInv, TaskType, WireType, GatewayRec
<1> QED
  BY <1>1, <1>2, <1>3, <1>4, <1>5, <1>6, <1>7, <1>8, <1>9, <1>10, <1>11, <1>12, <1>13,
     <1>14, <1>15, <1>16, <1>17, <1>18, <1>19, <1>20, <1>21, <1>22, <1>23, <1>24, <1>25,
     <1>26, <1>27, <1>28, <1>29, <1>30, <1>31, <1>32, NextSplit DEF Tasks

\* A prompt that does not listen has an empty channel, and one that has not come to its
\* end knows of none.
IdleInv == \A p \in Prompts : pc[p] = "idle" => ent[p] = 0
EndedInv == \A p \in Prompts : pc[p] \notin {"drain", "done"} => endedBy[p].kind = "none"
RxInv == \A p \in Prompts : pc[p] \notin Armed => rx[p] = <<>>
PromptInv == IdleInv /\ EndedInv /\ RxInv

LEMMA DispatchesTo ==
  ASSUME TypeInv, EventsInv, PumpDispatch, NEW p \in Prompts
  PROVE  rx'[p] = rx[p] \/ (pc[p] \in Armed /\ Active(p) /\ table = ent[p] /\ pc'[p] = pc[p])
<1>1. p \in Tasks
  BY DEF Tasks
<1> DEFINE t == IF table = 0 THEN NoTask ELSE entries[table].events
<1>2. /\ pc'[p] = pc[p]
      /\ rx' = IF t = NoTask \/ Len(rx[t]) >= EventBuffer
               THEN rx ELSE [rx EXCEPT ![t] = Append(@, Head(evq))]
  BY DEF PumpDispatch
<1>3. CASE t = p
  <2>1. table # 0 /\ entries[table].events = p
    BY <1>1, <1>3, AcpConstants
  <2>2. ent[p] = table /\ pc[p] \in Armed
    BY <1>1, <2>1, TableRange DEF EventsInv
  <2> QED
    BY <1>2, <2>1, <2>2 DEF Active
<1>4. CASE t # p
  BY <1>1, <1>2, <1>4 DEF TypeInv, TaskType
<1> QED
  BY <1>3, <1>4

LEMMA PromptInvStep ==
  ASSUME TypeInv, EventsInv, PlaceStep, \A p \in Prompts : KeepStep(p), PromptInv
  PROVE  PromptInv'
<1> SUFFICES ASSUME NEW p \in Prompts
             PROVE  /\ pc'[p] = "idle" => ent'[p] = 0
                    /\ pc'[p] \notin {"drain", "done"} => endedBy'[p].kind = "none"
                    /\ pc'[p] \notin Armed => rx'[p] = <<>>
  BY DEF PromptInv, IdleInv, EndedInv, RxInv
<1>1. p \in Tasks /\ KeepStep(p) /\ (Steady(p) \/ Begins(p) \/ GoesOn(p))
  BY DEF PlaceStep, Tasks
<1>2. pc'[p] = "idle" => ent'[p] = 0
  BY <1>1 DEF Steady, Begins, GoesOn, PromptInv, IdleInv
<1>3. ASSUME pc'[p] \notin {"drain", "done"} PROVE endedBy'[p].kind = "none"
  <2>1. endedBy[p].kind = "none"
    BY <1>1, <1>3 DEF KeepStep, PromptInv, EndedInv
  <2>2. ASSUME PromptNext(p) PROVE endedBy' = endedBy
    BY <1>1, <1>3, <2>2 DEF PromptNext, Goto, Terminal, TypeInv, TaskType
  <2> QED
    BY <1>1, <2>1, <2>2 DEF KeepStep
<1>4. ASSUME pc'[p] \notin Armed PROVE rx'[p] = <<>>
  <2>1. pc[p] \notin Armed => rx[p] = <<>>
    BY DEF PromptInv, RxInv
  <2>2. ASSUME PumpDispatch PROVE rx'[p] = <<>>
    <3>1. pc'[p] = pc[p]
      BY <2>2 DEF PumpDispatch
    <3> QED
      BY <1>4, <2>1, <2>2, <3>1, DispatchesTo
  <2> QED
    BY <1>1, <1>4, <2>1, <2>2 DEF KeepStep
<1> QED
  BY <1>2, <1>3, <1>4

\* A prompt is cut short when it ends on an interrupt or its entry is closed under it:
\* its turn may be left at the gateway.  It stays cut.
Cut(q) ==
    \/ endedBy[q].kind = "interrupted"
    \/ ent[q] # 0 /\ entries[ent[q]].closing
Undisturbed(p) == \A q \in Prompts \ {p} : ~Cut(q)

LEMMA CutStays ==
  ASSUME TypeInv, EntryStep, PlaceStep, PromptInv, NEW q \in Prompts, KeepStep(q), Cut(q)
  PROVE  Cut(q)'
<1>1. q \in Tasks /\ (Steady(q) \/ Begins(q) \/ GoesOn(q))
  BY DEF PlaceStep, Tasks
<1>2. CASE endedBy[q].kind = "interrupted"
  <2>1. ~PromptNext(q)
    BY <1>2 DEF PromptNext, PromptInv, EndedInv
  <2> QED
    BY <1>2, <2>1 DEF KeepStep, Cut
<1>3. CASE ent[q] # 0 /\ entries[ent[q]].closing
  <2>1. ent[q] \in 1..MaxEntries /\ ent'[q] = ent[q]
    BY <1>1, <1>3 DEF Steady, Begins, GoesOn, PromptInv, IdleInv, TypeInv, TaskType
  <2> QED
    BY <1>3, <2>1, MarkStays DEF Cut
<1> QED
  BY <1>2, <1>3 DEF Cut

-----------------------------------------------------------------------------
(* What is ahead of a prompt *)

Ends == {"turn_result", "error"}
Tame(ev) == ev.kind \in {"none", "interrupted", "sync_session"}
AllTame(s) == \A i \in 1..Len(s) : Tame(s[i])

\* An interrupt before any result: whoever reads s ends there, and is cut.
Cuts(s, i) == s[i].kind = "interrupted" /\ \A j \in 1..(i - 1) : s[j].kind \notin Ends
Doomed(s) == \E i \in 1..Len(s) : Cuts(s, i)

\* Nothing of another turn in s reaches p before it is cut.
Guarded(s, p) ==
    \A i \in 1..Len(s) :
        Tame(s[i]) \/ s[i].of = p \/ \E j \in 1..(i - 1) : Cuts(s, j)

\* Of the frames of p's own turn, s holds at most its ask, its result, or its end.
AskOnly(s, p) ==
    \A i \in 1..Len(s) :
        \/ Tame(s[i])
        \/ s[i] = Event("ask", p) /\ \A j \in 1..Len(s) : j # i => Tame(s[j])
ResultOnly(s, p) == \A i \in 1..Len(s) : Tame(s[i]) \/ s[i] = Event("turn_result", p)
EndOnly(s, p) ==
    /\ \A i \in 1..Len(s) : Tame(s[i]) \/ (s[i].of = p /\ s[i].kind \in Ends \cup {"done"})
    /\ \A i \in 1..Len(s) : s[i].kind = "done" => \A j \in (i + 1)..Len(s) : Tame(s[j])

LEMMA TailAt ==
  ASSUME NEW s \in Seq(EventRec), s # <<>>
  PROVE  /\ Tail(s) \in Seq(EventRec) /\ Len(s) \in Nat \ {0} /\ Head(s) = s[1]
         /\ s[1] \in EventRec /\ Len(Tail(s)) = Len(s) - 1
         /\ \A i \in 1..Len(Tail(s)) : i + 1 \in 1..Len(s) /\ Tail(s)[i] = s[i + 1]
OBVIOUS

LEMMA CutsTail ==
  ASSUME NEW s \in Seq(EventRec), s # <<>>, Head(s).kind # "interrupted",
         NEW j \in 1..Len(s), Cuts(s, j)
  PROVE  j - 1 \in 1..Len(Tail(s)) /\ Cuts(Tail(s), j - 1)
<1>1. j # 1 /\ Len(Tail(s)) = Len(s) - 1 /\ Len(s) \in Nat
  BY TailAt DEF Cuts
<1>2. j - 1 \in 1..Len(Tail(s)) /\ Tail(s)[j - 1] = s[j]
  <2>1. j - 1 \in 1..Len(Tail(s))
    BY <1>1
  <2>2. Tail(s)[j - 1] = s[(j - 1) + 1]
    BY <2>1, TailAt
  <2> QED
    BY <2>1, <2>2
<1>3. ASSUME NEW k \in 1..((j - 1) - 1) PROVE Tail(s)[k].kind \notin Ends
  <2>1. k \in 1..Len(Tail(s)) /\ k + 1 \in 1..(j - 1)
    BY <1>1, <1>2, <1>3
  <2>2. Tail(s)[k] = s[k + 1]
    BY <2>1, TailAt
  <2> QED
    BY <2>1, <2>2 DEF Cuts
<1> QED
  BY <1>2, <1>3 DEF Cuts

LEMMA DoomedTail ==
  ASSUME NEW s \in Seq(EventRec), s # <<>>, Head(s).kind # "interrupted", Doomed(s)
  PROVE  Doomed(Tail(s)) /\ Head(s).kind \notin Ends
<1>1. PICK j \in 1..Len(s) : Cuts(s, j)
  BY DEF Doomed
<1>2. j - 1 \in 1..Len(Tail(s)) /\ Cuts(Tail(s), j - 1)
  BY <1>1, CutsTail
<1>3. 1 \in 1..(j - 1) /\ Head(s) = s[1]
  BY <1>2, TailAt
<1> QED
  BY <1>1, <1>2, <1>3 DEF Doomed, Cuts

LEMMA GuardedTail ==
  ASSUME NEW s \in Seq(EventRec), NEW p \in Prompts, s # <<>>, Guarded(s, p),
         Head(s).kind # "interrupted"
  PROVE  Guarded(Tail(s), p)
<1> SUFFICES ASSUME NEW i \in 1..Len(Tail(s)), ~Tame(Tail(s)[i]), Tail(s)[i].of # p
             PROVE  \E j \in 1..(i - 1) : Cuts(Tail(s), j)
  BY DEF Guarded
<1>1. i + 1 \in 1..Len(s) /\ Tail(s)[i] = s[i + 1] /\ Len(s) \in Nat
  BY TailAt
<1>2. PICK j \in 1..((i + 1) - 1) : Cuts(s, j)
  BY <1>1 DEF Guarded
<1>3. j \in 1..Len(s)
  BY <1>1, <1>2
<1>4. j - 1 \in 1..Len(Tail(s)) /\ Cuts(Tail(s), j - 1)
  BY <1>2, <1>3, CutsTail
<1>5. j - 1 \in 1..(i - 1)
  BY <1>2, <1>4
<1> QED
  BY <1>4, <1>5

\* Whoever reads the first frame of a guarded channel ends on its own.
LEMMA GuardedHead ==
  ASSUME NEW s \in Seq(EventRec), NEW p \in Prompts, s # <<>>, Guarded(s, p)
  PROVE  Tame(Head(s)) \/ Head(s).of = p
<1>1. 1 \in 1..Len(s) /\ Head(s) = s[1]
  BY TailAt
<1> QED
  BY <1>1 DEF Guarded

\* The frames of p's own turn leave one by one.
LEMMA OnlyTail ==
  ASSUME NEW s \in Seq(EventRec), NEW p \in Prompts, s # <<>>
  PROVE  /\ AllTame(s) => Tame(Head(s)) /\ AllTame(Tail(s))
         /\ AskOnly(s, p) => /\ Tame(Head(s)) \/ Head(s) = Event("ask", p)
                             /\ AskOnly(Tail(s), p)
                             /\ ~Tame(Head(s)) => AllTame(Tail(s))
         /\ ResultOnly(s, p) => /\ Tame(Head(s)) \/ Head(s) = Event("turn_result", p)
                                /\ ResultOnly(Tail(s), p)
         /\ EndOnly(s, p) => /\ Tame(Head(s)) \/ Head(s).kind \in Ends \cup {"done"}
                             /\ EndOnly(Tail(s), p)
                             /\ Head(s).kind = "done" => AllTame(Tail(s))
<1>1. 1 \in 1..Len(s) /\ Head(s) = s[1]
  BY TailAt
<1>2. \A i \in 1..Len(Tail(s)) : i + 1 \in 1..Len(s) /\ Tail(s)[i] = s[i + 1] /\ i + 1 # 1
  BY TailAt
<1>3. AllTame(s) => Tame(Head(s)) /\ AllTame(Tail(s))
  BY <1>1, <1>2 DEF AllTame
<1>4. ASSUME AskOnly(s, p)
      PROVE  /\ Tame(Head(s)) \/ Head(s) = Event("ask", p)
             /\ AskOnly(Tail(s), p)
             /\ ~Tame(Head(s)) => AllTame(Tail(s))
  <2>1. Tame(Head(s)) \/ Head(s) = Event("ask", p)
    BY <1>1, <1>4 DEF AskOnly
  <2>2. ~Tame(Head(s)) => AllTame(Tail(s))
    BY <1>1, <1>2, <1>4 DEF AskOnly, AllTame
  <2>3. AskOnly(Tail(s), p)
    <3> SUFFICES ASSUME NEW i \in 1..Len(Tail(s)), ~Tame(Tail(s)[i])
                 PROVE  /\ Tail(s)[i] = Event("ask", p)
                        /\ \A j \in 1..Len(Tail(s)) : j # i => Tame(Tail(s)[j])
      BY DEF AskOnly
    <3>1. /\ s[i + 1] = Event("ask", p)
          /\ \A j \in 1..Len(s) : j # i + 1 => Tame(s[j])
      BY <1>2, <1>4 DEF AskOnly
    <3>2. ASSUME NEW j \in 1..Len(Tail(s)), j # i PROVE Tame(Tail(s)[j])
      <4>1. j + 1 # i + 1
        BY <3>2
      <4> QED
        BY <1>2, <3>1, <4>1
    <3> QED
      BY <1>2, <3>1, <3>2
  <2> QED
    BY <2>1, <2>2, <2>3
<1>5. ResultOnly(s, p) => /\ Tame(Head(s)) \/ Head(s) = Event("turn_result", p)
                          /\ ResultOnly(Tail(s), p)
  BY <1>1, <1>2 DEF ResultOnly
<1>6. ASSUME EndOnly(s, p)
      PROVE  /\ Tame(Head(s)) \/ Head(s).kind \in Ends \cup {"done"}
             /\ EndOnly(Tail(s), p)
             /\ Head(s).kind = "done" => AllTame(Tail(s))
  <2>1. Tame(Head(s)) \/ Head(s).kind \in Ends \cup {"done"}
    BY <1>1, <1>6 DEF EndOnly
  <2>2. ASSUME Head(s).kind = "done", NEW i \in 1..Len(Tail(s)) PROVE Tame(Tail(s)[i])
    <3>1. i + 1 \in (1 + 1)..Len(s)
      BY <1>2
    <3> QED
      BY <1>1, <1>2, <1>6, <2>2, <3>1 DEF EndOnly
  <2>3. ASSUME NEW i \in 1..Len(Tail(s)), Tail(s)[i].kind = "done",
               NEW j \in (i + 1)..Len(Tail(s))
        PROVE  Tame(Tail(s)[j])
    <3>1. j \in 1..Len(Tail(s)) /\ Len(Tail(s)) = Len(s) - 1 /\ Len(s) \in Nat
      BY <2>3, TailAt
    <3>2. j + 1 \in ((i + 1) + 1)..Len(s)
      BY <2>3, <3>1
    <3> QED
      BY <1>2, <1>6, <2>3, <3>1, <3>2 DEF EndOnly
  <2>4. EndOnly(Tail(s), p)
    BY <1>2, <1>6, <2>3 DEF EndOnly
  <2> QED
    BY <2>1, <2>2, <2>4 DEF AllTame
<1> QED
  BY <1>3, <1>4, <1>5, <1>6

LEMMA ConcatAt ==
  ASSUME NEW s \in Seq(EventRec), NEW x \in Seq(EventRec)
  PROVE  /\ s \o x \in Seq(EventRec) /\ Len(s) \in Nat /\ Len(x) \in Nat
         /\ Len(s \o x) = Len(s) + Len(x)
         /\ \A i \in 1..Len(s) : i \in 1..Len(s \o x) /\ (s \o x)[i] = s[i]
         /\ \A i \in 1..Len(x) : Len(s) + i \in 1..Len(s \o x) /\ (s \o x)[Len(s) + i] = x[i]
         /\ \A i \in 1..Len(s \o x) : i \in 1..Len(s) \/ i - Len(s) \in 1..Len(x)
OBVIOUS

LEMMA CutsConcat ==
  ASSUME NEW s \in Seq(EventRec), NEW x \in Seq(EventRec), NEW i \in 1..Len(s)
  PROVE  Cuts(s, i) <=> Cuts(s \o x, i)
<1>1. \A j \in 1..(i - 1) : j \in 1..Len(s)
  BY ConcatAt
<1> QED
  BY <1>1, ConcatAt DEF Cuts

LEMMA DoomedConcat ==
  ASSUME NEW s \in Seq(EventRec), NEW x \in Seq(EventRec), Doomed(s)
  PROVE  Doomed(s \o x)
BY CutsConcat, ConcatAt DEF Doomed

\* Behind an interrupt anything may come, before it only what is p's.
LEMMA GuardedConcat ==
  ASSUME NEW s \in Seq(EventRec), NEW x \in Seq(EventRec), NEW p \in Prompts, Guarded(s, p),
         Doomed(s) \/ \A i \in 1..Len(x) : Tame(x[i]) \/ x[i].of = p
  PROVE  Guarded(s \o x, p)
<1> SUFFICES ASSUME NEW i \in 1..Len(s \o x), ~Tame((s \o x)[i]), (s \o x)[i].of # p
             PROVE  \E j \in 1..(i - 1) : Cuts(s \o x, j)
  BY DEF Guarded
<1>1. CASE i \in 1..Len(s)
  <2>1. PICK j \in 1..(i - 1) : Cuts(s, j)
    BY <1>1, ConcatAt DEF Guarded
  <2>2. j \in 1..Len(s)
    BY <1>1, <2>1, ConcatAt
  <2> QED
    BY <2>1, <2>2, CutsConcat
<1>2. CASE i - Len(s) \in 1..Len(x)
  <2>1. (s \o x)[i] = x[i - Len(s)]
    <3>1. i = Len(s) + (i - Len(s))
      BY <1>2, ConcatAt
    <3> QED
      BY <1>2, <3>1, ConcatAt
  <2>2. PICK j \in 1..Len(s) : Cuts(s, j)
    BY <1>2, <2>1 DEF Doomed
  <2>3. j \in 1..(i - 1)
    BY <1>2, <2>2, ConcatAt
  <2> QED
    BY <2>2, <2>3, CutsConcat
<1> QED
  BY <1>1, <1>2, ConcatAt

LEMMA GuardedPrefix ==
  ASSUME NEW s \in Seq(EventRec), NEW x \in Seq(EventRec), NEW p \in Prompts,
         Guarded(s \o x, p)
  PROVE  Guarded(s, p)
<1> SUFFICES ASSUME NEW i \in 1..Len(s), ~Tame(s[i]), s[i].of # p
             PROVE  \E j \in 1..(i - 1) : Cuts(s, j)
  BY DEF Guarded
<1>1. i \in 1..Len(s \o x) /\ (s \o x)[i] = s[i]
  BY ConcatAt
<1>2. PICK j \in 1..(i - 1) : Cuts(s \o x, j)
  BY <1>1 DEF Guarded
<1>3. j \in 1..Len(s)
  BY <1>2, ConcatAt
<1> QED
  BY <1>2, <1>3, CutsConcat

LEMMA TameConcat ==
  ASSUME NEW s \in Seq(EventRec), NEW x \in Seq(EventRec)
  PROVE  AllTame(s \o x) <=> AllTame(s) /\ AllTame(x)
<1>1. ASSUME AllTame(s \o x) PROVE AllTame(s) /\ AllTame(x)
  BY <1>1, ConcatAt DEF AllTame
<1>2. ASSUME AllTame(s), AllTame(x) PROVE AllTame(s \o x)
  <2> SUFFICES ASSUME NEW i \in 1..Len(s \o x) PROVE Tame((s \o x)[i])
    BY DEF AllTame
  <2>1. CASE i \in 1..Len(s)
    BY <1>2, <2>1, ConcatAt DEF AllTame
  <2>2. CASE i - Len(s) \in 1..Len(x)
    <3>1. i = Len(s) + (i - Len(s))
      BY <2>2, ConcatAt
    <3>2. (s \o x)[i] = x[i - Len(s)]
      BY <2>2, <3>1, ConcatAt
    <3> QED
      BY <1>2, <2>2, <3>2 DEF AllTame
  <2> QED
    BY <2>1, <2>2, ConcatAt
<1> QED
  BY <1>1, <1>2

LEMMA TameTail ==
  ASSUME NEW s \in Seq(EventRec), s # <<>>, AllTame(s)
  PROVE  AllTame(Tail(s))
BY TailAt DEF AllTame

LEMMA TameGuarded ==
  ASSUME NEW s, NEW p, AllTame(s)
  PROVE  Guarded(s, p)
BY DEF AllTame, Guarded

\* The pump hands out what is ahead, and the prompt reads it.
LEMMA HandedOut ==
  ASSUME NEW r \in Seq(EventRec), NEW s \in Seq(EventRec), s # <<>>
  PROVE  Append(r, Head(s)) \in Seq(EventRec) /\ Append(r, Head(s)) \o Tail(s) = r \o s
<1>1. Head(s) \in EventRec /\ Tail(s) \in Seq(EventRec) /\ Append(r, Head(s)) \in Seq(EventRec)
  OBVIOUS
<1>2. Len(Append(r, Head(s)) \o Tail(s)) = Len(r \o s)
  BY <1>1
<1>3. \A i \in 1..Len(r \o s) : (Append(r, Head(s)) \o Tail(s))[i] = (r \o s)[i]
  BY <1>1
<1> QED
  BY <1>1, <1>2, <1>3, SeqEqual

LEMMA ReadOff ==
  ASSUME NEW r \in Seq(EventRec), NEW s \in Seq(EventRec), r # <<>>
  PROVE  /\ r \o s \in Seq(EventRec) /\ r \o s # <<>>
         /\ Head(r \o s) = Head(r) /\ Tail(r \o s) = Tail(r) \o s
         /\ Tail(r) \in Seq(EventRec)
<1>1. Tail(r) \in Seq(EventRec) /\ r \o s \in Seq(EventRec) /\ Len(r) \in Nat \ {0}
  OBVIOUS
<1>2. Len(Tail(r \o s)) = Len(Tail(r) \o s) /\ Tail(r \o s) \in Seq(EventRec)
  BY <1>1
<1>3. \A i \in 1..Len(Tail(r \o s)) : Tail(r \o s)[i] = (Tail(r) \o s)[i]
  BY <1>1
<1>4. Tail(r) \o s \in Seq(EventRec)
  BY <1>1
<1>5. Tail(r \o s) = Tail(r) \o s
  BY <1>2, <1>3, <1>4, SeqEqual
<1> QED
  BY <1>1, <1>5

\* What the gateway adds.
LEMMA OneMore ==
  ASSUME NEW s \in Seq(EventRec), NEW e \in EventRec
  PROVE  /\ <<e>> \in Seq(EventRec) /\ s \o <<e>> \in Seq(EventRec)
         /\ Len(s \o <<e>>) = Len(s) + 1 /\ Len(s) \in Nat
         /\ (s \o <<e>>)[Len(s) + 1] = e
         /\ \A i \in 1..Len(s) : (s \o <<e>>)[i] = s[i]
         /\ \A i \in 1..(Len(s) + 1) : i \in 1..Len(s) \/ i = Len(s) + 1
OBVIOUS

LEMMA TameMore ==
  ASSUME NEW s \in Seq(EventRec), NEW e \in EventRec, AllTame(s), Tame(e)
  PROVE  AllTame(s \o <<e>>) /\ AllTame(Append(s, e))
<1>1. Append(s, e) = s \o <<e>>
  OBVIOUS
<1> QED
  BY <1>1, OneMore DEF AllTame

LEMMA OnlyMore ==
  ASSUME NEW s \in Seq(EventRec), NEW p \in Prompts, NEW e \in EventRec
  PROVE  /\ AllTame(s) /\ e = Event("ask", p) => AskOnly(s \o <<e>>, p)
         /\ AllTame(s) /\ e = Event("turn_result", p) => ResultOnly(s \o <<e>>, p)
         /\ ResultOnly(s, p) => EndOnly(s, p)
         /\ EndOnly(s, p) /\ Tame(e) => EndOnly(s \o <<e>>, p)
         /\ ResultOnly(s, p) /\ e = Event("done", p) => EndOnly(s \o <<e>>, p)
         /\ (AllTame(s) \/ AskOnly(s, p)) /\ e.kind = "interrupted" => Doomed(s \o <<e>>)
<1> DEFINE x == s \o <<e>>
<1>2. ASSUME AllTame(s), e = Event("ask", p) PROVE AskOnly(x, p)
  BY <1>2, OneMore DEF AllTame, AskOnly
<1>3. ASSUME AllTame(s), e = Event("turn_result", p) PROVE ResultOnly(x, p)
  BY <1>3, OneMore DEF AllTame, ResultOnly
<1>4. ASSUME ResultOnly(s, p) PROVE EndOnly(s, p)
  BY <1>4 DEF ResultOnly, EndOnly, Event, Ends, Tame
<1>5. ASSUME EndOnly(s, p), Tame(e) PROVE EndOnly(x, p)
  <2>1. \A i \in 1..Len(x) : Tame(x[i]) \/ (x[i].of = p /\ x[i].kind \in Ends \cup {"done"})
    BY <1>5, OneMore DEF EndOnly
  <2>2. ASSUME NEW i \in 1..Len(x), x[i].kind = "done", NEW j \in (i + 1)..Len(x)
        PROVE  Tame(x[j])
    <3>1. i \in 1..Len(s) /\ x[i] = s[i]
      BY <1>5, <2>2, OneMore DEF Tame
    <3>2. CASE j = Len(s) + 1
      BY <1>5, <3>2, OneMore
    <3>3. CASE j # Len(s) + 1
      <4>1. j \in (i + 1)..Len(s) /\ j \in 1..Len(s)
        BY <2>2, <3>1, <3>3, OneMore
      <4> QED
        BY <1>5, <2>2, <3>1, <4>1, OneMore DEF EndOnly
    <3> QED
      BY <3>2, <3>3
  <2> QED
    BY <2>1, <2>2 DEF EndOnly
<1>6. ASSUME ResultOnly(s, p), e = Event("done", p) PROVE EndOnly(x, p)
  <2>1. \A i \in 1..Len(x) : Tame(x[i]) \/ (x[i].of = p /\ x[i].kind \in Ends \cup {"done"})
    BY <1>6, OneMore DEF ResultOnly, Event, Ends
  <2>2. ASSUME NEW i \in 1..Len(x), x[i].kind = "done", NEW j \in (i + 1)..Len(x)
        PROVE  Tame(x[j])
    <3>1. i = Len(s) + 1
      BY <1>6, <2>2, OneMore DEF ResultOnly, Event, Tame
    <3> QED
      BY <2>2, <3>1, OneMore
  <2> QED
    BY <2>1, <2>2 DEF EndOnly
<1>7. ASSUME AllTame(s) \/ AskOnly(s, p), e.kind = "interrupted" PROVE Doomed(x)
  <2>1. \A i \in 1..Len(s) : s[i].kind \notin Ends
    BY <1>7 DEF AllTame, AskOnly, Tame, Event, Ends
  <2>2. Cuts(x, Len(s) + 1)
    BY <1>7, <2>1, OneMore DEF Cuts
  <2> QED
    BY <2>2, OneMore DEF Doomed
<1> QED
  BY <1>2, <1>3, <1>4, <1>5, <1>6, <1>7

\* On the failure path an error comes between the result and the end.
LEMMA FailedMore ==
  ASSUME NEW s \in Seq(EventRec), NEW p \in Prompts, ResultOnly(s, p)
  PROVE  EndOnly(s \o <<Event("error", p), Event("done", p)>>, p)
<1> DEFINE x == s \o <<Event("error", p), Event("done", p)>>
<1>1. /\ Len(x) = Len(s) + 2 /\ Len(s) \in Nat
      /\ x[Len(s) + 1] = Event("error", p) /\ x[Len(s) + 2] = Event("done", p)
      /\ \A i \in 1..Len(s) : x[i] = s[i]
  OBVIOUS
<1>2. \A i \in 1..Len(x) : Tame(x[i]) \/ (x[i].of = p /\ x[i].kind \in Ends \cup {"done"})
  <2> SUFFICES ASSUME NEW i \in 1..Len(x)
               PROVE  Tame(x[i]) \/ (x[i].of = p /\ x[i].kind \in Ends \cup {"done"})
    OBVIOUS
  <2>1. i \in 1..Len(s) \/ i = Len(s) + 1 \/ i = Len(s) + 2
    BY <1>1
  <2> QED
    BY <1>1, <2>1 DEF ResultOnly, Event, Ends
<1>3. ASSUME NEW i \in 1..Len(x), x[i].kind = "done", NEW j \in (i + 1)..Len(x)
      PROVE  Tame(x[j])
  <2>1. i \in 1..Len(s) \/ i = Len(s) + 1 \/ i = Len(s) + 2
    BY <1>1
  <2>2. i \notin 1..Len(s)
    BY <1>1, <1>3 DEF ResultOnly, Event, Tame
  <2>3. i # Len(s) + 1
    BY <1>1, <1>3 DEF Event
  <2> QED
    BY <1>1, <1>3, <2>1, <2>2, <2>3
<1> QED
  BY <1>2, <1>3 DEF EndOnly

-----------------------------------------------------------------------------
(* Where the turn of a prompt stands *)

\* Everything that is on its way to a prompt, in the order it comes.
Ahead(p) == rx[p] \o evq

\* No turn is left at the gateway, and nothing of one on its way.
AtRest == gw.inbox = <<>> /\ gw.turn = NoTask /\ gw.phase = "idle" /\ ~gw.waiter
Still == outbound = <<>> /\ AtRest /\ AllTame(evq)
Runs(p) == gw.turn = p /\ gw.inbox = <<>>

\* The message of p is on its way, or its turn runs; s is ahead of p.
Upcoming(p, s) ==
    /\ pc[p] = "loop" /\ AllTame(s)
    /\ \/ outbound = <<Message(p)>> /\ AtRest
       \/ /\ outbound = <<>> /\ gw.inbox = <<p>> /\ gw.turn = NoTask
          /\ gw.phase = "idle" /\ ~gw.waiter
       \/ outbound = <<>> /\ Runs(p) /\ gw.phase = "run" /\ ~gw.waiter

\* The turn waits for an answer that p has still to hear of, to give, or has given.
Asked(p, s) ==
    /\ Runs(p) /\ gw.phase = "run" /\ gw.waiter
    /\ \/ pc[p] = "loop" /\ outbound = <<>> /\ AskOnly(s, p)
       \/ pc[p] = "ask" /\ outbound = <<>> /\ AllTame(s)
       \/ pc[p] = "loop" /\ outbound = <<AskReply(p)>> /\ AllTame(s)

\* The turn has its result, or is over.
Concluded(p, s) ==
    /\ outbound = <<>>
    /\ \/ Runs(p) /\ gw.phase = "tail" /\ ~gw.waiter /\ ResultOnly(s, p)
       \/ AtRest /\ EndOnly(s, p)

Stage(p, s) == Upcoming(p, s) \/ Asked(p, s) \/ (pc[p] = "loop" /\ Concluded(p, s))

\* With no prompt live and none cut short, no turn is left behind.
StillInv == pump = "run" /\ (\A p \in Prompts : ~Cut(p) /\ ~Active(p)) => Still

\* With no OTHER prompt cut short: what p is still to read is guarded; while p waits,
\* either an interrupt will end it or its turn is in one of the stages; and an ordinary
\* end leaves its turn concluded.
GuardInv == \A p \in Prompts :
    Undisturbed(p) /\ pc[p] \in Waiting => Guarded(rx[p], p)
WaitInv == pump = "run" => \A p \in Prompts :
    Undisturbed(p) /\ pc[p] \in Waiting /\ Active(p) =>
        Guarded(Ahead(p), p) /\ (Doomed(Ahead(p)) \/ Stage(p, Ahead(p)))
DrainInv == pump = "run" => \A p \in Prompts :
    Undisturbed(p) /\ pc[p] = "drain" /\ Active(p) /\ endedBy[p].kind # "interrupted" =>
        Concluded(p, Ahead(p))
TurnInv == StillInv /\ GuardInv /\ WaitInv /\ DrainInv /\ EndedByOwnTurn

\* What all of this rests on.
Base == Inv /\ RoutedInv /\ WorksInv /\ LiveInv /\ PromptInv
StepShape ==
    /\ GateStep /\ EntryStep /\ PlaceStep /\ TableStep
    /\ \A p \in Prompts : KeepStep(p)
    /\ Hushed \/ Wire \/ \E p \in Prompts : Sending(p)
    /\ pump' = "run" => pump = "run"

\* The pump finds room for what it is about to hand out: it drops what does not fit.
NeverFull == evq # <<>> => \A p \in Prompts : Active(p) => Len(rx[p]) < EventBuffer

LEMMA BaseStep ==
  ASSUME ~ClientOverlaps, Base, [Next]_vars
  PROVE  Base' /\ StepShape
<1>1. TypeInv /\ HoldsInv /\ EventsInv /\ RoutedInv /\ WorksInv /\ LiveInv /\ PromptInv
  BY DEF Base, Inv
<1>2. Inv' /\ TypeInv' /\ HoldsInv' /\ EventsInv'
  BY NextInv DEF Base, Inv
<1>3. GateStep /\ EntryStep /\ PlaceStep /\ TableStep
  BY <1>1, GateSteps, EntrySteps, PlaceSteps, TableSteps
<1>4. \A p \in Prompts : KeepStep(p)
  BY <1>1, KeepSteps
<1>5. Hushed \/ Wire \/ \E p \in Prompts : Sending(p)
  BY <1>1, StreamSteps
<1>6. pump' = "run" => pump = "run"
  BY <1>1, PumpSteps
<1>7. gw.subscribed => gw'.subscribed \/ Unrouting
  BY <1>1, SubscribeSteps
<1>8. RoutedInv'
  BY <1>1, RouteSteps
<1>9. WorksInv'
  BY <1>1, <1>2, <1>3, WorksStep
<1>10. CurrentInv'
  BY <1>1, <1>3, CurrentStep DEF LiveInv
<1>11. ActiveInv'
  BY <1>1, <1>2, <1>3, <1>7, ActiveStep DEF LiveInv
<1>12. ArmedInv'
  BY <1>1, <1>3, <1>6, ArmedStep DEF LiveInv
<1>13. PromptInv'
  BY <1>1, <1>3, <1>4, PromptInvStep
<1> QED
  BY <1>2, <1>3, <1>4, <1>5, <1>6, <1>8, <1>9, <1>10, <1>11, <1>12, <1>13
  DEF Base, StepShape, LiveInv

\* A live prompt is the only one at work, unless another one is cut.
LEMMA AloneAtWork ==
  ASSUME Base, NEW p \in Prompts, Active(p), Undisturbed(p)
  PROVE  /\ pc[p] \in Armed /\ Holds(p) /\ table = ent[p] /\ gw.subscribed
         /\ \A q \in Prompts \ {p} : pc[q] \notin InGate
         /\ \A l \in Loads : pc[l] # "armed"
<1>1. p \in Tasks /\ ent[p] \in 1..MaxEntries
  BY DEF Active, Tasks, Base, Inv, TypeInv, TaskType
<1>2. pc[p] \in Armed /\ Holds(p) /\ table = ent[p] /\ gw.subscribed
  BY <1>1 DEF Active, Base, Inv, EventsInv, HoldsInv, Armed, LiveInv, ActiveInv
<1>3. ASSUME NEW q \in Prompts \ {p}, pc[q] \in InGate PROVE FALSE
  <2>1. q \in Tasks /\ Holds(q)
    BY <1>3 DEF Base, Inv, HoldsInv, Tasks
  <2>2. table = ent[q]
    BY <1>3, <2>1 DEF Undisturbed, Cut, Holds, Base, LiveInv, CurrentInv
  <2> QED
    BY <1>1, <1>2, <1>3, <2>1, <2>2, OneHolder
<1>4. ASSUME NEW l \in Loads, pc[l] = "armed" PROVE FALSE
  <2>1. l \in Tasks /\ Holds(l)
    BY <1>4 DEF Base, Inv, HoldsInv, Tasks, InGate
  <2>2. table = ent[l]
    BY <1>1, <1>2, <1>4 DEF Base, WorksInv, TableInv, Requests
  <2> QED
    BY <1>1, <1>2, <1>4, <2>1, <2>2, OneHolder, AcpConstants
<1> QED
  BY <1>2, <1>3, <1>4

\* What is disturbed stays disturbed.
LEMMA UndisturbedBefore ==
  ASSUME Base, StepShape, NEW p \in Prompts
  PROVE  /\ Cut(p) => Cut(p)'
         /\ Undisturbed(p)' => Undisturbed(p)
<1>1. \A q \in Prompts : Cut(q) => Cut(q)'
  BY CutStays DEF Base, Inv, StepShape
<1> QED
  BY <1>1 DEF Undisturbed

\* What is left at the gateway and on its way is left by a live prompt: it does not let
\* go before its turn has come to its end.
LEMMA StillStep ==
  ASSUME TailInTime, Base, StepShape, TurnInv
  PROVE  StillInv'
<1> SUFFICES ASSUME pump' = "run", \A q \in Prompts : ~Cut(q)' /\ ~Active(q)'
             PROVE  Still'
  BY DEF StillInv
<1>1. pump = "run" /\ \A q \in Prompts : ~Cut(q)
  BY UndisturbedBefore DEF StepShape
<1>2. TypeInv /\ evq \in Seq(EventRec) /\ gw \in GatewayRec /\ rx \in [Tasks -> Seq(EventRec)]
  BY DEF Base, Inv, TypeInv, WireType, TaskType
<1>3. ASSUME NEW p \in Prompts, Active(p) PROVE Still'
  <2>1. /\ pc[p] \in Armed /\ p \in Tasks /\ rx[p] \in Seq(EventRec)
        /\ Undisturbed(p) /\ endedBy[p].kind # "interrupted" /\ ~entries[ent[p]].closing
    BY <1>1, <1>2, <1>3, AloneAtWork DEF Undisturbed, Cut, Tasks, Active
  <2>2. pc'[p] = "done"
    BY <1>1, <1>3, <2>1, ActiveStays DEF Base, Inv, StepShape, LiveInv
  <2>3. Ended(p)
    BY <2>1, <2>2 DEF StepShape, KeepStep
  <2>4. ~PromptStreamEnded(p)
    BY <1>3 DEF PromptStreamEnded, Active
  <2>5. pc[p] = "drain" /\ UNCHANGED <<outbound, evq, gw>>
    BY <2>3, <2>4 DEF Ended, PromptDrain, PromptDrainOver, gwVars
  <2>6. Concluded(p, Ahead(p))
    BY <1>1, <1>3, <2>1, <2>5 DEF TurnInv, DrainInv
  <2>7. CASE PromptDrain(p)
    <3>1. rx[p] # <<>> /\ Head(rx[p]).kind = "done"
      BY <2>1, <2>2, <2>5, <2>7 DEF PromptDrain
    <3>2. /\ Ahead(p) \in Seq(EventRec) /\ Ahead(p) # <<>>
          /\ Head(Ahead(p)).kind = "done" /\ Tail(Ahead(p)) = Tail(rx[p]) \o evq
          /\ Tail(rx[p]) \in Seq(EventRec)
      BY <1>2, <2>1, <3>1, ReadOff DEF Ahead
    <3>3. ~ResultOnly(Ahead(p), p)
      BY <3>2, OnlyTail DEF Tame, Event
    <3>4. outbound = <<>> /\ AtRest /\ EndOnly(Ahead(p), p)
      BY <2>6, <3>3 DEF Concluded
    <3>5. AllTame(Tail(rx[p]) \o evq)
      BY <3>2, <3>4, OnlyTail
    <3>6. AllTame(evq)
      BY <1>2, <3>2, <3>5, TameConcat
    <3> QED
      BY <2>5, <3>4, <3>6 DEF Still, AtRest, AllTame, Tame
  <2>8. CASE PromptDrainOver(p)
    <3>1. rx[p] = <<>> /\ ~TailComing(p)
      BY <1>3, <2>8 DEF PromptDrainOver, Active
    <3>2. Ahead(p) = evq
      BY <1>2, <3>1 DEF Ahead
    <3>3. outbound = <<>> /\ AtRest /\ EndOnly(evq, p)
      BY <2>6, <3>1, <3>2 DEF Concluded, TailComing, Runs
    <3>4. AllTame(evq)
      BY <3>1, <3>3 DEF EndOnly, AllTame, TailComing
    <3> QED
      BY <2>5, <3>3, <3>4 DEF Still, AtRest, AllTame, Tame
  <2> QED
    BY <2>3, <2>4, <2>7, <2>8 DEF Ended
<1>4. ASSUME \A p \in Prompts : ~Active(p) PROVE Still'
  <2>1. outbound = <<>> /\ AtRest /\ AllTame(evq)
    BY <1>1, <1>4 DEF TurnInv, StillInv, Still
  <2>2. \A q \in Prompts : pc[q] \notin Armed
    <3> SUFFICES ASSUME NEW q \in Prompts, pc[q] \in Armed PROVE FALSE
      OBVIOUS
    <3>1. Holds(q)
      BY DEF Base, Inv, HoldsInv, Armed, Tasks
    <3> QED
      BY <1>1, <1>4, <3>1 DEF Base, LiveInv, ArmedInv, Cut, Holds
  <2>3. CASE Hushed
    BY <2>1, <2>3 DEF Hushed, SameTurn, Still, AtRest, AllTame, Tame
  <2>4. CASE PumpDispatch
    <3>1. evq # <<>> /\ evq' = Tail(evq) /\ UNCHANGED <<outbound, gw>>
      BY <2>1, <2>4 DEF PumpDispatch
    <3>2. AllTame(Tail(evq))
      BY <1>2, <2>1, <3>1, TameTail
    <3> QED
      BY <2>1, <3>1, <3>2 DEF Still, AtRest, AllTame, Tame
  <2>5. CASE PumpSend
    BY <2>1, <2>5 DEF PumpSend
  <2>6. CASE StreamEnds
    BY <2>6 DEF StreamEnds
  <2>7. CASE Gateway
    <3>1. PICK q \in Prompts : GwInterrupt(q)
      BY <2>1, <2>7 DEF Gateway, GwTurn, GwAsk, GwResult, GwTail, AtRest
    <3>2. /\ outbound' = <<>>
          /\ gw'.inbox = <<>> /\ gw'.turn = NoTask /\ gw'.phase = "idle" /\ ~gw'.waiter
      BY <1>2, <2>1, <2>7, <3>1 DEF Gateway, GwInterrupt, GatewayRec
    <3>3. Event("interrupted", q) \in EventRec /\ Tame(Event("interrupted", q))
      BY EventType DEF EventKinds, Tasks, Tame, Event
    <3>4. AllTame(evq \o <<Event("interrupted", q)>>)
      BY <1>2, <2>1, <3>3, TameMore
    <3>5. evq' \in {evq, evq \o <<Event("interrupted", q)>>}
      BY <3>1 DEF GwInterrupt, Emit
    <3> QED
      BY <2>1, <3>2, <3>4, <3>5 DEF Still, AtRest, AllTame, Tame
  <2>8. ASSUME NEW l \in Loads, LoadSubscribe(l) PROVE Still'
    <3>1. /\ outbound' = <<>>
          /\ gw'.inbox = <<>> /\ gw'.turn = NoTask /\ gw'.phase = "idle" /\ ~gw'.waiter
      BY <1>2, <2>1, <2>8 DEF LoadSubscribe, AtRest, GatewayRec
    <3>2. Event("sync_session", l) \in EventRec /\ Tame(Event("sync_session", l))
      BY EventType DEF EventKinds, Tasks, Tame, Event
    <3>3. AllTame(Append(evq, Event("sync_session", l)))
      BY <1>2, <2>1, <3>2, TameMore
    <3> QED
      BY <2>8, <3>1, <3>3 DEF LoadSubscribe, Still, AtRest, AllTame, Tame
  <2>9. ASSUME NEW q \in Prompts, Sending(q) PROVE FALSE
    <3>1. PromptArm(q)
      BY <2>2, <2>9 DEF Sending, SendQueued, AskResolved, Armed, InGate
    <3>2. Holds(q) /\ ent[q] \in 1..MaxEntries /\ q \in Tasks
      BY <1>2, <3>1 DEF PromptArm, Base, Inv, HoldsInv, InGate, Holds, Tasks, TypeInv, TaskType
    <3>3. ~entries[ent[q]].closing
      BY <1>1, <3>2 DEF Cut
    <3>4. entries' = [entries EXCEPT ![ent[q]] = ArmTurn(@, q)] /\ ent' = ent
      BY <3>1, <3>3 DEF PromptArm
    <3>5. entries'[ent[q]].events = q
      BY <1>2, <3>2, <3>4 DEF ArmTurn, TypeInv, HubType, EntryRec
    <3> QED
      BY <3>2, <3>4, <3>5 DEF Active
  <2> QED
    BY <2>3, <2>4, <2>5, <2>6, <2>7, <2>8, <2>9 DEF StepShape, Wire
<1> QED
  BY <1>3, <1>4

\* Whatever comes behind the channel of p, what p reads is guarded.
LEMMA GuardStep ==
  ASSUME Base, StepShape, TurnInv
  PROVE  GuardInv'
<1> SUFFICES ASSUME NEW p \in Prompts, Undisturbed(p)', pc'[p] \in Waiting
             PROVE  Guarded(rx'[p], p)
  BY DEF GuardInv, Guarded, Tame, Cuts, Ends
<1>1. /\ p \in Tasks /\ Undisturbed(p) /\ TypeInv
      /\ evq \in Seq(EventRec) /\ rx \in [Tasks -> Seq(EventRec)]
  BY UndisturbedBefore DEF Base, Inv, TypeInv, WireType, TaskType, Tasks
<1>2. /\ pc[p] \in Waiting \cup {"alive"}
      /\ rx'[p] = rx[p] \/ PromptNext(p) \/ PumpDispatch
  BY DEF StepShape, KeepStep
<1>3. Guarded(rx[p], p)
  <2>1. CASE pc[p] \in Waiting
    BY <1>1, <2>1 DEF TurnInv, GuardInv
  <2>2. CASE pc[p] = "alive"
    <3>1. rx[p] = <<>>
      BY <2>2 DEF Base, PromptInv, RxInv, Armed
    <3> QED
      BY <3>1 DEF Guarded
  <2> QED
    BY <1>2, <2>1, <2>2
<1>4. CASE PromptNext(p)
  <2>1. rx[p] # <<>> /\ rx'[p] = Tail(rx[p])
    BY <1>1, <1>4 DEF PromptNext
  <2>2. Head(rx[p]).kind # "interrupted"
    <3>1. Head(rx[p]).kind \in Terminal => pc'[p] = "drain"
      BY <1>1, <1>4 DEF PromptNext, Goto, Terminal, TypeInv, TaskType
    <3> QED
      BY <3>1 DEF Terminal, Waiting
  <2> QED
    BY <1>1, <1>3, <2>1, <2>2, GuardedTail
<1>5. CASE PumpDispatch /\ rx'[p] # rx[p]
  <2>1. Active(p) /\ pc[p] \in Waiting /\ pump = "run" /\ table = ent[p] /\ evq # <<>>
    <3>1. Active(p) /\ table = ent[p] /\ pc'[p] = pc[p]
      BY <1>1, <1>5, DispatchesTo DEF Base, Inv
    <3> QED
      BY <1>5, <3>1 DEF PumpDispatch
  <2>2. rx'[p] = Append(rx[p], Head(evq))
    BY <1>1, <1>5, <2>1 DEF PumpDispatch, Active
  <2>3. Guarded(rx[p] \o evq, p)
    BY <1>1, <2>1 DEF TurnInv, WaitInv, Ahead
  <2>4. /\ Append(rx[p], Head(evq)) \in Seq(EventRec) /\ Tail(evq) \in Seq(EventRec)
        /\ Append(rx[p], Head(evq)) \o Tail(evq) = rx[p] \o evq
    BY <1>1, <2>1, HandedOut
  <2> QED
    BY <2>2, <2>3, <2>4, GuardedPrefix
<1> QED
  BY <1>2, <1>3, <1>4, <1>5

LEMMA OwnStep ==
  ASSUME Base, StepShape, TurnInv
  PROVE  EndedByOwnTurn'
<1> SUFFICES ASSUME NEW p \in Prompts, endedBy'[p].kind \in Ends, Undisturbed(p)'
             PROVE  endedBy'[p].of = p
  BY DEF EndedByOwnTurn, Ends, Undisturbed, Cut
<1>1. /\ p \in Tasks /\ Undisturbed(p) /\ TypeInv
      /\ endedBy \in [Prompts -> EventRec] /\ rx \in [Tasks -> Seq(EventRec)]
  BY UndisturbedBefore DEF Base, Inv, TypeInv, WireType, TaskType, Tasks
<1>2. CASE endedBy'[p] = endedBy[p]
  BY <1>1, <1>2 DEF TurnInv, EndedByOwnTurn, Ends, Undisturbed, Cut
<1>3. CASE PromptNext(p) /\ endedBy'[p] # endedBy[p]
  <2>1. pc[p] = "loop" /\ rx[p] # <<>> /\ endedBy'[p] = Head(rx[p])
    BY <1>1, <1>3 DEF PromptNext
  <2>2. Guarded(rx[p], p)
    BY <1>1, <2>1 DEF TurnInv, GuardInv, Waiting
  <2>3. Tame(Head(rx[p])) \/ Head(rx[p]).of = p
    BY <1>1, <2>1, <2>2, GuardedHead
  <2> QED
    BY <2>1, <2>3 DEF Ends, Tame
<1> QED
  BY <1>2, <1>3 DEF StepShape, KeepStep

\* Reading the next frame: a prompt goes on, asks, or comes to its end.
LEMMA ReadStep ==
  ASSUME Base, NEW p \in Prompts, PromptNext(p), pc[p] = "loop",
         Guarded(Ahead(p), p), Doomed(Ahead(p)) \/ Stage(p, Ahead(p))
  PROVE  /\ pc'[p] \in Waiting =>
               Guarded(Ahead(p)', p) /\ (Doomed(Ahead(p)') \/ Stage(p, Ahead(p))')
         /\ pc'[p] = "drain" /\ endedBy'[p].kind # "interrupted" => Concluded(p, Ahead(p))'
<1> DEFINE s == Ahead(p)
           h == Head(rx[p])
           r == Tail(rx[p]) \o evq
<1>1. /\ p \in Tasks /\ rx[p] # <<>> /\ rx[p] \in Seq(EventRec) /\ evq \in Seq(EventRec)
      /\ UNCHANGED <<outbound, evq, gw>> /\ pc \in [Tasks -> Places]
      /\ endedBy \in [Prompts -> EventRec]
      /\ rx' = [rx EXCEPT ![p] = Tail(@)] /\ rx \in [Tasks -> Seq(EventRec)]
  BY DEF PromptNext, gwVars, Base, Inv, TypeInv, WireType, TaskType, Tasks
<1>2. /\ s \in Seq(EventRec) /\ s # <<>> /\ Head(s) = h /\ Tail(s) = r
      /\ Tail(rx[p]) \in Seq(EventRec)
  BY <1>1, ReadOff DEF Ahead
<1>3. Ahead(p)' = r
  BY <1>1 DEF Ahead
<1>4. /\ h.kind = "ask" => pc'[p] = "ask"
      /\ h.kind \in Terminal => pc'[p] = "drain" /\ endedBy'[p] = h
      /\ h.kind \notin Terminal \cup {"ask"} => pc'[p] = "loop"
  BY <1>1 DEF PromptNext, Goto, Terminal
<1>5. ASSUME Concluded(p, s) PROVE Concluded(p, Ahead(p))'
  <2>1. ResultOnly(s, p) => ResultOnly(r, p)
    BY <1>2, OnlyTail
  <2>2. EndOnly(s, p) => EndOnly(r, p)
    BY <1>2, OnlyTail
  <2>3. ResultOnly(r, p) => ResultOnly(Ahead(p), p)'
    BY <1>3 DEF ResultOnly, Tame, Event
  <2>4. EndOnly(r, p) => EndOnly(Ahead(p), p)'
    BY <1>3 DEF EndOnly, Tame, Ends
  <2>5. outbound' = outbound /\ gw' = gw
    BY <1>1
  <2> QED
    BY <1>5, <2>1, <2>2, <2>3, <2>4, <2>5 DEF Concluded, Runs, AtRest
<1>6. ASSUME pc'[p] \in Waiting
      PROVE  Guarded(r, p) /\ (Doomed(r) \/ Stage(p, Ahead(p))')
  <2>1. h.kind \notin Terminal
    BY <1>4, <1>6 DEF Waiting
  <2>2. Guarded(r, p)
    BY <1>2, <2>1, GuardedTail DEF Terminal
  <2>3. CASE Doomed(s)
    BY <1>2, <2>1, <2>2, <2>3, DoomedTail DEF Terminal
  <2>4. CASE Upcoming(p, s)
    <3>1. Tame(h) /\ AllTame(r)
      BY <1>2, <2>4, OnlyTail DEF Upcoming
    <3>2. pc'[p] = "loop"
      BY <1>4, <2>1, <3>1 DEF Tame
    <3>3. Upcoming(p, Ahead(p))'
      BY <1>1, <1>3, <2>4, <3>1, <3>2 DEF Upcoming, AtRest, Runs, AllTame, Tame, Message
    <3> QED
      BY <2>2, <3>3 DEF Stage
  <2>5. CASE Asked(p, s)
    <3>1. pc[p] = "loop" /\ Runs(p) /\ gw.phase = "run" /\ gw.waiter
      BY <2>5 DEF Asked
    <3>2. CASE outbound = <<>> /\ AskOnly(s, p)
      <4>1. AskOnly(r, p) /\ (Tame(h) \/ (h = Event("ask", p) /\ AllTame(r)))
        BY <1>2, <3>2, OnlyTail DEF Event, Tame
      <4>2. CASE Tame(h)
        <5>1. pc'[p] = "loop"
          BY <1>4, <2>1, <4>2 DEF Tame
        <5>2. AskOnly(Ahead(p), p)'
          BY <1>3, <4>1 DEF AskOnly, Tame, Event
        <5>3. Asked(p, Ahead(p))'
          BY <1>1, <3>1, <3>2, <5>1, <5>2 DEF Asked, Runs
        <5> QED
          BY <2>2, <5>3 DEF Stage
      <4>3. CASE h = Event("ask", p) /\ AllTame(r)
        <5>1. pc'[p] = "ask"
          BY <1>4, <4>3 DEF Event
        <5>2. Asked(p, Ahead(p))'
          BY <1>1, <1>3, <3>1, <3>2, <4>3, <5>1 DEF Asked, Runs, AllTame, Tame
        <5> QED
          BY <2>2, <5>2 DEF Stage
      <4> QED
        BY <4>1, <4>2, <4>3
    <3>3. CASE outbound = <<AskReply(p)>> /\ AllTame(s)
      <4>1. Tame(h) /\ AllTame(r)
        BY <1>2, <3>3, OnlyTail
      <4>2. pc'[p] = "loop"
        BY <1>4, <2>1, <4>1 DEF Tame
      <4>3. Asked(p, Ahead(p))'
        BY <1>1, <1>3, <3>1, <3>3, <4>1, <4>2 DEF Asked, Runs, AllTame, Tame, AskReply
      <4> QED
        BY <2>2, <4>3 DEF Stage
    <3> QED
      BY <2>5, <3>2, <3>3 DEF Asked
  <2>6. CASE Concluded(p, s)
    <3>1. h.kind # "ask"
      BY <1>2, <2>6, OnlyTail DEF Concluded, Tame, Event, Ends
    <3>2. pc'[p] = "loop"
      BY <1>4, <2>1, <3>1
    <3> QED
      BY <1>6, <2>2, <2>6, <3>2, <1>5 DEF Stage
  <2> QED
    BY <2>3, <2>4, <2>5, <2>6 DEF Stage
<1>7. ASSUME pc'[p] = "drain", endedBy'[p].kind # "interrupted"
      PROVE  Concluded(p, Ahead(p))'
  <2>1. h.kind \in Ends
    BY <1>4, <1>7 DEF Terminal, Ends
  <2>2. ~Doomed(s)
    BY <1>2, <2>1, DoomedTail DEF Ends
  <2>3. ~Upcoming(p, s)
    BY <1>2, <2>1, OnlyTail DEF Upcoming, Tame, Ends
  <2>4. ~Asked(p, s)
    BY <1>2, <2>1, OnlyTail DEF Asked, Tame, Ends, Event
  <2>5. Concluded(p, s)
    BY <2>2, <2>3, <2>4 DEF Stage
  <2> QED
    BY <1>5, <2>5
<1> QED
  BY <1>3, <1>6, <1>7

LEMMA ConcatAssoc ==
  ASSUME NEW r \in Seq(EventRec), NEW s \in Seq(EventRec), NEW x \in Seq(EventRec)
  PROVE  r \o (s \o x) = (r \o s) \o x /\ r \o s \in Seq(EventRec)
<1>1. /\ r \o (s \o x) \in Seq(EventRec) /\ (r \o s) \o x \in Seq(EventRec)
      /\ r \o s \in Seq(EventRec)
  OBVIOUS
<1>2. Len(r \o (s \o x)) = Len((r \o s) \o x)
  OBVIOUS
<1>3. \A i \in 1..Len(r \o (s \o x)) : (r \o (s \o x))[i] = ((r \o s) \o x)[i]
  OBVIOUS
<1> QED
  BY <1>1, <1>2, <1>3, SeqEqual

\* What the gateway sends comes last; a doomed prompt stays doomed, a waiting one guarded.
LEMMA Behind ==
  ASSUME Base, NEW p \in Prompts, NEW x \in Seq(EventRec), rx' = rx, evq' = evq \o x
  PROVE  /\ Ahead(p) \in Seq(EventRec) /\ Ahead(p)' = Ahead(p) \o x
         /\ Guarded(Ahead(p), p) /\ Doomed(Ahead(p)) =>
               Guarded(Ahead(p)', p) /\ Doomed(Ahead(p)')
         /\ Guarded(Ahead(p), p) /\ (\A i \in 1..Len(x) : Tame(x[i]) \/ x[i].of = p) =>
               Guarded(Ahead(p)', p)
<1>1. rx[p] \in Seq(EventRec) /\ evq \in Seq(EventRec)
  BY DEF Base, Inv, TypeInv, TaskType, WireType, Tasks
<1>2. Ahead(p) \in Seq(EventRec) /\ Ahead(p)' = Ahead(p) \o x
  BY <1>1, ConcatAssoc DEF Ahead
<1> QED
  BY <1>2, DoomedConcat, GuardedConcat

\* The same of one event.
LEMMA OneBehind ==
  ASSUME Base, NEW p \in Prompts, NEW e \in EventRec, rx' = rx, evq' = evq \o <<e>>
  PROVE  /\ Ahead(p) \in Seq(EventRec) /\ Ahead(p)' = Ahead(p) \o <<e>>
         /\ Guarded(Ahead(p), p) /\ Doomed(Ahead(p)) =>
               Guarded(Ahead(p)', p) /\ Doomed(Ahead(p)')
         /\ Guarded(Ahead(p), p) /\ (Tame(e) \/ e.of = p) => Guarded(Ahead(p)', p)
<1> DEFINE x == <<e>>
<1>1. x \in Seq(EventRec) /\ evq' = evq \o x
  OBVIOUS
<1>2. \A i \in 1..Len(x) : x[i] = e
  OBVIOUS
<1> HIDE DEF x
<1>3. /\ Ahead(p) \in Seq(EventRec) /\ Ahead(p)' = Ahead(p) \o x
      /\ Guarded(Ahead(p), p) /\ Doomed(Ahead(p)) =>
            Guarded(Ahead(p)', p) /\ Doomed(Ahead(p)')
      /\ Guarded(Ahead(p), p) /\ (\A i \in 1..Len(x) : Tame(x[i]) \/ x[i].of = p) =>
            Guarded(Ahead(p)', p)
  BY <1>1, Behind
<1> QED
  BY <1>2, <1>3 DEF x

\* The stages follow each other as the gateway works on the turn of p, and an interrupt
\* dooms p unless its turn has its result already.
LEMMA GatewayStep ==
  ASSUME Base, NEW p \in Prompts, Gateway, gw.subscribed
  PROVE  /\ Guarded(Ahead(p), p) /\ (Doomed(Ahead(p)) \/ Stage(p, Ahead(p))) =>
               Guarded(Ahead(p)', p) /\ (Doomed(Ahead(p)') \/ Stage(p, Ahead(p))')
         /\ Concluded(p, Ahead(p)) => Concluded(p, Ahead(p))'
<1> DEFINE s == Ahead(p)
<1>1. /\ UNCHANGED <<outbound, pc, rx>> /\ gw \in GatewayRec /\ evq \in Seq(EventRec)
      /\ p \in Tasks
  BY DEF Gateway, Base, Inv, TypeInv, WireType, Tasks
<1>2. ASSUME NEW o \in Tasks \cup {NoTask, Ghost}, NEW k \in EventKinds
      PROVE  Event(k, o) \in EventRec /\ Event(k, o).kind = k /\ Event(k, o).of = o
  BY EventType DEF Event
<1>3. gw.turn \in Tasks \cup {NoTask, Ghost}
  BY <1>1 DEF GatewayRec, Tasks
<1>4. CASE GwTurn
  <2>1. /\ gw.phase = "idle" /\ gw.inbox # <<>> /\ gw'.phase = "run" /\ gw'.turn = Head(gw.inbox)
        /\ gw'.inbox = Tail(gw.inbox) /\ gw'.waiter = gw.waiter /\ evq' = evq
    BY <1>1, <1>4 DEF GwTurn, GatewayRec
  <2>2. Ahead(p)' = s
    BY <1>1, <2>1 DEF Ahead
  <2>3. ~Asked(p, s) /\ ~Concluded(p, s)
    BY <2>1 DEF Asked, Concluded, AtRest
  <2>4. ASSUME Upcoming(p, s) PROVE Upcoming(p, Ahead(p))'
    <3>1. outbound = <<>> /\ gw.inbox = <<p>> /\ gw.turn = NoTask /\ ~gw.waiter
      BY <2>1, <2>4 DEF Upcoming, AtRest, Runs
    <3>2. gw'.turn = p /\ gw'.inbox = <<>>
      BY <2>1, <3>1
    <3>3. AllTame(Ahead(p))'
      BY <2>2, <2>4 DEF Upcoming, AllTame, Tame
    <3> QED
      BY <1>1, <2>1, <2>4, <3>1, <3>2, <3>3 DEF Upcoming, Runs
  <2> QED
    BY <2>2, <2>3, <2>4 DEF Stage
<1>5. CASE GwAsk
  <2> DEFINE e == Event("ask", gw.turn)
  <2>1. /\ gw.phase = "run" /\ ~gw.waiter /\ evq' = evq \o <<e>> /\ gw'.waiter
        /\ gw'.phase = gw.phase /\ gw'.turn = gw.turn /\ gw'.inbox = gw.inbox
    BY <1>1, <1>5 DEF GwAsk, Emit, GatewayRec
  <2>2. e \in EventRec /\ e.of = gw.turn
    BY <1>2, <1>3 DEF EventKinds
  <2>3. ~Asked(p, s) /\ ~Concluded(p, s)
    BY <2>1 DEF Asked, Concluded, AtRest
  <2>4. ASSUME Upcoming(p, s) PROVE Asked(p, Ahead(p))' /\ e.of = p
    <3>1. outbound = <<>> /\ Runs(p) /\ pc[p] = "loop" /\ AllTame(s)
      BY <2>1, <2>4 DEF Upcoming, AtRest
    <3>2. Ahead(p)' = s \o <<e>> /\ s \in Seq(EventRec)
      BY <1>1, <2>1, <2>2, OneBehind
    <3>3. AskOnly(s \o <<e>>, p)
      BY <2>2, <3>1, <3>2, OnlyMore DEF Runs
    <3>4. AskOnly(Ahead(p), p)'
      BY <3>2, <3>3 DEF AskOnly, Tame, Event
    <3> QED
      BY <1>1, <2>1, <2>2, <3>1, <3>4 DEF Asked, Runs
  <2> QED
    BY <1>1, <2>1, <2>2, <2>3, <2>4, OneBehind DEF Stage
<1>6. CASE GwResult
  <2> DEFINE e == Event("turn_result", gw.turn)
  <2>1. /\ gw.phase = "run" /\ ~gw.waiter /\ evq' = evq \o <<e>> /\ ~gw'.waiter
        /\ gw'.phase = "tail" /\ gw'.turn = gw.turn /\ gw'.inbox = gw.inbox
    BY <1>1, <1>6 DEF GwResult, Emit, GatewayRec
  <2>2. e \in EventRec /\ e.of = gw.turn
    BY <1>2, <1>3 DEF EventKinds
  <2>3. ~Asked(p, s) /\ ~Concluded(p, s)
    BY <2>1 DEF Asked, Concluded, AtRest
  <2>4. ASSUME Upcoming(p, s) PROVE Stage(p, Ahead(p))' /\ e.of = p
    <3>1. outbound = <<>> /\ Runs(p) /\ pc[p] = "loop" /\ AllTame(s)
      BY <2>1, <2>4 DEF Upcoming, AtRest
    <3>2. Ahead(p)' = s \o <<e>> /\ s \in Seq(EventRec)
      BY <1>1, <2>1, <2>2, OneBehind
    <3>3. ResultOnly(s \o <<e>>, p)
      BY <2>2, <3>1, <3>2, OnlyMore DEF Runs
    <3>4. ResultOnly(Ahead(p), p)'
      BY <3>2, <3>3 DEF ResultOnly, Tame, Event
    <3>5. Concluded(p, Ahead(p))'
      BY <1>1, <2>1, <3>1, <3>4 DEF Concluded, Runs
    <3> QED
      BY <1>1, <2>2, <3>1, <3>5 DEF Stage, Runs
  <2> QED
    BY <1>1, <2>1, <2>2, <2>3, <2>4, OneBehind DEF Stage
<1>7. CASE GwTail
  <2>1. PICK failed \in BOOLEAN :
           evq' = evq \o ((IF failed THEN <<Event("error", gw.turn)>> ELSE <<>>)
                          \o <<Event("done", gw.turn)>>)
    BY <1>7 DEF GwTail, Emit
  <2> DEFINE d == Event("done", gw.turn)
             f == Event("error", gw.turn)
             x == IF failed THEN <<f, d>> ELSE <<d>>
  <2>2. d \in EventRec /\ f \in EventRec /\ d.of = gw.turn /\ f.of = gw.turn
    BY <1>2, <1>3 DEF EventKinds
  <2>3. evq' = evq \o x /\ x \in Seq(EventRec)
    BY <1>1, <2>1, <2>2
  <2>4. \A i \in 1..Len(x) : x[i].of = gw.turn
    BY <2>2
  <2>5. /\ gw.phase = "tail" /\ gw'.phase = "idle" /\ gw'.turn = NoTask
        /\ gw'.inbox = gw.inbox /\ gw'.waiter = gw.waiter
    BY <1>1, <1>7 DEF GwTail, GatewayRec
  <2>6. ~Upcoming(p, s) /\ ~Asked(p, s)
    BY <2>5 DEF Upcoming, Asked, AtRest
  <2>7. ASSUME Concluded(p, s) PROVE Concluded(p, Ahead(p))' /\ gw.turn = p
    <3>1. outbound = <<>> /\ Runs(p) /\ ~gw.waiter /\ ResultOnly(s, p)
      BY <2>5, <2>7 DEF Concluded, AtRest
    <3>2. Ahead(p)' = s \o x /\ s \in Seq(EventRec)
      BY <1>1, <2>3, Behind
    <3>3. EndOnly(s \o x, p)
      BY <2>2, <3>1, <3>2, OnlyMore, FailedMore DEF Runs
    <3>4. EndOnly(Ahead(p), p)'
      BY <3>2, <3>3 DEF EndOnly, Tame, Ends
    <3> QED
      BY <1>1, <2>5, <3>1, <3>4 DEF Concluded, Runs, AtRest
  <2>8. Guarded(s, p) /\ Doomed(s) => Guarded(Ahead(p)', p) /\ Doomed(Ahead(p)')
    BY <1>1, <2>3, Behind
  <2>9. Guarded(s, p) /\ gw.turn = p => Guarded(Ahead(p)', p)
    BY <1>1, <2>3, <2>4, Behind
  <2> QED
    BY <1>1, <2>6, <2>7, <2>8, <2>9 DEF Stage
<1>8. ASSUME NEW q \in Prompts, GwInterrupt(q)
      PROVE  /\ Guarded(s, p) /\ (Doomed(s) \/ Stage(p, s)) =>
                   Guarded(Ahead(p)', p) /\ (Doomed(Ahead(p)') \/ Stage(p, Ahead(p))')
             /\ Concluded(p, s) => Concluded(p, Ahead(p))'
  <2> DEFINE e == Event("interrupted", q)
  <2>1. /\ evq' = evq \o <<e>> /\ gw'.inbox = <<>> /\ ~gw'.waiter
        /\ gw'.phase = "idle" /\ gw'.turn = NoTask
    BY <1>1, <1>8 DEF GwInterrupt, Emit, GatewayRec
  <2>2. e \in EventRec /\ e.kind = "interrupted" /\ Tame(e)
    BY <1>2 DEF EventKinds, Tasks, Tame
  <2>3. Ahead(p)' = s \o <<e>> /\ s \in Seq(EventRec)
    BY <1>1, <2>1, <2>2, OneBehind
  <2>4. ASSUME Upcoming(p, s) \/ Asked(p, s) PROVE Doomed(Ahead(p)')
    BY <2>2, <2>3, <2>4, OnlyMore DEF Upcoming, Asked
  <2>5. ASSUME Concluded(p, s) PROVE Concluded(p, Ahead(p))'
    <3>1. outbound = <<>> /\ EndOnly(s, p)
      BY <2>2, <2>3, <2>5, OnlyMore DEF Concluded
    <3>2. EndOnly(s \o <<e>>, p)
      BY <2>2, <2>3, <3>1, OnlyMore
    <3>3. EndOnly(Ahead(p), p)'
      BY <2>3, <3>2 DEF EndOnly, Tame, Ends
    <3> QED
      BY <1>1, <2>1, <3>1, <3>3 DEF Concluded, AtRest
  <2>6. Guarded(s, p) => Guarded(Ahead(p)', p)
    BY <1>1, <2>1, <2>2, OneBehind
  <2>7. Guarded(s, p) /\ Doomed(s) => Doomed(Ahead(p)')
    BY <1>1, <2>1, <2>2, OneBehind
  <2> QED
    BY <1>1, <2>4, <2>5, <2>6, <2>7 DEF Stage
<1> QED
  BY <1>4, <1>5, <1>6, <1>7, <1>8 DEF Gateway

\* What the turn is up to only shows in what the gateway keeps and what is on its way.
LEMMA SameStage ==
  ASSUME NEW p \in Prompts, Ahead(p)' = Ahead(p), outbound' = outbound, SameTurn
  PROVE  /\ Guarded(Ahead(p), p) => Guarded(Ahead(p)', p)
         /\ Doomed(Ahead(p)) => Doomed(Ahead(p)')
         /\ Concluded(p, Ahead(p)) => Concluded(p, Ahead(p))'
         /\ pc'[p] = pc[p] /\ Stage(p, Ahead(p)) => Stage(p, Ahead(p))'
<1>1. /\ AtRest => AtRest'
      /\ Runs(p) => Runs(p)'
  BY DEF SameTurn, AtRest, Runs
<1>2. /\ AllTame(Ahead(p)) => AllTame(Ahead(p))'
      /\ AskOnly(Ahead(p), p) => AskOnly(Ahead(p), p)'
      /\ ResultOnly(Ahead(p), p) => ResultOnly(Ahead(p), p)'
      /\ EndOnly(Ahead(p), p) => EndOnly(Ahead(p), p)'
  BY DEF AllTame, AskOnly, ResultOnly, EndOnly, Tame, Event, Ends
<1>3. Concluded(p, Ahead(p)) => Concluded(p, Ahead(p))'
  BY <1>1, <1>2 DEF Concluded, SameTurn
<1>4. pc'[p] = pc[p] /\ Upcoming(p, Ahead(p)) => Upcoming(p, Ahead(p))'
  BY <1>1, <1>2 DEF Upcoming, SameTurn, Message
<1>5. pc'[p] = pc[p] /\ Asked(p, Ahead(p)) => Asked(p, Ahead(p))'
  BY <1>1, <1>2 DEF Asked, SameTurn, AskReply
<1> QED
  BY <1>3, <1>4, <1>5 DEF Stage

\* The pump hands the next event to the prompt that is live.
LEMMA DispatchStep ==
  ASSUME Base, NeverFull, PumpDispatch, NEW p \in Prompts, Active(p)
  PROVE  Ahead(p)' = Ahead(p) /\ outbound' = outbound /\ SameTurn /\ pc' = pc
<1>1. /\ p \in Tasks /\ evq \in Seq(EventRec) /\ rx \in [Tasks -> Seq(EventRec)]
      /\ table = ent[p] /\ table # 0 /\ entries[table].events = p /\ p # NoTask
  BY AcpConstants DEF Active, Base, Inv, TypeInv, WireType, TaskType, Tasks, LiveInv, ActiveInv
<1>2. ~(Len(rx[p]) >= EventBuffer)
  BY <1>1, AcpConstants DEF NeverFull, PumpDispatch
<1>3. rx'[p] = Append(rx[p], Head(evq)) /\ evq # <<>> /\ evq' = Tail(evq)
  BY <1>1, <1>2 DEF PumpDispatch
<1>4. Ahead(p)' = Ahead(p)
  BY <1>1, <1>3, HandedOut DEF Ahead
<1> QED
  BY <1>4 DEF PumpDispatch, SameTurn

\* The pump sends the message of the prompt, or its answer.
LEMMA PumpSendStep ==
  ASSUME Base, PumpSend, NEW p \in Prompts
  PROVE  /\ Guarded(Ahead(p), p) /\ (Doomed(Ahead(p)) \/ Stage(p, Ahead(p))) =>
               Guarded(Ahead(p)', p) /\ (Doomed(Ahead(p)') \/ Stage(p, Ahead(p))')
         /\ ~Concluded(p, Ahead(p))
<1> DEFINE s == Ahead(p)
<1>1. /\ outbound # <<>> /\ outbound' = Tail(outbound) /\ UNCHANGED <<pc, rx, evq>>
      /\ gw \in GatewayRec
  BY DEF PumpSend, Base, Inv, TypeInv, WireType
<1>2. Ahead(p)' = s
  BY <1>1 DEF Ahead
<1>3. ~Concluded(p, s)
  BY <1>1 DEF Concluded
<1>4. AllTame(s) => AllTame(Ahead(p))'
  BY <1>2 DEF AllTame, Tame
<1>5. ASSUME Upcoming(p, s) PROVE Upcoming(p, Ahead(p))'
  <2>1. outbound = <<Message(p)>> /\ AtRest
    BY <1>1, <1>5 DEF Upcoming
  <2>2. Head(outbound) = Message(p) /\ Tail(outbound) = <<>>
    BY <2>1
  <2>3. Head(outbound).kind = "message" /\ Head(outbound).of = p
    BY <2>2 DEF Message
  <2>4. gw' = [gw EXCEPT !.inbox = Append(gw.inbox, p)]
    BY <2>3 DEF PumpSend
  <2>5. gw'.inbox = <<p>> /\ gw'.turn = NoTask /\ gw'.phase = "idle" /\ ~gw'.waiter
    BY <1>1, <2>1, <2>4 DEF AtRest, GatewayRec
  <2> QED
    BY <1>1, <1>4, <1>5, <2>2, <2>5 DEF Upcoming
<1>6. ASSUME Asked(p, s) PROVE Upcoming(p, Ahead(p))'
  <2>1. outbound = <<AskReply(p)>> /\ AllTame(s) /\ pc[p] = "loop"
        /\ gw.turn = p /\ gw.inbox = <<>> /\ gw.phase = "run" /\ gw.waiter
    BY <1>1, <1>6 DEF Asked, Runs
  <2>2. Head(outbound) = AskReply(p) /\ Tail(outbound) = <<>>
    BY <2>1
  <2>3. gw' = [gw EXCEPT !.waiter = FALSE]
    BY <2>1, <2>2 DEF PumpSend, AskReply
  <2>4. gw'.turn = p /\ gw'.inbox = <<>> /\ gw'.phase = "run" /\ ~gw'.waiter
    BY <1>1, <2>1, <2>3 DEF GatewayRec
  <2> QED
    BY <1>1, <1>4, <2>1, <2>2, <2>4 DEF Upcoming, Runs
<1> QED
  BY <1>2, <1>3, <1>5, <1>6 DEF Stage

\* A prompt that sends or goes on after an ask, while nobody else does.
LEMMA AskStep ==
  ASSUME Base, NEW p \in Prompts, Active(p), AskAbandoned(p) \/ SendQueued(p) \/ AskResolved(p),
         Guarded(Ahead(p), p), Doomed(Ahead(p)) \/ Stage(p, Ahead(p))
  PROVE  Guarded(Ahead(p)', p) /\ (Doomed(Ahead(p)') \/ Stage(p, Ahead(p))')
<1> DEFINE s == Ahead(p)
<1>1. /\ UNCHANGED <<rx, evq, gw>> /\ pc \in [Tasks -> Places] /\ p \in Tasks
      /\ Ahead(p)' = s /\ SameTurn
  BY DEF AskAbandoned, SendQueued, AskResolved, gwVars, Ahead, SameTurn, Base, Inv, TypeInv,
     TaskType, Tasks
<1>2. Guarded(Ahead(p)', p) /\ (Doomed(s) => Doomed(Ahead(p)'))
  BY <1>1
<1>3. pc[p] \in {"armed", "answer", "ask"}
  BY DEF AskAbandoned, SendQueued, AskResolved
<1>4. ASSUME Stage(p, s) PROVE Asked(p, Ahead(p))'
  <2>1. /\ pc[p] = "ask" /\ outbound = <<>> /\ AllTame(s)
        /\ Runs(p) /\ gw.phase = "run" /\ gw.waiter
    BY <1>3, <1>4 DEF Stage, Upcoming, Asked
  <2>2. AllTame(Ahead(p))' /\ Runs(p)'
    BY <1>1, <2>1 DEF AllTame, Tame, Runs
  <2>3. CASE AskAbandoned(p)
    <3>1. pc'[p] = "loop" /\ outbound' = <<>>
      BY <1>1, <2>1, <2>3 DEF AskAbandoned, Goto
    <3>2. AskOnly(Ahead(p), p)'
      BY <2>2 DEF AskOnly, AllTame, Tame
    <3> QED
      BY <1>1, <2>1, <2>2, <3>1, <3>2 DEF Asked
  <2>4. CASE AskResolved(p)
    <3>1. Len(outbound) < OutboundBuffer /\ Append(outbound, AskReply(p)) = <<AskReply(p)>>
      BY <2>1, AcpConstants
    <3>2. pc'[p] = "loop" /\ outbound' = <<AskReply(p)>>
      BY <1>1, <2>4, <3>1 DEF AskResolved, Send, Goto
    <3> QED
      BY <1>1, <2>1, <2>2, <3>2 DEF Asked, AskReply
  <2>5. ~SendQueued(p)
    BY <2>1 DEF SendQueued
  <2> QED
    BY <2>3, <2>4, <2>5
<1> QED
  BY <1>2, <1>4 DEF Stage

\* A prompt that takes the session over sends its message into what nobody has left a
\* turn behind in.
LEMMA ArmStep ==
  ASSUME Base, StepShape, StillInv, pump = "run", NEW p \in Prompts, Undisturbed(p), Arms(p)
  PROVE  pc'[p] \in Waiting => Guarded(Ahead(p)', p) /\ Upcoming(p, Ahead(p))'
<1>1. /\ pc[p] = "alive" /\ ~entries[ent[p]].closing /\ p \in Tasks /\ Holds(p)
      /\ pc'[p] # pc[p] /\ pc'[p] \in Armed /\ pc \in [Tasks -> Places]
      /\ evq \in Seq(EventRec)
  BY DEF Arms, Base, Inv, HoldsInv, TypeInv, TaskType, WireType, Armed, InGate, Tasks
<1>2. ~Cut(p)
  BY <1>1 DEF Cut, Base, PromptInv, EndedInv
<1>3. \A q \in Prompts : ~Active(q)
  <2> SUFFICES ASSUME NEW q \in Prompts, Active(q) PROVE FALSE
    OBVIOUS
  <2>1. q \in Tasks /\ ent[q] \in 1..MaxEntries
    BY DEF Active, Tasks, Base, Inv, TypeInv, TaskType
  <2>2. pc[q] \in Armed /\ Holds(q) /\ table = ent[q]
    BY <2>1 DEF Active, Base, Inv, EventsInv, HoldsInv, Armed, LiveInv, ActiveInv
  <2>3. table = ent[p]
    BY <1>1 DEF Base, LiveInv, CurrentInv, InGate
  <2> QED
    BY <1>1, <2>1, <2>2, <2>3, OneHolder DEF Armed
<1>4. outbound = <<>> /\ AtRest /\ AllTame(evq)
  BY <1>2, <1>3 DEF Undisturbed, StillInv, Still
<1>5. PromptArm(p)
  <2>1. ~Hushed
    BY <1>1 DEF Hushed, Calm, Own, Armed, PromptNext, AskAbandoned, Ended, PromptStreamEnded,
       PromptDrain, PromptDrainOver
  <2>2. ASSUME Wire PROVE FALSE
    <3>1. pc'[p] = pc[p]
      BY <1>1, <2>2, AcpConstants DEF Wire, PumpDispatch, PumpSend, StreamEnds, Gateway,
         LoadSubscribe, Goto
    <3> QED
      BY <1>1, <3>1
  <2>3. ASSUME NEW q \in Prompts, Sending(q) PROVE q = p
    BY <1>1, <2>3 DEF Sending, PromptArm, SendQueued, AskResolved, Send, Answer, Goto
  <2> QED
    BY <1>1, <2>1, <2>2, <2>3 DEF StepShape, Sending, SendQueued, AskResolved
<1>6. Len(outbound) < OutboundBuffer /\ Append(outbound, Message(p)) = <<Message(p)>>
  BY <1>4, AcpConstants
<1>7. pc'[p] = "loop" /\ outbound' = <<Message(p)>> /\ UNCHANGED <<gw, evq, rx>>
  BY <1>1, <1>5, <1>6 DEF PromptArm, Send, Goto, gwVars
<1>8. rx[p] = <<>>
  BY <1>1 DEF Base, PromptInv, RxInv, Armed
<1>9. Ahead(p)' = evq
  BY <1>1, <1>7, <1>8 DEF Ahead
<1>10. Guarded(Ahead(p)', p) /\ AllTame(Ahead(p))'
  BY <1>4, <1>9, TameGuarded DEF AllTame, Tame
<1> QED
  BY <1>4, <1>7, <1>10 DEF Upcoming, AtRest, Message

\* Only the live prompt sends, and nothing else is routed to the client meanwhile.
LEMMA AloneSteps ==
  ASSUME Base, StepShape, pump' = "run", NEW p \in Prompts, Active(p), Undisturbed(p)
  PROVE  \/ Hushed \/ PumpDispatch \/ PumpSend \/ (Gateway /\ gw.subscribed)
         \/ SendQueued(p) \/ AskResolved(p)
<1>1. /\ pc[p] \in Armed /\ gw.subscribed
      /\ \A q \in Prompts \ {p} : pc[q] \notin InGate
      /\ \A l \in Loads : pc[l] # "armed"
  BY AloneAtWork
<1>2. \A l \in Loads : ~LoadSubscribe(l)
  BY <1>1 DEF LoadSubscribe
<1>3. ~StreamEnds
  BY DEF StreamEnds
<1>4. ASSUME NEW q \in Prompts, Sending(q) PROVE SendQueued(p) \/ AskResolved(p)
  <2>1. pc[q] \in InGate
    BY <1>4 DEF Sending, PromptArm, SendQueued, AskResolved, InGate
  <2>2. q = p
    BY <1>1, <2>1
  <2> QED
    BY <1>1, <1>4, <2>2 DEF Sending, PromptArm, Armed
<1> QED
  BY <1>1, <1>2, <1>3, <1>4 DEF StepShape, Wire

\* What is ahead of a waiting prompt, and the stage of its turn, step by step.
LEMMA WaitStep ==
  ASSUME NeverFull, Base, StepShape, TurnInv, Base'
  PROVE  WaitInv'
<1> SUFFICES ASSUME pump' = "run", NEW p \in Prompts, Undisturbed(p)', pc'[p] \in Waiting,
                    Active(p)'
             PROVE  Guarded(Ahead(p)', p) /\ (Doomed(Ahead(p)') \/ Stage(p, Ahead(p))')
  <2>1. \A p \in Prompts : /\ Guarded(Ahead(p), p)' <=> Guarded(Ahead(p)', p)
                           /\ Doomed(Ahead(p))' <=> Doomed(Ahead(p)')
    BY DEF Guarded, Doomed, Tame, Cuts, Ends
  <2> QED
    BY <2>1 DEF WaitInv
<1>1. /\ pump = "run" /\ Undisturbed(p) /\ TypeInv /\ TypeInv' /\ EventsInv
      /\ p \in Tasks /\ KeepStep(p) /\ EntryStep /\ StillInv
  BY UndisturbedBefore DEF StepShape, Base, Inv, Tasks, TurnInv
<1>2. CASE Arms(p)
  BY <1>1, <1>2, ArmStep DEF Stage
<1>3. CASE Active(p)
  <2>1. pc[p] \in Armed /\ pc[p] \in Waiting
    BY <1>1, <1>3, AloneAtWork DEF KeepStep, Armed
  <2>2. Guarded(Ahead(p), p) /\ (Doomed(Ahead(p)) \/ Stage(p, Ahead(p)))
    BY <1>1, <1>3, <2>1 DEF TurnInv, WaitInv
  <2>3. CASE Hushed
    <3>1. CASE Calm(p)
      <4>1. Ahead(p)' = Ahead(p) /\ outbound' = outbound /\ SameTurn /\ pc'[p] = pc[p]
        BY <2>1, <2>3, <3>1 DEF Hushed, Calm, Ahead
      <4> QED
        BY <2>2, <4>1, SameStage
    <3>2. CASE PromptNext(p)
      BY <2>2, <3>2, ReadStep DEF PromptNext
    <3>3. CASE AskAbandoned(p)
      BY <1>3, <2>2, <3>3, AskStep
    <3>4. ~Ended(p)
      <4>1. ~PromptStreamEnded(p)
        BY <1>3 DEF PromptStreamEnded, Active
      <4> QED
        BY <2>1, <4>1 DEF Ended, PromptDrain, PromptDrainOver, Waiting
    <3> QED
      BY <2>3, <3>1, <3>2, <3>3, <3>4 DEF Hushed, Own
  <2>4. CASE PumpDispatch
    <3>1. Ahead(p)' = Ahead(p) /\ outbound' = outbound /\ SameTurn /\ pc'[p] = pc[p]
      BY <1>3, <2>4, DispatchStep
    <3> QED
      BY <2>2, <3>1, SameStage
  <2>5. CASE PumpSend
    BY <2>2, <2>5, PumpSendStep
  <2>6. CASE Gateway /\ gw.subscribed
    BY <2>2, <2>6, GatewayStep
  <2>7. CASE SendQueued(p) \/ AskResolved(p)
    BY <1>3, <2>2, <2>7, AskStep
  <2> QED
    BY <1>1, <1>3, <2>3, <2>4, <2>5, <2>6, <2>7, AloneSteps
<1> QED
  BY <1>1, <1>2, <1>3, ActiveSteps

\* A prompt comes to an ordinary end with its turn concluded, and it stays so.
LEMMA DrainStep ==
  ASSUME NeverFull, Base, StepShape, TurnInv, Base'
  PROVE  DrainInv'
<1> SUFFICES ASSUME pump' = "run", NEW p \in Prompts, Undisturbed(p)', pc'[p] = "drain",
                    Active(p)', endedBy'[p].kind # "interrupted"
             PROVE  Concluded(p, Ahead(p))'
  BY DEF DrainInv
<1>1. /\ pump = "run" /\ Undisturbed(p) /\ TypeInv /\ TypeInv' /\ EventsInv
      /\ p \in Tasks /\ KeepStep(p) /\ EntryStep
      /\ evq \in Seq(EventRec) /\ rx \in [Tasks -> Seq(EventRec)]
  BY UndisturbedBefore DEF StepShape, Base, Inv, Tasks, TypeInv, TaskType, WireType
<1>2. pc[p] = "drain" \/ PromptNext(p)
  BY <1>1 DEF KeepStep
<1>3. Active(p)
  <2>1. ~Arms(p)
    BY <1>2 DEF Arms, PromptNext
  <2> QED
    BY <1>1, <2>1, ActiveSteps
<1>4. CASE PromptNext(p)
  <2>1. Guarded(Ahead(p), p) /\ (Doomed(Ahead(p)) \/ Stage(p, Ahead(p)))
    BY <1>1, <1>3, <1>4 DEF TurnInv, WaitInv, Waiting, PromptNext
  <2> QED
    BY <1>4, <2>1, ReadStep DEF PromptNext
<1>5. CASE pc[p] = "drain"
  <2>1. endedBy'[p] = endedBy[p]
    BY <1>1, <1>5 DEF KeepStep, PromptNext
  <2>2. Concluded(p, Ahead(p))
    BY <1>1, <1>3, <1>5, <2>1 DEF TurnInv, DrainInv
  <2>3. CASE Hushed
    <3>1. CASE Calm(p)
      <4>1. Ahead(p)' = Ahead(p) /\ outbound' = outbound /\ SameTurn
        BY <2>3, <3>1 DEF Hushed, Calm, Ahead
      <4> QED
        BY <2>2, <4>1, SameStage
    <3>2. CASE Own(p)
      <4>1. PromptDrain(p)
        BY <1>1, <1>5, <3>2 DEF Own, PromptNext, AskAbandoned, Ended, PromptStreamEnded,
           PromptDrainOver, Finish, Answer, Goto, TypeInv, TaskType
      <4>2. rx[p] # <<>> /\ rx'[p] = Tail(rx[p]) /\ evq' = evq
        BY <1>1, <2>3, <4>1 DEF PromptDrain, Finish, Answer, Goto, Hushed, TypeInv, TaskType
      <4>3. /\ Ahead(p) \in Seq(EventRec) /\ Ahead(p) # <<>> /\ Ahead(p)' = Tail(Ahead(p))
        BY <1>1, <4>2, ReadOff DEF Ahead
      <4>4. /\ ResultOnly(Ahead(p), p) => ResultOnly(Tail(Ahead(p)), p)
            /\ EndOnly(Ahead(p), p) => EndOnly(Tail(Ahead(p)), p)
        BY <4>3, OnlyTail
      <4>5. /\ ResultOnly(Ahead(p), p) => ResultOnly(Ahead(p), p)'
            /\ EndOnly(Ahead(p), p) => EndOnly(Ahead(p), p)'
        BY <4>3, <4>4 DEF ResultOnly, EndOnly, Tame, Event, Ends
      <4> QED
        BY <2>2, <2>3, <4>5 DEF Concluded, Hushed, SameTurn, Runs, AtRest
    <3> QED
      BY <2>3, <3>1, <3>2 DEF Hushed
  <2>4. CASE PumpDispatch
    <3>1. Ahead(p)' = Ahead(p) /\ outbound' = outbound /\ SameTurn
      BY <1>3, <2>4, DispatchStep
    <3> QED
      BY <2>2, <3>1, SameStage
  <2>5. ~PumpSend
    BY <2>2, PumpSendStep
  <2>6. CASE Gateway /\ gw.subscribed
    BY <2>2, <2>6, GatewayStep
  <2>7. ~SendQueued(p) /\ ~AskResolved(p)
    BY <1>5 DEF SendQueued, AskResolved
  <2> QED
    BY <1>1, <1>3, <2>3, <2>4, <2>5, <2>6, <2>7, AloneSteps
<1> QED
  BY <1>2, <1>4, <1>5

-----------------------------------------------------------------------------
(* The turns *)

LEMMA InitTurns == Init => Base /\ TurnInv
<1> SUFFICES ASSUME Init PROVE Base /\ TurnInv
  OBVIOUS
<1>1. Inv
  BY InitInv
<1>2. \A t \in Tasks : pc[t] = "idle" /\ ent[t] = 0 /\ rx[t] = <<>> /\ created[t] = FALSE
  BY DEF Init
<1>3. \A p \in Prompts : p \in Tasks /\ endedBy[p].kind = "none" /\ ~Active(p)
  BY <1>2 DEF Init, NoEvent, Event, Tasks, Active
<1>4. RoutedInv
  BY InitRoutes
<1>5. WorksInv
  <2>1. PlacedInv /\ TableInv /\ MarkedInv /\ FirstInv
    BY <1>2 DEF PlacedInv, TableInv, MarkedInv, FirstInv, Requests, Closing, Tasks
  <2>2. FreshInv
    BY DEF Init, FreshInv
  <2> QED
    BY <2>1, <2>2 DEF WorksInv
<1>6. LiveInv
  BY <1>2, <1>3 DEF LiveInv, CurrentInv, ActiveInv, ArmedInv, InGate, Armed
<1>7. PromptInv
  BY <1>2, <1>3 DEF PromptInv, IdleInv, EndedInv, RxInv
<1>8. StillInv
  BY DEF Init, StillInv, Still, AtRest, AllTame
<1>9. GuardInv /\ WaitInv /\ DrainInv
  BY <1>2, <1>3 DEF GuardInv, WaitInv, DrainInv, Waiting
<1>10. EndedByOwnTurn
  BY <1>3 DEF EndedByOwnTurn
<1> QED
  BY <1>1, <1>4, <1>5, <1>6, <1>7, <1>8, <1>9, <1>10 DEF Base, TurnInv

LEMMA NextTurns ==
  ASSUME ~ClientOverlaps, TailInTime, NeverFull, Base, TurnInv, [Next]_vars
  PROVE  Base' /\ TurnInv'
<1>1. Base' /\ StepShape
  BY BaseStep
<1> QED
  BY <1>1, StillStep, GuardStep, WaitStep, DrainStep, OwnStep DEF TurnInv

\* A prompt ends on the result or the error of another turn only when an earlier prompt
\* was cut short: run_turn reads what the pump hands it and asks no event whose it is, so
\* what keeps the turns apart is that the gate is handed on with the last one drained.  It
\* is so as long as no channel overflows, what trails a turn comes within the grace, and
\* the client does not load while a load or a close is unanswered.
THEOREM OwnTurnEndsIt ==
  ~ClientOverlaps /\ TailInTime => (Spec /\ []NeverFull => []EndedByOwnTurn)
<1> SUFFICES ASSUME ~ClientOverlaps, TailInTime
             PROVE  Spec /\ []NeverFull => []EndedByOwnTurn
  OBVIOUS
<1> DEFINE I == Base /\ TurnInv
<1>1. Init => I
  BY InitTurns
<1>2. I /\ NeverFull /\ [Next]_vars => I'
  BY NextTurns
<1>3. I => EndedByOwnTurn
  BY DEF TurnInv
<1> QED
  BY <1>1, <1>2, <1>3, PTL DEF Spec
=============================================================================
