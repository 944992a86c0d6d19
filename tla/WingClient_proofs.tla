-------------------------- MODULE WingClient_proofs --------------------------
(* Theorems about the driver (StdioDriver), the settings panel (SettingsPanel) and the event *)
(* stream (FrameStream), for every value of their constants, and about the client as a       *)
(* whole: what is proved of its other parts in their own modules, said of the runs of        *)
(* MCWingClient.                                                                             *)
EXTENDS MCWingClient, AcpSessions_proofs

-----------------------------------------------------------------------------
(* The driver: what it owes and what it posts *)

AskedIn(n) == {i \in 1..n : drv_written[i] \in Driver!Requests}

DriverTyped ==
    /\ drv_written \in Seq(Driver!LineKinds) /\ drv_read \in 0..Len(drv_written)
    /\ drv_pump \in {"read", "ack", "done", "killed"}
    /\ drv_driver \in {"prompt", "post", "posted", "loop", "finish", "exited"}
    /\ drv_resident \in BOOLEAN /\ drv_hostEof \in BOOLEAN
    /\ drv_inTurn \in BOOLEAN /\ drv_eof \in BOOLEAN /\ drv_failed \in BOOLEAN

\* The pump owes at most the answer to the line it read last; one that has stopped while
\* the driver still listens has seen the end of stdin.
PumpInv ==
    /\ drv_pump \in {"read", "done"} => drv_answered = AskedIn(drv_read)
    /\ drv_pump = "ack" => /\ drv_read > 0 /\ drv_written[drv_read] \in Driver!Requests
                           /\ drv_answered = AskedIn(drv_read - 1)
    /\ drv_pump = "done" /\ ~Driver!Dropped => drv_hostEof /\ drv_read = Len(drv_written)

\* The driver learns of the end of stdin from the pump that has stopped.
EofInv == drv_eof => drv_resident /\ drv_hostEof /\ drv_pump = "done" /\ drv_read = Len(drv_written)

\* Outside a turn every message posted was followed by a terminal event.
DriverTurnInv ==
    /\ drv_driver = "prompt" => drv_forwarded = <<>> /\ drv_closedAfter = 0 /\ ~drv_inTurn
    /\ drv_driver = "loop" /\ ~drv_inTurn => drv_closedAfter = Len(drv_forwarded)
    /\ Driver!Dropped /\ ~drv_failed =>
          drv_closedAfter = Len(drv_forwarded) /\ (drv_resident => drv_eof)

\* The messages the driver has posted or is about to.
Hand == IF drv_driver = "post" THEN {drv_sending} ELSE {}
Posted == ToSet(drv_forwarded) \cup Hand

Rising(s) == \A i, j \in DOMAIN s : i < j => s[i] < s[j]

\* What the driver has posted, has in hand and has not taken yet rises in this order.
QueueInv ==
    /\ drv_forwarded \in Seq(Nat) /\ drv_messages \in Seq(Nat) /\ Hand \subseteq Nat
    /\ Rising(drv_forwarded) /\ Rising(drv_messages)
    /\ \A k \in ToSet(drv_forwarded), m \in Hand : k < m
    /\ \A k \in Posted, m \in ToSet(drv_messages) : k < m
    /\ \A m \in ToSet(drv_messages) : m \in 1..drv_read /\ drv_written[m] \in {"user", "empty"}

\* It is all that was asked for in the lines read, as long as the driver takes messages.
WholeInv ==
    /\ ~Driver!Dropped =>
          Posted \cup {m \in ToSet(drv_messages) : drv_written[m] = "user"}
              = Driver!UserMessages(drv_read)
    /\ ToSet(drv_forwarded) \subseteq Driver!UserMessages(drv_read)
    /\ \A m \in Driver!UserMessages(drv_read), k \in ToSet(drv_forwarded) :
          m < k => m \in ToSet(drv_forwarded)
    /\ drv_eof => drv_messages = <<>>
    /\ Driver!Dropped /\ ~drv_failed => ToSet(drv_forwarded) = Driver!UserMessages(drv_read)

OrderInv == drv_resident => QueueInv /\ WholeInv

DriverInv == DriverTyped /\ PumpInv /\ EofInv /\ DriverTurnInv

LEMMA DriverTypeStep ==
  ASSUME DriverTyped, [Driver!Next]_Driver!vars
  PROVE  DriverTyped'
<1>1. CASE Driver!HostWrites
  BY <1>1 DEF Driver!HostWrites, Driver!modeVars, Driver!pumpVars, Driver!policy,
     Driver!history, DriverTyped
<1>2. CASE Driver!HostCloses
  BY <1>2 DEF Driver!HostCloses, Driver!modeVars, Driver!pumpVars, Driver!policy,
     Driver!history, DriverTyped
<1>3. CASE Driver!PumpMessage
  BY <1>3 DEF Driver!PumpMessage, Driver!modeVars, Driver!hostVars, Driver!policy,
     Driver!history, DriverTyped
<1>4. CASE Driver!PumpRequest
  BY <1>4 DEF Driver!PumpRequest, Driver!modeVars, Driver!hostVars, Driver!policy,
     Driver!history, DriverTyped
<1>5. CASE Driver!PumpAnswers
  BY <1>5 DEF Driver!PumpAnswers, Driver!modeVars, Driver!hostVars, Driver!policy,
     Driver!history, DriverTyped
<1>6. CASE Driver!PumpStops
  BY <1>6 DEF Driver!PumpStops, Driver!modeVars, Driver!hostVars, Driver!policy, Driver!history,
     DriverTyped
<1>7. CASE Driver!GatewayWorks
  BY <1>7 DEF Driver!GatewayWorks, Driver!modeVars, Driver!hostVars, Driver!pumpVars,
     Driver!policy, Driver!history, DriverTyped
<1>8. CASE Driver!GatewayInterrupts
  BY <1>8 DEF Driver!GatewayInterrupts, Driver!modeVars, Driver!hostVars, Driver!policy,
     Driver!history, DriverTyped
<1>9. CASE Driver!TakePrompt
  BY <1>9 DEF Driver!TakePrompt, Driver!modeVars, Driver!hostVars, Driver!pumpVars,
     Driver!policy, Driver!history, Driver!Post, DriverTyped
<1>10. CASE Driver!NoPrompt
  BY <1>10 DEF Driver!NoPrompt, Driver!modeVars, Driver!hostVars, Driver!pumpVars,
     Driver!policy, DriverTyped
<1>11. CASE Driver!PostArrives
  BY <1>11 DEF Driver!PostArrives, Driver!modeVars, Driver!hostVars, Driver!pumpVars,
     Driver!policy, DriverTyped
<1>12. CASE Driver!PostReturns
  BY <1>12 DEF Driver!PostReturns, Driver!modeVars, Driver!hostVars, Driver!pumpVars,
     Driver!history, DriverTyped
<1>13. CASE Driver!TakeEvent
  BY <1>13 DEF Driver!TakeEvent, Driver!modeVars, Driver!hostVars, Driver!pumpVars, DriverTyped
<1>14. CASE Driver!TakeMessage
  BY <1>14 DEF Driver!TakeMessage, Driver!modeVars, Driver!hostVars, Driver!pumpVars,
     Driver!policy, Driver!history, Driver!Post, DriverTyped
<1>15. CASE Driver!TakeEof
  BY <1>15 DEF Driver!TakeEof, Driver!modeVars, Driver!hostVars, Driver!pumpVars,
     Driver!history, DriverTyped
<1>16. CASE Driver!Join
  BY <1>16 DEF Driver!Join, Driver!modeVars, Driver!hostVars, Driver!policy, Driver!history,
     DriverTyped
<1>17. CASE Driver!PostFails
  BY <1>17 DEF Driver!PostFails, Driver!modeVars, Driver!hostVars, Driver!pumpVars,
     Driver!policy, DriverTyped
<1>18. CASE Driver!StreamEnds
  BY <1>18 DEF Driver!StreamEnds, Driver!modeVars, Driver!hostVars, Driver!pumpVars,
     Driver!policy, DriverTyped
<1>19. CASE UNCHANGED Driver!vars
  BY <1>19 DEF Driver!vars, DriverTyped
<1> QED
  BY <1>1, <1>2, <1>3, <1>4, <1>5, <1>6, <1>7, <1>8, <1>9, <1>10, <1>11, <1>12, <1>13, <1>14,
     <1>15, <1>16, <1>17, <1>18, <1>19 DEF Driver!Next, Driver!Pump, Driver!Gateway,
     Driver!Driver, Driver!DriverWorks

\* A line that is written later changes nothing of what was asked so far.
LEMMA AskedOfPrefix ==
  ASSUME DriverTyped, NEW k, NEW n \in 0..Len(drv_written)
  PROVE  {i \in 1..n : Append(drv_written, k)[i] \in Driver!Requests} = AskedIn(n)
BY DEF AskedIn

LEMMA PumpInvStep ==
  ASSUME DriverTyped, PumpInv, [Driver!Next]_Driver!vars, drv_driver # "exited"
  PROVE  PumpInv'
<1>1. CASE Driver!HostWrites
  BY <1>1 DEF Driver!HostWrites, Driver!pumpVars, DriverTyped, PumpInv, AskedIn, Driver!Dropped
<1>2. CASE Driver!HostCloses
  BY <1>2 DEF Driver!HostCloses, Driver!pumpVars, PumpInv, AskedIn, Driver!Dropped
<1>3. CASE Driver!PumpMessage
  BY <1>3 DEF Driver!PumpMessage, Driver!hostVars, Driver!Dropped, DriverTyped, PumpInv, AskedIn,
     Driver!Dropped
<1>4. CASE Driver!PumpRequest
  BY <1>4 DEF Driver!PumpRequest, Driver!hostVars, DriverTyped, PumpInv, AskedIn
<1>5. CASE Driver!PumpAnswers
  BY <1>5 DEF Driver!PumpAnswers, Driver!hostVars, DriverTyped, PumpInv, AskedIn
<1>6. CASE Driver!PumpStops
  BY <1>6 DEF Driver!PumpStops, Driver!hostVars, Driver!Dropped, PumpInv, AskedIn, Driver!Dropped
<1>7. CASE Driver!GatewayWorks
  BY <1>7 DEF Driver!GatewayWorks, Driver!hostVars, Driver!pumpVars, PumpInv, AskedIn,
     Driver!Dropped
<1>8. CASE Driver!GatewayInterrupts
  BY <1>8 DEF Driver!GatewayInterrupts, Driver!hostVars, Driver!GwInterrupted, DriverTyped,
     PumpInv, AskedIn
<1>9. CASE Driver!TakePrompt
  BY <1>9 DEF Driver!TakePrompt, Driver!hostVars, Driver!pumpVars, PumpInv, AskedIn,
     Driver!Dropped
<1>10. CASE Driver!NoPrompt
  BY <1>10 DEF Driver!NoPrompt, Driver!hostVars, Driver!pumpVars, PumpInv, AskedIn, Driver!Dropped
<1>11. CASE Driver!PostArrives
  BY <1>11 DEF Driver!PostArrives, Driver!hostVars, Driver!pumpVars, PumpInv, AskedIn,
     Driver!Dropped
<1>12. CASE Driver!PostReturns
  BY <1>12 DEF Driver!PostReturns, Driver!hostVars, Driver!pumpVars, PumpInv, AskedIn,
     Driver!Dropped
<1>13. CASE Driver!TakeEvent
  BY <1>13 DEF Driver!TakeEvent, Driver!hostVars, Driver!pumpVars, PumpInv, AskedIn,
     Driver!Dropped
<1>14. CASE Driver!TakeMessage
  BY <1>14 DEF Driver!TakeMessage, Driver!hostVars, Driver!pumpVars, PumpInv, AskedIn,
     Driver!Dropped
<1>15. CASE Driver!TakeEof
  BY <1>15 DEF Driver!TakeEof, Driver!hostVars, Driver!pumpVars, PumpInv, AskedIn, Driver!Dropped
<1>16. CASE Driver!Join
  BY <1>16 DEF Driver!Join, Driver!hostVars, PumpInv, AskedIn, Driver!Dropped
<1>17. CASE Driver!PostFails
  BY <1>17 DEF Driver!PostFails, Driver!hostVars, Driver!pumpVars, PumpInv, AskedIn,
     Driver!Dropped
<1>18. CASE Driver!StreamEnds
  BY <1>18 DEF Driver!StreamEnds, Driver!hostVars, Driver!pumpVars, PumpInv, AskedIn,
     Driver!Dropped
<1>19. CASE UNCHANGED Driver!vars
  BY <1>19 DEF Driver!vars, PumpInv, AskedIn, Driver!Dropped
<1> QED
  BY <1>1, <1>2, <1>3, <1>4, <1>5, <1>6, <1>7, <1>8, <1>9, <1>10, <1>11, <1>12, <1>13, <1>14,
     <1>15, <1>16, <1>17, <1>18, <1>19 DEF Driver!Next, Driver!Pump, Driver!Gateway,
     Driver!Driver, Driver!DriverWorks

LEMMA EofStep ==
  ASSUME DriverTyped, PumpInv, EofInv, [Driver!Next]_Driver!vars
  PROVE  EofInv'
<1>1. CASE Driver!HostWrites
  BY <1>1 DEF Driver!HostWrites, Driver!policy, EofInv
<1>2. CASE Driver!HostCloses
  BY <1>2 DEF Driver!HostCloses, Driver!policy, EofInv
<1>3. CASE Driver!PumpMessage
  BY <1>3 DEF Driver!PumpMessage, Driver!policy, EofInv
<1>4. CASE Driver!PumpRequest
  BY <1>4 DEF Driver!PumpRequest, Driver!policy, EofInv
<1>5. CASE Driver!PumpAnswers
  BY <1>5 DEF Driver!PumpAnswers, Driver!policy, EofInv
<1>6. CASE Driver!PumpStops
  BY <1>6 DEF Driver!PumpStops, Driver!policy, EofInv
<1>7. CASE Driver!GatewayWorks
  BY <1>7 DEF Driver!GatewayWorks, Driver!modeVars, Driver!hostVars, Driver!pumpVars,
     Driver!policy, EofInv
<1>8. CASE Driver!GatewayInterrupts
  BY <1>8 DEF Driver!GatewayInterrupts, Driver!policy, Driver!GwInterrupted, EofInv
<1>9. CASE Driver!TakePrompt
  BY <1>9 DEF Driver!TakePrompt, Driver!modeVars, Driver!hostVars, Driver!pumpVars,
     Driver!policy, EofInv
<1>10. CASE Driver!NoPrompt
  BY <1>10 DEF Driver!NoPrompt, Driver!modeVars, Driver!hostVars, Driver!pumpVars,
     Driver!policy, EofInv
<1>11. CASE Driver!PostArrives
  BY <1>11 DEF Driver!PostArrives, Driver!modeVars, Driver!hostVars, Driver!pumpVars,
     Driver!policy, EofInv
<1>12. CASE Driver!PostReturns
  BY <1>12 DEF Driver!PostReturns, Driver!modeVars, Driver!hostVars, Driver!pumpVars, EofInv
<1>13. CASE Driver!TakeEvent
  BY <1>13 DEF Driver!TakeEvent, Driver!modeVars, Driver!hostVars, Driver!pumpVars, EofInv
<1>14. CASE Driver!TakeMessage
  BY <1>14 DEF Driver!TakeMessage, Driver!modeVars, Driver!hostVars, Driver!pumpVars,
     Driver!policy, EofInv
<1>15. CASE Driver!TakeEof
  BY <1>15 DEF Driver!TakeEof, Driver!modeVars, Driver!hostVars, Driver!pumpVars, PumpInv,
     EofInv, Driver!Dropped
<1>16. CASE Driver!Join
  BY <1>16 DEF Driver!Join, Driver!modeVars, Driver!hostVars, Driver!policy, EofInv
<1>17. CASE Driver!PostFails
  BY <1>17 DEF Driver!PostFails, Driver!modeVars, Driver!hostVars, Driver!pumpVars,
     Driver!policy, EofInv
<1>18. CASE Driver!StreamEnds
  BY <1>18 DEF Driver!StreamEnds, Driver!modeVars, Driver!hostVars, Driver!pumpVars,
     Driver!policy, EofInv
<1>19. CASE UNCHANGED Driver!vars
  BY <1>19 DEF Driver!vars, EofInv
<1> QED
  BY <1>1, <1>2, <1>3, <1>4, <1>5, <1>6, <1>7, <1>8, <1>9, <1>10, <1>11, <1>12, <1>13, <1>14,
     <1>15, <1>16, <1>17, <1>18, <1>19 DEF Driver!Next, Driver!Pump, Driver!Gateway,
     Driver!Driver, Driver!DriverWorks

LEMMA TurnStep ==
  ASSUME DriverTyped, EofInv, DriverTurnInv, [Driver!Next]_Driver!vars
  PROVE  DriverTurnInv'
<1>1. CASE Driver!HostWrites
  BY <1>1 DEF Driver!HostWrites, Driver!modeVars, Driver!policy, Driver!history, DriverTurnInv,
     Driver!Dropped
<1>2. CASE Driver!HostCloses
  BY <1>2 DEF Driver!HostCloses, Driver!modeVars, Driver!policy, Driver!history, DriverTurnInv,
     Driver!Dropped
<1>3. CASE Driver!PumpMessage
  BY <1>3 DEF Driver!PumpMessage, Driver!modeVars, Driver!policy, Driver!history,
     Driver!Dropped, DriverTurnInv, Driver!Dropped
<1>4. CASE Driver!PumpRequest
  BY <1>4 DEF Driver!PumpRequest, Driver!modeVars, Driver!policy, Driver!history, DriverTurnInv,
     Driver!Dropped
<1>5. CASE Driver!PumpAnswers
  BY <1>5 DEF Driver!PumpAnswers, Driver!modeVars, Driver!policy, Driver!history, DriverTurnInv,
     Driver!Dropped
<1>6. CASE Driver!PumpStops
  BY <1>6 DEF Driver!PumpStops, Driver!modeVars, Driver!policy, Driver!history, Driver!Dropped,
     DriverTurnInv, Driver!Dropped
<1>7. CASE Driver!GatewayWorks
  BY <1>7 DEF Driver!GatewayWorks, Driver!modeVars, Driver!policy, Driver!history, DriverTurnInv,
     Driver!Dropped
<1>8. CASE Driver!GatewayInterrupts
  BY <1>8 DEF Driver!GatewayInterrupts, Driver!modeVars, Driver!policy, Driver!history,
     DriverTurnInv, Driver!Dropped
<1>9. CASE Driver!TakePrompt
  BY <1>9 DEF Driver!TakePrompt, Driver!history, Driver!Post, DriverTurnInv, Driver!Dropped
<1>10. CASE Driver!NoPrompt
  BY <1>10 DEF Driver!NoPrompt, DriverTurnInv
<1>11. CASE Driver!PostArrives
  BY <1>11 DEF Driver!PostArrives, DriverTurnInv, Driver!Dropped
<1>12. CASE Driver!PostReturns
  BY <1>12 DEF Driver!PostReturns, DriverTurnInv, Driver!Dropped
<1>13. CASE Driver!TakeEvent
  BY <1>13 DEF Driver!TakeEvent, Driver!modeVars, DriverTurnInv, Driver!Dropped
<1>14. CASE Driver!TakeMessage
  BY <1>14 DEF Driver!TakeMessage, Driver!policy, Driver!history, Driver!Post, DriverTurnInv,
     Driver!Dropped
<1>15. CASE Driver!TakeEof
  BY <1>15 DEF Driver!TakeEof, Driver!history, DriverTurnInv, Driver!Dropped
<1>16. CASE Driver!Join
  BY <1>16 DEF Driver!Join, Driver!modeVars, Driver!policy, Driver!history, DriverTurnInv,
     Driver!Dropped
<1>17. CASE Driver!PostFails
  BY <1>17 DEF Driver!PostFails, DriverTurnInv
<1>18. CASE Driver!StreamEnds
  BY <1>18 DEF Driver!StreamEnds, DriverTurnInv
<1>19. CASE UNCHANGED Driver!vars
  BY <1>19 DEF Driver!vars, DriverTurnInv, Driver!Dropped
<1> QED
  BY <1>1, <1>2, <1>3, <1>4, <1>5, <1>6, <1>7, <1>8, <1>9, <1>10, <1>11, <1>12, <1>13, <1>14,
     <1>15, <1>16, <1>17, <1>18, <1>19 DEF Driver!Next, Driver!Pump, Driver!Gateway,
     Driver!Driver, Driver!DriverWorks

LEMMA DriverInvariant == Driver!Spec => []DriverInv
<1>1. Driver!Init => DriverInv
  <2> SUFFICES ASSUME Driver!Init PROVE DriverInv
    OBVIOUS
  <2>1. DriverTyped
    <3>1. drv_written \in Seq(Driver!LineKinds) /\ Len(drv_written) = 0
      BY DEF Driver!Init
    <3>2. drv_driver \in {"post", "prompt"}
      BY Zenon DEF Driver!Init
    <3>3. /\ drv_hostEof \in BOOLEAN /\ drv_inTurn \in BOOLEAN
          /\ drv_eof \in BOOLEAN /\ drv_failed \in BOOLEAN
      BY DEF Driver!Init
    <3>4. drv_resident \in BOOLEAN /\ drv_read = 0 /\ drv_pump = "read"
      BY DEF Driver!Init
    <3> QED
      BY <3>1, <3>2, <3>3, <3>4 DEF DriverTyped
  <2>2. AskedIn(0) = {}
    BY DEF AskedIn
  <2>3. PumpInv
    BY <2>2 DEF Driver!Init, PumpInv
  <2> QED
    BY <2>1, <2>3 DEF Driver!Init, DriverInv, EofInv, DriverTurnInv, Driver!Dropped
<1>2. DriverInv /\ [Driver!Next]_Driver!vars => DriverInv'
  <2> SUFFICES ASSUME DriverInv, [Driver!Next]_Driver!vars PROVE DriverInv'
    OBVIOUS
  <2>1. CASE drv_driver = "exited"
    BY <2>1 DEF Driver!Next, DriverInv, DriverTyped, PumpInv, EofInv, DriverTurnInv, AskedIn,
       Driver!Dropped, Driver!vars
  <2>2. CASE drv_driver # "exited"
    BY <2>2, DriverTypeStep, PumpInvStep, EofStep, TurnStep DEF DriverInv
  <2> QED
    BY <2>1, <2>2
<1> QED
  BY <1>1, <1>2, PTL DEF Driver!Spec

\* A wing -p process that ends regularly leaves no message it posted without a terminal
\* event after it, whatever the orchestrator wrote, interrupted or closed, and when.
LEMMA RegularEndLeavesNothingOpen == Driver!Spec => []Driver!LeavesNothingOpen
<1>1. DriverInv => Driver!LeavesNothingOpen
  BY DEF DriverInv, DriverTurnInv, Driver!Dropped, Driver!LeavesNothingOpen
<1> QED
  BY <1>1, DriverInvariant, PTL

\* Every control request the pump read is answered when the pump has stopped, and every
\* one that was written when a resident process ends regularly.
LEMMA RequestsAreAnswered == Driver!Spec => []Driver!RequestsAnswered
<1>1. DriverInv => Driver!RequestsAnswered
  BY DEF DriverInv, PumpInv, EofInv, DriverTurnInv, Driver!Dropped, AskedIn, Driver!RequestsAnswered
<1> QED
  BY <1>1, DriverInvariant, PTL

-----------------------------------------------------------------------------
(* The driver: the order of the messages *)

\* What the order looks at.
orderVars == <<drv_resident, drv_cliPrompt, drv_written, drv_read, drv_messages,
               drv_forwarded, drv_eof, drv_failed>>

LEMMA OrderUntouched ==
  ASSUME OrderInv, UNCHANGED orderVars, Hand' = Hand, Driver!Dropped' = Driver!Dropped
  PROVE  OrderInv'
BY DEF OrderInv, QueueInv, WholeInv, orderVars, Posted, Driver!UserMessages

\* A step of the pump or of the host.
LEMMA SamePlace ==
  ASSUME UNCHANGED <<drv_driver, drv_sending>>
  PROVE  Hand' = Hand /\ Driver!Dropped' = Driver!Dropped
BY DEF Hand, Driver!Dropped

LEMMA UsersGrow ==
  ASSUME DriverTyped, drv_read < Len(drv_written), drv_read' = drv_read + 1,
         UNCHANGED <<drv_written, drv_cliPrompt>>
  PROVE  /\ drv_written[drv_read + 1] = "user" =>
               Driver!UserMessages(drv_read)' = Driver!UserMessages(drv_read) \cup {drv_read + 1}
         /\ drv_written[drv_read + 1] # "user" =>
               Driver!UserMessages(drv_read)' = Driver!UserMessages(drv_read)
         /\ \A k \in Driver!UserMessages(drv_read) : k < drv_read + 1
<1>1. drv_read \in Nat  BY DEF DriverTyped
<1>2. 1..(drv_read + 1) = 1..drv_read \cup {drv_read + 1}  BY <1>1
<1> QED BY <1>1, <1>2 DEF Driver!UserMessages, Driver!Prompt

LEMMA ToSetAppend ==
  ASSUME NEW S, NEW s \in Seq(S), NEW e \in S
  PROVE  ToSet(Append(s, e)) = ToSet(s) \cup {e}
<1>1. /\ Len(s) \in Nat /\ DOMAIN s = 1..Len(s)
      /\ Append(s, e) \in Seq(S) /\ DOMAIN Append(s, e) = 1..(Len(s) + 1)
      /\ Append(s, e)[Len(s) + 1] = e
      /\ \A i \in 1..Len(s) : Append(s, e)[i] = s[i]
  OBVIOUS
<1>2. 1..(Len(s) + 1) = 1..Len(s) \cup {Len(s) + 1}  BY <1>1
<1> QED BY <1>1, <1>2 DEF ToSet

LEMMA RisingAppend ==
  ASSUME NEW s \in Seq(Nat), NEW e \in Nat, Rising(s), \A k \in ToSet(s) : k < e
  PROVE  Rising(Append(s, e))
BY DEF Rising, ToSet

LEMMA RisingTail ==
  ASSUME NEW s \in Seq(Nat), s # <<>>, Rising(s)
  PROVE  /\ Head(s) \in Nat /\ Tail(s) \in Seq(Nat) /\ Rising(Tail(s))
         /\ ToSet(s) = ToSet(Tail(s)) \cup {Head(s)}
         /\ \A k \in ToSet(Tail(s)) : Head(s) < k
<1>1. /\ Len(s) \in Nat \ {0} /\ DOMAIN s = 1..Len(s) /\ Head(s) = s[1]
      /\ Tail(s) \in Seq(Nat) /\ DOMAIN Tail(s) = 1..(Len(s) - 1)
      /\ \A i \in 1..(Len(s) - 1) : Tail(s)[i] = s[i + 1]
  OBVIOUS
<1>2. Head(s) \in Nat  BY <1>1
<1>3. \A i \in 1..(Len(s) - 1) : i + 1 \in 1..Len(s) /\ 1 < i + 1  BY <1>1
<1>4. Rising(Tail(s))
  <2> SUFFICES ASSUME NEW i \in 1..(Len(s) - 1), NEW j \in 1..(Len(s) - 1), i < j
               PROVE  Tail(s)[i] < Tail(s)[j]
    BY <1>1 DEF Rising
  <2>1. i + 1 < j + 1 /\ i + 1 \in DOMAIN s /\ j + 1 \in DOMAIN s  BY <1>1
  <2> QED BY <1>1, <2>1 DEF Rising
<1>5. \A k \in ToSet(Tail(s)) : Head(s) < k
  <2> SUFFICES ASSUME NEW i \in 1..(Len(s) - 1) PROVE Head(s) < Tail(s)[i]
    BY <1>1 DEF ToSet
  <2>1. 1 < i + 1 /\ i + 1 \in DOMAIN s /\ 1 \in DOMAIN s  BY <1>1
  <2> QED BY <1>1, <2>1 DEF Rising
<1>6. ToSet(s) = ToSet(Tail(s)) \cup {Head(s)}
  <2>1. \A i \in 1..Len(s) : i = 1 \/ (i - 1 \in 1..(Len(s) - 1) /\ (i - 1) + 1 = i)  BY <1>1
  <2>2. \A x \in ToSet(s) : x \in ToSet(Tail(s)) \cup {Head(s)}
    <3> SUFFICES ASSUME NEW i \in 1..Len(s) PROVE s[i] \in ToSet(Tail(s)) \cup {Head(s)}
      BY <1>1 DEF ToSet
    <3>1. CASE i = 1
      BY <1>1, <3>1
    <3>2. CASE i # 1
      <4>1. i - 1 \in DOMAIN Tail(s) /\ Tail(s)[i - 1] = s[(i - 1) + 1] /\ (i - 1) + 1 = i
        BY <1>1, <2>1, <3>2
      <4> QED BY <4>1 DEF ToSet
    <3> QED BY <3>1, <3>2
  <2>3. \A x \in ToSet(Tail(s)) : x \in ToSet(s)
    BY <1>1, <1>3 DEF ToSet
  <2>4. Head(s) \in ToSet(s)
    BY <1>1 DEF ToSet
  <2> QED BY <2>2, <2>3, <2>4
<1> QED BY <1>1, <1>2, <1>4, <1>5, <1>6

LEMMA EmptyToSet == ToSet(<<>>) = {}
BY DEF ToSet

LEMMA OrderPumpMessage ==
  ASSUME DriverTyped, EofInv, DriverTurnInv, OrderInv, drv_resident, Driver!PumpMessage
  PROVE  OrderInv'
<1>1. /\ drv_read \in Nat /\ drv_read < Len(drv_written)
      /\ drv_written[drv_read + 1] \in {"user", "empty"}
      /\ drv_read' = drv_read + 1 /\ drv_pump = "read"
      /\ UNCHANGED <<drv_resident, drv_cliPrompt, drv_written, drv_forwarded, drv_eof,
                      drv_failed, drv_driver, drv_sending>>
      /\ \/ Driver!Dropped /\ UNCHANGED drv_messages
         \/ ~Driver!Dropped /\ drv_messages' = Append(drv_messages, drv_read + 1)
  <2>1. drv_written[drv_read + 1] \in Driver!LineKinds  BY DEF Driver!PumpMessage, DriverTyped
  <2>2. Driver!Delivers(drv_read + 1)  BY DEF Driver!Delivers
  <2>3. drv_read \in Nat  BY DEF DriverTyped
  <2> QED BY <2>1, <2>2, <2>3 DEF Driver!PumpMessage, Driver!modeVars, Driver!hostVars,
     Driver!policy, Driver!history, Driver!LineKinds, Driver!Requests
<1>2. Hand' = Hand /\ Driver!Dropped' = Driver!Dropped  BY <1>1, SamePlace
<1>3. QueueInv /\ WholeInv  BY DEF OrderInv
<1>4. /\ drv_written[drv_read + 1] = "user" =>
               Driver!UserMessages(drv_read)' = Driver!UserMessages(drv_read) \cup {drv_read + 1}
      /\ drv_written[drv_read + 1] # "user" =>
               Driver!UserMessages(drv_read)' = Driver!UserMessages(drv_read)
      /\ \A k \in Driver!UserMessages(drv_read) : k < drv_read + 1
  BY <1>1, UsersGrow
<1>5. ~drv_eof /\ ~(Driver!Dropped /\ ~drv_failed)
  BY <1>1 DEF EofInv, DriverTurnInv
<1>6. ToSet(drv_forwarded) \subseteq Driver!UserMessages(drv_read)
  BY <1>3 DEF WholeInv
<1>7. /\ (ToSet(drv_forwarded) \subseteq Driver!UserMessages(drv_read))'
      /\ (\A m \in Driver!UserMessages(drv_read), k \in ToSet(drv_forwarded) :
             m < k => m \in ToSet(drv_forwarded))'
  <2>1. \A k \in ToSet(drv_forwarded) : ~(drv_read + 1 < k)
    <3>1. ToSet(drv_forwarded) \subseteq Nat  BY <1>3 DEF QueueInv, ToSet
    <3> QED BY <1>1, <1>4, <1>6, <3>1
  <2> QED BY <1>1, <1>3, <1>4, <1>6, <2>1 DEF WholeInv
<1>8. CASE Driver!Dropped
  <2>1. QueueInv'  BY <1>1, <1>2, <1>3, <1>8 DEF QueueInv, Posted
  <2> QED BY <1>1, <1>2, <1>5, <1>7, <1>8, <2>1 DEF OrderInv, WholeInv
<1>9. CASE ~Driver!Dropped
  <2>1. drv_messages \in Seq(Nat) /\ drv_messages' = Append(drv_messages, drv_read + 1)
    BY <1>1, <1>3, <1>9 DEF QueueInv
  <2>2. ToSet(drv_messages') = ToSet(drv_messages) \cup {drv_read + 1}
    BY <1>1, <2>1, ToSetAppend
  <2>3. \A k \in ToSet(drv_messages) : k < drv_read + 1
    BY <1>1, <1>3 DEF QueueInv
  <2>4. Rising(drv_messages') /\ drv_messages' \in Seq(Nat)
    BY <1>1, <1>3, <2>1, <2>3, RisingAppend DEF QueueInv
  <2>5. \A k \in Posted : k < drv_read + 1
    BY <1>3, <1>4, <1>9 DEF WholeInv
  <2>6. QueueInv'
    BY <1>1, <1>2, <1>3, <2>2, <2>4, <2>5 DEF QueueInv, Posted
  <2>7. (Posted \cup {m \in ToSet(drv_messages) : drv_written[m] = "user"}
            = Driver!UserMessages(drv_read))'
    <3>1. Posted \cup {m \in ToSet(drv_messages) : drv_written[m] = "user"}
              = Driver!UserMessages(drv_read)
      BY <1>3, <1>9 DEF WholeInv
    <3>2. Posted' = Posted  BY <1>1, <1>2 DEF Posted
    <3> QED BY <1>1, <1>4, <2>2, <3>1, <3>2
  <2> QED BY <1>1, <1>2, <1>5, <1>7, <1>9, <2>6, <2>7 DEF OrderInv, WholeInv
<1> QED BY <1>8, <1>9

\* The driver takes the next message, and posts it unless it is empty.
LEMMA OrderTakes ==
  ASSUME DriverTyped, OrderInv, drv_resident, drv_driver \in {"prompt", "loop"},
         drv_messages # <<>>,
         drv_messages' = Tail(drv_messages),
         UNCHANGED <<drv_resident, drv_cliPrompt, drv_written, drv_read, drv_forwarded,
                     drv_eof, drv_failed>>,
         IF Driver!Kind(Head(drv_messages)) = "empty"
         THEN drv_driver' = "loop" ELSE Driver!Post(Head(drv_messages))
  PROVE  OrderInv'
<1>1. QueueInv /\ WholeInv /\ ~Driver!Dropped /\ ~Driver!Dropped' /\ Hand = {}
  BY DEF OrderInv, Driver!Dropped, Hand, Driver!Post
<1> DEFINE h == Head(drv_messages)
<1>2. /\ h \in Nat /\ drv_messages' \in Seq(Nat) /\ Rising(drv_messages')
      /\ ToSet(drv_messages) = ToSet(drv_messages') \cup {h}
      /\ \A k \in ToSet(drv_messages') : h < k
  BY <1>1, RisingTail DEF QueueInv
<1>3. h \in 1..drv_read /\ drv_written[h] \in {"user", "empty"} /\ Driver!Kind(h) = drv_written[h]
  <2>1. h \in 1..drv_read /\ drv_written[h] \in {"user", "empty"}  BY <1>1, <1>2 DEF QueueInv
  <2>2. h # 0  BY <2>1 DEF DriverTyped
  <2> QED BY <2>1, <2>2 DEF Driver!Kind, Driver!Prompt
<1>4. /\ ToSet(drv_forwarded)' = ToSet(drv_forwarded)
      /\ Driver!UserMessages(drv_read)' = Driver!UserMessages(drv_read)
  BY DEF Driver!UserMessages
<1>5. \A k \in ToSet(drv_forwarded) : k < h
  BY <1>1, <1>2 DEF QueueInv, Posted
<1>6. /\ drv_written[h] = "empty" => Hand' = {}
      /\ drv_written[h] = "user" => Hand' = {h}
  BY <1>3 DEF Hand, Driver!Post
<1> HIDE DEF h
<1>7. QueueInv'
  BY <1>1, <1>2, <1>3, <1>4, <1>5, <1>6 DEF QueueInv, Posted
<1>8. (Posted \cup {m \in ToSet(drv_messages) : drv_written[m] = "user"}
            = Driver!UserMessages(drv_read))'
  <2>1. Posted \cup {m \in ToSet(drv_messages) : drv_written[m] = "user"}
              = Driver!UserMessages(drv_read)
    BY <1>1 DEF WholeInv
  <2>2. Posted = ToSet(drv_forwarded) /\ Posted' = ToSet(drv_forwarded) \cup Hand'
    BY <1>1 DEF Posted
  <2> QED BY <1>2, <1>3, <1>4, <1>6, <2>1, <2>2
<1>9. ~drv_eof
  BY <1>1 DEF WholeInv
<1> QED BY <1>1, <1>4, <1>7, <1>8, <1>9 DEF OrderInv, WholeInv

LEMMA OrderPosts ==
  ASSUME OrderInv, drv_resident, Driver!PostArrives
  PROVE  OrderInv'
<1>1. /\ QueueInv /\ WholeInv /\ ~Driver!Dropped /\ ~Driver!Dropped'
      /\ Hand = {drv_sending} /\ Hand' = {}
      /\ drv_forwarded' = Append(drv_forwarded, drv_sending)
      /\ UNCHANGED <<drv_resident, drv_cliPrompt, drv_written, drv_read, drv_messages,
                      drv_eof, drv_failed>>
  BY DEF OrderInv, Driver!PostArrives, Driver!Dropped, Hand, Driver!modeVars, Driver!hostVars,
     Driver!pumpVars, Driver!policy
<1>2. /\ drv_sending \in Nat /\ drv_forwarded \in Seq(Nat)
      /\ \A k \in ToSet(drv_forwarded) : k < drv_sending
  BY <1>1 DEF QueueInv
<1>3. /\ ToSet(drv_forwarded') = ToSet(drv_forwarded) \cup {drv_sending}
      /\ Rising(drv_forwarded') /\ drv_forwarded' \in Seq(Nat)
  <2>1. ToSet(drv_forwarded') = ToSet(drv_forwarded) \cup {drv_sending}
    BY <1>1, <1>2, ToSetAppend
  <2>2. Rising(drv_forwarded)  BY <1>1 DEF QueueInv
  <2>3. Rising(drv_forwarded')  BY <1>1, <1>2, <2>2, RisingAppend
  <2> QED BY <1>1, <1>2, <2>1, <2>3
<1>4. Posted' = Posted  BY <1>1, <1>3 DEF Posted
<1>5. Driver!UserMessages(drv_read)' = Driver!UserMessages(drv_read)
  BY <1>1 DEF Driver!UserMessages
<1>6. QueueInv'  BY <1>1, <1>3, <1>4 DEF QueueInv
<1>7. Posted \cup {m \in ToSet(drv_messages) : drv_written[m] = "user"}
        = Driver!UserMessages(drv_read)
  BY <1>1 DEF WholeInv
<1>8. Posted = ToSet(drv_forwarded')  BY <1>1, <1>3 DEF Posted
<1>9. ASSUME NEW m \in Driver!UserMessages(drv_read), NEW k \in ToSet(drv_forwarded'), m < k
      PROVE  m \in ToSet(drv_forwarded')
  <2>1. CASE m \in Posted  BY <2>1, <1>8
  <2>2. CASE m \in ToSet(drv_messages)
    <3>1. k < m  BY <1>1, <1>8, <2>2 DEF QueueInv
    <3>2. k \in Nat /\ m \in Nat  BY <1>1, <1>3, <2>2 DEF QueueInv, ToSet
    <3> QED BY <1>9, <3>1, <3>2
  <2> QED BY <1>7, <2>1, <2>2
<1> QED BY <1>1, <1>4, <1>5, <1>6, <1>7, <1>8, <1>9 DEF OrderInv, WholeInv

\* The driver leaves its loop or fails: nothing is in hand any more.
LEMMA OrderLeaves ==
  ASSUME OrderInv, drv_resident, ~Driver!Dropped, Hand' = {},
         UNCHANGED <<drv_resident, drv_cliPrompt, drv_written, drv_read, drv_messages,
                     drv_forwarded>>,
         Driver!Dropped' => drv_failed' \/ (drv_messages = <<>> /\ Hand = {}),
         ~Driver!Dropped' => Hand = {}, drv_eof' => drv_messages = <<>>
  PROVE  OrderInv'
<1>1. QueueInv /\ WholeInv  BY DEF OrderInv
<1>2. Driver!UserMessages(drv_read)' = Driver!UserMessages(drv_read)  BY DEF Driver!UserMessages
<1>3. QueueInv'
  BY <1>1 DEF QueueInv, Posted
<1>4. Hand = {} => Posted' = Posted /\ Posted = ToSet(drv_forwarded)
  BY DEF Posted
<1>5. Posted \cup {m \in ToSet(drv_messages) : drv_written[m] = "user"}
        = Driver!UserMessages(drv_read)
  BY <1>1 DEF WholeInv
<1>6. drv_messages = <<>> /\ Hand = {} => ToSet(drv_forwarded) = Driver!UserMessages(drv_read)
  BY <1>4, <1>5, EmptyToSet
<1>7. WholeInv'
  BY <1>1, <1>2, <1>4, <1>5, <1>6 DEF WholeInv
<1> QED BY <1>3, <1>7 DEF OrderInv

LEMMA OrderStep ==
  ASSUME DriverTyped, EofInv, DriverTurnInv, OrderInv, [Driver!Next]_Driver!vars
  PROVE  OrderInv'
<1>0. drv_resident' = drv_resident
  BY DEF Driver!Next, Driver!Pump, Driver!Gateway, Driver!Driver, Driver!DriverWorks,
     Driver!modeVars, Driver!vars, Driver!HostWrites, Driver!HostCloses, Driver!PumpMessage,
     Driver!PumpRequest, Driver!PumpAnswers, Driver!PumpStops, Driver!GatewayWorks,
     Driver!GatewayInterrupts, Driver!TakePrompt, Driver!NoPrompt, Driver!PostArrives,
     Driver!PostReturns, Driver!TakeEvent, Driver!TakeMessage, Driver!TakeEof, Driver!Join,
     Driver!PostFails, Driver!StreamEnds
<1> SUFFICES ASSUME drv_resident PROVE OrderInv'
  BY <1>0 DEF OrderInv
<1> USE DEF Driver!modeVars, Driver!policy, Driver!history, Driver!hostVars, Driver!pumpVars
<1>1. CASE Driver!HostWrites
  <2>1. PICK k \in Driver!LineKinds : drv_written' = Append(drv_written, k)
    BY <1>1 DEF Driver!HostWrites
  <2>2. \A i \in 1..drv_read : drv_written'[i] = drv_written[i]
    BY <2>1 DEF DriverTyped
  <2>3. Driver!UserMessages(drv_read)' = Driver!UserMessages(drv_read)
    BY <1>1, <2>2 DEF Driver!UserMessages, Driver!HostWrites
  <2>4. Hand' = Hand /\ Driver!Dropped' = Driver!Dropped
    BY <1>1, SamePlace DEF Driver!HostWrites
  <2>5. UNCHANGED <<drv_read, drv_messages, drv_forwarded, drv_eof, drv_failed, drv_resident>>
    BY <1>1 DEF Driver!HostWrites
  <2>6. QueueInv'
    BY <2>2, <2>4, <2>5 DEF OrderInv, QueueInv, Posted
  <2>7. {m \in ToSet(drv_messages) : drv_written[m] = "user"}'
        = {m \in ToSet(drv_messages) : drv_written[m] = "user"}
    BY <2>2, <2>5 DEF OrderInv, QueueInv
  <2>8. Posted' = Posted
    BY <2>4, <2>5 DEF Posted
  <2>9. WholeInv'
    BY <2>3, <2>4, <2>5, <2>7, <2>8 DEF OrderInv, WholeInv
  <2> QED
    BY <2>6, <2>9 DEF OrderInv
<1>2. CASE Driver!HostCloses
  BY <1>2, SamePlace, OrderUntouched DEF Driver!HostCloses, orderVars
<1>3. CASE Driver!PumpMessage
  BY <1>3, OrderPumpMessage
<1>4. CASE Driver!PumpRequest
  <2>1. /\ drv_read < Len(drv_written) /\ drv_written[drv_read + 1] # "user"
        /\ drv_read' = drv_read + 1
        /\ UNCHANGED <<drv_written, drv_cliPrompt, drv_messages, drv_forwarded, drv_eof,
                        drv_failed, drv_resident>>
    BY <1>4 DEF Driver!PumpRequest, Driver!Requests
  <2>2. Driver!UserMessages(drv_read)' = Driver!UserMessages(drv_read)
    BY <2>1, UsersGrow
  <2>3. Hand' = Hand /\ Driver!Dropped' = Driver!Dropped
    BY <1>4, SamePlace DEF Driver!PumpRequest
  <2>4. Posted' = Posted
    BY <2>1, <2>3 DEF Posted
  <2>5. drv_read \in Nat
    BY DEF DriverTyped
  <2>6. QueueInv'
    BY <2>1, <2>3, <2>4, <2>5 DEF OrderInv, QueueInv
  <2>7. WholeInv'
    BY <2>1, <2>2, <2>3, <2>4 DEF OrderInv, WholeInv
  <2> QED
    BY <2>6, <2>7 DEF OrderInv
<1>5. CASE Driver!PumpAnswers
  BY <1>5, SamePlace, OrderUntouched DEF Driver!PumpAnswers, orderVars
<1>6. CASE Driver!PumpStops
  BY <1>6, SamePlace, OrderUntouched DEF Driver!PumpStops, orderVars
<1>7. CASE Driver!GatewayWorks
  BY <1>7, SamePlace, OrderUntouched DEF Driver!GatewayWorks, orderVars
<1>8. CASE Driver!GatewayInterrupts
  BY <1>8, SamePlace, OrderUntouched DEF Driver!GatewayInterrupts, orderVars
<1>9. CASE Driver!TakePrompt
  BY <1>9, OrderTakes DEF Driver!TakePrompt
<1>10. CASE Driver!NoPrompt
  BY <1>10, OrderLeaves DEF Driver!NoPrompt, Driver!Dropped, Hand, OrderInv, WholeInv
<1>11. CASE Driver!PostArrives
  BY <1>11, OrderPosts
<1>12. CASE Driver!PostReturns
  BY <1>12, OrderUntouched DEF Driver!PostReturns, orderVars, Hand, Driver!Dropped
<1>13. CASE Driver!TakeEvent
  BY <1>13, OrderLeaves DEF Driver!TakeEvent, Driver!Dropped, Hand, OrderInv, WholeInv
<1>14. CASE Driver!TakeMessage
  BY <1>14, OrderTakes DEF Driver!TakeMessage
<1>15. CASE Driver!TakeEof
  BY <1>15, OrderLeaves DEF Driver!TakeEof, Driver!Dropped, Hand
<1>16. CASE Driver!Join
  BY <1>16, OrderUntouched DEF Driver!Join, orderVars, Hand, Driver!Dropped
<1>17. CASE Driver!PostFails
  BY <1>17, OrderLeaves DEF Driver!PostFails, Driver!Dropped, Hand, OrderInv, WholeInv
<1>18. CASE Driver!StreamEnds
  BY <1>18, OrderLeaves DEF Driver!StreamEnds, Driver!Dropped, Hand, OrderInv, WholeInv
<1>19. CASE UNCHANGED Driver!vars
  BY <1>19, SamePlace, OrderUntouched DEF Driver!vars, orderVars
<1> QED
  BY <1>1, <1>2, <1>3, <1>4, <1>5, <1>6, <1>7, <1>8, <1>9, <1>10, <1>11, <1>12, <1>13, <1>14,
     <1>15, <1>16, <1>17, <1>18, <1>19 DEF Driver!Next, Driver!Pump, Driver!Gateway,
     Driver!Driver, Driver!DriverWorks

LEMMA OrderInvariant == Driver!Spec => []OrderInv
<1>1. Driver!Init => OrderInv
  <2> SUFFICES ASSUME Driver!Init PROVE OrderInv
    OBVIOUS
  <2>1. /\ drv_forwarded = <<>> /\ drv_messages = <<>> /\ drv_read = 0 /\ ~drv_eof
        /\ \/ drv_cliPrompt /\ drv_driver = "post" /\ drv_sending = Driver!Prompt
           \/ ~drv_cliPrompt /\ drv_driver = "prompt"
    BY DEF Driver!Init
  <2>2. Driver!UserMessages(0) = Hand /\ Hand \subseteq Nat /\ ~Driver!Dropped
    <3>1. 1..0 = {}  OBVIOUS
    <3>2. CASE drv_cliPrompt
      BY <2>1, <3>1, <3>2 DEF Driver!UserMessages, Hand, Driver!Prompt, Driver!Dropped
    <3>3. CASE ~drv_cliPrompt
      BY <2>1, <3>1, <3>3 DEF Driver!UserMessages, Hand, Driver!Prompt, Driver!Dropped
    <3> QED BY <3>2, <3>3
  <2>3. QueueInv
    BY <2>1, <2>2, EmptyToSet DEF QueueInv, Rising
  <2>4. WholeInv
    BY <2>1, <2>2, EmptyToSet DEF WholeInv, Posted
  <2> QED BY <2>3, <2>4 DEF OrderInv
<1>2. DriverInv /\ OrderInv /\ [Driver!Next]_Driver!vars => OrderInv'
  BY OrderStep DEF DriverInv
<1> QED
  BY <1>1, <1>2, DriverInvariant, PTL DEF Driver!Spec

\* A resident process posts the messages of its lines in the order they were written, none
\* twice and none passed over, and before a regular end all of them.
LEMMA MessagesInOrder == Driver!Spec => []Driver!ForwardedInOrder
<1>1. DriverInv /\ OrderInv => Driver!ForwardedInOrder
  <2> SUFFICES ASSUME DriverInv, OrderInv, drv_resident PROVE Driver!ForwardedInOrder
    BY DEF Driver!ForwardedInOrder
  <2>1. QueueInv /\ WholeInv /\ DriverTyped /\ EofInv /\ DriverTurnInv
    BY DEF DriverInv, OrderInv
  <2>2. Driver!UserMessages(drv_read) \subseteq Driver!UserMessages(Len(drv_written))
    BY <2>1 DEF Driver!UserMessages, DriverTyped
  <2>3. ASSUME NEW m \in Driver!UserMessages(Len(drv_written)),
               NEW k \in ToSet(drv_forwarded), m < k
        PROVE  m \in ToSet(drv_forwarded)
    <3>1. k \in Driver!UserMessages(drv_read)
      BY <2>1 DEF WholeInv
    <3>2. m \in Driver!UserMessages(drv_read)
      BY <2>1, <2>3, <3>1 DEF Driver!UserMessages, DriverTyped, Driver!Prompt
    <3> QED BY <2>1, <2>3, <3>2 DEF WholeInv
  <2>4. drv_driver = "exited" /\ ~drv_failed =>
           ToSet(drv_forwarded) = Driver!UserMessages(Len(drv_written))
    BY <2>1 DEF WholeInv, Driver!Dropped, DriverTurnInv, EofInv
  <2>5. \A i, j \in DOMAIN drv_forwarded : i < j => drv_forwarded[i] < drv_forwarded[j]
    BY <2>1 DEF QueueInv, Rising
  <2>6. ToSet(drv_forwarded) \subseteq Driver!UserMessages(Len(drv_written))
    BY <2>1, <2>2 DEF WholeInv
  <2> QED
    BY <2>3, <2>4, <2>5, <2>6 DEF Driver!ForwardedInOrder, ToSet, Driver!ToSet
<1> QED
  BY <1>1, DriverInvariant, OrderInvariant, PTL

-----------------------------------------------------------------------------
(* The driver: types *)

\* The bound on the lines, and what was answered, lies in the lines read.
LinesInv ==
    /\ drv_cliPrompt \in BOOLEAN /\ Len(drv_written) <= MaxLines
    /\ drv_answered \subseteq AskedIn(drv_read)

\* Every message in a queue or in hand is the prompt or a line read.
MessagesInv ==
    /\ drv_messages \in Seq(1..drv_read) /\ drv_inbox \in Seq(0..drv_read)
    /\ drv_driver = "post" => drv_sending \in 0..drv_read

TurnEventsInv ==
    /\ drv_events \in Seq({"terminal", "done"})
    /\ drv_forwarded \in Seq(Nat) /\ drv_closedAfter \in 0..Len(drv_forwarded)

LEMMA SeqGrows ==
  ASSUME NEW S, NEW T, S \subseteq T, NEW s \in Seq(S)
  PROVE  s \in Seq(T)
<1>1. s \in [1..Len(s) -> T] /\ Len(s) \in Nat  OBVIOUS
<1> QED BY <1>1

LEMMA SeqSteps ==
  ASSUME NEW S, NEW s \in Seq(S)
  PROVE  /\ s # <<>> => Head(s) \in S /\ Tail(s) \in Seq(S)
         /\ <<>> \in Seq(S)
         /\ \A x \in S : Append(s, x) \in Seq(S)
OBVIOUS

LEMMA LinesStep ==
  ASSUME MaxLines \in Nat, DriverTyped, LinesInv, PumpInv, [Driver!Next]_Driver!vars
  PROVE  LinesInv'
<1>1. drv_read \in Nat /\ Len(drv_written) \in Nat /\ drv_read <= Len(drv_written)
  BY DEF DriverTyped
<1>2. CASE Driver!HostWrites
  <2>1. PICK k : drv_written' = Append(drv_written, k)  BY <1>2 DEF Driver!HostWrites
  <2>2. UNCHANGED <<drv_cliPrompt, drv_read, drv_answered>> /\ Len(drv_written) < MaxLines
    BY <1>2 DEF Driver!HostWrites, Driver!modeVars, Driver!pumpVars
  <2>3. AskedIn(drv_read)' = AskedIn(drv_read)
    BY <2>1, <2>2, AskedOfPrefix DEF AskedIn, DriverTyped
  <2>4. Len(drv_written') = Len(drv_written) + 1  BY <2>1 DEF DriverTyped
  <2> QED BY <1>1, <2>2, <2>3, <2>4 DEF LinesInv
<1>3. ASSUME UNCHANGED <<drv_cliPrompt, drv_written>>,
             drv_read' \in {drv_read, drv_read + 1},
             drv_answered' \subseteq drv_answered \cup (AskedIn(drv_read) \cup AskedIn(drv_read'))
      PROVE  LinesInv'
  <2>1. AskedIn(drv_read) \subseteq AskedIn(drv_read')  BY <1>1, <1>3 DEF AskedIn
  <2>2. AskedIn(drv_read)' = AskedIn(drv_read')  BY <1>3 DEF AskedIn
  <2> QED BY <1>3, <2>1, <2>2 DEF LinesInv
<1>4. CASE Driver!PumpMessage
  BY <1>3, <1>4 DEF Driver!PumpMessage, Driver!modeVars, Driver!hostVars
<1>5. CASE Driver!PumpRequest
  <2>1. drv_read + 1 \in AskedIn(drv_read + 1)  BY <1>1, <1>5 DEF Driver!PumpRequest, AskedIn
  <2> QED BY <1>3, <1>5, <2>1 DEF Driver!PumpRequest, Driver!modeVars, Driver!hostVars
<1>6. CASE Driver!PumpAnswers \/ Driver!GatewayInterrupts
  <2>1. drv_pump = "ack"
    BY <1>6 DEF Driver!PumpAnswers, Driver!GatewayInterrupts, Driver!GwInterrupted
  <2>2. drv_read \in AskedIn(drv_read)
    BY <1>1, <2>1 DEF PumpInv, AskedIn
  <2>3. /\ drv_answered' = drv_answered \cup {drv_read}
        /\ UNCHANGED <<drv_cliPrompt, drv_written, drv_read>>
    BY <1>6 DEF Driver!PumpAnswers, Driver!GatewayInterrupts, Driver!modeVars, Driver!hostVars
  <2> QED BY <1>3, <2>2, <2>3
<1>7. \/ Driver!HostWrites \/ Driver!PumpMessage \/ Driver!PumpRequest
      \/ Driver!PumpAnswers \/ Driver!GatewayInterrupts
      \/ UNCHANGED <<drv_cliPrompt, drv_written, drv_read, drv_answered>>
  BY DEF Driver!Next, Driver!Pump, Driver!Gateway, Driver!Driver, Driver!DriverWorks, Driver!vars,
     Driver!HostCloses, Driver!PumpStops, Driver!GatewayWorks, Driver!TakePrompt, Driver!NoPrompt,
     Driver!PostArrives, Driver!PostReturns, Driver!TakeEvent, Driver!TakeMessage, Driver!TakeEof,
     Driver!Join, Driver!PostFails, Driver!StreamEnds, Driver!modeVars, Driver!hostVars,
     Driver!pumpVars
<1> QED BY <1>2, <1>3, <1>4, <1>5, <1>6, <1>7

LEMMA MessagesStep ==
  ASSUME DriverTyped, MessagesInv, [Driver!Next]_Driver!vars
  PROVE  MessagesInv'
<1>1. drv_read \in Nat /\ (drv_driver = "post" => drv_sending \in 0..drv_read)
  BY DEF DriverTyped, MessagesInv
<1>2. drv_messages \in Seq(1..drv_read) /\ drv_inbox \in Seq(0..drv_read)  BY DEF MessagesInv
<1>3. ASSUME drv_messages' \in Seq(1..drv_read), drv_inbox' \in Seq(0..drv_read),
             drv_driver' = "post" => drv_sending' \in 0..drv_read, UNCHANGED drv_read
      PROVE  MessagesInv'
  BY <1>3 DEF MessagesInv
<1>4. CASE Driver!PumpMessage \/ Driver!PumpRequest
  <2>1. /\ drv_read' = drv_read + 1 /\ UNCHANGED <<drv_inbox, drv_driver, drv_sending>>
        /\ drv_messages' \in {drv_messages, Append(drv_messages, drv_read + 1)}
    BY <1>4 DEF Driver!PumpMessage, Driver!PumpRequest, Driver!gwVars
  <2>2. drv_inbox \in Seq(0..drv_read') /\ drv_messages \in Seq(1..drv_read')
    <3>1. 1..drv_read \subseteq 1..drv_read' /\ 0..drv_read \subseteq 0..drv_read'  BY <1>1, <2>1
    <3> QED BY <1>2, <3>1, SeqGrows
  <2>3. drv_read + 1 \in 1..drv_read'  BY <1>1, <2>1
  <2>4. drv_messages' \in Seq(1..drv_read')  BY <2>1, <2>2, <2>3
  <2> QED BY <1>1, <2>1, <2>2, <2>4 DEF MessagesInv
<1>5. CASE Driver!TakePrompt \/ Driver!TakeMessage
  <2>1. /\ drv_messages # <<>> /\ drv_messages' = Tail(drv_messages)
        /\ UNCHANGED <<drv_read, drv_inbox>>
        /\ drv_driver' = "post" => drv_sending' = Head(drv_messages)
    BY <1>5 DEF Driver!TakePrompt, Driver!TakeMessage, Driver!Post, Driver!pumpVars, Driver!gwVars
  <2>2. Head(drv_messages) \in 1..drv_read /\ Tail(drv_messages) \in Seq(1..drv_read)
    BY <1>2, <2>1, SeqSteps
  <2> QED BY <1>1, <1>2, <1>3, <2>1, <2>2
<1>6. CASE Driver!PostArrives
  <2>1. /\ drv_driver = "post" /\ drv_driver' = "posted" /\ UNCHANGED <<drv_read, drv_messages>>
        /\ drv_inbox' \in {drv_inbox, Append(drv_inbox, drv_sending)}
    BY <1>6 DEF Driver!PostArrives, Driver!pumpVars
  <2>2. Append(drv_inbox, drv_sending) \in Seq(0..drv_read)  BY <1>1, <1>2, <2>1, SeqSteps
  <2> QED BY <1>2, <1>3, <2>1, <2>2
<1>7. CASE Driver!GatewayWorks \/ Driver!GatewayInterrupts
  <2>1. /\ UNCHANGED <<drv_read, drv_messages, drv_driver, drv_sending>>
        /\ drv_inbox' \in {drv_inbox, <<>>} \/ (drv_inbox # <<>> /\ drv_inbox' = Tail(drv_inbox))
    BY <1>7 DEF Driver!GatewayWorks, Driver!GatewayInterrupts, Driver!GwTurn, Driver!GwSteer,
       Driver!GwTurnEnds, Driver!GwInterrupted, Driver!pumpVars
  <2>2. drv_inbox' \in Seq(0..drv_read)  BY <1>2, <2>1, SeqSteps
  <2> QED BY <1>1, <1>2, <1>3, <2>1, <2>2
<1>8. \/ Driver!PumpMessage \/ Driver!PumpRequest \/ Driver!TakePrompt \/ Driver!TakeMessage
      \/ Driver!PostArrives \/ Driver!GatewayWorks \/ Driver!GatewayInterrupts
      \/ /\ UNCHANGED <<drv_messages, drv_read, drv_inbox>>
         /\ drv_driver' # "post" \/ UNCHANGED <<drv_driver, drv_sending>>
  BY DEF Driver!Next, Driver!Pump, Driver!Gateway, Driver!Driver, Driver!DriverWorks, Driver!vars,
     Driver!HostWrites, Driver!HostCloses, Driver!PumpAnswers, Driver!PumpStops, Driver!NoPrompt,
     Driver!PostReturns, Driver!TakeEvent, Driver!TakeEof, Driver!Join, Driver!PostFails,
     Driver!StreamEnds, Driver!modeVars, Driver!hostVars, Driver!pumpVars, Driver!gwVars
<1> QED BY <1>1, <1>2, <1>3, <1>4, <1>5, <1>6, <1>7, <1>8

LEMMA TurnEventsStep ==
  ASSUME DriverTyped, MessagesInv, TurnEventsInv, [Driver!Next]_Driver!vars
  PROVE  TurnEventsInv'
<1>1. drv_events \in Seq({"terminal", "done"}) /\ drv_forwarded \in Seq(Nat)
      /\ drv_closedAfter \in 0..Len(drv_forwarded)
  BY DEF TurnEventsInv
<1>2. CASE Driver!PostArrives
  <2>1. /\ drv_forwarded' = Append(drv_forwarded, drv_sending)
        /\ UNCHANGED <<drv_events, drv_closedAfter>> /\ drv_sending \in 0..drv_read
    BY <1>2 DEF Driver!PostArrives, MessagesInv
  <2>2. drv_sending \in Nat  BY <2>1 DEF DriverTyped
  <2> QED BY <1>1, <2>1, <2>2 DEF TurnEventsInv
<1>3. CASE Driver!TakeEvent
  <2>1. /\ drv_events # <<>> /\ drv_events' = Tail(drv_events) /\ UNCHANGED drv_forwarded
        /\ drv_closedAfter' \in {drv_closedAfter, Len(drv_forwarded)}
    BY <1>3 DEF Driver!TakeEvent
  <2> QED BY <1>1, <2>1 DEF TurnEventsInv
<1>4. CASE Driver!GatewayWorks \/ Driver!GatewayInterrupts
  <2>1. /\ UNCHANGED <<drv_forwarded, drv_closedAfter>>
        /\ drv_events' \in {drv_events, drv_events \o <<"terminal", "done">>,
                               Append(drv_events, "terminal")}
    BY <1>4 DEF Driver!GatewayWorks, Driver!GatewayInterrupts, Driver!GwTurn, Driver!GwSteer,
       Driver!GwTurnEnds, Driver!GwInterrupted, Driver!history
  <2>2. <<"terminal", "done">> \in Seq({"terminal", "done"})  OBVIOUS
  <2>3. drv_events \o <<"terminal", "done">> \in Seq({"terminal", "done"})
    BY <1>1, <2>2, ConcatProperties
  <2>4. drv_events' \in Seq({"terminal", "done"})  BY <1>1, <2>1, <2>3, SeqSteps
  <2> QED BY <1>1, <2>1, <2>4 DEF TurnEventsInv
<1>5. \/ Driver!PostArrives \/ Driver!TakeEvent \/ Driver!GatewayWorks \/ Driver!GatewayInterrupts
      \/ UNCHANGED <<drv_events, drv_forwarded, drv_closedAfter>>
  BY DEF Driver!Next, Driver!Pump, Driver!Gateway, Driver!Driver, Driver!DriverWorks, Driver!vars,
     Driver!HostWrites, Driver!HostCloses, Driver!PumpMessage, Driver!PumpRequest,
     Driver!PumpAnswers, Driver!PumpStops, Driver!NoPrompt, Driver!TakePrompt, Driver!TakeMessage,
     Driver!PostReturns, Driver!TakeEof, Driver!Join, Driver!PostFails, Driver!StreamEnds,
     Driver!history, Driver!gwVars
<1> QED BY <1>1, <1>2, <1>3, <1>4, <1>5 DEF TurnEventsInv

\* The types of the driver, for any number of lines.
LEMMA DriverTypes ==
  ASSUME MaxLines \in Nat
  PROVE  Driver!Spec => []Driver!TypeOK
<1> DEFINE Ranges == LinesInv /\ MessagesInv /\ TurnEventsInv
<1>1. Driver!Init => Ranges
  <2> SUFFICES ASSUME Driver!Init PROVE Ranges  OBVIOUS
  <2>1. /\ drv_cliPrompt \in BOOLEAN /\ drv_written = <<>> /\ drv_answered = {}
        /\ drv_messages = <<>>
        /\ drv_inbox = <<>> /\ drv_read = 0 /\ drv_events = <<>> /\ drv_forwarded = <<>>
        /\ drv_closedAfter = 0
        /\ drv_driver = "post" => drv_sending = 0
    BY DEF Driver!Init, Driver!Prompt
  <2>2. LinesInv  BY <2>1 DEF LinesInv
  <2>3. MessagesInv  BY <2>1 DEF MessagesInv
  <2>4. TurnEventsInv  BY <2>1 DEF TurnEventsInv
  <2> QED BY <2>2, <2>3, <2>4
<1>2. DriverInv /\ Ranges /\ [Driver!Next]_Driver!vars => Ranges'
  BY LinesStep, MessagesStep, TurnEventsStep DEF DriverInv
<1>3. DriverInv /\ Ranges => Driver!TypeOK
  BY DEF DriverInv, DriverTyped, LinesInv, MessagesInv, TurnEventsInv, AskedIn, Driver!TypeOK
<1> HIDE DEF Ranges
<1> QED BY <1>1, <1>2, <1>3, DriverInvariant, PTL DEF Driver!Spec

-----------------------------------------------------------------------------
(* The settings panel: what was typed stays *)

Document == SUBSET Nat
PanelState == [open : BOOLEAN, gw : Document, base : Document, dirty : BOOLEAN, ui : Document,
             uiDirty : BOOLEAN, stale : BOOLEAN]
CacheState == [values : Document, fingerprint : Document]
GetRequest == [id : Nat, read : BOOLEAN, values : Document]
PostRequest == [id : Nat, base : Document, doc : Document,
                answer : {"none", "saved", "refused", "conflict"}]

PanelTyped ==
    /\ set_panel \in PanelState /\ (~set_panel.open => set_panel = Settings!Closed)
    /\ set_cache \subseteq CacheState /\ set_opening \in BOOLEAN /\ set_reloading \in BOOLEAN
    /\ set_disk \in Document /\ set_saving \subseteq Document
    /\ set_gets \subseteq GetRequest /\ set_posts \subseteq PostRequest /\ set_server \in Document
    /\ set_edits \in Nat /\ set_others \in Nat /\ set_calls \in Nat
    /\ set_typed \subseteq Settings!Typed

\* What was typed and is neither stored nor given up; where it may still be.
Owed == set_typed \ (set_stored \cup set_given)
KeptInv ==
    /\ Owed \subseteq set_panel.gw
    /\ ~set_panel.dirty => Owed = {}
    /\ set_reloading /\ set_gets # {} => Owed = {}
    /\ \A p \in set_posts : Owed \subseteq p.doc /\ (p.answer = "saved" => Owed = {})

\* At most one save is under way, and none while a reload is.
OneSave ==
    /\ \A p, q \in set_posts : p = q
    /\ set_reloading => set_panel.open /\ (set_gets # {} => set_posts = {})

\* A document lacks what its fingerprint has only if the user gave it up, and has what its
\* fingerprint lacks only if the user typed it.
Honest(base, doc) ==
    base \ doc \subseteq set_given /\ doc \ base \subseteq Settings!Typed \cup set_given
BaseInv ==
    ~set_crossed =>
        /\ Honest(set_panel.base, set_panel.gw)
        /\ \A c \in set_cache : Honest(c.fingerprint, c.values)
        /\ \A p \in set_posts :
              /\ Honest(p.base, p.doc)
              /\ \A n \in p.doc \ p.base :
                    n \in set_given \/ (set_panel.dirty /\ n \in set_panel.gw)

LEMMA Documents ==
    /\ {} \in Document
    /\ \A d, e \in Document : d \cup e \in Document
    /\ \A d \in Document : \A n \in Nat : d \cup {n} \in Document
    /\ \A d \in Document : \A e : d \ e \in Document
BY DEF Document

LEMMA PanelTypeStep ==
  ASSUME MaxEdits \in Nat, PanelTyped, [Settings!Next]_Settings!vars
  PROVE  PanelTyped'
<1>1. CASE Settings!OpenPanel
  <2>1. set_panel' \in PanelState /\ (~set_panel'.open => set_panel' = Settings!Closed)
    BY <1>1, Documents
       DEF PanelTyped, PanelState, CacheState, GetRequest, PostRequest, Settings!Typed,
       Settings!appVars, Settings!netVars, Settings!bounds, Settings!history,
       Settings!OpenPanel, Settings!Fetch, Settings!Panel, Settings!Closed
  <2>2. set_cache' \subseteq CacheState
    BY <1>1, Documents DEF PanelTyped, PanelState, CacheState, GetRequest, PostRequest,
       Settings!Typed, Settings!appVars, Settings!netVars,
       Settings!bounds, Settings!history, Settings!OpenPanel, Settings!Fetch, Settings!Panel
  <2>a. set_calls' \in Nat /\ [id |-> set_calls', read |-> FALSE, values |-> {}] \in GetRequest
    BY <1>1, Documents DEF PanelTyped, GetRequest, Settings!OpenPanel, Settings!Fetch
  <2>3. set_gets' \subseteq GetRequest
    BY <1>1, Documents, <2>a DEF PanelTyped, PanelState, CacheState, GetRequest, PostRequest,
       Settings!Typed, Settings!appVars, Settings!netVars,
       Settings!bounds, Settings!history, Settings!OpenPanel, Settings!Fetch, Settings!Panel
  <2>4. set_posts' \subseteq PostRequest
    BY <1>1, Documents DEF PanelTyped, PanelState, CacheState, GetRequest, PostRequest,
       Settings!Typed, Settings!appVars, Settings!netVars,
       Settings!bounds, Settings!history, Settings!OpenPanel, Settings!Fetch, Settings!Panel
  <2> QED
    BY <1>1, Documents, <2>1, <2>2, <2>3, <2>4
       DEF PanelTyped, PanelState, CacheState, GetRequest, PostRequest, Settings!Typed,
       Settings!appVars, Settings!netVars, Settings!bounds, Settings!history,
       Settings!OpenPanel, Settings!Fetch, Settings!Panel
<1>2. ASSUME NEW ok \in BOOLEAN, Settings!EditGateway(ok) PROVE PanelTyped'
  <2>a. /\ set_edits' \in Nat
        /\ set_panel.gw \cup {set_edits'} \in Document
        /\ set_panel.ui \cup {set_edits'} \in Document
    BY <1>2, Documents DEF PanelTyped, PanelState, Settings!EditGateway
  <2>1. set_panel' \in PanelState /\ (~set_panel'.open => set_panel' = Settings!Closed)
    BY <1>2, Documents, <2>a DEF PanelTyped, PanelState, CacheState, GetRequest, PostRequest,
       Settings!Typed, Settings!appVars, Settings!netVars,
       Settings!bounds, Settings!history, Settings!EditGateway, Settings!Calm, Settings!Closed
  <2>2. set_cache' \subseteq CacheState
    BY <1>2, Documents DEF PanelTyped, PanelState, CacheState, GetRequest, PostRequest,
       Settings!Typed, Settings!appVars, Settings!netVars,
       Settings!bounds, Settings!history, Settings!EditGateway, Settings!Calm
  <2>3. set_gets' \subseteq GetRequest
    BY <1>2, Documents DEF PanelTyped, PanelState, CacheState, GetRequest, PostRequest,
       Settings!Typed, Settings!appVars, Settings!netVars,
       Settings!bounds, Settings!history, Settings!EditGateway, Settings!Calm
  <2>4. set_posts' \subseteq PostRequest
    BY <1>2, Documents DEF PanelTyped, PanelState, CacheState, GetRequest, PostRequest,
       Settings!Typed, Settings!appVars, Settings!netVars,
       Settings!bounds, Settings!history, Settings!EditGateway, Settings!Calm
  <2> QED
    BY <1>2, Documents, <2>1, <2>2, <2>3, <2>4
       DEF PanelTyped, PanelState, CacheState, GetRequest, PostRequest, Settings!Typed,
       Settings!appVars, Settings!netVars, Settings!bounds, Settings!history,
       Settings!EditGateway, Settings!Calm
<1>3. CASE Settings!EditInterface
  <2>a. /\ set_edits' \in Nat
        /\ set_panel.gw \cup {set_edits'} \in Document
        /\ set_panel.ui \cup {set_edits'} \in Document
    BY <1>3, Documents DEF PanelTyped, PanelState, Settings!EditInterface
  <2>1. set_panel' \in PanelState /\ (~set_panel'.open => set_panel' = Settings!Closed)
    BY <1>3, Documents, <2>a DEF PanelTyped, PanelState, CacheState, GetRequest, PostRequest,
       Settings!Typed, Settings!appVars, Settings!netVars,
       Settings!bounds, Settings!history, Settings!EditInterface, Settings!Calm, Settings!Closed
  <2>2. set_cache' \subseteq CacheState
    BY <1>3, Documents DEF PanelTyped, PanelState, CacheState, GetRequest, PostRequest,
       Settings!Typed, Settings!appVars, Settings!netVars,
       Settings!bounds, Settings!history, Settings!EditInterface, Settings!Calm
  <2>3. set_gets' \subseteq GetRequest
    BY <1>3, Documents DEF PanelTyped, PanelState, CacheState, GetRequest, PostRequest,
       Settings!Typed, Settings!appVars, Settings!netVars,
       Settings!bounds, Settings!history, Settings!EditInterface, Settings!Calm
  <2>4. set_posts' \subseteq PostRequest
    BY <1>3, Documents DEF PanelTyped, PanelState, CacheState, GetRequest, PostRequest,
       Settings!Typed, Settings!appVars, Settings!netVars,
       Settings!bounds, Settings!history, Settings!EditInterface, Settings!Calm
  <2> QED
    BY <1>3, Documents, <2>1, <2>2, <2>3, <2>4
       DEF PanelTyped, PanelState, CacheState, GetRequest, PostRequest, Settings!Typed,
       Settings!appVars, Settings!netVars, Settings!bounds, Settings!history,
       Settings!EditInterface, Settings!Calm
<1>4. ASSUME NEW n \in Settings!Changes, Settings!ResetValue(n) PROVE PanelTyped'
  <2>1. set_panel' \in PanelState /\ (~set_panel'.open => set_panel' = Settings!Closed)
    BY <1>4, Documents DEF PanelTyped, PanelState, CacheState, GetRequest, PostRequest,
       Settings!Typed, Settings!appVars, Settings!netVars,
       Settings!bounds, Settings!history, Settings!ResetValue, Settings!Calm, Settings!Closed
  <2>2. set_cache' \subseteq CacheState
    BY <1>4, Documents DEF PanelTyped, PanelState, CacheState, GetRequest, PostRequest,
       Settings!Typed, Settings!appVars, Settings!netVars,
       Settings!bounds, Settings!history, Settings!ResetValue, Settings!Calm
  <2>3. set_gets' \subseteq GetRequest
    BY <1>4, Documents DEF PanelTyped, PanelState, CacheState, GetRequest, PostRequest,
       Settings!Typed, Settings!appVars, Settings!netVars,
       Settings!bounds, Settings!history, Settings!ResetValue, Settings!Calm
  <2>4. set_posts' \subseteq PostRequest
    BY <1>4, Documents DEF PanelTyped, PanelState, CacheState, GetRequest, PostRequest,
       Settings!Typed, Settings!appVars, Settings!netVars,
       Settings!bounds, Settings!history, Settings!ResetValue, Settings!Calm
  <2> QED
    BY <1>4, Documents, <2>1, <2>2, <2>3, <2>4
       DEF PanelTyped, PanelState, CacheState, GetRequest, PostRequest, Settings!Typed,
       Settings!appVars, Settings!netVars, Settings!bounds, Settings!history,
       Settings!ResetValue, Settings!Calm
<1>5. ASSUME NEW written \in BOOLEAN, NEW connected \in BOOLEAN,
              Settings!SaveSettings(written, connected)
       PROVE PanelTyped'
  <2>1. set_panel' \in PanelState /\ (~set_panel'.open => set_panel' = Settings!Closed)
    BY <1>5, Documents
       DEF PanelTyped, PanelState, CacheState, GetRequest, PostRequest, Settings!Typed,
       Settings!appVars, Settings!netVars, Settings!bounds, Settings!history,
       Settings!SaveSettings, Settings!Calm, Settings!Mishap, Settings!Closed
  <2>2. set_cache' \subseteq CacheState
    BY <1>5, Documents DEF PanelTyped, PanelState, CacheState, GetRequest, PostRequest,
       Settings!Typed, Settings!appVars, Settings!netVars,
       Settings!bounds, Settings!history, Settings!SaveSettings, Settings!Calm, Settings!Mishap
  <2>3. set_gets' \subseteq GetRequest
    BY <1>5, Documents DEF PanelTyped, PanelState, CacheState, GetRequest, PostRequest,
       Settings!Typed, Settings!appVars, Settings!netVars,
       Settings!bounds, Settings!history, Settings!SaveSettings, Settings!Calm, Settings!Mishap
  <2>4. set_posts' \subseteq PostRequest
    BY <1>5, Documents DEF PanelTyped, PanelState, CacheState, GetRequest, PostRequest,
       Settings!Typed, Settings!appVars, Settings!netVars,
       Settings!bounds, Settings!history, Settings!SaveSettings, Settings!Calm, Settings!Mishap
  <2> QED
    BY <1>5, Documents, <2>1, <2>2, <2>3, <2>4
       DEF PanelTyped, PanelState, CacheState, GetRequest, PostRequest, Settings!Typed,
       Settings!appVars, Settings!netVars, Settings!bounds, Settings!history,
       Settings!SaveSettings, Settings!Calm, Settings!Mishap
<1>6. CASE Settings!ReloadSettings
  <2>1. set_panel' \in PanelState /\ (~set_panel'.open => set_panel' = Settings!Closed)
    BY <1>6, Documents
       DEF PanelTyped, PanelState, CacheState, GetRequest, PostRequest, Settings!Typed,
       Settings!appVars, Settings!netVars, Settings!bounds, Settings!history,
       Settings!ReloadSettings, Settings!Calm, Settings!Fetch, Settings!Closed
  <2>2. set_cache' \subseteq CacheState
    BY <1>6, Documents DEF PanelTyped, PanelState, CacheState, GetRequest, PostRequest,
       Settings!Typed, Settings!appVars, Settings!netVars,
       Settings!bounds, Settings!history, Settings!ReloadSettings, Settings!Calm, Settings!Fetch
  <2>a. set_calls' \in Nat /\ [id |-> set_calls', read |-> FALSE, values |-> {}] \in GetRequest
    BY <1>6, Documents DEF PanelTyped, GetRequest, Settings!ReloadSettings, Settings!Fetch
  <2>3. set_gets' \subseteq GetRequest
    BY <1>6, Documents, <2>a DEF PanelTyped, PanelState, CacheState, GetRequest, PostRequest,
       Settings!Typed, Settings!appVars, Settings!netVars,
       Settings!bounds, Settings!history, Settings!ReloadSettings, Settings!Calm, Settings!Fetch
  <2>4. set_posts' \subseteq PostRequest
    BY <1>6, Documents DEF PanelTyped, PanelState, CacheState, GetRequest, PostRequest,
       Settings!Typed, Settings!appVars, Settings!netVars,
       Settings!bounds, Settings!history, Settings!ReloadSettings, Settings!Calm, Settings!Fetch
  <2> QED
    BY <1>6, Documents, <2>1, <2>2, <2>3, <2>4
       DEF PanelTyped, PanelState, CacheState, GetRequest, PostRequest, Settings!Typed,
       Settings!appVars, Settings!netVars, Settings!bounds, Settings!history,
       Settings!ReloadSettings, Settings!Calm, Settings!Fetch
<1>7. CASE Settings!ClosePanel
  BY <1>7, Documents DEF Settings!ClosePanel, Settings!Closed, Settings!Unsaved,
     Settings!appVars, Settings!netVars, Settings!bounds, Settings!history,
     PanelTyped, PanelState, CacheState, GetRequest, PostRequest, Settings!Typed
<1>8. CASE Settings!DropResult
  BY <1>8, Documents DEF Settings!DropResult, Settings!Mishap, Settings!appVars,
     Settings!netVars, Settings!bounds, Settings!history, PanelTyped,
     PanelState, CacheState, GetRequest, PostRequest, Settings!Typed
<1>9. CASE Settings!SettingsChanged
  BY <1>9, Documents DEF Settings!SettingsChanged, Settings!appVars, Settings!netVars,
     Settings!bounds, Settings!history, PanelTyped,
     PanelState, CacheState, GetRequest, PostRequest, Settings!Typed
<1>10. CASE Settings!OtherSaves
  BY <1>10, Documents DEF Settings!OtherSaves, Settings!appVars, Settings!netVars,
     Settings!bounds, Settings!history, PanelTyped, PanelState,
     CacheState, GetRequest, PostRequest, Settings!Typed
<1>11. ASSUME NEW g \in set_gets, Settings!SettingsFetched(g) PROVE PanelTyped'
  <2>1. set_panel' \in PanelState /\ (~set_panel'.open => set_panel' = Settings!Closed)
    BY <1>11, Documents
       DEF PanelTyped, PanelState, CacheState, GetRequest, PostRequest, Settings!Typed,
       Settings!appVars, Settings!netVars, Settings!bounds, Settings!history,
       Settings!SettingsFetched, Settings!Snapshot, Settings!Applies, Settings!Unsaved,
       Settings!Panel, Settings!Closed
  <2>2. set_cache' \subseteq CacheState
    BY <1>11, Documents
       DEF PanelTyped, PanelState, CacheState, GetRequest, PostRequest, Settings!Typed,
       Settings!appVars, Settings!netVars, Settings!bounds, Settings!history,
       Settings!SettingsFetched, Settings!Snapshot, Settings!Applies, Settings!Unsaved,
       Settings!Panel
  <2>3. set_gets' \subseteq GetRequest
    BY <1>11, Documents
       DEF PanelTyped, PanelState, CacheState, GetRequest, PostRequest, Settings!Typed,
       Settings!appVars, Settings!netVars, Settings!bounds, Settings!history,
       Settings!SettingsFetched, Settings!Snapshot, Settings!Applies, Settings!Unsaved,
       Settings!Panel
  <2>4. set_posts' \subseteq PostRequest
    BY <1>11, Documents
       DEF PanelTyped, PanelState, CacheState, GetRequest, PostRequest, Settings!Typed,
       Settings!appVars, Settings!netVars, Settings!bounds, Settings!history,
       Settings!SettingsFetched, Settings!Snapshot, Settings!Applies, Settings!Unsaved,
       Settings!Panel
  <2> QED
    BY <1>11, Documents, <2>1, <2>2, <2>3, <2>4
       DEF PanelTyped, PanelState, CacheState, GetRequest, PostRequest, Settings!Typed,
       Settings!appVars, Settings!netVars, Settings!bounds, Settings!history,
       Settings!SettingsFetched, Settings!Snapshot, Settings!Applies, Settings!Unsaved,
       Settings!Panel
<1>12. ASSUME NEW g \in set_gets, Settings!ReadDocument(g) PROVE PanelTyped'
  BY <1>12, Documents DEF Settings!ReadDocument, Settings!appVars, Settings!netVars,
     Settings!bounds, Settings!history, PanelTyped, PanelState,
     CacheState, GetRequest, PostRequest, Settings!Typed
<1>13. ASSUME NEW p \in set_posts, Settings!SettingsSaved(p) PROVE PanelTyped'
  <2>1. set_panel' \in PanelState /\ (~set_panel'.open => set_panel' = Settings!Closed)
    <3>1. p \in PostRequest /\ p.answer # "none" /\ set_posts' = set_posts \ {p}
      BY <1>13 DEF Settings!SettingsSaved, PanelTyped
    <3>2. CASE ~set_panel.open
      BY <1>13, <3>2 DEF Settings!SettingsSaved, PanelTyped
    <3>3. CASE set_panel.open /\ p.answer = "saved"
      BY <1>13, <3>1, <3>3, Documents DEF Settings!SettingsSaved, Settings!Baseline, PanelTyped,
         PanelState, PostRequest
    <3>4. CASE set_panel.open /\ p.answer = "refused"
      BY <1>13, <3>1, <3>4, Documents DEF Settings!SettingsSaved, PanelTyped, PanelState,
         PostRequest
    <3>5. CASE set_panel.open /\ p.answer = "conflict"
      BY <1>13, <3>1, <3>5, Documents DEF Settings!SettingsSaved, PanelTyped, PanelState,
         PostRequest
    <3> QED
      BY <3>1, <3>2, <3>3, <3>4, <3>5 DEF PostRequest
  <2>2. set_cache' \subseteq CacheState
    BY <1>13, Documents DEF PanelTyped, PanelState, CacheState, GetRequest, PostRequest,
       Settings!Typed, Settings!appVars, Settings!netVars,
       Settings!bounds, Settings!history, Settings!SettingsSaved, Settings!Baseline
  <2>3. set_gets' \subseteq GetRequest
    BY <1>13, Documents DEF PanelTyped, PanelState, CacheState, GetRequest, PostRequest,
       Settings!Typed, Settings!appVars, Settings!netVars,
       Settings!bounds, Settings!history, Settings!SettingsSaved, Settings!Baseline
  <2>4. set_posts' \subseteq PostRequest
    BY <1>13, Documents DEF PanelTyped, PanelState, CacheState, GetRequest, PostRequest,
       Settings!Typed, Settings!appVars, Settings!netVars,
       Settings!bounds, Settings!history, Settings!SettingsSaved, Settings!Baseline
  <2> QED
    BY <1>13, Documents, <2>1, <2>2, <2>3, <2>4
       DEF PanelTyped, PanelState, CacheState, GetRequest, PostRequest, Settings!Typed,
       Settings!appVars, Settings!netVars, Settings!bounds, Settings!history,
       Settings!SettingsSaved, Settings!Baseline
<1>14. ASSUME NEW p \in set_posts, Settings!ApplySettings(p) PROVE PanelTyped'
  <2>1. set_panel' \in PanelState /\ (~set_panel'.open => set_panel' = Settings!Closed)
    BY <1>14, Documents DEF PanelTyped, PanelState, CacheState, GetRequest, PostRequest,
       Settings!Typed, Settings!appVars, Settings!netVars,
       Settings!bounds, Settings!history, Settings!ApplySettings, Settings!Closed
  <2>2. set_cache' \subseteq CacheState
    BY <1>14, Documents DEF PanelTyped, PanelState, CacheState, GetRequest, PostRequest,
       Settings!Typed, Settings!appVars, Settings!netVars,
       Settings!bounds, Settings!history, Settings!ApplySettings
  <2>3. set_gets' \subseteq GetRequest
    BY <1>14, Documents DEF PanelTyped, PanelState, CacheState, GetRequest, PostRequest,
       Settings!Typed, Settings!appVars, Settings!netVars,
       Settings!bounds, Settings!history, Settings!ApplySettings
  <2>4. set_posts' \subseteq PostRequest
    BY <1>14, Documents DEF PanelTyped, PanelState, CacheState, GetRequest, PostRequest,
       Settings!Typed, Settings!appVars, Settings!netVars,
       Settings!bounds, Settings!history, Settings!ApplySettings
  <2> QED
    BY <1>14, Documents, <2>1, <2>2, <2>3, <2>4
       DEF PanelTyped, PanelState, CacheState, GetRequest, PostRequest, Settings!Typed,
       Settings!appVars, Settings!netVars, Settings!bounds, Settings!history,
       Settings!ApplySettings
<1>15. CASE UNCHANGED Settings!vars
  BY <1>15 DEF Settings!vars, Settings!appVars, Settings!netVars, Settings!bounds,
     Settings!history, PanelTyped, PanelState, CacheState, GetRequest,
     PostRequest, Settings!Typed
<1> QED
  BY <1>1, <1>2, <1>3, <1>4, <1>5, <1>6, <1>7, <1>8, <1>9, <1>10, <1>11, <1>12, <1>13,
     <1>14, <1>15 DEF Settings!Next

LEMMA OneSaveStep ==
  ASSUME PanelTyped, OneSave, [Settings!Next]_Settings!vars
  PROVE  OneSave'
<1>1. CASE Settings!OpenPanel
  BY <1>1 DEF Settings!OpenPanel, Settings!Fetch, Settings!Panel, Settings!Closed,
     Settings!appVars, Settings!netVars, Settings!bounds, Settings!history,
     OneSave, PanelTyped, PostRequest
<1>2. ASSUME NEW ok \in BOOLEAN, Settings!EditGateway(ok) PROVE OneSave'
  BY <1>2 DEF Settings!EditGateway, Settings!Calm, Settings!appVars, Settings!netVars,
     Settings!bounds, Settings!history, OneSave, PanelTyped,
     PostRequest
<1>3. CASE Settings!EditInterface
  BY <1>3 DEF Settings!EditInterface, Settings!Calm, Settings!appVars, Settings!netVars,
     Settings!bounds, Settings!history, OneSave, PanelTyped,
     PostRequest
<1>4. ASSUME NEW n \in Settings!Changes, Settings!ResetValue(n) PROVE OneSave'
  BY <1>4 DEF Settings!ResetValue, Settings!Calm, Settings!appVars, Settings!netVars,
     Settings!bounds, Settings!history, OneSave, PanelTyped,
     PostRequest
<1>5. ASSUME NEW written \in BOOLEAN, NEW connected \in BOOLEAN,
              Settings!SaveSettings(written, connected)
       PROVE OneSave'
  <2>1. set_posts = {} /\ set_panel.open /\ (set_reloading => set_gets = {})
    BY <1>5 DEF Settings!SaveSettings, Settings!Calm
  <2>2. set_panel'.open = set_panel.open /\ set_gets' = set_gets /\ set_reloading' = set_reloading
    BY <1>5 DEF Settings!SaveSettings, PanelTyped, PanelState
  <2>3. \A q, r \in set_posts' : q = r
    BY <1>5, <2>1 DEF Settings!SaveSettings
  <2> QED
    BY <2>1, <2>2, <2>3 DEF OneSave
<1>6. CASE Settings!ReloadSettings
  BY <1>6 DEF Settings!ReloadSettings, Settings!Calm, Settings!Fetch, Settings!appVars,
     Settings!netVars, Settings!bounds, Settings!history, OneSave,
     PanelTyped, PostRequest
<1>7. CASE Settings!ClosePanel
  BY <1>7 DEF Settings!ClosePanel, Settings!Closed, Settings!Unsaved, Settings!appVars,
     Settings!netVars, Settings!bounds, Settings!history, OneSave,
     PanelTyped, PostRequest
<1>8. CASE Settings!DropResult
  BY <1>8 DEF Settings!DropResult, Settings!Mishap, Settings!appVars, Settings!netVars,
     Settings!bounds, Settings!history, OneSave, PanelTyped,
     PostRequest
<1>9. CASE Settings!SettingsChanged
  BY <1>9 DEF Settings!SettingsChanged, Settings!appVars, Settings!netVars, Settings!bounds,
     Settings!history, OneSave, PanelTyped, PostRequest
<1>10. CASE Settings!OtherSaves
  BY <1>10 DEF Settings!OtherSaves, Settings!appVars, Settings!netVars, Settings!bounds,
     Settings!history, OneSave, PanelTyped, PostRequest
<1>11. ASSUME NEW g \in set_gets, Settings!SettingsFetched(g) PROVE OneSave'
  BY <1>11 DEF Settings!SettingsFetched, Settings!Snapshot, Settings!Applies, Settings!Unsaved,
     Settings!Panel, Settings!Closed, Settings!appVars,
     Settings!netVars, Settings!bounds, Settings!history, OneSave, PanelTyped, PostRequest
<1>12. ASSUME NEW g \in set_gets, Settings!ReadDocument(g) PROVE OneSave'
  BY <1>12 DEF Settings!ReadDocument, Settings!appVars, Settings!netVars, Settings!bounds,
     Settings!history, OneSave, PanelTyped, PostRequest
<1>13. ASSUME NEW p \in set_posts, Settings!SettingsSaved(p) PROVE OneSave'
  BY <1>13 DEF Settings!SettingsSaved, Settings!Baseline, Settings!appVars, Settings!netVars,
     Settings!bounds, Settings!history, OneSave,
     PanelTyped, PostRequest
<1>14. ASSUME NEW p \in set_posts, Settings!ApplySettings(p) PROVE OneSave'
  BY <1>14 DEF Settings!ApplySettings, Settings!appVars, Settings!netVars, Settings!bounds,
     Settings!history, OneSave, PanelTyped, PostRequest
<1>15. CASE UNCHANGED Settings!vars
  BY <1>15 DEF Settings!vars, Settings!appVars, Settings!netVars, Settings!bounds,
     Settings!history, OneSave, PanelTyped, PostRequest
<1> QED
  BY <1>1, <1>2, <1>3, <1>4, <1>5, <1>6, <1>7, <1>8, <1>9, <1>10, <1>11, <1>12, <1>13,
     <1>14, <1>15 DEF Settings!Next

LEMMA KeptStep ==
  ASSUME MaxEdits \in Nat, PanelTyped, KeptInv, OneSave, [Settings!Next]_Settings!vars
  PROVE  KeptInv'
<1>1. CASE Settings!OpenPanel
  BY <1>1
     DEF Settings!OpenPanel, Settings!Fetch, Settings!Panel, Settings!Closed,
     Settings!appVars, Settings!netVars, Settings!bounds, Settings!history, KeptInv, Owed,
     PanelTyped, PanelState, PostRequest, GetRequest, Document, Settings!Typed, OneSave,
     Settings!Closed
<1>2. ASSUME NEW ok \in BOOLEAN, Settings!EditGateway(ok) PROVE KeptInv'
  BY <1>2
     DEF Settings!EditGateway, Settings!Calm, Settings!appVars, Settings!netVars,
     Settings!bounds, Settings!history, KeptInv, Owed, PanelTyped, PanelState, PostRequest,
     GetRequest, Document, Settings!Typed, OneSave, Settings!Closed
<1>3. CASE Settings!EditInterface
  BY <1>3
     DEF Settings!EditInterface, Settings!Calm, Settings!appVars, Settings!netVars,
     Settings!bounds, Settings!history, KeptInv, Owed, PanelTyped, PanelState, PostRequest,
     GetRequest, Document, Settings!Typed, OneSave, Settings!Closed
<1>4. ASSUME NEW n \in Settings!Changes, Settings!ResetValue(n) PROVE KeptInv'
  BY <1>4
     DEF Settings!ResetValue, Settings!Calm, Settings!appVars, Settings!netVars,
     Settings!bounds, Settings!history, KeptInv, Owed, PanelTyped, PanelState, PostRequest,
     GetRequest, Document, Settings!Typed, OneSave, Settings!Closed
<1>5. ASSUME NEW written \in BOOLEAN, NEW connected \in BOOLEAN,
              Settings!SaveSettings(written, connected)
       PROVE KeptInv'
  BY <1>5
     DEF Settings!SaveSettings, Settings!Calm, Settings!Mishap, Settings!appVars,
     Settings!netVars, Settings!bounds, Settings!history, KeptInv, Owed, PanelTyped,
     PanelState, PostRequest, GetRequest, Document, Settings!Typed, OneSave, Settings!Closed
<1>6. CASE Settings!ReloadSettings
  BY <1>6
     DEF Settings!ReloadSettings, Settings!Calm, Settings!Fetch, Settings!appVars,
     Settings!netVars, Settings!bounds, Settings!history, KeptInv, Owed, PanelTyped,
     PanelState, PostRequest, GetRequest, Document, Settings!Typed, OneSave, Settings!Closed
<1>7. CASE Settings!ClosePanel
  BY <1>7
     DEF Settings!ClosePanel, Settings!Closed, Settings!Unsaved, Settings!appVars,
     Settings!netVars, Settings!bounds, Settings!history, KeptInv, Owed, PanelTyped,
     PanelState, PostRequest, GetRequest, Document, Settings!Typed, OneSave, Settings!Closed
<1>8. CASE Settings!DropResult
  BY <1>8
     DEF Settings!DropResult, Settings!Mishap, Settings!appVars, Settings!netVars,
     Settings!bounds, Settings!history, KeptInv, Owed, PanelTyped, PanelState, PostRequest,
     GetRequest, Document, Settings!Typed, OneSave, Settings!Closed
<1>9. CASE Settings!SettingsChanged
  BY <1>9
     DEF Settings!SettingsChanged, Settings!appVars, Settings!netVars, Settings!bounds,
     Settings!history, KeptInv, Owed, PanelTyped, PanelState, PostRequest, GetRequest,
     Document, Settings!Typed, OneSave, Settings!Closed
<1>10. CASE Settings!OtherSaves
  BY <1>10 DEF Settings!OtherSaves, Settings!appVars, Settings!netVars, Settings!bounds,
     Settings!history, KeptInv, Owed, PanelTyped,
     PanelState, PostRequest, GetRequest, Document, Settings!Typed, OneSave, Settings!Closed
<1>11. ASSUME NEW g \in set_gets, Settings!SettingsFetched(g) PROVE KeptInv'
  BY <1>11
     DEF Settings!SettingsFetched, Settings!Snapshot, Settings!Applies, Settings!Unsaved,
     Settings!Panel, Settings!Closed, Settings!appVars, Settings!netVars, Settings!bounds,
     Settings!history, KeptInv, Owed, PanelTyped, PanelState, PostRequest, GetRequest,
     Document, Settings!Typed, OneSave, Settings!Closed
<1>12. ASSUME NEW g \in set_gets, Settings!ReadDocument(g) PROVE KeptInv'
  BY <1>12 DEF Settings!ReadDocument, Settings!appVars, Settings!netVars, Settings!bounds,
     Settings!history, KeptInv, Owed, PanelTyped,
     PanelState, PostRequest, GetRequest, Document, Settings!Typed, OneSave, Settings!Closed
<1>13. ASSUME NEW p \in set_posts, Settings!SettingsSaved(p) PROVE KeptInv'
  BY <1>13
     DEF Settings!SettingsSaved, Settings!Baseline, Settings!appVars, Settings!netVars,
     Settings!bounds, Settings!history, KeptInv, Owed, PanelTyped, PanelState, PostRequest,
     GetRequest, Document, Settings!Typed, OneSave, Settings!Closed
<1>14. ASSUME NEW p \in set_posts, Settings!ApplySettings(p) PROVE KeptInv'
  BY <1>14 DEF Settings!ApplySettings, Settings!appVars, Settings!netVars, Settings!bounds,
     Settings!history, KeptInv, Owed, PanelTyped,
     PanelState, PostRequest, GetRequest, Document, Settings!Typed, OneSave, Settings!Closed
<1>15. CASE UNCHANGED Settings!vars
  BY <1>15 DEF Settings!vars, Settings!appVars, Settings!netVars, Settings!bounds,
     Settings!history, KeptInv, Owed, PanelTyped,
     PanelState, PostRequest, GetRequest, Document, Settings!Typed, OneSave, Settings!Closed
<1> QED
  BY <1>1, <1>2, <1>3, <1>4, <1>5, <1>6, <1>7, <1>8, <1>9, <1>10, <1>11, <1>12, <1>13,
     <1>14, <1>15 DEF Settings!Next

LEMMA BaselineStep ==
  ASSUME MaxEdits \in Nat, PanelTyped, OneSave, BaseInv, [Settings!Next]_Settings!vars
  PROVE  BaseInv'
<1>1. CASE Settings!OpenPanel
  BY ZenonT(30), <1>1
     DEF Settings!OpenPanel, Settings!Fetch, Settings!Panel, Settings!Closed,
     Settings!appVars, Settings!netVars, Settings!bounds, Settings!history, BaseInv, Honest,
     PanelTyped, PanelState, CacheState, PostRequest, GetRequest, Document, Settings!Typed,
     OneSave, Settings!Closed
<1>2. ASSUME NEW ok \in BOOLEAN, Settings!EditGateway(ok) PROVE BaseInv'
  BY <1>2
     DEF Settings!EditGateway, Settings!Calm, Settings!appVars, Settings!netVars,
     Settings!bounds, Settings!history, BaseInv, Honest, PanelTyped, PanelState, CacheState,
     PostRequest, GetRequest, Document, Settings!Typed, OneSave, Settings!Closed
<1>3. CASE Settings!EditInterface
  BY <1>3
     DEF Settings!EditInterface, Settings!Calm, Settings!appVars, Settings!netVars,
     Settings!bounds, Settings!history, BaseInv, Honest, PanelTyped, PanelState, CacheState,
     PostRequest, GetRequest, Document, Settings!Typed, OneSave, Settings!Closed
<1>4. ASSUME NEW n \in Settings!Changes, Settings!ResetValue(n) PROVE BaseInv'
  BY <1>4
     DEF Settings!ResetValue, Settings!Calm, Settings!appVars, Settings!netVars,
     Settings!bounds, Settings!history, BaseInv, Honest, PanelTyped, PanelState, CacheState,
     PostRequest, GetRequest, Document, Settings!Typed, OneSave, Settings!Closed
<1>5. ASSUME NEW written \in BOOLEAN, NEW connected \in BOOLEAN,
              Settings!SaveSettings(written, connected)
       PROVE BaseInv'
  BY <1>5
     DEF Settings!SaveSettings, Settings!Calm, Settings!Mishap, Settings!appVars,
     Settings!netVars, Settings!bounds, Settings!history, BaseInv, Honest, PanelTyped,
     PanelState, CacheState, PostRequest, GetRequest, Document, Settings!Typed, OneSave,
     Settings!Closed
<1>6. CASE Settings!ReloadSettings
  BY <1>6
     DEF Settings!ReloadSettings, Settings!Calm, Settings!Fetch, Settings!appVars,
     Settings!netVars, Settings!bounds, Settings!history, BaseInv, Honest, PanelTyped,
     PanelState, CacheState, PostRequest, GetRequest, Document, Settings!Typed, OneSave,
     Settings!Closed
<1>7. CASE Settings!ClosePanel
  BY <1>7
     DEF Settings!ClosePanel, Settings!Closed, Settings!Unsaved, Settings!appVars,
     Settings!netVars, Settings!bounds, Settings!history, BaseInv, Honest, PanelTyped,
     PanelState, CacheState, PostRequest, GetRequest, Document, Settings!Typed, OneSave,
     Settings!Closed
<1>8. CASE Settings!DropResult
  BY <1>8
     DEF Settings!DropResult, Settings!Mishap, Settings!appVars, Settings!netVars,
     Settings!bounds, Settings!history, BaseInv, Honest, PanelTyped, PanelState, CacheState,
     PostRequest, GetRequest, Document, Settings!Typed, OneSave, Settings!Closed
<1>9. CASE Settings!SettingsChanged
  BY <1>9
     DEF Settings!SettingsChanged, Settings!appVars, Settings!netVars, Settings!bounds,
     Settings!history, BaseInv, Honest, PanelTyped, PanelState, CacheState, PostRequest,
     GetRequest, Document, Settings!Typed, OneSave, Settings!Closed
<1>10. CASE Settings!OtherSaves
  BY <1>10
     DEF Settings!OtherSaves, Settings!appVars, Settings!netVars, Settings!bounds,
     Settings!history, BaseInv, Honest, PanelTyped, PanelState, CacheState, PostRequest,
     GetRequest, Document, Settings!Typed, OneSave, Settings!Closed
<1>11. ASSUME NEW g \in set_gets, Settings!SettingsFetched(g) PROVE BaseInv'
  BY <1>11
     DEF Settings!SettingsFetched, Settings!Snapshot, Settings!Applies, Settings!Unsaved,
     Settings!Panel, Settings!Closed, Settings!appVars, Settings!netVars, Settings!bounds,
     Settings!history, BaseInv, Honest, PanelTyped, PanelState, CacheState, PostRequest,
     GetRequest, Document, Settings!Typed, OneSave, Settings!Closed
<1>12. ASSUME NEW g \in set_gets, Settings!ReadDocument(g) PROVE BaseInv'
  BY <1>12
     DEF Settings!ReadDocument, Settings!appVars, Settings!netVars, Settings!bounds,
     Settings!history, BaseInv, Honest, PanelTyped, PanelState, CacheState, PostRequest,
     GetRequest, Document, Settings!Typed, OneSave, Settings!Closed
<1>13. ASSUME NEW p \in set_posts, Settings!SettingsSaved(p) PROVE BaseInv'
  <2> SUFFICES ASSUME ~set_crossed'
               PROVE  /\ Honest(set_panel.base, set_panel.gw)'
                      /\ (\A c \in set_cache : Honest(c.fingerprint, c.values))'
                      /\ set_posts' = {}
    BY DEF BaseInv
  <2>1. p \in PostRequest /\ p.answer # "none" /\ ~set_crossed /\ set_given' = set_given
    BY <1>13 DEF Settings!SettingsSaved, PanelTyped, Settings!history
  <2>2. set_posts' = {}
    BY <1>13 DEF Settings!SettingsSaved, OneSave
  <2>3. set_panel \in PanelState /\ set_cache \subseteq CacheState
    BY DEF PanelTyped
  <2>4. CASE p.answer = "conflict"
    BY <1>13, <2>1, <2>2, <2>3, <2>4 DEF Settings!SettingsSaved, BaseInv, Honest, PanelState
  <2>5. CASE p.answer # "conflict"
    <3>1. Settings!Meets(p)
      BY <1>13, <2>1, <2>5 DEF Settings!SettingsSaved
    <3>2. CASE p.answer = "refused"
      <4>1. Honest(set_panel.base, set_panel.gw)'
        BY <1>13, <2>1, <2>3, <3>1, <3>2 DEF Settings!SettingsSaved, BaseInv, Honest,
           PanelState, Settings!Meets
      <4>2. set_cache' = set_cache
        BY <1>13, <2>3, <3>1, <3>2 DEF Settings!SettingsSaved, Settings!Meets, CacheState
      <4> QED
        BY <2>1, <2>2, <4>1, <4>2 DEF BaseInv, Honest
    <3>3. CASE p.answer = "saved"
      <4>1. Honest(set_panel.base, set_panel.gw)'
        <5>1. CASE ~set_panel.open
          BY <1>13, <2>1, <5>1 DEF Settings!SettingsSaved, BaseInv, Honest
        <5>2. CASE set_panel.open
          <6>1. set_panel.base = p.base
            BY <3>1, <5>2 DEF Settings!Meets
          <6>2. set_panel'.base = p.doc /\ set_panel'.gw = set_panel.gw
            BY <1>13, <2>3, <3>3, <5>2 DEF Settings!SettingsSaved, Settings!Baseline, PanelState
          <6> QED
            BY <2>1, <6>1, <6>2 DEF BaseInv, Honest
        <5> QED
          BY <5>1, <5>2
      <4>2. ASSUME NEW c \in set_cache' PROVE Honest(c.fingerprint, c.values)'
        <5>1. set_cache # {} => set_saving = {p.doc}
          BY <3>1, <3>3 DEF Settings!Meets
        <5>2. set_saving = {p.doc} => (CHOOSE d \in set_saving : TRUE) = p.doc
          OBVIOUS
        <5>3. c = [fingerprint |-> p.doc, values |-> p.doc]
          BY <1>13, <3>3, <5>1, <5>2 DEF Settings!SettingsSaved
        <5> QED
          BY <5>3 DEF Honest
      <4> QED
        BY <2>2, <4>1, <4>2
    <3> QED
      BY <2>1, <2>5, <3>2, <3>3 DEF PostRequest
  <2> QED
    BY <2>4, <2>5
<1>14. ASSUME NEW p \in set_posts, Settings!ApplySettings(p) PROVE BaseInv'
  BY <1>14
     DEF Settings!ApplySettings, Settings!appVars, Settings!netVars, Settings!bounds,
     Settings!history, BaseInv, Honest, PanelTyped, PanelState, CacheState, PostRequest,
     GetRequest, Document, Settings!Typed, OneSave, Settings!Closed
<1>15. CASE UNCHANGED Settings!vars
  BY <1>15
     DEF Settings!vars, Settings!appVars, Settings!netVars, Settings!bounds, Settings!history,
     BaseInv, Honest, PanelTyped, PanelState, CacheState, PostRequest, GetRequest, Document,
     Settings!Typed, OneSave, Settings!Closed
<1> QED
  BY <1>1, <1>2, <1>3, <1>4, <1>5, <1>6, <1>7, <1>8, <1>9, <1>10, <1>11, <1>12, <1>13,
     <1>14, <1>15 DEF Settings!Next

LEMMA PanelStarts ==
  ASSUME Settings!Init
  PROVE  PanelTyped /\ OneSave /\ KeptInv /\ BaseInv
BY Documents DEF Settings!Init, PanelTyped, PanelState, Settings!Closed, OneSave, KeptInv, Owed,
   BaseInv, Honest

PanelInv == PanelTyped /\ OneSave /\ KeptInv /\ BaseInv
LEMMA PanelAlways ==
  ASSUME MaxEdits \in Nat
  PROVE  Settings!Spec => []PanelInv
<1>1. Settings!Init => PanelInv
  BY PanelStarts DEF PanelInv
<1>2. PanelInv /\ [Settings!Next]_Settings!vars => PanelInv'
  BY PanelTypeStep, OneSaveStep, KeptStep, BaselineStep DEF PanelInv
<1> QED
  BY <1>1, <1>2, PTL DEF Settings!Spec

\* A user who waits for the answer to a save loses nothing that was typed, whatever order
\* results come back in and whatever other clients save meanwhile (handle_settings_fetch,
\* settle_gateway_save): it is in the panel until it is stored or given up.
LEMMA TypedStaysInThePanel ==
  ASSUME MaxEdits \in Nat
  PROVE  Settings!Spec => []Settings!TypedIsKept
<1>1. PanelInv => Settings!TypedIsKept
  BY DEF PanelInv, KeptInv, Owed, Settings!TypedIsKept
<1> QED
  BY <1>1, PanelAlways, PTL

\* As long as no answer to a save has met another document than the one that was saved, no
\* save takes away what somebody else has saved (reload_gateway, mark_baseline).
LEMMA NobodysSaveIsLost ==
  ASSUME MaxEdits \in Nat
  PROVE  Settings!Spec => Settings!NoUncrossedLoss
<1>1. PanelInv /\ [Settings!Next]_Settings!vars
         => [~set_crossed => set_server \ set_server' \subseteq set_given]_Settings!vars
  <2> SUFFICES ASSUME PanelInv, [Settings!Next]_Settings!vars, ~set_crossed
               PROVE  set_server \ set_server' \subseteq set_given
    OBVIOUS
  <2>1. ASSUME NEW p \in set_posts, Settings!ApplySettings(p)
        PROVE set_server \ set_server' \subseteq set_given
    BY <2>1 DEF Settings!ApplySettings, PanelInv, BaseInv, Honest
  <2>2. CASE Settings!OtherSaves
    BY <2>2 DEF Settings!OtherSaves
  <2>3. CASE set_server' = set_server
    BY <2>3
  <2> QED
    BY <2>1, <2>2, <2>3
       DEF Settings!Next, Settings!vars, Settings!netVars, Settings!appVars,
       Settings!OpenPanel, Settings!EditInterface, Settings!ReloadSettings,
       Settings!ClosePanel, Settings!EditGateway, Settings!ResetValue, Settings!SaveSettings,
       Settings!DropResult, Settings!SettingsChanged, Settings!SettingsFetched,
       Settings!ReadDocument, Settings!SettingsSaved
<1> QED
  BY <1>1, PanelAlways, PTL DEF Settings!Spec, Settings!NoUncrossedLoss

-----------------------------------------------------------------------------
(* The settings panel: types *)

\* The interface's documents hold values the user typed, the gateway's those and the ones
\* other clients saved.
InterfaceInv ==
    /\ set_edits <= MaxEdits /\ set_panel.ui \subseteq Settings!Typed
    /\ set_config \subseteq Settings!Typed /\ set_snapshot \subseteq Settings!Typed
    /\ set_disk \subseteq Settings!Typed
GatewayInv ==
    /\ set_edits <= MaxEdits /\ set_others <= MaxOthers /\ set_server \subseteq Settings!Changes
    /\ set_panel.gw \subseteq Settings!Changes /\ set_panel.base \subseteq Settings!Changes
    /\ \A c \in set_cache : c.values \subseteq Settings!Changes /\ c.fingerprint \subseteq Settings!Changes
    /\ \A d \in set_saving : d \subseteq Settings!Changes
    /\ \A g \in set_gets : g.values \subseteq Settings!Changes
    /\ \A p \in set_posts : p.base \subseteq Settings!Changes /\ p.doc \subseteq Settings!Changes

LEMMA InterfaceStep ==
  ASSUME MaxEdits \in Nat, PanelTyped, InterfaceInv, [Settings!Next]_Settings!vars
  PROVE  InterfaceInv'
<1> USE DEF InterfaceInv, Settings!appVars, Settings!netVars, Settings!bounds, Settings!history
<1>1. set_panel \in PanelState /\ set_edits \in Nat  BY DEF PanelTyped
<1>2. CASE Settings!OpenPanel
  BY <1>1, <1>2 DEF Settings!OpenPanel, Settings!Fetch, Settings!Panel, Settings!Closed
<1>3. ASSUME NEW ok \in BOOLEAN, Settings!EditGateway(ok) PROVE InterfaceInv'
  BY <1>1, <1>3 DEF Settings!EditGateway, PanelState
<1>4. CASE Settings!EditInterface
  BY <1>1, <1>4 DEF Settings!EditInterface, PanelState, Settings!Typed
<1>5. ASSUME NEW n \in Settings!Changes, Settings!ResetValue(n) PROVE InterfaceInv'
  BY <1>1, <1>5 DEF Settings!ResetValue, PanelState
<1>6. ASSUME NEW written \in BOOLEAN, NEW connected \in BOOLEAN,
             Settings!SaveSettings(written, connected)
      PROVE  InterfaceInv'
  BY <1>1, <1>6 DEF Settings!SaveSettings, PanelState
<1>7. CASE Settings!ReloadSettings
  BY <1>1, <1>7 DEF Settings!ReloadSettings, Settings!Fetch, PanelState
<1>8. CASE Settings!ClosePanel
  BY <1>1, <1>8 DEF Settings!ClosePanel, Settings!Closed
<1>9. CASE Settings!DropResult
  BY <1>1, <1>9 DEF Settings!DropResult, Settings!Mishap
<1>10. CASE Settings!SettingsChanged
  BY <1>1, <1>10 DEF Settings!SettingsChanged, PanelState
<1>11. CASE Settings!OtherSaves
  BY <1>1, <1>11 DEF Settings!OtherSaves
<1>12. ASSUME NEW g \in set_gets, Settings!SettingsFetched(g) PROVE InterfaceInv'
  BY <1>1, <1>12 DEF Settings!SettingsFetched, Settings!Snapshot, Settings!Panel, Settings!Closed, PanelState
<1>13. ASSUME NEW g \in set_gets, Settings!ReadDocument(g) PROVE InterfaceInv'
  BY <1>1, <1>13 DEF Settings!ReadDocument
<1>14. ASSUME NEW p \in set_posts, Settings!SettingsSaved(p) PROVE InterfaceInv'
  <2>1. UNCHANGED <<set_edits, set_config, set_snapshot, set_disk>>
    BY <1>14 DEF Settings!SettingsSaved
  <2>2. p.answer \in {"saved", "refused", "conflict"}
    BY <1>14 DEF Settings!SettingsSaved, PanelTyped, PostRequest
  <2>3. set_panel'.ui = set_panel.ui
    BY <1>1, <1>14, <2>2 DEF Settings!SettingsSaved, Settings!Baseline, PanelState
  <2> QED BY <2>1, <2>3
<1>15. ASSUME NEW p \in set_posts, Settings!ApplySettings(p) PROVE InterfaceInv'
  BY <1>1, <1>15 DEF Settings!ApplySettings
<1>16. CASE UNCHANGED Settings!vars
  BY <1>16 DEF Settings!vars
<1> QED
  BY <1>2, <1>3, <1>4, <1>5, <1>6, <1>7, <1>8, <1>9, <1>10, <1>11, <1>12, <1>13, <1>14, <1>15,
     <1>16 DEF Settings!Next

LEMMA SaveGatewayStep ==
  ASSUME MaxEdits \in Nat, MaxOthers \in Nat, PanelTyped, GatewayInv, [Settings!Next]_Settings!vars
  PROVE  GatewayInv'
<1> USE DEF GatewayInv, Settings!appVars, Settings!netVars, Settings!bounds, Settings!history
<1>1. /\ set_panel \in PanelState /\ set_edits \in Nat /\ set_others \in Nat
      /\ set_cache \subseteq CacheState /\ set_gets \subseteq GetRequest /\ set_posts \subseteq PostRequest
  BY DEF PanelTyped
<1>2. CASE Settings!OpenPanel
  <2>1. /\ UNCHANGED <<set_edits, set_others, set_server, set_cache, set_saving, set_posts>>
        /\ set_gets' = set_gets \cup {[id |-> set_calls', read |-> FALSE, values |-> {}]}
    BY <1>2 DEF Settings!OpenPanel, Settings!Fetch
  <2>2. \/ UNCHANGED set_panel
        \/ \E state \in set_cache : set_panel' = Settings!Panel(state, set_disk)
    BY <1>2 DEF Settings!OpenPanel
  <2>3. \A state \in set_cache : LET q == Settings!Panel(state, set_disk) IN
                                  q.gw = state.values /\ q.base = state.fingerprint
    BY DEF Settings!Panel, Settings!Closed
  <2>4. set_panel'.gw \subseteq Settings!Changes /\ set_panel'.base \subseteq Settings!Changes
    BY <2>2, <2>3
  <2> QED BY <2>1, <2>4
<1>3. ASSUME NEW ok \in BOOLEAN, Settings!EditGateway(ok) PROVE GatewayInv'
  BY <1>1, <1>3 DEF Settings!EditGateway, PanelState, Settings!Changes, Settings!Typed
<1>4. CASE Settings!EditInterface
  BY <1>1, <1>4 DEF Settings!EditInterface, PanelState
<1>5. ASSUME NEW n \in Settings!Changes, Settings!ResetValue(n) PROVE GatewayInv'
  BY <1>1, <1>5 DEF Settings!ResetValue, PanelState
<1>6. ASSUME NEW written \in BOOLEAN, NEW connected \in BOOLEAN,
             Settings!SaveSettings(written, connected)
      PROVE  GatewayInv'
  BY <1>1, <1>6 DEF Settings!SaveSettings, PanelState
<1>7. CASE Settings!ReloadSettings
  BY <1>1, <1>7 DEF Settings!ReloadSettings, Settings!Fetch, PanelState
<1>8. CASE Settings!ClosePanel
  BY <1>1, <1>8 DEF Settings!ClosePanel, Settings!Closed
<1>9. CASE Settings!DropResult
  BY <1>1, <1>9 DEF Settings!DropResult, Settings!Mishap
<1>10. CASE Settings!SettingsChanged
  BY <1>1, <1>10 DEF Settings!SettingsChanged, PanelState
<1>11. CASE Settings!OtherSaves
  BY <1>1, <1>11 DEF Settings!OtherSaves, Settings!Changes, Settings!Foreign
<1>12. ASSUME NEW g \in set_gets, Settings!SettingsFetched(g) PROVE GatewayInv'
  BY <1>1, <1>12 DEF Settings!SettingsFetched, Settings!Snapshot, Settings!Panel, Settings!Closed, PanelState
<1>13. ASSUME NEW g \in set_gets, Settings!ReadDocument(g) PROVE GatewayInv'
  BY <1>1, <1>13 DEF Settings!ReadDocument, GetRequest
<1>14. ASSUME NEW p \in set_posts, Settings!SettingsSaved(p) PROVE GatewayInv'
  BY <1>1, <1>14 DEF Settings!SettingsSaved, Settings!Baseline, PanelState, PostRequest, CacheState
<1>15. ASSUME NEW p \in set_posts, Settings!ApplySettings(p) PROVE GatewayInv'
  BY <1>1, <1>15 DEF Settings!ApplySettings, PostRequest
<1>16. CASE UNCHANGED Settings!vars
  BY <1>16 DEF Settings!vars
<1> QED
  BY <1>2, <1>3, <1>4, <1>5, <1>6, <1>7, <1>8, <1>9, <1>10, <1>11, <1>12, <1>13, <1>14, <1>15,
     <1>16 DEF Settings!Next

\* The types of the panel, for any number of edits and other clients' changes.
LEMMA SettingsTypes ==
  ASSUME MaxEdits \in Nat, MaxOthers \in Nat
  PROVE  Settings!Spec => []Settings!TypeOK
<1> DEFINE Ranges == InterfaceInv /\ GatewayInv /\ set_crossed \in BOOLEAN
<1>1. Settings!Init => Ranges
  <2> SUFFICES ASSUME Settings!Init PROVE Ranges  OBVIOUS
  <2>1. InterfaceInv  BY DEF Settings!Init, Settings!Closed, InterfaceInv
  <2>2. GatewayInv  BY DEF Settings!Init, Settings!Closed, GatewayInv
  <2>3. set_crossed \in BOOLEAN  BY DEF Settings!Init
  <2> QED BY <2>1, <2>2, <2>3
<1>2. set_crossed \in BOOLEAN /\ [Settings!Next]_Settings!vars => set_crossed' \in BOOLEAN
  BY DEF Settings!Next, Settings!vars, Settings!history, Settings!OpenPanel, Settings!EditGateway,
     Settings!EditInterface, Settings!ResetValue, Settings!SaveSettings, Settings!ReloadSettings,
     Settings!ClosePanel, Settings!DropResult, Settings!SettingsChanged, Settings!OtherSaves,
     Settings!SettingsFetched, Settings!ReadDocument, Settings!SettingsSaved, Settings!ApplySettings
<1>3. PanelInv /\ Ranges /\ [Settings!Next]_Settings!vars => Ranges'
  BY <1>2, InterfaceStep, SaveGatewayStep DEF PanelInv
<1>4. PanelInv /\ Ranges => Settings!TypeOK
  <2> SUFFICES ASSUME PanelInv, Ranges PROVE Settings!TypeOK  OBVIOUS
  <2>1. /\ set_panel.open \in BOOLEAN /\ {set_panel.dirty, set_panel.uiDirty, set_panel.stale} \subseteq BOOLEAN
        /\ ~set_panel.open => set_panel = Settings!Closed
        /\ {set_opening, set_reloading, set_crossed} \subseteq BOOLEAN
    BY DEF PanelInv, PanelTyped, PanelState
  <2>2. \A p \in set_posts : p.answer \in {"none", "saved", "refused", "conflict"}
    BY DEF PanelInv, PanelTyped, PostRequest
  <2> QED BY <2>1, <2>2 DEF InterfaceInv, GatewayInv, Settings!TypeOK
<1> HIDE DEF Ranges
<1> QED BY <1>1, <1>3, <1>4, PanelAlways, PTL DEF Settings!Spec

-----------------------------------------------------------------------------
(* The event stream: the invariants *)

Frame == [event : Nat, index : Nat]
FramesTyped ==
    /\ frm_count \in Seq(Nat) /\ frm_sent \in Seq(Nat) /\ frm_got \in Seq(Nat)
    /\ Len(frm_sent) = Len(frm_count) /\ Len(frm_got) = Len(frm_count)
    /\ frm_wire \in Seq(Frame)
    /\ frm_buffered \in Seq(Nat) /\ frm_delivered \in Seq(Nat)
    /\ frm_pending \subseteq [event : Nat, next : Nat, bytes : Nat]

\* The frames of an event are on the wire in their order, from the first one that is not
\* read to the last one that is sent; and no event begins before an earlier one.
WireInv ==
    /\ \A e \in Frames!Events : frm_got[e] <= frm_sent[e] /\ frm_sent[e] <= frm_count[e]
    /\ \A j \in DOMAIN frm_wire : /\ frm_wire[j].event \in Frames!Events
                                  /\ frm_got[frm_wire[j].event] <= frm_wire[j].index
                                  /\ frm_wire[j].index < frm_sent[frm_wire[j].event]
    /\ \A i, j \in DOMAIN frm_wire :
          i < j /\ frm_wire[i].event = frm_wire[j].event => frm_wire[i].index < frm_wire[j].index
    /\ \A j \in DOMAIN frm_wire :
          frm_wire[j].index > frm_got[frm_wire[j].event] =>
              \E i \in DOMAIN frm_wire :
                  i < j /\ frm_wire[i].event = frm_wire[j].event /\ frm_wire[i].index + 1 = frm_wire[j].index
    /\ \A e \in Frames!Events : \A k \in Nat :
          frm_got[e] <= k /\ k < frm_sent[e] =>
              \E j \in DOMAIN frm_wire : frm_wire[j].event = e /\ frm_wire[j].index = k
    /\ \A j \in DOMAIN frm_wire : \A d \in Frames!Events :
          d < frm_wire[j].event /\ frm_got[d] = 0 =>
              \E i \in DOMAIN frm_wire : i < j /\ frm_wire[i].event = d

\* Where the events are: the first Len(delivered) are with the application, the next one
\* may be open, those behind it are held back.
Held == Len(frm_delivered) + Len(Frames!Opened)
StreamInv ==
    /\ \A i \in DOMAIN frm_delivered : i \in Frames!Events /\ frm_delivered[i] = i /\ frm_got[i] = frm_count[i]
    /\ \A p, q \in frm_pending : p = q
    /\ frm_buffered_bytes = Len(frm_buffered) /\ (frm_buffered # <<>> => frm_pending # {})
    /\ \A p \in frm_pending : p.bytes + Len(frm_buffered) <= Limit
    /\ Frames!Open =>
        /\ \A p \in frm_pending : /\ p.event = Len(frm_delivered) + 1 /\ p.event \in Frames!Events
                                  /\ p.next = frm_got[p.event] /\ p.bytes = p.next
                                  /\ p.next > 0 /\ p.next < frm_count[p.event]
        /\ \A i \in DOMAIN frm_buffered : /\ Held + i \in Frames!Events /\ frm_buffered[i] = Held + i
                                          /\ frm_count[Held + i] = 1 /\ frm_got[Held + i] = 1
        /\ \A e \in Frames!Events : frm_got[e] > 0 <=> e <= Held + Len(frm_buffered)

FramesInv == FramesTyped /\ WireInv /\ StreamInv /\ Frames!BrokenForCause

-----------------------------------------------------------------------------
(* The event stream: sequences *)

LEMMA HeadTail ==
  ASSUME NEW S, NEW s \in Seq(S), s # <<>>
  PROVE  /\ Len(s) > 0 /\ Head(s) = s[1] /\ Head(s) \in S
         /\ Tail(s) \in Seq(S) /\ Len(Tail(s)) = Len(s) - 1
         /\ \A j \in DOMAIN Tail(s) : j + 1 \in DOMAIN s /\ Tail(s)[j] = s[j + 1]
         /\ \A j \in DOMAIN s : j > 1 => j - 1 \in DOMAIN Tail(s)
OBVIOUS

LEMMA Appended ==
  ASSUME NEW S, NEW s \in Seq(S), NEW x \in S
  PROVE  /\ Append(s, x) \in Seq(S) /\ Len(Append(s, x)) = Len(s) + 1
         /\ Append(s, x)[Len(s) + 1] = x
         /\ \A j \in DOMAIN s : j \in DOMAIN Append(s, x) /\ Append(s, x)[j] = s[j]
OBVIOUS

LEMMA Counted ==
  ASSUME NEW s \in Seq(Nat), NEW e \in 1..Len(s)
  PROVE  LET t == [s EXCEPT ![e] = @ + 1] IN
         /\ t \in Seq(Nat) /\ Len(t) = Len(s) /\ t[e] = s[e] + 1
         /\ \A d \in 1..Len(s) : d # e => t[d] = s[d]
<1> DEFINE t == [s EXCEPT ![e] = @ + 1]
<1>1. s \in [1..Len(s) -> Nat] /\ Len(s) \in Nat
  OBVIOUS
<1>2. t \in [1..Len(s) -> Nat]
  BY <1>1
<1>3. t \in Seq(Nat) /\ Len(t) = Len(s)
  BY <1>1, <1>2
<1> QED
  BY <1>1, <1>3

LEMMA Joined ==
  ASSUME NEW s \in Seq(Nat), NEW x \in Nat, NEW t \in Seq(Nat)
  PROVE  LET u == s \o <<x>> \o t IN
         /\ u \in Seq(Nat) /\ Len(u) = Len(s) + 1 + Len(t)
         /\ \A i \in 1..Len(s) : u[i] = s[i]
         /\ u[Len(s) + 1] = x
         /\ \A i \in 1..Len(t) : u[Len(s) + 1 + i] = t[i]
OBVIOUS

LEMMA Grown ==
  ASSUME NEW p \in [event : Nat, next : Nat, bytes : Nat]
  PROVE  LET r == [p EXCEPT !.next = @ + 1, !.bytes = @ + 1] IN
         r.event = p.event /\ r.next = p.next + 1 /\ r.bytes = p.bytes + 1
OBVIOUS

-----------------------------------------------------------------------------
(* The event stream: steps *)

\* What reading a frame does besides its event: the frame is the next one of its event.
LEMMA FrameRead ==
  ASSUME FramesTyped, WireInv, Frames!ReadFrame
  PROVE  LET frame == Head(frm_wire) IN
         /\ frame \in Frame /\ frame.event \in Frames!Events /\ frame.index = frm_got[frame.event]
         /\ frame.index < frm_sent[frame.event] /\ frame.index < frm_count[frame.event]
         /\ \A d \in Frames!Events : d < frame.event => frm_got[d] > 0
         /\ frm_got' \in Seq(Nat) /\ Len(frm_got') = Len(frm_got)
         /\ frm_got'[frame.event] = frm_got[frame.event] + 1
         /\ \A d \in Frames!Events : d # frame.event => frm_got'[d] = frm_got[d]
         /\ frm_wire' \in Seq(Frame) /\ UNCHANGED <<frm_count, frm_sent>>
<1> DEFINE frame == Head(frm_wire)
<1>1. frm_wire # <<>> /\ frm_wire' = Tail(frm_wire) /\ frm_got' = [frm_got EXCEPT ![frame.event] = @ + 1]
      /\ UNCHANGED <<frm_count, frm_sent>>
  BY DEF Frames!ReadFrame, Frames!gateway
<1>2. /\ frame = frm_wire[1] /\ frame \in Frame /\ 1 \in DOMAIN frm_wire /\ frm_wire' \in Seq(Frame)
  BY <1>1, HeadTail DEF FramesTyped
<1>3. /\ frame.event \in Frames!Events /\ frame.event \in Nat /\ frame.index \in Nat
      /\ frm_got[frame.event] <= frame.index /\ frame.index < frm_sent[frame.event]
      /\ frm_sent[frame.event] <= frm_count[frame.event]
  BY <1>2 DEF WireInv, Frame
<1>4. DOMAIN frm_wire = 1..Len(frm_wire) /\ Len(frm_wire) \in Nat
  BY DEF FramesTyped
<1>5. ~(frame.index > frm_got[frame.event])
  BY <1>2, <1>4 DEF WireInv
<1>6. \A d \in Frames!Events : frm_got[d] \in Nat /\ frm_sent[d] \in Nat /\ frm_count[d] \in Nat
  BY SMTT(30) DEF FramesTyped, Frames!Events
<1>7. frame.index = frm_got[frame.event]
  BY <1>3, <1>5, <1>6
<1>8. \A d \in Frames!Events : d < frame.event => frm_got[d] > 0
  BY <1>2, <1>4, <1>6 DEF WireInv
<1>9. /\ frm_got' \in Seq(Nat) /\ Len(frm_got') = Len(frm_got)
      /\ frm_got'[frame.event] = frm_got[frame.event] + 1
      /\ \A d \in Frames!Events : d # frame.event => frm_got'[d] = frm_got[d]
  BY SMTT(30), <1>1, <1>3, Counted DEF FramesTyped, Frames!Events
<1> QED
  BY <1>1, <1>2, <1>3, <1>6, <1>7, <1>8, <1>9

LEMMA StreamWireStep ==
  ASSUME MaxCount \in Nat, FramesTyped, WireInv, [Frames!Next]_Frames!vars
  PROVE  WireInv'
<1>0. /\ \A d \in Frames!Events : frm_got[d] \in Nat /\ frm_sent[d] \in Nat /\ frm_count[d] \in Nat
      /\ DOMAIN frm_wire = 1..Len(frm_wire) /\ Len(frm_wire) \in Nat
      /\ \A j \in DOMAIN frm_wire : frm_wire[j].event \in Nat /\ frm_wire[j].index \in Nat
  <2>1. \A d \in Frames!Events : frm_got[d] \in Nat /\ frm_sent[d] \in Nat /\ frm_count[d] \in Nat
    BY SMTT(30) DEF FramesTyped, Frames!Events
  <2>2. DOMAIN frm_wire = 1..Len(frm_wire) /\ Len(frm_wire) \in Nat /\ \A j \in DOMAIN frm_wire : frm_wire[j] \in Frame
    BY DEF FramesTyped
  <2> QED
    BY <2>1, <2>2 DEF Frame
<1>1. ASSUME NEW n \in 1..MaxCount, Frames!Emit(n) PROVE WireInv'
  <2>1. /\ Frames!Events' = Frames!Events \cup {Len(frm_count) + 1} /\ Len(frm_count) + 1 \notin Frames!Events
        /\ frm_count'[Len(frm_count) + 1] = n /\ frm_got'[Len(frm_count) + 1] = 0
        /\ frm_sent'[Len(frm_count) + 1] = 0 /\ frm_wire' = frm_wire
        /\ \A d \in Frames!Events : frm_count'[d] = frm_count[d] /\ frm_sent'[d] = frm_sent[d] /\ frm_got'[d] = frm_got[d]
    <3>1. /\ frm_count' = Append(frm_count, n) /\ frm_sent' = Append(frm_sent, 0) /\ frm_got' = Append(frm_got, 0)
          /\ frm_wire' = frm_wire /\ n \in Nat /\ 0 \in Nat
      BY <1>1 DEF Frames!Emit
    <3>2. /\ Len(frm_count') = Len(frm_count) + 1 /\ frm_count'[Len(frm_count) + 1] = n
          /\ \A d \in DOMAIN frm_count : frm_count'[d] = frm_count[d]
      BY <3>1, Appended DEF FramesTyped
    <3>3. /\ frm_sent'[Len(frm_sent) + 1] = 0 /\ \A d \in DOMAIN frm_sent : frm_sent'[d] = frm_sent[d]
      BY SMTT(30), <3>1, Appended DEF FramesTyped
    <3>4. /\ frm_got'[Len(frm_got) + 1] = 0 /\ \A d \in DOMAIN frm_got : frm_got'[d] = frm_got[d]
      BY SMTT(30), <3>1, Appended DEF FramesTyped
    <3>5. /\ Len(frm_count) \in Nat /\ Len(frm_sent) = Len(frm_count) /\ Len(frm_got) = Len(frm_count)
          /\ DOMAIN frm_count = Frames!Events /\ DOMAIN frm_sent = Frames!Events /\ DOMAIN frm_got = Frames!Events
      BY DEF FramesTyped, Frames!Events
    <3>6. Frames!Events' = Frames!Events \cup {Len(frm_count) + 1} /\ Len(frm_count) + 1 \notin Frames!Events
      BY <3>2, <3>5 DEF Frames!Events
    <3> QED
      BY <3>1, <3>2, <3>3, <3>4, <3>5, <3>6
  <2>2. \A j \in DOMAIN frm_wire : frm_wire[j].event \in Frames!Events
    BY DEF WireInv
  <2>3. \A j \in DOMAIN frm_wire : frm_wire[j].event < Len(frm_count) + 1
    BY <2>2 DEF Frames!Events, FramesTyped
  <2>4. \A d \in Frames!Events' : frm_got'[d] <= frm_sent'[d] /\ frm_sent'[d] <= frm_count'[d]
    BY <1>0, <2>1 DEF WireInv
  <2>5. \A j \in DOMAIN frm_wire' : /\ frm_wire'[j].event \in Frames!Events /\ frm_wire'[j] = frm_wire[j]
                                    /\ frm_count'[frm_wire[j].event] = frm_count[frm_wire[j].event]
                                    /\ frm_sent'[frm_wire[j].event] = frm_sent[frm_wire[j].event]
                                    /\ frm_got'[frm_wire[j].event] = frm_got[frm_wire[j].event]
    BY <2>1, <2>2
  <2>6. \A d \in Frames!Events' : \A k \in Nat :
           frm_got'[d] <= k /\ k < frm_sent'[d] =>
               \E j \in DOMAIN frm_wire' : frm_wire'[j].event = d /\ frm_wire'[j].index = k
    <3>1. ASSUME NEW d \in Frames!Events, NEW k \in Nat, frm_got'[d] <= k, k < frm_sent'[d]
          PROVE  \E j \in DOMAIN frm_wire' : frm_wire'[j].event = d /\ frm_wire'[j].index = k
      BY <2>1, <3>1 DEF WireInv
    <3> QED
      BY <2>1, <3>1
  <2>7. \A j \in DOMAIN frm_wire' : \A d \in Frames!Events' :
           d < frm_wire'[j].event /\ frm_got'[d] = 0 =>
               \E i \in DOMAIN frm_wire' : i < j /\ frm_wire'[i].event = d
    <3>1. ASSUME NEW j \in DOMAIN frm_wire, NEW d \in Frames!Events', d < frm_wire[j].event, frm_got'[d] = 0
          PROVE  d \in Frames!Events /\ frm_got[d] = 0
      <4>1. frm_wire[j].event < Len(frm_count) + 1 /\ frm_wire[j].event \in Nat /\ Len(frm_count) \in Nat
        BY <1>0, <2>3, <3>1 DEF FramesTyped
      <4>2. d # Len(frm_count) + 1
        BY <3>1, <4>1
      <4> QED
        BY <2>1, <3>1, <4>2
    <3> QED
      BY <2>1, <3>1 DEF WireInv
  <2>8. /\ \A j \in DOMAIN frm_wire' : /\ frm_wire'[j].event \in Frames!Events'
                                       /\ frm_got'[frm_wire'[j].event] <= frm_wire'[j].index
                                       /\ frm_wire'[j].index < frm_sent'[frm_wire'[j].event]
        /\ \A j \in DOMAIN frm_wire' :
              frm_wire'[j].index > frm_got'[frm_wire'[j].event] =>
                  \E i \in DOMAIN frm_wire' : /\ i < j /\ frm_wire'[i].event = frm_wire'[j].event
                                              /\ frm_wire'[i].index + 1 = frm_wire'[j].index
    BY <2>1, <2>5 DEF WireInv
  <2>9. \A i, j \in DOMAIN frm_wire' :
           i < j /\ frm_wire'[i].event = frm_wire'[j].event => frm_wire'[i].index < frm_wire'[j].index
    BY <2>1 DEF WireInv
  <2> QED
    BY <2>4, <2>6, <2>7, <2>8, <2>9 DEF WireInv
<1>2. ASSUME NEW e \in Frames!Events, Frames!SendFrame(e) PROVE WireInv'
  <2> DEFINE new == [event |-> e, index |-> frm_sent[e]]
  <2>1. /\ frm_sent'[e] = frm_sent[e] + 1 /\ \A d \in Frames!Events : d # e => frm_sent'[d] = frm_sent[d]
    BY <1>2, Counted DEF Frames!SendFrame, FramesTyped, Frames!Events
  <2>2. UNCHANGED <<frm_count, frm_got>> /\ Frames!Events' = Frames!Events /\ frm_sent[e] < frm_count[e]
        /\ \A d \in Frames!Events : d < e => frm_sent[d] > 0
    BY <1>2 DEF Frames!SendFrame, Frames!Events, FramesTyped
  <2>3. new \in Frame
    BY SMTT(30), <1>0 DEF Frame, Frames!Events, FramesTyped
  <2>4. /\ DOMAIN frm_wire' = DOMAIN frm_wire \cup {Len(frm_wire) + 1} /\ frm_wire'[Len(frm_wire) + 1] = new
        /\ \A j \in DOMAIN frm_wire : frm_wire'[j] = frm_wire[j] /\ j < Len(frm_wire) + 1
    BY <1>2, <2>3, Appended DEF Frames!SendFrame, FramesTyped
  <2>5. /\ \A d \in Frames!Events : frm_got[d] <= frm_sent'[d] /\ frm_sent'[d] <= frm_count[d]
        /\ \A j \in DOMAIN frm_wire' : /\ frm_wire'[j].event \in Frames!Events
                                       /\ frm_got[frm_wire'[j].event] <= frm_wire'[j].index
                                       /\ frm_wire'[j].index < frm_sent'[frm_wire'[j].event]
    <3>1. \A d \in Frames!Events : frm_got[d] <= frm_sent'[d] /\ frm_sent'[d] <= frm_count[d]
      BY SMTT(30), <1>0, <2>1, <2>2 DEF WireInv
    <3>2. \A j \in DOMAIN frm_wire : /\ frm_wire[j].event \in Frames!Events
                                /\ frm_got[frm_wire[j].event] <= frm_wire[j].index
                                /\ frm_wire[j].index < frm_sent'[frm_wire[j].event]
      <4>1. \A d \in Frames!Events : frm_sent'[d] \in Nat /\ frm_sent[d] <= frm_sent'[d]
        BY <1>0, <2>1
      <4> QED
        BY <1>0, <4>1 DEF WireInv
    <3>3. new.event \in Frames!Events /\ frm_got[new.event] <= new.index /\ new.index < frm_sent'[new.event]
      BY <1>0, <2>1, <2>2 DEF WireInv
    <3> QED
      BY <2>4, <3>1, <3>2, <3>3
  <2>6. \A i, j \in DOMAIN frm_wire' :
           i < j /\ frm_wire'[i].event = frm_wire'[j].event => frm_wire'[i].index < frm_wire'[j].index
    BY <1>0, <2>4 DEF WireInv
  <2>7. \A j \in DOMAIN frm_wire' :
          frm_wire'[j].index > frm_got[frm_wire'[j].event] =>
              \E i \in DOMAIN frm_wire' :
                  i < j /\ frm_wire'[i].event = frm_wire'[j].event /\ frm_wire'[i].index + 1 = frm_wire'[j].index
    <3>1. ASSUME frm_sent[e] > frm_got[e]
          PROVE  \E i \in DOMAIN frm_wire : frm_wire[i].event = e /\ frm_wire[i].index + 1 = frm_sent[e]
      <4>1. frm_sent[e] - 1 \in Nat /\ frm_got[e] <= frm_sent[e] - 1 /\ frm_sent[e] - 1 < frm_sent[e]
        BY <1>0, <3>1
      <4>2. PICK i \in DOMAIN frm_wire : frm_wire[i].event = e /\ frm_wire[i].index = frm_sent[e] - 1
        BY <4>1 DEF WireInv
      <4> QED
        BY <1>0, <4>2
    <3>2. ASSUME NEW j \in DOMAIN frm_wire, frm_wire[j].index > frm_got[frm_wire[j].event]
          PROVE  \E i \in DOMAIN frm_wire : i < j /\ frm_wire[i].event = frm_wire[j].event
                                      /\ frm_wire[i].index + 1 = frm_wire[j].index
      BY <3>2 DEF WireInv
    <3>3. new.event = e /\ new.index = frm_sent[e]
      OBVIOUS
    <3> SUFFICES ASSUME NEW j \in DOMAIN frm_wire', frm_wire'[j].index > frm_got[frm_wire'[j].event]
                 PROVE  \E i \in DOMAIN frm_wire' : i < j /\ frm_wire'[i].event = frm_wire'[j].event
                                              /\ frm_wire'[i].index + 1 = frm_wire'[j].index
      OBVIOUS
    <3>4. CASE j \in DOMAIN frm_wire
      BY <2>4, <3>2, <3>4
    <3>5. CASE j = Len(frm_wire) + 1
      BY <1>0, <2>4, <3>1, <3>3, <3>5
    <3> QED
      BY <2>4, <3>4, <3>5
  <2>8. \A d \in Frames!Events : \A k \in Nat :
          frm_got[d] <= k /\ k < frm_sent'[d] =>
              \E j \in DOMAIN frm_wire' : frm_wire'[j].event = d /\ frm_wire'[j].index = k
    <3> SUFFICES ASSUME NEW d \in Frames!Events, NEW k \in Nat, frm_got[d] <= k, k < frm_sent'[d]
                 PROVE  \E j \in DOMAIN frm_wire' : frm_wire'[j].event = d /\ frm_wire'[j].index = k
      OBVIOUS
    <3>1. CASE d = e /\ k = frm_sent[e]
      BY <2>4, <3>1
    <3>2. CASE ~(d = e /\ k = frm_sent[e])
      <4>1. k < frm_sent[d]
        BY <1>0, <2>1, <3>2
      <4> QED
        BY <2>4, <4>1 DEF WireInv
    <3> QED
      BY <3>1, <3>2
  <2>9. \A j \in DOMAIN frm_wire' : \A d \in Frames!Events :
          d < frm_wire'[j].event /\ frm_got[d] = 0 => \E i \in DOMAIN frm_wire' : i < j /\ frm_wire'[i].event = d
    <3>1. ASSUME NEW d \in Frames!Events, d < e, frm_got[d] = 0
          PROVE  \E i \in DOMAIN frm_wire : frm_wire[i].event = d
      <4>1. 0 \in Nat /\ frm_got[d] <= 0 /\ 0 < frm_sent[d]
        BY <1>0, <2>2, <3>1
      <4> QED
        BY <4>1 DEF WireInv
    <3> QED
      BY SMTT(30), <1>0, <2>4, <3>1 DEF WireInv
  <2> QED
    BY <2>2, <2>5, <2>6, <2>7, <2>8, <2>9 DEF WireInv
<1>3. CASE Frames!ReadFrame
  <2> DEFINE frame == Head(frm_wire)
             e == frame.event
  <2>1. /\ e \in Frames!Events /\ frame.index = frm_got[e] /\ frm_got'[e] = frm_got[e] + 1
        /\ frame.index < frm_sent[e]
        /\ \A d \in Frames!Events : d # e => frm_got'[d] = frm_got[d]
        /\ UNCHANGED <<frm_count, frm_sent>> /\ Frames!Events' = Frames!Events
    BY <1>3, FrameRead DEF Frames!Events
  <2>2. frm_wire # <<>> /\ frm_wire' = Tail(frm_wire)
    BY <1>3 DEF Frames!ReadFrame
  <2>3. /\ frame = frm_wire[1] /\ 1 \in DOMAIN frm_wire
        /\ \A j \in DOMAIN frm_wire' : j + 1 \in DOMAIN frm_wire /\ frm_wire'[j] = frm_wire[j + 1]
        /\ \A j \in DOMAIN frm_wire : j > 1 => j - 1 \in DOMAIN frm_wire' /\ frm_wire'[j - 1] = frm_wire[j]
        /\ DOMAIN frm_wire' \subseteq Nat \ {0}
    <3>1. /\ frame = frm_wire[1] /\ 1 \in DOMAIN frm_wire /\ frm_wire' \in Seq(Frame)
          /\ \A j \in DOMAIN frm_wire' : j + 1 \in DOMAIN frm_wire /\ frm_wire'[j] = frm_wire[j + 1]
          /\ \A j \in DOMAIN frm_wire : j > 1 => j - 1 \in DOMAIN frm_wire'
      BY <2>2, HeadTail DEF FramesTyped
    <3>2. \A j \in DOMAIN frm_wire : j > 1 => frm_wire'[j - 1] = frm_wire[j]
      BY <1>0, <3>1
    <3> QED
      BY <3>1, <3>2
  <2>4. /\ \A d \in Frames!Events : frm_got'[d] <= frm_sent[d] /\ frm_sent[d] <= frm_count[d]
        /\ \A j \in DOMAIN frm_wire' : /\ frm_wire'[j].event \in Frames!Events
                                       /\ frm_got'[frm_wire'[j].event] <= frm_wire'[j].index
                                       /\ frm_wire'[j].index < frm_sent[frm_wire'[j].event]
    <3>1. \A d \in Frames!Events : frm_got'[d] <= frm_sent[d] /\ frm_sent[d] <= frm_count[d]
      BY <1>0, <2>1 DEF WireInv
    <3>2. ASSUME NEW j \in DOMAIN frm_wire'
          PROVE  /\ frm_wire'[j].event \in Frames!Events
                 /\ frm_got'[frm_wire'[j].event] <= frm_wire'[j].index
                 /\ frm_wire'[j].index < frm_sent[frm_wire'[j].event]
      <4>1. j + 1 \in DOMAIN frm_wire /\ frm_wire'[j] = frm_wire[j + 1] /\ 1 < j + 1
        BY <2>3
      <4>2. frm_wire[j + 1].event = e => frm_wire[1].index < frm_wire[j + 1].index
        BY <2>3, <4>1 DEF WireInv
      <4>3. /\ frm_wire[j + 1].event \in Frames!Events
            /\ frm_got[frm_wire[j + 1].event] <= frm_wire[j + 1].index
            /\ frm_wire[j + 1].index < frm_sent[frm_wire[j + 1].event]
        BY <4>1 DEF WireInv
      <4>4. CASE frm_wire[j + 1].event = e
        BY <1>0, <2>1, <2>3, <4>1, <4>2, <4>3, <4>4
      <4>5. CASE frm_wire[j + 1].event # e
        BY <2>1, <4>1, <4>3, <4>5
      <4> QED
        BY <4>4, <4>5
    <3> QED
      BY <3>1, <3>2
  <2>5. \A i, j \in DOMAIN frm_wire' :
           i < j /\ frm_wire'[i].event = frm_wire'[j].event => frm_wire'[i].index < frm_wire'[j].index
    BY <2>3 DEF WireInv
  <2>6. ASSUME NEW j \in DOMAIN frm_wire', frm_wire'[j].index > frm_got'[frm_wire'[j].event]
        PROVE  \E i \in DOMAIN frm_wire' :
                  i < j /\ frm_wire'[i].event = frm_wire'[j].event /\ frm_wire'[i].index + 1 = frm_wire'[j].index
    <3>1. j + 1 \in DOMAIN frm_wire /\ frm_wire'[j] = frm_wire[j + 1] /\ j \in Nat
      BY <2>3
    <3>2. frm_wire[j + 1].event \in Frames!Events /\ frm_wire[j + 1].index > frm_got[frm_wire[j + 1].event]
      BY SMTT(30), <1>0, <2>1, <2>6, <3>1 DEF WireInv
    <3>3. PICK i \in DOMAIN frm_wire : /\ i < j + 1 /\ frm_wire[i].event = frm_wire[j + 1].event
                                       /\ frm_wire[i].index + 1 = frm_wire[j + 1].index
      BY <3>1, <3>2 DEF WireInv
    <3>4. i # 1
      BY <1>0, <2>1, <2>3, <2>6, <3>1, <3>3
    <3>5. i > 1 /\ i - 1 < j /\ i - 1 \in DOMAIN frm_wire' /\ frm_wire'[i - 1] = frm_wire[i]
      BY <1>0, <2>3, <3>1, <3>3, <3>4
    <3> QED
      BY <3>1, <3>3, <3>5
  <2>7. ASSUME NEW d \in Frames!Events, NEW k \in Nat, frm_got'[d] <= k, k < frm_sent[d]
        PROVE  \E j \in DOMAIN frm_wire' : frm_wire'[j].event = d /\ frm_wire'[j].index = k
    <3>1. frm_got[d] <= k
      BY <1>0, <2>1, <2>7
    <3>2. PICK j \in DOMAIN frm_wire : frm_wire[j].event = d /\ frm_wire[j].index = k
      BY <2>7, <3>1 DEF WireInv
    <3>3. j # 1
      BY <1>0, <2>1, <2>3, <2>7, <3>2
    <3>4. j > 1
      BY <1>0, <3>3
    <3> QED
      BY <2>3, <3>2, <3>4
  <2>8. ASSUME NEW j \in DOMAIN frm_wire', NEW d \in Frames!Events, d < frm_wire'[j].event, frm_got'[d] = 0
        PROVE  \E i \in DOMAIN frm_wire' : i < j /\ frm_wire'[i].event = d
    <3>1. j + 1 \in DOMAIN frm_wire /\ frm_wire'[j] = frm_wire[j + 1] /\ j \in Nat
      BY <2>3
    <3>2. frm_got[d] = 0 /\ d # e
      BY <1>0, <2>1, <2>8
    <3>3. PICK i \in DOMAIN frm_wire : i < j + 1 /\ frm_wire[i].event = d
      BY <2>8, <3>1, <3>2 DEF WireInv
    <3>4. i > 1 /\ i - 1 < j
      BY <1>0, <2>3, <3>1, <3>2, <3>3
    <3> QED
      BY <2>3, <3>3, <3>4
  <2> QED
    BY <2>1, <2>4, <2>5, <2>6, <2>7, <2>8 DEF WireInv
<1>4. CASE Frames!ReadTaskEnds
  BY <1>4 DEF Frames!ReadTaskEnds, Frames!gateway, WireInv, Frames!Events
<1>5. CASE UNCHANGED Frames!vars
  BY <1>5 DEF Frames!vars, Frames!gateway, WireInv, Frames!Events
<1> QED
  BY <1>1, <1>2, <1>3, <1>4, <1>5 DEF Frames!Next

LEMMA NatElements ==
  ASSUME FramesTyped
  PROVE  \A d \in Frames!Events : d \in Nat /\ frm_count[d] \in Nat /\ frm_got[d] \in Nat /\ frm_sent[d] \in Nat
<1> SUFFICES ASSUME NEW d \in Frames!Events
             PROVE  d \in Nat /\ frm_count[d] \in Nat /\ frm_got[d] \in Nat /\ frm_sent[d] \in Nat
  OBVIOUS
<1>1. d \in 1..Len(frm_count) /\ d \in 1..Len(frm_got) /\ d \in 1..Len(frm_sent) /\ d \in Nat
  BY DEF Frames!Events, FramesTyped
<1> QED
  BY SMTT(30), <1>1 DEF FramesTyped

LEMMA HeldIs ==
  ASSUME FramesTyped
  PROVE  /\ Len(frm_delivered) \in Nat /\ Len(frm_buffered) \in Nat /\ Held \in Nat
         /\ frm_pending = {} => Held = Len(frm_delivered)
         /\ frm_pending # {} => Held = Len(frm_delivered) + 1
BY DEF FramesTyped, Held, Frames!Opened

\* What a frame finds: its event is open, or it is the first one of the next event.
LEMMA FrameFinds ==
  ASSUME FramesTyped, WireInv, StreamInv, Frames!Open, Frames!ReadFrame
  PROVE  LET e == Head(frm_wire).event IN
         /\ frm_got[e] = 0 => e = Held + Len(frm_buffered) + 1
         /\ frm_got[e] # 0 => \E p \in frm_pending : p.event = e
         /\ \A i \in DOMAIN frm_delivered : i # e
         /\ \A i \in DOMAIN frm_buffered : Held + i # e
<1> DEFINE e == Head(frm_wire).event
<1>1. e \in Frames!Events /\ frm_got[e] < frm_count[e] /\ \A d \in Frames!Events : d < e => frm_got[d] > 0
  BY FrameRead
<1>2. /\ \A d \in Frames!Events : frm_got[d] \in Nat /\ frm_count[d] \in Nat
      /\ Frames!Events = 1..Len(frm_count) /\ Len(frm_count) \in Nat
      /\ DOMAIN frm_delivered = 1..Len(frm_delivered) /\ DOMAIN frm_buffered = 1..Len(frm_buffered)
  BY SMTT(30) DEF FramesTyped, Frames!Events
<1>3. \A d \in Frames!Events : frm_got[d] > 0 <=> d <= Held + Len(frm_buffered)
  BY DEF StreamInv
<1>4. \A i \in DOMAIN frm_delivered : i # e
  BY <1>1, <1>2 DEF StreamInv
<1>5. \A i \in DOMAIN frm_buffered : Held + i # e
  BY <1>1, <1>2 DEF StreamInv
<1>6. ASSUME frm_got[e] = 0 PROVE e = Held + Len(frm_buffered) + 1
  <2>1. e > Held + Len(frm_buffered)
    BY <1>1, <1>2, <1>3, <1>6, HeldIs
  <2>2. CASE e = 1
    <3>1. Held \in Nat /\ Len(frm_buffered) \in Nat
      BY HeldIs
    <3>2. 1 > Held + Len(frm_buffered)
      BY <2>1, <2>2
    <3>3. Held + Len(frm_buffered) = 0
      BY <3>1, <3>2
    <3> QED
      BY <2>2, <3>1, <3>3
  <2>3. CASE e > 1
    <3>1. e - 1 \in Frames!Events /\ e - 1 < e
      BY <1>1, <1>2, <2>3
    <3>2. e - 1 <= Held + Len(frm_buffered)
      BY <1>1, <1>3, <3>1
    <3>3. e \in Nat /\ Held \in Nat /\ Len(frm_buffered) \in Nat
      BY <1>1, <1>2, HeldIs
    <3> QED
      BY <2>1, <3>2, <3>3
  <2> QED
    BY <1>1, <1>2, <2>2, <2>3
<1>7. ASSUME frm_got[e] # 0 PROVE \E p \in frm_pending : p.event = e
  <2>1. e <= Held + Len(frm_buffered)
    BY <1>1, <1>2, <1>3, <1>7
  <2>2. e > Len(frm_delivered)
    BY <1>1, <1>2, <1>4, HeldIs
  <2>3. ~(e > Held)
    <3> SUFFICES ASSUME e > Held PROVE FALSE
      OBVIOUS
    <3>1. e - Held \in 1..Len(frm_buffered) /\ Held + (e - Held) = e
      <4>1. e \in Nat /\ Held \in Nat /\ Len(frm_buffered) \in Nat /\ e > Held
        BY <1>1, <1>2, HeldIs
      <4> QED
        BY <2>1, <4>1
    <3> QED
      BY <1>2, <1>5, <3>1
  <2>4. frm_pending # {} /\ e = Len(frm_delivered) + 1
    BY <1>1, <1>2, <2>2, <2>3, HeldIs
  <2> QED
    BY <2>4 DEF StreamInv
<1> QED
  BY <1>4, <1>5, <1>6, <1>7

LEMMA PendingIs ==
  ASSUME StreamInv, frm_pending # {}
  PROVE  LET p == CHOOSE q \in frm_pending : TRUE IN p \in frm_pending /\ frm_pending = {p}
<1> DEFINE p == CHOOSE q \in frm_pending : TRUE
<1>1. p \in frm_pending
  OBVIOUS
<1> QED
  BY <1>1 DEF StreamInv

\* The outcomes of a frame, by what becomes of the stream.
Breaks == frm_closed' = "reassembly_failed" /\ UNCHANGED <<Frames!reassembler, frm_delivered>>
Delivers == /\ frm_pending = {} /\ frm_pending' = {} /\ UNCHANGED <<frm_buffered, frm_buffered_bytes, frm_closed>>
            /\ frm_got[Head(frm_wire).event] = 0 /\ frm_count[Head(frm_wire).event] = 1
            /\ frm_delivered' = Append(frm_delivered, Head(frm_wire).event)
Opens == /\ frm_pending = {} /\ UNCHANGED <<frm_buffered, frm_buffered_bytes, frm_delivered, frm_closed>>
         /\ frm_got[Head(frm_wire).event] = 0 /\ frm_count[Head(frm_wire).event] > 1
         /\ frm_pending' = {[event |-> Head(frm_wire).event, next |-> 1, bytes |-> 1]}
HeldBack == /\ UNCHANGED <<frm_pending, frm_delivered, frm_closed>> /\ frm_pending # {}
            /\ frm_got[Head(frm_wire).event] = 0 /\ frm_count[Head(frm_wire).event] = 1
            /\ \A p \in frm_pending : p.bytes + frm_buffered_bytes + 1 <= Limit
            /\ frm_buffered' = Append(frm_buffered, Head(frm_wire).event)
            /\ frm_buffered_bytes' = frm_buffered_bytes + 1
Grows == /\ UNCHANGED <<frm_buffered, frm_buffered_bytes, frm_delivered, frm_closed>>
         /\ \E p \in frm_pending : /\ p.event = Head(frm_wire).event
                                   /\ p.next + 1 # frm_count[p.event]
                                   /\ p.bytes + frm_buffered_bytes + 1 <= Limit
                                   /\ frm_pending' = {[p EXCEPT !.next = @ + 1, !.bytes = @ + 1]}
Flushes == /\ UNCHANGED frm_closed /\ frm_pending' = {} /\ frm_buffered' = <<>>
           /\ frm_buffered_bytes' = frm_buffered_bytes - Len(frm_buffered)
           /\ \E p \in frm_pending : /\ p.event = Head(frm_wire).event /\ p.next + 1 = frm_count[p.event]
                                     /\ frm_delivered' = frm_delivered \o <<p.event>> \o frm_buffered

LEMMA FrameOutcome ==
  ASSUME Limit \in Nat \ {0}, FramesTyped, WireInv, StreamInv, Frames!Open, Frames!ReadFrame
  PROVE  \/ Breaks /\ Frames!BrokenForCause'
         \/ Delivers \/ Opens \/ HeldBack \/ Grows \/ Flushes
<1> DEFINE frame == Head(frm_wire)
           e == frame.event
           chunk == frm_count[e] > 1
<1>1. /\ e \in Frames!Events /\ e \in Nat /\ frm_count[e] \in Nat /\ frm_got[e] \in Nat
      /\ frame.index = frm_got[e] /\ frm_got[e] < frm_count[e]
      /\ frm_got'[e] = frm_got[e] + 1 /\ \A d \in Frames!Events : d # e => frm_got'[d] = frm_got[d]
      /\ UNCHANGED <<frm_count, frm_sent>> /\ Frames!Events' = Frames!Events
  <2>1. /\ e \in Frames!Events /\ frame.index = frm_got[e] /\ frm_got[e] < frm_count[e]
        /\ frm_got'[e] = frm_got[e] + 1 /\ \A d \in Frames!Events : d # e => frm_got'[d] = frm_got[d]
        /\ UNCHANGED <<frm_count, frm_sent>>
    BY FrameRead
  <2>2. \A d \in Frames!Events : d \in Nat /\ frm_count[d] \in Nat /\ frm_got[d] \in Nat
    BY NatElements
  <2>3. Frames!Events' = Frames!Events
    BY <2>1 DEF Frames!Events
  <2> QED
    BY <2>1, <2>2, <2>3
<1>2. /\ frm_got[e] = 0 => e = Held + Len(frm_buffered) + 1
      /\ frm_got[e] # 0 => \E p \in frm_pending : p.event = e
      /\ \A i \in DOMAIN frm_delivered : i # e
  BY FrameFinds
<1>3. ASSUME frm_pending # {}, chunk PROVE (Breaks /\ Frames!BrokenForCause') \/ Grows \/ Flushes
  <2>1. PICK p \in frm_pending : p = (CHOOSE q \in frm_pending : TRUE) /\ frm_pending = {p}
    BY <1>3, PendingIs
  <2>2. Frames!AcceptChunk(frame)
    BY <1>3 DEF Frames!ReadFrame
  <2>3. /\ p.event \in Frames!Events /\ p.next = frm_got[p.event] /\ p.bytes = p.next /\ p.next \in Nat
        /\ frm_buffered_bytes = Len(frm_buffered) /\ Len(frm_buffered) \in Nat
    BY DEF StreamInv, FramesTyped
  <2>4. CASE e # p.event
    <3>1. Breaks
      BY <2>1, <2>2, <2>4 DEF Frames!AcceptChunk, Frames!Fail, Breaks
    <3>2. frm_got[e] = 0
      BY <1>2, <2>1, <2>4
    <3>3. e \notin Frames!ToSet(frm_delivered)
      <4>1. \A i \in DOMAIN frm_delivered : frm_delivered[i] = i
        BY DEF StreamInv
      <4> QED
        BY <1>2, <4>1 DEF Frames!ToSet
    <3>4. frm_pending' = frm_pending /\ frm_delivered' = frm_delivered /\ frm_buffered' = frm_buffered
      BY <3>1 DEF Breaks, Frames!reassembler
    <3>5. \E d \in Frames!Events' \ ({p.event} \cup Frames!ToSet(frm_delivered')) : frm_count'[d] > 1 /\ frm_got'[d] = 1
      BY <1>1, <1>3, <2>4, <3>2, <3>3, <3>4
    <3> QED
      BY <3>1, <3>4, <3>5 DEF Frames!BrokenForCause
  <2>5. CASE e = p.event /\ p.bytes + frm_buffered_bytes + 1 > Limit
    <3>1. Breaks
      BY <2>1, <2>2, <2>5 DEF Frames!AcceptChunk, Frames!Fail, Breaks
    <3>2. p \in frm_pending' /\ p.bytes + Len(frm_buffered') + 1 > Limit
      BY <2>3, <2>5, <3>1 DEF Breaks, Frames!reassembler
    <3> QED
      BY <3>1, <3>2 DEF Frames!BrokenForCause
  <2>6. CASE e = p.event /\ ~(p.bytes + frm_buffered_bytes + 1 > Limit)
    <3>1. ~(e # p.event \/ frame.index # p.next \/ p.bytes + frm_buffered_bytes + 1 > Limit)
      BY <1>1, <2>3, <2>6
    <3>2. /\ IF p.next + 1 = frm_count[p.event]
             THEN frm_pending' = {} /\ Frames!Flush
             ELSE /\ frm_pending' = {[p EXCEPT !.next = @ + 1, !.bytes = @ + 1]}
                  /\ UNCHANGED <<frm_buffered, frm_buffered_bytes, frm_delivered>>
          /\ UNCHANGED frm_closed
      BY <2>1, <2>2, <3>1 DEF Frames!AcceptChunk
    <3>3. p.bytes + frm_buffered_bytes + 1 <= Limit
      BY <2>3, <2>6
    <3>4. CASE p.next + 1 = frm_count[p.event]
      BY <2>1, <2>6, <3>2, <3>4 DEF Frames!Flush, Flushes
    <3>5. CASE p.next + 1 # frm_count[p.event]
      BY <2>6, <3>2, <3>3, <3>5 DEF Grows
    <3> QED
      BY <3>4, <3>5
  <2> QED
    BY <2>4, <2>5, <2>6
<1>4. ASSUME frm_pending # {}, ~chunk PROVE (Breaks /\ Frames!BrokenForCause') \/ HeldBack
  <2>1. Frames!Buffer(frame)
    BY <1>4 DEF Frames!ReadFrame
  <2>2. frm_count[e] = 1 /\ frm_got[e] = 0
    BY <1>1, <1>4
  <2>3. CASE \E p \in frm_pending : p.bytes + frm_buffered_bytes + 1 > Limit
    <3>1. Breaks
      BY <2>1, <2>3 DEF Frames!Buffer, Frames!Fail, Breaks
    <3>2. \E p \in frm_pending' : p.bytes + Len(frm_buffered') + 1 > Limit
      BY <2>3, <3>1 DEF Breaks, Frames!reassembler, StreamInv
    <3> QED
      BY <3>1, <3>2 DEF Frames!BrokenForCause
  <2>4. CASE ~\E p \in frm_pending : p.bytes + frm_buffered_bytes + 1 > Limit
    <3>1. /\ frm_buffered' = Append(frm_buffered, e) /\ frm_buffered_bytes' = frm_buffered_bytes + 1
          /\ UNCHANGED <<frm_pending, frm_delivered, frm_closed>>
      BY <2>1, <2>4 DEF Frames!Buffer
    <3>2. \A p \in frm_pending : p.bytes + frm_buffered_bytes + 1 <= Limit
      <4>1. \A p \in frm_pending : p.bytes \in Nat
        BY DEF FramesTyped
      <4>2. frm_buffered_bytes \in Nat
        BY DEF FramesTyped, StreamInv
      <4> QED
        BY <2>4, <4>1, <4>2
    <3> QED
      BY <1>4, <2>2, <3>1, <3>2 DEF HeldBack
  <2> QED
    BY <2>3, <2>4
<1>5. ASSUME frm_pending = {}, chunk PROVE (Breaks /\ Frames!BrokenForCause') \/ Opens
  <2>1. frm_got[e] = 0 /\ frame.index = 0
    BY <1>1, <1>2, <1>5
  <2>2. Frames!Start(frame)
    BY <1>5 DEF Frames!ReadFrame
  <2>3. CASE frm_count[e] > MaxChunks
    <3>1. Breaks
      BY <2>2, <2>3 DEF Frames!Start, Frames!Fail, Breaks
    <3>2. frm_got'[e] = 1 /\ frm_count'[e] > MaxChunks /\ e \in Frames!Events'
      BY <1>1, <2>1, <2>3
    <3> QED
      BY <3>1, <3>2 DEF Frames!BrokenForCause
  <2>4. CASE ~(frm_count[e] > MaxChunks)
    BY <1>5, <2>1, <2>2, <2>4 DEF Frames!Start, Opens
  <2> QED
    BY <2>3, <2>4
<1>6. ASSUME frm_pending = {}, ~chunk PROVE Delivers
  <2>1. frm_got[e] = 0 /\ frm_count[e] = 1
    BY <1>1, <1>2, <1>6
  <2>2. frm_delivered' = Append(frm_delivered, e) /\ UNCHANGED <<Frames!reassembler, frm_closed>>
    BY <1>6 DEF Frames!ReadFrame
  <2> QED
    BY <1>6, <2>1, <2>2 DEF Delivers, Frames!reassembler
<1> QED
  BY <1>3, <1>4, <1>5, <1>6

LEMMA TypeStep ==
  ASSUME MaxCount \in Nat, Limit \in Nat \ {0}, FramesTyped, WireInv, StreamInv, [Frames!Next]_Frames!vars
  PROVE  FramesTyped'
<1>1. ASSUME NEW n \in 1..MaxCount, Frames!Emit(n) PROVE FramesTyped'
  <2>1. n \in Nat /\ 0 \in Nat
    OBVIOUS
  <2>2. frm_count' = Append(frm_count, n) /\ frm_sent' = Append(frm_sent, 0) /\ frm_got' = Append(frm_got, 0)
    BY <1>1 DEF Frames!Emit
  <2>3. frm_count' \in Seq(Nat) /\ Len(frm_count') = Len(frm_count) + 1
    BY <2>1, <2>2, Appended DEF FramesTyped
  <2>4. frm_sent' \in Seq(Nat) /\ Len(frm_sent') = Len(frm_sent) + 1
    BY <2>1, <2>2, Appended DEF FramesTyped
  <2>5. frm_got' \in Seq(Nat) /\ Len(frm_got') = Len(frm_got) + 1
    BY <2>1, <2>2, Appended DEF FramesTyped
  <2> QED
    BY <1>1, <2>3, <2>4, <2>5 DEF Frames!Emit, FramesTyped, Frames!reassembler
<1>2. ASSUME NEW e \in Frames!Events, Frames!SendFrame(e) PROVE FramesTyped'
  <2>1. frm_sent' \in Seq(Nat) /\ Len(frm_sent') = Len(frm_sent)
    BY <1>2, Counted DEF Frames!SendFrame, FramesTyped, Frames!Events
  <2>2. [event |-> e, index |-> frm_sent[e]] \in Frame
    BY SMTT(30) DEF FramesTyped, Frames!Events, Frame
  <2>3. frm_wire' \in Seq(Frame)
    BY <1>2, <2>2, Appended DEF Frames!SendFrame, FramesTyped
  <2> QED
    BY <1>2, <2>1, <2>3 DEF Frames!SendFrame, FramesTyped, Frames!reassembler
<1>3. CASE Frames!ReadFrame
  <2> DEFINE e == Head(frm_wire).event
  <2>1. /\ e \in Frames!Events /\ frm_got' \in Seq(Nat) /\ Len(frm_got') = Len(frm_got) /\ frm_wire' \in Seq(Frame)
        /\ UNCHANGED <<frm_count, frm_sent>>
    BY <1>3, FrameRead
  <2>2. e \in Nat
    BY <2>1 DEF Frames!Events, FramesTyped
  <2>3. /\ frm_buffered' \in Seq(Nat) /\ frm_delivered' \in Seq(Nat)
        /\ frm_pending' \subseteq [event : Nat, next : Nat, bytes : Nat]
    <3>1. Frames!Open
      BY <1>3 DEF Frames!ReadFrame
    <3>2. Breaks \/ Delivers \/ Opens \/ HeldBack \/ Grows \/ Flushes
      BY <1>3, <3>1, FrameOutcome
    <3>3. CASE Breaks
      BY <3>3 DEF Breaks, Frames!reassembler, FramesTyped
    <3>4. CASE Delivers
      BY <2>2, <3>4, Appended DEF Delivers, FramesTyped
    <3>5. CASE Opens
      BY <2>2, <3>5 DEF Opens, FramesTyped
    <3>6. CASE HeldBack
      BY <2>2, <3>6, Appended DEF HeldBack, FramesTyped
    <3>7. CASE Grows
      <4>1. PICK p \in frm_pending : frm_pending' = {[p EXCEPT !.next = @ + 1, !.bytes = @ + 1]}
        BY <3>7 DEF Grows
      <4>2. p \in [event : Nat, next : Nat, bytes : Nat]
        BY DEF FramesTyped
      <4>3. [p EXCEPT !.next = @ + 1, !.bytes = @ + 1] \in [event : Nat, next : Nat, bytes : Nat]
        <5>1. p.next + 1 \in Nat /\ p.bytes + 1 \in Nat
          BY <4>2
        <5> QED
          BY <4>2, <5>1
      <4> QED
        BY <3>7, <4>1, <4>3 DEF Grows, FramesTyped
    <3>8. CASE Flushes
      <4>1. PICK p \in frm_pending : frm_delivered' = frm_delivered \o <<p.event>> \o frm_buffered
        BY <3>8 DEF Flushes
      <4>2. p.event \in Nat
        BY DEF FramesTyped
      <4>3. frm_delivered' \in Seq(Nat)
        BY <4>1, <4>2, Joined DEF FramesTyped
      <4> QED
        BY <3>8, <4>3 DEF Flushes
    <3> QED
      BY <3>2, <3>3, <3>4, <3>5, <3>6, <3>7, <3>8
  <2> QED
    BY <2>1, <2>3 DEF FramesTyped
<1>4. CASE Frames!ReadTaskEnds
  BY <1>4 DEF Frames!ReadTaskEnds, Frames!gateway, Frames!reassembler, FramesTyped
<1>5. CASE UNCHANGED Frames!vars
  BY <1>5 DEF Frames!vars, Frames!gateway, Frames!reassembler, FramesTyped
<1> QED
  BY <1>1, <1>2, <1>3, <1>4, <1>5 DEF Frames!Next

LEMMA ChunkReadStep ==
  ASSUME Limit \in Nat \ {0}, FramesTyped, FramesTyped', WireInv, StreamInv, Frames!ReadFrame
  PROVE  StreamInv'
<1> DEFINE e == Head(frm_wire).event
           D == Len(frm_delivered)
           B == Len(frm_buffered)
<1>1. Frames!Open
  BY DEF Frames!ReadFrame
<1>2. /\ e \in Frames!Events /\ frm_got'[e] = frm_got[e] + 1 /\ \A d \in Frames!Events : d # e => frm_got'[d] = frm_got[d]
      /\ UNCHANGED <<frm_count, frm_sent>>
  BY FrameRead
<1>3. Frames!Events' = Frames!Events /\ frm_count' = frm_count
  BY <1>2 DEF Frames!Events
<1>4. /\ \A d \in Frames!Events : d \in Nat /\ frm_count[d] \in Nat /\ frm_got[d] \in Nat /\ frm_got'[d] \in Nat
      /\ D \in Nat /\ B \in Nat /\ DOMAIN frm_delivered = 1..D /\ DOMAIN frm_buffered = 1..B
      /\ DOMAIN frm_delivered' = 1..Len(frm_delivered') /\ DOMAIN frm_buffered' = 1..Len(frm_buffered')
      /\ frm_delivered \in Seq(Nat) /\ frm_buffered \in Seq(Nat)
  <2>1. \A d \in Frames!Events : d \in Nat /\ frm_count[d] \in Nat /\ frm_got[d] \in Nat
    BY NatElements
  <2>2. \A d \in Frames!Events : frm_got'[d] \in Nat
    BY <1>2, <2>1
  <2> QED
    BY <2>1, <2>2 DEF FramesTyped
<1>5. /\ frm_got[e] = 0 => e = Held + B + 1
      /\ \A i \in DOMAIN frm_delivered : i # e
      /\ \A i \in DOMAIN frm_buffered : Held + i # e
  BY <1>1, FrameFinds
<1>6. Held \in Nat /\ (frm_pending = {} => Held = D) /\ (frm_pending # {} => Held = D + 1)
  BY HeldIs
<1>7. (frm_pending' = {} => Held' = Len(frm_delivered')) /\ (frm_pending' # {} => Held' = Len(frm_delivered') + 1)
  BY HeldIs, FramesTyped' DEF FramesTyped, Held, Frames!Opened
<1>8. frm_pending = {} => B = 0
  BY <1>4 DEF StreamInv
<1>9. /\ \A i \in 1..D : i \in Frames!Events /\ frm_delivered[i] = i /\ frm_got[i] = frm_count[i] /\ frm_got'[i] = frm_count[i]
      /\ \A i \in 1..B : /\ Held + i \in Frames!Events /\ frm_buffered[i] = Held + i
                         /\ frm_count[Held + i] = 1 /\ frm_got[Held + i] = 1 /\ frm_got'[Held + i] = 1
      /\ \A d \in Frames!Events : frm_got[d] > 0 <=> d <= Held + B
      /\ frm_buffered_bytes = B
  BY <1>1, <1>2, <1>4, <1>5 DEF StreamInv
<1>10. ASSUME NEW p \in frm_pending
       PROVE  /\ p.event = D + 1 /\ p.event \in Frames!Events
              /\ p.next = frm_got[p.event] /\ p.bytes = p.next
              /\ p.next > 0 /\ p.next < frm_count[p.event]
              /\ p.next \in Nat /\ frm_pending = {p}
  <2>1. p \in [event : Nat, next : Nat, bytes : Nat]
    BY DEF FramesTyped
  <2>2. frm_pending = {p}
    BY DEF StreamInv
  <2>3. /\ p.event = D + 1 /\ p.event \in Frames!Events
        /\ p.next = frm_got[p.event] /\ p.bytes = p.next
        /\ p.next > 0 /\ p.next < frm_count[p.event]
    BY <1>1 DEF StreamInv
  <2> QED
    BY <2>1, <2>2, <2>3
<1>17. ASSUME e = Held + B + 1
       PROVE  \A d \in Frames!Events : frm_got'[d] > 0 <=> d <= Held + (B + 1)
  <2> SUFFICES ASSUME NEW d \in Frames!Events
               PROVE  frm_got'[d] > 0 <=> d <= Held + (B + 1)
    BY SMTT(30)
  <2>1. /\ d \in Nat /\ e \in Nat /\ frm_got[d] \in Nat /\ frm_got[e] \in Nat
        /\ Held \in Nat /\ B \in Nat /\ (frm_got[d] > 0 <=> d <= Held + B)
    BY <1>2, <1>4, <1>6, <1>9
  <2>2. CASE d = e
    BY <1>2, <1>17, <2>1, <2>2
  <2>3. CASE d # e
    BY <1>2, <1>17, <2>1, <2>3
  <2> QED
    BY <2>2, <2>3
<1>18. ASSUME frm_got[e] > 0
       PROVE  \A d \in Frames!Events : frm_got'[d] > 0 <=> d <= Held + B
  <2> SUFFICES ASSUME NEW d \in Frames!Events
               PROVE  frm_got'[d] > 0 <=> d <= Held + B
    OBVIOUS
  <2>1. frm_got[e] \in Nat /\ (frm_got[d] > 0 <=> d <= Held + B)
    BY <1>2, <1>4, <1>9
  <2>2. CASE d = e
    BY <1>2, <1>18, <2>1, <2>2
  <2>3. CASE d # e
    BY <1>2, <2>1, <2>3
  <2> QED
    BY <2>2, <2>3
<1>11. CASE Breaks
  <2>1. /\ UNCHANGED <<frm_pending, frm_buffered, frm_buffered_bytes, frm_delivered>> /\ ~Frames!Open'
    BY <1>11 DEF Breaks, Frames!reassembler, Frames!Open
  <2> QED
    BY <1>3, <1>4, <1>9, <2>1 DEF StreamInv
<1>12. CASE Delivers
  <2>1. /\ e = D + 1 /\ B = 0 /\ frm_pending' = {} /\ frm_buffered' = frm_buffered
        /\ frm_got'[e] = 1 /\ frm_count[e] = 1 /\ frm_buffered_bytes' = B /\ Frames!Open'
    BY <1>1, <1>2, <1>5, <1>6, <1>8, <1>9, <1>12 DEF Delivers, Frames!Open
  <2>2. /\ Len(frm_delivered') = D + 1 /\ frm_delivered'[D + 1] = e
        /\ \A i \in 1..D : frm_delivered'[i] = frm_delivered[i]
    BY <1>4, <1>12, Appended DEF Delivers
  <2>3. Held' = D + 1
    BY <1>7, <2>1, <2>2
  <2>4. \A d \in Frames!Events : frm_got'[d] > 0 <=> d <= D + 1
    BY <1>2, <1>4, <1>6, <1>9, <1>12, <2>1 DEF Delivers
  <2>5. \A i \in DOMAIN frm_delivered' : i \in Frames!Events /\ frm_delivered'[i] = i /\ frm_got'[i] = frm_count[i]
    BY <1>2, <1>4, <1>9, <2>1, <2>2
  <2>6. DOMAIN frm_buffered' = {} /\ frm_buffered' = <<>> /\ Len(frm_buffered') = 0
    BY <1>4, <2>1
  <2>7. \A d \in Frames!Events : frm_got'[d] > 0 <=> d <= Held' + Len(frm_buffered')
    BY <1>4, <2>3, <2>4, <2>6
  <2> QED
    BY <1>3, <2>1, <2>5, <2>6, <2>7 DEF StreamInv
<1>13. CASE Opens
  <2> DEFINE p == [event |-> e, next |-> 1, bytes |-> 1]
  <2>1. /\ e = D + 1 /\ B = 0 /\ frm_pending' = {p} /\ UNCHANGED <<frm_buffered, frm_delivered>>
        /\ frm_got'[e] = 1 /\ frm_count[e] > 1 /\ frm_buffered_bytes' = B /\ Frames!Open'
    BY <1>1, <1>2, <1>5, <1>6, <1>8, <1>9, <1>13 DEF Opens, Frames!Open
  <2>2. Held' = D + 1
    BY <1>7, <2>1
  <2>3. \A d \in Frames!Events : frm_got'[d] > 0 <=> d <= D + 1
    BY <1>2, <1>4, <1>6, <1>9, <1>13, <2>1 DEF Opens
  <2>4. \A i \in DOMAIN frm_delivered' : i \in Frames!Events /\ frm_delivered'[i] = i /\ frm_got'[i] = frm_count[i]
    BY <1>4, <1>9, <2>1
  <2>5. DOMAIN frm_buffered' = {} /\ frm_buffered' = <<>> /\ Len(frm_buffered') = 0
    BY <1>4, <2>1
  <2>6. \A d \in Frames!Events : frm_got'[d] > 0 <=> d <= Held' + Len(frm_buffered')
    BY <1>4, <2>2, <2>3, <2>5
  <2>7. \A q \in frm_pending' : /\ q = p /\ q.event = Len(frm_delivered') + 1 /\ q.event \in Frames!Events
                                /\ q.next = frm_got'[q.event] /\ q.bytes = q.next
                                /\ q.next > 0 /\ q.next < frm_count[q.event]
                                /\ q.bytes + Len(frm_buffered') <= Limit
    BY <1>2, <2>1, <2>5
  <2> QED
    BY <1>3, <2>1, <2>4, <2>5, <2>6, <2>7 DEF StreamInv
<1>14. CASE HeldBack
  <2>1. /\ e = Held + B + 1 /\ UNCHANGED <<frm_pending, frm_delivered>> /\ frm_pending # {}
        /\ frm_got'[e] = 1 /\ frm_count[e] = 1 /\ frm_buffered_bytes' = B + 1 /\ Frames!Open'
        /\ \A p \in frm_pending : p.bytes + B + 1 <= Limit /\ p.event # e
    <3>1. /\ UNCHANGED <<frm_pending, frm_delivered, frm_closed>> /\ frm_pending # {} /\ frm_got[e] = 0 /\ frm_count[e] = 1
          /\ frm_buffered_bytes' = B + 1 /\ \A p \in frm_pending : p.bytes + B + 1 <= Limit
      BY <1>9, <1>14 DEF HeldBack
    <3>2. e = Held + B + 1 /\ frm_got'[e] = 1
      BY <1>2, <1>5, <3>1
    <3>3. \A p \in frm_pending : p.event # e
      BY <1>10, <3>1
    <3> QED
      BY <1>1, <3>1, <3>2, <3>3 DEF Frames!Open
  <2>2. /\ Len(frm_buffered') = B + 1 /\ frm_buffered'[B + 1] = e
        /\ \A i \in 1..B : frm_buffered'[i] = frm_buffered[i]
    BY <1>4, <1>14, Appended DEF HeldBack
  <2>3. Held' = Held
    BY <1>6, <1>7, <2>1
  <2>4. \A d \in Frames!Events : frm_got'[d] > 0 <=> d <= Held + (B + 1)
    BY <1>17, <2>1
  <2>5. \A i \in DOMAIN frm_buffered' : /\ Held + i \in Frames!Events /\ frm_buffered'[i] = Held + i
                                        /\ frm_count[Held + i] = 1 /\ frm_got'[Held + i] = 1
    <3> SUFFICES ASSUME NEW i \in 1..B + 1
                 PROVE  /\ Held + i \in Frames!Events /\ frm_buffered'[i] = Held + i
                        /\ frm_count[Held + i] = 1 /\ frm_got'[Held + i] = 1
      BY <1>4, <2>2
    <3>1. CASE i \in 1..B
      BY <1>9, <2>2, <3>1
    <3>2. CASE i = B + 1
      <4>1. Held + i = e
        <5>1. e = Held + B + 1 /\ Held \in Nat /\ B \in Nat
          BY <1>4, <1>6, <2>1
        <5> QED
          BY SMTT(30), <3>2, <5>1
      <4> QED
        BY <1>2, <2>1, <2>2, <3>2, <4>1
    <3> QED
      BY <1>4, <3>1, <3>2
  <2>6. \A i \in DOMAIN frm_delivered' : i \in Frames!Events /\ frm_delivered'[i] = i /\ frm_got'[i] = frm_count[i]
    BY <1>4, <1>9, <2>1
  <2>7. \A p \in frm_pending' : /\ p.event = Len(frm_delivered') + 1 /\ p.event \in Frames!Events
                                /\ p.next = frm_got'[p.event] /\ p.bytes = p.next
                                /\ p.next > 0 /\ p.next < frm_count[p.event]
                                /\ p.bytes + Len(frm_buffered') <= Limit
                                /\ frm_pending' = {p}
    <3> SUFFICES ASSUME NEW p \in frm_pending'
                 PROVE  /\ p.event = Len(frm_delivered') + 1 /\ p.event \in Frames!Events
                        /\ p.next = frm_got'[p.event] /\ p.bytes = p.next
                        /\ p.next > 0 /\ p.next < frm_count[p.event]
                        /\ p.bytes + Len(frm_buffered') <= Limit
                        /\ frm_pending' = {p}
      OBVIOUS
    <3>1. p \in frm_pending /\ frm_pending' = frm_pending /\ Len(frm_delivered') = D /\ p.event # e
          /\ p.bytes + B + 1 <= Limit
      BY <2>1
    <3>2. /\ p.event = D + 1 /\ p.event \in Frames!Events /\ p.next = frm_got[p.event] /\ p.bytes = p.next
          /\ p.next > 0 /\ p.next < frm_count[p.event] /\ frm_pending = {p} /\ p.next \in Nat
      BY <1>10, <3>1
    <3>3. frm_got'[p.event] = frm_got[p.event]
      BY <1>2, <3>1, <3>2
    <3>4. p.bytes + Len(frm_buffered') <= Limit
      BY <1>4, <2>2, <3>1, <3>2
    <3> QED
      BY <3>1, <3>2, <3>3, <3>4
  <2> QED
    BY <1>3, <1>4, <2>1, <2>2, <2>3, <2>4, <2>5, <2>6, <2>7 DEF StreamInv
<1>15. CASE Grows
  <2>1. PICK p \in frm_pending : /\ p.event = e /\ p.next + 1 # frm_count[p.event]
                                 /\ p.bytes + frm_buffered_bytes + 1 <= Limit
                                 /\ frm_pending' = {[p EXCEPT !.next = @ + 1, !.bytes = @ + 1]}
    BY <1>15 DEF Grows
  <2> DEFINE r == [p EXCEPT !.next = @ + 1, !.bytes = @ + 1]
  <2>2. frm_pending' = {r} /\ r.event = e /\ r.next = p.next + 1 /\ r.bytes = p.next + 1
    <3>1. p \in [event : Nat, next : Nat, bytes : Nat] /\ p.bytes = p.next
      BY <1>10 DEF FramesTyped
    <3>2. r.event = p.event /\ r.next = p.next + 1 /\ r.bytes = p.bytes + 1
      BY <3>1, Grown
    <3> QED
      BY <2>1, <3>1, <3>2
  <2>3. /\ UNCHANGED <<frm_buffered, frm_delivered>> /\ frm_buffered_bytes' = B /\ Frames!Open'
        /\ e = D + 1 /\ frm_got[e] = p.next /\ p.next + 1 < frm_count[e] /\ p.next + 1 + B <= Limit
    <3>1. UNCHANGED <<frm_buffered, frm_delivered>> /\ frm_buffered_bytes' = B /\ Frames!Open'
      BY <1>1, <1>9, <1>15 DEF Grows, Frames!Open
    <3>2. e = D + 1 /\ frm_got[e] = p.next /\ p.next < frm_count[e] /\ p.next + 1 # frm_count[e] /\ p.next \in Nat
      BY <1>10, <2>1
    <3>3. p.next + B + 1 <= Limit
      BY <1>9, <1>10, <2>1
    <3> QED
      BY <1>2, <1>4, <3>1, <3>2, <3>3
  <2>4. Held' = Held
    BY <1>6, <1>7, <2>2, <2>3
  <2>5. \A d \in Frames!Events : frm_got'[d] > 0 <=> d <= Held + B
    <3>1. frm_got[e] > 0
      BY <1>10, <2>1
    <3> QED
      BY <1>18, <3>1
  <2>6. \A i \in DOMAIN frm_delivered' : i \in Frames!Events /\ frm_delivered'[i] = i /\ frm_got'[i] = frm_count[i]
    BY <1>4, <1>9, <2>3
  <2>7. \A q \in frm_pending' : /\ q = r /\ q.event = Len(frm_delivered') + 1 /\ q.event \in Frames!Events
                                /\ q.next = frm_got'[q.event] /\ q.bytes = q.next
                                /\ q.next > 0 /\ q.next < frm_count[q.event]
                                /\ q.bytes + Len(frm_buffered') <= Limit
    <3>1. /\ e = p.event /\ e \in Frames!Events /\ frm_got'[e] = p.next + 1 /\ p.next \in Nat
          /\ Len(frm_delivered') = D /\ Len(frm_buffered') = B /\ B \in Nat
      BY <1>2, <1>4, <1>10, <2>1, <2>3
    <3> HIDE DEF r
    <3>2. r.event = D + 1 /\ r.next = frm_got'[e] /\ r.bytes = r.next /\ r.next > 0
          /\ r.next < frm_count[e] /\ r.bytes + B <= Limit
      BY <2>2, <2>3, <3>1
    <3> QED
      BY <2>2, <3>1, <3>2
  <2>8. frm_pending' # {}
    BY <2>2
  <2> QED
    BY <1>3, <1>4, <1>9, <2>3, <2>4, <2>5, <2>6, <2>7, <2>8 DEF StreamInv
<1>16. CASE Flushes
  <2>1. PICK p \in frm_pending : /\ p.event = e /\ p.next + 1 = frm_count[p.event]
                                 /\ frm_delivered' = frm_delivered \o <<p.event>> \o frm_buffered
    BY <1>16 DEF Flushes
  <2>2. /\ frm_pending' = {} /\ frm_buffered' = <<>> /\ frm_buffered_bytes' = 0 /\ Frames!Open'
    BY SMTT(30), <1>1, <1>4, <1>9, <1>16 DEF Flushes, Frames!Open
  <2>3. /\ e = D + 1 /\ e \in Nat /\ frm_got'[e] = frm_count[e] /\ Held = D + 1
    BY <1>2, <1>4, <1>6, <1>10, <2>1
  <2>4. /\ Len(frm_delivered') = D + 1 + B /\ frm_delivered'[D + 1] = e
        /\ \A i \in 1..D : frm_delivered'[i] = frm_delivered[i]
        /\ \A i \in 1..B : frm_delivered'[D + 1 + i] = frm_buffered[i]
    BY <1>4, <2>1, <2>3, Joined
  <2>5. Held' = D + 1 + B
    BY <1>7, <2>2, <2>4
  <2>6. \A i \in DOMAIN frm_delivered' : i \in Frames!Events /\ frm_delivered'[i] = i /\ frm_got'[i] = frm_count[i]
    <3> SUFFICES ASSUME NEW i \in 1..D + 1 + B
                 PROVE  i \in Frames!Events /\ frm_delivered'[i] = i /\ frm_got'[i] = frm_count[i]
      BY <1>4, <2>4
    <3>1. CASE i \in 1..D
      BY <1>9, <2>4, <3>1
    <3>2. CASE i = D + 1
      BY <1>2, <2>3, <2>4, <3>2
    <3>3. CASE i > D + 1
      <4>1. i - (D + 1) \in 1..B /\ D + 1 + (i - (D + 1)) = i
        BY <1>4, <3>3
      <4> DEFINE k == i - (D + 1)
      <4>2. frm_delivered'[D + 1 + k] = frm_buffered[k] /\ frm_buffered[k] = Held + k /\ Held + k \in Frames!Events
            /\ frm_count[Held + k] = 1 /\ frm_got'[Held + k] = 1
        BY <1>9, <2>4, <4>1
      <4> QED
        BY <2>3, <4>1, <4>2
    <3> QED
      BY <1>4, <3>1, <3>2, <3>3
  <2>7. \A d \in Frames!Events : frm_got'[d] > 0 <=> d <= D + 1 + B
    <3>1. frm_got[e] > 0
      BY <1>10, <2>1
    <3> QED
      BY <1>18, <2>3, <3>1
  <2>8. Len(frm_buffered') = 0 /\ DOMAIN frm_buffered' = {}
    BY <2>2
  <2> QED
    BY <1>3, <1>4, <2>2, <2>5, <2>6, <2>7, <2>8 DEF StreamInv
<1> QED
  BY <1>1, <1>11, <1>12, <1>13, <1>14, <1>15, <1>16, FrameOutcome

\* A new event is behind everything that has begun.
LEMMA EmitStep ==
  ASSUME FramesTyped, FramesTyped', StreamInv, NEW n \in 1..MaxCount, Frames!Emit(n)
  PROVE  StreamInv'
<1> DEFINE L == Len(frm_count)
<1>1. /\ Frames!Open /\ frm_count' = Append(frm_count, n) /\ frm_got' = Append(frm_got, 0)
      /\ UNCHANGED <<frm_pending, frm_buffered, frm_buffered_bytes, frm_delivered, frm_closed>>
  BY DEF Frames!Emit, Frames!reassembler
<1>2. /\ L \in Nat /\ Len(frm_got) = L /\ Frames!Events = 1..L /\ n \in Nat /\ 0 \in Nat
      /\ DOMAIN frm_count = 1..L /\ DOMAIN frm_got = 1..L
      /\ DOMAIN frm_delivered = 1..Len(frm_delivered) /\ DOMAIN frm_buffered = 1..Len(frm_buffered)
  BY DEF FramesTyped, Frames!Events
<1>3. Len(frm_count') = L + 1 /\ \A d \in Frames!Events : frm_count'[d] = frm_count[d]
  BY <1>1, <1>2, Appended DEF FramesTyped
<1>4. frm_got'[L + 1] = 0 /\ \A d \in Frames!Events : frm_got'[d] = frm_got[d]
  BY <1>1, <1>2, Appended DEF FramesTyped
<1>5. Frames!Events' = Frames!Events \cup {L + 1} /\ L + 1 \notin Frames!Events
  BY <1>2, <1>3 DEF Frames!Events
<1>6. Held \in Nat /\ Len(frm_buffered) \in Nat /\ Len(frm_delivered) \in Nat /\ Held' = Held
      /\ (frm_pending = {} => Held = Len(frm_delivered)) /\ (frm_pending # {} => Held = Len(frm_delivered) + 1)
  BY <1>1, HeldIs DEF Held, Frames!Opened
<1>7. Held + Len(frm_buffered) <= L
  <2>1. CASE Len(frm_buffered) > 0
    <3>1. Len(frm_buffered) \in DOMAIN frm_buffered
      <4> DEFINE B == Len(frm_buffered)
      <4>1. B \in Nat /\ B > 0
        BY <1>6, <2>1
      <4>2. B \in 1..B
        BY <4>1
      <4> QED
        BY <1>2, <4>2
    <3> DEFINE m == Held + Len(frm_buffered)
    <3>2. m \in 1..L
      BY <1>1, <1>2, <3>1 DEF StreamInv
    <3> HIDE DEF m
    <3>3. m <= L
      BY <3>2
    <3> QED
      BY <3>3 DEF m
  <2>2. CASE Len(frm_buffered) = 0 /\ frm_pending # {}
    <3> DEFINE m == Len(frm_delivered) + 1
    <3>1. m \in 1..L /\ m \in Nat
      <4>1. PICK p \in frm_pending : TRUE
        BY <2>2
      <4>2. p.event = Len(frm_delivered) + 1 /\ p.event \in Frames!Events
        BY <1>1, <4>1 DEF StreamInv
      <4> QED
        BY <1>2, <1>6, <4>2
    <3> HIDE DEF m
    <3>2. Held + Len(frm_buffered) = m
      BY <1>6, <2>2, <3>1 DEF m
    <3> QED
      BY SMTT(30), <3>1, <3>2
  <2>3. CASE Len(frm_buffered) = 0 /\ frm_pending = {} /\ Len(frm_delivered) > 0
    <3> DEFINE D == Len(frm_delivered)
    <3>1. D \in Nat /\ D > 0 /\ Held + Len(frm_buffered) = D
      BY <1>6, <2>3
    <3>2. D \in 1..D
      BY <3>1
    <3>3. D \in 1..L
      BY <1>2, <3>2 DEF StreamInv
    <3> QED
      BY <3>1, <3>3
  <2>4. CASE Len(frm_buffered) = 0 /\ frm_pending = {} /\ Len(frm_delivered) = 0
    BY <1>2, <1>6, <2>4
  <2> QED
    <3>1. Len(frm_buffered) \in Nat /\ Len(frm_delivered) \in Nat
      BY <1>6
    <3>2. (Len(frm_buffered) > 0 \/ Len(frm_buffered) = 0) /\ (Len(frm_delivered) > 0 \/ Len(frm_delivered) = 0)
      BY <3>1
    <3> QED
      BY <2>1, <2>2, <2>3, <2>4, <3>2
<1>8. \A d \in Frames!Events' : frm_got'[d] > 0 <=> d <= Held + Len(frm_buffered)
  <2>1. \A d \in Frames!Events : frm_got'[d] > 0 <=> d <= Held + Len(frm_buffered)
    BY <1>1, <1>4 DEF StreamInv
  <2>2. ~(frm_got'[L + 1] > 0)
    BY <1>4
  <2>3. ~(L + 1 <= Held + Len(frm_buffered))
    <3> DEFINE m == Held + Len(frm_buffered)
    <3>1. m \in Nat /\ m <= L
      BY <1>6, <1>7
    <3> HIDE DEF m
    <3>2. ~(L + 1 <= m)
      BY <1>2, <3>1
    <3> QED
      BY <3>2 DEF m
  <2> QED
    BY <1>5, <2>1, <2>2, <2>3
<1>9. \A i \in DOMAIN frm_delivered : i \in Frames!Events' /\ frm_delivered[i] = i /\ frm_got'[i] = frm_count'[i]
  BY <1>3, <1>4, <1>5 DEF StreamInv
<1>10. \A p \in frm_pending : /\ p.event = Len(frm_delivered) + 1 /\ p.event \in Frames!Events'
                              /\ p.next = frm_got'[p.event] /\ p.bytes = p.next
                              /\ p.next > 0 /\ p.next < frm_count'[p.event]
  BY <1>1, <1>3, <1>4, <1>5 DEF StreamInv
<1>11. \A i \in DOMAIN frm_buffered : /\ Held + i \in Frames!Events' /\ frm_buffered[i] = Held + i
                                      /\ frm_count'[Held + i] = 1 /\ frm_got'[Held + i] = 1
  BY <1>1, <1>3, <1>4, <1>5 DEF StreamInv
<1>12. /\ \A p, q \in frm_pending : p = q
       /\ frm_buffered_bytes = Len(frm_buffered) /\ (frm_buffered # <<>> => frm_pending # {})
       /\ \A p \in frm_pending : p.bytes + Len(frm_buffered) <= Limit
  BY DEF StreamInv
<1> QED
  BY <1>1, <1>6, <1>8, <1>9, <1>10, <1>11, <1>12 DEF StreamInv

LEMMA StreamStep ==
  ASSUME MaxCount \in Nat, Limit \in Nat \ {0}, FramesInv, [Frames!Next]_Frames!vars
  PROVE  StreamInv' /\ Frames!BrokenForCause'
<1>1. FramesTyped'
  BY TypeStep DEF FramesInv
<1>2. ASSUME NEW n \in 1..MaxCount, Frames!Emit(n) PROVE StreamInv' /\ Frames!BrokenForCause'
  <2>1. frm_closed' = "none"
    BY <1>2 DEF Frames!Emit, Frames!Open
  <2> QED
    BY <1>1, <1>2, <2>1, EmitStep DEF FramesInv, Frames!BrokenForCause
<1>3. ASSUME NEW e \in Frames!Events, Frames!SendFrame(e) PROVE StreamInv' /\ Frames!BrokenForCause'
  <2>1. /\ UNCHANGED <<frm_count, frm_got, frm_pending, frm_buffered, frm_buffered_bytes, frm_delivered, frm_closed>>
        /\ frm_closed' = "none"
    BY <1>3 DEF Frames!SendFrame, Frames!reassembler, Frames!Open
  <2> QED
    BY <2>1 DEF FramesInv, StreamInv, Frames!BrokenForCause, Frames!Events, Frames!Open, Held, Frames!Opened
<1>4. CASE Frames!ReadFrame
  <2>1. Frames!Open
    BY <1>4 DEF Frames!ReadFrame
  <2>2. StreamInv'
    BY <1>1, <1>4, ChunkReadStep DEF FramesInv
  <2>3. Frames!BrokenForCause'
    <3>1. ASSUME UNCHANGED frm_closed PROVE Frames!BrokenForCause'
      BY <2>1, <3>1 DEF Frames!Open, Frames!BrokenForCause
    <3> QED
      BY <1>4, <2>1, <3>1, FrameOutcome
         DEF FramesInv, Delivers, Opens, HeldBack, Grows, Flushes
  <2> QED
    BY <2>2, <2>3
<1>5. CASE Frames!ReadTaskEnds
  <2>1. /\ UNCHANGED <<frm_count, frm_got, frm_pending, frm_buffered, frm_buffered_bytes, frm_delivered>>
        /\ frm_closed' # "none" /\ frm_closed' # "reassembly_failed"
    BY <1>5 DEF Frames!ReadTaskEnds, Frames!gateway, Frames!reassembler
  <2> QED
    BY <2>1 DEF FramesInv, StreamInv, Frames!BrokenForCause, Frames!Events, Frames!Open
<1>6. CASE UNCHANGED Frames!vars
  BY <1>6 DEF Frames!vars, Frames!gateway, Frames!reassembler, FramesInv, StreamInv, Frames!BrokenForCause, Frames!Events, Frames!Open, Held,
     Frames!Opened
<1> QED
  BY <1>2, <1>3, <1>4, <1>5, <1>6 DEF Frames!Next

LEMMA FramesKeepInv ==
  ASSUME MaxCount \in Nat, Limit \in Nat \ {0}
  PROVE  Frames!Spec => []FramesInv
<1>1. Frames!Init => FramesInv
  <2> SUFFICES ASSUME Frames!Init PROVE FramesInv
    OBVIOUS
  <2>1. FramesTyped /\ Len(frm_count) = 0 /\ Len(frm_delivered) = 0 /\ Len(frm_buffered) = 0
    BY DEF Frames!Init, FramesTyped
  <2>2. Frames!Events = {} /\ DOMAIN frm_wire = {} /\ DOMAIN frm_delivered = {} /\ DOMAIN frm_buffered = {}
    BY <2>1 DEF Frames!Init, Frames!Events
  <2>3. frm_pending = {} /\ frm_closed = "none" /\ frm_buffered_bytes = 0 /\ frm_buffered = <<>>
    BY DEF Frames!Init
  <2>4. WireInv
    BY <2>2 DEF WireInv
  <2>5. StreamInv
    BY <2>1, <2>2, <2>3 DEF StreamInv
  <2> QED
    BY <2>1, <2>3, <2>4, <2>5 DEF FramesInv, Frames!BrokenForCause
<1>2. FramesInv /\ [Frames!Next]_Frames!vars => FramesInv'
  BY TypeStep, StreamWireStep, StreamStep DEF FramesInv
<1> QED
  BY <1>1, <1>2, PTL DEF Frames!Spec

\* The application gets whole events only, each once, in the order in which their first
\* frames came, and what is held back stays within the limit, however many events and frames
\* there are (Reassembler of gateway/chunk.rs).
THEOREM StreamStaysWhole ==
  ASSUME MaxCount \in Nat, Limit \in Nat \ {0}
  PROVE  Frames!Spec => []Frames!StreamIsWhole
<1>1. FramesInv => Frames!StreamIsWhole
  <2> SUFFICES ASSUME FramesInv PROVE Frames!StreamIsWhole
    OBVIOUS
  <2>1. \A i \in DOMAIN frm_delivered : i \in Frames!Events /\ frm_delivered[i] = i /\ frm_got[i] = frm_count[i]
    BY DEF FramesInv, StreamInv
  <2>2. /\ frm_buffered # <<>> => frm_pending # {}
        /\ \A p \in frm_pending : p.bytes + Len(frm_buffered) <= Limit
    BY DEF FramesInv, StreamInv
  <2> DEFINE D == Len(frm_delivered)
             B == Len(frm_buffered)
             taken == frm_delivered \o Frames!Opened \o frm_buffered
  <2>3. ASSUME Frames!Open
        PROVE  /\ \A i \in DOMAIN taken : taken[i] = i
               /\ \A e \in Frames!Events : frm_got[e] > 0 <=> e \in DOMAIN taken
    <3>1. /\ frm_delivered \in Seq(Nat) /\ frm_buffered \in Seq(Nat) /\ D \in Nat /\ B \in Nat
          /\ DOMAIN frm_delivered = 1..D /\ DOMAIN frm_buffered = 1..B
          /\ Frames!Events \subseteq Nat \ {0}
      BY DEF FramesInv, FramesTyped, Frames!Events
    <3>2. /\ \A i \in 1..B : frm_buffered[i] = Held + i
          /\ \A e \in Frames!Events : frm_got[e] > 0 <=> e <= Held + B
          /\ \A p \in frm_pending : p.event = D + 1
      BY <2>3, <3>1 DEF FramesInv, StreamInv
    <3>3. /\ frm_pending = {} => Held = D
          /\ frm_pending # {} => Held = D + 1
      BY HeldIs DEF FramesInv
    <3>4. taken \in Seq(Nat) /\ Len(taken) = Held + B /\ \A i \in 1..Held + B : taken[i] = i
      <4>1. CASE frm_pending = {}
        <5>1. Frames!Opened = <<>> /\ frm_buffered = <<>> /\ Held = D /\ B = 0
          BY <2>2, <3>3, <4>1 DEF Frames!Opened
        <5>2. taken = frm_delivered
          BY <3>1, <5>1
        <5> QED
          BY <2>1, <3>1, <5>1, <5>2
      <4>2. CASE frm_pending # {}
        <5> DEFINE x == (CHOOSE p \in frm_pending : TRUE).event
        <5>1. x = D + 1 /\ Frames!Opened = <<x>> /\ Held = D + 1
          BY <3>2, <3>3, <4>2 DEF Frames!Opened
        <5>2. /\ taken \in Seq(Nat) /\ Len(taken) = D + 1 + B
              /\ \A i \in 1..D : taken[i] = frm_delivered[i]
              /\ taken[D + 1] = D + 1
              /\ \A i \in 1..B : taken[D + 1 + i] = frm_buffered[i]
          <6>1. x \in Nat
            BY <3>1, <5>1
          <6> DEFINE u == frm_delivered \o <<x>> \o frm_buffered
          <6>2. /\ u \in Seq(Nat) /\ Len(u) = D + 1 + B
                /\ \A i \in 1..D : u[i] = frm_delivered[i]
                /\ u[D + 1] = x
                /\ \A i \in 1..B : u[D + 1 + i] = frm_buffered[i]
            <7> HIDE DEF x
            <7> QED
              BY <3>1, <6>1, Joined
          <6>3. taken = u
            BY <5>1
          <6> QED
            BY <5>1, <6>2, <6>3
        <5>3. ASSUME NEW i \in 1..D + 1 + B PROVE taken[i] = i
          <6>1. CASE i \in 1..D
            BY <2>1, <3>1, <5>2, <6>1
          <6>2. CASE i = D + 1
            BY <5>2, <6>2
          <6>3. CASE i > D + 1
            <7> DEFINE k == i - (D + 1)
            <7>1. k \in 1..B /\ D + 1 + k = i
              BY <3>1, <6>3
            <7>2. taken[D + 1 + k] = frm_buffered[k] /\ frm_buffered[k] = Held + k
              BY <3>2, <5>2, <7>1
            <7> QED
              BY <5>1, <7>1, <7>2
          <6>4. i \in Nat /\ (i <= D \/ i = D + 1 \/ i > D + 1) /\ (i <= D => i \in 1..D)
            BY <3>1
          <6> QED
            BY <6>1, <6>2, <6>3, <6>4
        <5> QED
          BY <5>1, <5>2, <5>3
      <4> QED
        BY <4>1, <4>2
    <3>5. DOMAIN taken = 1..Held + B
      BY <3>4
    <3> QED
      BY SMTT(30), <3>1, <3>2, <3>4, <3>5
  <2> QED
    BY <2>1, <2>2, <2>3 DEF Frames!StreamIsWhole
<1> QED
  BY <1>1, FramesKeepInv, PTL

\* The stream is broken off only over an event that is too large, alone or with what came
\* meanwhile, or over two large events sent at the same time (REASSEMBLY_FAILED of
\* gateway/client.rs).
THEOREM OnlyBrokenForCause ==
  ASSUME MaxCount \in Nat, Limit \in Nat \ {0}
  PROVE  Frames!Spec => []Frames!BrokenForCause
<1>1. FramesInv => Frames!BrokenForCause
  BY DEF FramesInv
<1> QED
  BY <1>1, FramesKeepInv, PTL

\* What the reassembler holds, whether the stream still runs or has ended.
HeldLegally ==
    /\ \A p \in frm_pending : /\ p.event \in Frames!Events /\ p.bytes = p.next
                              /\ p.next \in 1..frm_count[p.event] - 1
    /\ \A i \in DOMAIN frm_buffered : frm_buffered[i] \in Frames!Events
Counts == \A e \in Frames!Events : frm_count[e] <= MaxCount /\ frm_count[e] > 0

\* The types of the event stream, for any bounds.
LEMMA FramesTypes ==
  ASSUME MaxCount \in Nat, Limit \in Nat \ {0}
  PROVE  Frames!Spec => []Frames!TypeOK
<1>1. FramesInv => (Frames!Open => HeldLegally)
  <2> SUFFICES ASSUME FramesInv, Frames!Open PROVE HeldLegally  OBVIOUS
  <2>1. ASSUME NEW p \in frm_pending
        PROVE  p.event \in Frames!Events /\ p.bytes = p.next /\ p.next \in 1..frm_count[p.event] - 1
    <3>1. p.event \in Frames!Events /\ p.bytes = p.next /\ p.next > 0 /\ p.next < frm_count[p.event]
      BY DEF FramesInv, StreamInv
    <3>2. p.next \in Nat /\ frm_count[p.event] \in Nat
      BY <3>1 DEF FramesInv, FramesTyped, Frames!Events
    <3> QED BY <3>1, <3>2
  <2>2. ASSUME NEW i \in DOMAIN frm_buffered PROVE frm_buffered[i] \in Frames!Events
    BY DEF FramesInv, StreamInv
  <2> QED BY <2>1, <2>2 DEF HeldLegally
<1>2. /\ FramesInv /\ HeldLegally /\ (Frames!Open => HeldLegally)' /\ [Frames!Next]_Frames!vars
      => HeldLegally'
  <2> SUFFICES ASSUME FramesInv, HeldLegally, ~Frames!Open', [Frames!Next]_Frames!vars PROVE HeldLegally'
    OBVIOUS
  <2>1. UNCHANGED <<frm_count, frm_pending, frm_buffered>>
    <3>1. CASE Frames!ReadFrame
      <4>1. Frames!Open  BY <3>1 DEF Frames!ReadFrame
      <4>2. frm_closed' # frm_closed  BY <4>1 DEF Frames!Open
      <4>3. Breaks
        BY <3>1, <4>1, <4>2, FrameOutcome DEF FramesInv, Delivers, Opens, HeldBack, Grows, Flushes
      <4> QED BY <3>1, <4>3 DEF Breaks, Frames!reassembler, Frames!ReadFrame, Frames!gateway
    <3>2. CASE Frames!ReadTaskEnds
      BY <3>2 DEF Frames!ReadTaskEnds, Frames!gateway, Frames!reassembler
    <3>3. CASE UNCHANGED Frames!vars
      BY <3>3 DEF Frames!vars, Frames!gateway, Frames!reassembler
    <3> QED
      BY <3>1, <3>2, <3>3 DEF Frames!Next, Frames!Emit, Frames!SendFrame, Frames!Open
  <2> QED BY <2>1 DEF HeldLegally, Frames!Events
<1>3. FramesInv /\ Counts /\ [Frames!Next]_Frames!vars => Counts'
  <2> SUFFICES ASSUME FramesInv, Counts, [Frames!Next]_Frames!vars PROVE Counts'  OBVIOUS
  <2>1. CASE UNCHANGED frm_count
    BY <2>1 DEF Counts, Frames!Events
  <2>2. ASSUME NEW n \in 1..MaxCount, Frames!Emit(n) PROVE Counts'
    <3>1. frm_count \in Seq(Nat) /\ n \in Nat /\ n > 0 /\ n <= MaxCount  BY DEF FramesInv, FramesTyped
    <3>2. frm_count' = Append(frm_count, n)  BY <2>2 DEF Frames!Emit
    <3> QED BY <3>1, <3>2, Appended DEF Counts, Frames!Events
  <2>3. (\E n \in 1..MaxCount : Frames!Emit(n)) \/ UNCHANGED frm_count
    BY DEF Frames!Next, Frames!SendFrame, Frames!ReadFrame, Frames!ReadTaskEnds, Frames!gateway, Frames!vars
  <2> QED BY <2>1, <2>2, <2>3
<1>4. Frames!Init => HeldLegally /\ Counts
  BY DEF Frames!Init, HeldLegally, Counts, Frames!Events
<1>5. FramesInv /\ HeldLegally /\ Counts => Frames!TypeOK
  <2> SUFFICES ASSUME FramesInv, HeldLegally, Counts PROVE Frames!TypeOK  OBVIOUS
  <2>1. ASSUME NEW e \in Frames!Events
        PROVE  frm_count[e] \in 1..MaxCount /\ frm_sent[e] \in 0..frm_count[e] /\ frm_got[e] \in 0..frm_sent[e]
    <3>1. frm_count[e] \in Nat /\ frm_sent[e] \in Nat /\ frm_got[e] \in Nat
      BY DEF FramesInv, FramesTyped, Frames!Events
    <3> QED BY <3>1 DEF Counts, FramesInv, WireInv
  <2>2. Frames!ToSet(frm_buffered) \subseteq Frames!Events /\ Frames!ToSet(frm_delivered) \subseteq Frames!Events
    BY DEF HeldLegally, FramesInv, StreamInv, Frames!ToSet
  <2>3. frm_buffered_bytes = Len(frm_buffered)  BY DEF FramesInv, StreamInv
  <2> QED BY <2>1, <2>2, <2>3 DEF Frames!TypeOK, HeldLegally
<1> QED
  BY <1>1, <1>2, <1>3, <1>4, <1>5, FramesKeepInv, PTL DEF Frames!Spec

-----------------------------------------------------------------------------
(* The parts of the client in one run: whatever part runs, each of the others stands still, *)
(* so a run of the client is a run of every part, and what is proved of a part holds in it. *)

LEMMA DriverRuns == ClientSpec => Driver!Spec
<1>1. ClientInit => Driver!Init
  BY DEF ClientInit
<1>2. [ClientNext]_clientVars => [Driver!Next]_Driver!vars
  <2>1. UNCHANGED driverVars => UNCHANGED Driver!vars
    BY DEF driverVars, Driver!vars
  <2> QED
    BY <2>1 DEF ClientNext, clientVars
<1> QED
  BY <1>1, <1>2, PTL DEF ClientSpec, Driver!Spec

LEMMA RendererRuns == ClientSpec => Renderer!Spec
<1>1. ClientInit => Renderer!Init
  BY DEF ClientInit
<1>2. [ClientNext]_clientVars => [Renderer!Next]_Renderer!vars
  <2>1. UNCHANGED rendererVars => UNCHANGED Renderer!vars
    BY DEF rendererVars, Renderer!vars
  <2> QED
    BY <2>1 DEF ClientNext, clientVars
<1> QED
  BY <1>1, <1>2, PTL DEF ClientSpec, Renderer!Spec

LEMMA TuiRuns == ClientSpec => Tui!Spec
<1>1. ClientInit => Tui!Init
  BY DEF ClientInit
<1>2. [ClientNext]_clientVars => [Tui!Next]_Tui!vars
  <2>1. UNCHANGED tuiVars => UNCHANGED Tui!vars
    BY DEF tuiVars, Tui!vars, Tui!appVars, Tui!linkVars, Tui!sendVars, Tui!gwVars,
           Tui!bounds
  <2> QED
    BY <2>1 DEF ClientNext, clientVars
<1> QED
  BY <1>1, <1>2, PTL DEF ClientSpec, Tui!Spec

LEMMA SettingsRuns == ClientSpec => Settings!Spec
<1>1. ClientInit => Settings!Init
  BY DEF ClientInit
<1>2. [ClientNext]_clientVars => [Settings!Next]_Settings!vars
  <2>1. UNCHANGED settingsVars => UNCHANGED Settings!vars
    BY DEF settingsVars, Settings!vars, Settings!netVars, Settings!appVars, Settings!history,
           Settings!bounds
  <2> QED
    BY <2>1 DEF ClientNext, clientVars
<1> QED
  BY <1>1, <1>2, PTL DEF ClientSpec, Settings!Spec

LEMMA FramesRun == ClientSpec => Frames!Spec
<1>1. ClientInit => Frames!Init
  BY DEF ClientInit
<1>2. [ClientNext]_clientVars => [Frames!Next]_Frames!vars
  <2>1. UNCHANGED framesVars => UNCHANGED Frames!vars
    BY DEF framesVars, Frames!vars, Frames!gateway, Frames!reassembler
  <2> QED
    BY <2>1 DEF ClientNext, clientVars
<1> QED
  BY <1>1, <1>2, PTL DEF ClientSpec, Frames!Spec

LEMMA StdinRuns == ClientSpec => Stdin!Spec
<1>1. ClientInit => Stdin!Init
  BY DEF ClientInit
<1>2. [ClientNext]_clientVars => [Stdin!Next]_Stdin!vars
  <2>1. UNCHANGED stdinVars => UNCHANGED Stdin!vars
    BY DEF stdinVars, Stdin!vars
  <2> QED
    BY <2>1 DEF ClientNext, clientVars
<1> QED
  BY <1>1, <1>2, PTL DEF ClientSpec, Stdin!Spec

LEMMA AcpRuns == ClientSpec => Spec
<1>1. ClientInit => Init
  BY DEF ClientInit
<1>2. [ClientNext]_clientVars => [Next]_vars
  BY DEF ClientNext, clientVars
<1> QED
  BY <1>1, <1>2, PTL DEF ClientSpec, Spec

PartChosen == part \in Parts

\* Every part keeps the types and the bounds of its variables, however large its bounds are:
\* no task in a place its handler does not have, no message that nobody sent, no count past
\* what was read or written (the TypeOK of each part).
THEOREM ClientTypesAreKept == ClientSpec => []ClientTypeOK
<1>1. ClientSpec => []TypeOK
  BY AcpRuns, TypesAreKept, PTL
<1>2. ClientSpec => []Driver!TypeOK
  <2>1. MaxLines \in Nat
    BY ClientConstants
  <2>2. Driver!Spec => []Driver!TypeOK
    BY <2>1, DriverTypes
  <2> QED
    BY <2>2, DriverRuns, PTL
<1>3. ClientSpec => []Renderer!TypeOK
  <2>1. MaxTurns \in Nat /\ MaxDeltas \in Nat /\ MaxRounds \in Nat
    BY ClientConstants
  <2>2. Renderer!Spec => []Renderer!TypeOK
    BY <2>1, Renderer!RendererTypes
  <2> QED
    BY <2>2, RendererRuns, PTL
<1>4. ClientSpec => []Tui!TypeOK
  <2>1. Home \in Sessions /\ MaxSends \in Nat /\ MaxAsks \in Nat /\ MaxTuiMishaps \in Nat
    BY ClientConstants
  <2>2. Tui!Spec => []Tui!TypeOK
    BY <2>1, Tui!SessionTypes DEF Tui!SessionConstants
  <2> QED
    BY <2>2, TuiRuns, PTL
<1>5. ClientSpec => []Settings!TypeOK
  <2>1. MaxEdits \in Nat /\ MaxOthers \in Nat
    BY ClientConstants
  <2>2. Settings!Spec => []Settings!TypeOK
    BY <2>1, SettingsTypes
  <2> QED
    BY <2>2, SettingsRuns, PTL
<1>6. ClientSpec => []Frames!TypeOK
  <2>1. MaxCount \in Nat /\ Limit \in Nat \ {0}
    BY ClientConstants
  <2>2. Frames!Spec => []Frames!TypeOK
    BY <2>1, FramesTypes
  <2> QED
    BY <2>2, FramesRun, PTL
<1>7. ClientSpec => []Stdin!TypeOK
  <2>1. BodyMax \in Nat \ {0, 1} /\ MaxItems \in Nat
    BY ClientConstants
  <2>2. Stdin!Spec => []Stdin!TypeOK
    BY <2>1, Stdin!SplitterTypes
  <2> QED
    BY <2>2, StdinRuns, PTL
<1>8. ClientSpec => []PartChosen
  <2>1. ClientInit => PartChosen
    BY DEF ClientInit, PartChosen
  <2>2. PartChosen /\ [ClientNext]_clientVars => PartChosen'
    BY DEF ClientNext, clientVars, PartChosen, Parts
  <2> QED
    BY <2>1, <2>2, PTL DEF ClientSpec
<1>9. /\ PartChosen /\ TypeOK /\ Driver!TypeOK /\ Renderer!TypeOK /\ Tui!TypeOK
      /\ Settings!TypeOK /\ Frames!TypeOK /\ Stdin!TypeOK
      => ClientTypeOK
  BY DEF ClientTypeOK, PartChosen, Parts
<1> QED
  BY <1>1, <1>2, <1>3, <1>4, <1>5, <1>6, <1>7, <1>8, <1>9, PTL

\* `wing -p` posts the messages of stdin in the order they were written, none twice, and
\* before a regular end all of them, for any number of lines (StdioDriver).
THEOREM ClientForwardsInOrder == ClientSpec => []ForwardedInOrder
<1>1. Driver!ForwardedInOrder => ForwardedInOrder
  BY DEF ForwardedInOrder
<1> QED
  BY <1>1, DriverRuns, MessagesInOrder, PTL

\* A regular end of `wing -p` leaves no message behind that no terminal event came after,
\* whatever the orchestrator interrupted or closed, and when (StdioDriver).
THEOREM ClientLeavesNothingOpen == ClientSpec => []LeavesNothingOpen
<1>1. Driver!LeavesNothingOpen => LeavesNothingOpen
  BY DEF LeavesNothingOpen
<1> QED
  BY <1>1, DriverRuns, RegularEndLeavesNothingOpen, PTL

\* Every control request the pump read is answered before it stops (StdioDriver).
THEOREM ClientAnswersRequests == ClientSpec => []RequestsAnswered
<1>1. Driver!RequestsAnswered => RequestsAnswered
  BY DEF RequestsAnswered
<1> QED
  BY <1>1, DriverRuns, RequestsAreAnswered, PTL

\* The frames `wing -p` prints nest, wherever a turn is cut, for any number of turns,
\* messages and deltas (StdioRenderer).
THEOREM ClientFramesNest == ClientSpec => []FramesNest
<1>1. Renderer!FramesNest => FramesNest
  BY DEF FramesNest
<1> QED
  BY <1>1, RendererRuns, Renderer!FramesAlwaysNest, PTL

\* Every turn of `wing -p` has one result of its own, and the exit code is that of the last
\* one (StdioRenderer).
THEOREM ClientHasOneResult == ClientSpec => []OneResultPerTurn
<1>1. Renderer!OneResultPerTurn => OneResultPerTurn
  BY DEF OneResultPerTurn
<1> QED
  BY <1>1, RendererRuns, Renderer!OneResultAlways, PTL

\* The reason of an interrupted turn says whether tool calls were cut (StdioRenderer).
THEOREM ClientReasonTellsPhase == ClientSpec => ReasonTellsPhase
BY RendererRuns, Renderer!ReasonTellsPhaseAlways DEF ReasonTellsPhase

\* In the TUI a text is sent at most once, over lost links, failed uploads, refused frames
\* and switches of the session (TuiSession).
THEOREM ClientSendsOnce == ClientSpec => []NeverSentTwice
<1>1. Tui!Spec => []Tui!NeverSentTwice
  BY ClientConstants, Tui!SentAtMostOnce DEF Tui!SessionConstants
<1>2. Tui!NeverSentTwice => NeverSentTwice
  BY DEF NeverSentTwice
<1> QED
  BY <1>1, <1>2, TuiRuns, PTL

\* A text is shown in one place: the composer, the pending queue or the history (TuiSession).
THEOREM ClientShowsOnce == ClientSpec => []ShownOnce
<1>1. Tui!Spec => []Tui!ShownOnce
  BY ClientConstants, Tui!ShownInOnePlace DEF Tui!SessionConstants
<1>2. Tui!ShownOnce => ShownOnce
  BY DEF ShownOnce
<1> QED
  BY <1>1, <1>2, TuiRuns, PTL

\* With every event handled, neither a panel nor the working flag outlives its turn
\* (TuiSession).
THEOREM ClientTurnLeavesNothing == ClientSpec => []NothingOutlivesTheTurn
<1>1. Tui!Spec => []Tui!NothingOutlivesTheTurn
  BY ClientConstants, Tui!TurnLeavesNothing DEF Tui!SessionConstants
<1>2. Tui!NothingOutlivesTheTurn => NothingOutlivesTheTurn
  BY DEF NothingOutlivesTheTurn
<1> QED
  BY <1>1, <1>2, TuiRuns, PTL

\* Whoever waits for the answer to a save loses no typed value to a late result, a reload or
\* another client's save (SettingsPanel).
THEOREM ClientKeepsTyped == ClientSpec => []TypedIsKept
<1>1. MaxEdits \in Nat
  BY ClientConstants
<1>2. Settings!Spec => []Settings!TypedIsKept
  BY <1>1, TypedStaysInThePanel
<1>3. Settings!TypedIsKept => TypedIsKept
  BY DEF TypedIsKept
<1> QED
  BY <1>2, <1>3, SettingsRuns, PTL

\* As long as no answer to a save meets another document than the saved one, no save takes
\* away what another client stored (SettingsPanel).
THEOREM ClientLosesNobodysSave == ClientSpec => NoUncrossedLoss
<1>1. MaxEdits \in Nat
  BY ClientConstants
<1>2. Settings!Spec => Settings!NoUncrossedLoss
  BY <1>1, NobodysSaveIsLost
<1> QED
  BY <1>2, SettingsRuns DEF NoUncrossedLoss

\* Events come whole, once and in order, and the stream breaks only over events that are too
\* large (FrameStream).
THEOREM ClientStreamIsWhole == ClientSpec => []StreamIsWhole
<1>1. MaxCount \in Nat /\ Limit \in Nat \ {0}
  BY ClientConstants
<1>2. Frames!Spec => []Frames!StreamIsWhole
  BY <1>1, StreamStaysWhole
<1>3. Frames!Spec => []Frames!BrokenForCause
  BY <1>1, OnlyBrokenForCause
<1>4. Frames!StreamIsWhole /\ Frames!BrokenForCause => StreamIsWhole
  BY DEF StreamIsWhole
<1> QED
  BY <1>2, <1>3, <1>4, FramesRun, PTL

\* The key reader gets every byte the user typed or pasted, in its order and whatever hold
\* expires, and on a steady link none of the protocol's; every packet reaches the protocol
\* machine (StdinSplitter).
THEOREM ClientBytesSorted == ClientSpec => []BytesAreSorted
<1>1. BodyMax \in Nat \ {0, 1}
  BY ClientConstants
<1>2. Stdin!Spec => []Stdin!UserBytesKept
  BY <1>1, Stdin!UserBytesComeOut
<1>3. Stdin!Spec => []Stdin!NothingLeaks
  BY <1>1, Stdin!ProtocolStaysInside
<1>4. Stdin!UserBytesKept /\ Stdin!NothingLeaks => BytesAreSorted
  BY DEF BytesAreSorted
<1> QED
  BY <1>2, <1>3, <1>4, StdinRuns, PTL

=============================================================================
