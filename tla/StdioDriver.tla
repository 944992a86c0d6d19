---------------------------- MODULE StdioDriver ----------------------------
(***************************************************************************)
(* `wing -p` and `--input-format stream-json` (stdio/mod.rs and            *)
(* stdio/stdin_handler.rs): the orchestrator writes lines, a pump task     *)
(* answers the control requests among them and hands on the messages, and  *)
(* the driver posts messages, follows the gateway's events and decides     *)
(* when the process ends.                                                  *)
(***************************************************************************)
EXTENDS Naturals, Sequences, SequencesExt

CONSTANTS MaxLines,     \* bound: lines the orchestrator writes
          StreamMayEnd  \* may the event stream or a POST fail?

VARIABLES
    resident, cliPrompt,   \* the mode, from the arguments
    written, hostEof,      \* the lines written so far, and has stdin been closed?
    read, pump, answered,  \* lines the pump took, its place, requests it answered
    messages,              \* from the pump to the driver, as line numbers
    driver, sending,       \* the driver's place, the message of its POST
    inTurn, eof,           \* ExitPolicy
    inbox, turn, events,   \* the gateway: backlog, running turn, events on their way
    forwarded, closedAfter, \* history: messages posted; how many were, at the last terminal
    failed                 \* history: an exit that is not the regular one

vars == <<resident, cliPrompt, written, hostEof, read, pump, answered, messages, driver,
          sending, inTurn, eof, inbox, turn, events, forwarded, closedAfter, failed>>
modeVars == <<resident, cliPrompt>>
hostVars == <<written, hostEof>>
pumpVars == <<read, pump, answered>>
policy   == <<inTurn, eof>>
gwVars   == <<inbox, turn, events>>
history  == <<forwarded, closedAfter, failed>>

\* A user message, one without text, the two requests that call the gateway, and
\* those answered at once (initialize, set_permission_mode, unsupported, malformed).
LineKinds == {"user", "empty", "interrupt", "set_model", "other"}
Requests == {"interrupt", "set_model", "other"}
Prompt == 0     \* the prompt of the command line, as a message number
NoMessage == 99
Kind(m) == IF m = Prompt THEN "user" ELSE written[m]

Init ==
    /\ resident \in BOOLEAN /\ cliPrompt \in BOOLEAN
    /\ written = <<>> /\ hostEof = FALSE
    /\ read = 0 /\ pump = "read" /\ answered = {}
    /\ messages = <<>>
    /\ driver = IF cliPrompt THEN "post" ELSE "prompt"
    /\ sending = IF cliPrompt THEN Prompt ELSE NoMessage
    /\ inTurn = FALSE /\ eof = FALSE
    /\ inbox = <<>> /\ turn = NoMessage /\ events = <<>>
    /\ forwarded = <<>> /\ closedAfter = 0 /\ failed = FALSE

-----------------------------------------------------------------------------
(* The orchestrator. *)
HostWrites ==
    /\ ~hostEof /\ Len(written) < MaxLines
    /\ \E k \in LineKinds : written' = Append(written, k)
    /\ UNCHANGED <<modeVars, hostEof, pumpVars, messages, driver, sending, policy, gwVars, history>>

HostCloses ==
    /\ ~hostEof /\ hostEof' = TRUE
    /\ UNCHANGED <<modeVars, written, pumpVars, messages, driver, sending, policy, gwVars, history>>

-----------------------------------------------------------------------------
(* pump_loop: a line that has arrived goes before the order to stop. *)
Dropped == driver \in {"finish", "exited"}     \* the driver's end of `messages`

\* Mutant: in resident mode too, only the first message.
DeliversFirst(m) ==
    ~cliPrompt /\ \A i \in 1..(m - 1) : written[i] \notin {"user", "empty"}

\* message_delivery and delivered_first
Delivers(m) ==
    \/ resident
    \/ ~cliPrompt /\ \A i \in 1..(m - 1) : written[i] \notin {"user", "empty"}

PumpMessage ==
    /\ pump = "read" /\ read < Len(written) /\ written[read + 1] \notin Requests
    /\ read' = read + 1
    /\ IF Delivers(read + 1)
       THEN IF Dropped
            THEN pump' = "done" /\ UNCHANGED messages
            ELSE messages' = Append(messages, read + 1) /\ UNCHANGED pump
       ELSE UNCHANGED <<pump, messages>>
    /\ UNCHANGED <<modeVars, hostVars, answered, driver, sending, policy, gwVars, history>>

PumpRequest ==
    /\ pump = "read" /\ read < Len(written) /\ written[read + 1] \in Requests
    /\ read' = read + 1
    /\ IF written[read + 1] = "other"
       THEN answered' = answered \cup {read + 1} /\ UNCHANGED pump
       ELSE pump' = "ack" /\ UNCHANGED answered
    /\ UNCHANGED <<modeVars, hostVars, messages, driver, sending, policy, gwVars, history>>

\* Mutant: when the wait is over, nothing is answered.
PumpGivesUp ==
    /\ pump = "ack"
    /\ pump' = "read" /\ UNCHANGED answered
    /\ UNCHANGED <<modeVars, hostVars, read, messages, driver, sending, policy, gwVars, history>>

\* The call's own answer, its failure or INTERRUPT_ACK_WAIT: an answer in any case.
PumpAnswers ==
    /\ pump = "ack"
    /\ pump' = "read" /\ answered' = answered \cup {read}
    /\ UNCHANGED <<modeVars, hostVars, read, messages, driver, sending, policy, gwVars, history>>

PumpStops ==
    /\ pump = "read" /\ read = Len(written)
    /\ hostEof \/ Dropped
    /\ pump' = "done"
    /\ UNCHANGED <<modeVars, hostVars, read, answered, messages, driver, sending, policy,
                   gwVars, history>>

-----------------------------------------------------------------------------
(* The gateway. A message it takes in starts a turn or joins the running one. *)
GwTurn ==
    /\ turn = NoMessage /\ inbox # <<>>
    /\ turn' = Head(inbox) /\ inbox' = Tail(inbox)
    /\ UNCHANGED events

GwSteer ==
    /\ turn # NoMessage /\ inbox # <<>>
    /\ inbox' = Tail(inbox)
    /\ UNCHANGED <<turn, events>>

GwTurnEnds ==
    /\ turn # NoMessage
    /\ turn' = NoMessage
    /\ events' = events \o <<"terminal", "done">>
    /\ UNCHANGED inbox

\* The interrupt the pump asked for: the backlog is dropped, and it is broadcast
\* whether a turn was running or not.
GwInterrupted ==
    /\ pump = "ack" /\ written[read] = "interrupt"
    /\ turn' = NoMessage /\ inbox' = <<>>
    /\ events' = Append(events, "terminal")

GatewayWorks ==
    /\ GwTurn \/ GwSteer \/ GwTurnEnds
    /\ UNCHANGED <<modeVars, hostVars, pumpVars, messages, driver, sending, policy, history>>

GatewayInterrupts ==
    /\ GwInterrupted
    /\ pump' = "read" /\ answered' = answered \cup {read}
    /\ UNCHANGED <<modeVars, hostVars, read, messages, driver, sending, policy, history>>

-----------------------------------------------------------------------------
(* The driver. *)
Post(m) == driver' = "post" /\ sending' = m

\* wait_prompt, and the first send: an empty one is skipped in resident mode.
TakePrompt ==
    /\ driver = "prompt" /\ messages # <<>>
    /\ messages' = Tail(messages)
    /\ IF resident /\ Kind(Head(messages)) = "empty"
       THEN driver' = "loop" /\ UNCHANGED sending
       ELSE Post(Head(messages))
    /\ UNCHANGED <<modeVars, hostVars, pumpVars, policy, gwVars, history>>

NoPrompt ==
    /\ driver = "prompt" /\ messages = <<>> /\ pump = "done"
    /\ driver' = "exited" /\ failed' = TRUE
    /\ UNCHANGED <<modeVars, hostVars, pumpVars, messages, sending, policy, gwVars, forwarded,
                   closedAfter>>

PostArrives ==
    /\ driver = "post"
    /\ driver' = "posted"
    /\ inbox' = IF Kind(sending) = "empty" THEN inbox ELSE Append(inbox, sending)
    /\ forwarded' = Append(forwarded, sending)
    /\ UNCHANGED <<modeVars, hostVars, pumpVars, messages, sending, policy, turn, events,
                   closedAfter, failed>>

\* Mutant: a message that was posted opens no turn.
PostReturnsIdle ==
    /\ driver = "posted"
    /\ driver' = "loop" /\ sending' = NoMessage
    /\ UNCHANGED <<modeVars, hostVars, pumpVars, messages, policy, gwVars, history>>

\* ExitPolicy::new(prompt_sent) and on_message
PostReturns ==
    /\ driver = "posted"
    /\ driver' = "loop" /\ inTurn' = TRUE /\ sending' = NoMessage
    /\ UNCHANGED <<modeVars, hostVars, pumpVars, messages, eof, gwVars, history>>

PostFails ==
    /\ StreamMayEnd /\ driver = "post"
    /\ driver' = "finish" /\ failed' = TRUE
    /\ UNCHANGED <<modeVars, hostVars, pumpVars, messages, sending, policy, gwVars, forwarded,
                   closedAfter>>

\* A terminal event ends the turn (on_terminal), and the process if nothing more
\* can come; `done` behind a terminal ends nothing.
TakeEvent ==
    /\ driver = "loop" /\ events # <<>>
    /\ events' = Tail(events)
    /\ IF Head(events) = "terminal"
       THEN /\ inTurn' = FALSE
            /\ closedAfter' = Len(forwarded)
            /\ driver' = IF ~resident \/ eof THEN "finish" ELSE "loop"
       ELSE UNCHANGED <<inTurn, closedAfter, driver>>
    /\ UNCHANGED <<modeVars, hostVars, pumpVars, messages, sending, eof, inbox, turn, forwarded,
                   failed>>

StreamEnds ==
    /\ StreamMayEnd /\ driver = "loop" /\ events = <<>>
    /\ driver' = "finish" /\ failed' = TRUE
    /\ UNCHANGED <<modeVars, hostVars, pumpVars, messages, sending, policy, gwVars, forwarded,
                   closedAfter>>

\* Mutant: an empty message is forwarded like any other.
TakeMessageEmpty ==
    /\ driver = "loop" /\ resident /\ messages # <<>>
    /\ messages' = Tail(messages)
    /\ Post(Head(messages))
    /\ UNCHANGED <<modeVars, hostVars, pumpVars, policy, gwVars, history>>

\* An empty message is not forwarded: no turn would ever answer it.
TakeMessage ==
    /\ driver = "loop" /\ resident /\ messages # <<>>
    /\ messages' = Tail(messages)
    /\ IF Kind(Head(messages)) = "empty" THEN UNCHANGED <<driver, sending>>
       ELSE Post(Head(messages))
    /\ UNCHANGED <<modeVars, hostVars, pumpVars, policy, gwVars, history>>

\* on_eof
TakeEof ==
    /\ driver = "loop" /\ resident /\ ~eof /\ messages = <<>> /\ pump = "done"
    /\ eof' = TRUE
    /\ driver' = IF inTurn THEN "loop" ELSE "finish"
    /\ UNCHANGED <<modeVars, hostVars, pumpVars, messages, sending, inTurn, gwVars, history>>

\* StdinPump::finish: wait for the pump, for PUMP_SHUTDOWN_GRACE at most.
Join ==
    /\ driver = "finish"
    /\ driver' = "exited"
    /\ pump' = IF pump = "done" THEN pump ELSE "killed"
    /\ UNCHANGED <<modeVars, hostVars, read, answered, messages, sending, policy, gwVars, history>>

-----------------------------------------------------------------------------
Pump == PumpMessage \/ PumpRequest \/ PumpAnswers \/ PumpStops
Gateway == GatewayWorks \/ GatewayInterrupts
DriverWorks == TakePrompt \/ NoPrompt \/ PostArrives \/ PostReturns \/ TakeEvent
               \/ TakeMessage \/ TakeEof \/ Join
Driver == DriverWorks \/ PostFails \/ StreamEnds

Next == driver # "exited" /\ (HostWrites \/ HostCloses \/ Pump \/ Gateway \/ Driver)

Spec == Init /\ [][Next]_vars

\* The executor runs the pump and the driver, and the gateway ends its turns; nothing has
\* to fail.
PumpStep == driver # "exited" /\ Pump
GatewayStep == driver # "exited" /\ GatewayWorks
DriverStep == driver # "exited" /\ DriverWorks
Fairness == WF_vars(PumpStep) /\ WF_vars(GatewayStep) /\ WF_vars(DriverStep)
FairSpec == Spec /\ Fairness

-----------------------------------------------------------------------------
\* The type of every variable; the pump answers no line it has not read.
TypeOK ==
    /\ resident \in BOOLEAN /\ cliPrompt \in BOOLEAN
    /\ written \in Seq(LineKinds) /\ Len(written) <= MaxLines /\ hostEof \in BOOLEAN
    /\ read \in 0..Len(written) /\ pump \in {"read", "ack", "done", "killed"}
    /\ answered \subseteq {i \in 1..read : written[i] \in Requests}
    /\ messages \in Seq(1..read) /\ inbox \in Seq(0..read)
    /\ driver \in {"prompt", "post", "posted", "loop", "finish", "exited"}
    /\ inTurn \in BOOLEAN /\ eof \in BOOLEAN /\ failed \in BOOLEAN
    /\ events \in Seq({"terminal", "done"})
    /\ closedAfter \in 0..Len(forwarded)

\* The messages asked for by the command line and the first n lines.
UserMessages(n) ==
    (IF cliPrompt THEN {Prompt} ELSE {}) \cup {i \in 1..n : written[i] = "user"}

\* In resident mode the messages are forwarded in the order they were written, none
\* twice and none passed over; and all of them were when the process ends regularly.
ForwardedInOrder ==
    resident =>
        LET asked == UserMessages(Len(written)) IN
        /\ \A i, j \in DOMAIN forwarded : i < j => forwarded[i] < forwarded[j]
        /\ ToSet(forwarded) \subseteq asked
        /\ \A m \in asked, k \in ToSet(forwarded) : m < k => m \in ToSet(forwarded)
        /\ driver = "exited" /\ ~failed => ToSet(forwarded) = asked

\* A regular end leaves no message behind that was forwarded after the last terminal
\* event: each was answered, or was queued behind the turn that event closed.
LeavesNothingOpen ==
    driver = "exited" /\ ~failed => closedAfter = Len(forwarded)

\* A request the pump got to read is answered before the process ends, unless the
\* grace ran out on it; on a regular resident end all of them are.
RequestsAnswered ==
    LET asked(n) == {i \in 1..n : written[i] \in Requests} IN
    /\ pump = "done" => answered = asked(read)
    /\ driver = "exited" /\ ~failed /\ resident => answered = asked(Len(written))

\* Closing stdin ends a resident process: whatever was interrupted, steered or empty,
\* the terminal event it then waits for comes.
EofEnds == resident /\ hostEof ~> driver = "exited"
=============================================================================
