------------------------------ MODULE MCAnswers ------------------------------
(***************************************************************************)
(* Who waits gets an answer: the callers that interrupt an agent, the host *)
(* that closes the stdin of `wing -p`, the editor that cancels a prompt of *)
(* `wing acp`.  The three run in different processes; `part` says which    *)
(* one is looked at, and the others stay where they begin.                 *)
(***************************************************************************)
EXTENDS AgentWorker

VARIABLES
    part,    \* the part of the client that runs
    drv_resident, drv_cliPrompt, drv_written, drv_hostEof, drv_read, drv_pump, drv_answered,
    drv_messages, drv_driver, drv_sending, drv_inTurn, drv_eof, drv_inbox, drv_turn,
    drv_events, drv_forwarded, drv_closedAfter, drv_failed,
    acp_table, acp_made, acp_entries, acp_gate, acp_streamDead, acp_pump, acp_outbound,
    acp_pc, acp_ent, acp_rx, acp_created, acp_reply, acp_gw, acp_evq, acp_interrupts,
    acp_mishaps, acp_endedBy

Driver == INSTANCE StdioDriver WITH
    MaxLines <- 2, StreamMayEnd <- TRUE, resident <- drv_resident,
    cliPrompt <- drv_cliPrompt, written <- drv_written, hostEof <- drv_hostEof,
    read <- drv_read, pump <- drv_pump, answered <- drv_answered, messages <- drv_messages,
    driver <- drv_driver, sending <- drv_sending, inTurn <- drv_inTurn, eof <- drv_eof,
    inbox <- drv_inbox, turn <- drv_turn, events <- drv_events, forwarded <- drv_forwarded,
    closedAfter <- drv_closedAfter, failed <- drv_failed

Acp == INSTANCE AcpSessions WITH
    Prompts <- {"p1", "p2"}, Loads <- {}, Closes <- {"c1"}, NoTask <- "none",
    MaxEntries <- 1, MaxMishaps <- 1, EventBuffer <- 6, OutboundBuffer <- 1,
    WsMayDie <- TRUE, TailInTime <- TRUE, ClientOverlaps <- FALSE, table <- acp_table,
    made <- acp_made, entries <- acp_entries, gate <- acp_gate,
    streamDead <- acp_streamDead, pump <- acp_pump, outbound <- acp_outbound, pc <- acp_pc,
    ent <- acp_ent, rx <- acp_rx, created <- acp_created, reply <- acp_reply, gw <- acp_gw,
    evq <- acp_evq, interrupts <- acp_interrupts, mishaps <- acp_mishaps,
    endedBy <- acp_endedBy

driverVars == <<drv_resident, drv_cliPrompt, drv_written, drv_hostEof, drv_read,
    drv_pump, drv_answered, drv_messages, drv_driver, drv_sending, drv_inTurn, drv_eof,
    drv_inbox, drv_turn, drv_events, drv_forwarded, drv_closedAfter, drv_failed>>
acpVars == <<acp_table, acp_made, acp_entries, acp_gate, acp_streamDead, acp_pump,
    acp_outbound, acp_pc, acp_ent, acp_rx, acp_created, acp_reply, acp_gw, acp_evq,
    acp_interrupts, acp_mishaps, acp_endedBy>>

\* A part that does not run is in one of its initial states, always the same, and one in
\* which no fairness asks it for a step.
AnswersInit ==
    /\ part \in {"agent", "driver", "acp"}
    /\ Init /\ Driver!Init /\ Acp!Init
    /\ part # "agent" => cur = CHOOSE w \in Workers : TRUE
    /\ part # "driver" => drv_resident /\ ~drv_cliPrompt

AnswersNext ==
    \/ part = "agent" /\ Next /\ UNCHANGED <<part, driverVars, acpVars>>
    \/ part = "driver" /\ Driver!Next /\ UNCHANGED <<part, vars, acpVars>>
    \/ part = "acp" /\ Acp!Next /\ UNCHANGED <<part, vars, driverVars>>

answersVars == <<part, vars, driverVars, acpVars>>

\* The fairness of each part: AgentWorker's for the callers alone, and that of
\* StdioDriver and AcpSessions.
AnswersSpec ==
    /\ AnswersInit /\ [][AnswersNext]_answersVars
    /\ CallerFairness
    /\ Driver!Fairness
    /\ Acp!Fairness

\* Closing stdin ends the process (StdioDriver).
EofEnds == Driver!EofEnds

\* A prompt that was cancelled is answered (AcpSessions).
CancelledIsAnswered == Acp!CancelledIsAnswered
=============================================================================
