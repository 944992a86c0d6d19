--------------------------- MODULE StdioRenderer ---------------------------
(***************************************************************************)
(* What `wing -p` prints (stdio/renderer.rs, stdio/stream.rs): the gateway *)
(* runs turns, completed, failed or interrupted at any point, and the      *)
(* renderer turns their events into frames: stream events, assistant and   *)
(* tool result snapshots, and a result frame at the end of each turn.      *)
(***************************************************************************)
EXTENDS Naturals, Integers, Sequences, SequencesExt

CONSTANTS MaxTurns,    \* bound: turns
          MaxDeltas,   \* bound: stream deltas of a message
          MaxRounds    \* bound: messages of a turn

VARIABLES
    format, partial,    \* --output-format, --include-partial-messages
    turns, phase, rounds, calls, deltas, \* the turn the gateway is in
    pending, aborted,   \* pending_tools, tool_phase_aborted
    rendered, lastError, \* the terminal ledger
    stream,             \* the open message: id, open block, next index
    minted,             \* ids minted for stream messages
    exit,               \* exit code: "ok" | "failure"
    out,                \* the frames since the last result, that one last
    results             \* history: the result frames since the last turn began

vars == <<format, partial, turns, phase, rounds, calls, deltas, pending, aborted, rendered,
          lastError, stream, minted, exit, out, results>>
gwVars == <<turns, phase, rounds, calls, deltas>>
mode == <<format, partial>>

Kinds == {"text", "thinking", "toolA", "toolB"}
Closed == [id |-> 0, block |-> "none", index |-> 0, next |-> 0]
Frame(k, i) == [kind |-> k, at |-> i]

Init ==
    /\ format \in {"text", "json", "stream-json"} /\ partial \in BOOLEAN
    /\ turns = 0 /\ phase = "idle" /\ rounds = 0 /\ calls = 0 /\ deltas = 0
    /\ pending = 0 /\ aborted = FALSE /\ rendered = FALSE /\ lastError = FALSE
    /\ stream = Closed /\ minted = 0
    /\ exit = "ok" /\ out = <<>> /\ results = <<>>

-----------------------------------------------------------------------------
(* StreamState *)

StopBlock(s) == IF s.block = "none" THEN <<>> ELSE <<Frame("block_stop", s.index)>>

\* Mutant: the open block is forgotten.
CloseMessageOnly(s) ==
    IF s.id = 0 THEN <<>> ELSE <<Frame("message_delta", s.id), Frame("message_stop", s.id)>>

\* close_message
CloseMessage(s) ==
    IF s.id = 0 THEN <<>>
    ELSE StopBlock(s) \o <<Frame("message_delta", s.id), Frame("message_stop", s.id)>>

\* ensure_open and switch_block: the message and the block a delta needs
Opened(s) == IF s.id = 0 THEN [Closed EXCEPT !.id = minted + 1] ELSE s
Switched(s, k) == IF s.block = k THEN s
                  ELSE [s EXCEPT !.block = k, !.index = s.next, !.next = @ + 1]
DeltaFrames(s, k) ==
    (IF s.id = 0 THEN <<Frame("message_start", minted + 1)>> ELSE <<>>)
    \o (IF s.block = k THEN <<>> ELSE StopBlock(s) \o <<Frame("block_start", s.next)>>)
    \o <<Frame("delta", Switched(s, k).index)>>

-----------------------------------------------------------------------------
(* The frames a step prints; nothing but the result is kept of the past turns. *)
Ended == out # <<>> /\ Last(out).kind = "result"
Emit(frames) == out' = (IF Ended THEN <<>> ELSE out) \o frames

\* emit_synthesized_error, result_frame; the text format prints no frame.
ResultFrame == IF format = "text" THEN <<>> ELSE <<Frame("result", 0)>>
StreamJson == format = "stream-json"

\* reset_terminal_ledger
ResetLedger == rendered' = FALSE /\ lastError' = FALSE

-----------------------------------------------------------------------------
(* turn_started: begin_turn *)
\* Mutant: the tools of the turn before are not forgotten.
TurnStartedKeeping ==
    /\ phase = "idle" /\ turns < MaxTurns
    /\ turns' = turns + 1 /\ phase' = "streaming" /\ rounds' = 0 /\ calls' = 0 /\ deltas' = 0
    /\ ResetLedger
    /\ Emit(CloseMessage(stream)) /\ stream' = Closed
    /\ results' = <<>>
    /\ UNCHANGED <<mode, pending, aborted, minted, exit>>

TurnStarted ==
    /\ phase = "idle" /\ turns < MaxTurns
    /\ turns' = turns + 1 /\ phase' = "streaming" /\ rounds' = 0 /\ calls' = 0 /\ deltas' = 0
    /\ pending' = 0 /\ aborted' = FALSE
    /\ ResetLedger
    /\ Emit(CloseMessage(stream)) /\ stream' = Closed
    /\ results' = <<>>
    /\ UNCHANGED <<mode, minted, exit>>

\* text, reasoning and tool_call_stream deltas; the last one of a tool's arguments
\* closes its block.
Delta(k, final) ==
    /\ phase = "streaming" /\ deltas < MaxDeltas
    /\ final => k \in {"toolA", "toolB"}
    /\ deltas' = deltas + 1
    /\ IF StreamJson /\ partial
       THEN LET s == Switched(Opened(stream), k) IN
            /\ stream' = IF final THEN [s EXCEPT !.block = "none"] ELSE s
            /\ minted' = Opened(stream).id
            /\ Emit(DeltaFrames(stream, k) \o (IF final THEN StopBlock(s) ELSE <<>>))
       ELSE UNCHANGED <<stream, minted, out>>
    /\ UNCHANGED <<mode, turns, phase, rounds, calls, pending, aborted, rendered, lastError,
                   exit, results>>

\* assistant_turn: the snapshot takes the id of the streamed message.
AssistantTurn(tools) ==
    /\ phase = "streaming" /\ rounds < MaxRounds
    /\ rounds' = rounds + 1 /\ calls' = tools /\ deltas' = 0
    /\ phase' = IF tools = 0 THEN "final" ELSE "tools"
    /\ IF StreamJson
       THEN /\ Emit(CloseMessage(stream) \o <<Frame("assistant", stream.id)>>)
            /\ stream' = Closed
            /\ pending' = pending + tools /\ aborted' = FALSE
       ELSE UNCHANGED <<out, stream, pending, aborted>>
    /\ UNCHANGED <<mode, turns, rendered, lastError, minted, exit, results>>

\* tool_result_turn; an interrupt fills in results that are missing, those of calls
\* streamed in full whose message was never committed included.
ToolResult(cut) ==
    IF StreamJson
    THEN /\ aborted' = (aborted \/ cut)
         /\ pending' = IF pending > 0 THEN pending - 1 ELSE 0
         /\ Emit(<<Frame("tool_result", 0)>>)
    ELSE UNCHANGED <<out, pending, aborted>>

ToolResultTurn ==
    /\ phase = "tools" /\ calls > 0
    /\ calls' = calls - 1
    /\ phase' = IF calls = 1 THEN "streaming" ELSE "tools"
    /\ ToolResult(FALSE)
    /\ UNCHANGED <<mode, turns, rounds, deltas, rendered, lastError, stream, minted, exit,
                   results>>

CutToolResult ==
    /\ \/ phase \in {"tools", "cut"} /\ calls > 0 /\ calls' = calls - 1
       \/ phase = "streaming" /\ deltas > 0 /\ UNCHANGED calls
    /\ phase' = "cut"
    /\ ToolResult(TRUE)
    /\ UNCHANGED <<mode, turns, rounds, deltas, rendered, lastError, stream, minted, exit,
                   results>>

\* turn_result, after the last message, at the turn limit or on a failure, once even
\* before turn_started: handle_text, handle_json, handle_stream_json
NewTurn == turns < MaxTurns /\ turns' = turns + 1

TurnResult(ok) ==
    /\ \/ phase = "final"
       \/ ~ok /\ phase \in {"streaming", "tools"}
       \/ ~ok /\ phase = "idle" /\ NewTurn
    /\ phase # "idle" => UNCHANGED turns
    /\ phase' = IF ok THEN "tail" ELSE "failing"
    /\ rendered' = TRUE
    /\ Emit((IF StreamJson THEN CloseMessage(stream) ELSE <<>>) \o ResultFrame)
    /\ stream' = IF StreamJson THEN Closed ELSE stream
    /\ exit' = IF ~ok THEN "failure" ELSE IF StreamJson THEN "ok" ELSE exit
    /\ results' = Append(IF phase = "idle" THEN <<>> ELSE results, IF ok THEN "ok" ELSE "error")
    /\ UNCHANGED <<mode, rounds, calls, deltas, pending, aborted, lastError, minted>>

\* error: only noted. It comes before done, and alone when the worker's last resort
\* reports a turn that never got under way.
ErrorEvent ==
    /\ \/ phase = "failing" /\ phase' = "tail" /\ UNCHANGED <<turns, results>>
       \/ phase = "idle" /\ NewTurn /\ phase' = "broken" /\ results' = <<>>
    /\ lastError' = TRUE
    /\ UNCHANGED <<mode, rounds, calls, deltas, pending, aborted, rendered, stream, minted,
                   exit, out>>

\* Mutant: done does not ask whether the turn has its result.
DoneAlways ==
    /\ phase \in {"tail", "broken"}
    /\ phase' = "idle"
    /\ Emit(CloseMessage(stream) \o ResultFrame)
    /\ stream' = Closed
    /\ exit' = "failure"
    /\ results' = Append(results, "error")
    /\ ResetLedger
    /\ UNCHANGED <<mode, turns, rounds, calls, deltas, pending, aborted, minted>>

\* done: a turn without a result gets one here (handle_done).
Done ==
    /\ phase \in {"tail", "broken"}
    /\ phase' = "idle"
    /\ IF rendered
       THEN UNCHANGED <<out, stream, exit, results>>
       ELSE /\ Emit(CloseMessage(stream) \o ResultFrame)
            /\ stream' = Closed
            /\ exit' = "failure"
            /\ results' = Append(results, "error")
    /\ ResetLedger
    /\ UNCHANGED <<mode, turns, rounds, calls, deltas, pending, aborted, minted>>

\* interrupted, with a turn or without one: neither turn_result nor done follow
\* (handle_interrupted).
Reason == IF pending > 0 \/ aborted THEN "aborted_tools" ELSE "aborted_streaming"

Interrupted ==
    /\ phase \in {"idle", "streaming", "tools", "cut", "final"} /\ Len(results) < 2
    /\ phase' = "idle"
    /\ Emit(CloseMessage(stream) \o ResultFrame)
    /\ stream' = Closed
    /\ exit' = "ok"
    /\ results' = Append(results, Reason)
    /\ ResetLedger
    /\ UNCHANGED <<mode, turns, rounds, calls, deltas, pending, aborted, minted>>

\* One-shot formats end the process with the first terminal event.
Over == ~StreamJson /\ results # <<>>

Next ==
    /\ ~Over
    /\ \/ TurnStarted \/ ErrorEvent \/ Done \/ Interrupted
       \/ ToolResultTurn \/ CutToolResult
       \/ \E k \in Kinds, final \in BOOLEAN : Delta(k, final)
       \/ \E tools \in 0..2 : AssistantTurn(tools)
       \/ \E ok \in BOOLEAN : TurnResult(ok)

Spec == Init /\ [][Next]_vars

-----------------------------------------------------------------------------
Phases == {"idle", "streaming", "tools", "cut", "final", "failing", "tail", "broken"}

\* The type of every variable.
TypeOK ==
    /\ format \in {"text", "json", "stream-json"} /\ partial \in BOOLEAN
    /\ turns \in 0..MaxTurns /\ phase \in Phases /\ rounds \in 0..MaxRounds
    /\ calls \in 0..2 /\ deltas \in 0..MaxDeltas
    /\ pending \in 0..(2 * MaxRounds) /\ {aborted, rendered, lastError} \subseteq BOOLEAN
    /\ stream.id \in 0..minted /\ stream.block \in Kinds \cup {"none"}
    /\ stream.id = 0 => stream = Closed
    /\ exit \in {"ok", "failure"}
    /\ \A i \in 1..Len(results) :
          results[i] \in {"ok", "error", "aborted_tools", "aborted_streaming"}

\* A reader of the frames: outside of a message, in one or in a block of it, or lost; the
\* message, its next block, and the message closed last, which the next snapshot is of.
Reader(place, msg, next, last) ==
    [place |-> place, msg |-> msg, next |-> next, last |-> last]
Fresh == Reader("outside", 0, 0, 0)

Read(at, f) ==
    CASE f.kind = "message_start" /\ at.place = "outside" ->
            Reader("message", f.at, 0, at.last)
      [] f.kind = "block_start" /\ at.place = "message" /\ f.at = at.next ->
            Reader("block", at.msg, at.next + 1, at.last)
      [] f.kind = "delta" /\ at.place = "block" /\ f.at = at.next - 1 -> at
      [] f.kind = "block_stop" /\ at.place = "block" /\ f.at = at.next - 1 ->
            Reader("message", at.msg, at.next, at.last)
      [] f.kind = "message_delta" /\ at.place = "message" /\ f.at = at.msg -> at
      [] f.kind = "message_stop" /\ at.place = "message" /\ f.at = at.msg ->
            Reader("outside", 0, 0, f.at)
      [] f.kind = "assistant" /\ at.place = "outside" /\ f.at = at.last ->
            Reader("outside", 0, 0, 0)
      [] f.kind = "result" /\ at.place = "outside" -> at
      [] f.kind = "tool_result" /\ at.place # "lost" -> at
      [] OTHER -> Reader("lost", 0, 0, 0)

ReadFrames(at, frames) ==
    LET reader[i \in 0..Len(frames)] ==
          IF i = 0 THEN at ELSE Read(reader[i - 1], frames[i])
    IN  reader[Len(frames)]

\* The frames nest: deltas in their block, blocks in their message with rising indexes,
\* every message closed before its snapshot, which has its id, and before the result,
\* wherever the turn was cut.
FramesNest == ReadFrames(Fresh, out).place # "lost"

\* A turn gets its result frame exactly once, though done follows turn_result on some
\* paths, comes alone on others and not at all on an interrupt; and the exit code is that
\* of the last turn.
OneResultPerTurn ==
    /\ \A i, j \in DOMAIN results : {results[i], results[j]} \subseteq {"ok", "error"} => i = j
    /\ phase = "idle" /\ turns > 0 => results # <<>>
    /\ phase = "idle" /\ results # <<>> => (exit = "failure" <=> Last(results) = "error")

\* An interrupt of a turn is reported as one of its tools exactly when it hit tool calls.
ReasonTellsPhase ==
    [][phase # "idle" /\ Interrupted /\ StreamJson =>
         (Last(results') = "aborted_tools" <=> phase \in {"tools", "cut"})]_vars
=============================================================================
