---------------------------- MODULE MCWingClient -----------------------------
(***************************************************************************)
(* The wing client, part by part on small instances.  The parts share no   *)
(* state that these modules model, so each runs by itself: `part` is       *)
(* chosen at the start and the others stay where they begin.  A part with  *)
(* a proof module of its own is the instance of that module, so that       *)
(* WingClient_proofs can cite its theorems of these very parts; the        *)
(* driver, the settings panel and the event stream, proved there, are      *)
(* instances of their modules.                                             *)
(***************************************************************************)
EXTENDS AcpSessions, TLC

CONSTANTS
    MaxLines, StreamMayEnd,            \* of StdioDriver
    MaxTurns, MaxDeltas, MaxRounds,    \* of StdioRenderer
    Sessions, Home, MaxSends, MaxAsks, MaxSwitches, MaxTuiMishaps, \* of TuiSession
    MaxEdits, MaxOthers, MaxCalls, MaxSaveMishaps,  \* of SettingsPanel
    MaxEvents, MaxCount, MaxChunks, Limit,          \* of FrameStream
    MaxItems, BodyMax                  \* of StdinSplitter

\* The session first shown is one, the bounds are numbers, the limit of the stream lets
\* a frame through, and a body of the clipboard protocol has room for its terminator.
ASSUME ClientConstants ==
    /\ Home \in Sessions
    /\ {MaxLines, MaxTurns, MaxDeltas, MaxRounds, MaxSends, MaxAsks, MaxTuiMishaps} \subseteq Nat
    /\ {MaxEdits, MaxOthers, MaxCount, MaxItems} \subseteq Nat
    /\ Limit \in Nat \ {0} /\ BodyMax \in Nat \ {0, 1}

VARIABLES
    part,    \* the part of the client that runs
    drv_resident, drv_cliPrompt, drv_written, drv_hostEof, drv_read, drv_pump, drv_answered,
    drv_messages, drv_driver, drv_sending, drv_inTurn, drv_eof, drv_inbox, drv_turn,
    drv_events, drv_forwarded, drv_closedAfter, drv_failed,
    ren_format, ren_partial, ren_turns, ren_phase, ren_rounds, ren_calls, ren_deltas,
    ren_pending, ren_aborted, ren_rendered, ren_lastError, ren_stream, ren_minted, ren_exit,
    ren_out, ren_results,
    tui_shown, tui_draft, tui_pending, tui_cells, tui_panels, tui_working, tui_link,
    tui_conn, tui_chain, tui_failed, tui_upstream, tui_wire, tui_subs, tui_srv, tui_texts,
    tui_asks, tui_switches, tui_mishaps,
    set_panel, set_cache, set_opening, set_reloading, set_saving, set_config, set_snapshot,
    set_disk, set_gets, set_posts, set_wire, set_server, set_edits, set_invalid, set_others,
    set_calls, set_mishaps, set_typed, set_stored, set_given, set_crossed,
    frm_count, frm_sent, frm_wire, frm_pending, frm_buffered, frm_buffered_bytes,
    frm_delivered, frm_closed, frm_got,
    key_hold, key_rest, key_items, key_passthrough, key_sequences, key_reports, key_due,
    key_packets, key_cut

Driver == INSTANCE StdioDriver WITH
    resident <- drv_resident, cliPrompt <- drv_cliPrompt, written <- drv_written, hostEof <- drv_hostEof,
    read <- drv_read, pump <- drv_pump, answered <- drv_answered, messages <- drv_messages,
    driver <- drv_driver, sending <- drv_sending, inTurn <- drv_inTurn, eof <- drv_eof,
    inbox <- drv_inbox, turn <- drv_turn, events <- drv_events, forwarded <- drv_forwarded,
    closedAfter <- drv_closedAfter, failed <- drv_failed

Renderer == INSTANCE StdioRenderer_proofs WITH
    format <- ren_format,
    partial <- ren_partial, turns <- ren_turns, phase <- ren_phase, rounds <- ren_rounds,
    calls <- ren_calls, deltas <- ren_deltas, pending <- ren_pending,
    aborted <- ren_aborted, rendered <- ren_rendered, lastError <- ren_lastError,
    stream <- ren_stream, minted <- ren_minted, exit <- ren_exit, out <- ren_out,
    results <- ren_results

Tui == INSTANCE TuiSession_proofs WITH
    MaxMishaps <- MaxTuiMishaps, shown <- tui_shown, draft <- tui_draft, pending <- tui_pending,
    cells <- tui_cells, panels <- tui_panels, working <- tui_working, link <- tui_link,
    conn <- tui_conn, chain <- tui_chain, failed <- tui_failed, upstream <- tui_upstream,
    wire <- tui_wire, subs <- tui_subs, srv <- tui_srv, texts <- tui_texts,
    asks <- tui_asks, switches <- tui_switches, mishaps <- tui_mishaps

Settings == INSTANCE SettingsPanel WITH
    MaxMishaps <- MaxSaveMishaps, Hasty <- FALSE,
    panel <- set_panel, cache <- set_cache, opening <- set_opening,
    reloading <- set_reloading, saving <- set_saving, config <- set_config,
    snapshot <- set_snapshot, disk <- set_disk, gets <- set_gets, posts <- set_posts,
    wire <- set_wire, server <- set_server, edits <- set_edits, invalid <- set_invalid,
    others <- set_others, calls <- set_calls, mishaps <- set_mishaps, typed <- set_typed,
    stored <- set_stored, given <- set_given, crossed <- set_crossed

Frames == INSTANCE FrameStream WITH
    count <- frm_count, sent <- frm_sent, wire <- frm_wire, pending <- frm_pending, buffered <- frm_buffered,
    buffered_bytes <- frm_buffered_bytes, delivered <- frm_delivered, closed <- frm_closed,
    got <- frm_got

Stdin == INSTANCE StdinSplitter_proofs WITH
    Hasty <- FALSE, hold <- key_hold, rest <- key_rest,
    items <- key_items, passthrough <- key_passthrough, sequences <- key_sequences,
    reports <- key_reports, due <- key_due, packets <- key_packets, cut <- key_cut

driverVars == <<drv_resident, drv_cliPrompt, drv_written, drv_hostEof, drv_read,
    drv_pump, drv_answered, drv_messages, drv_driver, drv_sending, drv_inTurn, drv_eof,
    drv_inbox, drv_turn, drv_events, drv_forwarded, drv_closedAfter, drv_failed>>
rendererVars == <<ren_format, ren_partial, ren_turns, ren_phase, ren_rounds, ren_calls,
    ren_deltas, ren_pending, ren_aborted, ren_rendered, ren_lastError, ren_stream,
    ren_minted, ren_exit, ren_out, ren_results>>
tuiVars == <<tui_shown, tui_draft, tui_pending, tui_cells, tui_panels, tui_working,
    tui_link, tui_conn, tui_chain, tui_failed, tui_upstream, tui_wire, tui_subs, tui_srv,
    tui_texts, tui_asks, tui_switches, tui_mishaps>>
settingsVars == <<set_panel, set_cache, set_opening, set_reloading, set_saving,
    set_config, set_snapshot, set_disk, set_gets, set_posts, set_wire, set_server,
    set_edits, set_invalid, set_others, set_calls, set_mishaps, set_typed, set_stored,
    set_given, set_crossed>>
framesVars == <<frm_count, frm_sent, frm_wire, frm_pending, frm_buffered,
    frm_buffered_bytes, frm_delivered, frm_closed, frm_got>>
stdinVars == <<key_hold, key_rest, key_items, key_passthrough, key_sequences,
    key_reports, key_due, key_packets, key_cut>>

Parts == {"acp", "driver", "renderer", "tui", "settings", "frames", "stdin"}

\* A part that does not run is in one of its initial states, always the same.
ClientInit ==
    /\ part \in Parts
    /\ Init /\ Driver!Init /\ Renderer!Init /\ Tui!Init /\ Settings!Init /\ Frames!Init /\ Stdin!Init
    /\ part # "driver" => drv_resident /\ drv_cliPrompt
    /\ part # "renderer" => ren_format = "text" /\ ren_partial

ClientNext ==
    \/ /\ part = "acp" /\ Next
       /\ UNCHANGED <<part, driverVars, rendererVars, tuiVars, settingsVars, framesVars, stdinVars>>
    \/ /\ part = "driver" /\ Driver!Next
       /\ UNCHANGED <<part, vars, rendererVars, tuiVars, settingsVars, framesVars, stdinVars>>
    \/ /\ part = "renderer" /\ Renderer!Next
       /\ UNCHANGED <<part, vars, driverVars, tuiVars, settingsVars, framesVars, stdinVars>>
    \/ /\ part = "tui" /\ Tui!Next
       /\ UNCHANGED <<part, vars, driverVars, rendererVars, settingsVars, framesVars, stdinVars>>
    \/ /\ part = "settings" /\ Settings!Next
       /\ UNCHANGED <<part, vars, driverVars, rendererVars, tuiVars, framesVars, stdinVars>>
    \/ /\ part = "frames" /\ Frames!Next
       /\ UNCHANGED <<part, vars, driverVars, rendererVars, tuiVars, settingsVars, stdinVars>>
    \/ /\ part = "stdin" /\ Stdin!Next
       /\ UNCHANGED <<part, vars, driverVars, rendererVars, tuiVars, settingsVars, framesVars>>

clientVars == <<part, vars, driverVars, rendererVars, tuiVars, settingsVars, framesVars, stdinVars>>
ClientSpec == ClientInit /\ [][ClientNext]_clientVars

\* No action and no property tells two prompts apart.
Symmetry == Permutations(Prompts)

\* The type of every variable of the part that runs.
ClientTypeOK ==
    CASE part = "acp"      -> TypeOK
      [] part = "driver"   -> Driver!TypeOK
      [] part = "renderer" -> Renderer!TypeOK
      [] part = "tui"      -> Tui!TypeOK
      [] part = "settings" -> Settings!TypeOK
      [] part = "frames"   -> Frames!TypeOK
      [] part = "stdin"    -> Stdin!TypeOK

\* The messages of stdin are forwarded in the order they were written, none twice, and
\* before a regular end all of them (StdioDriver).
ForwardedInOrder == part = "driver" => Driver!ForwardedInOrder

\* A regular end leaves no message behind that no terminal event came after (StdioDriver).
LeavesNothingOpen == part = "driver" => Driver!LeavesNothingOpen

\* A control request that was read is answered (StdioDriver).
RequestsAnswered == part = "driver" => Driver!RequestsAnswered

\* The frames printed nest, wherever a turn is cut (StdioRenderer).
FramesNest == part = "renderer" => Renderer!FramesNest

\* A turn gets its result frame exactly once (StdioRenderer).
OneResultPerTurn == part = "renderer" => Renderer!OneResultPerTurn

\* An interrupt is reported as one of the tools when it hit tools (StdioRenderer).
ReasonTellsPhase == Renderer!ReasonTellsPhase

\* A text is sent to a model at most once (TuiSession).
NeverSentTwice == part = "tui" => Tui!NeverSentTwice

\* A text is shown in one place of the screen (TuiSession).
ShownOnce == part = "tui" => Tui!ShownOnce

\* Neither an ask panel nor the working flag outlives its turn (TuiSession).
NothingOutlivesTheTurn == part = "tui" => Tui!NothingOutlivesTheTurn

\* What is typed into the panel is kept until it is saved or given up (SettingsPanel).
TypedIsKept == part = "settings" => Settings!TypedIsKept

\* Saving takes away nothing that was saved before, while no answer crosses another
\* document (SettingsPanel).
NoUncrossedLoss == Settings!NoUncrossedLoss

\* Events are delivered whole, once and in order, and the stream breaks only over events
\* that are too large (FrameStream).
StreamIsWhole == part = "frames" => Frames!StreamIsWhole /\ Frames!BrokenForCause

\* The key reader gets all of the user's bytes and none of the protocol's (StdinSplitter).
BytesAreSorted == part = "stdin" => Stdin!UserBytesKept /\ Stdin!NothingLeaks
=============================================================================
