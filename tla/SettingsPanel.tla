---------------------------- MODULE SettingsPanel ----------------------------
(***************************************************************************)
(* The settings panel of the TUI (app/settings.rs, shared/panels/settings, *)
(* the settings intents of app/runner.rs): the user edits two documents,   *)
(* the gateway's configuration, saved over HTTP under the fingerprint it   *)
(* was read with, and the TUI's own, previewed live and written to a local *)
(* file.  Requests run in the background and their results come back in    *)
(* any order, into whatever panel is open then.  The gateway's transaction *)
(* (apply_settings) is what the client relies on.                          *)
(*                                                                         *)
(* A document is the set of changes made to it; its fingerprint, a hash of *)
(* its content, is the document itself.                                    *)
(***************************************************************************)
EXTENDS Naturals, Sequences

CONSTANTS MaxEdits,    \* bound: values the user types
          MaxOthers,   \* bound: changes saved by other clients
          MaxCalls,    \* bound: requests of the panel
          MaxMishaps,  \* bound: failed requests and writes, session switches
          Hasty        \* does the user go on editing while a save is unanswered?

VARIABLES
    panel,              \* settings_panel, with its SettingsDoc
    cache,              \* settings_cache: a set of at most one snapshot
    opening, reloading, \* settings_pending, settings_reload_pending
    saving,             \* settings_save: a set of at most one document
    config, snapshot,   \* the effective configuration, config_snapshot
    disk,               \* the TUI's configuration file
    gets, posts,        \* requests under way
    wire,               \* settings_changed events on their way
    server,             \* the gateway's document
    edits, invalid,     \* changes typed, and those the gateway's validation refuses
    others, calls, mishaps,
    typed, stored, given, \* history: changes typed into the gateway's document, changes
                          \* it once held, changes the user gave up
    crossed               \* history: has an answer met another document than was saved?

appVars == <<panel, cache, opening, reloading, saving, config, snapshot, disk>>
netVars == <<gets, posts, wire, server>>
bounds  == <<edits, invalid, others, calls, mishaps>>
history == <<typed, stored, given, crossed>>
vars == <<appVars, netVars, bounds, history>>

Typed == 1..MaxEdits
Foreign == (MaxEdits + 1)..(MaxEdits + MaxOthers)
Changes == Typed \cup Foreign

Closed == [open |-> FALSE, gw |-> {}, base |-> {}, dirty |-> FALSE, ui |-> {},
           uiDirty |-> FALSE, stale |-> FALSE]
\* SettingsPanel::new over a snapshot of the gateway and the local file
Panel(state, local) == [Closed EXCEPT !.open = TRUE, !.gw = state.values,
                                      !.base = state.fingerprint, !.ui = local]

Init ==
    /\ panel = Closed /\ cache = {} /\ opening = FALSE /\ reloading = FALSE /\ saving = {}
    /\ config = {} /\ snapshot = {} /\ disk = {}
    /\ gets = {} /\ posts = {} /\ wire = <<>> /\ server = {}
    /\ edits = 0 /\ invalid = {} /\ others = 0 /\ calls = 0 /\ mishaps = 0
    /\ typed = {} /\ stored = {} /\ given = {} /\ crossed = FALSE

Mishap == mishaps < MaxMishaps /\ mishaps' = mishaps + 1
\* The user waits for a reload, and for a save unless in a hurry; the code holds nobody.
Calm == (reloading => gets = {}) /\ (posts = {} \/ Hasty)
Unsaved(p) == p.dirty \/ p.uiDirty

-----------------------------------------------------------------------------
(* The user in front of the panel. *)
\* FetchSettings and ReloadSettings: a task of its own that reads the gateway's document.
Fetch ==
    /\ calls < MaxCalls /\ calls' = calls + 1
    /\ gets' = gets \cup {[id |-> calls', read |-> FALSE, values |-> {}]}

\* open_settings_panel: from the cache at once when there is one, and refreshed behind.
OpenPanel ==
    /\ ~panel.open /\ Fetch
    /\ snapshot' = config
    /\ opening' = (cache = {})
    /\ \/ cache = {} /\ UNCHANGED panel
       \/ \E state \in cache : panel' = Panel(state, disk)
    /\ UNCHANGED <<cache, reloading, saving, config, disk, posts, wire, server, edits, invalid,
                   others, mishaps, history>>

\* write_value marks what it writes; in the interface's document it is previewed at once.
EditGateway(ok) ==
    /\ panel.open /\ Calm /\ edits < MaxEdits /\ edits' = edits + 1
    /\ panel' = [panel EXCEPT !.gw = @ \cup {edits'}, !.dirty = TRUE]
    /\ invalid' = IF ok THEN invalid ELSE invalid \cup {edits'}
    /\ typed' = typed \cup {edits'}
    /\ UNCHANGED <<cache, opening, reloading, saving, config, snapshot, disk, netVars, others,
                   calls, mishaps, stored, given, crossed>>

EditInterface ==
    /\ panel.open /\ Calm /\ edits < MaxEdits /\ edits' = edits + 1
    /\ panel' = [panel EXCEPT !.ui = @ \cup {edits'}, !.uiDirty = TRUE]
    /\ config' = panel'.ui
    /\ UNCHANGED <<cache, opening, reloading, saving, snapshot, disk, netVars, invalid, others,
                   calls, mishaps, history>>

\* reset_action: back to the default.
ResetValue(n) ==
    /\ panel.open /\ Calm /\ n \in panel.gw
    /\ panel' = [panel EXCEPT !.gw = @ \ {n}, !.dirty = TRUE]
    /\ given' = given \cup {n}
    /\ UNCHANGED <<cache, opening, reloading, saving, config, snapshot, disk, netVars, bounds, typed, stored,
                   crossed>>

\* SaveSettings: the interface's half is written here and now and settled, then the
\* gateway's half is sent, or settled at once if it is clean or nobody is connected.
SaveSettings(written, connected) ==
    /\ panel.open /\ Calm /\ Unsaved(panel)
    /\ IF (panel.uiDirty => written) /\ (panel.dirty => connected) THEN UNCHANGED mishaps ELSE Mishap
    /\ IF panel.uiDirty /\ written
       THEN disk' = panel.ui /\ snapshot' = panel.ui /\ panel' = [panel EXCEPT !.uiDirty = FALSE]
       ELSE UNCHANGED <<disk, snapshot, panel>>
    /\ IF panel.dirty /\ connected
       THEN /\ calls < MaxCalls /\ calls' = calls + 1
            /\ saving' = {panel.gw}
            /\ posts' = posts \cup {[id |-> calls', base |-> panel.base, doc |-> panel.gw,
                                     answer |-> "none"]}
       ELSE saving' = {} /\ UNCHANGED <<calls, posts>>
    /\ UNCHANGED <<cache, opening, reloading, config, gets, wire, server, edits, invalid, others,
                   history>>

\* reload_settings, confirmed when something is unsaved: the interface from the file at
\* once, the gateway's document when it comes.
ReloadSettings ==
    /\ panel.open /\ Calm /\ Fetch
    /\ panel' = [panel EXCEPT !.ui = disk, !.uiDirty = FALSE]
    /\ config' = disk /\ snapshot' = disk
    /\ reloading' = TRUE
    /\ given' = given \cup (panel.gw \cap Typed)
    /\ UNCHANGED <<cache, opening, saving, disk, posts, wire, server, edits, invalid, others,
                   mishaps, typed, stored, crossed>>

\* close_settings_panel: what is marked unsaved is only given up when the user confirms.
ClosePanel ==
    /\ panel.open
    /\ panel' = Closed /\ opening' = FALSE /\ reloading' = FALSE
    /\ config' = IF Unsaved(panel) THEN snapshot ELSE config
    /\ given' = IF Unsaved(panel) THEN given \cup (panel.gw \cap Typed) ELSE given
    /\ UNCHANGED <<cache, saving, snapshot, disk, netVars, bounds, typed, stored, crossed>>

-----------------------------------------------------------------------------
(* Results. *)
\* handle_fetch_result drops what was asked for in another session; a request that failed,
\* before or after the gateway saw it, changes nothing but forgets what was being saved.
DropResult ==
    /\ Mishap
    /\ \/ \E g \in gets : gets' = gets \ {g} /\ UNCHANGED <<posts, saving>>
       \/ \E p \in posts : posts' = posts \ {p} /\ saving' \in {saving, {}} /\ UNCHANGED gets
    /\ UNCHANGED <<panel, cache, opening, reloading, config, snapshot, disk, wire, server, edits,
                   invalid, others, calls, history>>

\* apply_snapshot
Snapshot(p, state) == [p EXCEPT !.gw = state.values, !.base = state.fingerprint,
                                !.dirty = FALSE, !.stale = FALSE]

\* Mutant: a refresh goes over what was typed meanwhile.
AppliesAlways(p) == TRUE

\* A reload is taken in whatever the panel holds, a refresh only into a clean one.
Applies(p) == reloading \/ ~Unsaved(p)

\* handle_settings_fetch
SettingsFetched(g) ==
    /\ g.read /\ gets' = gets \ {g}
    /\ reloading' = FALSE /\ opening' = FALSE
    /\ LET state == [values |-> g.values, fingerprint |-> g.values] IN
       /\ cache' = {state}
       /\ panel' = IF panel.open THEN IF Applies(panel) THEN Snapshot(panel, state) ELSE panel
                   ELSE IF opening THEN Panel(state, disk) ELSE panel
    /\ UNCHANGED <<saving, config, snapshot, disk, posts, wire, server, bounds, history>>

\* apply_save: the document that is now in the panel becomes the saved one.
Baseline(p, fingerprint) == [p EXCEPT !.base = fingerprint, !.dirty = FALSE, !.stale = FALSE]

\* An answer meets the panel of the document that was saved, and the cache of it.
Meets(p) ==
    /\ panel.open => panel.base = p.base
    /\ \A c \in cache : c.fingerprint = p.base /\ (p.answer = "saved" => saving = {p.doc})

\* settle_gateway_save
SettingsSaved(p) ==
    /\ p.answer # "none" /\ posts' = posts \ {p}
    /\ saving' = {}
    /\ panel' = IF ~panel.open THEN panel
                ELSE CASE p.answer = "saved"    -> Baseline(panel, p.doc)
                       [] p.answer = "refused"  -> [panel EXCEPT !.base = p.base]
                       [] p.answer = "conflict" -> [panel EXCEPT !.stale = TRUE]
    /\ cache' = CASE p.answer = "saved" ->
                        {[fingerprint |-> p.doc, values |-> IF saving = {} THEN c.values
                                                            ELSE CHOOSE d \in saving : TRUE] : c \in cache}
                  [] p.answer = "refused" -> {[c EXCEPT !.fingerprint = p.base] : c \in cache}
                  [] OTHER -> cache
    /\ crossed' = (crossed \/ (p.answer # "conflict" /\ ~Meets(p)))
    /\ UNCHANGED <<opening, reloading, config, snapshot, disk, gets, wire, server, bounds, typed,
                   stored, given>>

\* Mutant: the change event moves the panel's base along.
SettingsChangedRebased ==
    /\ wire # <<>> /\ wire' = Tail(wire)
    /\ panel' = IF panel.open THEN [panel EXCEPT !.base = Head(wire)] ELSE panel
    /\ cache' = IF panel.open THEN cache ELSE {}
    /\ UNCHANGED <<opening, reloading, saving, config, snapshot, disk, gets, posts, server, bounds,
                   history>>

\* note_settings_changed
SettingsChanged ==
    /\ wire # <<>> /\ wire' = Tail(wire)
    /\ panel' = IF panel.open THEN [panel EXCEPT !.stale = (Head(wire) # panel.base)] ELSE panel
    /\ cache' = IF panel.open THEN cache ELSE {}
    /\ UNCHANGED <<opening, reloading, saving, config, snapshot, disk, gets, posts, server, bounds,
                   history>>

-----------------------------------------------------------------------------
(* The gateway. *)
ReadDocument(g) ==
    /\ ~g.read
    /\ gets' = (gets \ {g}) \cup {[g EXCEPT !.read = TRUE, !.values = server]}
    /\ UNCHANGED <<appVars, posts, wire, server, bounds, history>>

\* apply_settings: the fingerprint first, then the validation, then all or nothing.
ApplySettings(p) ==
    /\ p.answer = "none"
    /\ LET answer == IF p.base # server THEN "conflict"
                     ELSE IF p.doc \cap invalid # {} THEN "refused" ELSE "saved"
       IN  /\ posts' = (posts \ {p}) \cup {[p EXCEPT !.answer = answer]}
           /\ IF answer = "saved"
              THEN server' = p.doc /\ wire' = Append(wire, p.doc) /\ stored' = stored \cup p.doc
              ELSE UNCHANGED <<server, wire, stored>>
    /\ UNCHANGED <<appVars, gets, bounds, typed, given, crossed>>

OtherSaves ==
    /\ others < MaxOthers /\ others' = others + 1
    /\ server' = server \cup {MaxEdits + others'}
    /\ wire' = Append(wire, server')
    /\ UNCHANGED <<appVars, gets, posts, edits, invalid, calls, mishaps, history>>

-----------------------------------------------------------------------------
Next ==
    \/ OpenPanel \/ EditInterface \/ ReloadSettings \/ ClosePanel
    \/ \E ok \in BOOLEAN : EditGateway(ok)
    \/ \E n \in Changes : ResetValue(n)
    \/ \E written, connected \in BOOLEAN : SaveSettings(written, connected)
    \/ DropResult \/ SettingsChanged \/ OtherSaves
    \/ \E g \in gets : SettingsFetched(g) \/ ReadDocument(g)
    \/ \E p \in posts : SettingsSaved(p) \/ ApplySettings(p)

Spec == Init /\ [][Next]_vars

-----------------------------------------------------------------------------
\* The type of every variable.
TypeOK ==
    /\ panel.open \in BOOLEAN /\ {panel.dirty, panel.uiDirty, panel.stale} \subseteq BOOLEAN
    /\ panel.gw \cup panel.base \subseteq Changes /\ panel.ui \subseteq Typed
    /\ ~panel.open => panel = Closed
    /\ \A c \in cache : c.values \cup c.fingerprint \subseteq Changes
    /\ {opening, reloading, crossed} \subseteq BOOLEAN
    /\ \A d \in saving : d \subseteq Changes
    /\ config \cup snapshot \cup disk \subseteq Typed /\ server \subseteq Changes
    /\ \A p \in posts : p.answer \in {"none", "saved", "refused", "conflict"}

\* A value typed into the gateway's document is in the panel until the gateway has it or
\* the user gives it up: no result, late or of another request, takes it away, and the
\* panel is not closed over it unasked (handle_settings_fetch, the Esc ladder).
TypedIsKept == typed \subseteq stored \cup given \cup panel.gw

\* Saving never takes away what somebody else has saved, nor an earlier save of one's own,
\* unless the user did: the fingerprint a document is saved under is the one of the
\* document it was edited from (reload_gateway, mark_baseline, note_settings_changed).
NoLostUpdate == [][server \ server' \subseteq given]_vars

\* It can only happen after the answer to a save has met another document than the one
\* that was saved, in the panel or in the cache, and has left it that of another fingerprint.
NoUncrossedLoss == [][~crossed => server \ server' \subseteq given]_vars
=============================================================================
