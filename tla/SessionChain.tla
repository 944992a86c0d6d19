---------------------------- MODULE SessionChain ----------------------------
(***************************************************************************)
(* The message chain of one session: the TrackedList in memory             *)
(* (libs/core/wing/chain.py), its append-only log on disk (store/file.py), *)
(* and the ContextManager that compacts, rewinds and reloads it            *)
(* (context/{manager,compaction}.py).                                      *)
(*                                                                         *)
(* The code between two awaits is one action.  What runs across awaits is  *)
(* a model call (turn = "calling"), the background compaction (task) and a *)
(* manual compaction (manual); the user, the tools, a rewind or an event   *)
(* may change the chain under each of them.                                *)
(*                                                                         *)
(* A token is a message: estimate_tokens() is 1 for each, and the usage a  *)
(* model call reports is the length of the window it was sent.             *)
(***************************************************************************)
EXTENDS Integers, SequencesExt, FiniteSetsExt, Filter

CONSTANTS
  None,         \* no compaction pending, running or asked for
  Window,       \* context_window_tokens: apply a compaction from here on
  Keep,         \* keep_recent_tokens: start one this much earlier
  Mishaps,      \* kinds of mishap that may happen
  MaxNodes,     \* bound: nodes ever created
  MaxExtras     \* bound: events, reminders, rewinds, manual compactions,
                \* restarts and kinds of mishap, together

ASSUME ChainAssumption ==
  /\ Window \in Nat /\ Keep \in Nat /\ Keep < Window
  /\ Mishaps \subseteq {"lost_report", "lost_write", "lost_root", "half_batch",
                        "overtaken", "moved_call", "stale_aux"}
  /\ MaxNodes \in Nat /\ MaxExtras \in Nat

VARIABLES
  node,     \* every node ever created, in the order of its uuid
  lines,    \* TrackedList._lines_order; its range is the keys of _all_items
  data,     \* TrackedList._data, the active chain
  tip,      \* TrackedList._last_uuid
  disk,     \* the records of history.jsonl
  aux,      \* pending_compact.json
  pending,  \* _pending_compact_result
  task,     \* what the running _pending_compact_task summarises
  manual,   \* what a do_manual_compact in flight summarises
  turn,     \* the agent's turn: idle, ready to call the model, calling it
  call,     \* the window the model call in flight was sent
  alive,    \* the session is in memory
  due,      \* history: the facts the model's context has to stand for
  mishaps,  \* history: the kinds of mishap so far
  spent     \* bound: extras so far

chainVars   == <<node, lines, data, tip, disk>>
compactVars == <<aux, pending, task>>
turnVars    == <<turn, call>>
histVars    == <<due, mishaps, spent>>
vars == <<chainVars, compactVars, manual, turnVars, alive, histVars>>

NoNode == 0
Kinds  == {"user", "call", "result", "answer", "event", "summary", "mark"}

-----------------------------------------------------------------------------
(* Nodes.  Beside the fields of a ChainNode (parent_uuid, unzip_last_uuid,  *)
(* usage_boundary_uuid, tool_call_id), a node carries two ghosts: `says`,   *)
(* the facts its text stands for (itself for an original; a copy says what  *)
(* its original says, a summary what it summarises), and `seen`, the window *)
(* its usage measured, so that usage.prompt_tokens = Len(seen).             *)

Fresh == Len(node) + 1

Original(kind, id, toolCall, seen) ==
  [kind |-> kind, parent |-> NoNode, unzip |-> NoNode, boundary |-> NoNode,
   call |-> toolCall, seen |-> seen,
   says |-> IF kind = "event" THEN {} ELSE {id}]

MessageNodes(n) == {u \in DOMAIN n : n[u].kind # "event"}

\* The Message projection of a chain (get_context_window).
Messages(chain) == Within(chain, MessageNodes(node))

Says(n, chain) ==
  LET msgs == Within(chain, MessageNodes(n))
  IN  [i \in DOMAIN msgs |-> n[msgs[i]].says]

Facts(chain) == UNION {node[u].says : u \in ToSet(chain)}

PositionOf(s, u) == CHOOSE i \in DOMAIN s : s[i] = u

-----------------------------------------------------------------------------
(* Tracing the chain in the memory map.                                     *)

TraceChain(n, known, leaf) ==
  LET up[u \in 0..Len(n)] ==
        IF u \in known THEN Append(up[n[u].parent], u) ELSE <<>>
  IN  up[leaf]

\* As TraceChain, but through the interval behind a compaction node.
Unzipped(n) ==
  [u \in DOMAIN n |->
     [parent |-> IF n[u].parent = NoNode THEN n[u].unzip ELSE n[u].parent]]

WalkFullChain(n, known, leaf) == TraceChain(Unzipped(n), known, leaf)

\* Mutant: the first leaf in the file wins.
LeafUuidFirst(n, ids) ==
  LET parents == {n[u].parent : u \in ToSet(ids)}
  IN  Head(Within(ids, ToSet(ids) \ parents))

LeafUuid(n, ids) ==
  LET parents == {n[u].parent : u \in ToSet(ids)}
      leaves  == Within(ids, ToSet(ids) \ parents)
  IN  IF leaves = <<>> THEN Last(ids) ELSE Last(leaves)

LoadChain(n, ids) ==
  IF ids = <<>> THEN <<>> ELSE TraceChain(n, ToSet(ids), LeafUuid(n, ids))

-----------------------------------------------------------------------------
(* Writing.  A write of TrackedList changes the memory first and the disk   *)
(* after it; when the disk fails, what the memory already did stays, and any *)
(* number of the records may have reached the file (write, flush, fsync).   *)

\* Mutant: the records are filed under the next free uuids.
IdsShifted(batch) == [i \in DOMAIN batch |-> Len(node) + i + 1]

Ids(batch) == [i \in DOMAIN batch |-> Len(node) + i]

\* _ensure_type: the first node hangs below the tip, each other one below
\* the node before it.
Linked(batch) ==
  [i \in DOMAIN batch |->
     [batch[i] EXCEPT !.parent = IF i = 1 THEN tip ELSE Len(node) + i - 1]]

Grow(batch) ==
  /\ Len(node) + Len(batch) <= MaxNodes
  /\ node' = node \o Linked(batch)
  /\ data' = data \o Ids(batch)
  /\ tip'  = Last(Ids(batch))

AppendOK(batch) ==     \* append and extend, when the log takes the records
  /\ Grow(batch)
  /\ lines' = lines \o Ids(batch)
  /\ disk'  = disk \o Ids(batch)

AppendFails(x) ==      \* append raises before _update_memory
  /\ Grow(<<x>>)
  /\ disk' \in {disk, disk \o Ids(<<x>>)}
  /\ UNCHANGED lines

ExtendFails(batch) ==  \* extend raises after it
  /\ Grow(batch)
  /\ lines' = lines \o Ids(batch)
  /\ \E k \in 0..Len(batch) : disk' = disk \o SubSeq(Ids(batch), 1, k)

\* append_detached for each node of the batch, then set_tip on the last.
Reroot(batch) ==
  LET ids == Ids(batch) IN
  /\ Len(node) + Len(batch) <= MaxNodes
  /\ node'  = node \o batch
  /\ lines' = lines \o ids
  /\ disk'  = disk \o ids
  /\ tip'   = Last(ids)
  /\ data'  = TraceChain(node', ToSet(lines'), tip')

\* The k-th append_detached raises.
RerootFails(batch) ==
  /\ Len(node) + Len(batch) <= MaxNodes
  /\ node' = node \o batch
  /\ \E k \in DOMAIN batch :
       LET ids == SubSeq(Ids(batch), 1, k) IN
       /\ data'  = data \o ids
       /\ tip'   = Last(ids)
       /\ lines' = lines \o Front(ids)
       /\ disk'  \in {disk \o Front(ids), disk \o ids}

\* Each kind of mishap happens at most once (a bound).
MayHappen(kinds) ==
  /\ kinds \subseteq Mishaps \ mishaps
  /\ spent + Cardinality(mishaps \cup kinds) <= MaxExtras
  /\ mishaps' = mishaps \cup kinds

\* Bound: no model is called when its answer could not be written any more.
Room == Len(node) < MaxNodes

Spend ==
  /\ spent + Cardinality(mishaps) < MaxExtras
  /\ spent' = spent + 1

-----------------------------------------------------------------------------
(* The size of the context.                                                 *)

\* The last position whose usage is not to be trusted; -1 is the None of
\* _usage_trust_start: the last boundary cannot be resolved, trust nothing.
UsageTrustStart ==
  LET marked   == {i \in DOMAIN data : node[data[i]].boundary # NoNode}
      bound(i) == node[data[i]].boundary
      known    == {i \in marked : bound(i) \in ToSet(data)}
  IN  IF marked # {} /\ Max(marked) \notin known THEN -1
      ELSE Max({0} \cup {PositionOf(data, bound(i)) : i \in known})

\* The node whose usage _last_prompt_tokens returns.
LastUsage ==
  LET start   == UsageTrustStart
      trusted == {i \in DOMAIN data : i > start /\ node[data[i]].seen # <<>>}
  IN  IF start = -1 \/ trusted = {} THEN NoNode ELSE data[Max(trusted)]

ContextTokens ==
  LET last == LastUsage
  IN  IF last = NoNode THEN Len(Messages(data)) ELSE Len(node[last].seen)

-----------------------------------------------------------------------------
(* Cutting the window (Compactor._calc_cut_idx, _find_safe_cut_idx).        *)

\* Mutant: the budget cuts, open tool calls or not.
FindSafeCutIdxAnywhere(msgs, cut) == cut

FindSafeCutIdx(msgs, cut) ==
  LET calls(i, j)   == {node[msgs[k]].call : k \in
                          {l \in i..j : node[msgs[l]].kind = "call"}}
      results(i, j) == {node[msgs[k]].call : k \in
                          {l \in i..j : node[msgs[l]].kind = "result"}}
      open   == calls(1, cut) \ results(1, cut)
      closed == {j \in cut..Len(msgs) : open \subseteq results(cut + 1, j)}
  IN  IF closed = {} THEN Len(msgs) ELSE Min(closed)

CalcCutIdx(msgs) ==
  IF msgs = <<>> THEN 0
  ELSE FindSafeCutIdx(msgs, Min({Len(msgs), Window - Keep}))

-----------------------------------------------------------------------------
Init ==
  /\ node = <<>> /\ lines = <<>> /\ data = <<>> /\ tip = NoNode /\ disk = <<>>
  /\ aux = None /\ pending = None /\ task = None /\ manual = None
  /\ turn = "idle" /\ call = <<>> /\ alive = TRUE
  /\ due = {} /\ mishaps = {} /\ spent = 0

(* The turn.                                                                *)

\* run_turn adds the merged input to the context.
UserMessage ==
  /\ alive /\ turn = "idle"
  /\ AppendOK(<<Original("user", Fresh, NoNode, <<>>)>>)
  /\ turn' = "ready"
  /\ due' = due \cup {Fresh}
  /\ UNCHANGED <<compactVars, manual, call, alive, mishaps, spent>>

\* The write raises; run_turn reports it and ends.
UserMessageFails ==
  /\ alive /\ turn = "idle"
  /\ AppendFails(Original("user", Fresh, NoNode, <<>>))
  /\ MayHappen({"lost_write"})
  /\ due' = due \cup {Fresh}
  /\ UNCHANGED <<compactVars, manual, turnVars, alive, spent>>

\* _verify_snapshot_valid
SnapshotValid(msgs) ==
  \E i, j \in DOMAIN msgs :
    i <= j /\ msgs[i] = pending.start /\ msgs[j] = pending.end

\* Mutant: the first message behind the interval is not copied.
CompactBatchShort(msgs) ==
  LET end  == PositionOf(msgs, pending.end)
      tail == SubSeq(msgs, end + 2, Len(msgs))
  IN  <<[kind |-> "summary", parent |-> NoNode, unzip |-> pending.end,
         boundary |-> Fresh + Len(tail), call |-> NoNode, seen |-> <<>>,
         says |-> pending.says]>>
      \o [i \in DOMAIN tail |->
            [node[tail[i]] EXCEPT !.parent = Fresh + i - 1, !.boundary = NoNode]]

\* Mutant: the summary declares its own position the boundary, so the usage
\* the copies carry is trusted.
CompactBatchTrusting(msgs) ==
  LET end  == PositionOf(msgs, pending.end)
      tail == SubSeq(msgs, end + 1, Len(msgs))
  IN  <<[kind |-> "summary", parent |-> NoNode, unzip |-> pending.end,
         boundary |-> Fresh, call |-> NoNode, seen |-> <<>>,
         says |-> pending.says]>>
      \o [i \in DOMAIN tail |->
            [node[tail[i]] EXCEPT !.parent = Fresh + i - 1, !.boundary = NoNode]]

\* The nodes _apply_pending_compact writes: the summary as a new root, then
\* a copy of each message behind the interval.
CompactBatch(msgs) ==
  LET end  == PositionOf(msgs, pending.end)
      tail == SubSeq(msgs, end + 1, Len(msgs))
      copy(i) == Fresh + i
      moved(u) == IF u \in ToSet(tail) THEN copy(PositionOf(tail, u)) ELSE NoNode
  IN  <<[kind |-> "summary", parent |-> NoNode, unzip |-> pending.end,
         boundary |-> copy(Len(tail)), call |-> NoNode, seen |-> <<>>,
         says |-> pending.says]>>
      \o [i \in DOMAIN tail |->
            [node[tail[i]] EXCEPT !.parent = copy(i - 1), !.boundary = moved(@)]]

WantsApply == pending # None /\ ContextTokens >= Window
CanApply   == WantsApply /\ SnapshotValid(Messages(data))

\* write_aux and delete_aux may fail; the failure is swallowed.
SaveAux(pc) ==
  \/ aux' = pc /\ UNCHANGED mishaps
  \/ aux # pc /\ UNCHANGED aux /\ MayHappen({"stale_aux"})

\* get_messages_for_llm swaps the prepared summary in and calls the model.
ApplyAndCall ==
  /\ alive /\ turn = "ready" /\ CanApply
  /\ Reroot(CompactBatch(Messages(data)))
  /\ pending' = None /\ task' = None /\ SaveAux(None)
  /\ turn' = "calling" /\ call' = Says(node', data')
  /\ UNCHANGED <<manual, alive, due, spent>>

\* A write of the swap raises; the turn ends with the pending result kept.
ApplyFails ==
  /\ alive /\ turn = "ready" /\ CanApply
  /\ RerootFails(CompactBatch(Messages(data)))
  /\ MayHappen({"lost_root"})
  /\ turn' = "idle"
  /\ UNCHANGED <<compactVars, manual, call, alive, due, spent>>

\* What _start_background_compact sets out to summarise.
Background(msgs) ==
  LET head == IF msgs # <<>> /\ node[Last(msgs)].kind = "user"
              THEN Front(msgs) ELSE msgs
      cut  == CalcCutIdx(head)
  IN  IF cut = 0 THEN None
      ELSE [start |-> head[1], end |-> head[cut],
            says |-> Facts(SubSeq(head, 1, cut))]

\* get_messages_for_llm leaves the window as it is.  A due result that no
\* longer fits the chain is discarded; without a result and a running task a
\* new task starts once the context is large enough.
CallModel ==
  /\ alive /\ turn = "ready" /\ ~CanApply /\ Room
  /\ IF WantsApply THEN pending' = None /\ SaveAux(None)
                   ELSE UNCHANGED <<pending, aux, mishaps>>
  /\ task' = CASE pending' # None -> task
               [] pending' = None /\ ~WantsApply /\ task # None -> task
               [] OTHER -> IF ContextTokens >= Window - Keep
                           THEN Background(Messages(data)) ELSE None
  /\ turn' = "calling" /\ call' = Says(node, data)
  /\ UNCHANGED <<chainVars, manual, alive, due, spent>>

\* No usage: the provider reports none, or an interrupt came before it.
Usages == {call, <<>>}

\* The answer ends the turn, or is interrupted, or is a truncated attempt that
\* is committed and tried again.
Answer ==
  /\ alive /\ turn = "calling"
  /\ \E seen \in Usages :
       AppendOK(<<Original("answer", Fresh, NoNode, seen)>>)
  /\ turn' \in {"idle", "ready"}
  /\ due' = due \cup {Fresh}
  /\ call' = <<>>
  /\ UNCHANGED <<compactVars, manual, alive, mishaps, spent>>

RoundBatch(seen) == <<Original("call", Fresh, Fresh, seen),
                      Original("result", Fresh + 1, Fresh, <<>>)>>

\* The tool calls of a round and their results, or the results an interrupt
\* makes up for them, are committed together.
CommitRound ==
  /\ alive /\ turn = "calling"
  /\ \E seen \in Usages : AppendOK(RoundBatch(seen))
  /\ due' = due \cup {Fresh, Fresh + 1}
  /\ turn' \in {"idle", "ready"} /\ call' = <<>>
  /\ UNCHANGED <<compactVars, manual, alive, mishaps, spent>>

CommitFails ==
  /\ alive /\ turn = "calling"
  /\ \/ ExtendFails(RoundBatch(call))
     \/ ExtendFails(<<Original("answer", Fresh, NoNode, call)>>)
  /\ MayHappen({"lost_write"})
  /\ due' = due \cup (Fresh..Len(node'))
  /\ turn' = "idle" /\ call' = <<>>
  /\ UNCHANGED <<compactVars, manual, alive, spent>>

\* The call is interrupted or fails with nothing to commit, or yields nothing
\* valid and is tried again (_call_llm_validated).
CallFails ==
  /\ alive /\ turn = "calling"
  /\ turn' \in {"idle", "ready"} /\ call' = <<>>
  /\ UNCHANGED <<chainVars, compactVars, manual, alive, histVars>>

-----------------------------------------------------------------------------
(* What else writes into the chain.                                         *)

\* A persisted event: of the turn, or of the runtime at any time.
AppendEvent ==
  /\ alive /\ Spend
  /\ AppendOK(<<Original("event", Fresh, NoNode, <<>>)>>)
  /\ UNCHANGED <<compactVars, manual, turnVars, alive, due, mishaps>>

\* emit_best_effort: the write fails, the event is broadcast all the same.
AppendEventFails ==
  /\ alive /\ Spend
  /\ AppendFails(Original("event", Fresh, NoNode, <<>>))
  /\ MayHappen({"lost_report"})
  /\ UNCHANGED <<compactVars, manual, turnVars, alive, due>>

\* _chain_is_empty: the mark of a rewind to the root is a system message.
ChainIsEmpty ==
  \A u \in ToSet(data) : node[u].kind \notin {"user", "call", "answer", "summary"}

\* on_tools_changed: a client replaces the tools of a session with messages.
ToolReminder ==
  /\ alive /\ ~ChainIsEmpty /\ Spend
  /\ AppendOK(<<Original("user", Fresh, NoNode, <<>>)>>)
  /\ due' = due \cup {Fresh}
  /\ UNCHANGED <<compactVars, manual, turnVars, alive, mishaps>>

-----------------------------------------------------------------------------
(* Compaction in the background and on demand.                              *)

BackgroundDone ==
  /\ alive /\ task # None
  /\ pending' = task /\ SaveAux(task) /\ task' = None
  /\ UNCHANGED <<chainVars, manual, turnVars, alive, due, spent>>

BackgroundFails ==
  /\ alive /\ task # None
  /\ task' = None
  /\ UNCHANGED <<chainVars, aux, pending, manual, turnVars, alive, histVars>>

\* do_manual_compact up to its awaits: it drops the background compaction
\* and takes the window as it is now.
ManualStart ==
  /\ alive /\ manual = None /\ Room /\ Spend
  /\ pending' = None /\ task' = None /\ SaveAux(None)
  /\ manual' = [msgs |-> Messages(data)]
  /\ UNCHANGED <<chainVars, turnVars, alive, due>>

ManualBatch ==
  <<[kind |-> "summary", parent |-> NoNode,
     unzip |-> IF manual.msgs = <<>> THEN NoNode ELSE Last(manual.msgs),
     boundary |-> Fresh, call |-> NoNode, seen |-> <<>>,
     says |-> Facts(manual.msgs)]>>

\* A model call in flight when the chain gets a new root.
MovedCall == IF turn = "calling" THEN {"moved_call"} ELSE {}

\* A manual compaction whose window is not the window any more.
Overtaken == IF Messages(data) # manual.msgs THEN {"overtaken"} ELSE {}

\* do_manual_compact after its awaits: whatever the chain has become, the
\* summary is its new root and only node.
ManualDone ==
  /\ alive /\ manual # None
  /\ Reroot(ManualBatch)
  /\ MayHappen(MovedCall \cup Overtaken)
  /\ manual' = None
  /\ UNCHANGED <<compactVars, turnVars, alive, due, spent>>

ManualFails ==
  /\ alive /\ manual # None
  /\ \/ UNCHANGED <<chainVars, mishaps>>
     \/ RerootFails(ManualBatch) /\ MayHappen({"lost_root"} \cup Overtaken)
  /\ manual' = None
  /\ UNCHANGED <<compactVars, turnVars, alive, due, spent>>

-----------------------------------------------------------------------------
(* Rewind.                                                                  *)

\* get_branch_targets: the user messages and compaction nodes of the full
\* chain, which is what a client is offered.
BranchTargets ==
  IF lines = <<>> THEN {}
  ELSE {u \in ToSet(WalkFullChain(node, ToSet(lines), LeafUuid(node, lines))) :
          node[u].kind = "user" \/ node[u].unzip # NoNode}

\* Everything above the target, in the map or not.
Above(target) == Front(TraceChain(node, DOMAIN node, target))

Before(target) == Front(TraceChain(node, ToSet(lines), target))

\* The nearest message above the target; events are skipped.
RewindParent(target) ==
  LET above == Messages(Before(target))
  IN  IF above = <<>> THEN NoNode ELSE Last(above)

\* Mutant: the target itself is copied.
RewindRowOfTarget(target) ==
  [node[target] EXCEPT !.boundary = Fresh, !.seen = <<>>]

\* Mutant: the copy does not carry unzip_last_uuid over.
RewindRowZipped(target) ==
  LET p == RewindParent(target)
  IN  IF p = NoNode
      THEN [kind |-> "mark", parent |-> NoNode, unzip |-> NoNode,
            boundary |-> Fresh, call |-> NoNode, seen |-> <<>>, says |-> {}]
      ELSE [node[p] EXCEPT !.boundary = Fresh, !.seen = <<>>, !.unzip = NoNode]

\* The node rewind() appends: a copy of the target's parent next to it.
RewindRow(target) ==
  LET p == RewindParent(target)
  IN  IF p = NoNode
      THEN [kind |-> "mark", parent |-> NoNode, unzip |-> NoNode,
            boundary |-> Fresh, call |-> NoNode, seen |-> <<>>, says |-> {}]
      ELSE [node[p] EXCEPT !.boundary = Fresh, !.seen = <<>>]

\* rewind() raises if a parent on the way is not in the map.
ParentMissing(target) ==
  /\ RewindParent(target) = NoNode
  /\ node[Head(Append(Before(target), target))].parent # NoNode

Rewind ==
  /\ alive /\ Spend
  /\ \E target \in BranchTargets :
       /\ ~ParentMissing(target)
       /\ Reroot(<<RewindRow(target)>>)
       /\ due' = Facts(Above(target))
  /\ MayHappen(MovedCall)
  /\ UNCHANGED <<compactVars, manual, turnVars, alive>>

RewindFails ==
  /\ alive /\ Spend
  /\ \E target \in BranchTargets :
       ~ParentMissing(target) /\ RerootFails(<<RewindRow(target)>>)
  /\ MayHappen({"lost_root"})
  /\ UNCHANGED <<compactVars, manual, turnVars, alive, due>>

-----------------------------------------------------------------------------
(* The end of the process, and the way back.                                *)

Forget ==
  /\ alive' = FALSE
  /\ lines' = <<>> /\ data' = <<>> /\ tip' = NoNode
  /\ pending' = None /\ task' = None /\ manual' = None
  /\ turn' = "idle" /\ call' = <<>>
  /\ UNCHANGED aux

\* A crash between two writes, or an eviction that seals the log.
Stop ==
  /\ alive /\ Spend /\ Forget
  /\ UNCHANGED <<node, disk, due, mishaps>>

\* A crash inside a write of several records leaves the first k of them.
CrashWriting(batch) ==
  /\ Len(node) + Len(batch) <= MaxNodes
  /\ node' = node \o batch
  /\ \E k \in 1..(Len(batch) - 1) :
       /\ disk' = disk \o SubSeq(Ids(batch), 1, k)
       /\ due'  = due \cup UNION {batch[i].says : i \in 1..k}

Crash ==
  /\ alive /\ Spend /\ Forget
  /\ \/ turn = "calling" /\ CrashWriting(Linked(RoundBatch(call)))
     \/ turn = "ready" /\ CanApply /\ CrashWriting(CompactBatch(Messages(data)))
  /\ MayHappen({"half_batch"})

\* resume_session: TrackedList.load, and a new ContextManager.
Resume ==
  /\ ~alive /\ alive' = TRUE
  /\ lines' = disk
  /\ data' = LoadChain(node, disk)
  /\ tip' = IF data' = <<>> THEN NoNode ELSE Last(data')
  /\ pending' = aux
  /\ UNCHANGED <<node, disk, aux, task, manual, turnVars, histVars>>

Next ==
  \/ UserMessage \/ UserMessageFails
  \/ ApplyAndCall \/ ApplyFails \/ CallModel
  \/ Answer \/ CommitRound \/ CommitFails \/ CallFails
  \/ AppendEvent \/ AppendEventFails \/ ToolReminder
  \/ BackgroundDone \/ BackgroundFails
  \/ ManualStart \/ ManualDone \/ ManualFails
  \/ Rewind \/ RewindFails
  \/ Stop \/ Crash \/ Resume

Spec == Init /\ [][Next]_vars

-----------------------------------------------------------------------------
(* Properties.                                                              *)

Uuids   == 0..Len(node)
Windows == Seq(SUBSET DOMAIN node)
Nodes   == [kind : Kinds, parent : Uuids, unzip : Uuids, boundary : Uuids,
            call : Uuids, seen : Windows, says : SUBSET DOMAIN node]
Ranges  == [start : DOMAIN node, end : DOMAIN node, says : SUBSET DOMAIN node]

\* The variables keep their types, the memory map and the log hold only nodes
\* that exist, and no task runs beside a prepared result, so that
\* get_messages_for_llm never waits for one (chain.py, manager.py).
TypeOK ==
  /\ node \in Seq(Nodes)
  /\ {lines, data, disk} \subseteq Seq(DOMAIN node)
  /\ tip \in Uuids
  /\ {aux, pending, task} \subseteq Ranges \cup {None}
  /\ manual \in [msgs : Seq(DOMAIN node)] \cup {None}
  /\ turn \in {"idle", "ready", "calling"} /\ call \in Windows
  /\ alive \in BOOLEAN
  /\ due \subseteq DOMAIN node /\ mishaps \subseteq Mishaps /\ spent \in Nat
  /\ task # None => pending = None

Spared(kinds) == alive /\ mishaps \cap kinds = {}

Lost == {"lost_report", "lost_write", "lost_root"}

\* As long as every write reached the disk, loading the log rebuilds exactly
\* the chain in memory: after any mix of appends, compactions, rewinds and
\* restarts the leaf rule of TrackedList.load finds the tip again.
ReloadGivesTheSameChain ==
  Spared(Lost) => LoadChain(node, disk) = data

\* The window the model is sent stands for everything said since the start
\* or the last rewind, verbatim or through a summary, and for nothing else
\* (_apply_pending_compact, rewind, TrackedList.load).
AllAccounted ==
  Spared({"overtaken", "half_batch"} \cup Lost) =>
    Facts(data) = due

\* What the user rewound past does not come back, not through a summary
\* prepared before the rewind and not through a restart; unless a manual
\* compaction was in flight (_verify_snapshot_valid).
NothingRevived == Spared({"overtaken", "lost_root"}) => Facts(data) \subseteq due

\* Every tool call in the window is followed by its result and every result
\* preceded by its call, so that the next request is valid; unless half a
\* round reached the disk (_find_safe_cut_idx, add_messages, rewind).
WellPaired ==
  LET msgs == Messages(data)
      is(i, kind) == i \in DOMAIN msgs /\ node[msgs[i]].kind = kind
      match(i, j) == node[msgs[i]].call = node[msgs[j]].call
  IN  Spared({"half_batch", "lost_write", "lost_root"}) =>
        \A i \in DOMAIN msgs :
          /\ is(i, "call")   => is(i + 1, "result") /\ match(i, i + 1)
          /\ is(i, "result") => is(i - 1, "call") /\ match(i, i - 1)

\* A usage that is trusted as the size of the context was measured on the
\* messages that now open the window, so no threshold is compared with a
\* window that is gone; unless the chain moved under a model call or a crash
\* cut a swap short (_usage_trust_start, usage_boundary_uuid).
UsageMeasuresThisWindow ==
  (Spared({"moved_call", "half_batch"} \cup Lost) /\ LastUsage # NoNode) =>
    IsPrefix(node[LastUsage].seen, Says(node, data))

\* What a summary on the chain stands for is what unzip_last_uuid leads to:
\* no copy of a compaction node loses the history behind it (rewind,
\* _apply_pending_compact, do_manual_compact).
SummariesUnzip ==
  Spared(Lost) =>
    \A u \in ToSet(data) : node[u].kind = "summary" =>
      node[u].says = Facts(TraceChain(node, ToSet(lines), node[u].unzip))

\* emit_best_effort (event_sink.py:73): a report that could not be written
\* costs its own record and nothing else.
LostReportIsAllThatIsLost ==
  alive => ToSet(LoadChain(node, disk)) = ToSet(data) \cap ToSet(disk)

\* rewind (manager.py:911): the session is back in the state before the
\* target, and stays there.
RewindSticks == alive => Facts(data) \subseteq due

=============================================================================
