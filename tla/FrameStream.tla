----------------------------- MODULE FrameStream -----------------------------
(***************************************************************************)
(* The event stream between the gateway and a client (gateway/chunk.rs and *)
(* the read task of gateway/client.rs).  The gateway sends every event in  *)
(* a task of its own, an event too large for a frame as several; the       *)
(* client puts these together and holds back what comes in between.        *)
(*                                                                         *)
(* An event is its number in the order of emission; sizes are counted in   *)
(* frames.                                                                 *)
(***************************************************************************)
EXTENDS Naturals, Sequences, SequencesExt

CONSTANTS MaxEvents,  \* bound: events emitted
          MaxCount,   \* bound: frames of an event
          MaxChunks,  \* max_chunks
          Limit       \* max_buffered_bytes, in frames

VARIABLES count, sent,   \* the gateway: frames of each event, frames sent of it
          wire,          \* frames on their way
          pending,       \* a set of at most one Pending: [event, next, bytes]
          buffered, buffered_bytes,
          delivered,     \* events given to the application
          closed,        \* CloseReason of the read task, "none" while it runs
          got            \* history: frames read of each event

gateway == <<count, sent>>
reassembler == <<pending, buffered, buffered_bytes>>
vars == <<gateway, wire, reassembler, delivered, closed, got>>

Events == 1..Len(count)
Open == closed = "none"

Init ==
    /\ count = <<>> /\ sent = <<>> /\ wire = <<>>
    /\ pending = {} /\ buffered = <<>> /\ buffered_bytes = 0
    /\ delivered = <<>> /\ closed = "none" /\ got = <<>>

-----------------------------------------------------------------------------
(* The gateway. *)
\* _on_event: the frames are fixed at once and sent by a task of their own.
Emit(n) ==
    /\ Open /\ Len(count) < MaxEvents
    /\ count' = Append(count, n) /\ sent' = Append(sent, 0) /\ got' = Append(got, 0)
    /\ UNCHANGED <<wire, reassembler, delivered, closed>>

\* _send_frames: tasks begin in the order they were created; each send may wait.
SendFrame(e) ==
    /\ Open /\ sent[e] < count[e]
    /\ \A d \in 1..e - 1 : sent[d] > 0
    /\ wire' = Append(wire, [event |-> e, index |-> sent[e]])
    /\ sent' = [sent EXCEPT ![e] = @ + 1]
    /\ UNCHANGED <<count, reassembler, delivered, closed, got>>

-----------------------------------------------------------------------------
(* The client. *)
Fail == closed' = "reassembly_failed" /\ UNCHANGED <<reassembler, delivered>>

\* Reassembler::start
Start(frame) ==
    IF frame.index # 0 \/ count[frame.event] > MaxChunks THEN Fail
    ELSE /\ pending' = {[event |-> frame.event, next |-> 1, bytes |-> 1]}
         /\ UNCHANGED <<buffered, buffered_bytes, delivered, closed>>

\* Mutant: the bytes of what is delivered stay in the count.
FlushKeepsCount ==
    /\ buffered' = <<>> /\ UNCHANGED buffered_bytes
    /\ delivered' = delivered \o <<(CHOOSE p \in pending : TRUE).event>> \o buffered

\* Mutant: what was held back goes first.
FlushHeldFirst ==
    /\ buffered' = <<>> /\ buffered_bytes' = buffered_bytes - Len(buffered)
    /\ delivered' = delivered \o buffered \o <<(CHOOSE p \in pending : TRUE).event>>

\* Reassembler::flush, what was held back, in the order it came
Flush ==
    /\ buffered' = <<>> /\ buffered_bytes' = buffered_bytes - Len(buffered)
    /\ delivered' = delivered \o <<(CHOOSE p \in pending : TRUE).event>> \o buffered

\* Reassembler::accept_chunk
AcceptChunk(frame) ==
    LET p == CHOOSE q \in pending : TRUE IN
    IF frame.event # p.event \/ frame.index # p.next \/ p.bytes + buffered_bytes + 1 > Limit
    THEN Fail
    ELSE /\ IF p.next + 1 = count[p.event]
            THEN pending' = {} /\ Flush
            ELSE /\ pending' = {[p EXCEPT !.next = @ + 1, !.bytes = @ + 1]}
                 /\ UNCHANGED <<buffered, buffered_bytes, delivered>>
         /\ UNCHANGED closed

\* Reassembler::buffer
Buffer(frame) ==
    IF \E p \in pending : p.bytes + buffered_bytes + 1 > Limit THEN Fail
    ELSE /\ buffered' = Append(buffered, frame.event) /\ buffered_bytes' = buffered_bytes + 1
         /\ UNCHANGED <<pending, delivered, closed>>

\* on_text
ReadFrame ==
    /\ Open /\ wire # <<>> /\ wire' = Tail(wire)
    /\ LET frame == Head(wire)
           chunk == count[frame.event] > 1
       IN  /\ got' = [got EXCEPT ![frame.event] = @ + 1]
           /\ CASE pending # {} /\ chunk  -> AcceptChunk(frame)
                [] pending # {} /\ ~chunk -> Buffer(frame)
                [] pending = {} /\ chunk  -> Start(frame)
                [] OTHER -> delivered' = Append(delivered, frame.event)
                            /\ UNCHANGED <<reassembler, closed>>
    /\ UNCHANGED gateway

\* The read task ends: no frame of the open event in time, the connection or the
\* application gone.
ReadTaskEnds ==
    /\ Open
    /\ \/ pending # {} /\ closed' = "reassembly_timeout"
       \/ closed' \in {"stream_ended", "channel_closed"}
    /\ UNCHANGED <<gateway, wire, reassembler, delivered, got>>

Next ==
    \/ \E n \in 1..MaxCount : Emit(n)
    \/ \E e \in Events : SendFrame(e)
    \/ ReadFrame \/ ReadTaskEnds

Spec == Init /\ [][Next]_vars

-----------------------------------------------------------------------------
\* The type of every variable.
TypeOK ==
    /\ \A e \in Events : count[e] \in 1..MaxCount /\ sent[e] \in 0..count[e] /\ got[e] \in 0..sent[e]
    /\ \A p \in pending : p.event \in Events /\ p.next \in 1..count[p.event] - 1 /\ p.bytes = p.next
    /\ buffered_bytes = Len(buffered)
    /\ ToSet(buffered) \cup ToSet(delivered) \subseteq Events

Opened == IF pending = {} THEN <<>> ELSE <<(CHOOSE p \in pending : TRUE).event>>

\* The application gets whole events only, each once, in the order in which their first
\* frames came; nothing is held back but behind an open event, and what is held is bounded
\* ("保序", "有界").
StreamIsWhole ==
    /\ \A i \in DOMAIN delivered : got[delivered[i]] = count[delivered[i]]
    /\ Open => LET taken == delivered \o Opened \o buffered IN
               /\ \A i \in DOMAIN taken : taken[i] = i
               /\ \A e \in Events : got[e] > 0 <=> e \in DOMAIN taken
    /\ buffered # <<>> => pending # {}
    /\ \A p \in pending : p.bytes + Len(buffered) <= Limit

\* The stream is only broken off over an event that is too large, for an event or for the
\* buffer together with what came meanwhile, or over two large ones sent at the same time.
BrokenForCause ==
    closed = "reassembly_failed" =>
        \/ \E e \in Events : got[e] = 1 /\ count[e] > MaxChunks
        \/ \E p \in pending :
               \/ p.bytes + Len(buffered) + 1 > Limit
               \/ \E e \in Events \ ({p.event} \cup ToSet(delivered)) : count[e] > 1 /\ got[e] = 1

=============================================================================
