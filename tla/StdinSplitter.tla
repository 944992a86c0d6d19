---------------------------- MODULE StdinSplitter ----------------------------
(***************************************************************************)
(* The splitter in front of the TUI's key reader (tui/stdin_proxy.rs): it  *)
(* takes the packets of the clipboard protocol and the terminal's mode     *)
(* reports out of the byte stream, passes everything else on, and knows    *)
(* the two apart by prefixes it holds back, for a time only, while they    *)
(* are incomplete.                                                         *)
(*                                                                         *)
(* A byte run that is always read as a whole is one symbol: "E" is ESC,    *)
(* "5" the "5522;" of a packet, "1" the "11;" of a colour reply, "o" and   *)
(* "c" the "200~" and "201~" around a paste, "n" the parameters of a       *)
(* report and "y" its "$y", "S" and "T" the two terminators.  A read of    *)
(* several symbols is several steps with no expiry in between.             *)
(***************************************************************************)
EXTENDS Naturals, Sequences, SequencesExt, Filter

CONSTANTS MaxItems,   \* bound: what user and terminal write
          BodyMax,    \* SEQUENCE_BODY_MAX, in symbols
          Hasty       \* does something follow an Esc key within its hold?

VARIABLES hold,        \* Hold: [kind, bytes]
          rest,        \* what is left of the item being read
          items,       \* bound: items written
          passthrough, sequences, reports,  \* what Feed and Expiry gave
          due,         \* history: what the user typed or pasted
          packets,     \* history: packets of the terminal read to their end
          cut          \* history: has a hold expired in the middle of an item?

vars == <<hold, rest, items, passthrough, sequences, reports, due, packets, cut>>

SequencePrefix   == <<"E", "]", "5">>
ColorQueryPrefix == <<"E", "]", "1">>
PasteOpen  == <<"E", "[", "o">>
PasteClose == <<"E", "[", "c">>
ReportOpen == <<"E", "[", "?">>
Report     == <<"E", "[", "?", "n", "y">>

\* What is written at once: its owner, which tells what is to become of it, and its bytes.
\* "quoted" is a paste of text that looks like a packet, "answer" a reply crossterm knows.
User == {<<"key", <<"x">>>>, <<"key", <<"E">>>>,
         <<"paste", PasteOpen \o <<"x", "E">> \o PasteClose>>,
         <<"quoted", PasteOpen \o SequencePrefix \o <<"x", "T">> \o PasteClose>>}
Terminal == {<<"packet", SequencePrefix \o <<"p", "E", "S">>>>,
             <<"overlong", SequencePrefix \o [i \in 1..BodyMax + 1 |-> "p"] \o <<"T">>>>,
             <<"colour", ColorQueryPrefix \o <<"p", "T">>>>,
             <<"report", Report>>,
             <<"answer", ReportOpen \o <<"n", "u">>>>}

Symbol == {"E", "]", "[", "5", "1", "o", "c", "?", "n", "y", "u", "p", "S", "T", "x"}
Owner  == {"key", "paste", "quoted", "packet", "overlong", "colour", "report", "answer"}
Byte == [symbol : Symbol, owner : Owner, item : Nat, at : Nat]
None == [kind |-> "none", bytes |-> <<>>]
Hold(kind, bytes) == [kind |-> kind, bytes |-> bytes]
Symbols(bytes) == [i \in DOMAIN bytes |-> bytes[i].symbol]

Init ==
    /\ hold = None /\ rest = <<>> /\ items = 0
    /\ passthrough = <<>> /\ sequences = 0 /\ reports = 0
    /\ due = <<>> /\ packets = 0 /\ cut = FALSE

-----------------------------------------------------------------------------
\* classify and classify_report_params
Classify(s) ==
    CASE s = SequencePrefix   -> "sequence"
      [] s = ColorQueryPrefix -> "color"
      [] s = PasteOpen        -> "paste"
      [] s = Report           -> "report"
      [] \E p \in {SequencePrefix, ColorQueryPrefix, PasteOpen, Report} : IsStrictPrefix(s, p) -> "partial"
      [] OTHER -> "no"

\* Mutant: a paste is passed on without looking for its end.
FeedCandidateUnprotected(b) ==
    LET bytes == Append(hold.bytes, b)
        verdict == Classify(Symbols(bytes))
    IN  /\ hold' = CASE verdict = "partial"  -> Hold("candidate", bytes)
                     [] verdict = "sequence" -> Hold("body", <<>>)
                     [] verdict = "color"    -> Hold("discard", <<>>)
                     [] OTHER                -> None
        /\ passthrough' = IF verdict \in {"paste", "no"} THEN passthrough \o bytes ELSE passthrough
        /\ reports' = IF verdict = "report" THEN reports + 1 ELSE reports
        /\ UNCHANGED sequences

\* A candidate with one more byte: what becomes of it.
FeedCandidate(b) ==
    LET bytes == Append(hold.bytes, b)
        verdict == Classify(Symbols(bytes))
    IN  /\ hold' = CASE verdict = "partial"  -> Hold("candidate", bytes)
                     [] verdict = "sequence" -> Hold("body", <<>>)
                     [] verdict = "color"    -> Hold("discard", <<>>)
                     [] verdict = "paste"    -> Hold("paste", <<>>)
                     [] OTHER                -> None
        /\ passthrough' = IF verdict \in {"paste", "no"} THEN passthrough \o bytes ELSE passthrough
        /\ reports' = IF verdict = "report" THEN reports + 1 ELSE reports
        /\ UNCHANGED sequences

\* The body of a packet goes on to its terminator; an overlong one only to be forgotten.
FeedBody(b) ==
    LET bytes == Append(hold.bytes, b)
        over  == b.symbol = "T" \/ IsSuffix(<<"E", "S">>, Symbols(bytes))
    IN  /\ hold' = IF over THEN None
                   ELSE IF hold.kind = "body" /\ Len(bytes) > BodyMax THEN Hold("overflow", <<b>>)
                   ELSE Hold(hold.kind, bytes)
        /\ sequences' = IF over /\ hold.kind = "body" THEN sequences + 1 ELSE sequences
        /\ UNCHANGED <<passthrough, reports>>

\* In a paste only the bytes that may begin its end are held back.
FeedPaste(b) ==
    LET tail == Append(hold.bytes, b)
        keep == CHOOSE i \in 1..Len(tail) + 1 :
                    /\ IsPrefix(Symbols(SubSeq(tail, i, Len(tail))), PasteClose)
                    /\ \A j \in 1..i - 1 : ~IsPrefix(Symbols(SubSeq(tail, j, Len(tail))), PasteClose)
        ended == Symbols(tail) = PasteClose
    IN  /\ hold' = IF ended THEN None ELSE Hold("paste", SubSeq(tail, keep, Len(tail)))
        /\ passthrough' = passthrough \o IF ended THEN tail ELSE SubSeq(tail, 1, keep - 1)
        /\ UNCHANGED <<sequences, reports>>

\* Splitter::feed, a byte at a time
Feed ==
    /\ rest # <<>> /\ rest' = Tail(rest)
    /\ LET b == Head(rest) IN
       /\ CASE hold.kind = "none" /\ b.symbol = "E" ->
                    hold' = Hold("candidate", <<b>>) /\ UNCHANGED <<passthrough, sequences, reports>>
            [] hold.kind = "none" /\ b.symbol # "E" ->
                    passthrough' = Append(passthrough, b) /\ UNCHANGED <<hold, sequences, reports>>
            [] hold.kind = "candidate" -> FeedCandidate(b)
            [] hold.kind = "paste" -> FeedPaste(b)
            [] OTHER -> FeedBody(b)
       /\ packets' = IF b.owner = "packet" /\ rest' = <<>> THEN packets + 1 ELSE packets
    /\ UNCHANGED <<items, due, cut>>

\* Splitter::expire: a candidate that stays incomplete is passed on, one that may be a
\* report is dropped, and so is the body of a packet that goes on for too long.
Expire ==
    /\ hold.kind \notin {"none", "paste"}
    /\ hold' = None
    /\ passthrough' = IF hold.kind = "candidate" /\ ~IsPrefix(ReportOpen, Symbols(hold.bytes))
                      THEN passthrough \o hold.bytes ELSE passthrough
    /\ cut' = (cut \/ rest # <<>>)
    /\ UNCHANGED <<rest, items, sequences, reports, due, packets>>

\* The next thing is typed or written.
Write(item) ==
    /\ rest = <<>> /\ items < MaxItems /\ items' = items + 1
    /\ hold.kind = "candidate" /\ item[2][1] = "E" => Hasty
    /\ rest' = [i \in DOMAIN item[2] |-> [symbol |-> item[2][i], owner |-> item[1], item |-> items', at |-> i]]
    /\ due' = IF item \in User THEN due \o rest' ELSE due
    /\ UNCHANGED <<hold, passthrough, sequences, reports, packets, cut>>

Next == Feed \/ Expire \/ \E item \in User \cup Terminal : Write(item)

Spec == Init /\ [][Next]_vars

-----------------------------------------------------------------------------
\* The type of every variable.
TypeOK ==
    /\ hold.kind \in {"none", "candidate", "body", "discard", "overflow", "paste"}
    /\ hold.kind = "none" => hold.bytes = <<>>
    /\ hold.kind = "candidate" => Classify(Symbols(hold.bytes)) = "partial"
    /\ hold.kind = "body" => Len(hold.bytes) <= BodyMax
    /\ {sequences, reports, packets, items} \subseteq 0..MaxItems /\ cut \in BOOLEAN

\* What the user typed or pasted comes out, all of it and in its order, even when a hold
\* expires at the worst moment; only a paste that quotes the protocol's own bytes needs
\* the link to be steady ("不丢用户数据是唯一红线").
UserBytesKept ==
    LET held  == IF hold.kind \in {"candidate", "paste"} THEN hold.bytes ELSE <<>>
        users == {b \in Byte : b.owner \in {"key", "paste"} \/ (b.owner = "quoted" /\ ~cut)}
    IN  Within(passthrough \o held \o rest, users) = Within(due, users)

\* On a steady link the key reader sees none of the protocol's bytes, and every packet
\* reaches the protocol machine ("OSC 5522 完整序列送协议机").
NothingLeaks ==
    ~cut => /\ \A i \in DOMAIN passthrough : passthrough[i].owner \notin {"packet", "overlong", "colour", "report"}
            /\ sequences = packets

=============================================================================
