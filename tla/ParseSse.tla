------------------------------ MODULE ParseSse ------------------------------
(***************************************************************************)
(* parseSseChunk: the text of an event stream cut into blocks, the signals *)
(* among the blocks and the rest that is not yet a block.  A text is a     *)
(* sequence of tokens: the line ends, and what a line holds.               *)
(***************************************************************************)
EXTENDS SequencesExt

Token == {"cr", "lf", "event:", "queue.changed", "data:", "payload", ": ping"}

(* What the server writes (writeSSE and the heartbeat of Stream).          *)
EventFrame == <<"event:", "queue.changed", "lf", "data:", "payload", "lf", "lf">>
PingFrame == <<": ping", "lf", "lf">>

-----------------------------------------------------------------------------
(* replace(/\r\n?/g, "\n") *)
Normalized(text) ==
    LET kept == {i \in DOMAIN text : ~ (i > 1 /\ text[i] = "lf" /\ text[i - 1] = "cr")}
        nth(k) == CHOOSE i \in kept : Cardinality({j \in kept : j <= i}) = k
    IN  [k \in 1 .. Cardinality(kept) |->
            IF text[nth(k)] = "cr" THEN "lf" ELSE text[nth(k)]]

(* split("\n\n"): the blocks that are complete, and what follows them.     *)
Blocks(text) ==
    FoldLeft(LAMBDA acc, token :
                IF token = "lf" /\ acc.rest # <<>> /\ Last(acc.rest) = "lf"
                THEN [done |-> Append(acc.done, Front(acc.rest)), rest |-> <<>>]
                ELSE [acc EXCEPT !.rest = Append(@, token)],
             [done |-> <<>>, rest |-> <<>>], text)

(* split("\n") *)
Lines(block) ==
    FoldLeft(LAMBDA acc, token :
                IF token = "lf" THEN Append(acc, <<>>)
                ELSE [acc EXCEPT ![Len(acc)] = Append(@, token)],
             << <<>> >>, block)

FieldLines(block, field) ==
    SelectSeq(Lines(block), LAMBDA line : line # <<>> /\ line[1] = field)

(* The first event field names queue.changed, and there is data, which     *)
(* from this server is well-formed JSON.                                   *)
IsSignal(block) ==
    /\ FieldLines(block, "event:") # <<>>
    /\ FieldLines(block, "event:")[1] = <<"event:", "queue.changed">>
    /\ <<"data:", "payload">> \in ToSet(FieldLines(block, "data:"))

(* Mutant: what follows the last block is a block when it can be one.      *)
ParseEagerly(chunk) ==
    LET split == Blocks(Normalized(chunk))
        eager == IsSignal(split.rest)
    IN  [signals |-> Len(SelectSeq(split.done, LAMBDA block : IsSignal(block)))
                     + (IF eager THEN 1 ELSE 0),
         rest |-> split.rest]

Parse(chunk) ==
    LET split == Blocks(Normalized(chunk))
    IN  [signals |-> Len(SelectSeq(split.done, LAMBDA block : IsSignal(block))),
         rest |-> split.rest]

-----------------------------------------------------------------------------
(* The streams of up to n frames, and the events in one.                   *)
Streams(n) == UNION {[1 .. k -> {EventFrame, PingFrame}] : k \in 0 .. n}
Text(frames) == FlattenSeq(frames)
EventsIn(frames) == Len(SelectSeq(frames, LAMBDA frame : frame = EventFrame))

(* Wherever the network cuts the server's stream, within a line, between   *)
(* lines or between frames, and however many frames come at once: read     *)
(* chunk by chunk, the first i tokens, those up to j and the rest, it      *)
(* gives each event once, and an event is given as soon as its last token  *)
(* has come.  Of all streams of up to n frames with at least so many       *)
(* events.                                                                 *)
CutsDoNotMatter(n, least) ==
    \A frames \in {f \in Streams(n) : EventsIn(f) >= least} :
        LET text == Text(frames)
        IN  \A i \in 0 .. Len(text) : \A j \in i .. Len(text) :
                LET first == Parse(SubSeq(text, 1, i))
                    second == Parse(first.rest \o SubSeq(text, i + 1, j))
                    third == Parse(second.rest \o SubSeq(text, j + 1, Len(text)))
                IN  /\ first.signals + second.signals + third.signals = EventsIn(frames)
                    /\ third.rest = <<>>
                    /\ \A k \in 0 .. Len(frames) :
                          j = Len(Text(SubSeq(frames, 1, k))) =>
                             first.signals + second.signals = EventsIn(SubSeq(frames, 1, k))
=============================================================================
