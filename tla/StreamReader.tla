----------------------------- MODULE StreamReader -----------------------------
(***************************************************************************)
(* The OpenAI-compatible SSE codec between an upstream and a client:       *)
(* StreamReader, which turns the lines of an upstream body into canonical  *)
(* events, and StreamWriter, which turns the events back into chunks.      *)
(*                                                                         *)
(* The reader pulls: a call of Next hands out a queued event or, when the  *)
(* queue is empty, pumps one line after the other until there is one.  A   *)
(* line is chosen by the upstream when it is read; a piece of text or of   *)
(* tool arguments is represented by a token: the number of the line it     *)
(* came in, and its place in the line's tool_calls, or 0 for the text.     *)
(***************************************************************************)
EXTENDS Naturals, FiniteSets, Sequences, SequencesExt

CONSTANTS
    Tools,        \* indices an upstream gives its tool calls
    ToolDeltas,   \* the tool_calls arrays of a chunk
    FinishReasons,  \* the finish_reason values of the upstream
    MaxLines      \* bound on the lines before the body ends

ASSUME ToolDeltasAssumption ==
    \A ds \in ToolDeltas : ds \in Seq([tool : Tools, args : BOOLEAN])

(* "none" stands for a finish_reason that is null.                         *)
ASSUME FinishAssumption == "none" \notin FinishReasons

VARIABLES
    includeUsage,  \* was the upstream asked for a usage chunk?
    reader,        \* the fields of StreamReader
    result,        \* what Next returned last: an event, ErrStreamDone, an error
    sent,          \* history: the lines read so far
    delivered      \* history: the events Next has handed out

vars == <<includeUsage, reader, result, sent, delivered>>

Chunk == [kind : {"chunk"}, text : BOOLEAN, tools : ToolDeltas,
          finish : FinishReasons \cup {"none"}, usage : BOOLEAN]

Content(line) == line.kind = "chunk" /\ (line.text \/ line.tools # <<>>)

NewReader == [queue |-> <<>>, done |-> FALSE, started |-> FALSE,
              textOpen |-> FALSE, toolBlocks |-> <<>>, blockOrder |-> <<>>,
              pendingFinish |-> "none", pendingUsage |-> FALSE]

Init ==
    /\ includeUsage \in BOOLEAN
    /\ reader = NewReader
    /\ result = "event"
    /\ sent = <<>>
    /\ delivered = <<>>

-----------------------------------------------------------------------------
(* The steps of consume, each from a reader to a reader.                   *)

Enqueue(r, events) == [r EXCEPT !.queue = @ \o events]

Begin(r) ==
    IF r.started THEN r
    ELSE Enqueue([r EXCEPT !.started = TRUE], <<[kind |-> "start"]>>)

OpenText(r) ==
    IF r.textOpen THEN r
    ELSE Enqueue([r EXCEPT !.textOpen = TRUE, !.blockOrder = Append(@, 0)],
                 <<[kind |-> "blockStart", index |-> 0]>>)

AddText(r, line) ==
    Enqueue(OpenText(r), <<[kind |-> "blockDelta", index |-> 0, token |-> <<line, 0>>]>>)

NextBlock(r) == Cardinality(DOMAIN r.toolBlocks) + 1

OpenTool(r, tool) ==
    LET idx == NextBlock(r)
    IN  IF tool \in DOMAIN r.toolBlocks THEN r
        ELSE Enqueue([r EXCEPT !.toolBlocks = [t \in DOMAIN @ \cup {tool} |->
                                                 IF t = tool THEN idx ELSE @[t]],
                               !.blockOrder = Append(@, idx)],
                     <<[kind |-> "blockStart", index |-> idx]>>)

(* Mutant: the delta carries the upstream's index, not the block's. *)
AddTool_RawIndex(r, d, piece) ==
    LET opened == OpenTool(r, d.tool)
    IN  IF d.args THEN Enqueue(opened, <<[kind |-> "blockDelta",
                                          index |-> d.tool, token |-> piece]>>)
        ELSE opened

AddTool(r, d, piece) ==
    LET opened == OpenTool(r, d.tool)
    IN  IF d.args THEN Enqueue(opened, <<[kind |-> "blockDelta", token |-> piece,
                                          index |-> opened.toolBlocks[d.tool]]>>)
        ELSE opened

(* One tool call after the other.                                          *)
AddTools(r, ds, line) ==
    LET added[n \in 0 .. Len(ds)] ==
            IF n = 0 THEN r ELSE AddTool(added[n - 1], ds[n], <<line, n>>)
    IN  added[Len(ds)]

CloseBlocks(r, reason) ==
    [Enqueue(r, [i \in DOMAIN r.blockOrder |->
                   [kind |-> "blockStop", index |-> r.blockOrder[i]]])
     EXCEPT !.blockOrder = <<>>, !.pendingFinish = reason]

Finishing(r) == r.pendingFinish # "none"

Delta(r) == [kind |-> "delta", reason |-> r.pendingFinish, usage |-> r.pendingUsage]

(* Mutant: an upstream that never gave a finish_reason is a success. *)
Finish_FakesStop(r) ==
    IF r.done THEN r
    ELSE Enqueue([r EXCEPT !.done = TRUE], <<Delta(r), [kind |-> "stop"]>>)

(* Mutant: the reader is not marked as done. *)
Finish_NotDone(r) ==
    IF r.done THEN r
    ELSE IF Finishing(r) THEN Enqueue(r, <<Delta(r), [kind |-> "stop"]>>)
    ELSE Enqueue(r, <<[kind |-> "error"]>>)

Finish(r) ==
    IF r.done THEN r
    ELSE Enqueue([r EXCEPT !.done = TRUE],
                 IF Finishing(r) THEN <<Delta(r), [kind |-> "stop"]>>
                 ELSE <<[kind |-> "error"]>>)

(* Mutant: waits for a usage chunk nobody asked for. *)
Complete_WaitsForUsage(r) == Finishing(r) /\ r.pendingUsage

(* Is there nothing left to wait for after this chunk? *)
Complete(r) == Finishing(r) /\ (~includeUsage \/ r.pendingUsage)

Consume(r, c, line) ==
    LET begun  == Begin(r)
        texted == IF c.text THEN AddText(begun, line) ELSE begun
        tooled == AddTools(texted, c.tools, line)
        closed == IF c.finish # "none" THEN CloseBlocks(tooled, c.finish) ELSE tooled
        used   == [closed EXCEPT !.pendingUsage = @ \/ c.usage]
    IN  IF Complete(used) THEN Finish(used) ELSE used

-----------------------------------------------------------------------------
(* Next: hand out a queued event ...                                       *)

Deliver ==
    /\ result = "event" /\ reader.queue # <<>>
    /\ delivered' = Append(delivered, Head(reader.queue))
    /\ reader' = [reader EXCEPT !.queue = Tail(@)]
    /\ result' = IF Head(reader.queue).kind = "stop" THEN "ErrStreamDone" ELSE "event"
    /\ UNCHANGED <<includeUsage, sent>>

DeliverStopWhenDone ==
    /\ result = "event" /\ reader.queue = <<>> /\ reader.done
    /\ delivered' = Append(delivered, [kind |-> "stop"])
    /\ result' = "ErrStreamDone"
    /\ UNCHANGED <<includeUsage, reader, sent>>

(* ... or pump one more line.                                              *)

Pump(line) ==
    /\ result = "event" /\ reader.queue = <<>> /\ ~reader.done
    /\ sent' = Append(sent, line)
    /\ UNCHANGED <<includeUsage, delivered>>

ReadChunk ==
    \E c \in Chunk :
        /\ Len(sent) < MaxLines
        /\ Pump(c)
        /\ reader' = Consume(reader, c, Len(sent) + 1)
        /\ UNCHANGED result

(* Blank lines, comments and fields other than data. *)
ReadIgnored ==
    /\ Len(sent) < MaxLines
    /\ Pump([kind |-> "ignored"])
    /\ UNCHANGED <<reader, result>>

ReadDone ==
    /\ Pump([kind |-> "[DONE]"])
    /\ reader' = Finish(reader)
    /\ UNCHANGED result

(* The body ends without [DONE]. *)
ReadEOF ==
    /\ Pump([kind |-> "EOF"])
    /\ reader' = Enqueue([reader EXCEPT !.done = TRUE], <<[kind |-> "error"]>>)
    /\ UNCHANGED result

(* Data that is no chunk, or a body that cannot be read any further. *)
ReadFails ==
    /\ Pump([kind |-> "unreadable"])
    /\ result' = "error"
    /\ UNCHANGED reader

(* The caller does not call Next again after an error or ErrStreamDone. *)
Ended == result # "event" /\ UNCHANGED vars

Next == Deliver \/ DeliverStopWhenDone \/ ReadChunk \/ ReadIgnored \/ ReadDone
          \/ ReadEOF \/ ReadFails \/ Ended

Spec == Init /\ [][Next]_vars

-----------------------------------------------------------------------------
(* StreamWriter.Write: the chunks a canonical event becomes on the wire.   *)
(* finishReasonWire panics on the finish reason "error".                   *)

Wire(e) ==
    CASE e.kind = "start"      -> <<[kind |-> "role"]>>
      [] e.kind = "blockStart" -> IF e.index = 0 THEN <<>>
                                  ELSE <<[kind |-> "tool", index |-> e.index]>>
      [] e.kind = "blockDelta" -> IF e.index = 0
                                  THEN <<[kind |-> "text", token |-> e.token]>>
                                  ELSE <<[kind |-> "args", index |-> e.index, token |-> e.token]>>
      [] e.kind = "blockStop"  -> <<>>
      [] e.kind = "delta"      -> IF e.reason = "error" THEN <<[kind |-> "panic"]>>
                                  ELSE IF e.usage THEN <<[kind |-> "finish"], [kind |-> "usage"]>>
                                  ELSE <<[kind |-> "finish"]>>
      [] e.kind = "stop"       -> <<[kind |-> "[DONE]"]>>
      [] e.kind = "error"      -> <<[kind |-> "error"], [kind |-> "[DONE]"]>>

(* The chunks that the n-th event became.                                  *)
OnWire(n) == ToSet(Wire(delivered[n]))

(* The pieces the client finds in them, of the text and of a tool call ... *)
TextAt(n) == {c.token : c \in {w \in OnWire(n) : w.kind = "text"}}

ArgsAt(n, idx) == {c.token : c \in {w \in OnWire(n) : w.kind = "args" /\ w.index = idx}}

(* ... and the pieces the upstream sent.                                   *)
SentText == {<<i, 0>> : i \in {j \in DOMAIN sent : sent[j].kind = "chunk" /\ sent[j].text}}

SentArgs(tool) ==
    UNION {{<<i, n>> : n \in {m \in DOMAIN sent[i].tools :
                                sent[i].tools[m].tool = tool /\ sent[i].tools[m].args}} :
            i \in {j \in DOMAIN sent : sent[j].kind = "chunk"}}

-----------------------------------------------------------------------------
(* Properties.                                                             *)

(* Type correctness: in particular tool blocks are numbered without gaps   *)
(* from 1, so that 0 is free for the text block.                           *)
TypeOK ==
    /\ includeUsage \in BOOLEAN
    /\ result \in {"event", "ErrStreamDone", "error"}
    /\ {reader.toolBlocks[t] : t \in DOMAIN reader.toolBlocks}
         = 1 .. Cardinality(DOMAIN reader.toolBlocks)
    /\ \A i \in DOMAIN reader.blockOrder :
         reader.blockOrder[i] \in 0 .. Cardinality(DOMAIN reader.toolBlocks)

(* The blocks opened by the first n events, and those still open.          *)
BlockAt(n) ==
    LET opened == {delivered[i].index : i \in {j \in 1 .. n : delivered[j].kind = "blockStart"}}
        closed == {delivered[i].index : i \in {j \in 1 .. n : delivered[j].kind = "blockStop"}}
    IN  [opened |-> opened, open |-> opened \ closed]

(* The upstream sent no content after a finish_reason.                     *)
ContentEnds ==
    \A i, j \in DOMAIN sent :
        i < j /\ sent[i].kind = "chunk" /\ sent[i].finish # "none" => ~Content(sent[j])

(* A block's deltas come between its one start and its one stop, and every *)
(* block is stopped before EventMessageDelta: the explicit block life      *)
(* cycle the comment on StreamReader promises.  The code keeps all of it   *)
(* only if the upstream sends no content after a finish_reason: a late     *)
(* delta comes in a block already stopped, and a late block never stops.   *)
BlocksWellFormed ==
    \A n \in DOMAIN delivered :
        LET before == BlockAt(n - 1)
            e      == delivered[n]
        IN  /\ e.kind = "blockStart" => e.index \notin before.opened
            /\ e.kind = "blockStop" => e.index \in before.open
            /\ e.kind = "blockDelta" => e.index \in before.opened
            /\ ContentEnds /\ e.kind = "blockDelta" => e.index \in before.open
            /\ ContentEnds /\ e.kind = "delta" => before.open = {}

(* The order in which the upstream sent two pieces.                        *)
Precedes(x, y) == x[1] < y[1] \/ (x[1] = y[1] /\ x[2] < y[2])

(* What was got of what was meant, event by event, is a part of it from    *)
(* its beginning on, in order and without repetition, or all of it.        *)
Faithful(got, meant, whole) ==
    /\ \A n \in DOMAIN got : got[n] \subseteq meant
    /\ \A n \in DOMAIN got : \A m \in 1 .. (n - 1) :
         \A x \in got[m], y \in got[n] : Precedes(x, y)
    /\ \A x \in meant :
         whole \/ (\E n \in DOMAIN got : \E y \in got[n] : Precedes(x, y)) =>
            \E n \in DOMAIN got : x \in got[n]

(* The text and the arguments of every tool call reach the client whole    *)
(* and in order, each under an index of its own, whatever the interleaving *)
(* of tool calls in the upstream's chunks; a stream that fails is cut off, *)
(* never altered.                                                          *)
ContentPreserved ==
    LET blocks == reader.toolBlocks
        whole  == \E n \in DOMAIN delivered : delivered[n].kind = "delta"
    IN  /\ Faithful([n \in DOMAIN delivered |-> TextAt(n)], SentText, whole)
        /\ \A t \in DOMAIN blocks :
             Faithful([n \in DOMAIN delivered |-> ArgsAt(n, blocks[t])], SentArgs(t), whole)
        /\ \A t \in Tools \ DOMAIN blocks : SentArgs(t) = {}

(* A finish reason reaches the client only if the upstream gave one: a     *)
(* stream that was cut off never looks complete (no faked "stop").         *)
NeverFakesFinish ==
    (\E n \in DOMAIN delivered : \E c \in OnWire(n) : c.kind = "finish")
        => \E i \in DOMAIN sent : sent[i].kind = "chunk" /\ sent[i].finish # "none"

(* When usage was asked for, the message ends without it only after the    *)
(* upstream has said [DONE]: a usage chunk after the finish reason is      *)
(* waited for.                                                             *)
UsageAwaited ==
    includeUsage /\ (\E i \in DOMAIN delivered : delivered[i].kind = "delta" /\ ~delivered[i].usage)
        => Last(sent).kind = "[DONE]"

(* When usage was not asked for, nothing is read after the finish reason:  *)
(* the reader does not wait for a chunk that never comes.                  *)
NoWaitForUsage ==
    [][sent' # sent => includeUsage \/ ~Finishing(reader)]_vars

(* The content of the upstream arrives: in blocks that are opened before   *)
(* they are filled and closed once, with every fragment in its place.      *)
ContentArrives == TypeOK /\ BlocksWellFormed /\ ContentPreserved

(* A usage chunk is waited for when it was asked for, and only then.       *)
UsageAwaitedIfAsked == []UsageAwaited /\ NoWaitForUsage

-----------------------------------------------------------------------------
(* The abstract reader contract.                                           *)

Class(e) == IF e.kind \in {"blockStart", "blockDelta", "blockStop"} THEN "block" ELSE e.kind

Stage ==
    IF result = "error" THEN "failed"
    ELSE IF delivered = <<>> THEN "fresh"
    ELSE CASE Last(delivered).kind = "stop"  -> "stopped"
           [] Last(delivered).kind = "error" -> "errored"
           [] Last(delivered).kind = "delta" -> "closing"
           [] OTHER -> "open"

Contract == INSTANCE EventStream WITH
    stage <- Stage,
    event <- IF result = "error" \/ delivered = <<>> THEN "nil" ELSE Class(Last(delivered))

(* The events come in the order EventStream allows: one start, one end, and *)
(* ErrStreamDone with the EventMessageStop only.                           *)
StreamContract == Contract!StreamSpec

=============================================================================
