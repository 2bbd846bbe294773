--------------------------- MODULE RequestLogWriter ---------------------------
(***************************************************************************)
(* The asynchronous writer of request_logs: request handlers put entries   *)
(* in a bounded channel without ever blocking, one goroutine collects them *)
(* into batches and copies each batch to the database, and the end of main *)
(* closes the channel and waits, not for ever, for the goroutine to end.   *)
(*                                                                         *)
(* An entry is the pair of the handler that enqueued it and its number     *)
(* among that handler's entries.                                           *)
(***************************************************************************)
EXTENDS Naturals, FiniteSets, Sequences, SequencesExt

CONSTANTS
    Handlers,    \* goroutines that enqueue: requests and the health checker
    PerHandler,  \* bound on the entries of each
    Capacity,    \* channelCapacity
    BatchSize    \* defaultBatchSize

ASSUME SizesAssumption ==
    IsFiniteSet(Handlers) /\ PerHandler \in Nat /\ Capacity \in Nat \ {0} /\ BatchSize \in Nat \ {0}

VARIABLES
    enqueued,  \* how many entries each handler has passed to Enqueue
    ch,        \* the channel
    closed,    \* is it closed?
    buf,       \* the batch the goroutine is collecting
    run,       \* where the goroutine is
    main,      \* where main is: serving, closing, exited
    stored,    \* rows of request_logs, in the order they were written
    dropped,   \* entries counted by Dropped()
    lost,      \* entries of batches that could not be written
    refused    \* entries whose Enqueue panicked

writerVars == <<enqueued, ch, closed, buf, run, main, stored, dropped, lost, refused>>

LogEntries == Handlers \X (1 .. PerHandler)

WriterInit ==
    /\ enqueued = [h \in Handlers |-> 0]
    /\ ch = <<>> /\ closed = FALSE
    /\ buf = <<>> /\ run = "select"
    /\ main = "serving"
    /\ stored = <<>> /\ dropped = {} /\ lost = {} /\ refused = {}

Alive == main # "exited"

-----------------------------------------------------------------------------
(* Enqueue: send, count as dropped when the channel is full, or panic when *)
(* it is closed.  Close does not wait for the handlers.                    *)
Enqueue(h) ==
    LET e == <<h, enqueued[h] + 1>>
    IN  /\ Alive /\ enqueued[h] < PerHandler
        /\ enqueued' = [enqueued EXCEPT ![h] = @ + 1]
        /\ \/ closed /\ refused' = refused \cup {e} /\ UNCHANGED <<ch, dropped>>
           \/ /\ ~closed /\ Len(ch) < Capacity
              /\ ch' = Append(ch, e) /\ UNCHANGED <<dropped, refused>>
           \/ /\ ~closed /\ Len(ch) = Capacity
              /\ dropped' = dropped \cup {e} /\ UNCHANGED <<ch, refused>>
        /\ UNCHANGED <<closed, buf, run, main, stored, lost>>

-----------------------------------------------------------------------------
(* run: receive into the batch, flush it when it is full or on a tick.     *)
Receive ==
    /\ Alive /\ run = "select" /\ ch # <<>>
    /\ ch' = Tail(ch)
    /\ buf' = Append(buf, Head(ch))
    /\ run' = IF Len(buf') >= BatchSize THEN "writing" ELSE "select"
    /\ UNCHANGED <<enqueued, closed, main, stored, dropped, lost, refused>>

(* Mutant: no ticker; only a full batch is written. *)
TickFlush_Never == FALSE /\ UNCHANGED writerVars

TickFlush ==
    /\ Alive /\ run = "select" /\ buf # <<>>
    /\ run' = "writing"
    /\ UNCHANGED <<enqueued, ch, closed, buf, main, stored, dropped, lost, refused>>

(* The channel is closed and empty: the last flush, then the end. *)
ReceiveClosed ==
    /\ Alive /\ run = "select" /\ closed /\ ch = <<>>
    /\ run' = IF buf = <<>> THEN "ended" ELSE "writingLast"
    /\ UNCHANGED <<enqueued, ch, closed, buf, main, stored, dropped, lost, refused>>

AfterWrite == IF run = "writing" THEN "select" ELSE "ended"

(* writeBatch: COPY is one statement, all rows or none. *)
WriteBatch ==
    /\ Alive /\ run \in {"writing", "writingLast"}
    /\ stored' = stored \o buf
    /\ buf' = <<>> /\ run' = AfterWrite
    /\ UNCHANGED <<enqueued, ch, closed, main, dropped, lost, refused>>

(* Mutant: a failed batch is kept, to be written again.  The failure may   *)
(* have come after the COPY was committed.                                 *)
WriteBatchFails_Retried ==
    /\ Alive /\ run \in {"writing", "writingLast"}
    /\ stored' \in {stored, stored \o buf}
    /\ run' = AfterWrite
    /\ UNCHANGED <<enqueued, ch, closed, buf, main, dropped, lost, refused>>

(* Mutant: a failed batch goes back into the channel. *)
WriteBatchFails_Requeued ==
    /\ Alive /\ run \in {"writing", "writingLast"}
    /\ ch' = ch \o buf
    /\ buf' = <<>> /\ run' = AfterWrite
    /\ UNCHANGED <<enqueued, closed, main, stored, dropped, lost, refused>>

(* writeBatch returns an error, or times out after 10 seconds: the batch   *)
(* is given up, whether or not the database has committed it.              *)
WriteBatchFails ==
    /\ Alive /\ run \in {"writing", "writingLast"}
    /\ \/ stored' = stored /\ lost' = lost \cup ToSet(buf)
       \/ stored' = stored \o buf /\ lost' = lost
    /\ buf' = <<>> /\ run' = AfterWrite
    /\ UNCHANGED <<enqueued, ch, closed, main, dropped, refused>>

-----------------------------------------------------------------------------
(* main: the deferred Close, with a context of 5 seconds, then the exit.   *)
Close ==
    /\ main = "serving"
    /\ closed' = TRUE
    /\ main' = "closing"
    /\ UNCHANGED <<enqueued, ch, buf, run, stored, dropped, lost, refused>>

CloseReturns ==
    /\ main = "closing" /\ run = "ended"
    /\ main' = "exited"
    /\ UNCHANGED <<enqueued, ch, closed, buf, run, stored, dropped, lost, refused>>

CloseTimesOut ==
    /\ main = "closing" /\ run # "ended"
    /\ main' = "exited"
    /\ UNCHANGED <<enqueued, ch, closed, buf, run, stored, dropped, lost, refused>>

(* The process is killed. *)
Kill ==
    /\ Alive
    /\ main' = "exited"
    /\ UNCHANGED <<enqueued, ch, closed, buf, run, stored, dropped, lost, refused>>

Exited == main = "exited" /\ UNCHANGED writerVars

WriterNext ==
    \/ \E h \in Handlers : Enqueue(h)
    \/ Receive \/ TickFlush \/ ReceiveClosed \/ WriteBatch \/ WriteBatchFails
    \/ Close \/ CloseReturns \/ CloseTimesOut \/ Kill \/ Exited

(* The goroutine is scheduled, the ticker ticks, a write ends by its       *)
(* timeout.  select picks at random among ready cases, so no case of it is *)
(* passed over for ever (SF).                                              *)
WriterFairness ==
    /\ SF_writerVars(Receive) /\ SF_writerVars(TickFlush) /\ WF_writerVars(ReceiveClosed)
    /\ WF_writerVars(WriteBatch \/ WriteBatchFails)

WriterSpec == WriterInit /\ [][WriterNext]_writerVars /\ WriterFairness

-----------------------------------------------------------------------------
(* Properties.                                                             *)

Given == {e \in LogEntries : e[2] <= enqueued[e[1]]}

Pipeline == stored \o buf \o ch

(* Types, and the bounds on what waits in memory. *)
WriterTypeOK ==
    /\ enqueued \in [Handlers -> 0 .. PerHandler]
    /\ Len(ch) <= Capacity
    /\ Len(buf) <= BatchSize
    /\ run \in {"select", "writing", "writingLast", "ended"}
    /\ main \in {"serving", "closing", "exited"}
    /\ closed \in BOOLEAN

(* No entry vanishes or is written twice: whatever order handlers, writer  *)
(* and main run in, each entry is in exactly one place, the channel, the   *)
(* batch, the table, or one of the three ways of losing it.                *)
Accounted ==
    /\ ToSet(Pipeline) \cup dropped \cup lost \cup refused = Given
    /\ Len(Pipeline) + Cardinality(dropped) + Cardinality(lost) + Cardinality(refused)
         = Cardinality(Given)

(* A handler's entries keep their order from Enqueue to the table.         *)
InOrder ==
    \A i, j \in DOMAIN Pipeline :
        i < j /\ Pipeline[i][1] = Pipeline[j][1] => Pipeline[i][2] < Pipeline[j][2]

(* When the goroutine has ended, nothing is left in memory: Close writes   *)
(* out what was buffered before it, unless it times out.                   *)
NothingLeftBehind == run = "ended" => closed /\ buf = <<>> /\ ch = <<>>

(* While the process runs every entry in the channel is written or given   *)
(* up in the end, without further traffic to fill a batch.                 *)
EntriesLeave ==
    \A e \in LogEntries :
        e \in ToSet(ch) ~> e \in ToSet(stored) \cup lost \/ main = "exited"

(* No entry is lost uncounted or written twice, before the process ends    *)
(* and after it has ended in order.                                        *)
EntriesAccounted == WriterTypeOK /\ Accounted /\ NothingLeftBehind

=============================================================================
