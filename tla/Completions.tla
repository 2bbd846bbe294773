------------------------------ MODULE Completions ------------------------------
(***************************************************************************)
(* One request to POST /v1/chat/completions: the handler that tries the    *)
(* ranked channels one after the other, the watchdog goroutine that may    *)
(* cancel the attempt under way, and the client, who may go away.          *)
(*                                                                         *)
(* Falling back to the next channel is safe only while nothing has been    *)
(* written to the client.  What an upstream stream hands to the handler is *)
(* EventStream; the watchdog's timer runs in a goroutine of its own, so    *)
(* each of its loads, stores and the cancellation is a step.               *)
(***************************************************************************)
EXTENDS EventStream, Naturals, Sequences, FiniteSets

CONSTANTS
    Channels,           \* upstream channels that may serve the model
    MaxTokensRequired,  \* those with the quirk of that name
    FinishErrors,       \* may an upstream finish with the reason "error"?
    MaxBlocks           \* bound on the block events of one stream

ASSUME ChannelsAssumption ==
    Channels # {} /\ MaxTokensRequired \subseteq Channels
ASSUME BoundsAssumption == FinishErrors \in BOOLEAN /\ MaxBlocks \in Nat

VARIABLES
    stream,     \* req.Stream
    candidates, \* what Router.Rank returned
    maxTokens,  \* req.MaxTokens: unset, the client's, or a default of ours
    pc,         \* where the handler is
    attempt,    \* index into candidates
    doError,    \* the error Do returned
    client,     \* the connection: connected, leaving (closed), gone (noticed)
    timer,      \* the watchdog's timer, or the deadline of a unary attempt
    callback,   \* the goroutine of the watchdog's timer
    gotFirstEvent, firedFirstByte,  \* the watchdog's atomic flags
    cancelled,  \* cancelUpstream was called, or the deadline has passed
    response,   \* what was written to the client
    logs,       \* the entries given to the request log
    health,     \* what each attempt did to the health of its channel
    requested   \* history: max_tokens in the request of each attempt

handlerVars  == <<stream, candidates, maxTokens, attempt, requested>>
watchdogVars == <<timer, callback, gotFirstEvent, firedFirstByte>>
outputVars   == <<response, logs, health>>
vars == <<handlerVars, pc, doError, client, watchdogVars, cancelled, outputVars, streamVars>>

UpstreamErrors ==
    {"rate_limited", "upstream_error", "channel_misconfigured", "invalid_request_error"}

Rankings == {s \in UNION {[1 .. n -> Channels] : n \in 1 .. Cardinality(Channels)} :
               \A j, k \in DOMAIN s : s[j] = s[k] => j = k}

Rejections == {"invalid_request_error", "model_not_found", "internal_error",
               "unsupported_capability", "no_channels_available"}

Init ==
    /\ stream \in BOOLEAN
    /\ candidates \in Rankings
    /\ maxTokens \in {"unset", "client"}
    /\ pc = "received"
    /\ attempt = 1
    /\ doError = "none"
    /\ client = "connected"
    /\ timer = "off" /\ callback = "none"
    /\ gotFirstEvent = FALSE /\ firedFirstByte = FALSE
    /\ cancelled = FALSE
    /\ response = <<>> /\ logs = <<>>
    /\ health = [j \in DOMAIN candidates |-> "none"]
    /\ requested = <<>>
    /\ StreamInit

-----------------------------------------------------------------------------
LastAttempt == Len(candidates)

(* written: has anything been sent to the client?  The code's flag belongs *)
(* to one attempt; no attempt follows one that has set it.                 *)
Written == response # <<>>

(* upstreamCtx.Err() # nil: the upstream context is a child of the         *)
(* request's, which ends when the server notices that the client has gone. *)
CtxErr == cancelled \/ client = "gone"

Answer(code) == [kind |-> "errorBody", code |-> code, attempt |-> attempt]

Completion == [kind |-> "completion", attempt |-> attempt]

EventAnswer(ev) == [kind |-> ev, attempt |-> attempt]

(* What has been sent of these kinds. *)
Sent(kinds) == {j \in DOMAIN response : response[j].kind \in kinds}

Log(final, code) ==
    logs' = Append(logs, [attempt |-> attempt, final |-> final, code |-> code])

(* recordOutcome writes with the request's context and ignores the error:  *)
(* the outcome is lost once the client has gone, or when the statement     *)
(* fails.                                                                  *)
Record(outcome) ==
    \E recorded \in IF client = "gone" THEN {"lost"} ELSE {outcome, "lost"} :
      health' = [health EXCEPT ![attempt] = recorded]

(* Mutant: only a 429 counts against the channel. *)
Blame_OnlyRateLimits(code) ==
    Record(IF code = "rate_limited" THEN "limited" ELSE health[attempt])

Blame(code) == Record(IF code = "rate_limited" THEN "limited" ELSE "failed")

(* The attempt's deferred calls: the timer is stopped and the context      *)
(* cancelled.  A callback still running acts on this attempt only.         *)
Leave == timer' = "off" /\ callback' = "none"

(* retry with the next candidate, or answer with the failure *)
NextAttempt ==
    /\ attempt' = attempt + 1
    /\ pc' = "build"
    /\ UNCHANGED response

GiveUp(code) ==
    /\ response' = Append(response, Answer(code))
    /\ pc' = "done"
    /\ UNCHANGED attempt

FallBack(code) ==
    IF code # "invalid_request_error" /\ attempt < LastAttempt THEN NextAttempt ELSE GiveUp(code)

-----------------------------------------------------------------------------
(* Reception.                                                              *)

(* Decoding, the model lookup, capability negotiation or ranking fails. *)
Reject ==
    /\ pc = "received"
    /\ \E code \in Rejections : response' = <<Answer(code)>>
    /\ pc' = "done"
    /\ UNCHANGED <<handlerVars, doError, client, watchdogVars, cancelled, logs, health, streamVars>>

Accept ==
    /\ pc = "received"
    /\ pc' = "build"
    /\ UNCHANGED <<handlerVars, doError, client, watchdogVars, cancelled, outputVars, streamVars>>

-----------------------------------------------------------------------------
(* An attempt: BuildRequest and Do.                                        *)

(* BuildRequest fills in the default a channel insists on, in the request  *)
(* all attempts share; the watchdog (or the deadline) starts.              *)
Build ==
    /\ pc = "build"
    /\ pc' = "do"
    /\ maxTokens' = IF candidates[attempt] \in MaxTokensRequired /\ maxTokens = "unset"
                    THEN "default" ELSE maxTokens
    /\ requested' = Append(requested, maxTokens')
    /\ timer' = "armed" /\ callback' = "none"
    /\ gotFirstEvent' = FALSE /\ firedFirstByte' = FALSE
    /\ cancelled' = FALSE
    /\ stage' = "fresh" /\ event' = "nil"
    /\ UNCHANGED <<stream, candidates, attempt, doError, client, outputVars>>

(* The request cannot be built: no channel is blamed; only the unary path  *)
(* logs it.                                                                *)
BuildFails ==
    /\ pc = "build"
    /\ GiveUp("internal_error")
    /\ IF stream THEN UNCHANGED logs ELSE Log(TRUE, "internal_error")
    /\ UNCHANGED <<stream, candidates, maxTokens, requested, doError, client,
                   watchdogVars, cancelled, health, streamVars>>

(* Do sends nothing once the context has ended. *)
Send ==
    /\ pc = "do" /\ ~CtxErr
    /\ pc' = "waiting"
    /\ UNCHANGED <<handlerVars, doError, client, watchdogVars, cancelled, outputVars, streamVars>>

DoSucceeds ==
    /\ pc = "waiting"
    /\ pc' = "read"
    /\ UNCHANGED <<handlerVars, doError, client, watchdogVars, cancelled, outputVars, streamVars>>

(* An answer with an error status, or none: the connection failed or the   *)
(* context ended.                                                          *)
DoFails ==
    /\ \/ pc = "waiting" /\ doError' \in UpstreamErrors \cup {"transport"}
       \/ pc = "do" /\ CtxErr /\ doError' = "transport"
    /\ pc' = "classify"
    /\ UNCHANGED <<handlerVars, client, watchdogVars, cancelled, outputVars, streamVars>>

(* classifyAttemptError, and the streaming path's override. *)
AttemptOutcome ==
    IF stream /\ firedFirstByte THEN "upstream_timeout"
    ELSE IF doError # "transport" THEN doError
    ELSE IF CtxErr THEN "upstream_timeout"
    ELSE "upstream_unreachable"

(* Mutant: every failed attempt is logged as the final one. *)
ClassifyDo_AlwaysFinal ==
    /\ pc = "classify"
    /\ LET code == AttemptOutcome
       IN  Blame(code) /\ Log(TRUE, code) /\ FallBack(code)
    /\ Leave
    /\ UNCHANGED <<stream, candidates, maxTokens, requested, doError, client,
                   gotFirstEvent, firedFirstByte, cancelled, streamVars>>

ClassifyDo ==
    /\ pc = "classify"
    /\ LET code == AttemptOutcome
       IN  /\ Blame(code)
           /\ Log(code = "invalid_request_error" \/ attempt = LastAttempt, code)
           /\ FallBack(code)
    /\ Leave
    /\ UNCHANGED <<stream, candidates, maxTokens, requested, doError, client,
                   gotFirstEvent, firedFirstByte, cancelled, streamVars>>

-----------------------------------------------------------------------------
(* An answer that is not streamed.                                         *)

Decode ==
    /\ pc = "read" /\ ~stream
    /\ Record("ok")
    /\ response' = Append(response, Completion)
    /\ Log(TRUE, "")
    /\ pc' = "done"
    /\ Leave
    /\ UNCHANGED <<handlerVars, doError, client, gotFirstEvent, firedFirstByte,
                   cancelled, streamVars>>

DecodeFails ==
    /\ pc = "read" /\ ~stream
    /\ Record("failed")
    /\ Log(attempt = LastAttempt, "invalid_upstream_response")
    /\ FallBack("invalid_upstream_response")
    /\ Leave
    /\ UNCHANGED <<stream, candidates, maxTokens, requested, doError, client,
                   gotFirstEvent, firedFirstByte, cancelled, streamVars>>

(* EncodeResponse panics on the finish reason "error"; Recover answers 500. *)
EncodePanics ==
    /\ pc = "read" /\ ~stream /\ FinishErrors
    /\ Record("ok")
    /\ response' = Append(response, Answer("panic"))
    /\ pc' = "done"
    /\ Leave
    /\ UNCHANGED <<handlerVars, doError, client, gotFirstEvent, firedFirstByte,
                   cancelled, logs, streamVars>>

-----------------------------------------------------------------------------
(* A streamed answer: the loop over reader.Next.                           *)

ReadNext ==
    /\ pc = "read" /\ stream
    /\ \/ Continue /\ (event' = "block" => Cardinality(Sent({"block"})) < MaxBlocks)
       \/ Stop
       \/ Fail
    /\ pc' = "tick"
    /\ UNCHANGED <<handlerVars, doError, client, watchdogVars, cancelled, outputVars>>

(* Mutant: one timeout only, which ends with the first event. *)
Tick_NoStallTimeout ==
    /\ pc = "tick"
    /\ gotFirstEvent' = TRUE
    /\ timer' = "off"
    /\ pc' = IF event = "nil" THEN "failed" ELSE "write"
    /\ UNCHANGED <<handlerVars, doError, client, callback, firedFirstByte, cancelled,
                   outputVars, streamVars>>

Tick ==
    /\ pc = "tick"
    /\ gotFirstEvent' = TRUE
    /\ timer' = "armed"
    /\ pc' = IF event = "nil" THEN "failed" ELSE "write"
    /\ UNCHANGED <<handlerVars, doError, client, callback, firedFirstByte, cancelled,
                   outputVars, streamVars>>

(* An error event and an EventMessageStop both end with [DONE]. *)
Write ==
    /\ pc = "write"
    /\ response' = Append(response, EventAnswer(event))
    /\ IF event = "stop"
       THEN Record("ok") /\ Log(TRUE, "") /\ pc' = "done" /\ Leave
       ELSE pc' = "read" /\ UNCHANGED <<logs, health, timer, callback>>
    /\ UNCHANGED <<handlerVars, doError, client, gotFirstEvent, firedFirstByte,
                   cancelled, streamVars>>

(* The client no longer takes what is written: the channel did its part. *)
WriteFails ==
    /\ pc = "write" /\ client # "connected"
    /\ Record("ok")
    /\ Log(TRUE, "client_disconnect")
    /\ response' = Append(response, EventAnswer("lost"))
    /\ pc' = "done"
    /\ Leave
    /\ UNCHANGED <<handlerVars, doError, client, gotFirstEvent, firedFirstByte,
                   cancelled, streamVars>>

(* The finish reason "error" makes the writer panic; Recover can do no more. *)
WritePanics ==
    /\ pc = "write" /\ event = "delta" /\ FinishErrors
    /\ pc' = "done"
    /\ Leave
    /\ UNCHANGED <<handlerVars, doError, client, gotFirstEvent, firedFirstByte,
                   cancelled, outputVars, streamVars>>

StreamOutcome ==
    IF firedFirstByte \/ (~Written /\ CtxErr) THEN "upstream_timeout"
    ELSE IF CtxErr THEN "stall_timeout"
    ELSE "upstream_error"

(* Mutant: answers with an error body behind the events. *)
StreamFails_ErrorBody ==
    /\ pc = "failed"
    /\ Blame(StreamOutcome)
    /\ IF ~Written THEN FallBack(StreamOutcome) /\ UNCHANGED logs
       ELSE GiveUp(StreamOutcome) /\ Log(TRUE, "partial_failure")
    /\ Leave
    /\ UNCHANGED <<stream, candidates, maxTokens, requested, doError, client,
                   gotFirstEvent, firedFirstByte, cancelled, streamVars>>

(* Mutant: ends the answer as if it were complete. *)
StreamFails_FakesStop ==
    /\ pc = "failed"
    /\ Blame(StreamOutcome)
    /\ IF ~Written THEN FallBack(StreamOutcome) /\ UNCHANGED logs
       ELSE /\ response' = Append(response, EventAnswer("stop"))
            /\ Log(TRUE, "")
            /\ pc' = "done"
            /\ UNCHANGED attempt
    /\ Leave
    /\ UNCHANGED <<stream, candidates, maxTokens, requested, doError, client,
                   gotFirstEvent, firedFirstByte, cancelled, streamVars>>

(* Reading failed.  Nothing written: try the next channel, and log nothing. *)
(* Otherwise report it to the client and log a partial failure.            *)
StreamFails ==
    /\ pc = "failed"
    /\ Blame(StreamOutcome)
    /\ IF ~Written THEN FallBack(StreamOutcome) /\ UNCHANGED logs
       ELSE /\ response' = Append(response, EventAnswer("error"))
            /\ Log(TRUE, "partial_failure")
            /\ pc' = "done"
            /\ UNCHANGED attempt
    /\ Leave
    /\ UNCHANGED <<stream, candidates, maxTokens, requested, doError, client,
                   gotFirstEvent, firedFirstByte, cancelled, streamVars>>

-----------------------------------------------------------------------------
(* The client goes away; the server notices later.                         *)

ClientLeaves ==
    /\ client' = CASE client = "connected" -> "leaving"
                   [] client = "leaving"   -> "gone"
                   [] OTHER -> "none"
    /\ client # "gone" /\ pc # "done"
    /\ UNCHANGED <<handlerVars, pc, doError, watchdogVars, cancelled, outputVars, streamVars>>

(* The timer of a unary attempt is its context's deadline. *)
DeadlinePasses ==
    /\ timer = "armed" /\ ~stream
    /\ timer' = "off"
    /\ cancelled' = TRUE
    /\ UNCHANGED <<handlerVars, pc, doError, client, callback, gotFirstEvent,
                   firedFirstByte, outputVars, streamVars>>

(* The watchdog: the timer fires, and its callback runs concurrently.      *)
(* Reset may start the callback again; it is modelled when the one running *)
(* has ended, because all the second can do is to cancel, as the first.    *)
TimerFires ==
    /\ timer = "armed" /\ stream /\ callback = "none"
    /\ timer' = "off"
    /\ callback' = "load"
    /\ UNCHANGED <<handlerVars, pc, doError, client, gotFirstEvent, firedFirstByte,
                   cancelled, outputVars, streamVars>>

CallbackLoads ==
    /\ callback = "load"
    /\ callback' = IF gotFirstEvent THEN "cancel" ELSE "store"
    /\ UNCHANGED <<handlerVars, pc, doError, client, timer, gotFirstEvent, firedFirstByte,
                   cancelled, outputVars, streamVars>>

CallbackStores ==
    /\ callback = "store"
    /\ firedFirstByte' = TRUE
    /\ callback' = "cancel"
    /\ UNCHANGED <<handlerVars, pc, doError, client, timer, gotFirstEvent, cancelled,
                   outputVars, streamVars>>

CallbackCancels ==
    /\ callback = "cancel"
    /\ cancelled' = TRUE
    /\ callback' = "none"
    /\ UNCHANGED <<handlerVars, pc, doError, client, timer, gotFirstEvent, firedFirstByte,
                   outputVars, streamVars>>

-----------------------------------------------------------------------------
Handler ==
    \/ Reject \/ Accept \/ Build \/ BuildFails \/ Send \/ DoSucceeds \/ DoFails
    \/ ClassifyDo \/ Decode \/ DecodeFails \/ EncodePanics
    \/ ReadNext \/ Tick \/ Write \/ WriteFails \/ WritePanics \/ StreamFails

Watchdog == DeadlinePasses \/ TimerFires \/ CallbackLoads \/ CallbackStores \/ CallbackCancels

Answered == pc = "done" /\ UNCHANGED vars

Next == Handler \/ Watchdog \/ ClientLeaves \/ Answered

Spec == Init /\ [][Next]_vars

(* Fairness.  The handler's own steps and the watchdog's callback are run  *)
(* by the scheduler, armed timers fire, and a read or a call of the        *)
(* upstream returns once its context has ended or the event it returns is  *)
(* queued already.  Nothing is assumed of the upstream or of the client,   *)
(* but that the client's connection takes or refuses what is written.      *)
Fairness ==
    /\ WF_vars(Reject \/ Accept) /\ WF_vars(Build) /\ WF_vars(Send)
    /\ WF_vars(CtxErr /\ DoFails) /\ WF_vars(ClassifyDo)
    /\ WF_vars(CtxErr /\ DecodeFails)
    /\ WF_vars((CtxErr \/ stage \in {"closing", "errored"}) /\ ReadNext)
    /\ WF_vars(Tick) /\ WF_vars(Write) /\ WF_vars(StreamFails)
    /\ WF_vars(DeadlinePasses) /\ WF_vars(TimerFires)
    /\ WF_vars(CallbackLoads) /\ WF_vars(CallbackStores) /\ WF_vars(CallbackCancels)

FairSpec == Spec /\ Fairness

-----------------------------------------------------------------------------
(* Properties.                                                             *)

Locations == {"received", "build", "do", "waiting", "classify", "read", "tick",
              "write", "failed", "done"}

Outcomes == {"none", "ok", "failed", "limited", "lost"}

Kinds == {"errorBody", "completion", "start", "block", "delta", "error", "stop", "lost"}

(* Type correctness; attempts never run past the candidates. *)
TypeOK ==
    /\ stream \in BOOLEAN
    /\ candidates \in Seq(Channels) /\ candidates # <<>>
    /\ maxTokens \in {"unset", "client", "default"}
    /\ pc \in Locations
    /\ attempt \in 1 .. LastAttempt
    /\ doError \in UpstreamErrors \cup {"none", "transport"}
    /\ client \in {"connected", "leaving", "gone"}
    /\ timer \in {"off", "armed"}
    /\ callback \in {"none", "load", "store", "cancel"}
    /\ gotFirstEvent \in BOOLEAN /\ firedFirstByte \in BOOLEAN
    /\ cancelled \in BOOLEAN
    /\ \A j \in DOMAIN response : response[j].kind \in Kinds
    /\ health \in [1 .. LastAttempt -> Outcomes]
    /\ StreamTypeOK

(* The client gets one answer: an error body, a completion, or the events  *)
(* of one attempt in the order of the stream, never parts of two attempts  *)
(* and never an error body after the first event.                          *)
OneAnswer ==
    /\ \A j \in DOMAIN response : response[j].attempt = attempt
    /\ Sent({"errorBody", "completion"}) # {} => Len(response) = 1
    /\ pc = "done" /\ Sent({"start", "error"}) = {}
         => Sent({"errorBody", "completion", "lost"}) # {}

(* A stream whose reading failed after the first byte ends with an error   *)
(* event, is logged as a partial failure and is not credited; a stop goes  *)
(* to the client only after the delta or the error of the upstream.        *)
ReadFailureReported ==
    /\ pc = "done" /\ stage = "failed" /\ Sent({"start"}) # {}
         => /\ Sent({"error"}) = {Len(response)}
            /\ logs[Len(logs)].code = "partial_failure"
            /\ health[attempt] # "ok"
    /\ \A j \in Sent({"stop"}) : j > 1 /\ response[j - 1].kind \in {"delta", "error"}

(* An attempt is logged at most once, in order, and only the last entry of *)
(* an answered request is final.                                           *)
FinalLogIsLast ==
    /\ \A j, k \in DOMAIN logs : j < k => logs[j].attempt < logs[k].attempt
    /\ \A j \in DOMAIN logs : logs[j].final => pc = "done" /\ j = Len(logs)

(* Without streaming every attempt leaves its entry, the last one final,   *)
(* unless the handler panics.                                              *)
UnaryAttemptsLogged ==
    ~stream =>
      /\ \A j \in 1 .. attempt - 1 : logs[j].attempt = j /\ ~logs[j].final
      /\ pc = "done" /\ requested # <<>> /\ response[1] # Answer("panic")
           => Len(logs) = attempt /\ logs[attempt].final

(* What the log entry of an attempt says of its channel.  A request that   *)
(* could not be built says nothing of it.                                  *)
Judgement(code) ==
    CASE code \in {"", "client_disconnect"} -> "ok"
      [] code = "rate_limited"   -> "limited"
      [] code = "internal_error" -> "none"
      [] OTHER -> "failed"

(* A channel is never passed over without an attempt to mark it as failed  *)
(* or limited, only the channel that answered is credited, and whenever    *)
(* the outcome could be recorded it agrees with the log entry of the       *)
(* attempt, which is written by another statement.                         *)
ChannelsJudged ==
    /\ \A j \in 1 .. attempt - 1 : health[j] \in {"failed", "limited", "lost"}
    /\ \A j \in DOMAIN health : health[j] = "ok" => j = attempt /\ pc = "done"
    /\ \A j \in DOMAIN logs :
         health[logs[j].attempt] \in {Judgement(logs[j].code), "lost"}

(* A request is answered whatever the upstreams do, as long as each stream *)
(* is finite: a silent upstream is cut off by one of the two timeouts.     *)
EventuallyAnswered == <>(pc = "done")

(* A failure of an upstream leaves its traces: in what a connected client  *)
(* is sent, and in the log of the attempts without streaming.              *)
FailuresReported == ReadFailureReported /\ UnaryAttemptsLogged

=============================================================================
