----------------------------- MODULE GatewayProofs -----------------------------
(***************************************************************************)
(* What holds of the two parts of the gateway that a request passes: the   *)
(* completions handler, for every set of channels, every ranking and       *)
(* streams of every length, and the log writer, for any number of handlers *)
(* and entries and any capacity of the channel and size of the batches.    *)
(*                                                                         *)
(* The handler: nothing is written before it reads an answer (Silent), and *)
(* whatever is written before the request is over are the events of the    *)
(* attempt under way (Phases).  So an attempt that follows another finds   *)
(* the connection untouched.  An attempt judges its channel only when it   *)
(* is over, and what it logs agrees with that (HealthInv).                 *)
(*                                                                         *)
(* The writer: rows, batch and channel are one queue, the pipeline.        *)
(* Handlers append to it, receiving and writing move the borders in it,    *)
(* and a batch that is given up is cut out of its middle.                  *)
(***************************************************************************)
EXTENDS Completions, RequestLogWriter, FiniteSetTheorems, TLAPS

-----------------------------------------------------------------------------
(* The completions handler.                                                *)

(* The codes an error body or a log entry can carry. *)
Codes ==
    UpstreamErrors \cup Rejections \cup
    {"", "panic", "upstream_timeout", "upstream_unreachable", "stall_timeout",
     "invalid_upstream_response", "partial_failure", "client_disconnect"}

Messages ==
    [kind : {"errorBody"}, code : Codes, attempt : Nat] \cup
    [kind : Kinds \ {"errorBody"}, attempt : Nat]

Entries == [attempt : Nat, final : BOOLEAN, code : Codes]

TypeInv ==
    /\ TypeOK
    /\ response \in Seq(Messages)
    /\ logs \in Seq(Entries)

(* Nothing is written until there is something to read. *)
Silent ==
    /\ pc \in {"received", "build", "do", "waiting", "classify"} => response = <<>>
    /\ pc = "read" /\ ~stream => response = <<>>

(* Whatever follows the first event of a stream follows it on the          *)
(* connection too, and a request that is not over has no complete answer.  *)
Phases ==
    /\ pc \in {"do", "waiting"} => stage = "fresh"
    /\ pc = "classify" => doError # "none"
    /\ pc = "read" /\ stream => stage = "fresh" \/ Sent({"start", "error"}) # {}
    /\ pc \in {"tick", "write"}
         => event \in {"nil", "start", "error"} \/ Sent({"start", "error"}) # {}
    /\ pc = "write" => event # "nil"
    /\ pc \in {"tick", "write", "failed"} => stream
    /\ pc # "done" => Sent({"errorBody", "completion"}) = {}

(* Until the request is over, the attempt under way has no entry. *)
LogInv ==
    /\ FinalLogIsLast
    /\ pc # "done" => \A j \in DOMAIN logs : logs[j].attempt < attempt /\ ~logs[j].final

(* A channel is judged by its attempt only, when the attempt is over. *)
HealthInv ==
    /\ ChannelsJudged
    /\ pc # "done" => \A j \in DOMAIN health : j >= attempt => health[j] = "none"
    /\ \A j \in DOMAIN logs : logs[j].attempt \in DOMAIN health

IInv == TypeInv /\ Silent /\ Phases /\ OneAnswer /\ LogInv /\ HealthInv

-----------------------------------------------------------------------------
(* What appending one message does to the response. *)
LEMMA SentAppend ==
    ASSUME response \in Seq(Messages), NEW m \in Messages,
           response' = Append(response, m), NEW CONSTANT kinds
    PROVE  /\ m.kind \in kinds => Sent(kinds)' # {}
           /\ m.kind \notin kinds => Sent(kinds)' = Sent(kinds)
           /\ Sent(kinds) # {} => Sent(kinds)' # {}
<1>1. /\ Len(response) \in Nat
      /\ DOMAIN response = 1 .. Len(response)
      /\ DOMAIN response' = 1 .. (Len(response) + 1)
      /\ response'[Len(response) + 1] = m
      /\ \A j \in DOMAIN response : response'[j] = response[j]
  OBVIOUS
<1>2. \A j : j \in DOMAIN response' <=> j \in DOMAIN response \/ j = Len(response) + 1
  BY <1>1
<1> QED
  BY <1>1, <1>2 DEF Sent

(* The messages the handler writes and the codes it logs are well formed. *)
LEMMA MessageTypes ==
    ASSUME attempt \in Nat
    PROVE  /\ \A code \in Codes : /\ Answer(code) \in Messages
                                  /\ Answer(code).kind = "errorBody"
                                  /\ Answer(code).attempt = attempt
           /\ Completion \in Messages
           /\ Completion.kind = "completion" /\ Completion.attempt = attempt
           /\ \A ev \in Kinds \ {"errorBody"} : /\ EventAnswer(ev) \in Messages
                                                /\ EventAnswer(ev).kind = ev
                                                /\ EventAnswer(ev).attempt = attempt
  BY DEF Answer, Completion, EventAnswer, Messages, Kinds


(* What an outcome of recordOutcome does to the health of the channels. *)
LEMMA RecordTypes ==
    ASSUME TypeOK, NEW o \in Outcomes, Record(o)
    PROVE  health' \in [1 .. LastAttempt -> Outcomes]
<1>1. PICK r \in {o, "lost"} : health' = [health EXCEPT ![attempt] = r]
  BY DEF Record
<1> QED
  BY <1>1 DEF TypeOK, Outcomes

(* Every way on from a failed attempt keeps the types. *)
LEMMA FallBackTypes ==
    ASSUME TypeInv, NEW code \in Codes, FallBack(code)
    PROVE  /\ attempt' \in 1 .. LastAttempt
           /\ response' \in Seq(Messages)
           /\ pc' \in Locations
<1>1. attempt \in Nat /\ attempt \in 1 .. LastAttempt /\ LastAttempt \in Nat
  BY DEF TypeInv, TypeOK, LastAttempt
<1>2. Answer(code) \in Messages
  BY <1>1, MessageTypes
<1>3. CASE NextAttempt /\ attempt < LastAttempt
  BY <1>1, <1>3 DEF NextAttempt, TypeInv, Locations
<1>4. CASE GiveUp(code)
  <2>1. response' \in Seq(Messages)
    BY <1>2, <1>4 DEF GiveUp, TypeInv
  <2> QED
    BY <1>1, <1>4, <2>1 DEF GiveUp, Locations
<1> QED
  BY <1>3, <1>4 DEF FallBack

(* A failed attempt is classified under one of the codes. *)
LEMMA OutcomeCodes ==
    ASSUME TypeOK, pc = "classify" => doError # "none"
    PROVE  /\ StreamOutcome \in Codes
           /\ pc = "classify" => AttemptOutcome \in Codes
<1>1. StreamOutcome \in Codes
  <2>1. StreamOutcome \in {"upstream_timeout", "stall_timeout", "upstream_error"}
    BY Zenon DEF StreamOutcome
  <2> QED
    BY <2>1 DEF Codes, UpstreamErrors
<1>2. ASSUME pc = "classify" PROVE doError \in Codes \/ doError = "transport"
  BY <1>2 DEF TypeOK, Codes
<1>3. AttemptOutcome \in {"upstream_timeout", "upstream_unreachable"}
         \/ (doError # "transport" /\ AttemptOutcome = doError)
  BY Zenon DEF AttemptOutcome
<1>4. {"upstream_timeout", "upstream_unreachable"} \subseteq Codes
  BY DEF Codes
<1> QED
  BY <1>1, <1>2, <1>3, <1>4

(* Everything the client may be sent is of a known kind. *)
LEMMA KindsOfMessages ==
    ASSUME NEW r \in Seq(Messages)
    PROVE  \A j \in DOMAIN r : r[j].kind \in Kinds
<1> SUFFICES ASSUME NEW j \in DOMAIN r PROVE r[j].kind \in Kinds
  OBVIOUS
<1>1. r[j] \in Messages
  OBVIOUS
<1> QED
  BY <1>1 DEF Messages, Kinds

(* A request that has just been received satisfies the invariant. *)
LEMMA InitIInv == Init => IInv
<1> SUFFICES ASSUME Init PROVE IInv
  OBVIOUS
<1>1. candidates \in Seq(Channels) /\ candidates # <<>> /\ DOMAIN candidates = 1 .. LastAttempt
      /\ LastAttempt \in Nat \ {0}
  <2>1. PICK n \in 1 .. Cardinality(Channels) : candidates \in [1 .. n -> Channels]
    BY DEF Init, Rankings
  <2>2. n \in Nat \ {0}
    BY <2>1
  <2> QED
    BY <2>1, <2>2 DEF LastAttempt
<1>2. TypeInv
  <2>1. health \in [1 .. LastAttempt -> Outcomes]
    BY <1>1 DEF Init, Outcomes
  <2>2. response \in Seq(Messages) /\ logs \in Seq(Entries) /\ DOMAIN response = {}
    BY DEF Init
  <2>3. StreamTypeOK
    BY DEF Init, StreamInit, StreamTypeOK, Stages, Events
  <2>4. /\ stream \in BOOLEAN /\ maxTokens \in {"unset", "client", "default"}
        /\ pc \in Locations /\ attempt \in 1 .. LastAttempt
        /\ doError \in UpstreamErrors \cup {"none", "transport"}
        /\ client \in {"connected", "leaving", "gone"}
        /\ timer \in {"off", "armed"}
        /\ callback \in {"none", "load", "store", "cancel"}
    BY <1>1 DEF Init, Locations
  <2>5. gotFirstEvent \in BOOLEAN /\ firedFirstByte \in BOOLEAN /\ cancelled \in BOOLEAN
    BY DEF Init
  <2> QED
    BY <1>1, <2>1, <2>2, <2>3, <2>4, <2>5 DEF TypeInv, TypeOK
<1>3. Silent /\ Phases /\ OneAnswer /\ LogInv /\ HealthInv
  BY <1>1 DEF Init, Silent, Phases, OneAnswer, LogInv, FinalLogIsLast, HealthInv, ChannelsJudged, Sent
<1> QED
  BY <1>2, <1>3 DEF IInv

(* Every step keeps the types. *)
LEMMA TypeStep == IInv /\ [Next]_vars => TypeInv'
<1> SUFFICES ASSUME IInv, [Next]_vars PROVE TypeInv'
  OBVIOUS
<1>a. TypeInv /\ TypeOK /\ (pc = "classify" => doError # "none")
  BY DEF IInv, TypeInv, Phases
<1>b. attempt \in Nat /\ attempt \in 1 .. LastAttempt /\ LastAttempt \in Nat
  BY <1>a DEF TypeOK, LastAttempt
<1>c. response \in Seq(Messages) /\ logs \in Seq(Entries) /\ Len(response) \in Nat
  BY <1>a DEF TypeInv
<1>d. /\ StreamOutcome \in Codes /\ "" \in Codes /\ "partial_failure" \in Codes
      /\ "internal_error" \in Codes /\ "invalid_upstream_response" \in Codes
      /\ "client_disconnect" \in Codes /\ "panic" \in Codes /\ Rejections \subseteq Codes
  BY <1>a, OutcomeCodes DEF Codes, Rejections
<1>e. \A m \in Messages : Append(response, m) \in Seq(Messages) /\ <<m>> \in Seq(Messages)
  BY <1>c
<1>f. \A final \in BOOLEAN, code \in Codes : Log(final, code) => logs' \in Seq(Entries)
  BY <1>b, <1>c DEF Log, Entries
<1>g. \A o \in Outcomes : Record(o) => health' \in [1 .. LastAttempt -> Outcomes]
  BY <1>a, RecordTypes
<1>h. \A code : Blame(code) => health' \in [1 .. LastAttempt -> Outcomes]
  BY <1>g DEF Blame, Outcomes
<1>i. \A code \in Codes : FallBack(code) =>
         attempt' \in 1 .. LastAttempt /\ response' \in Seq(Messages) /\ pc' \in Locations
  BY <1>a, FallBackTypes
<1>j. response' \in Seq(Messages) => \A j \in DOMAIN response' : response'[j].kind \in Kinds
  BY KindsOfMessages
<1>0. CASE UNCHANGED vars
  BY <1>0, <1>a DEF vars, handlerVars, watchdogVars, outputVars, streamVars, TypeInv, TypeOK,
                    LastAttempt, StreamTypeOK
<1>1. CASE Reject
  <2>1. response' \in Seq(Messages)
    BY <1>1, <1>b, <1>d, <1>e, MessageTypes DEF Reject
  <2> QED
    BY <1>1, <1>a, <1>j, <2>1 DEF Reject, handlerVars, watchdogVars, streamVars,
         TypeInv, TypeOK, LastAttempt, StreamTypeOK, Locations
<1>2. CASE Accept \/ Send \/ DoSucceeds
  BY <1>2, <1>a DEF Accept, Send, DoSucceeds, handlerVars, watchdogVars, outputVars, streamVars,
         TypeInv, TypeOK, LastAttempt, StreamTypeOK, Locations
<1>3. CASE Build
  BY <1>3, <1>a DEF Build, watchdogVars, outputVars, streamVars,
         TypeInv, TypeOK, LastAttempt, StreamTypeOK, Locations, Stages, Events
<1>4. CASE BuildFails
  <2>1. response' \in Seq(Messages) /\ logs' \in Seq(Entries)
    BY <1>4, <1>b, <1>c, <1>d, <1>e, <1>f, MessageTypes DEF BuildFails, GiveUp
  <2> QED
    BY <1>4, <1>a, <1>j, <2>1 DEF BuildFails, GiveUp, watchdogVars, streamVars,
         TypeInv, TypeOK, LastAttempt, StreamTypeOK, Locations
<1>5. CASE DoFails
  BY <1>5, <1>a DEF DoFails, handlerVars, watchdogVars, outputVars, streamVars,
         TypeInv, TypeOK, LastAttempt, StreamTypeOK, Locations
<1>6. CASE ClassifyDo
  <2>1. AttemptOutcome \in Codes
    BY <1>6, <1>a, OutcomeCodes DEF ClassifyDo
  <2>2. /\ attempt' \in 1 .. LastAttempt /\ response' \in Seq(Messages) /\ pc' \in Locations
        /\ logs' \in Seq(Entries) /\ health' \in [1 .. LastAttempt -> Outcomes]
    BY <1>6, <1>f, <1>h, <1>i, <2>1 DEF ClassifyDo
  <2> QED
    BY <1>6, <1>a, <1>j, <2>2 DEF ClassifyDo, Leave, streamVars,
         TypeInv, TypeOK, LastAttempt, StreamTypeOK
<1>7. CASE Decode \/ EncodePanics
  <2>1. /\ response' \in Seq(Messages) /\ logs' \in Seq(Entries)
        /\ health' \in [1 .. LastAttempt -> Outcomes]
    BY <1>7, <1>b, <1>c, <1>d, <1>e, <1>f, <1>g, MessageTypes DEF Decode, EncodePanics, Outcomes
  <2> QED
    BY <1>7, <1>a, <1>j, <2>1 DEF Decode, EncodePanics, Leave, handlerVars, streamVars,
         TypeInv, TypeOK, LastAttempt, StreamTypeOK, Locations
<1>8. CASE DecodeFails
  <2>1. /\ attempt' \in 1 .. LastAttempt /\ response' \in Seq(Messages) /\ pc' \in Locations
        /\ logs' \in Seq(Entries) /\ health' \in [1 .. LastAttempt -> Outcomes]
    BY <1>8, <1>d, <1>f, <1>g, <1>i DEF DecodeFails, Outcomes
  <2> QED
    BY <1>8, <1>a, <1>j, <2>1 DEF DecodeFails, Leave, streamVars,
         TypeInv, TypeOK, LastAttempt, StreamTypeOK
<1>9. CASE ReadNext
  <2>1. stage' \in Stages /\ event' \in Events
    BY <1>9 DEF ReadNext, Continue, Start, Block, Delta, Error, Stop, Fail, Return, Stages, Events
  <2> QED
    BY <1>9, <1>a, <2>1 DEF ReadNext, handlerVars, watchdogVars, outputVars,
         TypeInv, TypeOK, LastAttempt, StreamTypeOK, Locations
<1>10. CASE Tick
  BY <1>10, <1>a DEF Tick, handlerVars, outputVars, streamVars,
         TypeInv, TypeOK, LastAttempt, StreamTypeOK, Locations
<1>11. CASE Write \/ WriteFails
  <2>1. event \in Kinds \ {"errorBody"} \/ event = "nil"
    BY <1>a DEF TypeOK, StreamTypeOK, Events, Kinds
  <2>2. event # "nil"
    BY <1>11 DEF IInv, Phases, Write, WriteFails
  <2>3. EventAnswer(event) \in Messages /\ EventAnswer("lost") \in Messages
    BY <1>b, <2>1, <2>2, MessageTypes DEF Kinds
  <2>4. /\ response' \in Seq(Messages) /\ logs' \in Seq(Entries)
        /\ health' \in [1 .. LastAttempt -> Outcomes]
    BY <1>11, <1>a, <1>c, <1>d, <1>e, <1>f, <1>g, <2>3 DEF Write, WriteFails, Outcomes, TypeOK
  <2> QED
    BY <1>11, <1>a, <1>j, <2>4 DEF Write, WriteFails, Leave, handlerVars, streamVars,
         TypeInv, TypeOK, LastAttempt, StreamTypeOK, Locations
<1>12. CASE WritePanics
  BY <1>12, <1>a DEF WritePanics, Leave, handlerVars, outputVars, streamVars,
         TypeInv, TypeOK, LastAttempt, StreamTypeOK, Locations
<1>13. CASE StreamFails
  <2>1. EventAnswer("error") \in Messages
    BY <1>b, MessageTypes DEF Kinds
  <2>2. /\ attempt' \in 1 .. LastAttempt /\ response' \in Seq(Messages) /\ pc' \in Locations
        /\ logs' \in Seq(Entries) /\ health' \in [1 .. LastAttempt -> Outcomes]
    BY <1>13, <1>b, <1>c, <1>d, <1>e, <1>f, <1>h, <1>i, <2>1 DEF StreamFails, Locations
  <2> QED
    BY <1>13, <1>a, <1>j, <2>2 DEF StreamFails, Leave, streamVars,
         TypeInv, TypeOK, LastAttempt, StreamTypeOK
<1>14. CASE Watchdog \/ ClientLeaves
  BY <1>14, <1>a DEF Watchdog, DeadlinePasses, TimerFires, CallbackLoads, CallbackStores,
         CallbackCancels, ClientLeaves, handlerVars, watchdogVars, outputVars, streamVars,
         TypeInv, TypeOK, LastAttempt, StreamTypeOK
<1> QED
  BY <1>0, <1>1, <1>2, <1>3, <1>4, <1>5, <1>6, <1>7, <1>8, <1>9, <1>10, <1>11, <1>12,
     <1>13, <1>14 DEF Next, Handler, Answered

-----------------------------------------------------------------------------
(* The answer.                                                             *)

(* One message that is the whole answer. *)
LEMMA SingleAnswer ==
    ASSUME NEW m, m.kind \in {"errorBody", "completion"}, m.attempt = attempt',
           response' = <<m>>, pc' = "done"
    PROVE  Silent' /\ Phases' /\ OneAnswer'
<1>1. DOMAIN response' = {1} /\ response'[1] = m /\ Len(response') = 1
  OBVIOUS
<1>2. Sent({"errorBody", "completion", "lost"})' # {}
  BY <1>1 DEF Sent
<1> QED
  BY <1>1, <1>2 DEF Silent, Phases, OneAnswer

(* Nothing written, and a request that goes on. *)
LEMMA NoAnswer ==
    ASSUME response' = <<>>, pc' # "done"
    PROVE  OneAnswer' /\ Sent({"errorBody", "completion"})' = {}
  BY DEF OneAnswer, Sent

(* Falling back with nothing written leaves nothing, or one error body. *)
LEMMA FallBackAnswer ==
    ASSUME TypeInv, NEW code \in Codes, FallBack(code), response = <<>>
    PROVE  Silent' /\ Phases' /\ OneAnswer'
<1>1. CASE NextAttempt
  BY <1>1, NoAnswer DEF NextAttempt, Silent, Phases
<1>2. CASE GiveUp(code)
  <2>1. Answer(code).kind = "errorBody" /\ Answer(code).attempt = attempt
    BY DEF Answer
  <2>2. response' = <<Answer(code)>>
    BY <1>2 DEF GiveUp
  <2> HIDE DEF Answer
  <2> QED
    BY <1>2, <2>1, <2>2, SingleAnswer DEF GiveUp
<1> QED
  BY <1>1, <1>2 DEF FallBack

(* One more event of the attempt under way. *)
LEMMA EventAppended ==
    ASSUME TypeInv, Phases, OneAnswer, pc # "done",
           NEW m \in Messages, m.kind \notin {"errorBody", "completion"},
           m.attempt = attempt, attempt' = attempt, response' = Append(response, m),
           pc' = "done" => m.kind \in {"start", "error", "lost"} \/ Sent({"start", "error"}) # {}
    PROVE  OneAnswer' /\ Sent({"errorBody", "completion"})' = {}
<1>1. response \in Seq(Messages) /\ Len(response) \in Nat
  BY DEF TypeInv
<1>2. \A j \in DOMAIN response' : response'[j].attempt = attempt
  <2>1. \A j \in DOMAIN response' :
          response'[j] = m \/ (j \in DOMAIN response /\ response'[j] = response[j])
    BY <1>1
  <2> QED
    BY <2>1 DEF OneAnswer
<1>3. Sent({"errorBody", "completion"})' = {}
  BY <1>1, SentAppend DEF Phases
<1>4. ASSUME pc' = "done", Sent({"start", "error"})' = {}
      PROVE  Sent({"errorBody", "completion", "lost"})' # {}
  <2>1. m.kind = "lost"
    BY <1>1, <1>4, SentAppend
  <2> QED
    BY <1>1, <2>1, SentAppend
<1> QED
  BY <1>2, <1>3, <1>4 DEF OneAnswer

(* Every step keeps what the client has been sent in one piece. *)
LEMMA AnswerStep == IInv /\ [Next]_vars => Silent' /\ Phases' /\ OneAnswer'
<1> SUFFICES ASSUME IInv, [Next]_vars PROVE Silent' /\ Phases' /\ OneAnswer'
  OBVIOUS
<1>a. TypeInv /\ TypeOK /\ Silent /\ Phases /\ OneAnswer /\ attempt \in Nat
  BY DEF IInv, TypeInv, TypeOK
<1>b. /\ StreamOutcome \in Codes /\ "invalid_upstream_response" \in Codes
      /\ pc = "classify" => AttemptOutcome \in Codes
  BY <1>a, OutcomeCodes DEF Codes, Phases
<1>c. UNCHANGED response => \A kinds : Sent(kinds)' = Sent(kinds)
  BY DEF Sent
<1>d. \A ev \in Kinds \ {"errorBody"} : /\ EventAnswer(ev) \in Messages
                                       /\ EventAnswer(ev).kind = ev
                                       /\ EventAnswer(ev).attempt = attempt
  BY <1>a, MessageTypes
<1>0. CASE UNCHANGED <<pc, stream, stage, event, doError, attempt, response>>
  BY <1>0, <1>a, <1>c DEF Silent, Phases, OneAnswer
<1>1. CASE Reject
  <2>1. PICK code : response' = <<Answer(code)>>
    BY <1>1 DEF Reject
  <2>2. Answer(code).kind = "errorBody" /\ Answer(code).attempt = attempt
    BY DEF Answer
  <2> QED
    BY <1>1, <2>1, <2>2, SingleAnswer DEF Reject, handlerVars
<1>2. CASE BuildFails
  <2> DEFINE m == Answer("internal_error")
  <2>1. response' = <<m>> /\ pc' = "done" /\ UNCHANGED attempt
    BY <1>2, <1>a DEF BuildFails, GiveUp, Silent
  <2>2. m.kind = "errorBody" /\ m.attempt = attempt
    BY DEF Answer
  <2> HIDE DEF m
  <2> QED
    BY <2>1, <2>2, SingleAnswer
<1>3. CASE Accept \/ Build \/ Send \/ DoFails
  <2>1. response' = <<>> /\ pc' \in {"build", "do", "waiting", "classify"}
    BY <1>3, <1>a DEF Accept, Build, Send, DoFails, outputVars, Silent
  <2>2. pc' = "do" => stage' = "fresh"
    BY <1>3, <1>a DEF Accept, Build, Send, DoFails
  <2>3. pc' = "waiting" => stage' = "fresh"
    BY <1>3, <1>a DEF Accept, Build, Send, DoFails, streamVars, Phases
  <2>4. pc' = "classify" => doError' # "none"
    BY <1>3, <1>a DEF Accept, Build, Send, DoFails, UpstreamErrors
  <2> QED
    BY <2>1, <2>2, <2>3, <2>4, NoAnswer DEF Silent, Phases
<1>4. CASE DoSucceeds
  <2>1. response' = <<>> /\ pc' = "read" /\ stage' = "fresh"
    BY <1>4, <1>a DEF DoSucceeds, outputVars, streamVars, Silent, Phases
  <2> QED
    BY <2>1, NoAnswer DEF Silent, Phases
<1>5. CASE ClassifyDo
  BY <1>5, <1>a, <1>b, FallBackAnswer DEF ClassifyDo, Silent
<1>6. CASE DecodeFails
  BY <1>6, <1>a, <1>b, FallBackAnswer DEF DecodeFails, Silent
<1>7. CASE Decode
  <2> DEFINE m == Completion
  <2>1. response = <<>> /\ pc' = "done" /\ UNCHANGED attempt
    BY <1>7, <1>a DEF Decode, Silent, handlerVars
  <2>2. response' = Append(response, m)
    BY <1>7 DEF Decode
  <2>3. m.kind = "completion" /\ m.attempt = attempt
    BY <1>a, MessageTypes
  <2> HIDE DEF m
  <2>4. response' = <<m>>
    BY <2>1, <2>2
  <2> QED
    BY <2>1, <2>3, <2>4, SingleAnswer
<1>8. CASE EncodePanics
  <2> DEFINE m == Answer("panic")
  <2>1. response' = <<m>> /\ pc' = "done" /\ UNCHANGED attempt
    BY <1>8, <1>a DEF EncodePanics, Silent, handlerVars
  <2>2. m.kind = "errorBody" /\ m.attempt = attempt
    BY DEF Answer
  <2> HIDE DEF m
  <2> QED
    BY <2>1, <2>2, SingleAnswer
<1>9. CASE ReadNext
  <2>1. /\ pc = "read" /\ stream /\ pc' = "tick" /\ stream' = stream
        /\ UNCHANGED <<attempt, response>>
    BY <1>9 DEF ReadNext, handlerVars, outputVars
  <2>2. stage = "fresh" => event' \in {"start", "error", "nil"}
    BY <1>9 DEF ReadNext, Continue, Start, Block, Delta, Error, Stop, Fail, Return
  <2> QED
    BY <2>1, <2>2, <1>a, <1>c DEF Silent, Phases, OneAnswer
<1>10. CASE Tick
  <2>1. /\ pc = "tick" /\ UNCHANGED <<stream, event, attempt, response>>
        /\ pc' = "failed" \/ (pc' = "write" /\ event # "nil")
    BY <1>10 DEF Tick, handlerVars, outputVars, streamVars
  <2> QED
    BY <2>1, <1>a, <1>c DEF Silent, Phases, OneAnswer
<1>11. CASE Write
  <2>1. /\ pc = "write" /\ event \in Kinds \ {"errorBody", "completion"}
        /\ response' = Append(response, EventAnswer(event))
        /\ UNCHANGED <<stream, attempt>>
        /\ pc' = "read" \/ (pc' = "done" /\ event = "stop")
    BY <1>11, <1>a DEF Write, Phases, TypeOK, StreamTypeOK, Events, Kinds, handlerVars
  <2> DEFINE m == EventAnswer(event)
  <2>2. m \in Messages /\ m.kind = event /\ m.attempt = attempt
    BY <1>d, <2>1
  <2>3. event \in {"start", "error"} \/ Sent({"start", "error"}) # {}
    BY <2>1, <1>a DEF Phases, Kinds
  <2> HIDE DEF m
  <2>4. Sent({"start", "error"})' # {}
    BY <2>1, <2>2, <2>3, <1>a, SentAppend DEF m, TypeInv
  <2>5. OneAnswer' /\ Sent({"errorBody", "completion"})' = {}
    BY <2>1, <2>2, <2>3, <1>a, EventAppended DEF m
  <2> QED
    BY <2>1, <2>4, <2>5, <1>a DEF Silent, Phases
<1>12. CASE WriteFails
  <2>1. /\ pc = "write" /\ pc' = "done" /\ UNCHANGED attempt
        /\ response' = Append(response, EventAnswer("lost"))
    BY <1>12 DEF WriteFails, handlerVars
  <2>2. /\ EventAnswer("lost") \in Messages /\ EventAnswer("lost").kind = "lost"
        /\ EventAnswer("lost").attempt = attempt
    BY <1>d DEF Kinds
  <2>3. OneAnswer'
    BY <2>1, <2>2, <1>a, EventAppended
  <2> QED
    BY <2>1, <2>3 DEF Silent, Phases
<1>13. CASE WritePanics
  <2>1. pc = "write" /\ event = "delta" /\ pc' = "done" /\ UNCHANGED <<attempt, response>>
    BY <1>13 DEF WritePanics, handlerVars, outputVars
  <2>2. Sent({"start", "error"})' # {}
    BY <2>1, <1>a, <1>c DEF Phases
  <2> QED
    BY <2>1, <2>2, <1>a, <1>c DEF Silent, Phases, OneAnswer
<1>14. CASE StreamFails
  <2>1. CASE ~Written
    BY <1>14, <2>1, <1>a, <1>b, FallBackAnswer DEF StreamFails, Written
  <2>2. CASE Written
    <3>1. /\ pc = "failed" /\ pc' = "done" /\ UNCHANGED attempt
          /\ response' = Append(response, EventAnswer("error"))
      BY <1>14, <2>2 DEF StreamFails
    <3>2. /\ EventAnswer("error") \in Messages /\ EventAnswer("error").kind = "error"
          /\ EventAnswer("error").attempt = attempt
      BY <1>d DEF Kinds
    <3>3. OneAnswer'
      BY <3>1, <3>2, <1>a, EventAppended
    <3> QED
      BY <3>1, <3>3 DEF Silent, Phases
  <2> QED
    BY <2>1, <2>2
<1>15. CASE UNCHANGED vars \/ Watchdog \/ ClientLeaves
  BY <1>15, <1>0 DEF vars, Watchdog, DeadlinePasses, TimerFires, CallbackLoads, CallbackStores,
       CallbackCancels, ClientLeaves, handlerVars, watchdogVars, outputVars, streamVars
<1> QED
  BY <1>1, <1>2, <1>3, <1>4, <1>5, <1>6, <1>7, <1>8, <1>9, <1>10, <1>11, <1>12, <1>13,
     <1>14, <1>15 DEF Next, Handler, Answered

-----------------------------------------------------------------------------
(* The log and the health of the channels.                                 *)

(* The attempt of a log entry is a number. *)
LEMMA EntryTypes ==
    ASSUME TypeInv, NEW j \in DOMAIN logs
    PROVE  logs[j].attempt \in Nat
<1>1. logs[j] \in Entries
  BY DEF TypeInv
<1> QED
  BY <1>1 DEF Entries

(* An entry for the attempt under way, the first it gets. *)
LEMMA LogGrows ==
    ASSUME TypeInv, LogInv, pc # "done",
           NEW final \in BOOLEAN, NEW code \in Codes, Log(final, code),
           \/ pc' = "done" /\ UNCHANGED attempt
           \/ pc' # "done" /\ attempt' = attempt + 1 /\ ~final
    PROVE  LogInv'
<1>1. attempt \in Nat /\ logs \in Seq(Entries) /\ Len(logs) \in Nat
  BY DEF TypeInv, TypeOK
<1> DEFINE e == [attempt |-> attempt, final |-> final, code |-> code]
<1>2. e.attempt = attempt /\ e.final = final /\ e \in Entries
  BY <1>1 DEF Entries
<1>3. logs' = Append(logs, e)
  BY DEF Log
<1> HIDE DEF e
<1>4. /\ Len(logs') = Len(logs) + 1 /\ DOMAIN logs' = 1 .. (Len(logs) + 1)
      /\ logs'[Len(logs) + 1] = e
      /\ \A j \in 1 .. Len(logs) : j \in DOMAIN logs /\ logs'[j] = logs[j]
  BY <1>1, <1>2, <1>3
<1>5. \A j \in 1 .. Len(logs) : logs'[j].attempt < attempt /\ ~logs'[j].final
                              /\ logs'[j].attempt \in Nat
  BY <1>4, EntryTypes DEF LogInv
<1>6. \A j, k \in DOMAIN logs' : j < k => logs'[j].attempt < logs'[k].attempt
  <2> SUFFICES ASSUME NEW j \in DOMAIN logs', NEW k \in DOMAIN logs', j < k
               PROVE  logs'[j].attempt < logs'[k].attempt
    OBVIOUS
  <2>1. j \in 1 .. Len(logs)
    BY <1>1, <1>4
  <2>2. CASE k = Len(logs) + 1
    BY <1>2, <1>4, <1>5, <2>1, <2>2
  <2>3. CASE k \in 1 .. Len(logs)
    BY <1>4, <2>1, <2>3 DEF LogInv, FinalLogIsLast
  <2> QED
    BY <1>1, <1>4, <2>2, <2>3
<1>7. \A j \in DOMAIN logs' : logs'[j].final => j = Len(logs') /\ final
  BY <1>1, <1>2, <1>4, <1>5
<1>8. \A j \in DOMAIN logs' : logs'[j].attempt < attempt + 1
  BY <1>1, <1>2, <1>4, <1>5
<1> QED
  BY <1>1, <1>6, <1>7, <1>8 DEF LogInv, FinalLogIsLast

(* No entry, and no step back. *)
LEMMA LogKept ==
    ASSUME TypeInv, LogInv, UNCHANGED logs,
           \/ pc = "done" /\ UNCHANGED <<pc, attempt>>
           \/ pc # "done" /\ attempt' \in {attempt, attempt + 1}
    PROVE  LogInv'
<1>1. attempt \in Nat /\ \A j \in DOMAIN logs : logs[j].attempt \in Nat
  BY EntryTypes DEF TypeInv, TypeOK
<1> QED
  BY <1>1 DEF LogInv, FinalLogIsLast

(* Every step keeps the log in order. *)
LEMMA LogStep == IInv /\ [Next]_vars => LogInv'
<1> SUFFICES ASSUME IInv, [Next]_vars PROVE LogInv'
  OBVIOUS
<1>a. TypeInv /\ TypeOK /\ LogInv
  BY DEF IInv, TypeInv
<1>b. /\ "" \in Codes /\ "partial_failure" \in Codes /\ "internal_error" \in Codes
      /\ "invalid_upstream_response" \in Codes /\ "client_disconnect" \in Codes
  BY DEF Codes, UpstreamErrors, Rejections
<1>c. pc = "classify" => AttemptOutcome \in Codes
  BY <1>a, OutcomeCodes DEF IInv, Phases
<1>0. CASE UNCHANGED <<pc, logs, attempt>>
  BY <1>0, <1>a, LogKept
<1>1. CASE Reject \/ Accept \/ Build \/ Send \/ DoSucceeds \/ DoFails \/ EncodePanics
           \/ ReadNext \/ Tick \/ WritePanics
  <2>1. pc # "done" /\ UNCHANGED <<logs, attempt>>
    BY <1>1 DEF Reject, Accept, Build, Send, DoSucceeds, DoFails, EncodePanics,
         ReadNext, Tick, WritePanics, handlerVars, outputVars
  <2> QED
    BY <2>1, <1>a, LogKept
<1>2. CASE BuildFails
  <2>1. pc # "done" /\ pc' = "done" /\ UNCHANGED attempt
    BY <1>2 DEF BuildFails, GiveUp
  <2>2. UNCHANGED logs \/ Log(TRUE, "internal_error")
    BY <1>2 DEF BuildFails
  <2> QED
    BY <2>1, <2>2, <1>a, <1>b, LogGrows, LogKept
<1>3. CASE ClassifyDo
  <2> DEFINE code == AttemptOutcome
             final == code = "invalid_request_error" \/ attempt = LastAttempt
  <2>1. /\ pc = "classify" /\ code \in Codes /\ final \in BOOLEAN
        /\ Log(final, code) /\ FallBack(code)
    BY <1>3, <1>c DEF ClassifyDo
  <2>2. \/ pc' = "done" /\ UNCHANGED attempt
        \/ pc' # "done" /\ attempt' = attempt + 1 /\ ~final
    BY <2>1, <1>a DEF FallBack, NextAttempt, GiveUp, TypeOK
  <2> HIDE DEF code, final
  <2> QED
    BY <2>1, <2>2, <1>a, LogGrows
<1>4. CASE DecodeFails
  <2> DEFINE code == "invalid_upstream_response"
             final == attempt = LastAttempt
  <2>1. /\ pc = "read" /\ code \in Codes /\ final \in BOOLEAN
        /\ Log(final, code) /\ FallBack(code)
    BY <1>4, <1>b DEF DecodeFails
  <2>2. \/ pc' = "done" /\ UNCHANGED attempt
        \/ pc' # "done" /\ attempt' = attempt + 1 /\ ~final
    BY <2>1, <1>a DEF FallBack, NextAttempt, GiveUp, TypeOK
  <2> HIDE DEF code, final
  <2> QED
    BY <2>1, <2>2, <1>a, LogGrows
<1>5. CASE Decode \/ WriteFails
  <2>1. /\ pc # "done" /\ pc' = "done" /\ UNCHANGED attempt
        /\ Log(TRUE, "") \/ Log(TRUE, "client_disconnect")
    BY <1>5 DEF Decode, WriteFails, handlerVars
  <2> QED
    BY <2>1, <1>a, <1>b, LogGrows
<1>6. CASE Write
  <2>1. /\ pc # "done" /\ UNCHANGED attempt
        /\ UNCHANGED logs \/ (pc' = "done" /\ Log(TRUE, ""))
    BY <1>6 DEF Write, handlerVars
  <2> QED
    BY <2>1, <1>a, <1>b, LogGrows, LogKept
<1>7. CASE StreamFails
  <2>1. CASE ~Written
    <3>1. pc # "done" /\ UNCHANGED logs /\ attempt' \in {attempt, attempt + 1}
      BY <1>7, <2>1 DEF StreamFails, FallBack, NextAttempt, GiveUp
    <3> QED
      BY <3>1, <1>a, LogKept
  <2>2. CASE Written
    <3>1. /\ pc # "done" /\ pc' = "done" /\ UNCHANGED attempt
          /\ Log(TRUE, "partial_failure")
      BY <1>7, <2>2 DEF StreamFails
    <3> QED
      BY <3>1, <1>a, <1>b, LogGrows
  <2> QED
    BY <2>1, <2>2
<1>8. CASE UNCHANGED vars \/ Watchdog \/ ClientLeaves
  BY <1>8, <1>0 DEF vars, Watchdog, DeadlinePasses, TimerFires, CallbackLoads, CallbackStores,
       CallbackCancels, ClientLeaves, handlerVars, outputVars
<1> QED
  BY <1>1, <1>2, <1>3, <1>4, <1>5, <1>6, <1>7, <1>8 DEF Next, Handler, Answered

(* A step within an attempt judges nothing. *)
LEMMA JudgedKept ==
    ASSUME HealthInv, pc # "done", UNCHANGED <<attempt, health, logs>>
    PROVE  HealthInv'
  BY DEF HealthInv, ChannelsJudged

(* The end of an attempt: its channel is judged, or the judgement is lost, *)
(* and what is logged agrees with it.                                      *)
LEMMA Verdict ==
    ASSUME IInv, pc # "done", NEW o \in Outcomes, NEW r \in {o, "lost"},
           health' = [health EXCEPT ![attempt] = r],
           \/ pc' = "done" /\ attempt' = attempt
           \/ pc' # "done" /\ attempt' = attempt + 1 /\ o \in {"failed", "limited"},
           \/ UNCHANGED logs
           \/ \E final, code : Log(final, code) /\ Judgement(code) = o
    PROVE  HealthInv'
<1>1. /\ HealthInv /\ ChannelsJudged /\ attempt \in 1 .. LastAttempt /\ LastAttempt \in Nat
      /\ health \in [1 .. LastAttempt -> Outcomes] /\ logs \in Seq(Entries)
      /\ \A j \in DOMAIN logs : logs[j].attempt < attempt /\ logs[j].attempt \in DOMAIN health
  BY DEF IInv, TypeInv, TypeOK, LastAttempt, HealthInv, LogInv
<1>2. /\ DOMAIN health = 1 .. LastAttempt /\ DOMAIN health' = 1 .. LastAttempt
      /\ health'[attempt] = r
      /\ \A j \in 1 .. LastAttempt : j # attempt => health'[j] = health[j]
  BY <1>1
<1>3. \A j \in 1 .. attempt' - 1 : health'[j] \in {"failed", "limited", "lost"}
  <2> SUFFICES ASSUME NEW j \in 1 .. attempt' - 1
               PROVE  health'[j] \in {"failed", "limited", "lost"}
    OBVIOUS
  <2>1. CASE j = attempt
    <3>1. o \in {"failed", "limited"}
      BY <1>1, <2>1
    <3> QED
      BY <1>2, <2>1, <3>1
  <2>2. CASE j # attempt
    <3>1. j \in 1 .. attempt - 1 /\ j \in 1 .. LastAttempt
      BY <1>1, <2>2
    <3> QED
      BY <1>1, <1>2, <2>2, <3>1 DEF ChannelsJudged
  <2> QED
    BY <2>1, <2>2
<1>4. \A j \in DOMAIN health' : health'[j] = "ok" => j = attempt' /\ pc' = "done"
  <2>1. \A j \in 1 .. LastAttempt : j # attempt => health[j] # "ok"
    BY <1>1, <1>2 DEF ChannelsJudged
  <2> QED
    BY <1>1, <1>2, <2>1
<1>5. pc' # "done" => \A j \in DOMAIN health' : j >= attempt' => health'[j] = "none"
  BY <1>1, <1>2 DEF HealthInv
<1>6. \A j \in DOMAIN logs : logs[j].attempt \in DOMAIN health' /\ health'[logs[j].attempt] = health[logs[j].attempt]
  BY <1>1, <1>2
<1>7. CASE UNCHANGED logs
  BY <1>1, <1>3, <1>4, <1>5, <1>6, <1>7 DEF HealthInv, ChannelsJudged
<1>8. CASE \E final, code : Log(final, code) /\ Judgement(code) = o
  <2>1. PICK final, code : Log(final, code) /\ Judgement(code) = o
    BY <1>8
  <2> DEFINE e == [attempt |-> attempt, final |-> final, code |-> code]
  <2>2. e.attempt = attempt /\ e.code = code
    OBVIOUS
  <2>3. logs' = Append(logs, e)
    BY <2>1 DEF Log
  <2> HIDE DEF e
  <2>4. \A j \in DOMAIN logs' : (j \in DOMAIN logs /\ logs'[j] = logs[j]) \/ logs'[j] = e
    BY <1>1, <2>3
  <2>5. ASSUME NEW j \in DOMAIN logs'
        PROVE  /\ logs'[j].attempt \in DOMAIN health'
               /\ health'[logs'[j].attempt] \in {Judgement(logs'[j].code), "lost"}
    <3>1. CASE j \in DOMAIN logs /\ logs'[j] = logs[j]
      BY <1>1, <1>6, <3>1 DEF ChannelsJudged
    <3>2. CASE logs'[j] = e
      BY <1>1, <1>2, <2>1, <2>2, <3>2
    <3> QED
      BY <2>4, <3>1, <3>2
  <2> QED
    BY <1>3, <1>4, <1>5, <2>5 DEF HealthInv, ChannelsJudged
<1> QED
  BY <1>7, <1>8

(* What is blamed for a failure is what its entry says. *)
LEMMA Judgements ==
    /\ Judgement("") = "ok" /\ Judgement("client_disconnect") = "ok"
    /\ Judgement("internal_error") = "none"
    /\ Judgement("partial_failure") = "failed"
    /\ Judgement("invalid_upstream_response") = "failed"
    /\ StreamOutcome # "rate_limited"
    /\ Judgement("rate_limited") = "limited"
    /\ \A code : code \notin {"", "client_disconnect", "rate_limited", "internal_error"}
                  => Judgement(code) = "failed"
  BY Zenon DEF Judgement, StreamOutcome

(* Every step credits and blames the right channel. *)
LEMMA JudgedStep == IInv /\ [Next]_vars => HealthInv'
<1> SUFFICES ASSUME IInv, [Next]_vars PROVE HealthInv'
  OBVIOUS
<1>a. HealthInv /\ attempt \in 1 .. LastAttempt /\ health \in [1 .. LastAttempt -> Outcomes]
      /\ attempt \in DOMAIN health /\ attempt \in Nat
  BY DEF IInv, TypeInv, TypeOK, LastAttempt
<1>0. CASE UNCHANGED <<pc, attempt, health, logs>>
  BY <1>0, <1>a DEF HealthInv, ChannelsJudged
<1>1. CASE Reject \/ Accept \/ Build \/ Send \/ DoSucceeds \/ DoFails
           \/ ReadNext \/ Tick \/ WritePanics
  <2>1. pc # "done" /\ UNCHANGED <<attempt, health, logs>>
    BY <1>1 DEF Reject, Accept, Build, Send, DoSucceeds, DoFails,
         ReadNext, Tick, WritePanics, handlerVars, outputVars
  <2> QED
    BY <2>1, <1>a, JudgedKept
<1>2. ASSUME NEW o \in Outcomes, Record(o), pc # "done",
             \/ pc' = "done" /\ attempt' = attempt
             \/ pc' # "done" /\ attempt' = attempt + 1 /\ o \in {"failed", "limited"},
             \/ UNCHANGED logs
             \/ \E final, code : Log(final, code) /\ Judgement(code) = o
      PROVE  HealthInv'
  <2>1. PICK r \in {o, "lost"} : health' = [health EXCEPT ![attempt] = r]
    BY <1>2 DEF Record
  <2> QED
    BY <1>2, <2>1, Verdict
<1>3. CASE BuildFails
  <2>1. /\ pc # "done" /\ pc' = "done" /\ UNCHANGED <<attempt, health>>
        /\ UNCHANGED logs \/ Log(TRUE, "internal_error")
    BY <1>3 DEF BuildFails, GiveUp
  <2>2. health[attempt] = "none"
    BY <2>1, <1>a DEF HealthInv
  <2>3. health' = [health EXCEPT ![attempt] = "none"] /\ "none" \in Outcomes
    BY <2>1, <2>2, <1>a DEF Outcomes
  <2> QED
    BY <2>1, <2>3, Verdict, Judgements
<1>4. CASE ClassifyDo
  <2> DEFINE o == IF AttemptOutcome = "rate_limited" THEN "limited" ELSE "failed"
  <2>1. /\ pc = "classify" /\ FallBack(AttemptOutcome) /\ Record(o)
        /\ \E final : Log(final, AttemptOutcome)
    BY <1>4 DEF ClassifyDo, Blame
  <2>2. AttemptOutcome \notin {"", "client_disconnect", "internal_error"}
    <3>1. /\ doError \in UpstreamErrors \cup {"none", "transport"} /\ doError # "none"
      BY <2>1 DEF IInv, TypeInv, TypeOK, Phases
    <3>2. doError \notin {"", "client_disconnect", "internal_error"}
      BY <3>1 DEF UpstreamErrors
    <3> QED
      BY <3>2, Zenon DEF AttemptOutcome
  <2>3. Judgement(AttemptOutcome) = o
    BY <2>2, Judgements
  <2>4. \/ pc' = "done" /\ attempt' = attempt
        \/ pc' # "done" /\ attempt' = attempt + 1
    BY <2>1 DEF FallBack, NextAttempt, GiveUp
  <2>5. o \in {"failed", "limited"}
    OBVIOUS
  <2> HIDE DEF o
  <2> QED
    BY <2>1, <2>3, <2>4, <2>5, <1>2 DEF Outcomes
<1>5. CASE DecodeFails
  <2>1. /\ pc # "done" /\ Record("failed") /\ \E final : Log(final, "invalid_upstream_response")
        /\ \/ pc' = "done" /\ attempt' = attempt
           \/ pc' # "done" /\ attempt' = attempt + 1
    BY <1>5 DEF DecodeFails, FallBack, NextAttempt, GiveUp
  <2> QED
    BY <2>1, <1>2, Judgements DEF Outcomes
<1>6. CASE Decode \/ EncodePanics \/ WriteFails
  <2>1. /\ Record("ok") /\ pc # "done" /\ pc' = "done" /\ UNCHANGED attempt
        /\ UNCHANGED logs \/ Log(TRUE, "") \/ Log(TRUE, "client_disconnect")
    BY <1>6 DEF Decode, EncodePanics, WriteFails, handlerVars
  <2> QED
    BY <2>1, <1>2, Judgements DEF Outcomes
<1>7. CASE Write
  <2>1. /\ pc # "done" /\ UNCHANGED attempt
        /\ UNCHANGED <<health, logs>> \/ (pc' = "done" /\ Record("ok") /\ Log(TRUE, ""))
    BY <1>7 DEF Write, handlerVars
  <2>2. CASE UNCHANGED <<health, logs>>
    BY <2>1, <2>2, <1>a, JudgedKept
  <2>3. CASE pc' = "done" /\ Record("ok") /\ Log(TRUE, "")
    BY <2>1, <2>3, <1>2, Judgements DEF Outcomes
  <2> QED
    BY <2>1, <2>2, <2>3
<1>8. CASE StreamFails
  <2>1. Record("failed") /\ pc # "done"
    BY <1>8, Judgements DEF StreamFails, Blame
  <2>2. \/ pc' = "done" /\ attempt' = attempt
        \/ pc' # "done" /\ attempt' = attempt + 1
    BY <1>8 DEF StreamFails, FallBack, NextAttempt, GiveUp
  <2>3. UNCHANGED logs \/ Log(TRUE, "partial_failure")
    BY <1>8 DEF StreamFails
  <2> QED
    BY <2>1, <2>2, <2>3, <1>2, Judgements DEF Outcomes
<1>9. CASE UNCHANGED vars \/ Watchdog \/ ClientLeaves
  BY <1>9, <1>0 DEF vars, Watchdog, DeadlinePasses, TimerFires, CallbackLoads, CallbackStores,
       CallbackCancels, ClientLeaves, handlerVars, outputVars
<1> QED
  BY <1>1, <1>3, <1>4, <1>5, <1>6, <1>7, <1>8, <1>9 DEF Next, Handler, Answered

-----------------------------------------------------------------------------
(* The theorems.                                                           *)

(* One request, its watchdog and its client always satisfy the invariant. *)
THEOREM Invariance == Spec => []IInv
<1>1. IInv /\ [Next]_vars => IInv'
  BY TypeStep, AnswerStep, LogStep, JudgedStep DEF IInv
<1> QED
  BY <1>1, InitIInv, PTL DEF Spec

(* Type correctness; the handler never runs past its candidates.           *)
THEOREM TypeCorrect == Spec => []TypeOK
<1>1. IInv => TypeOK
  BY DEF IInv, TypeInv
<1> QED
  BY <1>1, Invariance, PTL

(* Whatever the upstreams, the watchdog and the client do, the client gets *)
(* one answer of one attempt: never parts of two, never an error body      *)
(* after the first event, and never nothing at all.                        *)
THEOREM AnsweredOnce == Spec => []OneAnswer
<1>1. IInv => OneAnswer
  BY DEF IInv
<1> QED
  BY <1>1, Invariance, PTL

(* Every attempt is logged at most once, in order, and a final entry is    *)
(* the last of a request that is over.                                     *)
THEOREM LoggedInOrder == Spec => []FinalLogIsLast
<1>1. IInv => FinalLogIsLast
  BY DEF IInv, LogInv
<1> QED
  BY <1>1, Invariance, PTL

(* No channel is passed over unblamed, only the one that answered is       *)
(* credited, and what is recorded agrees with the log, wherever the        *)
(* statements of recordOutcome fail (attempt.go): an outcome may be lost,  *)
(* but never be another one.                                               *)
THEOREM JudgedFairly == Spec => []ChannelsJudged
<1>1. IInv => ChannelsJudged
  BY DEF IInv, HealthInv
<1> QED
  BY <1>1, Invariance, PTL

-----------------------------------------------------------------------------
(* What the log and the client are told of attempts that fail.             *)
(*                                                                         *)
(* The argument: the stage of the reader, the event that waits to be       *)
(* written and the last event that was sent belong together (StageInv,     *)
(* StopInv), so that a reading that fails has sent no error event before;  *)
(* and without streaming, the log is as long as the attempts that are over *)
(* (UnaryInv).                                                             *)

(* The event that waits to be written is the one the reader's stage says,  *)
(* and an error event, once sent, is followed by nothing but the stop.     *)
StageInv ==
    /\ pc \in {"tick", "write"} =>
         /\ stage = "failed" <=> event = "nil"
         /\ stage = "closing" => event = "delta"
         /\ stage = "errored" <=> event = "error"
         /\ event = "stop" => stage = "stopped"
    /\ pc = "read" => stage # "failed"
    /\ pc = "failed" => stage = "failed"
    /\ Sent({"error"}) # {} => stage \in {"errored", "stopped"} \/ pc = "done"

(* The last event that was sent allows a stop to follow it.                *)
EndSent == response # <<>> /\ response[Len(response)].kind \in {"delta", "error"}

StopInv ==
    /\ pc # "done" => Sent({"stop"}) = {}
    /\ pc = "read" /\ stage \in {"closing", "errored"} => EndSent
    /\ pc \in {"tick", "write"} /\ event = "stop" => EndSent

(* Without streaming, as many attempts are logged as are over.             *)
UnaryInv ==
    /\ UnaryAttemptsLogged
    /\ ~stream /\ pc # "done" => Len(logs) = attempt - 1
    /\ pc = "received" => requested = <<>>

ReportInv == StageInv /\ StopInv /\ ReadFailureReported /\ UnaryInv

-----------------------------------------------------------------------------
(* What appending one message does to what has been sent of a kind.        *)
LEMMA OneMoreSent ==
    ASSUME response \in Seq(Messages), NEW m \in Messages, response' = Append(response, m)
    PROVE  /\ Len(response) \in Nat /\ Len(response') = Len(response) + 1
           /\ response'[Len(response')] = m /\ response' # <<>>
           /\ \A j \in 1 .. Len(response) : response'[j] = response[j]
           /\ \A kinds : /\ m.kind \notin kinds => Sent(kinds)' = Sent(kinds)
                         /\ m.kind \in kinds => Sent(kinds)' = Sent(kinds) \cup {Len(response')}
<1>1. /\ Len(response) \in Nat
      /\ DOMAIN response = 1 .. Len(response)
      /\ DOMAIN response' = 1 .. (Len(response) + 1)
      /\ Len(response') = Len(response) + 1
      /\ response'[Len(response) + 1] = m
      /\ \A j \in DOMAIN response : response'[j] = response[j]
  OBVIOUS
<1>2. \A j : j \in DOMAIN response' <=> j \in DOMAIN response \/ j = Len(response) + 1
  BY <1>1
<1>3. Len(response) + 1 \notin DOMAIN response
  BY <1>1
<1> QED
  BY <1>1, <1>2, <1>3 DEF Sent

(* The steps, by what they do to the answer: nothing, nothing yet, an      *)
(* answer of one message, or a step of the streaming loop.                 *)

Quiet == UNCHANGED <<pc, stream, requested, attempt, response, logs, health, stage, event>>

NothingYet ==
    /\ response' = <<>>
    /\ \/ pc' \in {"build", "do", "waiting", "classify"}
       \/ pc' = "read" /\ stage' = "fresh"

AnswersAtOnce ==
    /\ pc' = "done"
    /\ \E m : response' = <<m>> /\ m.kind \in {"errorBody", "completion"}

LEMMA FallBackKind ==
    ASSUME response = <<>>, NEW code, FallBack(code)
    PROVE  NothingYet \/ AnswersAtOnce
<1>1. CASE NextAttempt
  BY <1>1 DEF NextAttempt, NothingYet
<1>2. CASE GiveUp(code)
  <2>1. PICK m : m = Answer(code)
    OBVIOUS
  <2>2. m.kind = "errorBody"
    BY <2>1 DEF Answer
  <2>3. response' = <<m>> /\ pc' = "done"
    BY <1>2, <2>1 DEF GiveUp
  <2> QED BY <2>2, <2>3 DEF AnswersAtOnce
<1> QED BY <1>1, <1>2 DEF FallBack

LEMMA KindsOfSteps ==
    ASSUME IInv, [Next]_vars
    PROVE  \/ Quiet \/ NothingYet \/ AnswersAtOnce
           \/ ReadNext \/ Tick \/ Write \/ WriteFails \/ WritePanics
           \/ StreamFails /\ Written
<1>1. Silent /\ Phases
  BY DEF IInv
<1>2. CASE Reject
  <2>1. PICK code : response' = <<Answer(code)>> /\ pc' = "done"
    BY <1>2 DEF Reject
  <2>2. Answer(code).kind = "errorBody"
    BY DEF Answer
  <2> QED BY <2>1, <2>2 DEF AnswersAtOnce
<1>3. CASE Accept \/ Build \/ Send \/ DoFails
  BY <1>1, <1>3 DEF Accept, Build, Send, DoFails, outputVars, Silent, NothingYet
<1>4. CASE DoSucceeds
  BY <1>1, <1>4 DEF DoSucceeds, outputVars, streamVars, Silent, Phases, NothingYet
<1>5. CASE BuildFails
  <2>1. response' = <<Answer("internal_error")>> /\ pc' = "done"
    BY <1>1, <1>5 DEF BuildFails, GiveUp, Silent
  <2>2. Answer("internal_error").kind = "errorBody"
    BY DEF Answer
  <2> QED BY <2>1, <2>2 DEF AnswersAtOnce
<1>6. CASE ClassifyDo \/ DecodeFails
  BY <1>1, <1>6, FallBackKind DEF ClassifyDo, DecodeFails, Silent
<1>7. CASE Decode
  <2>1. PICK m : m = Completion
    OBVIOUS
  <2>2. m.kind = "completion"
    BY <2>1 DEF Completion
  <2>3. response = <<>> /\ response' = Append(response, m) /\ pc' = "done"
    BY <1>1, <1>7, <2>1 DEF Decode, Silent
  <2>4. response' = <<m>>
    BY <2>3
  <2> QED BY <2>2, <2>3, <2>4 DEF AnswersAtOnce
<1>8. CASE EncodePanics
  <2>1. response' = <<Answer("panic")>> /\ pc' = "done"
    BY <1>1, <1>8 DEF EncodePanics, Silent
  <2>2. Answer("panic").kind = "errorBody"
    BY DEF Answer
  <2> QED BY <2>1, <2>2 DEF AnswersAtOnce
<1>9. CASE StreamFails /\ ~Written
  BY <1>9, FallBackKind DEF StreamFails, Written
<1>10. CASE UNCHANGED vars \/ Watchdog \/ ClientLeaves
  BY <1>10 DEF vars, Watchdog, DeadlinePasses, TimerFires, CallbackLoads, CallbackStores,
       CallbackCancels, ClientLeaves, handlerVars, watchdogVars, outputVars, streamVars, Quiet
<1> QED
  BY <1>2, <1>3, <1>4, <1>5, <1>6, <1>7, <1>8, <1>9, <1>10 DEF Next, Handler, Answered

(* An event is written: the response grows by it.                          *)
LEMMA EventWritten ==
    ASSUME IInv, Write
    PROVE  /\ pc = "write" /\ event # "nil" /\ UNCHANGED <<stage, event>>
           /\ IF event = "stop" THEN pc' = "done" ELSE pc' = "read"
           /\ \E m \in Messages : m.kind = event /\ response' = Append(response, m)
<1>1. pc = "write" /\ event \in Kinds \ {"errorBody"} /\ event # "nil" /\ attempt \in Nat
  <2>1. pc = "write"
    BY DEF Write
  <2>2. event \in Events /\ event # "nil" /\ attempt \in Nat
    BY <2>1 DEF IInv, TypeInv, TypeOK, StreamTypeOK, Phases
  <2> QED BY <2>1, <2>2 DEF Events, Kinds
<1>2. EventAnswer(event) \in Messages /\ EventAnswer(event).kind = event
  BY <1>1, MessageTypes
<1> QED BY <1>1, <1>2 DEF Write, streamVars

-----------------------------------------------------------------------------
LEMMA StageStep ==
    ASSUME IInv, ReportInv, [Next]_vars
    PROVE  StageInv'
<1>0. StageInv /\ response \in Seq(Messages)
  BY DEF ReportInv, IInv, TypeInv
<1>1. CASE Quiet
  BY <1>0, <1>1 DEF Quiet, StageInv, Sent
<1>2. CASE NothingYet
  <2>1. Sent({"error"})' = {}
    BY <1>2 DEF NothingYet, Sent
  <2> QED BY <1>2, <2>1 DEF NothingYet, StageInv
<1>3. CASE pc' = "done"
  BY <1>3 DEF StageInv
<1>4. CASE ReadNext
  <2>1. pc = "read" /\ pc' = "tick" /\ UNCHANGED response
    BY <1>4 DEF ReadNext, outputVars
  <2>2. /\ stage' = "failed" <=> event' = "nil"
        /\ stage' = "closing" => event' = "delta"
        /\ stage' = "errored" <=> event' = "error"
        /\ event' = "stop" => stage' = "stopped"
        /\ stage \in {"errored", "stopped"} => stage' = "stopped"
    BY <1>4 DEF ReadNext, Continue, Start, Block, Delta, Error, Stop, Fail, Return
  <2>3. Sent({"error"})' = Sent({"error"})
    BY <2>1 DEF Sent
  <2> QED BY <1>0, <2>1, <2>2, <2>3 DEF StageInv
<1>5. CASE Tick
  <2>1. /\ pc = "tick" /\ UNCHANGED <<response, stage, event>>
        /\ pc' = IF event = "nil" THEN "failed" ELSE "write"
    BY <1>5 DEF Tick, outputVars, streamVars
  <2>2. Sent({"error"})' = Sent({"error"})
    BY <2>1 DEF Sent
  <2> QED BY <1>0, <2>1, <2>2 DEF StageInv
<1>6. CASE Write /\ pc' # "done"
  <2>1. /\ pc = "write" /\ pc' = "read" /\ event # "nil" /\ UNCHANGED <<stage, event>>
    BY <1>6, EventWritten
  <2>2. PICK m \in Messages : m.kind = event /\ response' = Append(response, m)
    BY <1>6, EventWritten
  <2>3. Sent({"error"})' = Sent({"error"}) \/ event = "error"
    BY <1>0, <2>2, OneMoreSent
  <2> QED BY <1>0, <2>1, <2>3 DEF StageInv
<1>7. CASE AnswersAtOnce \/ WriteFails \/ WritePanics \/ (StreamFails /\ Written)
  BY <1>3, <1>7 DEF AnswersAtOnce, WriteFails, WritePanics, StreamFails
<1> QED BY <1>1, <1>2, <1>3, <1>4, <1>5, <1>6, <1>7, KindsOfSteps

LEMMA StopStep ==
    ASSUME IInv, ReportInv, [Next]_vars
    PROVE  StopInv'
<1>0. StageInv /\ StopInv /\ response \in Seq(Messages)
  BY DEF ReportInv, IInv, TypeInv
<1>1. CASE Quiet
  BY <1>0, <1>1 DEF Quiet, StopInv, Sent, EndSent
<1>2. CASE NothingYet
  <2>1. Sent({"stop"})' = {}
    BY <1>2 DEF NothingYet, Sent
  <2> QED BY <1>2, <2>1 DEF NothingYet, StopInv
<1>3. CASE pc' = "done"
  BY <1>3 DEF StopInv
<1>4. CASE ReadNext
  <2>1. pc = "read" /\ pc' = "tick" /\ UNCHANGED response
    BY <1>4 DEF ReadNext, outputVars
  <2>2. event' = "stop" => stage \in {"closing", "errored"}
    BY <1>4 DEF ReadNext, Continue, Start, Block, Delta, Error, Stop, Fail, Return
  <2>3. Sent({"stop"})' = Sent({"stop"}) /\ (EndSent => EndSent')
    BY <2>1 DEF Sent, EndSent
  <2> QED BY <1>0, <2>1, <2>2, <2>3 DEF StopInv
<1>5. CASE Tick
  <2>1. /\ pc = "tick" /\ UNCHANGED <<response, stage, event>> /\ pc' \in {"failed", "write"}
    BY <1>5 DEF Tick, outputVars, streamVars
  <2>2. Sent({"stop"})' = Sent({"stop"}) /\ (EndSent => EndSent')
    BY <2>1 DEF Sent, EndSent
  <2> QED BY <1>0, <2>1, <2>2 DEF StopInv
<1>6. CASE Write /\ pc' # "done"
  <2>1. pc = "write" /\ pc' = "read" /\ event # "stop" /\ UNCHANGED <<stage, event>>
    BY <1>6, EventWritten
  <2>2. PICK m \in Messages : m.kind = event /\ response' = Append(response, m)
    BY <1>6, EventWritten
  <2>3. Sent({"stop"})' = Sent({"stop"})
    BY <1>0, <2>1, <2>2, OneMoreSent
  <2>4. stage \in {"closing", "errored"} => event \in {"delta", "error"}
    BY <1>0, <2>1 DEF StageInv
  <2>5. event \in {"delta", "error"} => EndSent'
    BY <1>0, <2>2, OneMoreSent DEF EndSent
  <2> QED BY <1>0, <2>1, <2>3, <2>4, <2>5 DEF StopInv
<1>7. CASE AnswersAtOnce \/ WriteFails \/ WritePanics \/ (StreamFails /\ Written)
  BY <1>3, <1>7 DEF AnswersAtOnce, WriteFails, WritePanics, StreamFails
<1> QED BY <1>1, <1>2, <1>3, <1>4, <1>5, <1>6, <1>7, KindsOfSteps

(* Nothing to report: no failed reading is over, and no stop was sent.     *)
LEMMA NothingToReport ==
    ASSUME Sent({"stop"})' = {}, pc' # "done" \/ stage' # "failed" \/ Sent({"start"})' = {}
    PROVE  ReadFailureReported'
  BY DEF ReadFailureReported

LEMMA ReportStep ==
    ASSUME IInv, ReportInv, [Next]_vars
    PROVE  ReadFailureReported'
<1>0. /\ StageInv /\ StopInv /\ ReadFailureReported /\ response \in Seq(Messages)
      /\ Len(response) \in Nat /\ attempt \in Nat
  BY DEF ReportInv, IInv, TypeInv, TypeOK
<1>a. pc # "done" => Sent({"stop"}) = {}
  BY <1>0 DEF StopInv
<1>b. pc = "write" => stage # "failed"
  BY <1>0 DEF StageInv, IInv, Phases
<1>1. CASE Quiet
  BY <1>0, <1>1 DEF Quiet, ReadFailureReported, Sent
<1>2. CASE NothingYet
  <2>1. Sent({"stop"})' = {} /\ pc' # "done"
    BY <1>2 DEF NothingYet, Sent
  <2> QED BY <2>1, NothingToReport
<1>3. CASE AnswersAtOnce
  <2>1. Sent({"stop"})' = {} /\ Sent({"start"})' = {}
    BY <1>3 DEF AnswersAtOnce, Sent
  <2> QED BY <2>1, NothingToReport
<1>4. CASE ReadNext \/ Tick
  <2>1. pc # "done" /\ pc' # "done" /\ UNCHANGED response
    BY <1>4 DEF ReadNext, Tick, outputVars
  <2>2. Sent({"stop"})' = {}
    BY <1>a, <2>1 DEF Sent
  <2> QED BY <2>1, <2>2, NothingToReport
<1>5. CASE Write
  <2>1. /\ pc = "write" /\ UNCHANGED <<stage, event>>
        /\ IF event = "stop" THEN pc' = "done" ELSE pc' = "read"
    BY <1>5, EventWritten
  <2>2. PICK m \in Messages : m.kind = event /\ response' = Append(response, m)
    BY <1>5, EventWritten
  <2>3. CASE event # "stop"
    <3>1. Sent({"stop"})' = {}
      BY <1>0, <1>a, <2>1, <2>2, <2>3, OneMoreSent
    <3> QED BY <2>1, <2>3, <3>1, NothingToReport
  <2>4. CASE event = "stop"
    <3>1. Sent({"stop"})' = {Len(response) + 1}
      BY <1>0, <1>a, <2>1, <2>2, <2>4, OneMoreSent
    <3>2. EndSent
      BY <1>0, <2>1, <2>4 DEF StopInv
    <3>3. Len(response) \in 1 .. Len(response)
      BY <1>0, <3>2 DEF EndSent
    <3>4. response'[Len(response)] = response[Len(response)]
      BY <1>0, <2>2, <3>3, OneMoreSent
    <3>5. (Len(response) + 1) - 1 = Len(response) /\ Len(response) + 1 > 1
      BY <1>0, <3>3
    <3>6. stage' # "failed"
      BY <1>b, <2>1
    <3> QED BY <3>1, <3>2, <3>4, <3>5, <3>6 DEF EndSent, ReadFailureReported
  <2> QED BY <2>3, <2>4
<1>6. CASE WriteFails
  <2>1. /\ pc = "write" /\ UNCHANGED stage
        /\ response' = Append(response, EventAnswer("lost"))
    BY <1>6 DEF WriteFails, streamVars
  <2>2. EventAnswer("lost") \in Messages /\ EventAnswer("lost").kind = "lost"
    BY <1>0, MessageTypes DEF Kinds
  <2>3. Sent({"stop"})' = {}
    BY <1>0, <1>a, <2>1, <2>2, OneMoreSent
  <2> QED BY <1>b, <2>1, <2>3, NothingToReport
<1>7. CASE WritePanics
  <2>1. pc = "write" /\ UNCHANGED <<stage, response>>
    BY <1>7 DEF WritePanics, outputVars, streamVars
  <2>2. Sent({"stop"})' = {}
    BY <1>a, <2>1 DEF Sent
  <2> QED BY <1>b, <2>1, <2>2, NothingToReport
<1>8. CASE StreamFails /\ Written
  <2>1. /\ pc = "failed" /\ UNCHANGED <<stage, attempt>>
        /\ response' = Append(response, EventAnswer("error"))
        /\ Log(TRUE, "partial_failure") /\ Blame(StreamOutcome)
    BY <1>8 DEF StreamFails, streamVars
  <2>2. EventAnswer("error") \in Messages /\ EventAnswer("error").kind = "error"
    BY <1>0, MessageTypes DEF Kinds
  <2>3. Sent({"error"}) = {} /\ Sent({"stop"}) = {}
    BY <1>0, <1>a, <2>1 DEF StageInv
  <2>4. Sent({"error"})' = {Len(response')} /\ Sent({"stop"})' = {}
    BY <1>0, <2>1, <2>2, <2>3, OneMoreSent
  <2>5. logs'[Len(logs')].code = "partial_failure"
    <3>1. PICK e : e = [attempt |-> attempt, final |-> TRUE, code |-> "partial_failure"]
      OBVIOUS
    <3>2. logs' = Append(logs, e) /\ logs \in Seq(Entries)
      BY <2>1, <3>1 DEF Log, IInv, TypeInv
    <3>3. logs'[Len(logs')] = e
      <4>1. "partial_failure" \in Codes
        BY DEF Codes
      <4>2. Len(logs) \in Nat /\ e \in Entries
        BY <1>0, <3>1, <3>2, <4>1 DEF Entries
      <4> QED BY <3>2, <4>2
    <3> QED BY <3>1, <3>3
  <2>6. health'[attempt] # "ok"
    <3>1. /\ health \in [1 .. LastAttempt -> Outcomes] /\ attempt \in 1 .. LastAttempt
          /\ health[attempt] # "ok"
      BY <2>1 DEF IInv, TypeInv, TypeOK, HealthInv, ChannelsJudged
    <3>2. PICK r \in {"limited", "failed", "lost"} : health' = [health EXCEPT ![attempt] = r]
      BY <2>1 DEF Blame, Record
    <3> QED BY <3>1, <3>2
  <2> QED BY <2>1, <2>4, <2>5, <2>6 DEF ReadFailureReported
<1> QED BY <1>1, <1>2, <1>3, <1>4, <1>5, <1>6, <1>7, <1>8, KindsOfSteps

-----------------------------------------------------------------------------
(* A unary attempt that is over gets its entry, and the next one begins or *)
(* the request ends.                                                       *)
LEMMA UnaryEntry ==
    ASSUME IInv, ReportInv, ~stream, ~stream', pc # "done",
           NEW final \in BOOLEAN, NEW code, Log(final, code),
           \/ pc' = "done" /\ UNCHANGED attempt /\ final
           \/ pc' = "build" /\ attempt' = attempt + 1 /\ ~final
    PROVE  UnaryInv'
<1> DEFINE e == [attempt |-> attempt, final |-> final, code |-> code]
<1>1. /\ attempt \in Nat \ {0} /\ logs \in Seq(Entries) /\ Len(logs) = attempt - 1
      /\ \A j \in 1 .. attempt - 1 : logs[j].attempt = j /\ ~logs[j].final
  BY DEF IInv, TypeInv, TypeOK, ReportInv, UnaryInv, UnaryAttemptsLogged, LastAttempt
<1>2. logs' = Append(logs, e) /\ e.attempt = attempt /\ e.final = final
  BY DEF Log
<1> HIDE DEF e
<1>3. /\ Len(logs') = attempt /\ logs'[attempt] = e
      /\ \A j \in 1 .. attempt - 1 : logs'[j] = logs[j]
  BY <1>1, <1>2
<1>4. CASE pc' = "done" /\ UNCHANGED attempt /\ final
  BY <1>1, <1>2, <1>3, <1>4 DEF UnaryInv, UnaryAttemptsLogged
<1>5. CASE pc' = "build" /\ attempt' = attempt + 1 /\ ~final
  <2>1. \A j \in 1 .. attempt' - 1 : logs'[j].attempt = j /\ ~logs'[j].final
    BY <1>1, <1>2, <1>3, <1>5
  <2>2. Len(logs') = attempt' - 1
    BY <1>1, <1>3, <1>5
  <2> QED BY <1>5, <2>1, <2>2 DEF UnaryInv, UnaryAttemptsLogged
<1> QED BY <1>4, <1>5

LEMMA UnaryFallBack ==
    ASSUME IInv, ReportInv, ~stream, ~stream', pc # "done", NEW code,
           Log(code = "invalid_request_error" \/ attempt = LastAttempt, code), FallBack(code)
    PROVE  UnaryInv'
<1> DEFINE final == code = "invalid_request_error" \/ attempt = LastAttempt
<1>1. final \in BOOLEAN /\ Log(final, code)
  OBVIOUS
<1>2. \/ pc' = "done" /\ UNCHANGED attempt /\ final
      \/ pc' = "build" /\ attempt' = attempt + 1 /\ ~final
  <2>1. attempt \in 1 .. LastAttempt /\ LastAttempt \in Nat
    BY DEF IInv, TypeInv, TypeOK, LastAttempt
  <2>2. CASE final
    <3>1. GiveUp(code)
      BY <2>1, <2>2 DEF FallBack
    <3> QED BY <2>2, <3>1 DEF GiveUp
  <2>3. CASE ~final
    <3>1. NextAttempt
      BY <2>1, <2>3 DEF FallBack
    <3> QED BY <2>3, <3>1 DEF NextAttempt
  <2> QED BY <2>2, <2>3
<1> HIDE DEF final
<1> QED BY <1>1, <1>2, UnaryEntry

LEMMA UnaryStep ==
    ASSUME IInv, ReportInv, [Next]_vars
    PROVE  UnaryInv'
<1>0. UnaryInv /\ Phases /\ Silent
  BY DEF ReportInv, IInv
<1>1. CASE Quiet
  <2>1. Answer("panic")' = Answer("panic")
    BY <1>1 DEF Quiet, Answer
  <2> QED BY <1>0, <1>1, <2>1 DEF Quiet, UnaryInv, UnaryAttemptsLogged
<1>2. UNCHANGED stream
  BY DEF Next, Handler, Watchdog, Answered, Reject, Accept, Build, BuildFails, Send,
       DoSucceeds, DoFails, ClassifyDo, Decode, DecodeFails, EncodePanics, ReadNext, Tick,
       Write, WriteFails, WritePanics, StreamFails, ClientLeaves, DeadlinePasses, TimerFires,
       CallbackLoads, CallbackStores, CallbackCancels, handlerVars, vars
<1>3. CASE stream /\ pc' # "received"
  BY <1>2, <1>3 DEF UnaryInv, UnaryAttemptsLogged
<1>4. CASE Reject
  BY <1>0, <1>4 DEF Reject, handlerVars, UnaryInv, UnaryAttemptsLogged
<1>5. CASE Accept \/ Build \/ Send \/ DoSucceeds \/ DoFails
  <2>1. /\ pc # "done" /\ pc' \notin {"done", "received"} /\ UNCHANGED <<logs, attempt>>
    BY <1>5 DEF Accept, Build, Send, DoSucceeds, DoFails, handlerVars, outputVars
  <2> QED BY <1>0, <1>2, <2>1 DEF UnaryInv, UnaryAttemptsLogged
<1>6. CASE BuildFails /\ ~stream
  <2>1. pc # "done" /\ pc' = "done" /\ UNCHANGED attempt /\ Log(TRUE, "internal_error")
    BY <1>6 DEF BuildFails, GiveUp
  <2> QED BY <1>2, <1>6, <2>1, UnaryEntry
<1>7. CASE ClassifyDo /\ ~stream
  <2>1. PICK code : code = AttemptOutcome
    OBVIOUS
  <2>2. /\ pc # "done" /\ FallBack(code)
        /\ Log(code = "invalid_request_error" \/ attempt = LastAttempt, code)
    BY <1>7, <2>1 DEF ClassifyDo
  <2> QED BY <1>2, <1>7, <2>2, UnaryFallBack
<1>8. CASE DecodeFails /\ ~stream
  <2>1. PICK code : code = "invalid_upstream_response"
    OBVIOUS
  <2>2. /\ pc # "done" /\ FallBack(code)
        /\ Log(code = "invalid_request_error" \/ attempt = LastAttempt, code)
    BY <1>8, <2>1 DEF DecodeFails
  <2> QED BY <1>2, <1>8, <2>2, UnaryFallBack
<1>9. CASE Decode
  <2>1. ~stream /\ pc # "done" /\ pc' = "done" /\ UNCHANGED attempt /\ Log(TRUE, "")
    BY <1>9 DEF Decode, handlerVars
  <2> QED BY <1>2, <2>1, UnaryEntry
<1>10. CASE EncodePanics
  <2>1. /\ pc = "read" /\ ~stream /\ pc' = "done" /\ UNCHANGED <<attempt, logs>>
        /\ response' = Append(response, Answer("panic"))
    BY <1>10 DEF EncodePanics, handlerVars
  <2>2. response'[1] = Answer("panic") /\ Answer("panic") = Answer("panic")'
    BY <1>0, <2>1 DEF Silent, Answer
  <2> QED BY <1>0, <1>2, <2>1, <2>2 DEF UnaryInv, UnaryAttemptsLogged
<1>11. CASE ReadNext \/ Tick \/ Write \/ WriteFails \/ WritePanics \/ StreamFails
  <2>1. stream /\ pc' # "received"
    BY <1>0, <1>11 DEF ReadNext, Tick, Write, WriteFails, WritePanics, StreamFails, Phases,
         FallBack, NextAttempt, GiveUp
  <2> QED BY <1>3, <2>1
<1>12. CASE (BuildFails \/ ClassifyDo \/ DecodeFails) /\ stream
  <2>1. pc' # "received"
    BY <1>12 DEF BuildFails, ClassifyDo, DecodeFails, FallBack, NextAttempt, GiveUp
  <2> QED BY <1>3, <1>12, <2>1
<1>13. CASE UNCHANGED vars \/ Watchdog \/ ClientLeaves
  <2>1. Quiet
    BY <1>13 DEF vars, Watchdog, DeadlinePasses, TimerFires, CallbackLoads, CallbackStores,
         CallbackCancels, ClientLeaves, handlerVars, watchdogVars, outputVars, streamVars, Quiet
  <2> QED BY <1>1, <2>1
<1> QED
  BY <1>4, <1>5, <1>6, <1>7, <1>8, <1>9, <1>10, <1>11, <1>12, <1>13 DEF Next, Handler, Answered

-----------------------------------------------------------------------------
LEMMA InitReport == Init => ReportInv
<1> SUFFICES ASSUME Init PROVE ReportInv
  OBVIOUS
<1>1. /\ pc = "received" /\ response = <<>> /\ logs = <<>> /\ attempt = 1 /\ requested = <<>>
  BY DEF Init
<1>2. \A kinds : Sent(kinds) = {}
  BY <1>1 DEF Sent
<1> QED
  BY <1>1, <1>2 DEF ReportInv, StageInv, StopInv, ReadFailureReported, UnaryInv,
       UnaryAttemptsLogged

(* A reading that fails after the first byte is reported to the client and *)
(* the log and not credited, a stop follows what allows it, and without    *)
(* streaming every attempt is logged (completions.go, attempt.go).         *)
THEOREM Reported == Spec => []FailuresReported
<1>1. IInv /\ ReportInv /\ [Next]_vars => ReportInv'
  BY StageStep, StopStep, ReportStep, UnaryStep DEF ReportInv
<1>2. ReportInv => FailuresReported
  BY DEF ReportInv, UnaryInv, FailuresReported
<1> QED
  BY <1>1, <1>2, InitReport, Invariance, PTL DEF Spec

-----------------------------------------------------------------------------
(* The log writer: sequences of entries.                                   *)

Ordered(s) == \A i, j \in DOMAIN s : i < j /\ s[i][1] = s[j][1] => s[i][2] < s[j][2]

(* Entries of one handler: those in s are older than those in t.           *)
Before(s, t) == \A x \in ToSet(s), y \in ToSet(t) : x[1] = y[1] => x[2] < y[2]

LEMMA ToSetConcat ==
    ASSUME NEW s \in Seq(LogEntries), NEW t \in Seq(LogEntries)
    PROVE  ToSet(s \o t) = ToSet(s) \cup ToSet(t) /\ s \o t \in Seq(LogEntries)
<1>1. ASSUME NEW x \in ToSet(s \o t) PROVE x \in ToSet(s) \cup ToSet(t)
  <2>1. PICK i \in 1 .. Len(s) + Len(t) : x = (s \o t)[i]
    BY DEF ToSet
  <2>2. CASE i <= Len(s)
    BY <2>1, <2>2 DEF ToSet
  <2>3. CASE i > Len(s)
    <3>1. i - Len(s) \in 1 .. Len(t) /\ x = t[i - Len(s)]
      BY <2>1, <2>3
    <3> QED BY <3>1 DEF ToSet
  <2> QED BY <2>1, <2>2, <2>3
<1>2. ASSUME NEW x \in ToSet(s) PROVE x \in ToSet(s \o t)
  <2>1. PICK i \in 1 .. Len(s) : x = s[i]
    BY DEF ToSet
  <2>2. i \in 1 .. Len(s \o t) /\ (s \o t)[i] = x
    BY <2>1
  <2> QED BY <2>2 DEF ToSet
<1>3. ASSUME NEW x \in ToSet(t) PROVE x \in ToSet(s \o t)
  <2>1. PICK i \in 1 .. Len(t) : x = t[i]
    BY DEF ToSet
  <2>2. Len(s) + i \in 1 .. Len(s \o t) /\ (s \o t)[Len(s) + i] = x
    BY <2>1
  <2> QED BY <2>2 DEF ToSet
<1> QED BY <1>1, <1>2, <1>3

LEMMA ToSetOne == \A x : ToSet(<<x>>) = {x}
  BY DEF ToSet

LEMMA ToSetNone == ToSet(<<>>) = {}
  BY DEF ToSet

LEMMA OrderedConcat ==
    ASSUME NEW s \in Seq(LogEntries), NEW t \in Seq(LogEntries)
    PROVE  Ordered(s \o t) <=> Ordered(s) /\ Ordered(t) /\ Before(s, t)
<1> DEFINE u == s \o t
<1>1. /\ u \in Seq(LogEntries) /\ Len(u) = Len(s) + Len(t)
      /\ DOMAIN u = 1 .. Len(u) /\ DOMAIN s = 1 .. Len(s) /\ DOMAIN t = 1 .. Len(t)
      /\ Len(s) \in Nat /\ Len(t) \in Nat
      /\ \A i \in 1 .. Len(s) : u[i] = s[i]
      /\ \A i \in 1 .. Len(t) : u[Len(s) + i] = t[i]
  OBVIOUS
<1>2. ASSUME Ordered(u) PROVE Ordered(s) /\ Ordered(t) /\ Before(s, t)
  <2> HIDE DEF u
  <2>1. Ordered(s)
    <3> SUFFICES ASSUME NEW i \in 1 .. Len(s), NEW j \in 1 .. Len(s), i < j, s[i][1] = s[j][1]
                 PROVE  s[i][2] < s[j][2]
      BY <1>1 DEF Ordered
    <3>1. i \in DOMAIN u /\ j \in DOMAIN u /\ u[i] = s[i] /\ u[j] = s[j]
      BY <1>1
    <3> QED BY <1>2, <3>1 DEF Ordered
  <2>2. Ordered(t)
    <3> SUFFICES ASSUME NEW i \in 1 .. Len(t), NEW j \in 1 .. Len(t), i < j, t[i][1] = t[j][1]
                 PROVE  t[i][2] < t[j][2]
      BY <1>1 DEF Ordered
    <3>1. /\ Len(s) + i \in DOMAIN u /\ Len(s) + j \in DOMAIN u
          /\ Len(s) + i < Len(s) + j
      BY <1>1
    <3>2. u[Len(s) + i] = t[i] /\ u[Len(s) + j] = t[j]
      BY <1>1
    <3> QED BY <1>2, <3>1, <3>2 DEF Ordered
  <2>3. Before(s, t)
    <3> SUFFICES ASSUME NEW i \in 1 .. Len(s), NEW j \in 1 .. Len(t), s[i][1] = t[j][1]
                 PROVE  s[i][2] < t[j][2]
      BY <1>1 DEF Before, ToSet
    <3>1. i \in DOMAIN u /\ Len(s) + j \in DOMAIN u /\ i < Len(s) + j
      BY <1>1
    <3>2. u[i] = s[i] /\ u[Len(s) + j] = t[j]
      BY <1>1
    <3> QED BY <1>2, <3>1, <3>2 DEF Ordered
  <2> QED BY <2>1, <2>2, <2>3
<1>3. ASSUME Ordered(s), Ordered(t), Before(s, t) PROVE Ordered(u)
  <2> HIDE DEF u
  <2> SUFFICES ASSUME NEW i \in 1 .. Len(u), NEW j \in 1 .. Len(u), i < j, u[i][1] = u[j][1]
               PROVE  u[i][2] < u[j][2]
    BY <1>1 DEF Ordered
  <2>1. CASE j <= Len(s)
    <3>1. i \in 1 .. Len(s) /\ j \in 1 .. Len(s) /\ u[i] = s[i] /\ u[j] = s[j]
      BY <1>1, <2>1
    <3> QED BY <1>3, <3>1 DEF Ordered
  <2>2. CASE i > Len(s)
    <3>1. PICK k \in 1 .. Len(t) : k = i - Len(s)
      BY <1>1, <2>2, i - Len(s) \in 1 .. Len(t)
    <3>2. PICK m \in 1 .. Len(t) : m = j - Len(s)
      BY <1>1, <2>2, j - Len(s) \in 1 .. Len(t)
    <3>3. i = Len(s) + k /\ j = Len(s) + m /\ k < m
      BY <3>1, <3>2
    <3>4. u[i] = t[k] /\ u[j] = t[m]
      BY <1>1, <3>3
    <3> QED BY <1>3, <3>3, <3>4 DEF Ordered
  <2>3. CASE i <= Len(s) /\ j > Len(s)
    <3>1. i \in 1 .. Len(s) /\ u[i] = s[i]
      BY <1>1, <2>3
    <3>2. PICK m \in 1 .. Len(t) : m = j - Len(s)
      BY <1>1, <2>3, j - Len(s) \in 1 .. Len(t)
    <3>3. u[j] = t[m]
      BY <1>1, <3>2
    <3>4. s[i] \in ToSet(s) /\ t[m] \in ToSet(t)
      BY <3>1, <3>2 DEF ToSet
    <3> QED BY <1>3, <3>1, <3>3, <3>4 DEF Before
  <2> QED BY <1>1, <2>1, <2>2, <2>3
<1> QED BY <1>2, <1>3

(* In an ordered sequence nothing occurs twice.                            *)
LEMMA OrderedLength ==
    ASSUME NEW s \in Seq(LogEntries), Ordered(s)
    PROVE  IsFiniteSet(ToSet(s)) /\ Cardinality(ToSet(s)) = Len(s)
<1> DEFINE f == [i \in 1 .. Len(s) |-> s[i]]
<1>1. ASSUME NEW i \in 1 .. Len(s), NEW j \in 1 .. Len(s), i < j PROVE s[i] # s[j]
  <2>1. s[i] \in LogEntries /\ s[j] \in LogEntries
    OBVIOUS
  <2>2. s[i][2] \in Nat /\ s[j][2] \in Nat
    BY <2>1, SizesAssumption DEF LogEntries
  <2> QED BY <1>1, <2>2 DEF Ordered
<1>2. \A i, j \in 1 .. Len(s) : i # j => s[i] # s[j]
  BY <1>1
<1>3. f \in Bijection(1 .. Len(s), ToSet(s))
  BY <1>2 DEF Bijection, Injection, Surjection, IsInjective, ToSet
<1>4. ExistsBijection(1 .. Len(s), ToSet(s))
  BY <1>3 DEF ExistsBijection
<1>5. IsFiniteSet(1 .. Len(s)) /\ Cardinality(1 .. Len(s)) = Len(s)
  <2>1. Len(s) \in Nat
    OBVIOUS
  <2> QED BY <2>1, FS_Interval
<1> QED BY <1>4, <1>5, FS_Bijection

-----------------------------------------------------------------------------
(* The writer's invariant.                                                 *)

WriterTypeInv ==
    /\ enqueued \in [Handlers -> 0 .. PerHandler]
    /\ ch \in Seq(LogEntries) /\ Len(ch) <= Capacity
    /\ buf \in Seq(LogEntries) /\ Len(buf) <= BatchSize
    /\ stored \in Seq(LogEntries)
    /\ run \in {"select", "writing", "writingLast", "ended"}
    /\ main \in {"serving", "closing", "exited"}
    /\ closed \in BOOLEAN

(* Where the goroutine is tells what can still be in memory.               *)
Control ==
    /\ run = "select" => Len(buf) < BatchSize
    /\ run = "writingLast" => closed /\ ch = <<>>
    /\ run = "ended" => closed /\ ch = <<>> /\ buf = <<>>

Queued == ToSet(stored) \cup ToSet(buf) \cup ToSet(ch)

(* Every entry has one place.                                              *)
Placed ==
    /\ Queued \cup dropped \cup lost \cup refused = Given
    /\ Queued \cap dropped = {} /\ Queued \cap lost = {} /\ Queued \cap refused = {}
    /\ dropped \cap lost = {} /\ dropped \cap refused = {} /\ lost \cap refused = {}

QueueOrdered ==
    /\ Ordered(stored) /\ Ordered(buf) /\ Ordered(ch)
    /\ Before(stored, buf) /\ Before(stored, ch) /\ Before(buf, ch)

WriterIInv == WriterTypeInv /\ Control /\ Placed /\ QueueOrdered

LEMMA OrderedShort ==
    /\ Ordered(<<>>) /\ \A x : Ordered(<<x>>)
    /\ \A s : Before(<<>>, s) /\ Before(s, <<>>)
<1>1. Ordered(<<>>) /\ \A x : Ordered(<<x>>)
  BY DEF Ordered
<1> QED BY <1>1, ToSetNone DEF Before

LEMMA WriterStarts == WriterInit => WriterIInv
<1> SUFFICES ASSUME WriterInit PROVE WriterIInv
  OBVIOUS
<1>1. Given = {}
  BY SizesAssumption DEF WriterInit, Given, LogEntries
<1>2. WriterTypeInv
  <2>1. 0 \in 0 .. PerHandler /\ 0 <= Capacity /\ 0 <= BatchSize
    BY SizesAssumption
  <2>2. <<>> \in Seq(LogEntries) /\ Len(<<>>) = 0
    OBVIOUS
  <2> QED BY <2>1, <2>2 DEF WriterInit, WriterTypeInv
<1>3. Control
  BY SizesAssumption DEF WriterInit, Control
<1>4. Placed
  BY <1>1, ToSetNone DEF WriterInit, Placed, Queued
<1>5. QueueOrdered
  BY OrderedShort DEF WriterInit, QueueOrdered
<1> QED BY <1>2, <1>3, <1>4, <1>5 DEF WriterIInv

(* What a handler enqueues next is new, and after all it has enqueued.     *)
LEMMA NextEntry ==
    ASSUME WriterIInv, NEW h \in Handlers, enqueued[h] < PerHandler,
           enqueued' = [enqueued EXCEPT ![h] = @ + 1], NEW e, e = <<h, enqueued[h] + 1>>
    PROVE  /\ e \in LogEntries /\ e \notin Given /\ Given' = Given \cup {e}
           /\ enqueued' \in [Handlers -> 0 .. PerHandler]
           /\ \A s : ToSet(s) \subseteq Given => Before(s, <<e>>)
<1>1. enqueued \in [Handlers -> 0 .. PerHandler] /\ enqueued[h] + 1 \in 1 .. PerHandler
  BY SizesAssumption DEF WriterIInv, WriterTypeInv
<1>2. e \in LogEntries /\ e[1] = h /\ e[2] = enqueued[h] + 1
  BY <1>1 DEF LogEntries
<1>3. enqueued' \in [Handlers -> 0 .. PerHandler] /\ enqueued'[h] = enqueued[h] + 1
      /\ \A k \in Handlers \ {h} : enqueued'[k] = enqueued[k]
  BY <1>1, SizesAssumption
<1>4. e \notin Given
  BY <1>1, <1>2 DEF Given
<1>5. ASSUME NEW x \in LogEntries PROVE x \in Given' <=> x \in Given \cup {e}
  <2>1. PICK k \in Handlers, n \in 1 .. PerHandler : x = <<k, n>>
    BY DEF LogEntries
  <2>2. x \in Given' <=> n <= enqueued'[k]
    BY <2>1 DEF Given
  <2>3. x \in Given <=> n <= enqueued[k]
    BY <2>1 DEF Given
  <2>4. CASE k = h
    <3>1. n <= enqueued[h] + 1 <=> n <= enqueued[h] \/ n = enqueued[h] + 1
      BY <1>1, SizesAssumption
    <3> QED BY <1>2, <1>3, <2>1, <2>2, <2>3, <2>4, <3>1
  <2>5. CASE k # h
    BY <1>2, <1>3, <2>1, <2>2, <2>3, <2>5
  <2> QED BY <2>4, <2>5
<1>6. Given' = Given \cup {e}
  BY <1>2, <1>5 DEF Given
<1>7. ASSUME NEW s, ToSet(s) \subseteq Given PROVE Before(s, <<e>>)
  <2>1. ToSet(<<e>>) = {e}
    BY ToSetOne
  <2> SUFFICES ASSUME NEW x \in ToSet(s), x[1] = e[1] PROVE x[2] < e[2]
    BY <2>1 DEF Before
  <2>2. x \in LogEntries /\ x[2] <= enqueued[h]
    BY <1>2, <1>7 DEF Given
  <2>3. x[2] \in Nat /\ enqueued[h] \in Nat
    BY <1>1, <2>2, SizesAssumption DEF LogEntries
  <2> QED BY <1>2, <2>2, <2>3
<1> QED BY <1>2, <1>3, <1>4, <1>6, <1>7

LEMMA EnqueueInv ==
    ASSUME WriterIInv, NEW h \in Handlers, Enqueue(h)
    PROVE  WriterIInv'
<1>1. PICK e : e = <<h, enqueued[h] + 1>>
  OBVIOUS
<1>2. /\ enqueued[h] < PerHandler /\ enqueued' = [enqueued EXCEPT ![h] = @ + 1]
      /\ UNCHANGED <<closed, buf, run, main, stored, lost>>
  BY DEF Enqueue
<1>3. /\ e \in LogEntries /\ e \notin Given /\ Given' = Given \cup {e}
      /\ enqueued' \in [Handlers -> 0 .. PerHandler]
      /\ \A s : ToSet(s) \subseteq Given => Before(s, <<e>>)
  BY <1>1, <1>2, NextEntry
<1>4. CASE closed /\ refused' = refused \cup {e} /\ UNCHANGED <<ch, dropped>>
  <2>1. WriterTypeInv' /\ Control' /\ QueueOrdered'
    BY <1>2, <1>3, <1>4 DEF WriterIInv, WriterTypeInv, Control, QueueOrdered
  <2>2. Queued' = Queued
    BY <1>2, <1>4 DEF Queued
  <2>3. Placed'
    BY <1>2, <1>3, <1>4, <2>2 DEF WriterIInv, Placed
  <2> QED BY <2>1, <2>3 DEF WriterIInv
<1>5. CASE ~closed /\ Len(ch) < Capacity /\ ch' = Append(ch, e) /\ UNCHANGED <<dropped, refused>>
  <2>1. /\ ch' = ch \o <<e>> /\ <<e>> \in Seq(LogEntries) /\ ch' \in Seq(LogEntries)
        /\ Len(ch') <= Capacity /\ ch \in Seq(LogEntries)
    BY <1>3, <1>5, SizesAssumption DEF WriterIInv, WriterTypeInv
  <2>2. ToSet(ch') = ToSet(ch) \cup {e}
    BY <2>1, ToSetConcat, ToSetOne
  <2>3. WriterTypeInv' /\ Control'
    BY <1>2, <1>3, <1>5, <2>1 DEF WriterIInv, WriterTypeInv, Control
  <2>4. Queued' = Queued \cup {e}
    BY <1>2, <2>2 DEF Queued
  <2>5. Placed'
    BY <1>2, <1>3, <1>5, <2>4 DEF WriterIInv, Placed
  <2>6. QueueOrdered'
    <3>1. ToSet(stored) \subseteq Given /\ ToSet(buf) \subseteq Given /\ ToSet(ch) \subseteq Given
      BY DEF WriterIInv, Placed, Queued
    <3>2. Before(stored, <<e>>) /\ Before(buf, <<e>>) /\ Before(ch, <<e>>)
      BY <1>3, <3>1
    <3>3. Ordered(ch')
      BY <2>1, <3>2, OrderedConcat, OrderedShort DEF WriterIInv, QueueOrdered
    <3>4. Before(stored, ch') /\ Before(buf, ch')
      BY <2>2, <3>2, ToSetOne DEF WriterIInv, QueueOrdered, Before
    <3> QED BY <1>2, <3>3, <3>4 DEF WriterIInv, QueueOrdered
  <2> QED BY <2>3, <2>5, <2>6 DEF WriterIInv
<1>6. CASE ~closed /\ Len(ch) = Capacity /\ dropped' = dropped \cup {e} /\ UNCHANGED <<ch, refused>>
  <2>1. WriterTypeInv' /\ Control' /\ QueueOrdered'
    BY <1>2, <1>3, <1>6 DEF WriterIInv, WriterTypeInv, Control, QueueOrdered
  <2>2. Queued' = Queued
    BY <1>2, <1>6 DEF Queued
  <2>3. Placed'
    BY <1>2, <1>3, <1>6, <2>2 DEF WriterIInv, Placed
  <2> QED BY <2>1, <2>3 DEF WriterIInv
<1> QED BY <1>1, <1>4, <1>5, <1>6 DEF Enqueue

LEMMA GivenStays == UNCHANGED enqueued => Given' = Given
  BY DEF Given

LEMMA ReceiveInv ==
    ASSUME WriterIInv, Receive
    PROVE  WriterIInv'
<1>1. PICK e : e = Head(ch)
  OBVIOUS
<1>2. /\ run = "select" /\ ch # <<>> /\ ch' = Tail(ch) /\ buf' = Append(buf, e)
      /\ run' = IF Len(buf') >= BatchSize THEN "writing" ELSE "select"
      /\ UNCHANGED <<enqueued, closed, main, stored, dropped, lost, refused>>
  BY <1>1 DEF Receive
<1>3. /\ e \in LogEntries /\ ch' \in Seq(LogEntries) /\ ch = <<e>> \o ch' /\ Len(ch') <= Capacity
      /\ ch \in Seq(LogEntries) /\ buf \in Seq(LogEntries) /\ <<e>> \in Seq(LogEntries)
      /\ buf' = buf \o <<e>> /\ buf' \in Seq(LogEntries) /\ Len(buf') = Len(buf) + 1
  BY <1>1, <1>2, SizesAssumption DEF WriterIInv, WriterTypeInv
<1>4. ToSet(ch) = {e} \cup ToSet(ch') /\ ToSet(buf') = ToSet(buf) \cup {e}
  <2>1. /\ ToSet(<<e>> \o ch') = ToSet(<<e>>) \cup ToSet(ch')
        /\ ToSet(buf \o <<e>>) = ToSet(buf) \cup ToSet(<<e>>)
    BY <1>3, ToSetConcat
  <2> QED BY <1>3, <2>1, ToSetOne
<1>5. Len(buf) < BatchSize /\ Len(buf) \in Nat
  BY <1>2, <1>3 DEF WriterIInv, Control
<1>6. WriterTypeInv' /\ Control'
  BY <1>2, <1>3, <1>5, SizesAssumption DEF WriterIInv, WriterTypeInv, Control
<1>7. Placed'
  BY <1>2, <1>4, GivenStays DEF WriterIInv, Placed, Queued
<1>8. QueueOrdered'
  <2>1. Ordered(<<e>>) /\ Ordered(ch') /\ Before(<<e>>, ch')
    BY <1>3, OrderedConcat DEF WriterIInv, QueueOrdered
  <2>2. Before(buf, <<e>>) /\ Before(stored, <<e>>) /\ Before(stored, ch') /\ Before(buf, ch')
    BY <1>4, ToSetOne DEF WriterIInv, QueueOrdered, Before
  <2>3. Ordered(buf')
    BY <1>3, <2>1, <2>2, OrderedConcat DEF WriterIInv, QueueOrdered
  <2>4. Before(stored, buf') /\ Before(buf', ch')
    BY <1>4, <2>1, <2>2, ToSetOne DEF WriterIInv, QueueOrdered, Before
  <2> QED BY <1>2, <2>1, <2>2, <2>3, <2>4 DEF WriterIInv, QueueOrdered
<1> QED BY <1>6, <1>7, <1>8 DEF WriterIInv

LEMMA BatchApart ==
    ASSUME WriterIInv
    PROVE  ToSet(buf) \cap (ToSet(stored) \cup ToSet(ch)) = {}
<1> SUFFICES ASSUME NEW x \in ToSet(buf), x \in ToSet(stored) \/ x \in ToSet(ch) PROVE FALSE
  OBVIOUS
<1>1. x[2] < x[2]
  BY DEF WriterIInv, QueueOrdered, Before
<1>2. x[2] \in Nat
  <2>1. x \in LogEntries
    BY DEF WriterIInv, Placed, Queued, Given
  <2> QED BY <2>1, SizesAssumption DEF LogEntries
<1> QED BY <1>1, <1>2

(* A batch that is written, or given up.                                   *)
LEMMA FlushInv ==
    ASSUME WriterIInv, run \in {"writing", "writingLast"}, buf' = <<>>, run' = AfterWrite,
           UNCHANGED <<enqueued, ch, closed, main, dropped, refused>>,
           \/ stored' = stored \o buf /\ lost' = lost
           \/ stored' = stored /\ lost' = lost \cup ToSet(buf)
    PROVE  WriterIInv'
<1>1. stored \in Seq(LogEntries) /\ buf \in Seq(LogEntries)
  BY DEF WriterIInv, WriterTypeInv
<1>2. ToSet(stored \o buf) = ToSet(stored) \cup ToSet(buf) /\ stored \o buf \in Seq(LogEntries)
  BY <1>1, ToSetConcat
<1>3. WriterTypeInv' /\ Control'
  <2>1. <<>> \in Seq(LogEntries) /\ Len(<<>>) = 0 /\ 0 < BatchSize /\ 0 <= BatchSize
    BY SizesAssumption
  <2>2. WriterTypeInv'
    BY <1>2, <2>1 DEF WriterIInv, WriterTypeInv, AfterWrite
  <2>3. Control'
    BY <2>1 DEF WriterIInv, Control, AfterWrite
  <2> QED BY <2>2, <2>3
<1>4. Placed'
  <2>1. /\ Queued' \cup lost' = Queued \cup lost
        /\ Queued' = ToSet(stored') \cup ToSet(ch)
    BY <1>2, ToSetNone DEF Queued
  <2>2. ToSet(buf) \cap lost = {} /\ Queued \cap lost = {}
    BY DEF WriterIInv, Placed, Queued
  <2>3. Queued' \cap lost' = {}
    <3>1. CASE stored' = stored \o buf /\ lost' = lost
      BY <1>2, <2>1, <2>2, <3>1 DEF Queued
    <3>2. CASE stored' = stored /\ lost' = lost \cup ToSet(buf)
      <4>1. ToSet(buf) \cap (ToSet(stored) \cup ToSet(ch)) = {}
        BY BatchApart
      <4> QED BY <2>1, <2>2, <3>2, <4>1 DEF Queued
    <3> QED BY <3>1, <3>2
  <2> QED BY <2>1, <2>2, <2>3, GivenStays DEF WriterIInv, Placed, Queued
<1>5. QueueOrdered'
  <2>1. Ordered(stored \o buf) /\ Before(stored \o buf, ch)
    <3>1. Ordered(stored \o buf)
      BY <1>1, OrderedConcat DEF WriterIInv, QueueOrdered
    <3> QED BY <1>2, <3>1 DEF WriterIInv, QueueOrdered, Before
  <2> QED BY <2>1, OrderedShort DEF WriterIInv, QueueOrdered
<1> QED BY <1>3, <1>4, <1>5 DEF WriterIInv

LEMMA WriterSteps == WriterIInv /\ [WriterNext]_writerVars => WriterIInv'
<1> SUFFICES ASSUME WriterIInv, [WriterNext]_writerVars PROVE WriterIInv'
  OBVIOUS
<1>1. ASSUME NEW h \in Handlers, Enqueue(h) PROVE WriterIInv'
  BY <1>1, EnqueueInv
<1>2. CASE Receive
  BY <1>2, ReceiveInv
<1>3. CASE WriteBatch \/ WriteBatchFails
  BY <1>3, FlushInv DEF WriteBatch, WriteBatchFails
<1>4. CASE \/ TickFlush \/ ReceiveClosed \/ Close \/ CloseReturns \/ CloseTimesOut \/ Kill
           \/ Exited \/ UNCHANGED writerVars
  <2>1. UNCHANGED <<enqueued, ch, buf, stored, dropped, lost, refused>>
    BY <1>4 DEF TickFlush, ReceiveClosed, Close, CloseReturns, CloseTimesOut, Kill, Exited, writerVars
  <2>2. Placed' /\ QueueOrdered'
    BY <2>1, GivenStays DEF WriterIInv, Placed, QueueOrdered, Queued
  <2>3. WriterTypeInv' /\ Control'
    BY <1>4, <2>1 DEF WriterIInv, WriterTypeInv, Control, TickFlush, ReceiveClosed, Close, CloseReturns,
                     CloseTimesOut, Kill, Exited, writerVars
  <2> QED BY <2>2, <2>3 DEF WriterIInv
<1> QED BY <1>1, <1>2, <1>3, <1>4 DEF WriterNext

-----------------------------------------------------------------------------
LEMMA PipelineIs ==
    ASSUME WriterIInv
    PROVE  Pipeline \in Seq(LogEntries) /\ ToSet(Pipeline) = Queued /\ Ordered(Pipeline)
<1>1. stored \in Seq(LogEntries) /\ buf \in Seq(LogEntries) /\ ch \in Seq(LogEntries)
  BY DEF WriterIInv, WriterTypeInv
<1>2. /\ stored \o buf \in Seq(LogEntries) /\ ToSet(stored \o buf) = ToSet(stored) \cup ToSet(buf)
      /\ Ordered(stored \o buf)
  BY <1>1, ToSetConcat, OrderedConcat DEF WriterIInv, QueueOrdered
<1>3. Before(stored \o buf, ch)
  BY <1>2 DEF WriterIInv, QueueOrdered, Before
<1>4. /\ (stored \o buf) \o ch \in Seq(LogEntries)
      /\ ToSet((stored \o buf) \o ch) = ToSet(stored \o buf) \cup ToSet(ch)
  BY <1>1, <1>2, ToSetConcat
<1>5. Ordered((stored \o buf) \o ch)
  BY <1>1, <1>2, <1>3, OrderedConcat DEF WriterIInv, QueueOrdered
<1>6. Pipeline = (stored \o buf) \o ch
  BY DEF Pipeline
<1> QED BY <1>2, <1>4, <1>5, <1>6 DEF Queued

LEMMA CountDisjoint ==
    ASSUME NEW S, NEW T, IsFiniteSet(S), IsFiniteSet(T), S \cap T = {}
    PROVE  IsFiniteSet(S \cup T) /\ Cardinality(S \cup T) = Cardinality(S) + Cardinality(T)
<1>1. /\ IsFiniteSet(S \cup T)
      /\ Cardinality(S \cup T) = Cardinality(S) + Cardinality(T) - Cardinality(S \cap T)
  BY FS_Union
<1>2. Cardinality(S \cap T) = 0
  BY FS_EmptySet
<1>3. Cardinality(S) \in Nat /\ Cardinality(T) \in Nat
  BY FS_CardinalityType
<1> QED BY <1>1, <1>2, <1>3

LEMMA WriterAccounts == WriterIInv => EntriesAccounted /\ InOrder
<1> SUFFICES ASSUME WriterIInv PROVE EntriesAccounted /\ InOrder
  OBVIOUS
<1>1. Pipeline \in Seq(LogEntries) /\ ToSet(Pipeline) = Queued /\ Ordered(Pipeline)
  BY PipelineIs
<1>2. IsFiniteSet(Given)
  <2>1. IsFiniteSet(1 .. PerHandler)
    BY SizesAssumption, FS_Interval
  <2>2. IsFiniteSet(LogEntries)
    BY <2>1, SizesAssumption, FS_Product DEF LogEntries
  <2> QED BY <2>2, FS_Subset DEF Given
<1>3. IsFiniteSet(Queued) /\ IsFiniteSet(dropped) /\ IsFiniteSet(lost) /\ IsFiniteSet(refused)
  <2>1. Queued \subseteq Given /\ dropped \subseteq Given /\ lost \subseteq Given
        /\ refused \subseteq Given
    BY DEF WriterIInv, Placed
  <2> QED BY <1>2, <2>1, FS_Subset
<1>4. Cardinality(Queued) = Len(Pipeline)
  BY <1>1, OrderedLength
<1>5. Cardinality(Given)
         = Cardinality(Queued) + Cardinality(dropped) + Cardinality(lost) + Cardinality(refused)
  <2>1. /\ IsFiniteSet(Queued \cup dropped)
        /\ Cardinality(Queued \cup dropped) = Cardinality(Queued) + Cardinality(dropped)
    BY <1>3, CountDisjoint DEF WriterIInv, Placed
  <2>2. (Queued \cup dropped) \cap lost = {}
    BY DEF WriterIInv, Placed
  <2>3. /\ IsFiniteSet(Queued \cup dropped \cup lost)
        /\ Cardinality(Queued \cup dropped \cup lost)
             = Cardinality(Queued \cup dropped) + Cardinality(lost)
    BY <1>3, <2>1, <2>2, CountDisjoint
  <2>4. (Queued \cup dropped \cup lost) \cap refused = {}
    BY DEF WriterIInv, Placed
  <2>5. Cardinality(Queued \cup dropped \cup lost \cup refused)
          = Cardinality(Queued \cup dropped \cup lost) + Cardinality(refused)
    BY <1>3, <2>3, <2>4, CountDisjoint
  <2>6. Queued \cup dropped \cup lost \cup refused = Given
    BY DEF WriterIInv, Placed
  <2> QED BY <2>1, <2>3, <2>5, <2>6
<1>6. Accounted
  BY <1>1, <1>4, <1>5 DEF Accounted, WriterIInv, Placed
<1>7. WriterTypeOK /\ NothingLeftBehind
  BY DEF WriterTypeOK, NothingLeftBehind, WriterIInv, WriterTypeInv, Control
<1>8. InOrder
  BY <1>1 DEF InOrder, Ordered
<1> QED BY <1>6, <1>7, <1>8 DEF EntriesAccounted

LEMMA WriterInvariance == WriterSpec => []WriterIInv
  BY WriterStarts, WriterSteps, PTL DEF WriterSpec

(* No entry is lost uncounted or written twice, for any number of handlers, *)
(* any capacity and batch size, and wherever writes fail or the process is  *)
(* killed (requestlog/writer.go).                                           *)
THEOREM AllAccounted == WriterSpec => []EntriesAccounted
  BY WriterInvariance, WriterAccounts, PTL

(* A handler's entries are written in the order it enqueued them.           *)
THEOREM WrittenInOrder == WriterSpec => []InOrder
  BY WriterInvariance, WriterAccounts, PTL

=============================================================================
