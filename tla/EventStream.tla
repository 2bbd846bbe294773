----------------------------- MODULE EventStream -----------------------------
(***************************************************************************)
(* What a reader of an upstream stream promises its caller: the order in   *)
(* which repeated calls of Next may hand out canonical events, and the     *)
(* error that comes with the last of them (ErrStreamDone with the          *)
(* EventMessageStop, any other error with no event at all).                *)
(*                                                                         *)
(* StreamReader implements this module (MCStreamReader checks it) and the  *)
(* completions handler is modelled on top of it.                           *)
(***************************************************************************)

VARIABLES
    stage,  \* how far the stream has come
    event   \* the event the last call of Next returned; "nil" for none

streamVars == <<stage, event>>

Stages == {"fresh", "open", "closing", "errored", "stopped", "failed"}
Events == {"nil", "start", "block", "delta", "error", "stop"}

StreamTypeOK == stage \in Stages /\ event \in Events

StreamInit == stage = "fresh" /\ event = "nil"

Return(from, ev, to) ==
    /\ stage \in from
    /\ stage' = to
    /\ event' = ev

(* EventMessageStart comes first and once. *)
Start == Return({"fresh"}, "start", "open")

(* Block starts, deltas and stops lie between the start and the delta. *)
Block == Return({"open"}, "block", "open")

(* EventMessageDelta: the finish reason, and the usage if there is one. *)
Delta == Return({"open"}, "delta", "closing")

(* EventError: the upstream ended before the message was complete. *)
Error == Return({"fresh", "open"}, "error", "errored")

(* EventMessageStop, returned together with ErrStreamDone. *)
Stop == Return({"closing", "errored"}, "stop", "stopped")

(* No event: an unreadable chunk, or the read failed or was cancelled. *)
Fail == Return({"fresh", "open"}, "nil", "failed")

Continue == Start \/ Block \/ Delta \/ Error

StreamNext == Continue \/ Stop \/ Fail

StreamSpec == StreamInit /\ [][StreamNext]_streamVars

=============================================================================
