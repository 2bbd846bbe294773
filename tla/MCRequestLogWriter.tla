-------------------------- MODULE MCRequestLogWriter --------------------------
(* Two handlers and room for two entries in the channel and in a batch. *)
EXTENDS RequestLogWriter

CONSTANTS h1, h2

MCHandlers == {h1, h2}

=============================================================================
