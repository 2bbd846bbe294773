--------------------------- MODULE MCCompletions ---------------------------
(* Two channels, one of which insists on max_tokens. *)
EXTENDS Completions

CONSTANTS a, b

MCChannels == {a, b}
MCMaxTokensRequired == {a}

=============================================================================
