--------------------------- MODULE MCWebChatSession ---------------------------
(* WebChatSession for TLC. *)
EXTENDS WebChatSession

\* Two tool calls in every turn.
TwoCalls == Turns \X (1 .. 2)

CONSTANTS t1, t2

\* Two tool calls in one turn, one in another, and none in a third.
MixedCalls == {<<t1, 1>>, <<t1, 2>>, <<t2, 1>>}
=============================================================================
