----------------------------- MODULE MCCurlSocket -----------------------------
(* Two threads use one WebSocket: one opens it, and both send and close.       *)
EXTENDS CurlSocketProperties

Limit(opens, closes, sends, frames) ==
    [opens |-> opens, closes |-> closes, sends |-> sends, frames |-> frames]

\* Two closes meet; a message, a frame and a close, and a second connection; two
\* messages and a frame.
MCLimits == {Limit(2, 2, 0, 0), Limit(2, 1, 1, 1), Limit(1, 0, 2, 1)}

\* Only the peer closes.
MCPeerCloses == {Limit(1, 0, 1, 0)}
===============================================================================
