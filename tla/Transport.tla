------------------------------ MODULE Transport ------------------------------
(***************************************************************************)
(* What SignalLink assumes of its WebSocket, as a specification of its own: *)
(* one socket of LegSocket, and the callback that says how it stands.      *)
(***************************************************************************)
EXTENDS LegSocket

VARIABLES
    sock,    \* the socket
    heard    \* since open(): "none", "open", or what ended it

Init == sock = NeverOpened /\ heard = "none"

\* open() after the last thread was joined.
Open == ~sock.joinable /\ sock' = Opened /\ heard' = "none"

RequestClose == sock' = CloseRequested(sock) /\ UNCHANGED heard

Opens == MayOpen(sock) /\ sock' = OpenedUp(sock) /\ heard' = "open"

\* Closed before that is reported: the thread is not going to open.  (A close() that
\* found no thread to join yet may have reported an end before.)
Breaks == MayBreak(sock) /\ sock' = Broken(sock) /\ UNCHANGED heard

\* One of the three ends is reported.
Ends(how) == sock' = [sock EXCEPT !.reported = TRUE] /\ heard' = how

Fails        == MayFail(sock)     /\ Ends("error")
ClosedByPeer == MayBeClosed(sock) /\ Ends("remote")
Stops        == MayStop(sock)     /\ Ends("local")

ThreadEnds == MayEnd(sock) /\ sock' = Ended(sock) /\ UNCHANGED heard

\* close() has joined the thread, and reports what nobody has.
Join ==
    /\ ~sock.alive
    /\ sock' = Joined(sock)
    /\ heard' = IF sock.reported THEN heard ELSE "local"

Next ==
    \/ Open \/ RequestClose \/ Breaks \/ Opens \/ Fails \/ ClosedByPeer \/ Stops
    \/ ThreadEnds \/ Join

Spec == Init /\ [][Next]_<<sock, heard>>
==============================================================================
