------------------------------ MODULE LegSocket ------------------------------
(***************************************************************************)
(* One transport of a Signal, seen through the interface Signal uses:      *)
(* bff::WebSocket (libcurl, a worker thread) for the leg "Curl" and        *)
(* bff::QuicSocket (a quic::Socket, its loop thread) for the leg "Quic".   *)
(*                                                                         *)
(* A socket is a record:                                                   *)
(*   state     what readyState() returns                                   *)
(*   alive     its thread has not left the body: it can still call back    *)
(*   joinable  the std::thread / quic::Socket object has not been joined   *)
(*   stop      a local close was requested (abort, local_close_requested)  *)
(*   notified  open_notified: on_open was delivered for this open()        *)
(*   reported  close_called or error_reported: a terminal callback was     *)
(***************************************************************************)
Legs == {"Curl", "Quic"}

States == {"Closed", "Connecting", "Open", "Closing"}

Sockets == [state    : States,
            alive    : BOOLEAN,
            joinable : BOOLEAN,
            stop     : BOOLEAN,
            notified : BOOLEAN,
            reported : BOOLEAN]

\* A socket that was never opened: the members' initialisers.
NeverOpened == [state    |-> "Closed", alive    |-> FALSE, joinable |-> FALSE,
                stop     |-> FALSE,    notified |-> FALSE, reported |-> FALSE]

\* open() resets every flag of the previous connection and starts the thread.
Opened == [state    |-> "Connecting", alive    |-> TRUE,  joinable |-> TRUE,
           stop     |-> FALSE,        notified |-> FALSE, reported |-> FALSE]

\* requestClose(): a socket that is already closed is left alone.
CloseRequestedAtOnce(s) ==
    IF s.state = "Closed" THEN s
                          ELSE [s EXCEPT !.state = "Closed", !.stop = TRUE]
CloseRequested(s) ==
    IF s.state = "Closed" THEN s
                          ELSE [s EXCEPT !.state = "Closing", !.stop = TRUE]

\* What close() leaves once the thread is joined and the close is reported.
Joined(s) == [s EXCEPT !.state = "Closed", !.joinable = FALSE, !.reported = TRUE]

\* The thread is up and no close was asked for or reported: traffic may flow.
Usable(s) == s.alive /\ ~s.stop /\ ~s.reported /\ s.state # "Closed"

\* What the thread may do next: give up before it starts, complete the handshake,
\* which no close request prevents, report one end of the connection, and leave its
\* body.  Only a QuicSocket reports a close of the peer before it reported that it
\* is open.
MayBreak(s)    == s.alive /\ ~s.notified /\ s.state # "Closed"
MayOpen(s)     == s.alive /\ ~s.reported /\ ~s.notified /\ s.state # "Closed"
MayFail(s)     == s.alive /\ ~s.reported
MayBeClosed(s) == s.alive /\ ~s.reported
MayStop(s)     == s.alive /\ ~s.reported /\ s.stop
MayEnd(s)      == s.alive /\ s.reported

\* A worker that cannot set up libcurl is Closed first, and reports that later.
Broken(s)   == [s EXCEPT !.state = "Closed"]
OpenedUp(s) == [s EXCEPT !.notified = TRUE, !.state = "Open"]
Ended(s)    == [s EXCEPT !.alive = FALSE, !.state = "Closed"]
==============================================================================
