------------------------- MODULE CurlSocketProperties -------------------------
(***************************************************************************)
(* What a WebSocket promises, and that it is the transport a Signal        *)
(* assumes (Transport).                                                    *)
(***************************************************************************)
EXTENDS CurlSocket, SequencesExt

CurlSteps ==
    {"spawn", "push", "lock", "unlock", "requestClose", "storeClosing", "storeAbort",
     "join", "settle", "start", "loop", "perform", "flush", "sendDirect", "requeue", "poll",
     "cleanup", "conclude", "exit", "fireError", "local", "remote", "callback"}

Ends == {"local", "remote", "error"}

Events == Ends \cup {"open", "request"}

Items == [msg : Nat, left : 1..Parts]

Conns ==
    [state : {"Closed", "Connecting", "Open", "Closing"}, running : BOOLEAN,
     abort : BOOLEAN, joinable : BOOLEAN, open_notified : BOOLEAN,
     error_reported : BOOLEAN, close_called : BOOLEAN, local_close_requested : BOOLEAN]

\* Types: every thread runs steps of the functions above only, and at most one item
\* of the send queue is in the worker's hand.
TypeOK ==
    /\ conn \in Conns /\ rc \in {"none", "ok", "failed"}
    /\ todo \in [Threads -> Seq(CurlSteps)]
    /\ lifecycle \in Threads \cup {"none"}
    /\ sendq \in Seq(Items) /\ hand \in Seq(Items) /\ Len(hand) <= 1
    /\ rx.buf \in Seq(Nat \X Nat) /\ rx.expected \in 0..Parts
    /\ peer \in [frame : Nat, offset : 0..Parts, close : 0..Parts]
    /\ past.log \in Seq(Events)

-------------------------------------------------------------------------------
\* The pieces of an item that are still to be sent, and those of a sequence of them.
pieces(item) == [i \in 1..item.left |-> <<item.msg, Parts - item.left + i - 1>>]
allPieces(items) == FlattenSeq([i \in DOMAIN items |-> pieces(items[i])])

\* What is sent on a connection is what was queued, piece by piece and in order:
\* while other threads queue more, an item that libcurl took in part, or not at
\* all, is neither lost nor repeated nor overtaken (flushSendQueue, sendDirect).
WireInOrder ==
    past.wire \o allPieces(hand) \o allPieces(sendq) = allPieces(past.pushed)

\* on_recv gets the peer's frames whole, one after the other, whatever the pieces in
\* which they arrive, a CLOSE frame between them, and what was left of a frame when
\* the last connection ended (rx_buf in write_cb, which open does not clear).
DeliveredWhole ==
    \A n \in 1..Len(past.received) :
        past.received[n] = [i \in 1..Parts |-> <<n, i - 1>>]

\* A thread that has ended has reported how: no way out of the worker, of the many
\* there are, leaves a Signal waiting for a connection that is gone.
EndIsReported ==
    conn.joinable /\ todo["worker"] = <<>> => conn.close_called

\* on_close is not called twice, nor after on_error: the closing thread, the worker
\* and the peer's CLOSE frame all report, and the first of them silences the others
\* (close_called, error_reported).
OneClose ==
    \A i, j \in DOMAIN past.log :
        i < j /\ past.log[i] \in Ends => past.log[j] \notin {"local", "remote"}

\* Violated.  on_error and on_close are mutually exclusive, as the comment of
\* fireError has it: one end is reported per open.
OneEnd == Cardinality({i \in DOMAIN past.log : past.log[i] \in Ends}) <= 1

\* What has been requested and called back since open.
said == {past.log[i] : i \in DOMAIN past.log}

\* A close that was asked for takes the worker down, however libcurl, the peer and
\* other threads interfere.  Only a worker that itself asks for a close while
\* another thread is joining it is stuck (see SafeFromWorker).
Stuck ==
    /\ todo["worker"] # <<>> /\ Head(todo["worker"]) = "lock"
    /\ \E t \in Callers : lifecycle = t /\ todo[t] # <<>> /\ Head(todo[t]) = "join"
CloseEnds == "request" \in said ~> ~Up \/ Stuck

-------------------------------------------------------------------------------
(* The transport a Signal sees, read off the log.                            *)

\* The worker could not set up libcurl: it has that to report, but none of the steps
\* that any other worker ends with.
LastSteps == {"start", "loop", "perform", "poll", "exit"}
broken ==
    /\ todo["worker"] # <<>>
    /\ \A i \in DOMAIN todo["worker"] : todo["worker"][i] \notin LastSteps

\* readyState follows the last event of the log that bears on it.
marks == {i \in DOMAIN past.log : past.log[i] \in {"open", "request"}}
shown ==
    IF ~Up \/ broken THEN "Closed"
    ELSE IF marks = {} THEN "Connecting"
    ELSE IF past.log[Max(marks)] = "open" THEN "Open" ELSE "Closing"

\* The first end that was reported counts.
endings == {i \in DOMAIN past.log : past.log[i] \in Ends}

Seen == INSTANCE Transport WITH
    sock  <- [state |-> shown, alive |-> Up,
              joinable |-> conn.joinable \/ todo[Opener] = << "spawn" >>,
              stop |-> "request" \in said, notified |-> "open" \in said,
              reported |-> endings # {}],
    heard <- IF endings # {} THEN past.log[Min(endings)]
             ELSE IF "open" \in said THEN "open" ELSE "none"

\* A WebSocket is a Transport: its requests and callbacks come in an order that
\* SignalLink reckons with, for instance no on_open after the end was reported, no
\* local close that nobody asked for, and none lost or overtaken by open.
IsTransport == Seen!Spec
===============================================================================
