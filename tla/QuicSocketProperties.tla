------------------------- MODULE QuicSocketProperties --------------------------
(***************************************************************************)
(* What a QuicSocket promises, and that it is the transport a Signal       *)
(* assumes (Transport).                                                    *)
(***************************************************************************)
EXTENDS QuicSocket, FiniteSets, SequencesExt

QuicSteps ==
    {"socketClose", "join", "init", "opened", "connect", "openStream", "fireError",
     "callback", "send", "requestClose", "storeClosing", "settle", "events", "marker",
     "params", "status", "frames", "onClose", "local", "remote"}

Terminal == {"local", "remote", "error"}

\* Types: every thread runs steps of the functions above only.
TypeOK ==
    /\ conn \in [state : {"Closed", "Connecting", "Open", "Closing"}, running : BOOLEAN,
                 open_notified : BOOLEAN, error_reported : BOOLEAN,
                 close_called : BOOLEAN, local_close_requested : BOOLEAN]
    /\ socket \in [made : BOOLEAN, up : BOOLEAN, stream : {"none", "asked", "open"},
                   closing : BOOLEAN, silent : BOOLEAN, over : BOOLEAN]
    /\ todo \in [Threads -> Seq(QuicSteps)]
    /\ rx.buffer \in Seq(0..255) /\ rx.status \in BOOLEAN
    /\ past.log \in Seq(Terminal \cup {"open", "request"})

-------------------------------------------------------------------------------
\* The frames that have arrived whole: the n-th ends where the first n + 1 parts of the
\* stream do.
whole ==
    {n \in 1..Len(peer.stream) - 1 : Len(bytes(peer.stream, n + 1)) <= peer.handed}

\* on_recv gets the peer's frames one by one, each whole and in order, and none waits
\* for more bytes than its own, whatever the reads, in the middle of the status code, a
\* length or a payload, empty frames, and several frames in one read; and it is 200,
\* and no other status code, that opens the socket (handleDataFramesLocked, GetUVarInt).
DeliversFrames ==
    LET frames == [n \in 1..Len(peer.stream) - 1 |-> peer.stream[n + 1].payload]
    IN  /\ IsPrefix(past.received, frames)
        /\ Len(past.received) <= Cardinality(whole)
        /\ At("loop", "events") /\ conn.open_notified
               => Len(past.received) = Cardinality(whole)
        /\ At("loop", "events") /\ peer.handed >= Len(bytes(peer.stream, 1))
               => conn.open_notified = (peer.stream[1].number = 200)

\* The peer reads the marker and the parameters of the url before any message, though
\* the application may send at any time (send asks for Open, not for running); and what
\* a size is written in is read back as that size, at every boundary, and is incomplete
\* until its last byte (PutUVarInt, GetUVarInt, sendFramed).
head == << "marker", "params" >>
HeadFirst ==
    /\ \A i \in DOMAIN past.wire :
           past.wire[i].what = IF i \in DOMAIN head THEN head[i] ELSE "message"
    /\ \A i \in DOMAIN past.wire \ {1} :
           LET written == past.wire[i].head
           IN  /\ GetUVarInt(written) = [dest |-> past.wire[i].size, len |-> Len(written)]
               /\ \A k \in 0..Len(written) - 1 : GetUVarInt(SubSeq(written, 1, k)).len = 0

\* When a connection is over, and no call is going on, its end was reported, and the
\* socket can be opened again: its state is not left at Connecting or Open, where open
\* refuses, by the callbacks and calls that store it (fireError, requestClose, Status).
CanReopen ==
    todo = [t \in Threads |-> <<>>] /\ past.opens > 0 =>
        /\ conn.close_called
        /\ conn.state \in {"Closed", "Closing"} /\ ~conn.running

\* What has been requested and called back since open.
said == ToSet(past.log)

\* A close that was asked for ends the connection, whatever came of it meanwhile.
CloseEnds == "request" \in said ~> ~Up

-------------------------------------------------------------------------------
(* The transport a Signal sees, read off the log as in CurlSocketProperties. *)

marks == {i \in DOMAIN past.log : past.log[i] \in {"open", "request"}}
shown ==
    IF ~Up THEN "Closed"
    ELSE IF marks = {} THEN "Connecting"
    ELSE IF past.log[Max(marks)] = "open" THEN "Open" ELSE "Closing"

\* The first end that was reported counts.
endings == {i \in DOMAIN past.log : past.log[i] \in Terminal}

Seen == INSTANCE Transport WITH
    sock  <- [state |-> shown, alive |-> Up, joinable |-> past.joinable,
              stop |-> "request" \in said, notified |-> "open" \in said,
              reported |-> endings # {}],
    heard <- IF endings # {} THEN past.log[Min(endings)]
             ELSE IF "open" \in said THEN "open" ELSE "none"

\* A QuicSocket is a Transport: no on_open after its end was reported, no local close
\* that nobody asked for, and none lost or overtaken by open, which joins the last
\* connection itself.
IsTransport == Seen!Spec
===============================================================================
