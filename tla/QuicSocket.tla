------------------------------ MODULE QuicSocket -------------------------------
(***************************************************************************)
(* bff::QuicSocket (QuicSocket.cpp): open, send, close and closeAsync, all *)
(* called by one thread, and the callbacks that the loop thread of the     *)
(* quic::Socket makes, in which the user may call send and closeAsync.     *)
(*                                                                         *)
(* todo[t] is what thread t still has to run, as in CurlSocket.  The       *)
(* quic::Socket itself is a library: it opens the stream it was asked for, *)
(* hands over the bytes of the peer in reads of any size, and reports      *)
(* errors; every connection ends with one onClose, after which the loop    *)
(* ends.  After an error, and after close() was called on the loop thread, *)
(* it hands over nothing more; that close() may call onClose at once.      *)
(***************************************************************************)
EXTENDS VarInt

CONSTANTS
    Streams,    \* what the peer may send: a status code and frames
    Sizes,      \* the sizes of the messages that send is called with
    Limits      \* bounds: the limits to consider

LimitSet ==
    [opens  : Nat,    \* calls of open
     closes : Nat,    \* calls of close and closeAsync
     sends  : Nat]    \* calls of send

\* A stream is a sequence of numbers, the status code and then the lengths of the
\* frames, each with the bytes it is written in and the payload that follows it.
StreamPart == [number : Nat, len : {1, 2, 4, 8}, payload : Seq(0..255)]

\* A number that can be written in so many bytes: what is left of it for the first byte
\* goes beside the mark of the length.
Shift3(n) == ((n \div 256) \div 256) \div 256
Holds(n, len) ==
    /\ len = 1 => n < 64
    /\ len = 2 => n \div 256 < 64
    /\ len = 4 => Shift3(n) < 64
    /\ len = 8 => Shift3(Shift3(n)) \div 256 < 64

ASSUME QuicAssumption ==
    /\ \A s \in Streams : s \in Seq(StreamPart) /\ s # <<>> /\ s[1].payload = <<>>
    /\ \A s \in Streams : \A i \in DOMAIN s : Holds(s[i].number, s[i].len)
    /\ \A s \in Streams : \A i \in 2..Len(s) : s[i].number = Len(s[i].payload)
    /\ \A n \in Sizes : n \in Nat /\ Holds(n, 8)
    /\ Limits \subseteq LimitSet

Threads == {"app", "loop"}

\* The parameters of the url, of which only the size is of interest.
ParamsSize == 100

VARIABLES
    limit,      \* never changes
    conn,       \* the flags of QuicSocket::Private
    socket,     \* the quic::Socket: made, its loop up, how its stream is, asked to
                \* close, silent, and over (onClose was called)
    todo,       \* per thread, the steps it still has to run
    rx,         \* rx_buffer and received_status_code
    peer,       \* the peer's stream of this connection, and the bytes handed over
    past        \* history: log, the requests and callbacks since open; wire, what was
                \* sent since; received, what on_recv got; joinable, no join since open;
                \* and counts

vars == <<limit, conn, socket, todo, rx, peer, past>>

OnlyTodo == UNCHANGED <<limit, conn, socket, rx, peer, past>>
OnlyConn == UNCHANGED <<limit, socket, rx, peer>>
OnlySocket == UNCHANGED <<limit, conn, rx, peer>>

bytesOf(part) == PutWide(part.number, part.len) \o part.payload

\* The first n parts of a stream, as bytes.
bytes(stream, n) ==
    LET upto[i \in 0..n] == IF i = 0 THEN <<>> ELSE upto[i - 1] \o bytesOf(stream[i])
    IN  upto[n]

NoSocket == [made |-> FALSE, up |-> FALSE, stream |-> "none", closing |-> FALSE,
             silent |-> FALSE, over |-> FALSE]

Init ==
    /\ limit \in Limits
    /\ conn = [state |-> "Closed", running |-> FALSE, open_notified |-> FALSE,
               error_reported |-> FALSE, close_called |-> FALSE,
               local_close_requested |-> FALSE]
    /\ socket = NoSocket
    /\ todo = [t \in Threads |-> <<>>]
    /\ rx = [buffer |-> <<>>, status |-> FALSE]
    /\ peer = [stream |-> <<>>, bytes |-> <<>>, handed |-> 0]
    /\ past = [log |-> <<>>, wire |-> <<>>, received |-> <<>>, joinable |-> FALSE,
               opens |-> 0, closes |-> 0, sends |-> 0]

-------------------------------------------------------------------------------
At(t, step) == todo[t] # <<>> /\ Head(todo[t]) = step

Then(t, steps) == todo' = [todo EXCEPT ![t] = steps \o Tail(@)]

Starts(steps) == todo["app"] = <<>> /\ todo' = [todo EXCEPT !["app"] = steps]

Logged(event) == past' = [past EXCEPT !.log = Append(@, event)]

\* The connection can still call back: the loop is up, or open() goes on.
Up == socket.up \/ (todo["app"] # <<>> /\ todo["app"][Len(todo["app"])] = "opened")

-------------------------------------------------------------------------------
(* open, which joins the last connection itself.                             *)

Open ==
    /\ past.opens < limit.opens
    /\ conn.state \notin {"Connecting", "Open"}
    /\ past' = [past EXCEPT !.opens = @ + 1]
    /\ Starts(<< "socketClose", "join", "init" >>)
    /\ UNCHANGED <<limit, conn, socket, rx, peer>>

\* Everything is reset; the url cannot be parsed, or the connection is begun.
InitAll ==
    /\ At("app", "init")
    /\ conn' \in {[state |-> s, running |-> s = "Connecting", open_notified |-> FALSE,
                   error_reported |-> FALSE, close_called |-> FALSE,
                   local_close_requested |-> FALSE] : s \in {conn.state, "Connecting"}}
    /\ socket' = [NoSocket EXCEPT !.made = conn'.running]
    /\ rx' = [buffer |-> <<>>, status |-> FALSE]
    /\ \E s \in Streams :
           peer' = [stream |-> s, bytes |-> bytes(s, Len(s)), handed |-> 0]
    /\ past' = [past EXCEPT !.log = <<>>, !.wire = <<>>, !.received = <<>>,
                            !.joinable = TRUE]
    /\ Then("app", << IF conn'.running THEN "connect" ELSE "fireError", "opened" >>)
    /\ UNCHANGED limit

\* The host cannot be resolved, or none of its addresses opened; or the loop runs.
Connect ==
    /\ At("app", "connect")
    /\ \/ /\ Then("app", << "fireError" >>)
          /\ UNCHANGED socket
       \/ /\ socket' = [socket EXCEPT !.up = TRUE]
          /\ todo' = [todo EXCEPT !["app"] = << "openStream" >> \o Tail(@),
                                  !["loop"] = << "events" >>]
    /\ OnlySocket /\ UNCHANGED past

OpenStream ==
    /\ At("app", "openStream")
    /\ \/ /\ Then("app", << "fireError", "socketClose" >>)
          /\ UNCHANGED socket
       \/ /\ socket' = [socket EXCEPT !.stream = "asked"]
          /\ Then("app", <<>>)
    /\ OnlySocket /\ UNCHANGED past

Opened ==
    /\ At("app", "opened")
    /\ Then("app", <<>>)
    /\ OnlyTodo

-------------------------------------------------------------------------------
(* The other calls.                                                          *)

\* What is sent: the payload and, but for the marker, its size before it.
sendFramed(what, size) ==
    [what |-> what, size |-> size,
     head |-> IF what = "marker" THEN <<>> ELSE PutUVarInt(size)]

\* send: only an open socket sends, and the library may refuse.
SendWhileRunning(t) ==
    /\ At(t, "send")
    /\ Then(t, <<>>)
    /\ \/ /\ conn.running /\ socket.made /\ socket.stream = "open"
          /\ \E n \in Sizes :
                 past' = [past EXCEPT !.wire = Append(@, sendFramed("message", n))]
       \/ UNCHANGED past
    /\ UNCHANGED <<limit, conn, socket, rx, peer>>
Send(t) ==
    /\ At(t, "send")
    /\ Then(t, <<>>)
    /\ \/ /\ conn.state = "Open" /\ socket.made /\ socket.stream = "open"
          /\ \E n \in Sizes :
                 past' = [past EXCEPT !.wire = Append(@, sendFramed("message", n))]
       \/ UNCHANGED past
    /\ UNCHANGED <<limit, conn, socket, rx, peer>>

CallSend ==
    /\ past.sends < limit.sends
    /\ past' = [past EXCEPT !.sends = @ + 1]
    /\ Starts(<< "send" >>)
    /\ UNCHANGED <<limit, conn, socket, rx, peer>>

CloseAsync ==
    /\ past.closes < limit.closes
    /\ past' = [past EXCEPT !.closes = @ + 1]
    /\ Starts(<< "requestClose" >>)
    /\ UNCHANGED <<limit, conn, socket, rx, peer>>

Close ==
    /\ past.closes < limit.closes
    /\ past' = [past EXCEPT !.closes = @ + 1]
    /\ Starts(<< "requestClose", "socketClose", "join", "settle" >>)
    /\ UNCHANGED <<limit, conn, socket, rx, peer>>

\* requestClose: the state is read here, and stored, and the socket told, later.
RequestCloseOnlyOpen(t) ==
    /\ At(t, "requestClose")
    /\ conn' = [conn EXCEPT !.local_close_requested = TRUE]
    /\ IF conn.state = "Closed"
         THEN Then(t, <<>>) /\ UNCHANGED past
         ELSE /\ Then(t, IF conn.state = "Open" THEN << "storeClosing", "socketClose" >>
                                                ELSE <<>>)
              /\ IF Up THEN Logged("request") ELSE UNCHANGED past
    /\ OnlyConn
RequestClose(t) ==
    /\ At(t, "requestClose")
    /\ conn' = [conn EXCEPT !.local_close_requested = TRUE]
    /\ IF conn.state = "Closed"
         THEN Then(t, <<>>) /\ UNCHANGED past
         ELSE /\ Then(t, IF conn.state # "Closing" THEN << "storeClosing", "socketClose" >>
                                                   ELSE << "socketClose" >>)
              /\ IF Up THEN Logged("request") ELSE UNCHANGED past
    /\ OnlyConn

StoreClosing(t) ==
    /\ At(t, "storeClosing")
    /\ conn' = [conn EXCEPT !.state = "Closing"]
    /\ Then(t, <<>>)
    /\ OnlyConn /\ UNCHANGED past

\* socket->close(): on the loop thread it may call onClose at once.
SocketClose(t) ==
    /\ At(t, "socketClose")
    /\ socket' = [socket EXCEPT !.closing = socket.up,
                                !.silent = @ \/ t = "loop"]
    /\ \/ Then(t, <<>>)
       \/ /\ t = "loop" /\ ~socket.over
          /\ Then(t, << "onClose" >>)
    /\ OnlySocket /\ UNCHANGED past

\* The quic::Socket is destroyed, which joins its loop.
JoinWhileUp ==
    /\ At("app", "join")
    /\ socket' = [socket EXCEPT !.made = FALSE]
    /\ past' = [past EXCEPT !.joinable = FALSE]
    /\ Then("app", <<>>)
    /\ OnlySocket
Join ==
    /\ At("app", "join") /\ ~socket.up
    /\ socket' = [socket EXCEPT !.made = FALSE]
    /\ past' = [past EXCEPT !.joinable = FALSE]
    /\ Then("app", <<>>)
    /\ OnlySocket

\* The rest of close(): a close that nobody reported is reported here.
Settle ==
    /\ At("app", "settle")
    /\ conn' = [conn EXCEPT !.state = "Closed", !.running = FALSE, !.close_called = TRUE]
    /\ IF conn.close_called \/ conn.error_reported
         THEN Then("app", <<>>) /\ UNCHANGED past
         ELSE Then("app", << "callback" >>) /\ Logged("local")
    /\ OnlyConn

-------------------------------------------------------------------------------
(* The loop and its callbacks.                                               *)

\* onOpenStream: the marker and the parameters of the url go out first; a refusal is
\* an error.
StreamOpens ==
    /\ At("loop", "events") /\ socket.stream = "asked" /\ ~socket.silent /\ ~socket.over
    /\ socket' = [socket EXCEPT !.stream = "open"]
    /\ Then("loop", << "marker", "params", "events" >>)
    /\ OnlySocket /\ UNCHANGED past

SendHead ==
    \E part \in {"marker", "params"} :
        /\ At("loop", part)
        /\ \/ /\ past' = [past EXCEPT !.wire = Append(@, sendFramed(part, ParamsSize))]
              /\ Then("loop", <<>>)
           \/ /\ todo' = [todo EXCEPT !["loop"] = << "fireError", "socketClose", "events" >>]
              /\ UNCHANGED past
        /\ UNCHANGED <<limit, conn, socket, rx, peer>>

\* onRecv: the next bytes of the peer, as many as one read brings.
Recv ==
    /\ At("loop", "events") /\ socket.stream = "open" /\ ~socket.silent /\ ~socket.over
    /\ \E n \in peer.handed + 1..Len(peer.bytes) :
           /\ rx' = [rx EXCEPT !.buffer = @ \o SubSeq(peer.bytes, peer.handed + 1, n)]
           /\ peer' = [peer EXCEPT !.handed = n]
    /\ Then("loop", << IF rx.status THEN "frames" ELSE "status", "events" >>)
    /\ UNCHANGED <<limit, conn, socket, past>>

\* handleDataFramesLocked, first part: the status code opens the socket, or is an error.
Status ==
    /\ At("loop", "status")
    /\ LET code == GetUVarInt(rx.buffer)
       IN  IF code.len = 0
             THEN Then("loop", <<>>) /\ UNCHANGED <<conn, rx, past>>
             ELSE /\ rx' = [buffer |-> SubSeq(rx.buffer, code.len + 1, Len(rx.buffer)),
                            status |-> TRUE]
                  /\ IF code.dest # 200
                       THEN /\ Then("loop", << "fireError", "socketClose" >>)
                            /\ UNCHANGED <<conn, past>>
                       ELSE /\ conn' = [conn EXCEPT !.open_notified = TRUE, !.state = "Open"]
                            /\ Logged("open")
                            /\ Then("loop", << "callback", "frames" >>)
    /\ UNCHANGED <<limit, socket, peer>>

\* Its second part: every frame that is whole goes to on_recv.
FramesUnchecked ==
    /\ At("loop", "frames")
    /\ LET length == GetUVarInt(rx.buffer)
           whole == length.len + length.dest
           end == IF whole > Len(rx.buffer) THEN Len(rx.buffer) ELSE whole
       IN  IF length.len = 0
             THEN Then("loop", <<>>) /\ UNCHANGED <<rx, past>>
             ELSE /\ rx' = [rx EXCEPT !.buffer = SubSeq(@, end + 1, Len(@))]
                  /\ past' = [past EXCEPT !.received =
                                  Append(@, SubSeq(rx.buffer, length.len + 1, end))]
                  /\ Then("loop", << "callback", "frames" >>)
    /\ UNCHANGED <<limit, conn, socket, peer>>
Frames ==
    /\ At("loop", "frames")
    /\ LET length == GetUVarInt(rx.buffer)
           end == length.len + length.dest
       IN  IF length.len = 0 \/ Len(rx.buffer) < end
             THEN Then("loop", <<>>) /\ UNCHANGED <<rx, past>>
             ELSE /\ rx' = [rx EXCEPT !.buffer = SubSeq(@, end + 1, Len(@))]
                  /\ past' = [past EXCEPT !.received =
                                  Append(@, SubSeq(rx.buffer, length.len + 1, end))]
                  /\ Then("loop", << "callback", "frames" >>)
    /\ UNCHANGED <<limit, conn, socket, peer>>

\* onError: the connection failed; its end is still to come.
Fails ==
    /\ At("loop", "events") /\ ~socket.silent /\ ~socket.over
    /\ socket' = [socket EXCEPT !.silent = TRUE]
    /\ Then("loop", << "fireError", "events" >>)
    /\ OnlySocket /\ UNCHANGED past

\* The end of the connection: asked for, after an error, or the peer's.
Ends ==
    /\ At("loop", "events") /\ ~socket.over
    /\ Then("loop", << "onClose", "events" >>)
    /\ OnlyTodo

\* onClose: a requested close is a local one.
OnClose(t) ==
    /\ At(t, "onClose")
    /\ socket' = [socket EXCEPT !.over = TRUE, !.silent = TRUE]
    /\ Then(t, << IF conn.local_close_requested THEN "local" ELSE "remote" >>)
    /\ OnlySocket /\ UNCHANGED past

LoopEnds ==
    /\ At("loop", "events") /\ socket.over
    /\ socket' = [socket EXCEPT !.up = FALSE]
    /\ Then("loop", <<>>)
    /\ OnlySocket /\ UNCHANGED past

-------------------------------------------------------------------------------
(* Reports.                                                                  *)

\* fireError: once, but also after a close.
FireErrorStillOpen(t) ==
    /\ At(t, "fireError")
    /\ IF conn.error_reported
         THEN Then(t, <<>>) /\ UNCHANGED <<conn, past>>
         ELSE /\ conn' = [conn EXCEPT !.error_reported = TRUE, !.close_called = TRUE,
                                      !.running = FALSE]
              /\ Logged("error")
              /\ Then(t, << "callback" >>)
    /\ OnlyConn
FireError(t) ==
    /\ At(t, "fireError")
    /\ IF conn.error_reported
         THEN Then(t, <<>>) /\ UNCHANGED <<conn, past>>
         ELSE /\ conn' = [conn EXCEPT !.error_reported = TRUE, !.close_called = TRUE,
                                      !.state = "Closed", !.running = FALSE]
              /\ Logged("error")
              /\ Then(t, << "callback" >>)
    /\ OnlyConn

\* fireClose: not after a close, nor after an error.
FireClose ==
    \E how \in {"local", "remote"} :
        /\ At("loop", how)
        /\ IF conn.close_called \/ conn.error_reported
             THEN Then("loop", <<>>) /\ UNCHANGED past
                  /\ conn' = [conn EXCEPT !.close_called = TRUE]
             ELSE /\ conn' = [conn EXCEPT !.close_called = TRUE, !.state = "Closed",
                                          !.running = FALSE]
                  /\ Logged(how)
                  /\ Then("loop", << "callback" >>)
        /\ OnlyConn

\* A callback of the user: it may do nothing, send, or ask for a close.
Callback(t) ==
    /\ At(t, "callback")
    /\ \/ Then(t, <<>>) /\ UNCHANGED past
       \/ /\ past.sends < limit.sends
          /\ past' = [past EXCEPT !.sends = @ + 1]
          /\ Then(t, << "send" >>)
       \/ /\ past.closes < limit.closes
          /\ past' = [past EXCEPT !.closes = @ + 1]
          /\ Then(t, << "requestClose" >>)
    /\ UNCHANGED <<limit, conn, socket, rx, peer>>

-------------------------------------------------------------------------------
Step(t) ==
    \/ Send(t) \/ RequestClose(t) \/ StoreClosing(t) \/ SocketClose(t)
    \/ FireError(t) \/ Callback(t)

AppStep == Step("app") \/ InitAll \/ Connect \/ OpenStream \/ Opened \/ Join \/ Settle

LoopStep ==
    \/ Step("loop") \/ SendHead \/ Status \/ Frames \/ OnClose("loop") \/ FireClose
    \/ LoopEnds

Next ==
    \/ Open \/ CallSend \/ CloseAsync \/ Close \/ AppStep
    \/ StreamOpens \/ Recv \/ Fails \/ Ends \/ LoopStep

Spec == Init /\ [][Next]_vars

\* Both threads run, and a connection that is asked to close, or that failed, ends.
FairSpec ==
    /\ Spec
    /\ WF_vars(AppStep) /\ WF_vars(LoopStep)
    /\ WF_vars((socket.closing \/ socket.silent) /\ Ends)
===============================================================================
