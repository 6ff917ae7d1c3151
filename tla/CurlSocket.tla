------------------------------ MODULE CurlSocket ------------------------------
(***************************************************************************)
(* bff::WebSocket (WebSocket.cpp): open, send, close and closeAsync, called *)
(* by several threads, and the worker that drives libcurl and makes the    *)
(* callbacks, which may call send and closeAsync themselves.               *)
(*                                                                         *)
(* todo[t] is what thread t still has to run, as a sequence of steps: a    *)
(* step is one access to the state other threads see, one critical section *)
(* of send_mutex, or one call into libcurl, whose outcomes are those the   *)
(* code tells apart.  A step that calls a function puts the steps of that  *)
(* function in its own place.  The worker lives as long as it has steps.   *)
(*                                                                         *)
(* A message is sent, and a frame arrives, in Parts pieces, so that        *)
(* libcurl can take or bring less than the whole.                          *)
(***************************************************************************)
EXTENDS Naturals, Sequences, FiniteSets

CONSTANTS
    Callers,     \* the threads that use the socket
    Opener,      \* the one that opens it
    Parts,       \* pieces of a message or a frame
    Limits       \* bounds: the limits to consider

\* What one behaviour may do.
LimitSet ==
    [opens  : Nat,    \* calls of open
     closes : Nat,    \* calls of close and closeAsync
     sends  : Nat,    \* calls of send
     frames : Nat]    \* data frames of the peer

ASSUME CurlAssumption ==
    /\ Opener \in Callers /\ "worker" \notin Callers /\ "none" \notin Callers
    /\ Parts \in Nat \ {0}
    /\ Limits \subseteq LimitSet

Threads == Callers \cup {"worker"}

VARIABLES
    limit,      \* never changes
    conn,       \* the flags of WebSocket::Private, and thread.joinable()
    rc,         \* the worker's own: how the transfer ended, or "none"
    todo,       \* per thread, the steps it still has to run
    lifecycle,  \* owner of lifecycle_mutex, or "none"
    sendq,      \* the send queue: items of a message and the pieces left of it
    hand,       \* the item flushSendQueue has taken from it, as a sequence
    rx,         \* rx_buf and rx_expected_offset
    peer,       \* the peer's frames: the current one, its pieces sent, CLOSE's
    past        \* history: log, the requests and callbacks since open; wire, the
                \* pieces sent since; pushed, the items that had to be; received,
                \* what on_recv got; and counts

vars == <<limit, conn, rc, todo, lifecycle, sendq, hand, rx, peer, past>>

OnlyTodo == UNCHANGED <<limit, conn, rc, lifecycle, sendq, hand, rx, peer, past>>
OnlyConn == UNCHANGED <<limit, rc, lifecycle, sendq, hand, rx, peer, past>>
OnlyLock == UNCHANGED <<limit, conn, rc, sendq, hand, rx, peer, past>>
OnlyWire == UNCHANGED <<limit, conn, rc, lifecycle, rx, peer>>

-------------------------------------------------------------------------------
At(t, step) == todo[t] # <<>> /\ Head(todo[t]) = step

Then(t, steps) == todo' = [todo EXCEPT ![t] = steps \o Tail(@)]

Starts(t, steps) == todo[t] = <<>> /\ todo' = [todo EXCEPT ![t] = steps]

Logged(event) == past' = [past EXCEPT !.log = Append(@, event)]

Queued(item) ==
    /\ sendq' = Append(sendq, item)
    /\ past' = [past EXCEPT !.pushed = Append(@, item)]

\* The CLOSE frame of this side.
CloseFrame == [msg |-> 0, left |-> Parts]

\* The worker runs, or is about to be started.
Up == todo["worker"] # <<>> \/ todo[Opener] = << "spawn" >>

\* What follows the worker's loop, however it was left.
finish == << "flush", "cleanup", "conclude", "exit" >>

Init ==
    /\ limit \in Limits
    /\ conn = [state |-> "Closed", running |-> FALSE, abort |-> FALSE, joinable |-> FALSE,
               open_notified |-> FALSE, error_reported |-> FALSE, close_called |-> FALSE,
               local_close_requested |-> FALSE]
    /\ rc = "none"
    /\ todo = [t \in Threads |-> <<>>]
    /\ lifecycle = "none"
    /\ sendq = <<>> /\ hand = <<>>
    /\ rx = [buf |-> <<>>, expected |-> 0]
    /\ peer = [frame |-> 1, offset |-> 0, close |-> 0]
    /\ past = [log |-> <<>>, wire |-> <<>>, pushed |-> <<>>, received |-> <<>>,
               opens |-> 0, closes |-> 0, sends |-> 0]

-------------------------------------------------------------------------------
(* The calls.                                                                *)

\* open(): every flag is reset, and only then is the thread created.  The code
\* expects that the last thread was joined, and that nobody is in close().
Open ==
    /\ past.opens < limit.opens /\ ~conn.joinable /\ lifecycle = "none"
    /\ conn' = [state |-> "Connecting", running |-> TRUE, abort |-> FALSE, joinable |-> FALSE,
                open_notified |-> FALSE, error_reported |-> FALSE, close_called |-> FALSE,
                local_close_requested |-> FALSE]
    /\ rc' = "none"
    /\ peer' = [frame |-> 1, offset |-> 0, close |-> 0]
    /\ past' = [past EXCEPT !.log = <<>>, !.wire = <<>>, !.pushed = sendq,
                            !.received = <<>>, !.opens = @ + 1]
    /\ Starts(Opener, << "spawn" >>)
    /\ UNCHANGED <<limit, lifecycle, sendq, hand, rx>>

Spawn ==
    /\ At(Opener, "spawn")
    /\ conn' = [conn EXCEPT !.joinable = TRUE]
    /\ todo' = [todo EXCEPT ![Opener] = <<>>, !["worker"] = << "start" >>]
    /\ OnlyConn

\* send(): refused unless running; the message is queued after that was checked.
Send(t) ==
    /\ conn.running /\ past.sends < limit.sends
    /\ Starts(t, << "push" >>)
    /\ past' = [past EXCEPT !.sends = @ + 1]
    /\ UNCHANGED <<limit, conn, rc, lifecycle, sendq, hand, rx, peer>>

Push(t) ==
    /\ At(t, "push")
    /\ Queued([msg |-> Len(past.pushed) + 1, left |-> Parts])
    /\ Then(t, <<>>)
    /\ UNCHANGED hand /\ OnlyWire

asyncClose == << "lock", "requestClose", "unlock" >>

CloseAsync(t) ==
    /\ past.closes < limit.closes
    /\ past' = [past EXCEPT !.closes = @ + 1]
    /\ Starts(t, asyncClose)
    /\ UNCHANGED <<limit, conn, rc, lifecycle, sendq, hand, rx, peer>>

Close(t) ==
    /\ past.closes < limit.closes
    /\ past' = [past EXCEPT !.closes = @ + 1]
    /\ Starts(t, << "lock", "requestClose", "join", "settle", "unlock" >>)
    /\ UNCHANGED <<limit, conn, rc, lifecycle, sendq, hand, rx, peer>>

Lock(t) ==
    /\ At(t, "lock") /\ lifecycle = "none"
    /\ lifecycle' = t
    /\ Then(t, <<>>)
    /\ OnlyLock

Unlock(t) ==
    /\ At(t, "unlock")
    /\ lifecycle' = "none"
    /\ Then(t, <<>>)
    /\ OnlyLock

\* requestClose: the state is read here, and stored, and the worker told, later.
RequestCloseOnlyOpen(t) ==
    /\ At(t, "requestClose")
    /\ conn' = [conn EXCEPT !.local_close_requested = TRUE]
    /\ IF conn.state = "Closed"
         THEN Then(t, <<>>) /\ UNCHANGED past
         ELSE /\ Then(t, IF conn.state = "Open" /\ conn.joinable
                           THEN << "storeClosing", "storeAbort" >> ELSE <<>>)
              /\ IF Up THEN Logged("request") ELSE UNCHANGED past
    /\ UNCHANGED <<limit, rc, lifecycle, sendq, hand, rx, peer>>
RequestClose(t) ==
    /\ At(t, "requestClose")
    /\ conn' = [conn EXCEPT !.local_close_requested = TRUE]
    /\ IF conn.state = "Closed"
         THEN Then(t, <<>>) /\ UNCHANGED past
         ELSE /\ Then(t, IF conn.state # "Closing" /\ conn.joinable
                           THEN << "storeClosing", "storeAbort" >> ELSE << "storeAbort" >>)
              /\ IF Up THEN Logged("request") ELSE UNCHANGED past
    /\ UNCHANGED <<limit, rc, lifecycle, sendq, hand, rx, peer>>

StoreClosing(t) ==
    /\ At(t, "storeClosing")
    /\ conn' = [conn EXCEPT !.state = "Closing"]
    /\ IF conn.running THEN Queued(CloseFrame) ELSE UNCHANGED <<sendq, past>>
    /\ Then(t, <<>>)
    /\ UNCHANGED <<limit, rc, lifecycle, hand, rx, peer>>

StoreAbort(t) ==
    /\ At(t, "storeAbort")
    /\ conn' = [conn EXCEPT !.abort = TRUE]
    /\ Then(t, <<>>)
    /\ OnlyConn

JoinWhileRunning(t) ==
    /\ At(t, "join")
    /\ conn' = [conn EXCEPT !.joinable = FALSE]
    /\ Then(t, <<>>)
    /\ OnlyConn
Join(t) ==
    /\ At(t, "join") /\ todo["worker"] = <<>>
    /\ conn' = [conn EXCEPT !.joinable = FALSE]
    /\ Then(t, <<>>)
    /\ OnlyConn

\* The rest of close(): the queue is dropped, and a close nobody reported yet (of a
\* socket that was never opened) is reported here, lifecycle_mutex being held.
Settle(t) ==
    /\ At(t, "settle")
    /\ sendq' = <<>>
    /\ conn' = [conn EXCEPT !.running = FALSE, !.close_called = TRUE, !.state = "Closed"]
    /\ LET told == conn.close_called \/ conn.error_reported
       IN  /\ past' = [past EXCEPT !.pushed = <<>>, !.wire = <<>>,
                                   !.log = IF told THEN @ ELSE Append(@, "local")]
           /\ Then(t, IF told THEN <<>> ELSE << "callback" >>)
    /\ UNCHANGED <<limit, rc, lifecycle, hand, rx, peer>>

-------------------------------------------------------------------------------
(* The worker.                                                               *)

\* libcurl cannot be set up: the socket is Closed before that is reported, and
\* the thread returns.
Start ==
    /\ At("worker", "start")
    /\ \/ /\ Then("worker", << "loop" >>)
          /\ UNCHANGED conn
       \/ /\ conn' = [conn EXCEPT !.running = FALSE, !.state = "Closed"]
          /\ Then("worker", << "fireError" >>)
    /\ OnlyConn

Loop ==
    /\ At("worker", "loop")
    /\ Then("worker", IF conn.abort THEN finish ELSE << "perform" >>)
    /\ OnlyTodo

\* curl_multi_perform makes callbacks, and then returns: with nothing more to do,
\* with the end of the transfer, or with an error of its own.
PerformReturns ==
    /\ At("worker", "perform")
    /\ \/ Then("worker", << "flush", "poll" >>) /\ UNCHANGED rc
       \/ Then("worker", << "fireError" >> \o finish) /\ UNCHANGED rc
       \/ Then("worker", << "flush" >> \o finish) /\ rc' \in {"ok", "failed"}
    /\ UNCHANGED <<limit, conn, lifecycle, sendq, hand, rx, peer, past>>

\* xferinfo_cb sees that the upgrade is done (write_cb does the same first).
Upgraded ==
    /\ At("worker", "perform") /\ ~conn.open_notified
    /\ conn' = [conn EXCEPT !.open_notified = TRUE, !.state = "Open"]
    /\ Logged("open")
    /\ Then("worker", << "callback", "perform" >>)
    /\ UNCHANGED <<limit, rc, lifecycle, sendq, hand, rx, peer>>

\* write_cb with a piece of a data frame: on_recv gets the frame when it is whole.
DataArrivesUncleared ==
    /\ At("worker", "perform") /\ conn.open_notified
    /\ peer.frame <= limit.frames /\ peer.close < Parts
    /\ LET buf == Append(rx.buf, <<peer.frame, peer.offset>>)
           last == peer.offset + 1 = Parts
       IN  /\ rx' = [rx EXCEPT !.buf = IF last THEN <<>> ELSE buf]
           /\ peer' = [peer EXCEPT !.frame = IF last THEN @ + 1 ELSE @,
                                   !.offset = IF last THEN 0 ELSE @ + 1]
           /\ past' = [past EXCEPT !.received = IF last THEN Append(@, buf) ELSE @]
           /\ Then("worker", IF last THEN << "callback", "perform" >> ELSE << "perform" >>)
    /\ UNCHANGED <<limit, conn, rc, lifecycle, sendq, hand>>
DataArrives ==
    /\ At("worker", "perform") /\ conn.open_notified
    /\ peer.frame <= limit.frames /\ peer.close < Parts
    /\ LET fresh == peer.offset = 0 \/ peer.offset # rx.expected
           buf == Append(IF fresh THEN <<>> ELSE rx.buf, <<peer.frame, peer.offset>>)
           expected == IF fresh THEN 1 ELSE rx.expected + 1
           last == peer.offset + 1 = Parts
       IN  /\ rx' = [rx EXCEPT !.buf = IF last THEN <<>> ELSE buf,
                               !.expected = IF last THEN 0 ELSE expected]
           /\ peer' = [peer EXCEPT !.frame = IF last THEN @ + 1 ELSE @,
                                   !.offset = IF last THEN 0 ELSE @ + 1]
           /\ past' = [past EXCEPT !.received = IF last THEN Append(@, buf) ELSE @]
           /\ Then("worker", IF last THEN << "callback", "perform" >> ELSE << "perform" >>)
    /\ UNCHANGED <<limit, conn, rc, lifecycle, sendq, hand>>

\* write_cb with a piece of the peer's CLOSE frame, which may come between those of
\* a data frame: close_buf collects it, and the whole frame is a close.
CloseArrives ==
    /\ At("worker", "perform") /\ conn.open_notified /\ peer.close < Parts
    /\ peer' = [peer EXCEPT !.close = @ + 1]
    /\ Then("worker", IF peer.close + 1 = Parts THEN << "remote", "storeAbort", "perform" >>
                                                ELSE << "perform" >>)
    /\ UNCHANGED <<limit, conn, rc, lifecycle, sendq, hand, rx, past>>

\* flushSendQueue takes the first item, if the socket is open and there is one.
Flush ==
    /\ At("worker", "flush")
    /\ IF conn.open_notified /\ sendq # <<>>
         THEN /\ hand' = << Head(sendq) >>
              /\ sendq' = Tail(sendq)
              /\ Then("worker", << "sendDirect" >>)
         ELSE /\ Then("worker", <<>>)
              /\ UNCHANGED <<hand, sendq>>
    /\ OnlyWire /\ UNCHANGED past

\* sendDirect: libcurl takes a piece; or none for now; or it fails for good.
SendDirectOneMore ==
    /\ At("worker", "sendDirect")
    /\ \/ LET item == hand[1]
          IN  /\ past' = [past EXCEPT !.wire = Append(@, <<item.msg, Parts - item.left>>)]
              /\ hand' = IF item.left = 0 THEN <<>>
                                          ELSE << [item EXCEPT !.left = @ - 1] >>
              /\ Then("worker", IF item.left = 0 THEN << "flush" >> ELSE << "sendDirect" >>)
       \/ /\ Then("worker", << "requeue" >>)
          /\ UNCHANGED <<past, hand>>
    /\ OnlyWire /\ UNCHANGED sendq
SendDirect ==
    /\ At("worker", "sendDirect")
    /\ \/ LET item == hand[1]
          IN  /\ past' = [past EXCEPT !.wire = Append(@, <<item.msg, Parts - item.left>>)]
              /\ hand' = IF item.left = 1 THEN <<>>
                                          ELSE << [item EXCEPT !.left = @ - 1] >>
              /\ Then("worker", IF item.left = 1 THEN << "flush" >> ELSE << "sendDirect" >>)
       \/ /\ Then("worker", << "requeue" >>)
          /\ UNCHANGED <<past, hand>>
       \/ /\ Then("worker", << "fireError", "requeue", "storeAbort" >>)
          /\ UNCHANGED <<past, hand>>
    /\ OnlyWire /\ UNCHANGED sendq

\* What was not sent goes back to the front of the queue.
RequeueLast ==
    /\ At("worker", "requeue")
    /\ sendq' = sendq \o hand
    /\ hand' = <<>>
    /\ Then("worker", <<>>)
    /\ OnlyWire /\ UNCHANGED past
Requeue ==
    /\ At("worker", "requeue")
    /\ sendq' = hand \o sendq
    /\ hand' = <<>>
    /\ Then("worker", <<>>)
    /\ OnlyWire /\ UNCHANGED past

\* curl_multi_poll: left out if a close was asked for; it fails, or it returns,
\* perhaps because the wake pipe was written to.
Poll ==
    /\ At("worker", "poll")
    /\ IF conn.abort THEN Then("worker", finish)
       ELSE \/ Then("worker", << "loop" >>)
            \/ Then("worker", << "flush", "loop" >>)
            \/ Then("worker", << "fireError" >> \o finish)
    /\ OnlyTodo

\* The transfer is removed from libcurl.
Cleanup ==
    /\ At("worker", "cleanup")
    /\ conn' = [conn EXCEPT !.running = FALSE]
    /\ Then("worker", <<>>)
    /\ OnlyConn

\* A failed transfer is an error, unless the worker was told to stop; otherwise
\* what nobody reported yet is: a close that was asked for, a handshake that did
\* not come about, or the peer's end of the connection.
ConcludeSilent ==
    /\ At("worker", "conclude")
    /\ Then("worker",
            IF ~conn.abort /\ rc = "failed" THEN << "fireError" >>
            ELSE IF conn.local_close_requested THEN << "local" >>
            ELSE IF ~conn.open_notified THEN <<>>
            ELSE << "remote" >>)
    /\ OnlyTodo
Conclude ==
    /\ At("worker", "conclude")
    /\ Then("worker",
            IF ~conn.abort /\ rc = "failed" THEN << "fireError" >>
            ELSE IF conn.close_called \/ conn.error_reported THEN <<>>
            ELSE IF conn.local_close_requested THEN << "local" >>
            ELSE IF ~conn.open_notified THEN << "fireError" >>
            ELSE << "remote" >>)
    /\ OnlyTodo

Exit ==
    /\ At("worker", "exit")
    /\ conn' = [conn EXCEPT !.state = "Closed"]
    /\ Then("worker", <<>>)
    /\ OnlyConn

-------------------------------------------------------------------------------
(* Reports.                                                                  *)

\* fireError: at most once, but also after a close.
FireError ==
    /\ At("worker", "fireError")
    /\ IF conn.error_reported
         THEN Then("worker", <<>>) /\ UNCHANGED <<conn, past>>
         ELSE /\ conn' = [conn EXCEPT !.error_reported = TRUE, !.close_called = TRUE]
              /\ Logged("error")
              /\ Then("worker", << "callback" >>)
    /\ UNCHANGED <<limit, rc, lifecycle, sendq, hand, rx, peer>>

\* fireClose: not after a close, nor after an error.
FireCloseTwice ==
    \E how \in {"local", "remote"} :
        /\ At("worker", how)
        /\ conn' = [conn EXCEPT !.close_called = TRUE]
        /\ Logged(how)
        /\ Then("worker", << "callback" >>)
        /\ UNCHANGED <<limit, rc, lifecycle, sendq, hand, rx, peer>>
FireClose ==
    \E how \in {"local", "remote"} :
        /\ At("worker", how)
        /\ IF conn.close_called \/ conn.error_reported
             THEN Then("worker", <<>>) /\ UNCHANGED <<conn, past>>
             ELSE /\ conn' = [conn EXCEPT !.close_called = TRUE]
                  /\ Logged(how)
                  /\ Then("worker", << "callback" >>)
        /\ UNCHANGED <<limit, rc, lifecycle, sendq, hand, rx, peer>>

\* A callback of the user: it may do nothing, send, or ask for a close.
Callback(t) ==
    /\ At(t, "callback")
    /\ \/ Then(t, <<>>) /\ UNCHANGED past
       \/ /\ conn.running /\ past.sends < limit.sends
          /\ past' = [past EXCEPT !.sends = @ + 1]
          /\ Then(t, << "push" >>)
       \/ /\ past.closes < limit.closes
          /\ past' = [past EXCEPT !.closes = @ + 1]
          /\ Then(t, asyncClose)
    /\ UNCHANGED <<limit, conn, rc, lifecycle, sendq, hand, rx, peer>>

-------------------------------------------------------------------------------
Step(t) ==
    \/ Push(t) \/ Lock(t) \/ Unlock(t) \/ RequestClose(t) \/ StoreClosing(t)
    \/ StoreAbort(t) \/ Join(t) \/ Settle(t) \/ Callback(t)

WorkerStep ==
    \/ Start \/ Loop \/ PerformReturns \/ Upgraded \/ DataArrives \/ CloseArrives
    \/ Flush \/ SendDirect \/ Requeue \/ Poll \/ Cleanup \/ Conclude \/ Exit
    \/ FireError \/ FireClose

Next ==
    \/ Open \/ Spawn \/ WorkerStep
    \/ \E t \in Callers : Send(t) \/ CloseAsync(t) \/ Close(t)
    \/ \E t \in Threads : Step(t)

Spec == Init /\ [][Next]_vars

\* Threads are scheduled, and libcurl's calls return: curl_multi_poll waits for a
\* second at most.
FairSpec ==
    /\ Spec
    /\ WF_vars(Spawn) /\ WF_vars(WorkerStep)
    /\ \A t \in Threads : WF_vars(Step(t))
===============================================================================
