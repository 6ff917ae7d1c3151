# Verification of BffRtcBase

BffRtcBase is the signalling base of a real-time communication client: it keeps
one connection to a signalling server over a WebSocket (libcurl) or over Quic,
exchanges protobuf messages on it, selects media nodes by measured round trip,
and uploads its logs. This directory holds TLA+ modules translated from the
sources, the TLC configurations that check them, and proofs for TLAPS.

Sources are flat under `src/`; there is no design document, and the one unit test
(`PbCJson_test.cpp`) covers a converter. What the code promises is in its comments
and in its headers; those are what the properties are measured against.

## 1. Inventory

| Component | State it keeps | Operations | Talks to |
|---|---|---|---|
| Signal, connection (`Signal.cpp` 257-873, 990-1011) | `primary_leg`, `has_alt`, `session_open`, `mixed_delay_pending` under `race_mtx`; atomics `user_closed`, `suppress_reconnect`, `reconnect_count`, three generation counters; the pending Leave | connect, disconnect, transport callbacks, Mixed race, reconnect, keepalive | both transports (calls and callbacks), four kinds of detached threads, the application through `onError` |
| Signal, requests (`Signal.cpp` 1106-1237, 1441-1826) | `pending_reqs`, `important_reqs`, `join_all_requested`, `recreating`, cached node round trips | join, recreate, offer, ..., handleReceiveSignalResponse, flushPendingReqs | primary transport, listeners, NodeSelector, HttpClient |
| SignalChannel | peers, joined peers, `joined_`, orientation per peer | applyJoinedPeers, removePeer, setJoined | Signal |
| WebSocket (`WebSocket.cpp`) | `state`, worker thread, `lifecycle_mutex`, send queue, partial frame, `close_called`, `error_reported` | open, send, close, closeAsync, worker loop | libcurl; callbacks into Signal |
| QuicSocket (`QuicSocket.cpp`) | `state`, quic::Socket, receive buffer, status handshake | open, send, close, closeAsync, data handling | quic library; callbacks into Signal |
| NodeSelector, STUN probe | nodes, measured round trips, generation of updates | updateNodes, onNodeList, applyNodeRtts, testBestUrl | sockets, Signal |
| HttpClient | auth token, set of log files in flight | requests, uploadLog, uploadAllLogs | libcurl, FileLogger |
| FileLogger | queue, current file, worker | write, newLog, stop, files, remove | file system |
| Zstd dictionary | dictionary, digest, file | setDict, load, save, encode, decode | file system, libzstd |
| Log, SniUrl, Cert, PbCJson, DateTime, bridges | little or none | conversion, formatting | |

What is hard here is concurrency. The transports call back on threads of their
own; the Signal then closes transports, which means joining those very threads;
and an open may fail, time out, be overtaken by the other transport, or complete
after the application has given up. Most of the state is protected by `race_mtx`,
but in many small critical sections with calls in between, and the flags that
silence callbacks (`suppress_reconnect`, `user_closed`) are atomics that several
functions set and clear around a call. `PROJECT.json` lists each hazard at its line.

What makes each component correct:

* **Connection**: a session held open is on a living transport; the loser of a race
  is closed and the winner kept; a lost connection is retried or reported, never
  forgotten; disconnect brings everything down; threads do not wait for each other
  or for themselves, and no live `std::thread` is overwritten.
* **Requests**: what could not be sent is sent later, once; a recreate is not forgotten;
  measured round trips reach the server on every channel that needs them, once.
* **Channel**: on every connection, all channels join as soon as one has a peer and a node.
* **WebSocket / QuicSocket**: one terminal callback per open, none before the open it
  belongs to; frames are delivered whole and in order whatever the reads; a close
  asked for is always reported.
* **NodeSelector**: the cache is whole whoever wrote it last; a connect waits for the update
  and is answered or dropped; the two ends of a call choose the same node.
* **FileLogger, uploads, dictionary**: a line is in one place, across logs that begin and
  end; no line is uploaded twice at once, nor again after the client saw it taken; a
  crash leaves a whole dictionary.

## 2. Modules

| Module | What it is |
|---|---|
| `LegSocket` | one transport as Signal sees it: a record and the operations on it |
| `Transport` | the contract of one `LegSocket` as a specification: requests, and the order of callbacks |
| `SignalLink` | the connection: every function and thread of it, on two `LegSocket`s |
| `SignalLinkProperties` | types, safety and liveness of the connection |
| `MCSignalLink` | the scenarios TLC explores |
| `SignalLinkProofs` | theorems about `SignalLink`, for every set of scenarios |
| `CurlSocket` | `WebSocket.cpp` in full: its callers, its worker, its queues |
| `CurlSocketProperties` | its properties, and the mapping by which it implements `Transport` |
| `MCCurlSocket` | the bounds TLC explores |
| `CurlSocketProofs` | theorems about `CurlSocket`, for any number of callers, and that it implements `Transport` |
| `VarInt` | the varint of `QuicSocket.cpp`, as functions |
| `QuicSocket` | `QuicSocket.cpp` in full: its calls, the loop of `quic::Socket`, its bytes |
| `QuicSocketProperties` | its properties, and the mapping by which it implements `Transport` |
| `SignalRequests` | what a Signal sends, to whom and when, with the channels' joins |
| `SignalRequestsProperties` | what becomes of a request, of measured round trips, of joins |
| `NodeSelector` | `NodeSelector.cpp`: its threads, its cache, its cancel flag |
| `NodeSelectorProperties` | the cache, the count that connects wait for, the answers |
| `MediaNode` | the two ends of a call and the media node each selects (`FindBestNode`) |
| `MediaNodeProperties` | a reference for the choice, and that the ends meet |
| `LogFiles` | `FileLogger.cpp` with `uploadAllLogs` of `HttpClient.cpp` |
| `LogFilesProperties` | where every line and every file is |
| `QuicSocketProofs`, `SignalRequestsProofs`, `NodeSelectorProofs`, `MediaNodeProofs`, `LogFilesProofs` | theorems about these components, for every value of their constants |
| `SequenceLemmas` | what the proofs share: sequences, finite sets, induction over naturals |
| `MCQuicSocket`, `MCSignalRequests`, `MCNodeSelector`, `MCMediaNode`, `MCLogFiles` | the bounds TLC explores |

### How `SignalLink` reads

`todo[t]` is what thread `t` still has to run. Threads are the application's, the
curl worker, the Quic loop, and the detached ones (`Detached`, a bound on how many are at
work at once): the mixed delay, reconnections, the keepalive, Leave timeouts, in any
mix and also two of one kind. A *step* is one critical section of `race_mtx`, one
access to an atomic, or one call into a transport, and a function is the sequence
of its steps (`closeAllTransports`, `beginConnect`, `failFatal`, ...). Running the
first step puts the steps of what it calls in its place, so that a callback delivered
inside a call (the local close that `WebSocket::close` reports after its join, the
error of a `QuicSocket::open` that fails on the spot) runs where it runs in the code.
Every interleaving of these steps is a behaviour. `Step` picks the kind of a step by its name
first, which changes no behaviour and lets TLC try a quarter of the actions.

* `race`, `retry`, `ping`, `leave` are the members of `Signal::Private` by what guards
  them; `race.holder` is the one place where `race_mtx` is kept across a call
  (`closeAsync` in `startMixedTcpFallback`).
* `lifecycle` is the owner of `WebSocket::lifecycle_mutex`, which `close` keeps while
  it joins.
* A generation counter is a Boolean. A detached thread acts only if the generation it
  captured is current, and each increment either arms a thread or disarms it. A thread
  that has woken up does not look at the counter again: `beginConnect` takes a generation
  of its own (681), another thread in `scheduleReconnect` may arm the next one (854), and
  so a second reconnect thread can wake up while the first is still in `beginConnect`.
* A worker that cannot set up libcurl stores Closed and reports the error afterwards
  (`WebSocket.cpp` 543, 587, 609). These are two steps, `SocketBreaks` and `SocketFails`,
  and a close in between is dropped by `requestClose`, as in the code. After a break the
  model also allows the report to be any other end, which is more than the code does; what
  `requestClose` reads and stores is one step, because a Closing that is stored late,
  over that Closed, changes nothing that anyone looks at.
* `crash` is the reason of a `std::terminate`, after which nothing runs.
* `past` is history: what the application last asked for and was told, and the
  counts behind the bounds.

The classes of outcomes that the code tells apart are kept, their causes are not:
an error is `"security"` (token or TLS; fatal at once), `"timeout"` (fatal unless the
race absorbs it) or `"other"`; a close is local, from the peer, or from the peer with
a token code; a response is `"ok"`, `"leave"` or `"refused"`.

`LegSocket` is external in one part: `quic::Socket` is a submodule whose sources are
not in the repository, so its loop thread is modelled from how `QuicSocket.cpp` uses
it (its destructor joins the loop, callbacks run on the loop).

### How `CurlSocket` reads

It is written the same way: `todo[t]` are the steps thread `t` still has to run, a
step being one access to what other threads see, one section of `send_mutex`, or one
call into libcurl. The threads are the callers and the worker. libcurl is external
and is its outcomes: `curl_multi_perform` makes some callbacks (`Upgraded`,
`DataArrives`, `CloseArrives`) and then returns with nothing to do, an end, or an
error (`PerformReturns`); `curl_ws_send` takes a piece, or none for now, or fails for
good (`SendDirect`).

* `conn` holds the flags of `WebSocket::Private`, `rc` the worker's local result.
  `open` is two steps, because the flags are reset before the thread exists and a
  caller may come between; `requestClose` is three (the state is read, stored, and
  the abort flag is set), because the worker changes the state meanwhile.
* A message and a frame consist of `Parts` pieces. `sendq` holds the items and what is
  left of each, `hand` the item that `flushSendQueue` has taken off the queue, `rx` the
  partial frame.
* `Callback` is the user's: it may do nothing, send, or ask for a close, and it runs
  on the thread that reports, which is the worker or a thread in `close`.
* `past` is history: the requests and reports since `open`, the pieces that went out,
  and what should have.

`IsTransport` maps it to `Transport` by reading the log: a close counts from its
request while the thread is up, the socket is Open after `on_open` and Closing after
a request, and what ended the connection is the first end that was reported (the
second one, an error, is section 5's). So the order of events that `SignalLink`
assumes of a WebSocket is one that `WebSocket.cpp` keeps. `readyState` itself is not
part of the mapping, as `requestClose` stores Closing a moment after it has decided; with one
exception. A worker that could not set up libcurl (`broken`: it has the report to make, and none
of the steps that other workers end with) is a Closed transport, which is the step
`Breaks` of `Transport`: `SignalLink` relies on it, since a close then is dropped.

### How `QuicSocket` reads

The same way, with two threads: the one that calls, and the loop of the `quic::Socket`.
That class is a submodule whose sources are not in the repository, so it is external and
is what `wireCallbacks` and the calls show of it: it opens the stream it was asked for, hands
over bytes in reads of any size, reports errors, and ends every connection with one `onClose`, after
which its loop ends. It is assumed to deliver nothing after an error, nor after `close()` on
its own thread, which may call `onClose` at once; and its destructor joins the loop
(`resetSocket`). The public calls are made by one thread, since two concurrent
`resetSocket` would race on a `unique_ptr`.

* `conn` holds the flags of `QuicSocket::Private`, `rx` the receive buffer, `peer` the bytes
  the peer is going to send and how many were handed over. A stream is a status code
  and frames, as bytes: `VarInt` encodes and decodes them as the code does, in
  one, two, four or eight bytes. TLC's numbers end at 2^31 - 1: every boundary of the
  lengths is below that, but of the eight bytes only the lower four are exercised.
* `past.wire` is what was sent, each item with the bytes of its size.

### How `SignalRequests` reads

Threads are the application's, the loop of the transport, the keepalive thread whose
ping timed out, and the threads of `asyncSort`. The connection is `SignalLink`'s; here it
is open or not, and numbered, and `scheduleReconnect` is the four sections that requests
can fall between: the reset of the join state, `onReconnect` of the listeners, the close of
the transports, and the start of the next connection.

* `"mute"` stands for every request that goes through `requestOrAgain`. Each has a number,
  so that losing it and sending it twice show. Requests that are dropped when they
  cannot be sent have no state, except by the flags they carry (`recreating`,
  `subscribing`) or are marked with (`node_rtts_sent_channels`).
* `flags`, `pending`, `rtts` are the members of `Signal::Private`; `chan` is what
  `applyJoinedPeers` looks at; `selected` is the result of `MediaNode`.
* The listeners are the application's. They are assumed to call `setJoined(false)` in
  `onReconnect`, and to begin with new channels at `connectBestUrl`; without that no channel
  would join twice.

### How `NodeSelector` and `MediaNode` read

The code starts a detached thread per update, sort and connect. Each call is a record
with the name of its next step, where a step is one access to the cache, to
`update_nodes_count_` or to the cancel flag, one probe or one callback. STUN and HTTP are
external: a probe returns answers in some order, a request fails or lists nodes, perhaps
none. A node is the host it is listed as. Some are addresses, others are names (bootstrap
servers), and `toIpPorts` resolves them whenever they are probed: `HostnameToIP` gives the
addresses at which a node may be found, none for a name that is unknown. What answers is
an address. So the cache has both: `nodes` as they were listed, which the hosts of urls and the
next list are compared with, `best` and `info` as they answered.
Faked results name nodes as they are listed. `cache.info` is a set, as a JSON object keeps
no order.

`MediaNode` is `applyNodeRtts` at both ends: each measures, the server passes on the last
report of each, in any order, and each end selects once. Reports differ in order, may
list a node twice, and carry ports or not, which is all `FindBestNode` has to cope with.

### How `LogFiles` reads

A step is what one lock covers, or a file operation outside it. A line is a number, a
message a sequence of lines. A `FILE` is the number of the `newLog` that opened it, and has
the name of its second (`FileLogger.cpp:362`): either a new one, or that of an earlier
`newLog`, any of which may have been in the same second. Two such `FILE`s are one
file, which "w+" empties (372) and which both write to, each from its own offset: a write adds
its lines and may destroy any of the others' (`Into`). Files are listed, claimed, read and removed
by name. What the code leaves undefined is a choice: a write to a `FILE` that another
thread closed is dropped, or goes to the file that is open now. The upload request is external
and ends in one of three ways: taken, and the client saw it; taken, but the answer was
lost, came too late or was no success (`"unseen"`: the file stays and is uploaded again);
or refused. `past.lost` collects the lines that were dropped, overwritten, or in a file when it
was emptied or removed without being in what was uploaded of it.

## 3. Runs

| Run | Scenarios | Shows |
|---|---|---|
| `single_link` | Curl and Quic alone: a disconnect with two attempts, or with an answer; three attempts with an answer | types; nothing is abandoned; a close is dropped only where nothing comes of it; one joiner; attempts settle unless they overlap, disconnect drains |
| `mixed_link` | Mixed, delay 0 and 1: with a disconnect; with an answer; with a second attempt | an open session is live and watched; suppression of reconnects is told; one winner; no transport is orphaned by disconnect |
| `curl_socket` | two callers and the callbacks: two closes over two connections; a close, a message and a frame over two connections; two messages and a frame | every piece queued is sent once and in order; frames are delivered whole; every end of the worker is reported; `on_close` comes once; a close takes the worker down; the socket is a `Transport` |
| `quic_socket` | a caller and the callbacks: two connections with a close; two closes; a close and a message; over two streams, split anywhere | frames are delivered whole, in order and at once; the marker and the parameters go first, sizes are read back; the socket can be opened again; a close ends it; it is a `Transport` |
| `signal_requests` | two channels, two measuring threads; seven mixes of mutes, losses, ping timeouts, Joined responses, results and calls over two connections | a request that is tried again is in one place; results are told once per channel; channels join again after a loss; a recreate is carried |
| `node_selector` | overlapping updates; connects, an update and a cancel; node lists and a connect; a preferred server; a given signaling server; lists with a name in them, and empty ones | the cache is whole; the last report names nodes, unless its list had none; the count settles; a connect waits for its update; connects are answered |
| `media_node` | every pair of reports of at most two entries over two nodes and two round trips, with and without a preferred server | a node of least loss; the same node; and a node if they share one |
| `log_files` | two threads: three lines around two logs; two uploads with a line and a log, or two logs; logs of one second or two; every outcome of an upload | lines are in one place until lost or uploaded; no line goes to the server again but after an unseen upload; every call reports |
| `worker_deadlock`, `self_join`, `lost_disconnect`, `rejoins` | the smallest scenario that shows it | section 5 |

**Bounds.** In `SignalLink`, `maxConnects = 1`, `maxDisconnects <= 1`, `maxAttempts <= 3`,
`maxAnswers <= 1`, `ReconnectMaxTimes = 1`, two detached threads. Two attempts are what a
reconnection needs, and one reconnection is enough for everything that crosses from one connection
to the next, because `beginConnect` resets what it uses; three attempts and two detached threads
are what it takes for two `beginConnect` to overlap. With `ReconnectMaxTimes = 1`
both outcomes of `scheduleReconnect` occur. Answers matter by what they do to the
connection (feed the ping timeout, close, refuse), each of which one answer shows.
The scenarios are each small in one direction, since the product is out of reach;
`MixedLink.cfg`, which checks no liveness, uses the symmetry of the detached threads. Deadlock is
not checked, because the system comes to rest (the bounds are used up, everything is closed); the
deadlock it really has is stated as the invariant `SafeFromWorker`.

In `CurlSocket`, `Parts = 2` is the least that can be sent or delivered in part. Two
closes are what can meet (a third would wait for the same mutex), two messages can
overtake each other, and two connections are what can leak from one to the next. An
`on_open`, a close of each kind and an error are not bounded.

In `QuicSocket` the streams have a status code of two bytes, lengths of one and of two
bytes, and an empty frame; every way to cut them into reads is explored, so every boundary is
met. The sizes sent are both sides of each width of the varint.

In `SignalRequests` each limit is about some of the calls, since the product is out of reach:
`MCLimits` names them. Two connections are what a reconnection needs; two channels what
tells "one channel" from "every channel"; two results what can overtake each other.

In `NodeSelector` two of each call are what can overlap, two nodes what tells best from
other: an address, which is the host to connect to, and a name with an address that is on no list. The
lists are both nodes, the name alone, which is another environment, and none. In `MediaNode` two entries are what
can be in a different order, or the same node twice. In `LogFiles` two logs are what a
`newLog` closes and opens and what share a second, and two uploads what can claim one file,
at once or one after the other.

`SessionIsLive`, `Watched` and `SuppressedOnlyWhenTold` run on the Mixed scenarios, which
include a reconnection; types, the properties of the transports and liveness run on the
single ones.

**Fairness** (`single_link`): threads with steps to run are scheduled; sleeping
threads wake; a handshake ends within `connectTimeout` (`CURLOPT_CONNECTTIMEOUT_MS`
and the timeout of the quic client); a requested close completes (`xferinfo_cb` and
the worker loop look at the abort flag at every wakeup); a thread that has made its
terminal callback ends. Nothing is assumed of the server, the peer or the application:
no answer has to come and no connection has to succeed. `PingTimeout` has no fairness
either, since the server may keep answering. Both liveness properties except `~SafeFromWorker`,
the deadlock of `worker_deadlock`, from which nothing follows; `AttemptsSettle` excepts
`Overlap` too, behaviours in which two threads are in `beginConnect` at once, as it is
false for them (section 5).

`curl_socket`: threads are scheduled and libcurl's calls return (`curl_multi_poll` waits a
second at most, or until the wake pipe is written). The peer may send nothing, and its
frames are bounded, so a worker can go round its loop for ever; `CloseEnds` says that
a close stops it. Its one exception is `Stuck`, the deadlock of `worker_deadlock`.

`quic_socket`: both threads are scheduled, and the library ends a connection that was asked to
close or that failed; nothing is assumed of the peer. `node_selector`: threads run, so that
probes and requests end (both have timeouts), and a condition variable waits two seconds
at most. `media_node`: the server delivers its last reports. `log_files`: threads run, and an
upload ends, in one of its three ways. `signal_requests` states safety only.

**First attempt.** Of a Mixed connection, `SessionIsLive` and `OneWinner` speak of the first
attempt only (`FirstRace`), and `NoOrphan` does so of every connection. The delay thread or a
callback can be stalled between two sections of the TCP fallback (`OpenAlt`,
`EnterRace`, `Promote`) while the reconnect thread runs a whole `beginConnect`; its
remaining sections then act on the new attempt. For Curl and Quic alone there is no such
restriction.

## 4. Proofs

Each `...Proofs` module proves properties of a component's `Spec` for every value of its
constants, from the assumption that its component module names (`LinkAssumption`,
`CurlAssumption`, ...) and no other. `SequenceLemmas` holds what they share: finite
sets as sequences, one element of a sequence replaced, and induction over naturals stated
with a set (`NatSets`: a set of naturals with 0 and each successor is all of them), because
the library's rule takes an operator, which the provers cannot instantiate.

Three things recur. The invariants speak of the *steps that a thread still has to run*:
what is true "between" two sections of a function is true while the second one is in
`todo`. An action is not taken apart for each conjunct; it is first shown to be one of a
few kinds (what it puts in place of its step, what it does to the log), and the invariant is
preserved by the kinds. And a refinement is proved along the kinds too: each maps to a step of
the abstract specification or to none.

| Theorem | Statement |
|---|---|
| `SignalLinkProofs` `TypeCorrect`, `OneJoinerCorrect`, `NoLostCloseCorrect` | types; one joiner of the curl worker; a close is dropped only by a transport that reported its end or is about to fail |
| `SignalLinkProofs` `SuppressedOnlyWhenToldCorrect`, `WatchedCorrect`, `SessionIsLiveCorrect`, `NoOrphanCorrect` | at rest: suppressed only when told; an open session is watched, and live; no transport is up after a disconnect |
| `SignalLinkProofs` `OneWinnerCorrect` | first open wins: at rest the loser of the race is down, asked to close, or still racing |
| `SignalLinkProofs` `NeverAbandonedCorrect` | over one transport, an application that wants the connection is never left alone |
| `CurlSocketProofs` `TypeCorrect`, `OneCloseCorrect`, `EndIsReportedCorrect`, `DeliveredWholeCorrect`, `WireInOrderCorrect` | types; `on_close` once and never after `on_error`; a worker that ended has reported; frames whole and in order; what is sent is what was queued |
| `CurlSocketProofs` `TransportCorrect` | `CurlSocket` implements `Transport` |
| `QuicSocketProofs` `TransportCorrect` | `QuicSocket` implements `Transport` |
| `QuicSocketProofs` `TypeCorrect`, `CanReopenCorrect`, `HeadFirstCorrect`, `DeliversFramesCorrect` | types; a socket at rest can be opened again; the head goes first and sizes are read back; frames whole, in order and at once |
| `SignalRequestsProofs` `TypeCorrect`, `RecreateCarriedCorrect`, `AgainOnceCorrect`, `RttsToldCorrect`, `RejoinsAfterLossCorrect` | types; a recreate is carried; a request tried again is in one place; round trips are told once; channels join after a loss |
| `NodeSelectorProofs` `CacheWholeCorrect`, `CanJoinCorrect` | the cached best address is a measured one, and those are addresses of the cached nodes; the last report names nodes, unless it is of an empty list |
| `NodeSelectorProofs` `CountSettlesCorrect`, `WaitsForUpdateCorrect` | a count is left only by a sort that overtook its update; a patient connect reads what its update brought |
| `MediaNodeProofs` `LeastLossCorrect`, `MeetCorrect` | `FindBestNode` finds a node of least loss; the two ends select the same |
| `LogFilesProofs` `AcceptedOnceCorrect`, `LinesOnceCorrect` | no line is uploaded twice at once, or again after the client saw it taken; a line is in one place until lost or uploaded, and lost only by a second log or an upload |

**`SignalLinkProofs`.** `TypeOK` is `TodoOK` (threads run only steps of the modelled
functions) and `DataOK` (all other variables). `TodoOK` is proved through `Plain`: a step of
a thread is "these steps in place of the first", and all actions but the three of a join
put plain steps there. The lemmas `PlainClose`, `PlainConnect`, `PlainCallback`, `PlainRetry` and
`PlainStarts` say so once per group of actions and serve the next theorem too. `OneJoiner` is not
inductive: a thread that releases the mutex might have another join behind it. The
strengthening `JoinInv` says where in `todo` joining steps may be: only at the head, or
second behind the callback that the join itself delivers, and only of the owner.
`NoLostClose` becomes inductive local to a socket (`Heeds`): every operation of `LegSocket` and every
transition of a transport keeps it, so a step of a thread replaces one socket by one that
heeds, or none. Which of the detached threads does what is nowhere fixed: an invariant that speaks of
the thread on the way somewhere speaks of one of `Detached`.

The properties of a Signal at rest each need to say what the functions that are suspended
meanwhile still owe. The invariants say it by the steps that are in `todo`:

* `PairsInv`: the steps of `Follows` come in pairs (`beginConnect` has its `unsuppress` after it,
  `failFatal` its `report`, `reconnecting` its `resume`, `openAlt` its `enterRace`, ...), and no
  interleaving takes the second of a pair away. `OrderInv` says where in `todo` the sections of
  an attempt may be.
* `SuppressedOnlyWhenTold` is `SuppressInv`: while reconnection is suppressed and the application was
  not told, a step that clears it or reports is pending. `Watched` is `WatchInv`: while an open session that
  is neither suppressed nor closed by the user has no keepalive thread, a step of `Watchers` is pending, one that
  starts the thread or ends the session.
* `SessionIsLive` takes several. `SockInv`: the thread of a socket that has steps left is alive, and a
  dead socket is Closed and not `Live`. `CallbackInv`: `opened` and `declareWinner` are only ever the next
  step of their leg's own thread, while the leg is `Live`. `PromoteInv`: only a Mixed connection promotes.
  `YoungInv`: until the first leg is opened only the application's thread runs, no transport lives and
  no thread is armed. `TokenInv`: in the first Mixed attempt the quic leg fails once; before it has
  reported its end no failure of it and no promotion is pending, and afterwards one at most.
  With these `SessionInv` is inductive (`Carried`): an open session is on a live transport, or what
  ends it, or hands it to the TCP leg, is pending. `FirstRace` is needed (section 3), and `crash = "none"`
  too: with two overlapping attempts `WebSocket::open` may overwrite a running `std::thread`, which
  ends the program with the session still marked as open.
* `OneWinner` adds the first race itself. `EntryInv`: until the first leg is opened there is no session and no
  race, and a Mixed connection opens the quic leg first. `EarlyInv` describes the race from there
  until the quic leg is opened in the Signal too, reports its end, or loses, or a disconnect: one thread at a time is on the
  way to the TCP leg and what it still has to do is one of five sequences (`Starting`, `Chain`), nobody
  else does anything (`Bystanders`), and the TCP leg opens the session from within the race only; when it runs
  and is not in the race, the thread that opened it is about to enter it (`Contending`). The proof goes
  actor by actor (`EarlyStarter`, `EarlyQuic`, `EarlyCurl`, `EarlyStart`). Then the loser is dealt with in each
  of its three forms: `TcpLoserInv`, the quic leg carries the session, and a running TCP leg outside of the
  race is being closed, or is about to enter the race and to be closed there; `QuicLoserInv`, the
  TCP leg has taken over, and a quic leg that runs is being closed; `OtherInv`, without Mixed the other leg
  never runs. The induction for `TcpLoserInv` rests on `EarlyInv` where the quic leg opens, that for `QuicLoserInv` on
  `TokenInv` where the TCP leg is promoted.
* `NoOrphan` is `OrphanInv`, from `SoloInv` (in the first attempt only the application's thread opens a
  primary leg) and `DownInv` (after a disconnect `user_closed` stays and no opening is pending): a transport that is usable although the application disconnected has
  its close pending, for a leg that is being opened in the function that opened it.
* `NeverAbandoned` over one transport. `SoleInv`: without Mixed nothing of a race happens. `ChosenInv`:
  who opens a leg has just chosen it. `ClosedInv`: a `QuicSocket` is Closed before it reports, so
  that an open that is refused finds one that lives. `WantedInv`: while the connection is wanted,
  `user_closed` is about to be cleared. With these `HopeInv` is inductive: the application was told,
  or a reconnect thread waits, or one of the steps that open, report or retry is pending, or the
  transport lives, or its end is being dealt with. No bound on attempts or disconnects is needed.

**`CurlSocketProofs`.** The invariant is `Control /\ Records /\ Flow /\ InHand /\ Frames /\ ...`:

* `Control`: which steps may follow which (`After`), what replaces a step (`Becomes`), and which
  steps need `lifecycle_mutex` (`Locked`). It is what makes `TypeOK` inductive: `settle` runs
  only behind `join`, a thread that closes inside the callback of its own `close` waits for
  itself and so never gets further.
* `Flow`: `Life` (a worker with steps left comes to report, or has), `Log` (the flags and the log
  say the same, which `OneClose` and `EndIsReported` need), `Quiet` (no handshake completes
  after an end was reported), `Requested` (a local close that may still be reported was asked
  for in this connection), `Closers` (what a thread in `close` finds when another one opens).
* `InHand` and `Delivered`: what `flushSendQueue` took off the queue, and the pieces of a frame that has
  begun to arrive; `DeliveredWhole` follows piece by piece.
* `WireInOrder` is inductive with these: a step moves pieces between the queue, the hand and the
  wire in one of the ways `Moves` lists, and each leaves the three, read in that order, as they
  were. `EmptyHand` and `SettledHand` say why nothing is in the hand when `flushSendQueue` takes an
  item, when `close` drops the queue and when `open` counts anew. What `FlattenSeq` does with
  one sequence more, at either end, is a lemma of `SequenceLemmas` (`Flattened`).

`TransportCorrect` is the step-by-step refinement. Each action is one of six `Kinds` (`Stutters`,
`Leaves`, `Joins`, `Tells`, `Settles`, `Opens`), and each kind maps to a step of `Transport` or to a
stutter, by four lemmas about the log: the last mark and the first end are what the mapping
reads, so appending an event changes `sock` and `heard` as `Transport` says. `Quiet`, `Log` and
`Requested` are what the guards `MayOpen`, `MayBeClosed` and `MayStop` ask for. `Severed` is about a
worker that is `broken`: it has not opened and will not, so that Closed is what the mapping
must show until it ends, and a request that `requestClose` drops is none in the log.

**`QuicSocketProofs`.** `Control` as before; `Flow` is `Lives` (the loop is up while it has events to wait for, and
the application waits for it before it settles), `Closes` (a connection that was reported closed
hands over nothing, or is about to be told so, whence `CanReopen`), and `Wired` (the marker and the
parameters come first, whence `HeadFirst`). The second half of `HeadFirst` is about the varint:
`PutWide` and `GetUVarInt` are inverse at each of the four lengths and `GetUVarInt` wants every byte,
which is arithmetic on division by 256, by induction over the bytes. The lemma serves
`DeliversFrames`: `Feed` says that the buffer is the part of the stream between what was parsed and
what has come, `Reading` that the next turn of `handleDataFramesLocked` takes off exactly one part,
and `Data = Fed /\ Tended` that nothing whole is left when no turn is due. `QuicAssumption` states
what a peer is: parts whose length fits the bytes it is written in (`Holds`) and says how long the
payload is. A peer that sends less than it announced is a prefix of such a stream.

`TransportCorrect` needs `Story`, which relates the flags to the log: a flag is set exactly when its
callback is in the log, an open that has begun can be joined and goes on until the loop is up or
the end was reported, and a close on its way to be reported as a local one was asked for. `StoryNext`
shows that each action keeps it and is one of six `Kinds` (`Falls` and `Begun` are the loop's end and
a new open); the rest is as for `CurlSocket`. It takes `Data` as well: only what was read before says
that `on_open` cannot come twice. The loop's actions that report nothing are dealt with together
(`StepsMildly`, `LoopMildly`).

**`SignalRequestsProofs`.** `Carried`: while a recreate is owed the flag is set and no step that
is left to run clears it. `Apart`: each numbered request is in a step, in the queue or in
the history, and there once; `AgainOnce` alone says nothing of requests on their way.
`RttsApart` and `Told`: a send of round trips is one step and its channel is marked; a marked channel
was served or is about to be, one that has to be is marked or will be looked at. `Rejoining`: a
connection opens with nothing latched, and what is latched then stands for joins that were
sent on it or will be. `past.sent`, the requests with the number of their connection, exists
for these.

**`NodeSelectorProofs`.** `Caches`, `Sorts` and `Lists` carry `CacheWhole` through what each thread
has read and not yet written; `WillReport` (while nothing was reported, somebody will),
`WillSettle` (while the count is not 0, somebody is left who clears it) and `OneUpdate` (with a
single update: one sort, and the count stands until it is over) are the other three.
A measurement that is saved consists of addresses of its own list (`Sorts`), whatever the names in it
resolved to. `NodeAssumption` asks for finite node lists, which a JSON array is, and allows empty ones.

**`MediaNodeProofs`.** The invariant is `Types /\ Chosen`: what a client selected is what
`FindBestNode` gave for the two reports it remembers. The rest is about that function, whose loop
removes entries of the peer's report as it goes. `Left` says what is left after k turns: exactly the
entries whose rank, among those of their node, the loop has not met, in their order; `Priced` says
that the map of losses has the cost of each pair met and nothing else. Both are shown turn by
turn, by induction with `NatSets` over the unfolded recursion (`Turns`), from lemmas that count
entries of a node (`Counting`, `Rising`, `Reaches`, `Ranks`). So `FindsLeast`: the choice is the
reference's, which knows of no removal. `Meet` needs that the reference does not care whose report
is whose (`CheapestEither`). `MediaAssumption` asks for finitely many clients.

**`LogFilesProofs`.** `Placed` says where every line is, in three parts. `DiskApart`: a line in a file is in
one that exists, was written there once, and is neither lost nor uploaded. `LinesApart`: the lines that
are in no file and not gone either (`there`) are in one box each, `content` being a function from boxes (a
thread's hands, a message of the queue, `pendingLogs`) to sequences; a step moves what one box
holds to the end of another, renames boxes or empties one, and the lemmas about `Once` say
that each of these keeps every line where it is. `Sent`: what an upload carries is still
in its file or lost, and no two uploads on their way, or taken, have a line in common. This is what
`AcceptedOnce` needs, together with `Claimed`: a claim is in `uploadingPaths` and is the only one of its
file. What a write destroys and a "w+" empties moves from the files to `past.lost` (`Shift`).
`Early` covers the time before a second log or an upload, when every write finds its own file open and
nothing is lost.

**Model-checked only.** Liveness and ENABLED, which the prover does not treat. Every safety property
of the runs is stated by a theorem, with one exception: `NeverAbandoned` of a Mixed connection is
no theorem because it is false (`AbandonedRace.cfg`).

## 5. Where the code and its comments disagree

Each is a run that TLC ends with a violation; the trace is the interleaving.

* `worker_deadlock` (`WebSocket.cpp:484`). `closeAsync` is "safe from the worker
  thread" (`WebSocket.h:109`), but takes the mutex that `close` holds while it joins.
* `self_join` (`Signal.cpp:638`). `closeSocketAfterDisconnect` joins, and is called on
  the transport's thread when a response ends the disconnect; "join=true only from
  the app thread" (`Signal.cpp:270`).
* `lost_disconnect` (`Signal.cpp:689`). `beginConnect` clears `user_closed` after its
  caller checked it; a disconnect in between is forgotten.
* `rejoins` (`Signal.cpp:835`). `scheduleReconnect` resets the join state before it closes the
  transports. After a ping timeout it does so on the keepalive thread, while the old
  transport's loop may handle a Joined in between, which sets `joined_` and
  `join_all_requested` again; the end of that transport is not heard, as
  `suppress_reconnect` is set. The next connection joins nothing, though "Ping/transport
  reconnect must re-join" (`Signal.cpp:804`). After a loss the reset runs on the loop itself,
  and `RejoinsAfterLoss` holds.

Four more configurations stand beside the listed runs; TLC ends each with a violation too.

* `OverwrittenThread.cfg` (`MCSignalLink`, `JoinedBeforeOpen`; `Signal.cpp:394`). The TCP leg is
  opened between two sections of `race_mtx`; a Quic failure in between opens it again, over a
  joinable thread.
* `AbandonedRace.cfg` (`MCSignalLink`, `NeverAbandoned`; `Signal.cpp:401`). A TCP leg that fails
  before it is entered in the race is entered afterwards: the race waits for a transport
  that is gone.
* `UnusedConnection.cfg` (`MCSignalLink`, `OpenIsUsed`; `Signal.cpp:681`). A reconnection is armed
  while the thread of the last one is still in `beginConnect`, and wakes up. The first thread
  opens the `QuicSocket`, which completes; the second, its closes behind it, clears `session_open`, and
  `QuicSocket::open` refuses as the socket is open. The connection stays up without a session: its
  answers, which would feed the ping timeout, are dropped, no keepalive watches it, and nothing
  connects again. "App thread only" says the comment on `beginConnect` (678), which the reconnect
  thread calls all the same (871).
* `ErrorAfterClose.cfg` (`MCCurlSocket`, `OneEnd`; `WebSocket.cpp:342`). `fireError` looks at
  `error_reported` but not at `close_called`: an error of libcurl after the peer's CLOSE frame is
  reported after `on_close`, though "didFailWithError and didCloseWithCode are mutually
  exclusive" (`WebSocket.cpp:345`).

Also seen, without a run: two threads in `scheduleReconnect` can exceed
`reconnectMaxTimes` by one each, since the count is compared and incremented in two
steps; and a handshake that completes after `failFatal` opens a session the
application was told had failed; `close` on a socket that was never opened reports while
it holds `lifecycle_mutex`, so an `on_close` that closes again waits for itself; a message
accepted just before the end of a connection is sent on the next one.

In the requests: `join` for all channels while disconnected sets `join_all_requested`, and the
next connection then joins none (`past.hasty`); a recreate called while a join is being
sent is cleared by the success of that join (`past.raced`); `subscribe` sets its flag after the
send, so that a join in between carries the old one; round trips that were told are not
told again on the connection that `scheduleReconnect` begins.

In the selector: an empty measurement of `onNodeList` is cached with the best node of an
earlier list, and a partial one replaces a full one; an empty list, which `onNodeList` and
`updateNodes` accept, is reported as an empty measurement, so that the client cannot take part in the choice
although the fake results are there for that (`past.bare`), and leaves `cache.nodes` empty next
to an old best node, so that the next connect skips the check of the environment
(`NodeSelector.cpp:376`) and goes to that node; the count stays above zero when a
sort ends before the completion of its own update (`past.overtaken`), and every later connect then
waits its two seconds; `extraServers` points into the caller's frame until the response comes.

In the logs: two `newLog` of one second open and empty one file, and lines already written are
lost (`FileLogger.cpp:362`); an upload that the server took and whose answer did not come through
counts as failed, so that the server gets the log again (`HttpClient.cpp:718`); the line the worker has taken off the queue is not in the upload that `stop`
begins; a `newLog` between `stop` and `files` has the log it just opened uploaded and removed;
a file that another call uploads and removes after it was listed counts as failed.

## 6. What is left out

* In `SignalLink`, `WebSocket::open` is one step and a transport reports once per open; no
  more detached threads are at work at once than the bound has; what else the worker may do is `CurlSocket`'s.
* `WebSocket::open` does not take `lifecycle_mutex`: the reset of its flags, and its
  assignment to the `std::thread`, can race with the end of a concurrent `close`. In
  `CurlSocket`, `Open` waits until the mutex is free and the last thread is joined, as
  Signal's calls are ordered.
* The wake pipe and timeouts of `curl_multi_poll`: a poll returns at any time.
* `SignalLink` and `SignalRequests` meet by their interface only (a connection opens, ends,
  is closed): their product is out of TLC's reach.
* `send_request_fn`, the application's own channel used when no transport runs; the refusal of
  important requests; the contents of negotiation and media messages; pings other than the
  timeout; names and orientation of peers, and `removePeer`.
* Data races proper: `important_reqs`, `recreating`, `disconnect_leave_req_id` and the `unique_ptr` of
  `resetSocket` are read and written by several threads without a lock. Each access is a step here.
* STUN packets and the ports of nodes in `NodeSelector`; the clock offset; `kDictFileName` and the rest
  of the dictionary cache; the meta file and the retention of logs, and changes of their directory; compression of uploads.
* A second `connect` by the application.
* The destructors.

Out of scope for good: conversions and formatting (`PbCJson`, `DateTime`, `SniUrl`), the
platform bridges, vendored and generated code.

The dictionary cache (`ZstdCodec.cpp` 172-209: write to one temporary file, rename) is the one
part with a hazard that no module covers; it has a crash between its steps and no other actor
than a second save.

Most of the lines under `src/` are not this program's: `json.hpp`, libev, the generated
protobuf code and its library, `restincurl.h`, `jmi.h` and the root certificates make up more than
four fifths of them. Nothing of these is modelled.

## 7. What could follow

The model is as wide as planned, and every safety property that the runs check is proved. The race
properties are about the first attempt (section 3): a repair of `startMixedTcpFallback` and
`beginConnect`, which would give the TCP fallback a generation of its own, could be modelled as a variant of
`SignalLink`, checked for all attempts, and proved along the same lines.
