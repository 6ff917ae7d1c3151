---------------------------- MODULE SignalRequests -----------------------------
(***************************************************************************)
(* The requests of a Signal (Signal.cpp: connectBestUrl, join, recreate,   *)
(* subscribe, mute, nodeRtts, sendRequest, requestOrAgain,                 *)
(* flushPendingReqs, disconnect), what the responses do to them            *)
(* (handleReceiveSignalResponse, Joined) and the channels they are for     *)
(* (SignalChannel::applyJoinedPeers).  Threads: the application, the loop  *)
(* of the transport, the watchdog whose ping timed out, and the threads    *)
(* that bring a measured list of nodes.                                    *)
(*                                                                         *)
(* todo[t] is what thread t still has to run: a step is a tuple of a name  *)
(* and its arguments, and runs as one action.  "mute" stands for every     *)
(* request that is tried again (mute, negotiation, selectChannel); those   *)
(* that are dropped when they cannot be sent change nothing here.  The     *)
(* connection itself is SignalLink's: here it is open or not, and numbered.*)
(***************************************************************************)
EXTENDS Integers, FiniteSets, SequencesExt

CONSTANTS
    Channels,   \* the channels that have a listener
    Sorters,    \* the threads of asyncSort
    Values,     \* the round trips that can be measured, up to their order
    Limits      \* bounds: the limits to consider

LimitSet ==
    [connections : Nat, \* connections that open
     losses      : Nat, \* connections that the transport loses
     timeouts    : Nat, \* ping timeouts
     joined      : Nat, \* Joined responses
     results     : Nat, \* lists that were measured
     mutes       : Nat, \* requests that are tried again
     calls       : Nat] \* other calls of the application

ASSUME RequestsAssumption ==
    /\ Limits \subseteq LimitSet
    /\ IsFiniteSet(Channels) /\ 0 \notin Values
    /\ Sorters \cap {"app", "loop", "watch"} = {}

Threads == {"app", "loop", "watch"} \cup Sorters

VARIABLES
    limit,      \* never changes
    link,       \* open; n, its number; ending, its loop has yet to report its end; next,
                \* beginConnect is to come; suppress_reconnect; user_closed
    todo,       \* per thread, the steps it still has to run
    flags,      \* join_all_requested, join_requested, auto_media_join, recreating,
                \* subscribing
    pending,    \* pending_reqs
    rtts,       \* node_rtts (0 if empty), its number, node_rtts_sent_channels,
                \* legacy_node_rtts_channels
    chan,       \* per channel, the number of peers and joined_
    selected,   \* nodeSelected()
    past        \* history: sent, the requests that were sent, each with its connection;
                \* twice, if one was sent twice; cleared, the mutes that disconnect
                \* dropped; stored, the connection node_rtts came on; ready, the last
                \* connection on which a channel could join; owed, a recreate is still to
                \* be told; raced, it came while a join was sent; hasty, all were joined
                \* with no connection; and counts

vars == <<limit, link, todo, flags, pending, rtts, chan, selected, past>>

OnlyFlags == UNCHANGED <<limit, link, pending, rtts, chan, selected, past>>
OnlyRtts == UNCHANGED <<limit, link, flags, pending, chan, selected>>
OnlyPast == UNCHANGED <<limit, link, flags, pending, rtts, chan, selected>>

Init ==
    /\ limit \in Limits
    /\ link = [open |-> FALSE, n |-> 0, ending |-> FALSE, next |-> TRUE, suppress |-> FALSE,
               user_closed |-> FALSE]
    /\ todo = [t \in Threads |-> <<>>]
    /\ flags = [joinAll |-> FALSE, join |-> FALSE, auto |-> TRUE, recreating |-> FALSE,
                subscribing |-> FALSE]
    /\ pending = <<>>
    /\ rtts = [value |-> 0, nr |-> 0, sent |-> {}, legacy |-> {}]
    /\ chan = [c \in Channels |-> [peers |-> 1, joined |-> FALSE]]
    /\ selected = FALSE
    /\ past = [sent |-> {}, twice |-> FALSE, cleared |-> {}, stored |-> 0, ready |-> 0,
               owed |-> FALSE, raced |-> FALSE, hasty |-> FALSE,
               joined |-> 0, results |-> 0, stores |-> 0, losses |-> 0, timeouts |-> 0,
               mutes |-> 0, calls |-> 0]

-------------------------------------------------------------------------------
\* The next step of thread t is a name: its arguments from the second on.
At(t, name) == todo[t] # <<>> /\ Head(todo[t])[1] = name
arg(t) == Head(todo[t])[2]

Then(t, steps) == todo' = [todo EXCEPT ![t] = steps \o Tail(@)]

Starts(t, steps) == todo[t] = <<>> /\ todo' = [todo EXCEPT ![t] = steps]

Called == past.calls < limit.calls /\ past' = [past EXCEPT !.calls = @ + 1]

\* A step of its own for every channel.
ForAll(name) == LET cs == SetToSeq(Channels) IN [i \in DOMAIN cs |-> << name, cs[i] >>]

Request(kind, c, nr, recreating) ==
    [kind |-> kind, channel |-> c, nr |-> nr, recreating |-> recreating,
     subscribing |-> flags.subscribing]

-------------------------------------------------------------------------------
(* sendRequest, requestOrAgain and flushPendingReqs.                         *)

\* It is sent if the transport is open; the flags are read again afterwards.
Send(t) ==
    /\ At(t, "send")
    /\ LET r == arg(t)
           same == {s \in past.sent : s.kind = r.kind /\ s.nr = r.nr /\ s.channel = r.channel}
       IN  IF link.open
             THEN /\ past' = [past EXCEPT
                         !.sent = @ \cup {[n |-> link.n, kind |-> r.kind,
                                           channel |-> r.channel, nr |-> r.nr]},
                         !.twice = @ \/ (r.kind \in {"mute", "rtts"} /\ same # {}),
                         !.owed = @ /\ ~r.recreating]
                  /\ Then(t, IF r.kind \in {"join", "recreate"} THEN << <<"note">> >>
                                                                ELSE <<>>)
             ELSE /\ Then(t, IF r.kind = "mute" THEN << <<"again", r>> >> ELSE <<>>)
                  /\ UNCHANGED past
    /\ OnlyPast

\* A join or recreate was sent, whether it carried recreating or not.
Note(t) ==
    /\ At(t, "note")
    /\ flags' = [flags EXCEPT !.recreating = FALSE]
    /\ Then(t, <<>>)
    /\ OnlyFlags

Again(t) ==
    /\ At(t, "again")
    /\ pending' = Append(pending, arg(t))
    /\ Then(t, <<>>)
    /\ UNCHANGED <<limit, link, flags, rtts, chan, selected, past>>

FlushCopy(t) ==
    /\ At(t, "flush")
    /\ Then(t, [i \in DOMAIN pending |-> <<"send", pending[i]>>])
    /\ UNCHANGED <<limit, link, flags, pending, rtts, chan, selected, past>>
Flush(t) ==
    /\ At(t, "flush")
    /\ pending' = <<>>
    /\ Then(t, [i \in DOMAIN pending |-> <<"send", pending[i]>>])
    /\ UNCHANGED <<limit, link, flags, rtts, chan, selected, past>>

-------------------------------------------------------------------------------
(* The calls of the application.                                             *)

Mute(c) ==
    /\ past.mutes < limit.mutes
    /\ past' = [past EXCEPT !.mutes = @ + 1]
    /\ Starts("app", << <<"send", Request("mute", c, past.mutes + 1, FALSE)>> >>)
    /\ OnlyPast

\* A thread is at sendRequest with a join.
joinSent ==
    \E t \in Threads \ {"app"} : At(t, "note") \/ (At(t, "send") /\ arg(t).kind = "join")

\* The flag is set before the request is sent.
Recreate(c) ==
    /\ past.calls < limit.calls
    /\ past' = [past EXCEPT !.calls = @ + 1, !.owed = TRUE, !.raced = @ \/ joinSent]
    /\ flags' = [flags EXCEPT !.recreating = TRUE]
    /\ Starts("app", << <<"send", Request("recreate", c, 0, TRUE)>> >>)
    /\ UNCHANGED <<limit, link, pending, rtts, chan, selected>>

\* The flag is set after the request was sent, or was not.
Subscribe(c) ==
    /\ Called
    /\ \E on \in BOOLEAN :
           Starts("app", << <<"send", Request("subscribe", c, 0, FALSE)>>,
                            <<"subscribed", on>> >>)
    /\ OnlyPast

Subscribed ==
    /\ At("app", "subscribed")
    /\ flags' = [flags EXCEPT !.subscribing = arg("app")]
    /\ Then("app", <<>>)
    /\ OnlyFlags

\* join of one channel, or of all.
Join ==
    /\ Called
    /\ \/ Starts("app", << <<"joinAll">> >>)
       \/ \E c \in Channels : Starts("app", << <<"sendJoin", c>> >>)
    /\ OnlyPast

SendJoinPlain(t) ==
    /\ At(t, "sendJoin")
    /\ flags' = [flags EXCEPT !.join = TRUE]
    /\ Then(t, << <<"send", Request("join", arg(t), 0, FALSE)>> >>)
    /\ OnlyFlags
SendJoin(t) ==
    /\ At(t, "sendJoin")
    /\ flags' = [flags EXCEPT !.join = TRUE]
    /\ Then(t, << <<"send", Request("join", arg(t), 0, flags.recreating)>> >>)
    /\ OnlyFlags

JoinAllChannelsIfNeeded(t) ==
    /\ At(t, "joinAll")
    /\ flags' = [flags EXCEPT !.joinAll = TRUE]
    /\ past' = [past EXCEPT !.hasty = @ \/ ~(link.open \/ flags.joinAll)]
    /\ Then(t, IF flags.joinAll THEN <<>> ELSE ForAll("sendJoin"))
    /\ UNCHANGED <<limit, link, pending, rtts, chan, selected>>

\* The transport is closed when the Leave was answered, or cannot be sent; the queue
\* is cleared meanwhile.
Disconnect ==
    /\ Called
    /\ link' = [link EXCEPT !.user_closed = TRUE, !.next = FALSE]
    /\ Starts("app", << <<"send", Request("leave", 0, 0, FALSE)>>, <<"clear">> >>)
    /\ UNCHANGED <<limit, flags, pending, rtts, chan, selected>>

Clear ==
    /\ At("app", "clear")
    /\ pending' = <<>>
    /\ past' = [past EXCEPT !.cleared = @ \cup {pending[i].nr : i \in DOMAIN pending}]
    /\ Then("app", <<>>)
    /\ UNCHANGED <<limit, link, flags, rtts, chan, selected>>

Closes ==
    /\ link.open /\ link.user_closed /\ todo["app"] = <<>>
    /\ todo["loop"] = <<>>
    /\ link' = [link EXCEPT !.open = FALSE]
    /\ UNCHANGED <<limit, todo, flags, pending, rtts, chan, selected, past>>

\* connectBestUrl, once a server was found: the application begins with new channels.
ConnectBestUrlKeepsSent ==
    /\ ~link.open /\ link.user_closed /\ todo["app"] = <<>>
    /\ Called
    /\ link' = [link EXCEPT !.user_closed = FALSE, !.next = TRUE]
    /\ flags' = [flags EXCEPT !.joinAll = FALSE, !.auto = TRUE, !.subscribing = FALSE]
    /\ rtts' = [rtts EXCEPT !.value = 0, !.nr = 0, !.legacy = {}]
    /\ chan' = [c \in Channels |-> [peers |-> 1, joined |-> FALSE]]
    /\ UNCHANGED <<limit, todo, pending, selected>>
ConnectBestUrl ==
    /\ ~link.open /\ link.user_closed /\ todo["app"] = <<>>
    /\ Called
    /\ link' = [link EXCEPT !.user_closed = FALSE, !.next = TRUE]
    /\ flags' = [flags EXCEPT !.joinAll = FALSE, !.auto = TRUE, !.subscribing = FALSE]
    /\ rtts' = [value |-> 0, nr |-> 0, sent |-> {}, legacy |-> {}]
    /\ chan' = [c \in Channels |-> [peers |-> 1, joined |-> FALSE]]
    /\ UNCHANGED <<limit, todo, pending, selected>>

-------------------------------------------------------------------------------
(* The connection: it opens, is lost, or the ping times out.                 *)

\* beginConnect joins the loop of the last connection first.
Opens ==
    /\ link.next /\ ~link.user_closed /\ ~link.open
    /\ ~link.ending /\ todo["loop"] = <<>>
    /\ link.n < limit.connections
    /\ link' = [link EXCEPT !.open = TRUE, !.next = FALSE, !.n = @ + 1]
    /\ UNCHANGED <<limit, todo, flags, pending, rtts, chan, selected, past>>

\* scheduleReconnect: the join state, the listeners, the transports, beginConnect.
ReconnectSteps == << <<"resetJoin">>, <<"onReconnect">>, <<"close">>, <<"begin">> >>

\* The transport reports its end on its loop.
Lost ==
    /\ link.open /\ ~link.user_closed /\ past.losses < limit.losses
    /\ link' = [link EXCEPT !.open = FALSE]
    /\ Starts("loop", ReconnectSteps)
    /\ past' = [past EXCEPT !.losses = @ + 1]
    /\ UNCHANGED <<limit, flags, pending, rtts, chan, selected>>

\* The watchdog finds that the last Pong is too long ago.
PingTimeout ==
    /\ link.open /\ ~link.user_closed /\ past.timeouts < limit.timeouts
    /\ Starts("watch", ReconnectSteps)
    /\ past' = [past EXCEPT !.timeouts = @ + 1]
    /\ OnlyPast

ResetJoinRequestedOnly(t) ==
    /\ At(t, "resetJoin")
    /\ flags' = [flags EXCEPT !.join = FALSE]
    /\ Then(t, <<>>)
    /\ OnlyFlags
ResetJoin(t) ==
    /\ At(t, "resetJoin")
    /\ flags' = [flags EXCEPT !.joinAll = FALSE, !.join = FALSE]
    /\ Then(t, <<>>)
    /\ OnlyFlags

\* The listeners: a channel has to join again (setJoined).
OnReconnect(t) ==
    /\ At(t, "onReconnect")
    /\ chan' = [c \in Channels |-> [chan[c] EXCEPT !.joined = FALSE]]
    /\ Then(t, <<>>)
    /\ UNCHANGED <<limit, link, flags, pending, rtts, selected, past>>

CloseTransports(t) ==
    /\ At(t, "close")
    /\ link' = [link EXCEPT !.open = FALSE, !.ending = @ \/ link.open, !.suppress = TRUE]
    /\ Then(t, <<>>)
    /\ UNCHANGED <<limit, flags, pending, rtts, chan, selected, past>>

\* The loop reports the end of a transport that was closed: it reconnects, too, unless
\* that is suppressed for the moment.
Ended ==
    /\ link.ending
    /\ link' = [link EXCEPT !.ending = FALSE]
    /\ Starts("loop", IF link.user_closed \/ link.suppress THEN <<>> ELSE ReconnectSteps)
    /\ UNCHANGED <<limit, flags, pending, rtts, chan, selected, past>>

Begin(t) ==
    /\ At(t, "begin")
    /\ link' = [link EXCEPT !.next = ~link.user_closed, !.suppress = FALSE]
    /\ Then(t, <<>>)
    /\ UNCHANGED <<limit, flags, pending, rtts, chan, selected, past>>

-------------------------------------------------------------------------------
(* A Joined response, with the peers of a channel.                           *)

Joined(c) ==
    /\ link.open /\ past.joined < limit.joined
    /\ past' = [past EXCEPT !.joined = @ + 1]
    /\ flags' = [flags EXCEPT !.auto = @ /\ flags.join]
    /\ \E m \in [channel : {c}, peer : BOOLEAN, legacy : BOOLEAN, node : BOOLEAN] :
           /\ m.legacy \/ m.node => m.peer
           /\ Starts("loop", << <<"peers", m>>, <<"flush">> >>)
    /\ UNCHANGED <<limit, link, pending, rtts, chan, selected>>

\* applyJoinedPeers: a new peer may be of an old version; the round trips of the peer
\* may select the node (see MediaNode).
ApplyPeers ==
    /\ At("loop", "peers")
    /\ LET m == arg("loop")
           new == m.peer /\ chan[m.channel].peers = 1
       IN  /\ chan' = [chan EXCEPT ![m.channel].peers = IF m.peer THEN 2 ELSE @]
           /\ Then("loop", (IF new /\ m.legacy /\ ~flags.auto THEN << <<"legacy">> >> ELSE <<>>)
                           \o << <<"node", m>> >>)
    /\ UNCHANGED <<limit, link, flags, pending, rtts, selected, past>>

\* Its end: with a node and a peer, every channel joins.
MayJoin ==
    /\ At("loop", "node")
    /\ LET m == arg("loop")
           c == m.channel
           node == selected \/ (m.node /\ ~flags.auto)
       IN  /\ selected' = node
           /\ IF chan[c].peers > 1 /\ node /\ ~flags.auto
                THEN past' = [past EXCEPT !.ready = IF link.open THEN link.n ELSE @]
                ELSE UNCHANGED past
           /\ IF ~chan[c].joined /\ ~flags.auto /\ chan[c].peers > 1 /\ node
                THEN /\ chan' = [chan EXCEPT ![c].joined = TRUE]
                     /\ Then("loop", << <<"joinAll">> >>)
                ELSE UNCHANGED chan /\ Then("loop", <<>>)
    /\ UNCHANGED <<limit, link, flags, pending, rtts>>

-------------------------------------------------------------------------------
(* The round trips of the nodes go to the server once per channel.           *)

\* sendNodeRttsToFirstChannel: any channel may be the first.
Result(t) ==
    /\ past.results < limit.results
    /\ past' = [past EXCEPT !.results = @ + 1]
    /\ \E v \in Values : Starts(t, << <<"store", v>> >>)
    /\ OnlyPast

StoreKeepsSent(t) ==
    /\ At(t, "store")
    /\ IF rtts.value = arg(t)
         THEN Then(t, <<>>) /\ UNCHANGED <<rtts, past>>
         ELSE /\ rtts' = [rtts EXCEPT !.value = arg(t), !.nr = past.stores + 1]
              /\ past' = [past EXCEPT !.stored = IF link.open THEN link.n ELSE 0, !.stores = @ + 1]
              /\ \E c \in Channels :
                     Then(t, << <<"cached", c>> >>
                             \o SetToSeq({<<"cached", l>> : l \in rtts.legacy}))
    /\ OnlyRtts
Store(t) ==
    /\ At(t, "store")
    /\ IF rtts.value = arg(t)
         THEN Then(t, <<>>) /\ UNCHANGED <<rtts, past>>
         ELSE /\ rtts' = [rtts EXCEPT !.value = arg(t), !.nr = past.stores + 1, !.sent = {}]
              /\ past' = [past EXCEPT !.stored = IF link.open THEN link.n ELSE 0, !.stores = @ + 1]
              /\ \E c \in Channels :
                     Then(t, << <<"cached", c>> >>
                             \o SetToSeq({<<"cached", l>> : l \in rtts.legacy}))
    /\ OnlyRtts

\* sendNodeRttsForLegacyPeer: now every channel needs them.
Legacy ==
    /\ At("loop", "legacy")
    /\ rtts' = [rtts EXCEPT !.legacy = Channels]
    /\ Then("loop", ForAll("cached"))
    /\ OnlyRtts /\ UNCHANGED past

\* sendCachedNodeRttsIfNeededForChannel: marked first, sent later.
SendCached(t) ==
    /\ At(t, "cached")
    /\ IF rtts.value = 0 \/ arg(t) \in rtts.sent
         THEN Then(t, <<>>) /\ UNCHANGED rtts
         ELSE /\ rtts' = [rtts EXCEPT !.sent = @ \cup {arg(t)}]
              /\ Then(t, << <<"send", Request("rtts", arg(t), rtts.nr, FALSE)>> >>)
    /\ OnlyRtts /\ UNCHANGED past

-------------------------------------------------------------------------------
Step(t) ==
    \/ Send(t) \/ Note(t) \/ Again(t) \/ Flush(t) \/ SendJoin(t)
    \/ JoinAllChannelsIfNeeded(t) \/ ResetJoin(t) \/ OnReconnect(t)
    \/ CloseTransports(t) \/ Begin(t) \/ Store(t) \/ SendCached(t)

Next ==
    \/ \E c \in Channels : Mute(c) \/ Recreate(c) \/ Subscribe(c) \/ Joined(c)
    \/ Join \/ Disconnect \/ Closes \/ ConnectBestUrl \/ Opens \/ Lost \/ Ended
    \/ PingTimeout
    \/ \E t \in Sorters : Result(t)
    \/ \E t \in Threads : Step(t)
    \/ Subscribed \/ Clear \/ ApplyPeers \/ MayJoin \/ Legacy

Spec == Init /\ [][Next]_vars
===============================================================================
