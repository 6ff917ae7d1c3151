----------------------- MODULE SignalRequestsProperties ------------------------
(***************************************************************************)
(* What the requests of a Signal promise to their callers, and what its    *)
(* comments say of reconnections.                                          *)
(***************************************************************************)
EXTENDS SignalRequests

RequestSteps ==
    {"send", "note", "again", "flush", "sendJoin", "joinAll", "subscribed", "clear",
     "resetJoin", "onReconnect", "close", "begin", "peers", "node", "store", "cached",
     "legacy"}

\* Types; and no channel counts as served when there are no round trips to serve it with.
TypeOK ==
    /\ link \in [open : BOOLEAN, n : Nat, ending : BOOLEAN, next : BOOLEAN,
                 suppress : BOOLEAN, user_closed : BOOLEAN]
    /\ \A t \in Threads : \A i \in DOMAIN todo[t] : todo[t][i][1] \in RequestSteps
    /\ flags \in [joinAll : BOOLEAN, join : BOOLEAN, auto : BOOLEAN, recreating : BOOLEAN,
                  subscribing : BOOLEAN]
    /\ rtts \in [value : Values \cup {0}, nr : Nat, sent : SUBSET Channels,
                 legacy : SUBSET Channels]
    /\ rtts.value = 0 => rtts.sent = {}
    /\ chan \in [Channels -> [peers : {1, 2}, joined : BOOLEAN]]

-------------------------------------------------------------------------------
\* A thread is about to send the mute of that number, or to queue it.
holding(t, nr) ==
    {i \in DOMAIN todo[t] : /\ todo[t][i][1] \in {"send", "again"}
                            /\ todo[t][i][2].kind = "mute" /\ todo[t][i][2].nr = nr}
queued(nr) == {i \in DOMAIN pending : pending[i].nr = nr}

\* A request that is tried again is in one place until it is sent, once: in pending_reqs
\* or in the hands of one thread, though threads send, queue and flush at the same time
\* and connections come and go; only disconnect drops what is queued (requestOrAgain,
\* flushPendingReqs, disconnect).
AgainOnce ==
    \A nr \in 1..past.mutes :
        LET sent == {s \in past.sent : s.kind = "mute" /\ s.nr = nr}
            held == {t \in Threads : holding(t, nr) # {}}
        IN  /\ Cardinality(sent) + Cardinality(queued(nr)) + Cardinality(held)
                 = IF nr \in past.cleared THEN 0 ELSE 1
            /\ \A t \in held : Cardinality(holding(t, nr)) = 1

\* A result of the nodes that is stored while connected gets to the server, on one
\* channel and on every channel with a peer of an old version, whichever of the result
\* and that peer comes first; and no channel gets it twice, though the transport's and
\* the measuring threads send it at the same time (sendNodeRttsToFirstChannel,
\* sendNodeRttsForLegacyPeer, sendCachedNodeRttsIfNeededForChannel).
RttsTold ==
    LET served == {s.channel : s \in {x \in past.sent : x.kind = "rtts" /\ x.nr = rtts.nr}}
    IN  /\ ~past.twice
        /\ /\ \A t \in Sorters \cup {"loop"} : todo[t] = <<>>
           /\ rtts.value # 0 /\ link.open /\ past.stored = link.n
           => served # {} /\ rtts.legacy \subseteq served

\* Channels that could join this connection have joined, when no thread is at it.
joining == \E t \in {"app", "loop", "watch"} : todo[t] # <<>>
joinedNow == {s.channel : s \in {x \in past.sent : x.kind = "join" /\ x.n = link.n}}
HasJoined == link.open /\ past.ready = link.n /\ ~joining => joinedNow = Channels

\* After a connection was lost, its successor joins every channel as soon as one has a
\* peer and a node, whatever was joined before (scheduleReconnect, applyJoinedPeers,
\* joinAllChannelsIfNeeded); unless it was a ping timeout, see Rejoins, or join was
\* called for all channels with no connection, which marks them as joined.
RejoinsAfterLoss == past.timeouts = 0 /\ ~past.hasty => HasJoined

\* A recreate that could not be sent is not forgotten: recreating stays set until a join
\* or recreate has carried it, on whichever thread and connection (sendRequest); but not
\* if a join was being sent when recreate was called: its success clears the flag.
RecreateCarried == past.owed /\ ~past.raced => flags.recreating

\* Violated.  "Ping/transport reconnect must re-join": a Joined that the old connection
\* brings between the reset and its close is taken for the new one's, when the end of
\* the old one is reported while reconnection is suppressed.
Rejoins == ~past.hasty => HasJoined
===============================================================================
