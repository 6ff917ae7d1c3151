--------------------------- MODULE MCSignalRequests ----------------------------
(* Two channels, two measuring threads; each limit is about some of the calls. *)
EXTENDS SignalRequestsProperties

Limit(connections, losses, timeouts, joins, results, mutes, calls) ==
    [connections |-> connections, losses |-> losses, timeouts |-> timeouts,
     joined |-> joins, results |-> results, mutes |-> mutes, calls |-> calls]

\* Mutes, and a call, over a reconnection; results and old peers; Joined before and
\* after a loss or a ping timeout; disconnect and connectBestUrl with a mute queued or a
\* result told; and a recreate, a join and a Joined.
MCLimits ==
    {Limit(2, 1, 0, 1, 0, 2, 1), Limit(1, 0, 0, 1, 2, 0, 0), Limit(2, 1, 0, 2, 0, 0, 0),
     Limit(2, 0, 1, 2, 0, 0, 0), Limit(2, 0, 0, 1, 0, 1, 2), Limit(1, 0, 0, 0, 1, 0, 2),
     Limit(2, 1, 0, 1, 0, 0, 2)}
MCTimeout == {Limit(2, 0, 1, 2, 0, 0, 0)}
===============================================================================
