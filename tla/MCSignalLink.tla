----------------------------- MODULE MCSignalLink -----------------------------
(* The scenarios TLC explores.  Each is small in one direction; together they  *)
(* hold a reconnection, a disconnection, an answer, and both orders of a race. *)
EXTENDS SignalLinkProperties, TLC

\* Which detached thread does what makes no difference.
Symmetric == Permutations(Detached)

Bounds(impl, delay, disconnects, attempts, answers) ==
    [implementation |-> impl, mixedDelay |-> delay, maxConnects |-> 1,
     maxDisconnects |-> disconnects, maxAttempts |-> attempts, maxAnswers |-> answers]

\* One transport: connect, one reconnection, disconnect, one answer; a reconnection
\* or an answer with the disconnection; and, without it, enough attempts for two
\* reconnect threads to be in beginConnect at once.
MCSingle == {Bounds(impl, 0, 1, 2, 0) : impl \in {"Curl", "Quic"}}
       \cup {Bounds(impl, 0, 1, 1, 1) : impl \in {"Curl", "Quic"}}
       \cup {Bounds(impl, 0, 0, 3, 1) : impl \in {"Curl", "Quic"}}
MCCurl == {Bounds("Curl", 0, 1, 2, 1)}
MCThree == {Bounds("Quic", 0, 0, 3, 1)}
MCQuic == {Bounds("Quic", 0, 1, 2, 1)}

\* A race with a disconnect in it, TCP coming at once or after the delay; one with
\* an answer on either leg; and one with a reconnection after it.
MCRace == {Bounds("Mixed", d, 1, 1, 0) : d \in {0, 1}}
MCMixed == {Bounds("Mixed", 1, 1, 1, 0), Bounds("Mixed", 0, 0, 1, 1),
            Bounds("Mixed", 1, 0, 2, 0)}
===============================================================================
