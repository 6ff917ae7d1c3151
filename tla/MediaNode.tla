------------------------------- MODULE MediaNode -------------------------------
(***************************************************************************)
(* How the two clients of a call choose their media node                   *)
(* (NodeSelector::applyNodeRtts, FindBestNode in stun_test.cpp): each      *)
(* measures round trips and reports them, the server passes the reports on *)
(* in its Joined responses, and each client selects from its own report    *)
(* and its peer's, once.  A report lists nodes in the order in which they  *)
(* answered, one perhaps twice, each as an address or as address and port. *)
(***************************************************************************)
EXTENDS Integers, Sequences, FiniteSets, SequencesExt

CONSTANTS
    Clients,       \* the two ends of the call
    WithPort,      \* those whose reports write a port after the address
    Nodes,         \* media nodes
    RoundTrips,    \* in milliseconds
    MaxListed,     \* bound: entries of a report
    MaxReports,    \* bound: reports of a client
    Servers,       \* what Config::server may be: a node, or none
    none

ASSUME MediaAssumption ==
    /\ IsFiniteSet(Clients) /\ Cardinality(Clients) = 2 /\ WithPort \subseteq Clients
    /\ RoundTrips \subseteq Nat /\ MaxListed \in Nat /\ MaxReports \in Nat
    /\ none \notin Nodes /\ Servers \subseteq Nodes \cup {none}

Entry == [node : Nodes, port : BOOLEAN, rtt : RoundTrips]

Reports(c) ==
    UNION {[1..n -> {e \in Entry : e.port = (c \in WithPort)}] : n \in 1..MaxListed}

VARIABLES
    server,       \* Config::server: the node the user of a client prefers, or none
    reported,     \* the last report of each client, as the server keeps it
    node_rtts,    \* node_rtts_self_ and node_rtts_ of each client, by end
    best,         \* best_node_negotiated_ of each client, or none
    past          \* history: reports made, and what each client selected from

vars == <<server, reported, node_rtts, best, past>>

Init ==
    /\ server \in [Clients -> Servers]
    /\ reported = [c \in Clients |-> <<>>]
    /\ node_rtts = [c \in Clients |-> [e \in Clients |-> <<>>]]
    /\ best = [c \in Clients |-> none]
    /\ past = [reports |-> [c \in Clients |-> 0], from |-> [c \in Clients |-> <<>>]]

-------------------------------------------------------------------------------
\* normalizeNodeIp: without the port.
normalizeNodeIpKept(entry) == <<entry.node, entry.port>>
normalizeNodeIp(entry) == entry.node

loss(rtt1, rtt2) == rtt1 * rtt1 + rtt2 * rtt2

least(S) == CHOOSE x \in S : \A y \in S : x <= y

\* The entries of rtts that name the node of this one.
matching(entry, rtts) ==
    {i \in DOMAIN rtts : normalizeNodeIp(rtts[i]) = normalizeNodeIp(entry)}

\* One turn of FindBestNode's loop: an entry that rtts2 lists too takes the first such
\* entry out of rtts2, and lossMap holds the node under its loss, in place of another.
Matched(acc, entry) ==
    IF matching(entry, acc.rtts2) = {} THEN acc
    ELSE LET i == least(matching(entry, acc.rtts2))
             l == loss(entry.rtt, acc.rtts2[i].rtt)
         IN  [rtts2   |-> RemoveAt(acc.rtts2, i),
              lossMap |-> {p \in acc.lossMap : p.loss # l}
                          \cup {[loss |-> l, node |-> entry.node]}]

\* What the loop leaves in lossMap, one turn for each entry of rtts1.
losses(rtts1, rtts2) ==
    LET turn[k \in 0..Len(rtts1)] ==
            IF k = 0 THEN [rtts2 |-> rtts2, lossMap |-> {}]
            ELSE Matched(turn[k - 1], rtts1[k])
    IN  turn[Len(rtts1)].lossMap

FindBestNodeMost(rtts1, rtts2) ==
    LET lossMap == losses(rtts1, rtts2)
    IN  IF lossMap = {} THEN none
        ELSE (CHOOSE p \in lossMap : \A q \in lossMap : p.loss >= q.loss).node
FindBestNodeFirst(rtts1, rtts2) ==
    LET shared == {i \in DOMAIN rtts1 : matching(rtts1[i], rtts2) # {}}
    IN  IF shared = {} THEN none ELSE rtts1[least(shared)].node
\* lossMap.begin() is the node of the least loss.
FindBestNode(rtts1, rtts2) ==
    LET lossMap == losses(rtts1, rtts2)
    IN  IF lossMap = {} THEN none
        ELSE (CHOOSE p \in lossMap : \A q \in lossMap : p.loss <= q.loss).node

-------------------------------------------------------------------------------
\* A client reports a measurement; the server keeps the last one.
Report(c) ==
    /\ past.reports[c] < MaxReports
    /\ \E rtts \in Reports(c) : reported' = [reported EXCEPT ![c] = rtts]
    /\ past' = [past EXCEPT !.reports[c] = @ + 1]
    /\ UNCHANGED <<server, node_rtts, best>>

\* applyNodeRtts in client c, with the report of end e.
applyNodeRtts(c, e) ==
    LET rtts == [node_rtts[c] EXCEPT ![e] = reported[e]]
        peer == CHOOSE d \in Clients : d # c
        kept == IF server[c] # none THEN server[c] ELSE best[c]
    IN  /\ node_rtts' = [node_rtts EXCEPT ![c] = rtts]
        /\ IF kept # none \/ rtts[c] = <<>> \/ rtts[peer] = <<>>
             THEN best' = [best EXCEPT ![c] = kept] /\ UNCHANGED past
             ELSE /\ best' = [best EXCEPT ![c] = FindBestNode(rtts[c], rtts[peer])]
                  /\ past' = [past EXCEPT !.from[c] = rtts]

\* A Joined response tells client c of a report of one end (applyJoinedPeers).
Joined(c, e) ==
    /\ reported[e] # <<>> /\ node_rtts[c][e] # reported[e]
    /\ applyNodeRtts(c, e)
    /\ UNCHANGED <<server, reported>>

Next == \E c \in Clients : Report(c) \/ \E e \in Clients : Joined(c, e)

Spec == Init /\ [][Next]_vars

\* The server tells each client of every end's last report.
FairSpec == Spec /\ WF_vars(\E c, e \in Clients : Joined(c, e))
===============================================================================
