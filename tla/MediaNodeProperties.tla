-------------------------- MODULE MediaNodeProperties --------------------------
(***************************************************************************)
(* What the choice of a media node promises the two ends of a call.        *)
(***************************************************************************)
EXTENDS MediaNode

\* A client that selected by measurement, and the two reports it selected from.
Measured(c) == best[c] # none /\ server[c] = none
mine(c) == past.from[c][c]
theirs(c) == past.from[c][CHOOSE d \in Clients : d # c]

-------------------------------------------------------------------------------
\* The reference: the k-th entry of a node in one report belongs to the k-th in the
\* other, and a pair of entries costs the sum of the squares.
rank(rtts, i) == Cardinality({j \in 1..i : rtts[j].node = rtts[i].node})

pairs(rtts1, rtts2) ==
    {p \in (DOMAIN rtts1) \X (DOMAIN rtts2) :
        /\ rtts1[p[1]].node = rtts2[p[2]].node
        /\ rank(rtts1, p[1]) = rank(rtts2, p[2])}

cost(rtts1, rtts2, p) ==
    rtts1[p[1]].rtt * rtts1[p[1]].rtt + rtts2[p[2]].rtt * rtts2[p[2]].rtt

cheapest(rtts1, rtts2) ==
    {rtts1[p[1]].node : p \in {p \in pairs(rtts1, rtts2) :
        \A q \in pairs(rtts1, rtts2) : cost(rtts1, rtts2, p) <= cost(rtts1, rtts2, q)}}

\* The node selected is one both ends reached, and no other costs the two of them less,
\* whatever the order of the reports, entries listed twice and ports (FindBestNode:
\* the map keyed by loss, and the entries taken out of the peer's list).
LeastLoss == \A c \in Clients : Measured(c) => best[c] \in cheapest(mine(c), theirs(c))

\* The ends of a call meet: when both selected from the same two reports, each from its
\* own side of them, they selected the same node, unless two nodes cost the same, where
\* each goes by the order of its own report (lossMap[l] = ip overwrites).
Meet ==
    \A c, d \in Clients :
        Measured(c) /\ Measured(d) /\ past.from[c] = past.from[d]
            => best[c] = best[d] \/ Cardinality(cheapest(mine(c), theirs(c))) > 1

\* Reports that share a node lead to a choice: neither the order in which a client
\* learns of the two ends, nor a port that only one of them writes, keeps it waiting to
\* join (nodeSelected in applyJoinedPeers).
Share == pairs(reported[CHOOSE c \in Clients : TRUE],
               reported[CHOOSE d \in Clients : d # (CHOOSE c \in Clients : TRUE)]) # {}
Selected == Share ~> ~Share \/ \A c \in Clients : best[c] # none
===============================================================================
