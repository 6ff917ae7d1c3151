---------------------------- MODULE MCNodeSelector -----------------------------
(* Two nodes: an address, which is the host to connect to, and a name.         *)
EXTENDS NodeSelectorProperties

CONSTANTS a, b, x

\* The address of the name is not on any list.
MCHostnameToIP == [node \in {a, b} |-> IF node = a THEN {a} ELSE {x}]

Limit(u, l, c, k) ==
    [updates |-> u, lists |-> l, connects |-> c, cancels |-> k,
     server |-> none, signal |-> FALSE]

\* Two updates overlap; two connects, an update and a cancel; two node lists and a
\* connect; an update and a list; a list, a node being preferred; and connects to a
\* signaling server that was given.
MCLimits ==
    {Limit(2, 0, 0, 0), Limit(1, 0, 2, 1), Limit(0, 2, 1, 0), Limit(1, 1, 0, 0),
     [Limit(1, 1, 0, 0) EXCEPT !.server = a], [Limit(0, 0, 2, 0) EXCEPT !.signal = TRUE]}

\* The second list is of another environment than a, and the third is empty.
MCNodeLists == {{a, b}, {b}, {}}
===============================================================================
