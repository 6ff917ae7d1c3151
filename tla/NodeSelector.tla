----------------------------- MODULE NodeSelector ------------------------------
(***************************************************************************)
(* bff::NodeSelector (NodeSelector.cpp): the list of media nodes is asked  *)
(* for over HTTP (updateNodes) and comes with the session (onNodeList), the *)
(* nodes are probed by STUN in threads of their own (asyncSort), what was   *)
(* measured is reported and cached, and the cached best node replaces the   *)
(* host of the url of the next connection (getBestUrl).                    *)
(*                                                                         *)
(* Each of these runs as a record of its own that says which step is next: *)
(* a step is one access to the cache, to update_nodes_count_ or to the     *)
(* cancel flag, one probe, or one callback.  A measurement is the sequence  *)
(* of IP addresses in the order in which they answered; it is cached as a  *)
(* JSON object, which keeps neither order nor doubles.  A node is the host *)
(* it is listed as, a name or an address, whatever port it is listed with. *)
(***************************************************************************)
EXTENDS Naturals, Sequences, FiniteSets, SequencesExt

CONSTANTS
    Nodes,      \* media nodes, which are signaling servers too, as they are listed
    NodeLists,  \* the sets of nodes that a server lists: perhaps none
    HostnameToIP,  \* the IP addresses each node may be found at, one at a time: an
                   \* address is found at itself, an unknown name nowhere
    Hosts,      \* hosts of the urls to connect to
    Addrs,      \* addresses of this client that a server reports, none if it does not
    none,
    Limits      \* bounds: the limits to consider

\* What one behaviour may do, and the configuration it runs with.
LimitSet ==
    [updates  : Nat,                  \* calls of updateNodes
     lists    : Nat,                  \* node lists of the session
     connects : Nat,                  \* calls of getBestUrl
     cancels  : Nat,                  \* calls of cancelConnectOperation
     server   : Nodes \cup {none},    \* Config::server, a media node preferred
     signal   : BOOLEAN]              \* Config::signal.server is set

ASSUME NodeAssumption ==
    /\ none \notin Nodes
    /\ \A node \in Nodes : none \notin HostnameToIP[node]
    /\ NodeLists \subseteq SUBSET Nodes
    /\ \A nodes \in NodeLists : IsFiniteSet(nodes)
    /\ Limits \subseteq LimitSet

VARIABLES
    limit,          \* never changes
    count,          \* update_nodes_count_
    cache,          \* NodeCache: best_node, nodes, nodes_info_json, ip
    updates,        \* calls of updateNodesInternal
    sorts,          \* threads of asyncSort
    lists,          \* calls of onNodeList, one at a time
    calls,          \* calls of getBestUrl
    current,        \* whose flag connect_cancel_ is: a call, or 0
    past            \* history: last, the last measurement reported, and bare, whether it
                    \* is of a list without nodes; overtaken, whether a sort ended
                    \* before the update that began it; and cancels

vars == <<limit, count, cache, updates, sorts, lists, calls, current, past>>

Init ==
    /\ limit \in Limits
    /\ count = 0
    /\ cache = [best |-> none, nodes |-> {}, info |-> {}, ip |-> none]
    /\ updates = <<>> /\ sorts = <<>> /\ lists = <<>> /\ calls = <<>>
    /\ current = 0
    /\ past = [last |-> <<>>, bare |-> FALSE, overtaken |-> FALSE, cancels |-> 0]

\* toIpPorts: the addresses where servers are found when they are measured.
Resolved(servers) == UNION {HostnameToIP[server] : server \in servers}

\* SortStun: some of the servers that are found answer in time, from their addresses;
\* one of them perhaps twice, which counts twice.
SortStun(servers) ==
    UNION {[1..n -> Resolved(servers)] :
              n \in 0..Cardinality({server \in servers : HostnameToIP[server] # {}})}

\* updateRtts, of a measurement by a thread or a list.
Reported(by) == past' = [past EXCEPT !.last = by.ret, !.bare = (by.nodes = {})]

-------------------------------------------------------------------------------
(* asyncSort: it is begun for a set of nodes, of an update or of a list (0).  *)

asyncSort(nodes, ip, update) ==
    sorts' = Append(sorts, [nodes |-> nodes, ip |-> ip, update |-> update,
                            ret |-> <<>>, save |-> FALSE, step |-> "probe"])

\* If no node answered, all are reported as they are listed, but not cached.
SortProbeUnfaked(s) ==
    /\ sorts[s].step = "probe"
    /\ \E ret \in SortStun(sorts[s].nodes) :
           sorts' = [sorts EXCEPT ![s].ret = ret, ![s].save = ret # <<>>,
                                  ![s].step = "report"]
    /\ UNCHANGED <<limit, count, cache, updates, lists, calls, current, past>>
SortProbe(s) ==
    /\ sorts[s].step = "probe"
    /\ \E ret \in SortStun(sorts[s].nodes) :
           sorts' = [sorts EXCEPT ![s].ret = IF ret # <<>> THEN ret
                                             ELSE SetToSeq(sorts[s].nodes),
                                  ![s].save = ret # <<>>,
                                  ![s].step = "report"]
    /\ UNCHANGED <<limit, count, cache, updates, lists, calls, current, past>>

SortReport(s) ==
    /\ sorts[s].step = "report"
    /\ Reported(sorts[s])
    /\ sorts' = [sorts EXCEPT ![s].step = IF sorts[s].save THEN "save" ELSE "settle"]
    /\ UNCHANGED <<limit, count, cache, updates, lists, calls, current>>

SortSaveBestOnly(s) ==
    /\ sorts[s].step = "save"
    /\ cache' = [cache EXCEPT !.best = Head(sorts[s].ret),
                               !.info = ToSet(sorts[s].ret)]
    /\ sorts' = [sorts EXCEPT ![s].step = "settle"]
    /\ UNCHANGED <<limit, count, updates, lists, calls, current, past>>
SortSave(s) ==
    /\ sorts[s].step = "save"
    /\ cache' = [best |-> Head(sorts[s].ret), nodes |-> sorts[s].nodes,
                 info |-> ToSet(sorts[s].ret), ip |-> sorts[s].ip]
    /\ sorts' = [sorts EXCEPT ![s].step = "settle"]
    /\ UNCHANGED <<limit, count, updates, lists, calls, current, past>>

SortSettle(s) ==
    /\ sorts[s].step = "settle"
    /\ count' = 0
    /\ sorts' = [sorts EXCEPT ![s].step = "ended"]
    /\ past' = [past EXCEPT !.overtaken =
                    @ \/ (sorts[s].update # 0 /\ updates[sorts[s].update].step # "ended")]
    /\ UNCHANGED <<limit, cache, updates, lists, calls, current>>

-------------------------------------------------------------------------------
(* updateNodes.                                                              *)

\* With several servers, a thread probes them first; it counts from then on only.
UpdateNodes ==
    /\ Len(updates) < limit.updates
    /\ updates' = Append(updates, [sort |-> FALSE, step |-> "probe"])
    /\ UNCHANGED <<limit, count, cache, sorts, lists, calls, current, past>>

UpdateNodesInternal(u) ==
    /\ updates[u].step = "probe"
    /\ count' = 2
    /\ updates' = [updates EXCEPT ![u].step = "response"]
    /\ UNCHANGED <<limit, cache, sorts, lists, calls, current, past>>

\* The response is an error, or none that can be used; or it lists nodes.
ResponseUnsorted(u) ==
    /\ updates[u].step = "response"
    /\ updates' = [updates EXCEPT ![u].step = "done"]
    /\ \E nodes \in NodeLists, ip \in Addrs : asyncSort(nodes, ip, u)
    /\ UNCHANGED <<limit, count, cache, lists, calls, current, past>>
Response(u) ==
    /\ updates[u].step = "response"
    /\ \/ /\ updates' = [updates EXCEPT ![u].step = "done"]
          /\ UNCHANGED sorts
       \/ /\ updates' = [updates EXCEPT ![u].sort = TRUE, ![u].step = "done"]
          /\ \E nodes \in NodeLists, ip \in Addrs :
                 asyncSort(nodes, ip, u)
    /\ UNCHANGED <<limit, count, cache, lists, calls, current, past>>

\* autoDone, when the completion handler has returned.
AutoDoneSorting(u) ==
    /\ updates[u].step = "done"
    /\ count' = IF updates[u].sort THEN 1 ELSE count
    /\ updates' = [updates EXCEPT ![u].step = "ended"]
    /\ UNCHANGED <<limit, cache, sorts, lists, calls, current, past>>
AutoDone(u) ==
    /\ updates[u].step = "done"
    /\ count' = IF updates[u].sort THEN 1 ELSE 0
    /\ updates' = [updates EXCEPT ![u].step = "ended"]
    /\ UNCHANGED <<limit, cache, sorts, lists, calls, current, past>>

-------------------------------------------------------------------------------
(* onNodeList.                                                               *)

NodeList ==
    /\ Len(lists) < limit.lists
    /\ \A l \in DOMAIN lists : lists[l].step = "ended"
    /\ \E nodes \in NodeLists, ip \in Addrs :
           lists' = Append(lists, [nodes |-> nodes, ip |-> ip, best |-> none, ret |-> <<>>,
                                   step |-> IF limit.server # none THEN "refresh"
                                                                    ELSE "read"])
    /\ UNCHANGED <<limit, count, cache, updates, sorts, calls, current, past>>

\* The cached measurement is used if it is of these nodes, from this address, and
\* perhaps too old.
ListRead(l) ==
    /\ lists[l].step = "read"
    /\ LET known == /\ cache.nodes = lists[l].nodes
                    /\ cache.ip # none /\ cache.ip = lists[l].ip
                    /\ cache.best # none
       IN  \E recent \in BOOLEAN :
               lists' = [lists EXCEPT
                   ![l].best = cache.best, ![l].ret = SetToSeq(cache.info),
                   ![l].step = IF known /\ recent THEN "cached" ELSE "probe"]
    /\ UNCHANGED <<limit, count, cache, updates, sorts, calls, current, past>>

ListCached(l) ==
    /\ lists[l].step = "cached"
    /\ Reported(lists[l])
    /\ lists' = [lists EXCEPT ![l].step = "refresh"]
    /\ UNCHANGED <<limit, count, cache, updates, sorts, calls, current>>

\* The list is done with when the thread that measures again has been created.
ListRefresh(l) ==
    /\ lists[l].step = "refresh"
    /\ asyncSort(lists[l].nodes, lists[l].ip, 0)
    /\ lists' = [lists EXCEPT ![l].step = "ended"]
    /\ UNCHANGED <<limit, count, cache, updates, calls, current, past>>

\* The loop thread probes itself, for a short time.
ListProbe(l) ==
    /\ lists[l].step = "probe"
    /\ \E ret \in SortStun(lists[l].nodes) :
           lists' = [lists EXCEPT ![l].ret = ret, ![l].step = "report",
                                  ![l].best = IF ret # <<>> THEN Head(ret) ELSE @]
    /\ UNCHANGED <<limit, count, cache, updates, sorts, calls, current, past>>

\* A partial measurement is not reported but done again in a thread.
ListReport(l) ==
    /\ lists[l].step = "report"
    /\ IF Len(lists[l].ret) < Cardinality(lists[l].nodes)
         THEN asyncSort(lists[l].nodes, lists[l].ip, 0) /\ UNCHANGED past
         ELSE Reported(lists[l]) /\ UNCHANGED sorts
    /\ lists' = [lists EXCEPT ![l].step = "write"]
    /\ UNCHANGED <<limit, count, cache, updates, calls, current>>

ListWrite(l) ==
    /\ lists[l].step = "write"
    /\ cache' = [best |-> lists[l].best, nodes |-> lists[l].nodes,
                 info |-> ToSet(lists[l].ret), ip |-> lists[l].ip]
    /\ lists' = [lists EXCEPT ![l].step = "ended"]
    /\ UNCHANGED <<limit, count, updates, sorts, calls, current, past>>

-------------------------------------------------------------------------------
(* getBestUrl.                                                               *)

\* awaits: the updates that count when the call begins.
GetBestUrl ==
    /\ Len(calls) < limit.connects
    /\ \E host \in Hosts :
           calls' = Append(calls, [host |-> host, best |-> none, cancelled |-> FALSE,
               patient |-> FALSE,
               awaits |-> {u \in DOMAIN updates : updates[u].step \in {"response", "done"}},
               step |-> IF limit.signal THEN "answered" ELSE "wait"])
    /\ UNCHANGED <<limit, count, cache, updates, sorts, lists, current, past>>

\* testBestUrl waits until nothing counts, or for two seconds.
WaitWithoutTimeout(c) ==
    /\ calls[c].step = "wait" /\ count = 0
    /\ calls' = [calls EXCEPT ![c].step = "read", ![c].patient = TRUE]
    /\ UNCHANGED <<limit, count, cache, updates, sorts, lists, current, past>>
Wait(c) ==
    /\ calls[c].step = "wait"
    /\ calls' = [calls EXCEPT ![c].step = "read", ![c].patient = (count = 0)]
    /\ UNCHANGED <<limit, count, cache, updates, sorts, lists, current, past>>

\* The cache decides: of another environment, it is cleared, in a step of its own;
\* empty, the url is left as it is.
ReadCache(c) ==
    /\ calls[c].step = "read"
    /\ calls' = [calls EXCEPT
           ![c].best = cache.best,
           ![c].step = IF cache.nodes # {} /\ calls[c].host \notin cache.nodes THEN "clear"
                       ELSE IF cache.best = none THEN "answered"
                       ELSE "flag"]
    /\ UNCHANGED <<limit, count, cache, updates, sorts, lists, current, past>>

ClearCache(c) ==
    /\ calls[c].step = "clear"
    /\ cache' = [cache EXCEPT !.best = none, !.nodes = {}]
    /\ calls' = [calls EXCEPT ![c].best = none, ![c].step = "answered"]
    /\ UNCHANGED <<limit, count, updates, sorts, lists, current, past>>

\* setConnectCancelFlag: the call that has the flag is cancelled, and this one has it.
SetConnectCancelFlag(c) ==
    /\ calls[c].step = "flag"
    /\ current' = c
    /\ calls' = [n \in DOMAIN calls |->
           IF n = c THEN [calls[n] EXCEPT !.step = "probe"]
           ELSE IF n = current THEN [calls[n] EXCEPT !.cancelled = TRUE]
           ELSE calls[n]]
    /\ UNCHANGED <<limit, count, cache, updates, sorts, lists, past>>

\* The best node is probed, unless the call was cancelled; it answers, or the url is
\* left as it is.
ProbeBest(c) ==
    /\ calls[c].step = "probe"
    /\ IF calls[c].cancelled
         THEN calls' = [calls EXCEPT ![c].step = "dropped"]
         ELSE \E best \in {calls[c].best, none} :
                  calls' = [calls EXCEPT ![c].best = best, ![c].step = "check"]
    /\ UNCHANGED <<limit, count, cache, updates, sorts, lists, current, past>>

\* The flag is looked at for the last time, and the url handed over after that.
CheckCancelled(c) ==
    /\ calls[c].step = "check"
    /\ calls' = [calls EXCEPT ![c].step = IF calls[c].cancelled THEN "dropped" ELSE "answer"]
    /\ UNCHANGED <<limit, count, cache, updates, sorts, lists, current, past>>

Answer(c) ==
    /\ calls[c].step = "answer"
    /\ calls' = [calls EXCEPT ![c].step = "answered"]
    /\ UNCHANGED <<limit, count, cache, updates, sorts, lists, current, past>>

CancelConnectOperation ==
    /\ past.cancels < limit.cancels
    /\ past' = [past EXCEPT !.cancels = @ + 1]
    /\ current' = 0
    /\ calls' = [n \in DOMAIN calls |->
           IF n = current THEN [calls[n] EXCEPT !.cancelled = TRUE] ELSE calls[n]]
    /\ UNCHANGED <<limit, count, cache, updates, sorts, lists>>

-------------------------------------------------------------------------------
SortStep ==
    \E s \in DOMAIN sorts : SortProbe(s) \/ SortReport(s) \/ SortSave(s) \/ SortSettle(s)

UpdateStep ==
    \E u \in DOMAIN updates : UpdateNodesInternal(u) \/ Response(u) \/ AutoDone(u)

ListStep ==
    \E l \in DOMAIN lists :
        \/ ListRead(l) \/ ListCached(l) \/ ListRefresh(l)
        \/ ListProbe(l) \/ ListReport(l) \/ ListWrite(l)

CallStep ==
    \E c \in DOMAIN calls :
        \/ Wait(c) \/ ReadCache(c) \/ ClearCache(c) \/ SetConnectCancelFlag(c)
        \/ ProbeBest(c) \/ CheckCancelled(c) \/ Answer(c)

Next ==
    \/ UpdateNodes \/ NodeList \/ GetBestUrl \/ CancelConnectOperation
    \/ SortStep \/ UpdateStep \/ ListStep \/ CallStep

Spec == Init /\ [][Next]_vars

\* The threads run, probes and waits time out, and an HTTP request is answered or
\* fails.  Each of these ends after a few steps, so it is enough that some thread of a
\* kind always runs.
FairSpec ==
    /\ Spec
    /\ WF_vars(SortStep) /\ WF_vars(UpdateStep) /\ WF_vars(ListStep) /\ WF_vars(CallStep)
===============================================================================
