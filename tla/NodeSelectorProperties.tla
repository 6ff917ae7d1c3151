------------------------ MODULE NodeSelectorProperties -------------------------
(***************************************************************************)
(* What holds of the cached nodes and of the urls derived from them, while *)
(* updates, node lists and connects overlap.                               *)
(***************************************************************************)
EXTENDS NodeSelector

\* No thread of the selector runs.
Idle ==
    /\ \A s \in DOMAIN sorts : sorts[s].step = "ended"
    /\ \A u \in DOMAIN updates : updates[u].step = "ended"
    /\ \A l \in DOMAIN lists : lists[l].step = "ended"

-------------------------------------------------------------------------------
\* The cached best address is one of the cached measurement, and those are addresses
\* at which the cached nodes are found, whoever wrote or cleared the cache last:
\* threads of asyncSort, onNodeList with what it read earlier, and testBestUrl.  (An
\* empty measurement is cached with the best of an earlier list: see the README.)
CacheWhole ==
    cache.best # none /\ cache.info # {} =>
        cache.best \in cache.info /\ cache.info \subseteq Resolved(cache.nodes)

\* Once a list has come and everything is measured, the last report names nodes: the
\* client can take part in choosing one, though no node ever answered ("Fake results
\* to ensure we can still join") and though an empty measurement was cached and
\* reported in between.  The one exception is a last report that is of a list without
\* nodes, for which nothing can be faked.
CanJoin == Idle /\ sorts \o lists # <<>> => past.last # <<>> \/ past.bare

\* A count that is left behind, which makes every later connect wait for two seconds,
\* is that of an update whose sort was over before its completion handler was: nothing
\* else, of overlapping updates and failed ones, leaves it (autoDone, asyncSort).
CountSettles == Idle /\ count # 0 => past.overtaken

\* A connect that did not lose patience reads the cache after the update it waited for
\* has brought its measurement there.  Of several updates, one may let go what waits
\* for another, and so may a list's own sort.
WaitsForUpdate ==
    Len(updates) = 1 /\ lists = <<>> =>
        \A c \in DOMAIN calls :
            calls[c].patient /\ 1 \in calls[c].awaits =>
                /\ updates[1].step # "response"
                /\ \A s \in DOMAIN sorts : sorts[s].step = "ended"

\* Every connect is answered, or dropped after another one or a cancel took over,
\* though the count may be left behind for good.
Answers ==
    \A c \in 1..2 :
        c \in DOMAIN calls ~>
            /\ c \in DOMAIN calls
            /\ \/ calls[c].step = "answered"
               \/ calls[c].step = "dropped" /\ calls[c].cancelled
===============================================================================
