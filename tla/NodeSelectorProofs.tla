-------------------------- MODULE NodeSelectorProofs ---------------------------
(***************************************************************************)
(* The cache is whole, a measured client can join, a count that is left    *)
(* behind is that of an overtaken update, and a patient connect sees its   *)
(* update: for any number of updates, lists, connects and nodes.           *)
(***************************************************************************)
EXTENDS NodeSelectorProperties, SequenceLemmas

\* The addresses there are, and what a report names: these, or nodes as listed.
IPs == Resolved(Nodes)
Named == Nodes \cup IPs

\* What a measurement in a thread, a list, an update, a connect and the cache hold.
\* Only a measurement that nodes answered is saved.
Sorts ==
    {r \in [nodes : NodeLists, ip : Addrs, update : Nat, ret : Seq(Named),
            save : BOOLEAN, step : {"probe", "report", "save", "settle", "ended"}] :
        /\ r.step # "probe" /\ r.nodes # {} => r.ret # <<>>
        /\ r.save \/ r.step = "save" =>
               r.ret # <<>> /\ r.ret \in Seq(Resolved(r.nodes))}
Lists ==
    {r \in [nodes : NodeLists, ip : Addrs, best : IPs \cup {none}, ret : Seq(IPs),
            step : {"refresh", "read", "cached", "probe", "report", "write", "ended"}] :
        r.step \in {"report", "write"} =>
            /\ r.ret \in Seq(Resolved(r.nodes))
            /\ r.ret # <<>> => r.best = Head(r.ret)}
Updates ==
    {r \in [sort : BOOLEAN, step : {"probe", "response", "done", "ended"}] :
        r.sort => r.step \in {"done", "ended"}}
Calls ==
    [host : Hosts, best : IPs \cup {none}, cancelled : BOOLEAN, patient : BOOLEAN,
     awaits : SUBSET Nat,
     step : {"wait", "read", "clear", "flag", "probe", "check", "answer", "answered",
             "dropped"}]
Caches ==
    {r \in [best : IPs \cup {none}, nodes : SUBSET Nodes, info : SUBSET IPs,
            ip : Addrs \cup {none}] : IsFiniteSet(r.info)}
Pasts == [last : Seq(Named), bare : BOOLEAN, overtaken : BOOLEAN, cancels : Nat]

Typed ==
    /\ limit \in LimitSet
    /\ count \in Nat
    /\ cache \in Caches
    /\ updates \in Seq(Updates)
    /\ sorts \in Seq(Sorts)
    /\ lists \in Seq(Lists)
    /\ calls \in Seq(Calls)
    /\ past \in Pasts

-------------------------------------------------------------------------------
(* Measurements.                                                             *)

LEMMA Found ==
    ASSUME NEW nodes \in NodeLists
    PROVE  Resolved(nodes) \subseteq IPs
BY NodeAssumption DEF Resolved, IPs

LEMMA SomeAnswer ==
    ASSUME NEW nodes \in NodeLists, NEW ret \in SortStun(nodes)
    PROVE  ret \in Seq(Resolved(nodes)) /\ ret \in Seq(IPs)
<1> DEFINE found == {server \in nodes : HostnameToIP[server] # {}}
<1>1. IsFiniteSet(found)
  BY NodeAssumption, FS_Subset
<1>2. Cardinality(found) \in Nat
  BY <1>1, FS_CardinalityType
<1>3. PICK n \in 0..Cardinality(found) : ret \in [1..n -> Resolved(nodes)]
  BY DEF SortStun
<1>. HIDE DEF found
<1>4. n \in Nat
  BY <1>2
<1>5. ret \in Seq(Resolved(nodes))
  BY <1>3, <1>4
<1>. QED
  BY <1>5, Found, SeqMonotonic

-------------------------------------------------------------------------------
(* Types.                                                                    *)

LEMMA AsyncSort ==
    ASSUME Typed, NEW nodes \in NodeLists, NEW ip \in Addrs, NEW update \in Nat,
           asyncSort(nodes, ip, update)
    PROVE  /\ sorts' \in Seq(Sorts)
           /\ DOMAIN sorts' = DOMAIN sorts \cup {Len(sorts) + 1}
           /\ \A s \in DOMAIN sorts : sorts'[s] = sorts[s]
           /\ sorts'[Len(sorts) + 1].step = "probe"
           /\ sorts'[Len(sorts) + 1].update = update
<1> DEFINE r == [nodes |-> nodes, ip |-> ip, update |-> update,
                 ret |-> <<>>, save |-> FALSE, step |-> "probe"]
<1>1. r \in Sorts
  <2>1. <<>> \in Seq(Named)
    BY EmptySeq
  <2>. QED
    BY <2>1 DEF Sorts
<1>2. sorts' = Append(sorts, r) /\ sorts \in Seq(Sorts)
  BY DEF asyncSort, Typed
<1>3. r.step = "probe" /\ r.update = update
  OBVIOUS
<1>. HIDE DEF r
<1>4. /\ sorts' \in Seq(Sorts) /\ Len(sorts') = Len(sorts) + 1
      /\ \A s \in 1..Len(sorts) : sorts'[s] = sorts[s]
      /\ sorts'[Len(sorts) + 1] = r
  BY <1>1, <1>2, AppendProperties
<1>5. DOMAIN sorts = 1..Len(sorts) /\ DOMAIN sorts' = 1..Len(sorts') /\ Len(sorts) \in Nat
  BY <1>2, <1>4, LenProperties
<1>. QED
  BY <1>3, <1>4, <1>5

\* A step of a sort writes its own record.
LEMMA SortTypes ==
    ASSUME Typed, NEW s \in DOMAIN sorts,
           SortProbe(s) \/ SortReport(s) \/ SortSave(s) \/ SortSettle(s)
    PROVE  /\ Typed' /\ DOMAIN sorts' = DOMAIN sorts
           /\ \A r \in DOMAIN sorts : r # s => sorts'[r] = sorts[r]
           /\ sorts'[s].update = sorts[s].update
<1> USE DEF Typed
<1>0. sorts[s] \in Sorts /\ s \in 1..Len(sorts)
  BY LenProperties, ElementOfSeq
<1>1. CASE SortProbe(s)
  <2>1. PICK ret \in SortStun(sorts[s].nodes) :
            sorts' = [sorts EXCEPT ![s].ret = IF ret # <<>> THEN ret
                                              ELSE SetToSeq(sorts[s].nodes),
                                   ![s].save = ret # <<>>,
                                   ![s].step = "report"]
    BY <1>1 DEF SortProbe
  <2> DEFINE nodes == sorts[s].nodes
             told == IF ret # <<>> THEN ret ELSE SetToSeq(nodes)
             r == [sorts[s] EXCEPT !.ret = told, !.save = ret # <<>>, !.step = "report"]
  <2>2. nodes \in NodeLists /\ IsFiniteSet(nodes) /\ nodes \subseteq Nodes
    BY <1>0, NodeAssumption DEF Sorts
  <2>3. ret \in Seq(Resolved(nodes)) /\ ret \in Seq(Named)
    <3>1. IPs \subseteq Named
      BY DEF Named
    <3>. QED
      BY <2>2, <3>1, SomeAnswer, SeqMonotonic
  <2>4. SetToSeq(nodes) \in Seq(Named) /\ (nodes # {} => SetToSeq(nodes) # <<>>)
    <3>1. SetToSeq(nodes) \in Seq(nodes) /\ Len(SetToSeq(nodes)) = Cardinality(nodes)
      BY <2>2, AsSequence
    <3>2. nodes # {} => Cardinality(nodes) # 0
      BY <2>2, FS_EmptySet
    <3>3. nodes \subseteq Named
      BY <2>2 DEF Named
    <3>4. SetToSeq(nodes) \in Seq(Named)
      BY <3>1, <3>3, SeqMonotonic
    <3>. QED
      BY <3>1, <3>2, <3>4, EmptySeq
  <2>5. /\ told \in Seq(Named) /\ (nodes # {} => told # <<>>)
        /\ ret # <<>> => told = ret /\ told # <<>>
    BY <2>3, <2>4
  <2>6. sorts[s] \in [nodes : NodeLists, ip : Addrs, update : Nat, ret : Seq(Named),
            save : BOOLEAN, step : {"probe", "report", "save", "settle", "ended"}]
    BY <1>0 DEF Sorts
  <2>7. r \in Sorts
    <3>1. /\ r.nodes = nodes /\ r.ret = told /\ r.save = (ret # <<>>)
          /\ r.step = "report"
      BY <2>6
    <3>. HIDE DEF told
    <3>2. r \in [nodes : NodeLists, ip : Addrs, update : Nat, ret : Seq(Named),
            save : BOOLEAN, step : {"probe", "report", "save", "settle", "ended"}]
      BY <2>5, <2>6
    <3>. HIDE DEF r
    <3>. QED
      BY <2>3, <2>5, <3>1, <3>2 DEF Sorts
  <2>8. sorts' = [sorts EXCEPT ![s] = r]
    BY <2>1
  <2>9. r.update = sorts[s].update
    BY <1>0 DEF Sorts
  <2>. HIDE DEF r
  <2>. QED
    BY <1>0, <1>1, <2>7, <2>8, <2>9, Replaced DEF SortProbe
<1>2. CASE SortReport(s)
  <2> DEFINE r == [sorts[s] EXCEPT !.step = IF sorts[s].save THEN "save" ELSE "settle"]
  <2>1. r \in Sorts /\ r.update = sorts[s].update
    BY <1>0, <1>2 DEF SortReport, Sorts
  <2>2. sorts' = [sorts EXCEPT ![s] = r]
    BY <1>2 DEF SortReport
  <2>3. sorts[s].ret \in Seq(Named)
    BY <1>0 DEF Sorts
  <2>4. past' \in Pasts
    BY <1>2, <2>3 DEF SortReport, Reported, Pasts
  <2>5. UNCHANGED <<limit, count, cache, updates, lists, calls, current>>
    BY <1>2 DEF SortReport
  <2>. HIDE DEF r
  <2>. QED
    BY <1>0, <2>1, <2>2, <2>4, <2>5, Replaced
<1>3. CASE SortSave(s)
  <2> DEFINE r == [sorts[s] EXCEPT !.step = "settle"]
  <2>1. r \in Sorts /\ r.update = sorts[s].update
    BY <1>0, <1>3 DEF SortSave, Sorts
  <2>2. sorts' = [sorts EXCEPT ![s] = r]
    BY <1>3 DEF SortSave
  <2>3. /\ sorts[s].ret \in Seq(Resolved(sorts[s].nodes)) /\ sorts[s].ret # <<>>
        /\ sorts[s].nodes \in NodeLists /\ sorts[s].ip \in Addrs
    BY <1>0, <1>3 DEF SortSave, Sorts
  <2>a. sorts[s].ret \in Seq(IPs)
    BY <2>3, Found, SeqMonotonic
  <2>4. Head(sorts[s].ret) \in IPs /\ sorts[s].nodes \in SUBSET Nodes
    BY <2>3, <2>a, NodeAssumption, HeadTailProperties
  <2>5. ToSet(sorts[s].ret) \in SUBSET IPs /\ IsFiniteSet(ToSet(sorts[s].ret))
    BY <2>a, OfSequence
  <2>6. cache' \in Caches
    BY <1>3, <2>3, <2>4, <2>5 DEF SortSave, Caches
  <2>. HIDE DEF r
  <2>7. UNCHANGED <<limit, count, updates, lists, calls, current, past>>
    BY <1>3 DEF SortSave
  <2>. QED
    BY <1>0, <2>1, <2>2, <2>6, <2>7, Replaced
<1>4. CASE SortSettle(s)
  <2> DEFINE r == [sorts[s] EXCEPT !.step = "ended"]
  <2>1. r \in Sorts /\ r.update = sorts[s].update
    BY <1>0, <1>4 DEF SortSettle, Sorts
  <2>2. sorts' = [sorts EXCEPT ![s] = r]
    BY <1>4 DEF SortSettle
  <2>3. past' \in Pasts
    <3> HIDE DEF Typed
    <3>1. past \in Pasts
      BY DEF Typed
    <3>2. PICK o \in BOOLEAN : past' = [past EXCEPT !.overtaken = o]
      BY <1>4, <3>1 DEF SortSettle, Pasts
    <3>. QED
      BY <3>1, <3>2 DEF Pasts
  <2>. HIDE DEF r
  <2>. QED
    BY <1>0, <1>4, <2>1, <2>2, <2>3, Replaced DEF SortSettle
<1>. QED
  BY <1>1, <1>2, <1>3, <1>4

LEMMA UpdateTypes ==
    ASSUME Typed, NEW u \in DOMAIN updates,
           UpdateNodesInternal(u) \/ Response(u) \/ AutoDone(u)
    PROVE  /\ Typed' /\ DOMAIN updates' = DOMAIN updates
           /\ \A n \in DOMAIN updates : n # u => updates'[n] = updates[n]
<1>0. updates[u] \in Updates /\ u \in Nat /\ updates \in Seq(Updates)
  BY LenProperties, ElementOfSeq DEF Typed
<1>1. CASE UpdateNodesInternal(u)
  <2> DEFINE r == [updates[u] EXCEPT !.step = "response"]
  <2>1. r \in Updates /\ updates' = [updates EXCEPT ![u] = r]
    BY <1>0, <1>1 DEF UpdateNodesInternal, Updates
  <2>2. count' \in Nat /\ UNCHANGED <<limit, cache, sorts, lists, calls, current, past>>
    BY <1>1 DEF UpdateNodesInternal
  <2>. HIDE DEF r
  <2>. QED
    BY <1>0, <2>1, <2>2, Replaced DEF Typed
<1>2. CASE Response(u)
  <2>1. PICK r \in Updates : updates' = [updates EXCEPT ![u] = r]
    <3>1. CASE updates' = [updates EXCEPT ![u].step = "done"]
      <4> DEFINE r == [updates[u] EXCEPT !.step = "done"]
      <4>1. r \in Updates /\ updates' = [updates EXCEPT ![u] = r]
        BY <1>0, <3>1 DEF Updates
      <4>. QED
        BY <4>1
    <3>2. CASE updates' = [updates EXCEPT ![u].sort = TRUE, ![u].step = "done"]
      <4> DEFINE r == [updates[u] EXCEPT !.sort = TRUE, !.step = "done"]
      <4>1. r \in Updates /\ updates' = [updates EXCEPT ![u] = r]
        BY <1>0, <3>2 DEF Updates
      <4>. QED
        BY <4>1
    <3>. QED
      BY <1>2, <3>1, <3>2 DEF Response
  <2>2. UNCHANGED <<limit, count, cache, lists, calls, current, past>>
    BY <1>2 DEF Response
  <2>3. sorts' \in Seq(Sorts)
    <3>1. CASE UNCHANGED sorts
      BY <3>1 DEF Typed
    <3>2. CASE \E nodes \in NodeLists, ip \in Addrs : asyncSort(nodes, ip, u)
      BY <1>0, <3>2, AsyncSort
    <3>. QED
      BY <1>2, <3>1, <3>2 DEF Response
  <2>. QED
    BY <1>0, <2>1, <2>2, <2>3, Replaced DEF Typed
<1>3. CASE AutoDone(u)
  <2> DEFINE r == [updates[u] EXCEPT !.step = "ended"]
  <2>1. r \in Updates /\ updates' = [updates EXCEPT ![u] = r]
    BY <1>0, <1>3 DEF AutoDone, Updates
  <2>2. count' \in Nat /\ UNCHANGED <<limit, cache, sorts, lists, calls, current, past>>
    BY <1>3 DEF AutoDone
  <2>. HIDE DEF r
  <2>. QED
    BY <1>0, <2>1, <2>2, Replaced DEF Typed
<1>. QED
  BY <1>1, <1>2, <1>3

LEMMA ListReports ==
    ASSUME past \in Pasts, NEW list \in Lists, Reported(list)
    PROVE  past' \in Pasts
<1>1. list.ret \in Seq(IPs) /\ IPs \subseteq Named
  BY DEF Lists, Named
<1>2. list.ret \in Seq(Named)
  BY <1>1, SeqMonotonic
<1>. QED
  BY <1>2 DEF Reported, Pasts

LEMMA ListTypes ==
    ASSUME Typed, NEW l \in DOMAIN lists,
           \/ ListRead(l) \/ ListCached(l) \/ ListRefresh(l)
           \/ ListProbe(l) \/ ListReport(l) \/ ListWrite(l)
    PROVE  /\ Typed' /\ DOMAIN lists' = DOMAIN lists
           /\ \A n \in DOMAIN lists : n # l => lists'[n] = lists[n]
<1>0. lists[l] \in Lists /\ lists \in Seq(Lists)
  BY LenProperties, ElementOfSeq DEF Typed
<1>a. cache \in Caches /\ past \in Pasts
  BY DEF Typed
<1>1. CASE ListRead(l)
  <2>1. PICK step \in {"cached", "probe"} :
            lists' = [lists EXCEPT ![l].best = cache.best, ![l].ret = SetToSeq(cache.info),
                                   ![l].step = step]
    BY <1>1 DEF ListRead
  <2> DEFINE r == [lists[l] EXCEPT !.best = cache.best, !.ret = SetToSeq(cache.info),
                                   !.step = step]
  <2>2. SetToSeq(cache.info) \in Seq(IPs)
    <3>1. IsFiniteSet(cache.info) /\ cache.info \subseteq IPs
      BY <1>a DEF Caches
    <3>. QED
      BY <3>1, AsSequence, SeqMonotonic
  <2>3. r \in Lists
    BY <1>0, <1>a, <2>2 DEF Lists, Caches
  <2>4. lists' = [lists EXCEPT ![l] = r]
    BY <2>1
  <2>5. UNCHANGED <<limit, count, cache, updates, sorts, calls, current, past>>
    BY <1>1 DEF ListRead
  <2>. HIDE DEF r
  <2>. QED
    BY <1>0, <2>3, <2>4, <2>5, Replaced DEF Typed
<1>2. CASE ListCached(l)
  <2> DEFINE r == [lists[l] EXCEPT !.step = "refresh"]
  <2>1. r \in Lists /\ lists' = [lists EXCEPT ![l] = r]
    BY <1>0, <1>2 DEF ListCached, Lists
  <2>2. past' \in Pasts
    BY <1>0, <1>2, <1>a, ListReports DEF ListCached
  <2>3. UNCHANGED <<limit, count, cache, updates, sorts, calls, current>>
    BY <1>2 DEF ListCached
  <2>. HIDE DEF r
  <2>. QED
    BY <1>0, <2>1, <2>2, <2>3, Replaced DEF Typed
<1>3. CASE ListRefresh(l)
  <2> DEFINE r == [lists[l] EXCEPT !.step = "ended"]
  <2>1. r \in Lists /\ lists' = [lists EXCEPT ![l] = r]
    BY <1>0, <1>3 DEF ListRefresh, Lists
  <2>2. sorts' \in Seq(Sorts)
    <3>1. lists[l].nodes \in NodeLists /\ lists[l].ip \in Addrs
      BY <1>0 DEF Lists
    <3>. QED
      BY <1>3, <3>1, AsyncSort DEF ListRefresh
  <2>3. UNCHANGED <<limit, count, cache, updates, calls, current, past>>
    BY <1>3 DEF ListRefresh
  <2>. HIDE DEF r
  <2>. QED
    BY <1>0, <2>1, <2>2, <2>3, Replaced DEF Typed
<1>4. CASE ListProbe(l)
  <2>1. PICK ret \in SortStun(lists[l].nodes) :
            lists' = [lists EXCEPT ![l].ret = ret, ![l].step = "report",
                                   ![l].best = IF ret # <<>> THEN Head(ret) ELSE @]
    BY <1>4 DEF ListProbe
  <2> DEFINE best == IF ret # <<>> THEN Head(ret) ELSE lists[l].best
             r == [lists[l] EXCEPT !.ret = ret, !.step = "report", !.best = best]
  <2>2. ret \in Seq(Resolved(lists[l].nodes)) /\ ret \in Seq(IPs)
    BY <1>0, SomeAnswer DEF Lists
  <2>3. best \in IPs \cup {none} /\ (ret # <<>> => best = Head(ret))
    BY <1>0, <2>2, HeadTailProperties DEF Lists
  <2>4. r \in Lists
    <3>. HIDE DEF best
    <3>. QED
      BY <1>0, <2>2, <2>3 DEF Lists
  <2>5. lists' = [lists EXCEPT ![l] = r]
    BY <2>1
  <2>6. UNCHANGED <<limit, count, cache, updates, sorts, calls, current, past>>
    BY <1>4 DEF ListProbe
  <2>. HIDE DEF r
  <2>. QED
    BY <1>0, <2>4, <2>5, <2>6, Replaced DEF Typed
<1>5. CASE ListReport(l)
  <2> DEFINE r == [lists[l] EXCEPT !.step = "write"]
  <2>1. r \in Lists /\ lists' = [lists EXCEPT ![l] = r]
    BY <1>0, <1>5 DEF ListReport, Lists
  <2>2. sorts' \in Seq(Sorts) /\ past' \in Pasts
    <3>1. lists[l].nodes \in NodeLists /\ lists[l].ip \in Addrs
      BY <1>0 DEF Lists
    <3>2. CASE asyncSort(lists[l].nodes, lists[l].ip, 0) /\ UNCHANGED past
      BY <1>a, <3>1, <3>2, AsyncSort
    <3>3. CASE Reported(lists[l]) /\ UNCHANGED sorts
      <4>1. past' \in Pasts
        BY <1>0, <1>a, <3>3, ListReports
      <4>. QED
        BY <3>3, <4>1 DEF Typed
    <3>. QED
      BY <1>5, <3>2, <3>3 DEF ListReport
  <2>3. UNCHANGED <<limit, count, cache, updates, calls, current>>
    BY <1>5 DEF ListReport
  <2>. HIDE DEF r
  <2>. QED
    BY <1>0, <2>1, <2>2, <2>3, Replaced DEF Typed
<1>6. CASE ListWrite(l)
  <2> DEFINE r == [lists[l] EXCEPT !.step = "ended"]
  <2>1. r \in Lists /\ lists' = [lists EXCEPT ![l] = r]
    BY <1>0, <1>6 DEF ListWrite, Lists
  <2>2. cache' \in Caches
    <3>1. /\ lists[l].nodes \in NodeLists /\ lists[l].ip \in Addrs
          /\ lists[l].ret \in Seq(IPs) /\ lists[l].best \in IPs \cup {none}
      BY <1>0 DEF Lists
    <3>2. IsFiniteSet(ToSet(lists[l].ret)) /\ ToSet(lists[l].ret) \in SUBSET IPs
      BY <3>1, OfSequence
    <3>3. lists[l].nodes \in SUBSET Nodes
      BY <3>1, NodeAssumption
    <3>4. cache' = [best |-> lists[l].best, nodes |-> lists[l].nodes,
                    info |-> ToSet(lists[l].ret), ip |-> lists[l].ip]
      BY <1>6 DEF ListWrite
    <3>. QED
      BY <3>1, <3>2, <3>3, <3>4 DEF Caches
  <2>3. UNCHANGED <<limit, count, updates, sorts, calls, current, past>>
    BY <1>6 DEF ListWrite
  <2>. HIDE DEF r
  <2>. QED
    BY <1>0, <2>1, <2>2, <2>3, Replaced DEF Typed
<1>. QED
  BY <1>1, <1>2, <1>3, <1>4, <1>5, <1>6

\* What any step makes of the calls there are: only their own steps change what they
\* wait for, and nothing makes them patient but the end of their wait.
CallsKept ==
    /\ DOMAIN calls \subseteq DOMAIN calls'
    /\ \A c \in DOMAIN calls :
           /\ calls'[c].awaits = calls[c].awaits
           /\ calls'[c].patient => calls[c].patient \/ count = 0

LEMMA CallTypes ==
    ASSUME Typed, NEW c \in DOMAIN calls,
           \/ Wait(c) \/ ReadCache(c) \/ ClearCache(c) \/ SetConnectCancelFlag(c)
           \/ ProbeBest(c) \/ CheckCancelled(c) \/ Answer(c)
    PROVE  /\ Typed' /\ CallsKept /\ DOMAIN calls' = DOMAIN calls
           /\ UNCHANGED <<count, updates, sorts, lists, past>>
           /\ cache' # cache => cache'.best = none
<1>0. calls[c] \in Calls /\ calls \in Seq(Calls)
  BY LenProperties, ElementOfSeq DEF Typed
<1>a. cache \in Caches
  BY DEF Typed
<1>1. UNCHANGED <<limit, count, updates, sorts, lists, past>>
  BY DEF Wait, ReadCache, ClearCache, SetConnectCancelFlag, ProbeBest, CheckCancelled,
         Answer
<1>2. cache' \in Caches /\ (cache' # cache => cache'.best = none)
  <2>1. CASE ClearCache(c)
    BY <1>a, <2>1 DEF ClearCache, Caches
  <2>2. CASE UNCHANGED cache
    BY <1>a, <2>2
  <2>. QED
    BY <2>1, <2>2 DEF Wait, ReadCache, SetConnectCancelFlag, ProbeBest, CheckCancelled,
                      Answer
<1>3. CASE SetConnectCancelFlag(c)
  <2> DEFINE next(n) == IF n = c THEN [calls[n] EXCEPT !.step = "probe"]
                        ELSE IF n = current THEN [calls[n] EXCEPT !.cancelled = TRUE]
                        ELSE calls[n]
  <2>1. \A n \in DOMAIN calls : /\ next(n) \in Calls
                                /\ next(n).awaits = calls[n].awaits
                                /\ next(n).patient = calls[n].patient
    <3>. TAKE n \in DOMAIN calls
    <3>1. calls[n] \in Calls
      BY <1>0, LenProperties, ElementOfSeq
    <3>. QED
      BY <3>1 DEF Calls
  <2>2. calls' = [n \in DOMAIN calls |-> next(n)]
    BY <1>3 DEF SetConnectCancelFlag
  <2>. HIDE DEF next
  <2>3. calls' \in Seq(Calls) /\ DOMAIN calls' = DOMAIN calls
    BY <1>0, <2>1, <2>2, LenProperties
  <2>4. CallsKept
    BY <2>1, <2>2 DEF CallsKept
  <2>. QED
    BY <1>1, <1>2, <2>3, <2>4 DEF Typed
<1>4. CASE ~SetConnectCancelFlag(c)
  <2>1. PICK r \in Calls :
            /\ calls' = [calls EXCEPT ![c] = r]
            /\ r.awaits = calls[c].awaits
            /\ r.patient => calls[c].patient \/ count = 0
    <3>1. CASE Wait(c)
      <4> DEFINE r == [calls[c] EXCEPT !.step = "read", !.patient = (count = 0)]
      <4>1. r \in Calls /\ r.awaits = calls[c].awaits /\ (r.patient => count = 0)
        BY <1>0 DEF Calls
      <4>2. calls' = [calls EXCEPT ![c] = r]
        BY <3>1 DEF Wait
      <4>. QED
        BY <4>1, <4>2
    <3>2. CASE ~Wait(c)
      <4>1. PICK step \in {"clear", "answered", "flag", "dropped", "check", "answer"},
                 best \in IPs \cup {none} :
                calls' = [calls EXCEPT ![c].best = best, ![c].step = step]
        <5>1. \A step : [calls EXCEPT ![c].step = step]
                        = [calls EXCEPT ![c].best = calls[c].best, ![c].step = step]
          BY <1>0 DEF Calls
        <5>2. calls[c].best \in IPs \cup {none}
          BY <1>0, Zenon DEF Calls
        <5>3. CASE ReadCache(c)
          <6>1. cache.best \in IPs \cup {none}
            BY <1>a, Zenon DEF Caches
          <6>. QED
            BY <5>3, <6>1, Zenon DEF ReadCache
        <5>4. CASE ClearCache(c)
          BY <5>4 DEF ClearCache
        <5>5. CASE ProbeBest(c)
          <6>1. CASE calls' = [calls EXCEPT ![c].step = "dropped"]
            BY <5>1, <5>2, <6>1
          <6>2. CASE \E best \in {calls[c].best, none} :
                         calls' = [calls EXCEPT ![c].best = best, ![c].step = "check"]
            BY <5>2, <6>2
          <6>. QED
            BY <5>5, <6>1, <6>2 DEF ProbeBest
        <5>6. CASE CheckCancelled(c)
          BY <5>1, <5>2, <5>6 DEF CheckCancelled
        <5>7. CASE Answer(c)
          BY <5>1, <5>2, <5>7 DEF Answer
        <5>. QED
          BY <1>4, <3>2, <5>3, <5>4, <5>5, <5>6, <5>7
      <4> DEFINE r == [calls[c] EXCEPT !.best = best, !.step = step]
      <4>2. r \in Calls /\ r.awaits = calls[c].awaits /\ r.patient = calls[c].patient
        BY <1>0 DEF Calls
      <4>3. calls' = [calls EXCEPT ![c] = r]
        BY <4>1
      <4>. QED
        BY <4>2, <4>3
    <3>. QED
      BY <3>1, <3>2
  <2>2. /\ calls' \in Seq(Calls) /\ DOMAIN calls' = DOMAIN calls /\ calls'[c] = r
        /\ \A n \in DOMAIN calls : n # c => calls'[n] = calls[n]
    BY <1>0, <2>1, Replaced
  <2>3. CallsKept
    BY <2>1, <2>2 DEF CallsKept
  <2>. QED
    BY <1>1, <1>2, <2>2, <2>3 DEF Typed
<1>. QED
  BY <1>3, <1>4

LEMMA BeginTypes ==
    ASSUME Typed,
           UpdateNodes \/ NodeList \/ GetBestUrl \/ CancelConnectOperation
    PROVE  Typed' /\ CallsKept
<1>1. CASE UpdateNodes
  <2>1. updates' = Append(updates, [sort |-> FALSE, step |-> "probe"])
    BY <1>1 DEF UpdateNodes
  <2>2. [sort |-> FALSE, step |-> "probe"] \in Updates
    BY DEF Updates
  <2>3. UNCHANGED <<limit, count, cache, sorts, lists, calls, current, past>>
    BY <1>1 DEF UpdateNodes
  <2>. QED
    BY <2>1, <2>2, <2>3, AppendProperties DEF Typed, CallsKept
<1>2. CASE NodeList
  <2>1. PICK nodes \in NodeLists, ip \in Addrs, step \in {"refresh", "read"} :
            lists' = Append(lists, [nodes |-> nodes, ip |-> ip, best |-> none,
                                    ret |-> <<>>, step |-> step])
    BY <1>2 DEF NodeList
  <2>2. [nodes |-> nodes, ip |-> ip, best |-> none, ret |-> <<>>, step |-> step] \in Lists
    <3>1. <<>> \in Seq(IPs)
      BY EmptySeq
    <3>. QED
      BY <3>1 DEF Lists
  <2>3. UNCHANGED <<limit, count, cache, updates, sorts, calls, current, past>>
    BY <1>2 DEF NodeList
  <2>. QED
    BY <2>1, <2>2, <2>3, AppendProperties DEF Typed, CallsKept
<1>3. CASE GetBestUrl
  <2>1. PICK host \in Hosts, awaits \in SUBSET Nat, step \in {"answered", "wait"} :
            calls' = Append(calls, [host |-> host, best |-> none, cancelled |-> FALSE,
                patient |-> FALSE, awaits |-> awaits, step |-> step])
    <3>1. {u \in DOMAIN updates : updates[u].step \in {"response", "done"}} \in SUBSET Nat
      BY LenProperties DEF Typed
    <3>. QED
      BY <1>3, <3>1 DEF GetBestUrl
  <2> DEFINE r == [host |-> host, best |-> none, cancelled |-> FALSE,
                   patient |-> FALSE, awaits |-> awaits, step |-> step]
  <2>2. r \in Calls /\ calls' = Append(calls, r)
    BY <2>1 DEF Calls
  <2>3. UNCHANGED <<limit, count, cache, updates, sorts, lists, current, past>>
    BY <1>3 DEF GetBestUrl
  <2>. HIDE DEF r
  <2>4. /\ calls' \in Seq(Calls) /\ Len(calls') = Len(calls) + 1
        /\ \A i \in 1..Len(calls) : calls'[i] = calls[i]
    BY <2>2, AppendProperties DEF Typed
  <2>5. DOMAIN calls = 1..Len(calls) /\ DOMAIN calls' = 1..Len(calls')
        /\ Len(calls) \in Nat
    BY <2>4, LenProperties DEF Typed
  <2>6. CallsKept
    BY <2>4, <2>5 DEF CallsKept
  <2>. QED
    BY <2>3, <2>4, <2>6 DEF Typed
<1>4. CASE CancelConnectOperation
  <2> DEFINE next(n) == IF n = current THEN [calls[n] EXCEPT !.cancelled = TRUE]
                        ELSE calls[n]
  <2>0. calls \in Seq(Calls) /\ past \in Pasts
    BY DEF Typed
  <2>1. \A n \in DOMAIN calls : /\ next(n) \in Calls
                                /\ next(n).awaits = calls[n].awaits
                                /\ next(n).patient = calls[n].patient
    <3>. TAKE n \in DOMAIN calls
    <3>1. calls[n] \in Calls
      BY <2>0, LenProperties, ElementOfSeq
    <3>. QED
      BY <3>1 DEF Calls
  <2>2. calls' = [n \in DOMAIN calls |-> next(n)]
    BY <1>4 DEF CancelConnectOperation
  <2>. HIDE DEF next
  <2>3. calls' \in Seq(Calls)
    BY <2>0, <2>1, <2>2, LenProperties
  <2>4. CallsKept
    BY <2>1, <2>2 DEF CallsKept
  <2>5. past' \in Pasts /\ UNCHANGED <<limit, count, cache, updates, sorts, lists>>
    <3>0. past.cancels + 1 \in Nat
      BY <2>0 DEF Pasts
    <3>1. PICK cancels \in Nat : past' = [past EXCEPT !.cancels = cancels]
      BY <1>4, <3>0 DEF CancelConnectOperation
    <3>2. past' \in Pasts
      BY <2>0, <3>1 DEF Pasts
    <3>. QED
      BY <1>4, <3>2 DEF CancelConnectOperation
  <2>. QED
    BY <2>3, <2>4, <2>5 DEF Typed
<1>. QED
  BY <1>1, <1>2, <1>3, <1>4

-------------------------------------------------------------------------------
(* The invariant.                                                            *)

\* While nothing was reported, something that will report is on its way.
WillReport ==
    \/ past.last # <<>> \/ past.bare
    \/ sorts = <<>> /\ lists = <<>>
    \/ \E s \in DOMAIN sorts : sorts[s].step \in {"probe", "report"}
    \/ \E l \in DOMAIN lists :
           lists[l].step \in {"refresh", "read", "cached", "probe", "report"}

\* An update that sorts has its sort running when it ends, and so there is always
\* someone left who clears the count.
WillSettle ==
    past.overtaken = FALSE =>
        /\ count # 0 =>
              \/ \E u \in DOMAIN updates : updates[u].step \in {"response", "done"}
              \/ \E s \in DOMAIN sorts : sorts[s].step # "ended"
        /\ \A u \in DOMAIN updates :
              updates[u].step = "done" /\ updates[u].sort =>
                  \E s \in DOMAIN sorts : sorts[s].update = u /\ sorts[s].step # "ended"

\* The only update: it has one sort at most, and counts until that one is over.
Measuring == \E s \in DOMAIN sorts : sorts[s].step # "ended"
OneUpdate ==
    Len(updates) <= 1 /\ lists = <<>> =>
        /\ Len(sorts) <= 1
        /\ sorts # <<>> => /\ updates # <<>> /\ updates[1].sort
                           /\ updates[1].step \in {"done", "ended"}
        /\ updates # <<>> /\ updates[1].step = "response" => count # 0
        /\ Measuring => count # 0
        /\ \A c \in DOMAIN calls : 1 \in calls[c].awaits =>
               /\ updates # <<>> /\ updates[1].step # "probe"
               /\ calls[c].patient => updates[1].step # "response" /\ ~Measuring

Inv == Typed /\ CacheWhole /\ WillReport /\ WillSettle /\ OneUpdate

LEMMA CacheWholeKeeps ==
    ASSUME Typed, Typed', CacheWhole, [Next]_vars
    PROVE  CacheWhole'
<1>1. CASE UNCHANGED cache
  BY <1>1 DEF CacheWhole
<1>2. CASE SortStep
  <2>1. PICK s \in DOMAIN sorts :
            SortProbe(s) \/ SortReport(s) \/ SortSave(s) \/ SortSettle(s)
    BY <1>2 DEF SortStep
  <2>2. CASE SortSave(s)
    <3>1. /\ sorts[s].ret \in Seq(Resolved(sorts[s].nodes)) /\ sorts[s].ret # <<>>
      <4>1. sorts[s] \in Sorts
        BY LenProperties, ElementOfSeq DEF Typed
      <4>. QED
        BY <2>2, <4>1 DEF SortSave, Sorts
    <3>2. /\ Head(sorts[s].ret) \in ToSet(sorts[s].ret)
          /\ ToSet(sorts[s].ret) \subseteq Resolved(sorts[s].nodes)
      BY <3>1, OfSequence
    <3>. QED
      BY <2>2, <3>2 DEF SortSave, CacheWhole
  <2>. QED
    BY <1>1, <2>1, <2>2 DEF SortProbe, SortReport, SortSettle
<1>3. CASE ListStep
  <2>1. PICK l \in DOMAIN lists :
            \/ ListRead(l) \/ ListCached(l) \/ ListRefresh(l)
            \/ ListProbe(l) \/ ListReport(l) \/ ListWrite(l)
    BY <1>3 DEF ListStep
  <2>2. CASE ListWrite(l)
    <3>1. /\ lists[l].ret \in Seq(Resolved(lists[l].nodes))
          /\ lists[l].ret # <<>> => lists[l].best = Head(lists[l].ret)
      <4>1. lists[l] \in Lists
        BY LenProperties, ElementOfSeq DEF Typed
      <4>. QED
        BY <2>2, <4>1 DEF ListWrite, Lists
    <3>2. ToSet(lists[l].ret) \subseteq Resolved(lists[l].nodes)
      BY <3>1, OfSequence
    <3>3. CASE lists[l].ret = <<>>
      <4>1. ToSet(lists[l].ret) = {}
        BY <3>3 DEF ToSet
      <4>. QED
        BY <2>2, <4>1 DEF ListWrite, CacheWhole
    <3>4. CASE lists[l].ret # <<>>
      <4>1. lists[l].best \in ToSet(lists[l].ret)
        BY <3>1, <3>4, OfSequence
      <4>. QED
        BY <2>2, <3>2, <4>1 DEF ListWrite, CacheWhole
    <3>. QED
      BY <3>3, <3>4
  <2>. QED
    BY <1>1, <2>1, <2>2 DEF ListRead, ListCached, ListRefresh, ListProbe, ListReport
<1>4. CASE CallStep
  <2>1. cache' # cache => cache'.best = none
    BY <1>4, CallTypes DEF CallStep
  <2>. QED
    BY <1>1, <2>1 DEF CacheWhole
<1>5. CASE UpdateStep
  BY <1>1, <1>5 DEF UpdateStep, UpdateNodesInternal, Response, AutoDone
<1>6. CASE UpdateNodes \/ NodeList \/ GetBestUrl \/ CancelConnectOperation
  BY <1>1, <1>6 DEF UpdateNodes, NodeList, GetBestUrl, CancelConnectOperation
<1>7. CASE UNCHANGED vars
  BY <1>1, <1>7 DEF vars
<1>. QED
  BY <1>2, <1>3, <1>4, <1>5, <1>6, <1>7 DEF Next

LEMMA WillReportKeeps ==
    ASSUME Typed, Typed', WillReport, [Next]_vars
    PROVE  WillReport'
<1>0. sorts \in Seq(Sorts) /\ lists \in Seq(Lists)
  BY DEF Typed
<1>1. CASE UNCHANGED <<sorts, lists>> /\ past'.last = past.last /\ past'.bare = past.bare
  BY <1>1 DEF WillReport
<1>2. CASE \E s \in DOMAIN sorts' : sorts'[s].step = "probe"
  BY <1>2 DEF WillReport
<1>3. CASE SortStep
  <2>1. PICK s \in DOMAIN sorts :
            SortProbe(s) \/ SortReport(s) \/ SortSave(s) \/ SortSettle(s)
    BY <1>3, Zenon DEF SortStep
  <2>2. /\ DOMAIN sorts' = DOMAIN sorts /\ UNCHANGED lists
        /\ \A r \in DOMAIN sorts : r # s => sorts'[r] = sorts[r]
    BY <2>1, SortTypes, Zenon DEF SortProbe, SortReport, SortSave, SortSettle
  <2>3. CASE SortProbe(s)
    <3>1. sorts'[s].step = "report"
      <4>1. sorts[s] \in Sorts
        BY <1>0, LenProperties, ElementOfSeq
      <4>2. "step" \in DOMAIN sorts[s]
        BY <4>1 DEF Sorts
      <4>3. PICK ret \in SortStun(sorts[s].nodes) :
                sorts' = [sorts EXCEPT ![s].ret = IF ret # <<>> THEN ret
                                                  ELSE SetToSeq(sorts[s].nodes),
                                       ![s].save = ret # <<>>,
                                       ![s].step = "report"]
        BY <2>3 DEF SortProbe
      <4>. QED
        BY <4>2, <4>3
    <3>. QED
      BY <2>2, <3>1 DEF WillReport
  <2>4. CASE SortReport(s)
    <3>1. sorts[s].ret # <<>> \/ sorts[s].nodes = {}
      <4>1. sorts[s] \in Sorts
        BY <1>0, LenProperties, ElementOfSeq
      <4>2. sorts[s].step = "report"
        BY <2>4 DEF SortReport
      <4>. QED
        BY <4>1, <4>2 DEF Sorts
    <3>2. past'.last # <<>> \/ past'.bare
      BY <2>4, <3>1 DEF SortReport, Reported, Typed, Pasts
    <3>. QED
      BY <3>2 DEF WillReport
  <2>5. CASE SortSave(s) \/ SortSettle(s)
    <3>1. /\ sorts[s].step \notin {"probe", "report"}
          /\ past'.last = past.last /\ past'.bare = past.bare
      BY <2>5 DEF SortSave, SortSettle, Typed, Pasts
    <3>2. sorts # <<>>
      BY <1>0, <2>1, EmptySeq, LenProperties
    <3>. QED
      BY <2>2, <3>1, <3>2 DEF WillReport
  <2>. QED
    BY <2>1, <2>3, <2>4, <2>5
<1>4. CASE UpdateStep
  <2>1. PICK u \in DOMAIN updates : UpdateNodesInternal(u) \/ Response(u) \/ AutoDone(u)
    BY <1>4 DEF UpdateStep
  <2>2. u \in Nat
    BY LenProperties DEF Typed
  <2>3. CASE \E nodes \in NodeLists, ip \in Addrs : asyncSort(nodes, ip, u)
    BY <1>2, <2>2, <2>3, AsyncSort
  <2>. QED
    BY <1>1, <2>1, <2>3 DEF UpdateNodesInternal, Response, AutoDone
<1>5. CASE ListStep
  <2>1. PICK l \in DOMAIN lists :
            \/ ListRead(l) \/ ListCached(l) \/ ListRefresh(l)
            \/ ListProbe(l) \/ ListReport(l) \/ ListWrite(l)
    BY <1>5 DEF ListStep
  <2>2. lists[l] \in Lists /\ l \in DOMAIN lists'
    BY <1>0, <2>1, LenProperties, ElementOfSeq, ListTypes
  <2>3. CASE ListRead(l)
    <3>1. lists'[l].step \in {"cached", "probe"}
      <4>1. PICK step \in {"cached", "probe"}, r \in Lists :
                /\ lists' = [lists EXCEPT ![l].best = cache.best,
                               ![l].ret = SetToSeq(cache.info), ![l].step = step]
                /\ lists[l] = r
        BY <2>2, <2>3 DEF ListRead
      <4>2. lists'[l].step = step
        BY <2>1, <4>1 DEF Lists
      <4>. QED
        BY <4>1, <4>2
    <3>. QED
      BY <2>2, <3>1 DEF WillReport
  <2>4. CASE ListCached(l)
    <3>1. lists'[l].step = "refresh"
      BY <2>2, <2>4 DEF ListCached, Lists
    <3>. QED
      BY <2>2, <3>1 DEF WillReport
  <2>5. CASE ListProbe(l)
    <3>1. lists'[l].step = "report"
      <4>1. PICK ret \in SortStun(lists[l].nodes) :
                lists' = [lists EXCEPT ![l].ret = ret, ![l].step = "report",
                                       ![l].best = IF ret # <<>> THEN Head(ret) ELSE @]
        BY <2>5 DEF ListProbe
      <4>2. "step" \in DOMAIN lists[l]
        BY <2>2 DEF Lists
      <4>. QED
        BY <2>1, <4>1, <4>2
    <3>. QED
      BY <2>2, <3>1 DEF WillReport
  <2>6. CASE asyncSort(lists[l].nodes, lists[l].ip, 0)
    <3>1. lists[l].nodes \in NodeLists /\ lists[l].ip \in Addrs
      BY <2>2 DEF Lists
    <3>. QED
      BY <1>2, <2>6, <3>1, AsyncSort
  <2>7. CASE ListReport(l) /\ Reported(lists[l])
                          /\ ~(Len(lists[l].ret) < Cardinality(lists[l].nodes))
    <3>1. IsFiniteSet(lists[l].nodes)
      BY <2>2, NodeAssumption DEF Lists
    <3>2. lists[l].nodes # {} => Cardinality(lists[l].nodes) \in Nat \ {0}
      BY <3>1, FS_CardinalityType, FS_EmptySet
    <3>3. lists[l].ret # <<>> \/ lists[l].nodes = {}
      BY <2>7, <3>2, EmptySeq
    <3>4. past'.last # <<>> \/ past'.bare
      BY <2>7, <3>3 DEF Reported, Typed, Pasts
    <3>. QED
      BY <3>4 DEF WillReport
  <2>8. CASE ListWrite(l)
    <3>1. lists[l].step = "write" /\ UNCHANGED <<sorts, past>>
      BY <2>8 DEF ListWrite
    <3>2. \A n \in DOMAIN lists : n # l => lists'[n] = lists[n] /\ n \in DOMAIN lists'
      BY <2>8, ListTypes
    <3>3. lists # <<>>
      BY <1>0, <2>1, EmptySeq, LenProperties
    <3>. QED
      BY <3>1, <3>2, <3>3 DEF WillReport
  <2>. QED
    BY <2>1, <2>3, <2>4, <2>5, <2>6, <2>7, <2>8 DEF ListRefresh, ListReport
<1>6. CASE NodeList
  <2>1. PICK r : lists' = Append(lists, r) /\ r.step \in {"refresh", "read"}
    BY <1>6 DEF NodeList
  <2>2. lists' \in Seq(Lists)
    BY DEF Typed
  <2>3. Len(lists) + 1 \in DOMAIN lists' /\ lists'[Len(lists) + 1] = r
    BY <1>0, <2>1
  <2>. QED
    BY <2>1, <2>3 DEF WillReport
<1>7. CASE CallStep
  BY <1>1, <1>7, CallTypes DEF CallStep
<1>8. CASE UpdateNodes \/ GetBestUrl \/ CancelConnectOperation
  BY <1>1, <1>8 DEF UpdateNodes, GetBestUrl, CancelConnectOperation, Typed, Pasts
<1>9. CASE UNCHANGED vars
  BY <1>1, <1>9 DEF vars
<1>. QED
  BY <1>3, <1>4, <1>5, <1>6, <1>7, <1>8, <1>9 DEF Next

\* What a step does to the updates, the sorts and the count.
LEMMA ListEffects ==
    ASSUME Typed, ListStep
    PROVE  /\ UNCHANGED <<count, updates, calls>> /\ past'.overtaken = past.overtaken
           /\ \/ UNCHANGED sorts
              \/ \E nodes \in NodeLists, ip \in Addrs : asyncSort(nodes, ip, 0)
           /\ lists # <<>> /\ lists' # <<>>
<1>1. PICK l \in DOMAIN lists :
          \/ ListRead(l) \/ ListCached(l) \/ ListRefresh(l)
          \/ ListProbe(l) \/ ListReport(l) \/ ListWrite(l)
  BY DEF ListStep
<1>2. lists[l] \in Lists
  BY LenProperties, ElementOfSeq DEF Typed
<1>3. lists[l].nodes \in NodeLists /\ lists[l].ip \in Addrs
  BY <1>2 DEF Lists
<1>4. l \in DOMAIN lists' /\ lists' \in Seq(Lists) /\ lists \in Seq(Lists)
  BY <1>1, ListTypes DEF Typed
<1>5. lists # <<>> /\ lists' # <<>>
  BY <1>1, <1>4, EmptySeq, LenProperties
<1>6. UNCHANGED <<count, updates, calls>>
  BY <1>1 DEF ListRead, ListCached, ListRefresh, ListProbe, ListReport, ListWrite
<1>7. past'.overtaken = past.overtaken
  BY <1>1 DEF ListRead, ListCached, ListRefresh, ListProbe, ListReport, ListWrite, Reported,
              Typed, Pasts
<1>8. UNCHANGED sorts \/ asyncSort(lists[l].nodes, lists[l].ip, 0)
  BY <1>1 DEF ListRead, ListCached, ListRefresh, ListProbe, ListReport, ListWrite
<1>. QED
  BY <1>3, <1>5, <1>6, <1>7, <1>8

LEMMA SortEffects ==
    ASSUME Typed, NEW s \in DOMAIN sorts,
           SortProbe(s) \/ SortReport(s) \/ SortSave(s) \/ SortSettle(s)
    PROVE  /\ UNCHANGED <<updates, lists, calls>>
           /\ sorts[s].step # "ended" /\ sorts'[s].update = sorts[s].update
           /\ \/ /\ UNCHANGED count /\ past'.overtaken = past.overtaken
                 /\ sorts'[s].step # "ended"
              \/ /\ count' = 0
                 /\ past'.overtaken = FALSE =>
                       /\ past.overtaken = FALSE
                       /\ sorts[s].update # 0 => updates[sorts[s].update].step = "ended"
<1>1. sorts[s] \in Sorts /\ past \in Pasts
  BY LenProperties, ElementOfSeq DEF Typed
<1>2. {"step", "update"} \subseteq DOMAIN sorts[s]
  BY <1>1 DEF Sorts
<1>3. {"last", "overtaken"} \subseteq DOMAIN past /\ past.overtaken \in BOOLEAN
  BY <1>1 DEF Pasts
<1>4. sorts'[s].update = sorts[s].update
  BY SortTypes
<1>5. CASE SortProbe(s)
  <2>1. PICK ret \in SortStun(sorts[s].nodes) :
            sorts' = [sorts EXCEPT ![s].ret = IF ret # <<>> THEN ret
                                              ELSE SetToSeq(sorts[s].nodes),
                                   ![s].save = ret # <<>>,
                                   ![s].step = "report"]
    BY <1>5 DEF SortProbe
  <2>2. sorts'[s].step = "report"
    BY <1>2, <2>1
  <2>. QED
    BY <1>4, <1>5, <2>2 DEF SortProbe
<1>6. CASE SortReport(s)
  <2>1. sorts'[s].step \in {"save", "settle"}
    BY <1>2, <1>6 DEF SortReport
  <2>2. past'.overtaken = past.overtaken
    BY <1>3, <1>6 DEF SortReport, Reported
  <2>. QED
    BY <1>4, <1>6, <2>1, <2>2 DEF SortReport
<1>7. CASE SortSave(s)
  <2>1. sorts'[s].step = "settle"
    BY <1>2, <1>7 DEF SortSave
  <2>. QED
    BY <1>4, <1>7, <2>1 DEF SortSave
<1>8. CASE SortSettle(s)
  <2> DEFINE late == sorts[s].update # 0 /\ updates[sorts[s].update].step # "ended"
  <2>1. past' = [past EXCEPT !.overtaken = @ \/ late]
    BY <1>8 DEF SortSettle
  <2>2. past'.overtaken = (past.overtaken \/ late)
    <3>. HIDE DEF late
    <3>. QED
      BY <1>3, <2>1
  <2>. QED
    BY <1>3, <1>4, <1>8, <2>2 DEF SortSettle
<1>. QED
  BY <1>5, <1>6, <1>7, <1>8

LEMMA WillSettleKeeps ==
    ASSUME Typed, Typed', WillSettle, [Next]_vars
    PROVE  WillSettle'
<1>0. sorts \in Seq(Sorts) /\ updates \in Seq(Updates)
  BY DEF Typed
<1>1. CASE UNCHANGED <<count, updates, sorts>> /\ past'.overtaken = past.overtaken
  BY <1>1 DEF WillSettle
<1>2. ASSUME UNCHANGED <<count, updates>>, past'.overtaken = past.overtaken,
             NEW nodes \in NodeLists, NEW ip \in Addrs, NEW n \in Nat,
             asyncSort(nodes, ip, n)
      PROVE  WillSettle'
  <2>1. DOMAIN sorts \subseteq DOMAIN sorts' /\ \A s \in DOMAIN sorts : sorts'[s] = sorts[s]
    BY <1>2, AsyncSort
  <2>. QED
    BY <1>2, <2>1 DEF WillSettle
<1>3. CASE SortStep
  <2>1. PICK s \in DOMAIN sorts :
            SortProbe(s) \/ SortReport(s) \/ SortSave(s) \/ SortSettle(s)
    BY <1>3 DEF SortStep
  <2>2. /\ DOMAIN sorts' = DOMAIN sorts /\ sorts'[s].update = sorts[s].update
        /\ \A r \in DOMAIN sorts : r # s => sorts'[r] = sorts[r]
    BY <2>1, SortTypes
  <2>3. UNCHANGED updates /\ sorts[s].step # "ended"
    BY <2>1, SortEffects
  <2>4. CASE /\ UNCHANGED count /\ past'.overtaken = past.overtaken
             /\ sorts'[s].step # "ended"
    <3>1. \A r \in DOMAIN sorts : sorts[r].step # "ended" => sorts'[r].step # "ended"
      BY <2>2, <2>4
    <3>2. \A r \in DOMAIN sorts : sorts'[r].update = sorts[r].update
      BY <2>2
    <3>. QED
      BY <2>2, <2>3, <2>4, <3>1, <3>2 DEF WillSettle
  <2>5. CASE /\ count' = 0
             /\ past'.overtaken = FALSE =>
                   /\ past.overtaken = FALSE
                   /\ sorts[s].update # 0 => updates[sorts[s].update].step = "ended"
    <3>1. \A u \in DOMAIN updates : u # 0
      BY <1>0, LenProperties
    <3>2. ASSUME past'.overtaken = FALSE, NEW u \in DOMAIN updates,
                 updates[u].step = "done", updates[u].sort
          PROVE  \E r \in DOMAIN sorts' : sorts'[r].update = u /\ sorts'[r].step # "ended"
      <4>1. PICK r \in DOMAIN sorts : sorts[r].update = u /\ sorts[r].step # "ended"
        BY <2>5, <3>2 DEF WillSettle
      <4>2. r # s
        BY <2>5, <3>1, <3>2, <4>1
      <4>. QED
        BY <2>2, <4>1, <4>2
    <3>. QED
      BY <2>3, <2>5, <3>2 DEF WillSettle
  <2>. QED
    BY <2>1, <2>4, <2>5, SortEffects
<1>4. CASE UpdateStep
  <2>1. PICK u \in DOMAIN updates : UpdateNodesInternal(u) \/ Response(u) \/ AutoDone(u)
    BY <1>4 DEF UpdateStep
  <2>2. /\ DOMAIN updates' = DOMAIN updates /\ updates[u] \in Updates
        /\ \A n \in DOMAIN updates : n # u => updates'[n] = updates[n]
    BY <1>0, <2>1, LenProperties, ElementOfSeq, UpdateTypes
  <2>3. u \in Nat /\ {"sort", "step"} \subseteq DOMAIN updates[u]
    BY <1>0, <2>2, LenProperties DEF Updates
  <2>4. CASE UpdateNodesInternal(u)
    <3>1. updates'[u].step = "response" /\ UNCHANGED <<sorts, past>>
      BY <2>3, <2>4 DEF UpdateNodesInternal
    <3>. QED
      BY <2>2, <3>1 DEF WillSettle
  <2>5. CASE Response(u)
    <3>1. UNCHANGED past /\ updates'[u].step = "done"
      BY <2>3, <2>5 DEF Response
    <3>2. CASE updates' = [updates EXCEPT ![u].step = "done"] /\ UNCHANGED sorts
      <4>1. ~updates[u].sort
        <5>1. updates[u].step = "response"
          BY <2>5 DEF Response
        <5>. QED
          BY <2>2, <5>1 DEF Updates
      <4>2. ~updates'[u].sort
        BY <2>3, <3>2, <4>1
      <4>3. \A n \in DOMAIN updates' :
                updates'[n].step = "done" /\ updates'[n].sort =>
                    updates[n].step = "done" /\ updates[n].sort
        BY <2>2, <4>2
      <4>4. updates'[u].step \in {"response", "done"} /\ u \in DOMAIN updates'
        BY <2>1, <2>2, <3>1
      <4>. QED
        BY <2>2, <3>1, <3>2, <4>3, <4>4 DEF WillSettle
    <3>3. CASE \E nodes \in NodeLists, ip \in Addrs : asyncSort(nodes, ip, u)
      <4>1. PICK nodes \in NodeLists, ip \in Addrs : asyncSort(nodes, ip, u)
        BY <3>3
      <4>2. /\ DOMAIN sorts \subseteq DOMAIN sorts'
            /\ \A s \in DOMAIN sorts : sorts'[s] = sorts[s]
            /\ \E s \in DOMAIN sorts' : sorts'[s].update = u /\ sorts'[s].step # "ended"
        BY <2>3, <4>1, AsyncSort
      <4>. QED
        BY <2>2, <3>1, <4>2 DEF WillSettle
    <3>. QED
      BY <2>5, <3>2, <3>3 DEF Response
  <2>6. CASE AutoDone(u)
    <3>1. /\ updates[u].step = "done" /\ updates'[u].step = "ended"
          /\ UNCHANGED <<sorts, past>>
          /\ count' # 0 => updates[u].sort
      BY <2>3, <2>6 DEF AutoDone
    <3>. QED
      BY <2>2, <3>1 DEF WillSettle
  <2>. QED
    BY <2>1, <2>4, <2>5, <2>6
<1>5. CASE ListStep
  <2>1. CASE UNCHANGED sorts
    BY <1>1, <1>5, <2>1, ListEffects
  <2>2. CASE \E nodes \in NodeLists, ip \in Addrs : asyncSort(nodes, ip, 0)
    BY <1>2, <1>5, <2>2, ListEffects
  <2>. QED
    BY <1>5, <2>1, <2>2, ListEffects
<1>6. CASE UpdateNodes
  <2>1. updates' = Append(updates, [sort |-> FALSE, step |-> "probe"])
        /\ UNCHANGED <<count, sorts, past>>
    BY <1>6 DEF UpdateNodes
  <2>2. [sort |-> FALSE, step |-> "probe"] \in Updates
    BY DEF Updates
  <2>3. /\ Len(updates') = Len(updates) + 1 /\ updates' \in Seq(Updates)
        /\ \A i \in 1..Len(updates) : updates'[i] = updates[i]
        /\ updates'[Len(updates) + 1].step = "probe"
    BY <1>0, <2>1, <2>2, AppendProperties
  <2>4. DOMAIN updates = 1..Len(updates) /\ DOMAIN updates' = 1..Len(updates')
        /\ Len(updates) \in Nat
    BY <1>0, <2>3, LenProperties
  <2>. QED
    BY <2>1, <2>3, <2>4 DEF WillSettle
<1>7. CASE CallStep
  BY <1>1, <1>7, CallTypes DEF CallStep
<1>8. CASE NodeList \/ GetBestUrl \/ CancelConnectOperation
  BY <1>1, <1>8 DEF NodeList, GetBestUrl, CancelConnectOperation, Typed, Pasts
<1>9. CASE UNCHANGED vars
  BY <1>1, <1>9 DEF vars
<1>. QED
  BY <1>3, <1>4, <1>5, <1>6, <1>7, <1>8, <1>9 DEF Next

LEMMA OneUpdateKeeps ==
    ASSUME Typed, Typed', OneUpdate, [Next]_vars
    PROVE  OneUpdate'
<1>0. /\ sorts \in Seq(Sorts) /\ updates \in Seq(Updates) /\ lists \in Seq(Lists)
      /\ calls \in Seq(Calls) /\ sorts' \in Seq(Sorts) /\ updates' \in Seq(Updates)
  BY DEF Typed
<1>1. CASE UNCHANGED <<count, updates, sorts, lists>> /\ CallsKept /\ DOMAIN calls' = DOMAIN calls
  BY <1>1 DEF OneUpdate, CallsKept, Measuring
<1>2. CASE UNCHANGED vars
  BY <1>2 DEF vars, OneUpdate, Measuring
<1>3. CASE NodeList \/ ListStep
  <2>1. lists' # <<>>
    <3>1. CASE NodeList
      <4>1. PICK r : lists' = Append(lists, r)
        BY <3>1 DEF NodeList
      <4>. QED
        BY <1>0, <4>1
    <3>. QED
      BY <1>3, <3>1, ListEffects
  <2>. QED
    BY <2>1 DEF OneUpdate
<1>4. SUFFICES ASSUME Len(updates') <= 1, lists' = <<>>, lists = <<>>,
                      ~NodeList, ~ListStep, ~UNCHANGED vars
               PROVE  OneUpdate'
  <2>1. lists' = <<>> => NodeList \/ ListStep \/ UNCHANGED vars \/ lists = <<>>
    <3>1. CASE SortStep
      BY <3>1, SortEffects DEF SortStep
    <3>2. CASE UpdateStep
      BY <3>2 DEF UpdateStep, UpdateNodesInternal, Response, AutoDone
    <3>3. CASE CallStep
      BY <3>3, CallTypes DEF CallStep
    <3>4. CASE UpdateNodes \/ GetBestUrl \/ CancelConnectOperation
      BY <3>4 DEF UpdateNodes, GetBestUrl, CancelConnectOperation
    <3>. QED
      BY <3>1, <3>2, <3>3, <3>4 DEF Next
  <2>. QED
    BY <1>2, <1>3, <2>1 DEF OneUpdate
<1>5. CASE SortStep
  <2>1. PICK s \in DOMAIN sorts :
            SortProbe(s) \/ SortReport(s) \/ SortSave(s) \/ SortSettle(s)
    BY <1>5 DEF SortStep
  <2>2. /\ DOMAIN sorts' = DOMAIN sorts
        /\ \A r \in DOMAIN sorts : r # s => sorts'[r] = sorts[r]
    BY <2>1, SortTypes
  <2>3. UNCHANGED <<updates, lists, calls>> /\ sorts[s].step # "ended"
    BY <2>1, SortEffects
  <2>4. /\ Len(sorts) <= 1 /\ Len(sorts') = Len(sorts) /\ sorts' # <<>> /\ sorts # <<>>
        /\ s = 1 /\ DOMAIN sorts = {1}
    <3>1. Len(sorts) <= 1
      BY <1>4, <2>3 DEF OneUpdate
    <3>2. s \in 1..Len(sorts) /\ Len(sorts) \in Nat /\ 1..Len(sorts') = 1..Len(sorts)
          /\ Len(sorts') \in Nat /\ DOMAIN sorts = 1..Len(sorts)
      BY <1>0, <2>1, <2>2, LenProperties
    <3>3. Len(sorts) = 1 /\ Len(sorts') = 1
      <4>1. Len(sorts') = Len(sorts)
        BY <3>2, SameInterval
      <4>. QED
        BY <3>1, <3>2, <4>1
    <3>4. sorts # <<>> /\ sorts' # <<>>
      BY <3>3, EmptySeq
    <3>5. s = 1 /\ DOMAIN sorts = {1}
      BY <3>2, <3>3
    <3>. QED
      BY <3>3, <3>4, <3>5
  <2>5. Measuring
    BY <2>1, <2>3 DEF Measuring
  <2>6. CASE UNCHANGED count /\ sorts'[s].step # "ended"
    <3>1. Measuring'
      BY <2>2, <2>6, <2>1 DEF Measuring
    <3>. QED
      BY <1>4, <2>3, <2>4, <2>5, <2>6, <3>1 DEF OneUpdate
  <2>7. CASE SortSettle(s)
    <3>1. count' = 0
      BY <2>7 DEF SortSettle
    <3>2. ~Measuring'
      <4>1. sorts[s] \in Sorts
        BY <1>0, <2>1, LenProperties, ElementOfSeq
      <4>2. "step" \in DOMAIN sorts[s]
        BY <4>1 DEF Sorts
      <4>3. sorts'[s].step = "ended"
        BY <2>1, <2>7, <4>2 DEF SortSettle
      <4>. QED
        BY <2>2, <2>4, <4>3 DEF Measuring
    <3>3. updates # <<>> /\ updates[1].step \in {"done", "ended"} /\ updates[1].sort
      BY <1>4, <2>3, <2>4 DEF OneUpdate
    <3>. QED
      BY <1>4, <2>3, <2>4, <2>5, <3>1, <3>2, <3>3 DEF OneUpdate
  <2>. QED
    <3>1. SortSettle(s) \/ (UNCHANGED count /\ sorts'[s].step # "ended")
      <4>1. sorts[s] \in Sorts
        BY <1>0, <2>1, LenProperties, ElementOfSeq
      <4>2. "step" \in DOMAIN sorts[s]
        BY <4>1 DEF Sorts
      <4>3. CASE SortProbe(s)
        <5>1. PICK ret \in SortStun(sorts[s].nodes) :
                  sorts' = [sorts EXCEPT ![s].ret = IF ret # <<>> THEN ret
                                                    ELSE SetToSeq(sorts[s].nodes),
                                         ![s].save = ret # <<>>,
                                         ![s].step = "report"]
          BY <4>3 DEF SortProbe
        <5>. QED
          BY <2>1, <4>2, <4>3, <5>1 DEF SortProbe
      <4>4. CASE SortReport(s) \/ SortSave(s)
        BY <2>1, <4>2, <4>4 DEF SortReport, SortSave
      <4>. QED
        BY <2>1, <4>3, <4>4
    <3>. QED
      BY <2>6, <2>7, <3>1
<1>6. CASE UpdateStep
  <2>1. PICK u \in DOMAIN updates : UpdateNodesInternal(u) \/ Response(u) \/ AutoDone(u)
    BY <1>6 DEF UpdateStep
  <2>2. /\ DOMAIN updates' = DOMAIN updates /\ updates[u] \in Updates
        /\ {"sort", "step"} \subseteq DOMAIN updates[u]
    BY <1>0, <2>1, LenProperties, ElementOfSeq, UpdateTypes DEF Updates
  <2>3. u = 1 /\ updates # <<>> /\ updates' # <<>> /\ Len(updates) <= 1
    <3>1. u \in 1..Len(updates) /\ Len(updates) \in Nat /\ Len(updates') \in Nat
          /\ 1..Len(updates') = 1..Len(updates)
      BY <1>0, <2>1, <2>2, LenProperties
    <3>2. Len(updates') = Len(updates)
      BY <3>1, SameInterval
    <3>3. Len(updates') = 1 /\ Len(updates) = 1
      BY <1>4, <3>1, <3>2
    <3>4. updates # <<>> /\ updates' # <<>>
      BY <3>3, EmptySeq
    <3>. QED
      BY <3>1, <3>3, <3>4
  <2>4. UNCHANGED calls
    BY <2>1 DEF UpdateNodesInternal, Response, AutoDone
  <2>5. CASE UpdateNodesInternal(u)
    <3>1. /\ updates[u].step = "probe" /\ updates'[u].step = "response"
          /\ UNCHANGED sorts /\ count' = 2
      BY <2>1, <2>2, <2>5 DEF UpdateNodesInternal
    <3>2. sorts = <<>>
      BY <1>4, <2>3, <3>1 DEF OneUpdate
    <3>3. ~Measuring'
      BY <3>1, <3>2 DEF Measuring
    <3>4. \A c \in DOMAIN calls : 1 \notin calls[c].awaits
      BY <1>4, <2>3, <3>1 DEF OneUpdate
    <3>5. Len(sorts) <= 1
      BY <3>2, EmptySeq
    <3>. QED
      BY <2>3, <2>4, <3>1, <3>2, <3>3, <3>4, <3>5 DEF OneUpdate
  <2>6. CASE Response(u)
    <3>1. /\ updates[u].step = "response" /\ updates'[u].step = "done"
          /\ UNCHANGED count
      BY <2>1, <2>2, <2>6 DEF Response
    <3>2. sorts = <<>> /\ count # 0
      BY <1>4, <2>3, <3>1 DEF OneUpdate
    <3>3. \A c \in DOMAIN calls : 1 \in calls[c].awaits => ~calls[c].patient
      BY <1>4, <2>3, <3>1 DEF OneUpdate
    <3>4. Len(sorts') <= 1 /\ (sorts' # <<>> => updates'[u].sort)
      <4>1. CASE UNCHANGED sorts
        BY <3>2, <4>1, EmptySeq
      <4>2. CASE /\ updates' = [updates EXCEPT ![u].sort = TRUE, ![u].step = "done"]
                 /\ \E nodes \in NodeLists, ip \in Addrs : asyncSort(nodes, ip, u)
        <5>1. updates'[u].sort
          BY <2>1, <2>2, <4>2
        <5>2. Len(sorts') = 1
          <6>1. PICK r : sorts' = Append(sorts, r)
            BY <4>2 DEF asyncSort
          <6>. QED
            BY <1>0, <3>2, <6>1
        <5>. QED
          BY <5>1, <5>2
      <4>. QED
        BY <2>6, <4>1, <4>2 DEF Response
    <3>. QED
      BY <2>3, <2>4, <3>1, <3>2, <3>3, <3>4 DEF OneUpdate
  <2>7. CASE AutoDone(u)
    <3>1. /\ updates[u].step = "done" /\ updates'[u].step = "ended"
          /\ updates'[u].sort = updates[u].sort
          /\ UNCHANGED sorts
          /\ updates[u].sort => count' # 0
      BY <2>1, <2>2, <2>7 DEF AutoDone
    <3>2. Measuring' = Measuring
      BY <3>1 DEF Measuring
    <3>3. Measuring => sorts # <<>>
      BY DEF Measuring
    <3>. QED
      BY <1>4, <2>3, <2>4, <3>1, <3>2, <3>3 DEF OneUpdate
  <2>. QED
    BY <2>1, <2>5, <2>6, <2>7
<1>7. CASE UpdateNodes
  <2>1. updates' = Append(updates, [sort |-> FALSE, step |-> "probe"])
        /\ UNCHANGED <<count, sorts, calls>>
    BY <1>7 DEF UpdateNodes
  <2>2. Len(updates') = Len(updates) + 1 /\ Len(updates) \in Nat
    BY <1>0, <2>1, LenProperties
  <2>3. updates = <<>>
    BY <1>0, <1>4, <2>2
  <2>4. sorts = <<>> /\ \A c \in DOMAIN calls : 1 \notin calls[c].awaits
    BY <1>4, <2>3 DEF OneUpdate
  <2>5. updates'[1].step = "probe" /\ updates' # <<>>
    BY <2>1, <2>3
  <2>6. ~Measuring'
    BY <2>1, <2>4 DEF Measuring
  <2>7. Len(sorts') <= 1
    BY <2>1, <2>4, EmptySeq
  <2>. QED
    BY <2>1, <2>4, <2>5, <2>6, <2>7 DEF OneUpdate
<1>8. CASE GetBestUrl
  <2>1. UNCHANGED <<count, updates, sorts>>
    BY <1>8 DEF GetBestUrl
  <2>2. PICK r : /\ calls' = Append(calls, r)
                 /\ r.patient = FALSE
                 /\ r.awaits = {u \in DOMAIN updates :
                                   updates[u].step \in {"response", "done"}}
    BY <1>8 DEF GetBestUrl
  <2>3. \A c \in DOMAIN calls' : calls'[c] = r \/ (c \in DOMAIN calls /\ calls'[c] = calls[c])
    BY <1>0, <2>2
  <2>4. 1 \in r.awaits => updates # <<>> /\ updates[1].step # "probe"
    BY <2>2
  <2>5. Measuring' = Measuring
    BY <2>1 DEF Measuring
  <2>. QED
    BY <1>4, <2>1, <2>2, <2>3, <2>4, <2>5 DEF OneUpdate
<1>9. CASE CallStep
  BY <1>1, <1>9, CallTypes DEF CallStep
<1>10. CASE CancelConnectOperation
  <2>1. DOMAIN calls' = DOMAIN calls /\ UNCHANGED <<count, updates, sorts, lists>>
    BY <1>10 DEF CancelConnectOperation
  <2>. QED
    BY <1>1, <1>10, <2>1, BeginTypes
<1>. QED
  BY <1>4, <1>5, <1>6, <1>7, <1>8, <1>9, <1>10 DEF Next

LEMMA TypesKeep ==
    ASSUME Typed, [Next]_vars
    PROVE  Typed'
<1>1. CASE SortStep
  BY <1>1, SortTypes DEF SortStep
<1>2. CASE UpdateStep
  BY <1>2, UpdateTypes DEF UpdateStep
<1>3. CASE ListStep
  BY <1>3, ListTypes DEF ListStep
<1>4. CASE CallStep
  BY <1>4, CallTypes DEF CallStep
<1>5. CASE UpdateNodes \/ NodeList \/ GetBestUrl \/ CancelConnectOperation
  BY <1>5, BeginTypes
<1>6. CASE UNCHANGED vars
  BY <1>6 DEF vars, Typed
<1>. QED
  BY <1>1, <1>2, <1>3, <1>4, <1>5, <1>6 DEF Next

-------------------------------------------------------------------------------
LEMMA Invariant == Spec => []Inv
<1>1. Init => Inv
  <2>. SUFFICES ASSUME Init PROVE Inv
    OBVIOUS
  <2>1. limit \in LimitSet
    BY NodeAssumption DEF Init
  <2>2. cache \in Caches /\ CacheWhole
    BY FS_EmptySet DEF Init, Caches, CacheWhole
  <2>3. past \in Pasts
    BY EmptySeq DEF Init, Pasts
  <2>4. Typed
    BY <2>1, <2>2, <2>3, EmptySeq DEF Init, Typed
  <2>5. WillReport /\ WillSettle
    BY DEF Init, WillReport, WillSettle
  <2>6. OneUpdate
    BY EmptySeq DEF Init, OneUpdate, Measuring
  <2>. QED
    BY <2>2, <2>4, <2>5, <2>6 DEF Inv
<1>2. Inv /\ [Next]_vars => Inv'
  BY TypesKeep, CacheWholeKeeps, WillReportKeeps, WillSettleKeeps, OneUpdateKeeps DEF Inv
<1>. QED
  BY <1>1, <1>2, PTL DEF Spec

\* The cached best address is one of the cached measurement, and those are addresses at
\* which the cached nodes are found, however many threads of asyncSort, onNodeList and
\* testBestUrl overlap, and whatever names stand for.
THEOREM CacheWholeCorrect == Spec => []CacheWhole
<1>1. Inv => CacheWhole
  BY DEF Inv
<1>. QED
  BY <1>1, Invariant, PTL

\* When all is measured the last report names nodes, though no node answered, or is of
\* a list that names none: a partial measurement is done again, and an empty one
\* replaced by all nodes.
THEOREM CanJoinCorrect == Spec => []CanJoin
<1>1. Inv => CanJoin
  <2>. SUFFICES ASSUME Inv, Idle, sorts \o lists # <<>>
                PROVE  past.last # <<>> \/ past.bare
    BY DEF CanJoin
  <2>1. sorts \in Seq(Sorts) /\ lists \in Seq(Lists)
    BY DEF Inv, Typed
  <2>2. ~(sorts = <<>> /\ lists = <<>>)
    BY <2>1
  <2>. QED
    BY <2>2 DEF Inv, WillReport, Idle
<1>. QED
  BY <1>1, Invariant, PTL

\* A count that is left behind, and holds up every later connect, is that of an update
\* that its own sort overtook, whatever else overlapped (autoDone, asyncSort).
THEOREM CountSettlesCorrect == Spec => []CountSettles
<1>1. Inv => CountSettles
  BY DEF Inv, Typed, Pasts, WillSettle, CountSettles, Idle
<1>. QED
  BY <1>1, Invariant, PTL

\* A connect that did not lose patience reads the cache after the only update has
\* brought its measurement there, or has failed (testBestUrl).
THEOREM WaitsForUpdateCorrect == Spec => []WaitsForUpdate
<1>1. Inv => WaitsForUpdate
  BY DEF Inv, OneUpdate, Measuring, WaitsForUpdate
<1>. QED
  BY <1>1, Invariant, PTL
===============================================================================
