-------------------------- MODULE LogFilesProperties ---------------------------
(* What the log files promise: where a line is, and what the server gets.    *)
EXTENDS LogFiles

-------------------------------------------------------------------------------
\* Where lines may be before they are in a file: what a thread is about to queue or
\* write, the messages queued, and pendingLogs.
boxes ==
    {<<"hand", t>> : t \in Threads} \cup {<<"queue", i>> : i \in DOMAIN queue}
    \cup {<<"pending", 0>>}

inHand(t) ==
    CASE At(t, "enqueue") \/ At(t, "pend") -> arg(t)
      [] At(t, "write") -> arg(t).message
      [] OTHER -> <<>>

content ==
    [b \in boxes |->
        CASE b[1] = "hand"    -> inHand(b[2])
          [] b[1] = "queue"   -> queue[b[2]]
          [] b[1] = "pending" -> pending]

\* How many times a line is somewhere, files included.
places(line) ==
    (UNION {{<<b, i>> : i \in {n \in DOMAIN content[b] : content[b][n] = line}} : b \in boxes})
    \cup {<<<<"disk", f>>, 0>> :
             f \in {g \in DOMAIN disk : disk[g].exists /\ line \in disk[g].lines}}
times(line) == Cardinality(places(line))

\* What was uploaded of the files that were removed for it.
uploaded == UNION {u.payload : u \in {v \in past.accepted : v.at = "taken"}}

\* A line is in one place, from the call of log to its file: in a thread's hands, the
\* queue, pendingLogs or a file, though logs begin and end while others log, write and
\* upload; and it is out of all of them once it was uploaded and its file removed.  It is
\* lost only with a second newLog (of the same second, or before a write to the closed
\* file) or with an upload (log, newLog, stop, WorkerLoop, uploadAllLogs).
LinesOnce ==
    /\ \A line \in 1..past.lines :
           times(line) = IF line \in past.lost \cup uploaded THEN 0 ELSE 1
    /\ Len(disk) <= 1 /\ calls = <<>> => past.lost = {}

\* A line goes to the server once, in one upload at a time, and never again when the client
\* saw that the server took it; again only after an upload that the server took and the
\* client saw fail (uploadingPaths, finishOne).
AcceptedOnce ==
    \A u, v \in past.accepted \cup {w \in uploads : w.at = "sent"} :
        u # v /\ u.payload \cap v.payload # {} => "unseen" \in {u.at, v.at}

\* Every call of uploadAllLogs reports in the end (finishOne).
Finishes == \A k \in 1..2 : k \in DOMAIN calls ~> k \in DOMAIN calls /\ calls[k].reports = 1
===============================================================================
