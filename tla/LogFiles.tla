------------------------------- MODULE LogFiles --------------------------------
(***************************************************************************)
(* bff::FileLogger (FileLogger.cpp: log, newLog, stop, files, remove, the  *)
(* worker) and bff::uploadAllLogs (HttpClient.cpp), which uploads its      *)
(* files and removes those that the server took.                           *)
(*                                                                         *)
(* A thread runs todo[t], a step (a name and its argument) at a time;      *)
(* every step is what the code does under one lock, or a file operation    *)
(* outside of it.  A line is a number and a message a sequence of lines.   *)
(* A FILE is the number of the newLog that opened it.  Its name is the     *)
(* second of that newLog, so logs begun in one second have one file, which *)
(* the later one empties; each writes from an offset of its own, and over  *)
(* what others wrote.  A name is the number of a newLog too, the first one *)
(* of its second.  What a write to a FILE that was closed meanwhile does   *)
(* is undefined: the message is dropped, or lands in the file that is open *)
(* now.  No file is older than the retention, all are in one directory.    *)
(***************************************************************************)
EXTENDS Integers, FiniteSets, SequencesExt

CONSTANTS
    Loggers,    \* threads that log, begin logs and upload
    Limits      \* bounds: the limits to consider

LimitSet ==
    [lines : Nat,   \* lines in all after which no other is logged, but by newLog
     logs  : Nat,   \* calls of newLog
     calls : Nat]   \* calls of uploadAllLogs

ASSUME LogAssumption == Limits \subseteq LimitSet /\ "worker" \notin Loggers

Threads == Loggers \cup {"worker"}

VARIABLES
    limit,      \* never changes
    todo,       \* per thread, the steps it still has to run
    file,       \* the file that is logged to, 0 if none
    queue,      \* messages for the worker
    pending,    \* pendingLogs
    disk,       \* per FILE, the name of its file, the lines that were written with it
                \* and are still there, whether it is open, and whether the file exists
    uploading,  \* uploadingPaths
    uploads,    \* the uploads on their way: their call, file name, payload and where
                \* they are
    calls,      \* per call of uploadAllLogs: total, pending, and the reports
    past        \* history: lines, the number logged; lost, those that were dropped,
                \* overwritten or in a file when it was emptied or removed, but not in
                \* what was uploaded of it; accepted, the uploads that the server took,
                \* "taken" or, if its answer did not come through, "unseen"

vars == <<limit, todo, file, queue, pending, disk, uploading, uploads, calls, past>>

OnlyLines == UNCHANGED <<limit, disk, uploading, uploads, calls, past>>
OnlyFiles == UNCHANGED <<limit, pending, uploading, uploads, calls>>
OnlyUploads == UNCHANGED <<limit, file, queue, pending>>

Init ==
    /\ limit \in Limits
    /\ todo = [t \in Threads |-> IF t = "worker" THEN << <<"pop">> >> ELSE <<>>]
    /\ file = 0
    /\ queue = <<>> /\ pending = <<>>
    /\ disk = <<>>
    /\ uploading = {} /\ uploads = {} /\ calls = <<>>
    /\ past = [lines |-> 0, lost |-> {}, accepted |-> {}]

-------------------------------------------------------------------------------
At(t, name) == todo[t] # <<>> /\ Head(todo[t])[1] = name
arg(t) == Head(todo[t])[2]
Then(t, steps) == todo' = [todo EXCEPT ![t] = steps \o Tail(@)]
Starts(t, steps) == todo[t] = <<>> /\ todo' = [todo EXCEPT ![t] = steps]

\* The file of a name: the FILEs it was opened with, and what is in it.
Named(name) == {f \in DOMAIN disk : disk[f].name = name /\ disk[f].exists}
In(name) == UNION {disk[f].lines : f \in Named(name)}
Without(lines) == [f \in DOMAIN disk |-> [disk[f] EXCEPT !.lines = @ \ lines]]
Lose(lines) == past' = [past EXCEPT !.lost = @ \cup lines]

-------------------------------------------------------------------------------
(* Lines.                                                                    *)

\* log: whether there is a file is looked up here, and the line queued later.
write == << <<IF file # 0 THEN "enqueue" ELSE "pend", << past.lines + 1 >> >> >>
Log(t) ==
    /\ past.lines < limit.lines
    /\ past' = [past EXCEPT !.lines = @ + 1]
    /\ Starts(t, write)
    /\ UNCHANGED <<limit, file, queue, pending, disk, uploading, uploads, calls>>

\* newLog ends with lines of its own, here one.
Date(t) ==
    /\ At(t, "date")
    /\ past' = [past EXCEPT !.lines = @ + 1]
    /\ Then(t, write)
    /\ UNCHANGED <<limit, file, queue, pending, disk, uploading, uploads, calls>>

Enqueue(t) ==
    /\ At(t, "enqueue")
    /\ queue' = Append(queue, arg(t))
    /\ Then(t, <<>>)
    /\ UNCHANGED <<file, pending>> /\ OnlyLines

Pend(t) ==
    /\ At(t, "pend")
    /\ pending' = pending \o arg(t)
    /\ Then(t, <<>>)
    /\ UNCHANGED <<file, queue>> /\ OnlyLines

\* The worker and stop take a message, and the file of that moment, and write without
\* the lock.
Pop ==
    /\ At("worker", "pop") /\ queue # <<>>
    /\ queue' = Tail(queue)
    /\ Then("worker", << <<"write", [message |-> Head(queue), f |-> file]>>, <<"pop">> >>)
    /\ UNCHANGED <<file, pending>> /\ OnlyLines

\* What the other FILEs of the file wrote may be overwritten.
Into(f, lines) ==
    IF disk[f].exists
      THEN \E over \in SUBSET (In(disk[f].name) \ disk[f].lines) :
               /\ disk' = [Without(over) EXCEPT ![f].lines = @ \cup lines]
               /\ Lose(over)
      ELSE Lose(lines) /\ UNCHANGED disk

Write(t) ==
    /\ At(t, "write")
    /\ LET f == arg(t).f
           lines == ToSet(arg(t).message)
       IN  \/ f # 0 /\ disk[f].open /\ Into(f, lines)
           \/ (f # 0 => ~disk[f].open) /\ Lose(lines) /\ UNCHANGED disk
           \/ f # 0 /\ ~disk[f].open /\ file # 0 /\ Into(file, lines)
    /\ Then(t, <<>>)
    /\ UNCHANGED <<file, queue>> /\ OnlyFiles

-------------------------------------------------------------------------------
(* newLog and stop.                                                          *)

\* A name of this second, and a file opened with "w+".
NewLog(t) ==
    /\ Len(disk) < limit.logs
    /\ \E name \in {disk[f].name : f \in DOMAIN disk} \cup {Len(disk) + 1} :
           /\ disk' = Append(Without(In(name)),
                             [name |-> name, lines |-> {}, open |-> TRUE, exists |-> TRUE])
           /\ Lose(In(name))
    /\ Starts(t, << <<"swap", Len(disk) + 1>>, <<"date">> >>)
    /\ UNCHANGED <<limit, file, queue, pending, uploading, uploads, calls>>

Closed(f) == IF f = 0 THEN disk ELSE [disk EXCEPT ![f].open = FALSE]

\* The last file is closed under the lock; what was pending is queued after it.
SwapKeepsPending(t) ==
    /\ At(t, "swap")
    /\ disk' = Closed(file) /\ file' = arg(t)
    /\ Then(t, IF pending = <<>> THEN <<>> ELSE << <<"enqueue", pending>> >>)
    /\ UNCHANGED <<limit, queue, pending, uploading, uploads, calls, past>>
Swap(t) ==
    /\ At(t, "swap")
    /\ disk' = Closed(file) /\ file' = arg(t)
    /\ pending' = <<>>
    /\ Then(t, IF pending = <<>> THEN <<>> ELSE << <<"enqueue", pending>> >>)
    /\ UNCHANGED <<limit, queue, uploading, uploads, calls, past>>

\* stop: the queue is drained, and the file closed when it is empty.
Drain(t) ==
    /\ At(t, "stop")
    /\ IF queue # <<>> /\ file # 0
         THEN /\ queue' = Tail(queue)
              /\ Then(t, << <<"write", [message |-> Head(queue), f |-> file]>>, <<"stop">> >>)
              /\ UNCHANGED <<file, disk>>
         ELSE /\ disk' = Closed(file) /\ file' = 0
              /\ Then(t, <<>>)
              /\ UNCHANGED queue
    /\ OnlyFiles /\ UNCHANGED past

-------------------------------------------------------------------------------
(* uploadAllLogs.                                                            *)

UploadAllLogs(t) ==
    /\ Len(calls) < limit.calls
    /\ calls' = Append(calls, [total |-> 0, pending |-> 0, reports |-> 0])
    /\ Starts(t, << <<"stop">>, <<"files", Len(calls) + 1>> >>)
    /\ OnlyUploads /\ UNCHANGED <<disk, uploading, uploads, past>>

\* files(), without the lock.
Files(t) ==
    /\ At(t, "files")
    /\ LET all == {disk[f].name : f \in {g \in DOMAIN disk : disk[g].exists}}
       IN  Then(t, << <<"claim", [call |-> arg(t), files |-> all]>> >>)
    /\ OnlyUploads /\ UNCHANGED <<disk, uploading, uploads, calls, past>>

\* The files that no other call uploads; with none the call reports at once.
ClaimAll(t) ==
    /\ At(t, "claim")
    /\ LET k == arg(t).call
           mine == arg(t).files
           n == Cardinality(mine)
           each == SetToSeq(mine)
       IN  /\ uploading' = uploading \cup mine
           /\ calls' = [calls EXCEPT ![k].total = n, ![k].pending = n,
                                     ![k].reports = IF n = 0 THEN 1 ELSE 0]
           /\ Then(t, [i \in DOMAIN each |-> <<"read", [call |-> k, file |-> each[i]]>>])
    /\ OnlyUploads /\ UNCHANGED <<disk, uploads, past>>
Claim(t) ==
    /\ At(t, "claim")
    /\ LET k == arg(t).call
           mine == arg(t).files \ uploading
           n == Cardinality(mine)
           each == SetToSeq(mine)
       IN  /\ uploading' = uploading \cup mine
           /\ calls' = [calls EXCEPT ![k].total = n, ![k].pending = n,
                                     ![k].reports = IF n = 0 THEN 1 ELSE 0]
           /\ Then(t, [i \in DOMAIN each |-> <<"read", [call |-> k, file |-> each[i]]>>])
    /\ OnlyUploads /\ UNCHANGED <<disk, uploads, past>>

\* What is read of a file, nothing if it cannot be read, is empty or gone: then the
\* upload has failed at once.
ReadSkips(t) ==
    /\ At(t, "read")
    /\ \E payload \in {In(arg(t).file), {}} :
           uploads' = uploads \cup
               IF payload = {} /\ In(arg(t).file) # {} THEN {}
               ELSE {[call |-> arg(t).call, file |-> arg(t).file, payload |-> payload,
                      at |-> IF payload = {} THEN "failed" ELSE "sent"]}
    /\ Then(t, <<>>)
    /\ OnlyUploads /\ UNCHANGED <<disk, uploading, calls, past>>
Read(t) ==
    /\ At(t, "read")
    /\ \E payload \in {In(arg(t).file), {}} :
           uploads' = uploads \cup
               {[call |-> arg(t).call, file |-> arg(t).file, payload |-> payload,
                 at |-> IF payload = {} THEN "failed" ELSE "sent"]}
    /\ Then(t, <<>>)
    /\ OnlyUploads /\ UNCHANGED <<disk, uploading, calls, past>>

Removed(name) ==
    [f \in DOMAIN disk |->
        IF f \in Named(name) THEN [disk[f] EXCEPT !.lines = {}, !.exists = FALSE]
        ELSE disk[f]]

\* finishOne, on the thread of the request or, after a failed read, of the call.  The
\* server took the upload and the client saw that: the file of this name is removed.  Or
\* the server took it, but its answer came late, broken or not at all.  Or it did not.
\* The last upload of a call will report.
FinishOne(u, how) ==
    /\ u.at \in (IF how = "refused" THEN {"sent", "failed"} ELSE {"sent"})
    /\ disk' = IF how = "taken" THEN Removed(u.file) ELSE disk
    /\ past' = [past EXCEPT
           !.lost = @ \cup IF how = "taken" THEN In(u.file) \ u.payload ELSE {},
           !.accepted = @ \cup IF how = "refused" THEN {} ELSE {[u EXCEPT !.at = how]}]
    /\ calls' = [calls EXCEPT ![u.call].pending = @ - 1]
    /\ uploads' = (uploads \ {u}) \cup
           {[u EXCEPT !.at = IF calls[u.call].pending = 1 THEN "last" ELSE "done"]}
    /\ OnlyUploads /\ UNCHANGED <<todo, uploading>>

\* Then others may upload the file, and the last one reports.
Release(u) ==
    /\ u.at \in {"last", "done"}
    /\ uploading' = uploading \ {u.file}
    /\ calls' = [calls EXCEPT ![u.call].reports = @ + IF u.at = "last" THEN 1 ELSE 0]
    /\ uploads' = uploads \ {u}
    /\ OnlyUploads /\ UNCHANGED <<todo, disk, past>>

-------------------------------------------------------------------------------
Step(t) ==
    \/ Enqueue(t) \/ Pend(t) \/ Date(t) \/ Write(t) \/ Swap(t) \/ Drain(t)
    \/ Files(t) \/ Claim(t) \/ Read(t)

Finish ==
    \E u \in uploads :
        (\E how \in {"taken", "unseen", "refused"} : FinishOne(u, how)) \/ Release(u)

Next ==
    \/ \E t \in Loggers : Log(t) \/ NewLog(t) \/ UploadAllLogs(t)
    \/ \E t \in Threads : Step(t)
    \/ Pop \/ Finish

Spec == Init /\ [][Next]_vars

\* Every thread runs, and every request comes to an end.
FairSpec ==
    /\ Spec
    /\ \A t \in Threads : WF_vars(Step(t))
    /\ WF_vars(Pop) /\ WF_vars(Finish)
===============================================================================
