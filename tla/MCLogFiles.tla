------------------------------ MODULE MCLogFiles -------------------------------
(* Two threads that log and upload. *)
EXTENDS LogFilesProperties

Limit(lines, logs, uploadCalls) == [lines |-> lines, logs |-> logs, calls |-> uploadCalls]

\* Lines around two logs; and two calls at once, with a log that begins meanwhile.
MCLimits == {Limit(3, 2, 0), Limit(1, 1, 2), Limit(0, 2, 2)}
===============================================================================
