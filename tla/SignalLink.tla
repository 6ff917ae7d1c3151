------------------------------ MODULE SignalLink ------------------------------
(***************************************************************************)
(* The connection of a Signal (Signal::Private in Signal.cpp): which of    *)
(* its two transports carries the session, the Quic/TCP race of the Mixed  *)
(* implementation, reconnection, keepalive, and disconnection.             *)
(*                                                                         *)
(* Threads.  The code runs on the application's thread, on the curl worker *)
(* and the quic loop (the transports' callbacks), and on detached threads, *)
(* of which several may be at work, also of one kind: the mixed delay, the *)
(* reconnections, the keepalive, and those that stop waiting for the       *)
(* answer to a Leave.  todo[t] is what thread t still has to do: a         *)
(* sequence of steps, each one critical section of race_mtx, one access to *)
(* an atomic, or one call into a transport.  A function of the code is the *)
(* sequence of its steps; a step that calls a function puts that           *)
(* function's steps in its own place.                                      *)
(*                                                                         *)
(* Generations.  A detached thread acts only if the generation counter it  *)
(* captured is still current, and every increment of a counter either      *)
(* arms a thread or disarms it; so "a thread with the current generation   *)
(* waits" is one Boolean per counter: the fields named armed, and          *)
(* mixed_delay_pending, which the code keeps itself.  A thread that has    *)
(* woken up does not look at the counter again, so the next one may wake   *)
(* up while it is still at work.                                           *)
(***************************************************************************)
EXTENDS Naturals, Sequences, LegSocket

\* What one behaviour may use: the configuration, and the bounds on what the
\* application, the reconnect thread and the server do in it.
ScenarioSet ==
    [implementation : {"Curl", "Quic", "Mixed"},   \* SignalOptions.implementation
     mixedDelay     : Nat,                         \* SignalOptions.mixedDelay
     maxConnects    : Nat,     \* bound: calls of connect
     maxDisconnects : Nat,     \* bound: calls of disconnect
     maxAttempts    : Nat,     \* bound: runs of beginConnect, whoever starts them
     maxAnswers     : Nat]     \* bound: responses of the server

CONSTANTS
    Scenarios,           \* the scenarios to consider
    Detached,            \* bound: the detached threads that run at once
    ReconnectMaxTimes    \* SignalOptions.reconnectMaxTimes

ASSUME LinkAssumption ==
    /\ Scenarios \subseteq ScenarioSet
    /\ Detached \cap ({"app", "none"} \cup Legs) = {}
    /\ ReconnectMaxTimes \in Nat

Threads == {"app"} \cup Legs \cup Detached

VARIABLES
    scenario,   \* never changes
    todo,       \* per thread, the steps it still has to run
    race,       \* what race_mtx guards; holder: who keeps it across a call
    retry,      \* user_closed, suppress_reconnect, reconnect_count; armed: a
                \* reconnect thread of the current generation waits
    ping,       \* armed: the keepalive thread of this generation runs;
                \* answered: last_recv_ms >= 0, the ping timeout is running
    leave,      \* closing: disconnect_closing; req: disconnect_leave_req_id # 0;
                \* armed: the timeout thread of this generation waits;
                \* sent: a Leave is on its way and not yet answered
    sock,       \* the transports, see LegSocket
    lifecycle,  \* owner of WebSocket's lifecycle_mutex, or "none"
    crash,      \* "none", or why std::terminate was called
    past        \* history: wanted, the last call of the application ("up",
                \* "down"); told: onError since the last connect; and counts

vars == <<scenario, todo, race, retry, ping, leave, sock, lifecycle, crash, past>>

\* What a step leaves alone besides the one variable it is about.
OnlyTodo  == UNCHANGED <<scenario, race, retry, ping, leave, sock, lifecycle, crash, past>>
OnlyRace  == UNCHANGED <<scenario, retry, ping, leave, sock, lifecycle, crash, past>>
OnlyRetry == UNCHANGED <<scenario, race, ping, leave, sock, lifecycle, crash, past>>
OnlySock  == UNCHANGED <<scenario, race, retry, ping, leave, lifecycle, crash, past>>
OnlyLeave == UNCHANGED <<scenario, race, retry, ping, sock, lifecycle, crash, past>>

-------------------------------------------------------------------------------
\* Thread t is about to run this step.
At(t, step) == crash = "none" /\ todo[t] # <<>> /\ Head(todo[t]) = step

\* It runs it, and goes on with these steps in its place.
Then(t, steps) == todo' = [todo EXCEPT ![t] = steps \o Tail(@)]

\* An idle thread starts on these steps.
Starts(t, steps) == crash = "none" /\ todo[t] = <<>> /\ todo' = [todo EXCEPT ![t] = steps]

\* race_mtx is free for t.
RaceFree(t) == race.holder \in {"none", t}

isAlt(l) == race.has_alt /\ l = "Curl" /\ race.primary_leg = "Quic"

isCandidate(l) == l = race.primary_leg \/ isAlt(l)

mixedMode == scenario.implementation = "Mixed"

(* The functions, as the steps they run.                                     *)

closeAllTransports(how) ==
    << <<"cancelMixedRace", how>>, <<"closeCurl", how>>, <<"closeQuic", how>>, <<"allClosed">> >>

\* closeLoserAsync, or one transport of closeAllTransports(join = false).
closeAsync(l) == << <<IF l = "Curl" THEN "closeCurl" ELSE "closeQuic", "async">> >>

failFatal == << <<"failFatal">> >> \o closeAllTransports("async") \o << <<"report">> >>

beginConnect ==
    << <<"beginConnect">> >> \o closeAllTransports("join")
       \o << <<"unsuppress">>, <<"chooseLeg">>, <<"openPrimary">> >>

\* What a transport failure does once the race has not absorbed it.
afterFailureKeepsSession(k) ==
    IF k = "fatal" THEN failFatal ELSE << <<"scheduleReconnect">> >>
afterFailure(k) ==
    IF k = "fatal" THEN failFatal ELSE << <<"sessionOff">>, <<"scheduleReconnect">> >>

-------------------------------------------------------------------------------
Init ==
    /\ scenario \in Scenarios
    /\ todo = [t \in Threads |-> <<>>]
    /\ race = [primary_leg |-> "Curl", has_alt |-> FALSE, session_open |-> FALSE,
               mixed_delay_pending |-> FALSE, holder |-> "none"]
    /\ retry = [user_closed |-> FALSE, suppress_reconnect |-> FALSE,
                reconnect_count |-> 0, armed |-> FALSE]
    /\ ping = [armed |-> FALSE, answered |-> FALSE]
    /\ leave = [closing |-> FALSE, req |-> FALSE, armed |-> FALSE, sent |-> FALSE]
    /\ sock = [l \in Legs |-> NeverOpened]
    /\ lifecycle = "none"
    /\ crash = "none"
    /\ past = [wanted |-> "down", told |-> FALSE, connects |-> 0, disconnects |-> 0,
               attempts |-> 0, answers |-> 0]

-------------------------------------------------------------------------------
(* closeAllTransports: cancel the race, close both transports.               *)

\* cancelMixedRace: stop the delay thread; a racing TCP leg is closed here,
\* and once more by the caller.
CancelMixedRace(t) ==
    \E how \in {"join", "async"} :
        /\ At(t, <<"cancelMixedRace", how>>) /\ RaceFree(t)
        /\ race' = [race EXCEPT !.mixed_delay_pending = FALSE, !.has_alt = FALSE]
        /\ Then(t, IF race.has_alt THEN << <<"closeCurl", how>> >> ELSE <<>>)
        /\ OnlyRace

\* WebSocket::closeAsync: under lifecycle_mutex, request the close.
CloseCurlAsync(t) ==
    /\ At(t, <<"closeCurl", "async">>) /\ lifecycle = "none"
    /\ sock' = [sock EXCEPT !["Curl"] = CloseRequested(@)]
    /\ Then(t, <<>>)
    /\ OnlySock

\* WebSocket::close: take lifecycle_mutex, request the close, join the worker.
\* The worker itself cannot join: std::thread::join throws.
CloseCurlJoinUnlocked(t) ==
    /\ At(t, <<"closeCurl", "join">>)
    /\ lifecycle' = t
    /\ sock' = [sock EXCEPT !["Curl"] = CloseRequested(@)]
    /\ crash' = IF t = "Curl" THEN "selfJoin" ELSE "none"
    /\ Then(t, << <<"joinCurl">> >>)
    /\ UNCHANGED <<scenario, race, retry, ping, leave, past>>
CloseCurlJoin(t) ==
    /\ At(t, <<"closeCurl", "join">>) /\ lifecycle = "none"
    /\ lifecycle' = t
    /\ sock' = [sock EXCEPT !["Curl"] = CloseRequested(@)]
    /\ crash' = IF t = "Curl" THEN "selfJoin" ELSE "none"
    /\ Then(t, << <<"joinCurl">> >>)
    /\ UNCHANGED <<scenario, race, retry, ping, leave, past>>

\* ... the worker is gone; a close nobody reported yet is reported by this
\* thread, still inside lifecycle_mutex.
JoinCurl(t) ==
    /\ At(t, <<"joinCurl">>) /\ ~sock["Curl"].alive
    /\ sock' = [sock EXCEPT !["Curl"] = Joined(@)]
    /\ Then(t, IF sock["Curl"].reported
                 THEN << <<"unlockCurl">> >>
                 ELSE << <<"closed", "Curl", "local">>, <<"unlockCurl">> >>)
    /\ OnlySock

UnlockCurl(t) ==
    /\ At(t, <<"unlockCurl">>)
    /\ lifecycle' = "none"
    /\ Then(t, <<>>)
    /\ UNCHANGED <<scenario, race, retry, ping, leave, sock, crash, past>>

\* QuicSocket::closeAsync.
CloseQuicAsync(t) ==
    /\ At(t, <<"closeQuic", "async">>)
    /\ sock' = [sock EXCEPT !["Quic"] = CloseRequested(@)]
    /\ Then(t, <<>>)
    /\ OnlySock

\* QuicSocket::close: resetSocket destroys the quic::Socket, which joins its
\* loop and so must not run on the loop.
CloseQuicJoin(t) ==
    /\ At(t, <<"closeQuic", "join">>)
    /\ sock' = [sock EXCEPT !["Quic"] = CloseRequested(@)]
    /\ crash' = IF t = "Quic" THEN "selfJoin" ELSE "none"
    /\ Then(t, << <<"joinQuic">> >>)
    /\ UNCHANGED <<scenario, race, retry, ping, leave, lifecycle, past>>

JoinQuic(t) ==
    /\ At(t, <<"joinQuic">>) /\ ~sock["Quic"].alive
    /\ sock' = [sock EXCEPT !["Quic"] = Joined(@)]
    /\ Then(t, IF sock["Quic"].reported THEN <<>> ELSE << <<"closed", "Quic", "local">> >>)
    /\ OnlySock

AllClosed(t) ==
    /\ At(t, <<"allClosed">>) /\ RaceFree(t)
    /\ race' = [race EXCEPT !.session_open = FALSE, !.has_alt = FALSE]
    /\ Then(t, <<>>)
    /\ OnlyRace

-------------------------------------------------------------------------------
(* beginConnect.                                                             *)

\* Disarms reconnect and keepalive threads, and silences the closes to come.
BeginConnect(t) ==
    /\ At(t, <<"beginConnect">>)
    /\ retry' = [retry EXCEPT !.armed = FALSE, !.suppress_reconnect = TRUE]
    /\ ping' = [armed |-> FALSE, answered |-> FALSE]
    /\ Then(t, <<>>)
    /\ UNCHANGED <<scenario, race, leave, sock, lifecycle, crash, past>>

UnsuppressForgotten(t) ==
    /\ At(t, <<"unsuppress">>)
    /\ retry' = [retry EXCEPT !.user_closed = FALSE]
    /\ Then(t, <<>>)
    /\ OnlyRetry
Unsuppress(t) ==
    /\ At(t, <<"unsuppress">>)
    /\ retry' = [retry EXCEPT !.suppress_reconnect = FALSE, !.user_closed = FALSE]
    /\ Then(t, <<>>)
    /\ OnlyRetry

ChooseLeg(t) ==
    /\ At(t, <<"chooseLeg">>) /\ RaceFree(t)
    /\ race' = [race EXCEPT
                  !.session_open = FALSE, !.has_alt = FALSE,
                  !.primary_leg = IF scenario.implementation = "Curl" THEN "Curl" ELSE "Quic"]
    /\ Then(t, <<>>)
    /\ OnlyRace

\* WebSocket::open assigns a new std::thread: if the old one was not joined,
\* its move assignment calls std::terminate.
OpenCurl ==
    /\ sock' = [sock EXCEPT !["Curl"] = Opened]
    /\ crash' = IF sock["Curl"].joinable THEN "overwritten" ELSE "none"

\* QuicSocket::open: refused while connecting or open; joins the loop of the
\* previous socket; can fail on the spot (bad URL, no address), and then the
\* error is reported on this thread.
OpenQuic(t) ==
    /\ crash' = "none"
    /\ \/ /\ sock["Quic"].state \in {"Connecting", "Open"}
          /\ Then(t, <<>>)
          /\ UNCHANGED sock
       \/ /\ sock["Quic"].state \notin {"Connecting", "Open"} /\ ~sock["Quic"].alive
          /\ sock' = [sock EXCEPT !["Quic"] = Opened]
          /\ Then(t, IF mixedMode THEN << <<"scheduleFallback">> >> ELSE <<>>)
       \/ /\ sock["Quic"].state \notin {"Connecting", "Open"} /\ ~sock["Quic"].alive
          /\ sock' = [sock EXCEPT !["Quic"] = Joined(NeverOpened)]
          /\ \E k \in {"timeout", "other"} : Then(t, << <<"error", "Quic", k>> >>)

OpenPrimary(t) ==
    /\ At(t, <<"openPrimary">>)
    /\ IF scenario.implementation = "Curl" THEN OpenCurl /\ Then(t, <<>>) ELSE OpenQuic(t)
    /\ UNCHANGED <<scenario, race, retry, ping, leave, lifecycle, past>>

-------------------------------------------------------------------------------
(* The TCP leg of a Mixed connection.                                        *)

ScheduleMixedTcpFallback(t) ==
    /\ At(t, <<"scheduleFallback">>) /\ RaceFree(t)
    /\ IF scenario.mixedDelay = 0
         THEN Then(t, << <<"startFallback">> >>) /\ UNCHANGED race
         ELSE Then(t, <<>>) /\ race' = [race EXCEPT !.mixed_delay_pending = TRUE]
    /\ OnlyRace

\* The delay thread of the current generation wakes up.
DelayElapses ==
    /\ race.mixed_delay_pending /\ race.holder = "none"
    /\ race' = [race EXCEPT !.mixed_delay_pending = FALSE]
    /\ \E t \in Detached : Starts(t, << <<"startFallback">> >>)
    /\ OnlyRace

\* startMixedTcpFallback looks at the race in one critical section ...
StartMixedTcpFallback(t) ==
    /\ At(t, <<"startFallback">>) /\ RaceFree(t)
    /\ IF retry.user_closed \/ race.session_open \/ race.has_alt
         THEN Then(t, <<>>) /\ UNCHANGED race
         ELSE /\ race' = [race EXCEPT !.mixed_delay_pending = FALSE]
              /\ Then(t, IF sock["Quic"].state = "Open"
                           THEN <<>> ELSE << <<"openAlt">>, <<"enterRace">> >>)
    /\ OnlyRace

\* ... opens the WebSocket outside of it ...
OpenAlt(t) ==
    /\ At(t, <<"openAlt">>)
    /\ OpenCurl
    /\ Then(t, <<>>)
    /\ UNCHANGED <<scenario, race, retry, ping, leave, lifecycle, past>>

\* ... and enters it in the race in another.  closeAsync is called with
\* race_mtx held.
EnterRaceRegardless(t) ==
    /\ At(t, <<"enterRace">>) /\ RaceFree(t)
    /\ race' = [race EXCEPT !.has_alt = TRUE]
    /\ Then(t, <<>>)
    /\ OnlyRace
EnterRace(t) ==
    /\ At(t, <<"enterRace">>) /\ RaceFree(t)
    /\ IF retry.user_closed \/ race.session_open
         THEN /\ race' = [race EXCEPT !.holder = t]
              /\ Then(t, << <<"closeCurl", "async">>, <<"unlockRace">> >>)
         ELSE /\ race' = [race EXCEPT !.has_alt = TRUE]
              /\ Then(t, <<>>)
    /\ OnlyRace

UnlockRace(t) ==
    /\ At(t, <<"unlockRace">>)
    /\ race' = [race EXCEPT !.holder = "none"]
    /\ Then(t, <<>>)
    /\ OnlyRace

\* The fallback it started takes over.
Promote(t) ==
    \E k \in {"fatal", "reconnect"} :
        /\ At(t, <<"promote", k>>) /\ RaceFree(t)
        /\ race' = [race EXCEPT !.has_alt = FALSE,
                                !.primary_leg = IF race.has_alt THEN "Curl" ELSE @]
        /\ Then(t, IF race.has_alt THEN <<>> ELSE afterFailure(k))
        /\ OnlyRace

\* handleMixedTransportFailure(l, fallback), and what its caller does (k) when
\* it returns false: the Quic leg fails during the race, the TCP leg does, or
\* there is no race.
HandleMixedTransportFailure(t) ==
    \E l \in Legs, fallback \in {"fallback", "none"}, k \in {"fatal", "reconnect"} :
        /\ At(t, <<"failure", l, fallback, k>>) /\ RaceFree(t)
        /\ \/ /\ ~race.session_open /\ mixedMode /\ l = "Quic"
              /\ race' = [race EXCEPT
                            !.mixed_delay_pending = FALSE, !.has_alt = FALSE,
                            !.primary_leg = IF race.has_alt /\ @ = l THEN "Curl" ELSE @]
              /\ Then(t, IF race.has_alt THEN <<>>
                         ELSE IF fallback = "fallback"
                           THEN << <<"startFallback">>, <<"promote", k>> >>
                           ELSE afterFailure(k))
           \/ /\ ~race.session_open /\ mixedMode /\ isAlt(l)
              /\ race' = [race EXCEPT !.has_alt = FALSE]
              /\ Then(t, IF sock["Quic"].state \in {"Connecting", "Open"}
                           THEN <<>> ELSE afterFailure(k))
           \/ /\ race.session_open \/ ~mixedMode \/ (l = "Curl" /\ ~isAlt(l))
              /\ Then(t, afterFailure(k))
              /\ UNCHANGED race
        /\ OnlyRace

-------------------------------------------------------------------------------
(* Callbacks of the transports.                                              *)

onTransportOpen(t) ==
    \E l \in Legs :
        /\ At(t, <<"opened", l>>) /\ RaceFree(t)
        /\ \/ /\ ~isCandidate(l)
              /\ Then(t, <<>>)
              /\ UNCHANGED race
           \/ /\ isCandidate(l) /\ retry.user_closed
              /\ race' = [race EXCEPT !.has_alt = @ /\ ~isAlt(l), !.session_open = FALSE]
              /\ Then(t, closeAsync(l))
           \/ /\ isCandidate(l) /\ ~retry.user_closed /\ race.session_open /\ isAlt(l)
              /\ race' = [race EXCEPT !.has_alt = FALSE]
              /\ Then(t, closeAsync("Curl"))
           \/ /\ isCandidate(l) /\ ~retry.user_closed /\ ~(race.session_open /\ isAlt(l))
              /\ race' = [race EXCEPT !.session_open = TRUE]
              /\ Then(t, IF race.has_alt \/ race.mixed_delay_pending
                           THEN << <<"declareWinner", l>>, <<"startKeepalive">> >>
                           ELSE << <<"startKeepalive">> >>)
        /\ OnlyRace

MixedDeclareWinnerKeepsLoser(t) ==
    \E l \in Legs :
        /\ At(t, <<"declareWinner", l>>) /\ RaceFree(t)
        /\ race' = [race EXCEPT !.mixed_delay_pending = FALSE, !.has_alt = FALSE,
                                !.primary_leg = IF isAlt(l) THEN l ELSE @]
        /\ Then(t, <<>>)
        /\ OnlyRace
MixedDeclareWinner(t) ==
    \E l \in Legs :
        /\ At(t, <<"declareWinner", l>>) /\ RaceFree(t)
        /\ \/ /\ race.has_alt /\ l = race.primary_leg
              /\ race' = [race EXCEPT !.mixed_delay_pending = FALSE, !.has_alt = FALSE]
              /\ Then(t, closeAsync("Curl"))
           \/ /\ isAlt(l)
              /\ race' = [race EXCEPT !.mixed_delay_pending = FALSE, !.has_alt = FALSE,
                                      !.primary_leg = l]
              /\ Then(t, closeAsync(race.primary_leg))
           \/ /\ ~isAlt(l) /\ ~(race.has_alt /\ l = race.primary_leg)
              /\ race' = [race EXCEPT !.mixed_delay_pending = FALSE]
              /\ Then(t, <<>>)
        /\ OnlyRace

StartKeepalive(t) ==
    /\ At(t, <<"startKeepalive">>)
    /\ ping' = [armed |-> TRUE, answered |-> FALSE]
    /\ Then(t, <<>>)
    /\ UNCHANGED <<scenario, race, retry, leave, sock, lifecycle, crash, past>>

\* A close with a token code is fatal; any other is a failure, and only a
\* remote one may start the TCP leg.
onTransportClose(t) ==
    \E l \in Legs, how \in {"local", "remote", "token"} :
        /\ At(t, <<"closed", l, how>>) /\ RaceFree(t)
        /\ Then(t, IF ~isCandidate(l) THEN <<>>
                   ELSE IF how = "token" THEN failFatal
                   ELSE << <<"failure", l,
                             IF how = "remote" /\ ~retry.user_closed THEN "fallback" ELSE "none",
                             "reconnect">> >>)
        /\ OnlyTodo

\* onCurlError and onQuicError: "security" is a token or SSL error, "timeout" an
\* error that is fatal unless the race absorbs it, "other" reconnects.
onTransportError(t) ==
    \E l \in Legs, k \in {"security", "timeout", "other"} :
        /\ At(t, <<"error", l, k>>) /\ RaceFree(t)
        /\ Then(t, IF ~isCandidate(l) THEN <<>>
                   ELSE IF k = "security" THEN failFatal
                   ELSE << <<"failure", l, "fallback",
                             IF k = "timeout" THEN "fatal" ELSE "reconnect">> >>)
        /\ OnlyTodo

SessionOff(t) ==
    /\ At(t, <<"sessionOff">>) /\ RaceFree(t)
    /\ race' = [race EXCEPT !.session_open = FALSE]
    /\ Then(t, <<>>)
    /\ OnlyRace

\* onTransportRecv, and the part of handleReceiveSignalResponse that acts on
\* the connection: any answer feeds the ping timeout; the answer to the Leave
\* closes; a rejection ("refused": token, or an important request) closes and
\* tells the channel.  The count of reconnections starts again, unless the answer
\* is an error code.
onTransportRecv(t) ==
    \E l \in Legs, m \in {"ok", "leave", "refused"} :
        /\ At(t, <<"recv", l, m>>) /\ RaceFree(t)
        /\ IF l # race.primary_leg \/ ~race.session_open
             THEN Then(t, <<>>) /\ UNCHANGED <<ping, retry>>
             ELSE /\ ping' = [ping EXCEPT !.answered = TRUE]
                  /\ \E n \in {0, retry.reconnect_count} :
                        /\ m = "refused" => n = retry.reconnect_count
                        /\ retry' = [retry EXCEPT !.reconnect_count = n]
                  /\ Then(t, IF m = "refused"
                               THEN (IF leave.closing THEN << <<"closeAfterDisconnect">> >>
                                                      ELSE closeAllTransports("async"))
                                    \o << <<"tell">> >>
                             ELSE IF m = "leave" /\ leave.closing /\ leave.req
                               THEN << <<"closeAfterDisconnect">> >> ELSE <<>>)
        /\ UNCHANGED <<scenario, race, leave, sock, lifecycle, crash, past>>

Tell(t) ==
    /\ At(t, <<"tell">>)
    /\ past' = [past EXCEPT !.told = TRUE]
    /\ Then(t, <<>>)
    /\ UNCHANGED <<scenario, race, retry, ping, leave, sock, lifecycle, crash>>

-------------------------------------------------------------------------------
(* Reconnection.                                                             *)

\* failFatal; scheduleReconnect takes the same steps when it gives up.
FailFatal(t) ==
    /\ At(t, <<"failFatal">>)
    /\ ping' = [armed |-> FALSE, answered |-> FALSE]
    /\ retry' = [retry EXCEPT !.suppress_reconnect = TRUE]
    /\ Then(t, <<>>)
    /\ UNCHANGED <<scenario, race, leave, sock, lifecycle, crash, past>>

Report(t) ==
    /\ At(t, <<"report">>) /\ RaceFree(t)
    /\ race' = [race EXCEPT !.session_open = FALSE]
    /\ past' = [past EXCEPT !.told = TRUE]
    /\ Then(t, <<>>)
    /\ UNCHANGED <<scenario, retry, ping, leave, sock, lifecycle, crash>>

ScheduleReconnect(t) ==
    /\ At(t, <<"scheduleReconnect">>)
    /\ Then(t, IF retry.user_closed \/ retry.suppress_reconnect THEN <<>>
               ELSE IF retry.reconnect_count >= ReconnectMaxTimes THEN failFatal
               ELSE << <<"reconnecting">> >> \o closeAllTransports("async")
                      \o << <<"resume">>, <<"armReconnect">> >>)
    /\ OnlyTodo

ReconnectingUncounted(t) ==
    /\ At(t, <<"reconnecting">>)
    /\ retry' = [retry EXCEPT !.reconnect_count = @ - 1, !.suppress_reconnect = TRUE]
    /\ ping' = [armed |-> FALSE, answered |-> FALSE]
    /\ Then(t, <<>>)
    /\ UNCHANGED <<scenario, race, leave, sock, lifecycle, crash, past>>
Reconnecting(t) ==
    /\ At(t, <<"reconnecting">>)
    /\ retry' = [retry EXCEPT !.reconnect_count = @ + 1, !.suppress_reconnect = TRUE]
    /\ ping' = [armed |-> FALSE, answered |-> FALSE]
    /\ Then(t, <<>>)
    /\ UNCHANGED <<scenario, race, leave, sock, lifecycle, crash, past>>

ResumeStillSuppressed(t) ==
    /\ At(t, <<"resume">>) /\ RaceFree(t)
    /\ race' = [race EXCEPT !.session_open = FALSE]
    /\ Then(t, <<>>)
    /\ OnlyRace
Resume(t) ==
    /\ At(t, <<"resume">>) /\ RaceFree(t)
    /\ retry' = [retry EXCEPT !.suppress_reconnect = FALSE]
    /\ race' = [race EXCEPT !.session_open = FALSE]
    /\ Then(t, <<>>)
    /\ UNCHANGED <<scenario, ping, leave, sock, lifecycle, crash, past>>

ArmReconnectStopsPing(t) ==
    /\ At(t, <<"armReconnect">>)
    /\ retry' = [retry EXCEPT !.armed = @ \/ ~retry.user_closed]
    /\ ping' = [armed |-> FALSE, answered |-> FALSE]
    /\ Then(t, <<>>)
    /\ UNCHANGED <<scenario, race, leave, sock, lifecycle, crash, past>>
ArmReconnect(t) ==
    /\ At(t, <<"armReconnect">>)
    /\ retry' = [retry EXCEPT !.armed = @ \/ ~retry.user_closed]
    /\ Then(t, <<>>)
    /\ OnlyRetry

\* A reconnect thread wakes up: generation and user_closed are still right.  The
\* last one may still be in beginConnect, if another thread armed this one since.
ReconnectElapses ==
    /\ retry.armed /\ past.attempts < scenario.maxAttempts
    /\ retry' = [retry EXCEPT !.armed = FALSE]
    /\ past' = [past EXCEPT !.attempts = @ + 1]
    /\ \E t \in Detached : Starts(t, IF retry.user_closed THEN <<>> ELSE beginConnect)
    /\ UNCHANGED <<scenario, race, ping, leave, sock, lifecycle, crash>>

\* The keepalive thread finds the last answer older than pingTimeout, and ends.
PingTimeout ==
    /\ ping.armed /\ ping.answered /\ ~retry.user_closed
    /\ ping' = [ping EXCEPT !.armed = FALSE]
    /\ \E t \in Detached : Starts(t, << <<"scheduleReconnect">> >>)
    /\ UNCHANGED <<scenario, race, retry, leave, sock, lifecycle, crash, past>>

-------------------------------------------------------------------------------
(* The application: connect and disconnect.                                  *)

\* connect, or connectBestUrl, which also resets the count of reconnections.
Connect ==
    /\ past.connects < scenario.maxConnects /\ past.attempts < scenario.maxAttempts
    /\ past' = [past EXCEPT !.connects = @ + 1, !.attempts = @ + 1,
                            !.wanted = "up", !.told = FALSE]
    /\ \E n \in {0, retry.reconnect_count} : retry' = [retry EXCEPT !.reconnect_count = n]
    /\ Starts("app", beginConnect)
    /\ UNCHANGED <<scenario, race, ping, leave, sock, lifecycle, crash>>

Disconnect ==
    /\ past.disconnects < scenario.maxDisconnects
    /\ past' = [past EXCEPT !.disconnects = @ + 1, !.wanted = "down"]
    /\ retry' = [retry EXCEPT !.user_closed = TRUE, !.armed = FALSE]
    /\ ping' = [armed |-> FALSE, answered |-> FALSE]
    /\ leave' = [leave EXCEPT !.closing = TRUE]
    /\ Starts("app", << <<"sendLeave">> >>)
    /\ UNCHANGED <<scenario, race, sock, lifecycle, crash>>

\* sendRequest takes the request if the primary transport runs, and quic also
\* wants to be open; the WebSocket still queues after a CLOSE frame.
LeaveTaken(l) ==
    IF l = "Quic" THEN {sock[l].alive /\ ~sock[l].reported /\ sock[l].state = "Open"}
    ELSE LET runs == sock[l].alive /\ sock[l].state # "Closed"
         IN  {runs, runs /\ ~sock[l].reported}

SendLeave(t) ==
    /\ At(t, <<"sendLeave">>) /\ RaceFree(t)
    /\ \E taken \in LeaveTaken(race.primary_leg) :
          /\ leave' = [leave EXCEPT !.sent = taken]
          /\ Then(t, << <<IF taken THEN "awaitLeave" ELSE "closeAfterDisconnect">> >>)
    /\ OnlyLeave

\* The id is stored, and the timeout thread started, after the send.
AwaitLeaveUntimed(t) ==
    /\ At(t, <<"awaitLeave">>)
    /\ leave' = [leave EXCEPT !.req = TRUE]
    /\ Then(t, <<>>)
    /\ OnlyLeave
AwaitLeave(t) ==
    /\ At(t, <<"awaitLeave">>)
    /\ leave' = [leave EXCEPT !.req = TRUE, !.armed = TRUE]
    /\ Then(t, <<>>)
    /\ OnlyLeave

\* scheduleDisconnectCloseTimeout's thread wakes up.
LeaveTimeout ==
    /\ leave.armed
    /\ leave' = [leave EXCEPT !.armed = FALSE]
    /\ \E t \in Detached :
          Starts(t, IF leave.closing THEN << <<"closeAfterDisconnect">> >> ELSE <<>>)
    /\ OnlyLeave

\* closeSocketAfterDisconnect, with cancelDisconnectCloseWait.
CloseSocketAfterDisconnect(t) ==
    /\ At(t, <<"closeAfterDisconnect">>)
    /\ leave' = IF leave.closing
                  THEN [leave EXCEPT !.closing = FALSE, !.req = FALSE, !.armed = FALSE]
                  ELSE leave
    /\ Then(t, IF leave.closing THEN closeAllTransports("join") ELSE <<>>)
    /\ OnlyLeave

-------------------------------------------------------------------------------
(* What the transports do on their own threads, between two callbacks.       *)

\* The terminal callback is being delivered.  A QuicSocket is Closed before
\* it, a WebSocket only after it.
Reporting(l) ==
    sock' = [sock EXCEPT ![l].reported = TRUE, ![l].state = IF l = "Quic" THEN "Closed" ELSE @]

\* The handshake completes.  Neither transport looks for a close request before
\* on_open, so it can follow one, and the state becomes Open again.
SocketOpens(l) ==
    /\ MayOpen(sock[l])
    /\ Starts(l, << <<"opened", l>> >>)
    /\ sock' = [sock EXCEPT ![l] = OpenedUp(@)]
    /\ OnlySock

\* libcurl cannot be set up: the WebSocket is Closed, and fails later; a close that
\* comes in between is left alone.
SocketBreaks(l) ==
    /\ l = "Curl" /\ MayBreak(sock[l]) /\ ~sock[l].reported
    /\ Starts(l, <<>>)
    /\ sock' = [sock EXCEPT ![l] = Broken(@)]
    /\ OnlySock

\* It fails: before the handshake in any way, after it only in transit.  A close
\* request does not keep a failure from being reported.
SocketFails(l) ==
    /\ MayFail(sock[l])
    /\ \E k \in {"security", "timeout", "other"} :
          /\ sock[l].notified => k = "other"
          /\ Starts(l, << <<"error", l, k>> >>)
    /\ Reporting(l)
    /\ OnlySock

\* The peer closes; a WebSocket close code can say that the token is bad.  A
\* QuicSocket that was asked to close reports any close as its own.
SocketClosedByPeer(l) ==
    /\ MayBeClosed(sock[l])
    /\ IF l = "Quic" THEN ~sock[l].stop ELSE sock[l].notified
    /\ \E how \in {"remote", "token"} :
          /\ l = "Quic" => how = "remote"
          /\ Starts(l, << <<"closed", l, how>> >>)
    /\ Reporting(l)
    /\ OnlySock

\* A requested close completes.
SocketStops(l) ==
    /\ MayStop(sock[l])
    /\ Starts(l, << <<"closed", l, "local">> >>)
    /\ Reporting(l)
    /\ OnlySock

\* The thread leaves its body after the terminal callback.
SocketEnds(l) ==
    /\ MayEnd(sock[l])
    /\ Starts(l, <<>>)
    /\ sock' = [sock EXCEPT ![l] = Ended(@)]
    /\ OnlySock

\* A response arrives; the one to the Leave only if a Leave was sent.
SocketReceives(l) ==
    /\ sock[l].alive /\ sock[l].notified /\ ~sock[l].reported
    /\ past.answers < scenario.maxAnswers
    /\ past' = [past EXCEPT !.answers = @ + 1]
    /\ \E m \in {"ok", "leave", "refused"} :
          /\ m = "leave" => leave.sent
          /\ Starts(l, << <<"recv", l, m>> >>)
          /\ leave' = [leave EXCEPT !.sent = @ /\ m # "leave"]
    /\ UNCHANGED <<scenario, race, retry, ping, sock, lifecycle, crash>>

-------------------------------------------------------------------------------
CloseStep(t) ==
    \/ CancelMixedRace(t) \/ CloseCurlAsync(t) \/ CloseCurlJoin(t) \/ JoinCurl(t)
    \/ UnlockCurl(t) \/ CloseQuicAsync(t) \/ CloseQuicJoin(t) \/ JoinQuic(t) \/ AllClosed(t)

ConnectStep(t) ==
    \/ BeginConnect(t) \/ Unsuppress(t) \/ ChooseLeg(t) \/ OpenPrimary(t)
    \/ ScheduleMixedTcpFallback(t) \/ StartMixedTcpFallback(t) \/ OpenAlt(t) \/ EnterRace(t)
    \/ UnlockRace(t) \/ HandleMixedTransportFailure(t) \/ Promote(t)

CallbackStep(t) ==
    \/ onTransportOpen(t) \/ MixedDeclareWinner(t) \/ StartKeepalive(t)
    \/ onTransportClose(t) \/ onTransportError(t) \/ SessionOff(t)
    \/ onTransportRecv(t) \/ Tell(t)

RetryStep(t) ==
    \/ FailFatal(t) \/ Report(t) \/ ScheduleReconnect(t) \/ Reconnecting(t) \/ Resume(t)
    \/ ArmReconnect(t) \/ SendLeave(t) \/ AwaitLeave(t) \/ CloseSocketAfterDisconnect(t)

\* The steps of a kind have names of their own, so that only one kind has to be tried.
Runs(t, names) == todo[t] # <<>> /\ Head(todo[t])[1] \in names

Step(t) ==
    \/ Runs(t, {"cancelMixedRace", "closeCurl", "joinCurl", "unlockCurl", "closeQuic",
                "joinQuic", "allClosed"}) /\ CloseStep(t)
    \/ Runs(t, {"beginConnect", "unsuppress", "chooseLeg", "openPrimary", "scheduleFallback",
                "startFallback", "openAlt", "enterRace", "unlockRace", "failure",
                "promote"}) /\ ConnectStep(t)
    \/ Runs(t, {"opened", "declareWinner", "startKeepalive", "closed", "error",
                "sessionOff", "recv", "tell"}) /\ CallbackStep(t)
    \/ Runs(t, {"failFatal", "report", "scheduleReconnect", "reconnecting", "resume",
                "armReconnect", "sendLeave", "awaitLeave",
                "closeAfterDisconnect"}) /\ RetryStep(t)

Busy == {t \in Threads : todo[t] # <<>>}

Wakeup == DelayElapses \/ ReconnectElapses \/ PingTimeout \/ LeaveTimeout

Transport(l) ==
    \/ SocketBreaks(l) \/ SocketOpens(l) \/ SocketFails(l) \/ SocketClosedByPeer(l)
    \/ SocketStops(l) \/ SocketEnds(l) \/ SocketReceives(l)

Next ==
    \/ \E t \in Busy : Step(t)
    \/ Wakeup
    \/ \E l \in Legs : Transport(l)
    \/ Connect \/ Disconnect

Spec == Init /\ [][Next]_vars

\* Threads are scheduled, sleeping threads wake up, a handshake ends within
\* connectTimeout, a requested close completes, and a thread whose socket is
\* done ends.  Nothing is assumed of the peer, the server or the application.
Fairness ==
    /\ \A t \in Threads : WF_vars(Step(t))
    /\ WF_vars(DelayElapses) /\ WF_vars(ReconnectElapses) /\ WF_vars(LeaveTimeout)
    /\ \A l \in Legs :
          /\ WF_vars(~sock[l].notified /\ (SocketOpens(l) \/ SocketFails(l)))
          /\ WF_vars(SocketStops(l))
          /\ WF_vars(SocketEnds(l))

FairSpec == Spec /\ Fairness
===============================================================================
