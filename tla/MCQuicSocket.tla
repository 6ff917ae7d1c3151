----------------------------- MODULE MCQuicSocket ------------------------------
(* One QuicSocket; the lengths of its peer's frames are written in 1 or 2 bytes. *)
EXTENDS QuicSocketProperties

Limit(o, c, s) == [opens |-> o, closes |-> c, sends |-> s]

Part(number, len, payload) == [number |-> number, len |-> len, payload |-> payload]

\* 200 and three frames, one empty; an error with a frame after it.
MCStreams ==
    {<< Part(200, 2, <<>>), Part(1, 1, <<1>>), Part(0, 1, <<>>), Part(2, 2, <<3, 3>>) >>,
     << Part(404, 2, <<>>), Part(1, 1, <<1>>) >>}

\* Both sides of every boundary of the lengths, up to the largest number of TLC.
MCSizes == {0, 1, 63, 64, 16383, 16384, 1073741823, 1073741824, 2147483647}

\* Two connections with one close; two closes; and a close and a message.
MCLimits == {Limit(2, 1, 0), Limit(1, 2, 0), Limit(1, 1, 1)}
===============================================================================
