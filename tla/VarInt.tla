-------------------------------- MODULE VarInt ---------------------------------
(***************************************************************************)
(* The variable-length integers of QuicSocket.cpp, as sequences of bytes:  *)
(* the two high bits of the first byte say how many there are.             *)
(***************************************************************************)
EXTENDS Integers, Sequences

PutUVarIntLenShort(n) == IF n < 64 THEN 1 ELSE IF n <= 16384 THEN 2
                         ELSE IF n < 1073741824 THEN 4 ELSE 8
PutUVarIntLen(n) == IF n < 64 THEN 1 ELSE IF n < 16384 THEN 2
                    ELSE IF n < 1073741824 THEN 4 ELSE 8

\* n in len bytes: its lowest 8 * len - 2 bits after the mark of the length.
PutWideUncut(n, len) ==
    LET mark == CASE len = 1 -> 0 [] len = 2 -> 64 [] len = 4 -> 128 [] len = 8 -> 192
        shifted[k \in 0..len - 1] == IF k = 0 THEN n ELSE shifted[k - 1] \div 256
    IN  [i \in 1..len |-> IF i = 1 THEN mark + (shifted[len - 1] % 64)
                                   ELSE shifted[len - i]]
PutWide(n, len) ==
    LET mark == CASE len = 1 -> 0 [] len = 2 -> 64 [] len = 4 -> 128 [] len = 8 -> 192
        shifted[k \in 0..len - 1] == IF k = 0 THEN n ELSE shifted[k - 1] \div 256
    IN  [i \in 1..len |-> IF i = 1 THEN mark + (shifted[len - 1] % 64)
                                   ELSE shifted[len - i] % 256]

PutUVarInt(n) == PutWide(n, PutUVarIntLen(n))

GetUVarIntLen(first) == CASE first \div 64 = 0 -> 1 [] first \div 64 = 1 -> 2
                          [] first \div 64 = 2 -> 4 [] first \div 64 = 3 -> 8

\* The number p begins with, and how many bytes it takes: 0 if some are missing.
GetUVarInt(p) ==
    IF p = <<>> \/ Len(p) < GetUVarIntLen(p[1]) THEN [dest |-> 0, len |-> 0]
    ELSE LET n[i \in 1..GetUVarIntLen(p[1])] ==
                 IF i = 1 THEN p[1] % 64 ELSE (n[i - 1] * 256) + p[i]
         IN  [dest |-> n[GetUVarIntLen(p[1])], len |-> GetUVarIntLen(p[1])]
===============================================================================
