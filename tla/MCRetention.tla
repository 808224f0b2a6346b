----------------------------- MODULE MCRetention -----------------------------
(* The instance of Retention that TLC checks.                              *)
EXTENDS Retention

\* A table of boot-scanned files, one per <<kind, bytes, closed>>.
Scanned(specs) ==
  {[index |-> i, kind |-> specs[i + 1][1], bytes |-> specs[i + 1][2],
    closed |-> specs[i + 1][3], active |-> FALSE, hydrated |-> FALSE] :
     i \in 0 .. Len(specs) - 1}

c == "changes"
s == "snapshot"
b == "bookend"

(* Images over the cap: with closed files of every tier and a leftover;    *)
(* with a leftover of the long record in the place of a closed snapshot.   *)
MCBootTables ==
  { Scanned(<< <<b, 1, TRUE>>, <<s, 1, TRUE>>, <<c, 1, TRUE>>, <<c, 1, FALSE>> >>),
    Scanned(<< <<b, 1, TRUE>>, <<s, 1, FALSE>>, <<c, 1, TRUE>>, <<c, 1, FALSE>> >>) }
=============================================================================
