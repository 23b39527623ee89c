--------------------------- MODULE MCUsersDictionary ---------------------------
(* The users dictionary with few requests, for TLC. *)
EXTENDS UsersDictionary, TLC

CONSTANTS r1, w1, w2, p1, p2

MCReaders   == {r1}
MCWriters   == {w1, w2}
MCProcesses == {p1, p2}

\* One change is undone when OpenFGA refuses it, the other is not.
MCKind == (w1 :> "readBack") @@ (w2 :> "compensated")

\* There is no user before the first change.
MCEmptyStates == {{}}
=============================================================================
