------------------------------ MODULE MCLogCore ------------------------------
(* Instances of LogCore for TLC. *)
EXTENDS LogCore, TLC

CONSTANTS c1, c2, w1, w2, w3, a1, a2, i1, i2

TwoCallers == {c1, c2}
OneCaller == {c1}
TwoWorkers == {w1, w2}
ThreeWorkers == {w1, w2, w3}
TwoItems == {i1, i2}

\* a1 is written to by workers, a2 has disable_async.
OneAppender == {a1}
TwoAppenders == {a1, a2}
SyncAppender == {a2}
NoAppender == {}

\* Every message passes the filters.
AllHits == Appenders \X Message

\* One length that fits a pooled block, and one that does not.
ShortLength == {1}
ShortAndLong == {1, 3}

ClearSymmetry == Permutations(TwoCallers) \union Permutations(ThreeWorkers) \union Permutations(TwoItems)
=============================================================================
