----------------------------- MODULE MCSessions -----------------------------
(* Small instances of Sessions for TLC. *)
EXTENDS Sessions, TLC

CONSTANTS u1, u2, i1, i2, r1, r2

OneUser == {u1}
OneInstance == {i1}
TwoInstances == {i1, i2}
OneRequest == {r1}
TwoRequests == {r1, r2}
Logouts == {"logout"}
TwoUsers == {u1, u2}
AllOps == {"read", "logout", "change"}
Writes == {"logout", "change"}

Symmetry == Permutations(Instances) \cup Permutations(Requests)
=============================================================================
