---------------------------- MODULE MC_Sessions -----------------------------
(* Instances of Sessions: the addresses are their own IPs, or share one.   *)
EXTENDS Sessions, Sequences, TLC

CONSTANTS p1, p2, p3                    \* "Player 1", "Player 2", "Player 3"

MCPlayerName == SubSeq(<<p1, p2, p3>>, 1, MaxSessions)
OwnIP == [a \in Addr |-> a]
SharedIP == [a \in Addr |-> CHOOSE ip \in IP : TRUE]

Symmetry == Permutations(Addr)
=============================================================================
