----------------------------- MODULE MC_Outbox ------------------------------
(* An instance of Outbox: the addresses share one IP.                      *)
EXTENDS Outbox

CONSTANTS p1, p2, p3                    \* "Player 1", "Player 2", "Player 3"

MCPlayerName == SubSeq(<<p1, p2, p3>>, 1, MaxSessions)
SharedIP == [a \in Addr |-> CHOOSE ip \in IP : TRUE]
=============================================================================
