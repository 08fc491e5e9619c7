---------------------------- MODULE MC_Programs -----------------------------
(* The programs of the repository that run until they are stopped, each    *)
(* for itself: a behaviour is the life of a server or of a simulator.      *)
EXTENDS Lifecycle, Simulator

VARIABLE program                        \* whose life it is

vars == <<program, srvVars, simVars>>

Init ==
    /\ SrvInit /\ SimInit
    /\ \/ program = "server" /\ runFor = CHOOSE n \in RunFor : TRUE
       \/ program = "simulator" /\ host = CHOOSE h \in Host : TRUE

Next ==
    /\ \/ program = "server" /\ SrvNext /\ UNCHANGED simVars
       \/ program = "simulator" /\ SimNext /\ UNCHANGED srvVars
    /\ UNCHANGED program

Spec ==
    /\ Init /\ [][Next]_vars
    /\ program = "server" => SrvFairness
    /\ program = "simulator" => SimFairness

\* SimEnds, of the behaviours that are a simulator's.
SimulatorEnds == program = "simulator" => SimEnds
=============================================================================
