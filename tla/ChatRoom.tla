------------------------------ MODULE ChatRoom ------------------------------
(***************************************************************************)
(* What the chat of the server promises, whoever speaks: a line goes to    *)
(* everybody who is in the room when it is spoken, the speaker included,   *)
(* and to nobody else; everybody gets the lines of one speaker in the      *)
(* order they were spoken, each of them once, in the end.  Between the     *)
(* lines of two speakers there is no order.                                *)
(***************************************************************************)
EXTENDS Naturals, Sequences, SequencesExt

CONSTANTS
    Speaker,        \* who puts lines into the room
    Listener        \* who may be in it

VARIABLES
    present,        \* the listeners in the room
    due             \* due[s]: the lines of s somebody has still to hear, each
                    \* as the number of copies each listener has still to get

vars == <<present, due>>

Init ==
    /\ present = {}
    /\ due = [s \in Speaker |-> <<>>]

Move ==
    /\ present' \in SUBSET Listener
    /\ UNCHANGED due

Unheard(line) == \E a \in Listener : line[a] > 0

Speak(s) ==
    /\ present # {}
    /\ due' = [due EXCEPT ![s] =
                   Append(@, [a \in Listener |-> IF a \in present THEN 1 ELSE 0])]
    /\ UNCHANGED present

\* The first line of s that a has not heard reaches it; a line that everybody
\* has heard is done.
Hear(s, a) ==
    /\ \E n \in 1 .. Len(due[s]) :
        LET rest == [due[s][n] EXCEPT ![a] = @ - 1]
        IN  /\ due[s][n][a] > 0
            /\ \A m \in 1 .. n - 1 : due[s][m][a] = 0
            /\ due' = [due EXCEPT ![s] =
                          IF Unheard(rest) THEN [@ EXCEPT ![n] = rest]
                          ELSE RemoveAt(@, n)]
    /\ UNCHANGED present

Next ==
    \/ Move
    \/ \E s \in Speaker : Speak(s) \/ \E a \in Listener : Hear(s, a)

\* What may happen; and, with fairness, what must.
Safe == Init /\ [][Next]_vars

Spec ==
    /\ Safe
    /\ \A s \in Speaker, a \in Listener : WF_vars(Hear(s, a))
=============================================================================
