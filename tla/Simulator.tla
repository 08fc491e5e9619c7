----------------------------- MODULE Simulator ------------------------------
(***************************************************************************)
(* The fake client rbrmp-sim (cmd/rbrmp-sim/main.go): a goroutine that     *)
(* receives and puts its reports into a channel, and the main loop that    *)
(* sends, takes reports and prints, until the time it was given is over.   *)
(* A report is of a Welcome or of a snapshot; the car, the measured times  *)
(* and the printing are left out.  The server is anybody: it may answer,   *)
(* not exist, or send without end.                                         *)
(***************************************************************************)
EXTENDS Naturals, Sequences

CONSTANTS
    RunFor,         \* values of -for
    Capacity,       \* of the channel reports
    MaxTime         \* bound: the clock stops here

ASSUME SimAssumption ==
    RunFor \subseteq Nat /\ Capacity \in Nat \ {0} /\ MaxTime \in Nat

VARIABLES
    runFor,         \* the value of -for; 0 is no end
    sim,            \* main: "start", "select" or "ended"
    recv,           \* the receiver: "none", "read", "give" or "ended"
    hand,           \* the report it has made and not yet given
    reports,        \* the channel
    time,           \* since the start
    ticks,          \* the tickers whose channel holds a tick
    counted,        \* totalSamples > 0
    heard           \* history variable: a snapshot was read

simVars == <<runFor, sim, recv, hand, reports, time, ticks, counted, heard>>

-----------------------------------------------------------------------------

\* Dial, and the Hello; either may fail, and ends the program.
Dial ==
    /\ sim = "start"
    /\ \/ sim' = "ended" /\ UNCHANGED recv
       \/ sim' = "select" /\ recv' = "read"
    /\ UNCHANGED <<runFor, hand, reports, time, ticks, counted, heard>>

Clock ==
    /\ time < MaxTime /\ time' = time + 1
    /\ UNCHANGED <<runFor, sim, recv, hand, reports, ticks, counted, heard>>

Ring(t) ==
    /\ sim = "select" /\ ticks' = ticks \cup {t}
    /\ UNCHANGED <<runFor, sim, recv, hand, reports, time, counted, heard>>

\* What cannot be decoded is skipped and changes nothing.
Receive(report) ==
    /\ sim = "select" /\ recv = "read"
    /\ hand' = report /\ recv' = "give"
    /\ heard' = (heard \/ report = "snapshot")
    /\ UNCHANGED <<runFor, sim, reports, time, ticks, counted>>

\* As a connected socket does when nobody listens at the other end.
ReadFails ==
    /\ sim = "select" /\ recv = "read"
    /\ recv' = "ended"
    /\ UNCHANGED <<runFor, sim, hand, reports, time, ticks, counted, heard>>

Give ==
    /\ sim = "select" /\ recv = "give" /\ Len(reports) < Capacity
    /\ reports' = Append(reports, hand) /\ hand' = "none" /\ recv' = "read"
    /\ UNCHANGED <<runFor, sim, time, ticks, counted, heard>>

BugOnceHeard == counted /\ time > runFor
Over == runFor > 0 /\ time > runFor

\* Time is looked at when a State is due; the State goes out, or is lost.
SelectSend ==
    /\ sim = "select" /\ "send" \in ticks
    /\ ticks' = ticks \ {"send"}
    /\ sim' = IF Over THEN "ended" ELSE sim
    /\ UNCHANGED <<runFor, recv, hand, reports, time, counted, heard>>

BugUntilFirst == ~counted
Takes == TRUE
SelectReport ==
    /\ sim = "select" /\ reports # <<>> /\ Takes
    /\ reports' = Tail(reports)
    /\ counted' = (counted \/ Head(reports) = "snapshot")
    /\ UNCHANGED <<runFor, sim, recv, hand, time, ticks, heard>>

\* A line a second, of what came in since the last; the totals stay.
BugResetsTotal == FALSE
TotalAfterPrint == counted
SelectPrint ==
    /\ sim = "select" /\ "print" \in ticks
    /\ ticks' = ticks \ {"print"}
    /\ counted' = TotalAfterPrint
    /\ UNCHANGED <<runFor, sim, recv, hand, reports, time, heard>>

-----------------------------------------------------------------------------

SimInit ==
    /\ runFor \in RunFor
    /\ sim = "start" /\ recv = "none" /\ hand = "none" /\ reports = <<>>
    /\ time = 0 /\ ticks = {} /\ counted = FALSE /\ heard = FALSE

SimNext ==
    \/ Dial \/ Clock \/ Give \/ ReadFails
    \/ SelectSend \/ SelectReport \/ SelectPrint
    \/ \E t \in {"send", "print"} : Ring(t)
    \/ \E report \in {"welcome", "snapshot"} : Receive(report)

\* Time passes, tickers fire, goroutines run, and a select takes each of its
\* cases that is ready again and again.  Nothing needs to be received.
SimFairness ==
    /\ WF_simVars(Dial) /\ WF_simVars(Clock) /\ WF_simVars(Give)
    /\ \A t \in {"send", "print"} : WF_simVars(Ring(t))
    /\ SF_simVars(SelectSend) /\ SF_simVars(SelectReport) /\ SF_simVars(SelectPrint)

-----------------------------------------------------------------------------
(* Properties *)

\* With -for the simulator ends, be the server silent, absent or flooding it.
SimEnds == (runFor > 0 /\ runFor < MaxTime) => <>(sim = "ended")

\* The receiver never waits for the main loop for ever.
ReceiverGoesOn == recv = "give" ~> (recv # "give" \/ sim = "ended")

\* The summary says that no snapshot was received only if none was, or none
\* that the main loop had the time to take out of the channel.
SummaryTrue ==
    heard => \/ counted \/ hand = "snapshot"
             \/ \E i \in DOMAIN reports : reports[i] = "snapshot"
=============================================================================
