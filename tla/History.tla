------------------------------ MODULE History -------------------------------
(***************************************************************************)
(* The samples kept of one player, and the look-up of a past time in them  *)
(* (internal/server/history.go).  A sample is the time RecvAt at which the *)
(* server received it: Add makes these strictly increasing, so that a time *)
(* names a sample.  What is interpolated is left out: a look-up yields the *)
(* pair of samples between which the pose is computed.                     *)
(***************************************************************************)
EXTENDS Integers, Sequences, FiniteSetsExt

CONSTANTS
    MaxAge, MaxLen,     \* fields of History: 3 s and 4096
    MaxTime             \* bound on the times

ASSUME HistoryAssumption == MaxAge \in Nat /\ MaxLen \in Nat \ {0} /\ MaxTime \in Nat

VARIABLES
    samples,    \* History.samples
    added       \* history variable: every sample accepted so far

vars == <<samples, added>>

Time == 0 .. MaxTime
Missing == <<>>                         \* ok = false
OutOfRange == <<"panic">>               \* an index outside the slice

Newest == samples[Len(samples)]

-----------------------------------------------------------------------------
(* Add *)

BugEqualTimes(now) == samples # <<>> => now >= Newest
InOrder(now) == samples # <<>> => now > Newest

\* How many samples are dropped from the front of s when its newest has just
\* come: all that are older than MaxAge but one, and what exceeds MaxLen.
TooOld(s) == Cardinality({i \in 1 .. Len(s) : s[i] < s[Len(s)] - MaxAge})

BugNoSpare(s) == Max({TooOld(s), Len(s) - MaxLen})
BugNoCap(s) == Max({TooOld(s) - 1, 0})
Surplus(s) == Max({TooOld(s) - 1, Len(s) - MaxLen, 0})

Add(now) ==
    /\ InOrder(now)
    /\ LET s == Append(samples, now) IN samples' = SubSeq(s, Surplus(s) + 1, Len(s))
    /\ added' = added \cup {now}

\* A sample that is not newer than the newest is not kept.
AddLate(now) ==
    /\ ~InOrder(now)
    /\ UNCHANGED vars

\* state() begins a new History when the player restarted.
NewHistory ==
    /\ samples' = <<>>
    /\ added' = {}

-----------------------------------------------------------------------------
(* At *)

BugNotBefore(t, at) == t >= at
After(t, at) == t > at

\* The binary search for the first sample after at, between lo and hi.
Search(at) ==
    LET narrowed[range \in (1 .. Len(samples)) \X (1 .. Len(samples))] ==
            LET lo == range[1]
                hi == range[2]
                mid == (lo + hi) \div 2
            IN  IF lo >= hi THEN lo
                ELSE IF After(samples[mid], at) THEN narrowed[<<lo, mid>>]
                ELSE narrowed[<<mid + 1, hi>>]
    IN  narrowed[<<1, Len(samples)>>]

At(at) ==
    IF samples = <<>> THEN Missing
    ELSE IF at < samples[1] THEN Missing
    ELSE IF at >= Newest THEN <<Newest, Newest>>
    ELSE LET b == Search(at)
         IN  IF b = 1 THEN OutOfRange ELSE <<samples[b - 1], samples[b]>>

-----------------------------------------------------------------------------
(* The specification *)

Init == samples = <<>> /\ added = {}

Next == NewHistory \/ \E now \in Time : Add(now) \/ AddLate(now)

Spec == Init /\ [][Next]_vars

-----------------------------------------------------------------------------
(* Properties *)

\* The samples are the newest of those accepted, in strictly increasing order,
\* which is what the binary search of At relies on.
TypeOK ==
    /\ samples \in Seq(Time) /\ added \subseteq Time
    /\ \A i \in 1 .. Len(samples) - 1 : samples[i] < samples[i + 1]
    /\ LET held == {samples[i] : i \in 1 .. Len(samples)}
       IN  held \subseteq added /\ \A t \in added \ held : \A u \in held : t < u

\* Where the player was at a time, of all samples ever accepted: between the
\* last one not after it and the first one after it, or at the newest.
Bracket(at) ==
    LET a == Max({t \in added : t <= at})
        later == {t \in added : t > at}
    IN  <<a, IF later = {} THEN a ELSE Min(later)>>

\* Dropping samples never changes an answer: from the oldest sample held on, a
\* look-up finds exactly the two samples around the time that it would find if
\* nothing had ever been dropped, and no index is outside the slice.
LookupExact ==
    \A at \in Time :
        samples # <<>> /\ at >= samples[1] => At(at) = Bracket(at)

\* Nothing of the window is missing: unless MaxLen was reached, a player who was
\* there at the cutoff MaxAge before the newest sample is found there.
WindowKept ==
    (samples # <<>> /\ Len(samples) < MaxLen) =>
        \A at \in Time :
            (at >= Newest - MaxAge /\ \E t \in added : t <= at) => At(at) # Missing

\* The history of a player who never stops sending stays small: at most MaxLen
\* samples, and at most one older than MaxAge.
Bounded ==
    /\ Len(samples) <= MaxLen
    /\ Len(samples) >= 2 => samples[2] >= Newest - MaxAge
=============================================================================
