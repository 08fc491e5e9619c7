----------------------------- MODULE StateRelay -----------------------------
(***************************************************************************)
(* The stream of States of one player and what the others are shown of it  *)
(* (state and tick of internal/server/server.go, Add and Latest of         *)
(* history.go).  The player numbers its States with a counter of w bits    *)
(* and starts again from 0 when the game restarts at the same address; UDP *)
(* loses, repeats and reorders them.  state() keeps what is newer than     *)
(* lastSeq, takes a jump back of more than RestartGap for a restart, and   *)
(* drops the rest.  The tick shows the newest sample of a player seen      *)
(* within Stale, and reaps the player after Timeout.                       *)
(*                                                                         *)
(* A State's content is its position in the order of sending.  Admission   *)
(* (Sessions) and the reader's stale time are left out: a datagram is      *)
(* handled when it arrives.                                                *)
(***************************************************************************)
EXTENDS Integers, Sequences, FiniteSets

CONSTANTS
    SeqMod,         \* 2^32: Seq is a uint32
    RestartGap,     \* the 1000 of state()
    FirstSeq,       \* the Seqs the player may have reached when it registers
    Delay,          \* the network delivers a State only until that many more
                    \* have been sent
    Timeout, Stale, \* cfg.Timeout, cfg.Stale
    MaxSent, MaxRestarts, MaxClock      \* bounds

ASSUME SeqAssumption ==
    /\ SeqMod \in Nat /\ RestartGap \in Nat /\ Delay \in Nat
    /\ 2 * RestartGap < SeqMod
    /\ FirstSeq \subseteq 0 .. SeqMod - 1

\* No State is delayed so long that state() would take it for a restart; at 60
\* States a second RestartGap is more than 16 s.
ASSUME DelayAssumption == Delay <= RestartGap

ASSUME TimeAssumption ==
    /\ Timeout \in Nat /\ Stale \in Nat
    /\ MaxSent \in Nat /\ MaxRestarts \in Nat /\ MaxClock \in Nat

VARIABLES
    clock,
    player,     \* the player's game: its next Seq and how often it restarted
    sent,       \* every State ever sent, in order: its Seq and its run
    session,    \* the player's session: lastSeq and lastSeen
    newest,     \* its newest sample, h.samples[len-1]: which State, and RecvAt
    shown,      \* what the last snapshot showed the others of the player: the
                \* sample and its age
    frozen      \* history variable: the States that were the newest sent when
                \* they arrived and were dropped, since the last one accepted

vars == <<clock, player, sent, session, newest, shown, frozen>>

Nothing == [k |-> 0]                    \* no session, no sample, no entity

-----------------------------------------------------------------------------
(* Conditions of the code *)

\* int32(st.Seq - c.lastSeq)
Delta(seq, lastSeq) ==
    LET d == (seq - lastSeq) % SeqMod
    IN  IF 2 * d >= SeqMod THEN d - SeqMod ELSE d

Newer(delta) == delta > 0
BugGapOffByOne(delta) == delta <= -RestartGap
BugNoRestart(delta) == FALSE
Restarted(delta) == delta < -RestartGap

\* Without samples (a new session) any State is taken.
Accept(seq) ==
    \/ newest = Nothing
    \/ LET delta == Delta(seq, session.lastSeq) IN Newer(delta) \/ Restarted(delta)

\* history.Add, what Latest sees of it: a sample that does not come after the
\* newest in time is not kept.  A restart starts from an empty history.
Latest(k, seq, now) ==
    IF /\ newest # Nothing
       /\ ~Restarted(Delta(seq, session.lastSeq))
       /\ now <= newest.recvAt
    THEN newest
    ELSE [k |-> k, recvAt |-> now]

-----------------------------------------------------------------------------
(* The player and the network *)

Advance ==
    /\ clock < MaxClock
    /\ clock' = clock + 1
    /\ UNCHANGED <<player, sent, session, newest, shown, frozen>>

Send ==
    /\ Len(sent) < MaxSent
    /\ sent' = Append(sent, [seq |-> player.seq, run |-> player.restarts])
    /\ player' = [player EXCEPT !.seq = (@ + 1) % SeqMod]
    /\ UNCHANGED <<clock, session, newest, shown, frozen>>

Restart ==
    /\ player.restarts < MaxRestarts
    /\ player' = [seq |-> 0, restarts |-> player.restarts + 1]
    /\ UNCHANGED <<clock, sent, session, newest, shown, frozen>>

-----------------------------------------------------------------------------
(* The server *)

\* state(): a State arrives, perhaps once more and after others sent later.
\* The clock is fine enough to tell a State from the newest sample.
StateOf(k) ==
    LET seq == sent[k].seq IN
    /\ Len(sent) - k <= Delay
    /\ newest # Nothing => newest.recvAt < clock
    /\ IF Accept(seq)
       THEN /\ session' = [lastSeq |-> seq, lastSeen |-> clock]
            /\ newest' = Latest(k, seq, clock)
            /\ frozen' = {}
       ELSE /\ session' = [session EXCEPT !.lastSeen = clock]
            /\ frozen' = IF k = Len(sent) /\ k # newest.k THEN frozen \cup {k}
                         ELSE frozen
            /\ UNCHANGED newest
    /\ UNCHANGED <<clock, player, sent, shown>>

State == \E k \in 1 .. Len(sent) : StateOf(k)

\* A Hello opens a session without samples, or refreshes it; so does a line of
\* chat where there is a session.
Hello ==
    /\ session' = IF session = Nothing THEN [lastSeq |-> 0, lastSeen |-> clock]
                  ELSE [session EXCEPT !.lastSeen = clock]
    /\ UNCHANGED <<clock, player, sent, newest, shown, frozen>>

Silent == clock - session.lastSeen > Timeout
BugStaleForgotten == FALSE
IsStale == clock - session.lastSeen > Stale

\* The tick: the reaper, and what the snapshots to the others say of the player.
Tick ==
    /\ session # Nothing
    /\ IF Silent
       THEN /\ session' = Nothing /\ newest' = Nothing /\ shown' = Nothing
            /\ frozen' = {}
       ELSE /\ shown' = IF IsStale \/ newest = Nothing THEN Nothing
                        ELSE [k |-> newest.k, age |-> clock - newest.recvAt]
            /\ UNCHANGED <<session, newest, frozen>>
    /\ UNCHANGED <<clock, player, sent>>

-----------------------------------------------------------------------------
(* The specification *)

Init ==
    /\ clock = 0
    /\ player \in [seq : FirstSeq, restarts : {0}]
    /\ sent = <<>>
    /\ session = Nothing /\ newest = Nothing /\ shown = Nothing
    /\ frozen = {}

Next == Advance \/ Send \/ Restart \/ State \/ Hello \/ Tick

Spec == Init /\ [][Next]_vars

\* Time passes and the ticker ticks; the player may fall silent at any time.
FairSpec == Spec /\ WF_vars(Advance) /\ WF_vars(Tick)

-----------------------------------------------------------------------------
(* Properties *)

\* The state is well formed: there is a sample only in a session, what is
\* shown was once a sample, and only States that were sent are held.
TypeOK ==
    /\ clock \in 0 .. MaxClock
    /\ player \in [seq : 0 .. SeqMod - 1, restarts : 0 .. MaxRestarts]
    /\ sent \in Seq([seq : 0 .. SeqMod - 1, run : 0 .. MaxRestarts])
    /\ session \in {Nothing} \cup [lastSeq : 0 .. SeqMod - 1, lastSeen : 0 .. clock]
    /\ newest \in {Nothing} \cup [k : 1 .. Len(sent), recvAt : 0 .. clock]
    /\ shown \in {Nothing} \cup [k : 1 .. Len(sent), age : 0 .. clock]
    /\ newest # Nothing => session # Nothing /\ session.lastSeen >= newest.recvAt
    /\ frozen \subseteq 1 .. Len(sent)

\* The others never see a player jump back: as long as the session lasts, the
\* sample held is replaced only by one sent later in the same run of the game,
\* or by one of another run, whatever UDP repeats, reorders and loses, across
\* the wrap of Seq and restarts of the game.
NoStepBack ==
    [][(/\ newest # Nothing /\ newest' # Nothing /\ newest'.k # newest.k
        /\ sent[newest'.k].run = sent[newest.k].run)
       => newest'.k > newest.k]_vars

\* A game that restarts is not shut out: of one run, at most RestartGap + 1
\* States that arrive in order are dropped before one is accepted, however far
\* the run before had counted.  (Of the last SeqMod States, should as many have
\* been lost in between.)
FreezeBounded ==
    \A r \in 0 .. player.restarts :
        Cardinality({k \in frozen : sent[k].run = r /\ Len(sent) - k < SeqMod})
            <= RestartGap + 1

\* A player who is silent is no longer shown, long before the session ends.
SilentVanishes ==
    (shown # Nothing /\ session # Nothing /\ session.lastSeen + Stale < MaxClock)
    ~> (shown = Nothing \/ session = Nothing \/ session.lastSeen + Stale >= MaxClock)
=============================================================================
