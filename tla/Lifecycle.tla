----------------------------- MODULE Lifecycle ------------------------------
(***************************************************************************)
(* The life of the server: main of cmd/rbrmp-server, Run and Close, the    *)
(* loops of the ticker and of the statistics, and the RCON listener        *)
(* (internal/server/server.go and rcon.go), from the start to the end of   *)
(* all goroutines.  What a datagram, a tick or a command does is left to   *)
(* Sessions and the others; here they take the lock and give it back.      *)
(* Only an RCON command keeps it over a step, while it writes the bans     *)
(* file.  The host is the program, or a test that calls New, Run and Close *)
(* and lives on.                                                           *)
(***************************************************************************)
EXTENDS Naturals

CONSTANT Host           \* a subset of {"program", "test"}

VARIABLES
    host,
    go,             \* where each goroutine is; main is the reader too
    status,         \* of the program: 0, 1, 2, Killed, or NoStatus yet
    failed,         \* history variable: something the program needs failed
    udp, tcp,       \* the socket and the listener: "none", "open", "closed"
    done,           \* the channel done of Run is closed
    stop,           \* signals in the channel stop, which holds one
    mu,             \* who keeps s.mu over a step, or "none"
    fired           \* the tickers whose channel holds a tick

srvVars == <<host, go, status, failed, udp, tcp, done, stop, mu, fired>>

Goroutine == {"main", "waiter", "ticker", "stats", "accept", "rcon"}
Loop == {"ticker", "stats"}

NoStatus == 100
Killed == 130

\* When main ends, so does everything else.
Alive == go.main # "exit"

At(g, pc) == Alive /\ go[g] = pc
To(g, pc) == go' = [go EXCEPT ![g] = pc]

Exit(s) == To("main", "exit") /\ status' = s
Fail(s) == Exit(s) /\ failed' = TRUE /\ UNCHANGED <<udp, tcp>>

-----------------------------------------------------------------------------
(* The start *)

ParseFlags ==
    /\ At("main", "flags")
    /\ \/ Fail(2)
       \/ To("main", "new") /\ UNCHANGED <<status, failed, udp, tcp>>
    /\ UNCHANGED <<host, done, stop, mu, fired>>

\* New reads the bans file and binds the socket.
New ==
    /\ At("main", "new")
    /\ \/ host = "program" /\ Fail(1)
       \/ /\ udp' = "open" /\ To("main", IF host = "program" THEN "listen" ELSE "run")
          /\ UNCHANGED <<status, failed, tcp>>
    /\ UNCHANGED <<host, done, stop, mu, fired>>

\* Without a password there is no RCON.
ListenRCON ==
    /\ At("main", "listen")
    /\ \/ Fail(1)
       \/ /\ To("main", "notify") /\ UNCHANGED <<status, failed, udp, tcp>>
       \/ /\ tcp' = "open"
          /\ go' = [go EXCEPT !.main = "notify", !.accept = "accept"]
          /\ UNCHANGED <<status, failed, udp>>
    /\ UNCHANGED <<host, done, stop, mu, fired>>

Notify ==
    /\ At("main", "notify")
    /\ go' = [go EXCEPT !.main = "run", !.waiter = "wait"]
    /\ UNCHANGED <<host, status, failed, udp, tcp, done, stop, mu, fired>>

\* Run starts its loops, the statistics only if they are asked for.
Run ==
    /\ At("main", "run")
    /\ \E stats \in {"none", "select"} :
        go' = [go EXCEPT !.main = "read", !.ticker = "select", !.stats = stats]
    /\ UNCHANGED <<host, status, failed, udp, tcp, done, stop, mu, fired>>

-----------------------------------------------------------------------------
(* The reader *)

BugRetries(err) == "read"
AfterError(err) == err

\* A datagram, the error of a closed socket, or another error.
Read ==
    /\ At("main", "read")
    /\ \/ udp = "open" /\ To("main", "handle") /\ UNCHANGED failed
       \/ udp = "closed" /\ To("main", AfterError("closed")) /\ UNCHANGED failed
       \/ udp = "open" /\ To("main", AfterError("broken")) /\ failed' = TRUE
    /\ UNCHANGED <<host, status, udp, tcp, done, stop, mu, fired>>

Handle ==
    /\ At("main", "handle") /\ mu = "none"
    /\ To("main", "read")
    /\ UNCHANGED <<host, status, failed, udp, tcp, done, stop, mu, fired>>

BugNotClosed == FALSE
DoneOnReturn == TRUE

\* Run returns, and its defer closes done.
Return ==
    /\ At("main", "closed") \/ At("main", "broken")
    /\ done' = DoneOnReturn
    /\ To("main", IF go.main = "closed" THEN "stopped" ELSE "gave up")
    /\ UNCHANGED <<host, status, failed, udp, tcp, stop, mu, fired>>

\* net.ErrClosed is the way out of a Ctrl-C; anything else is a failure.
BugNoErrClosed(pc) == 1
StatusOf(pc) == IF pc = "stopped" THEN 0 ELSE 1

Leave ==
    /\ At("main", "stopped") \/ At("main", "gave up")
    /\ IF host = "program" THEN Exit(StatusOf(go.main))
       ELSE To("main", "ended") /\ UNCHANGED status
    /\ UNCHANGED <<host, failed, udp, tcp, done, stop, mu, fired>>

-----------------------------------------------------------------------------
(* Signals, and the test that closes the server *)

\* Before signal.Notify a signal kills the program, after it a signal waits in
\* the channel, and one that finds it full is dropped.
Signal ==
    /\ Alive /\ host = "program"
    /\ IF go.waiter = "none" THEN Exit(Killed) /\ UNCHANGED stop
       ELSE stop' = 1 /\ UNCHANGED <<go, status>>
    /\ UNCHANGED <<host, failed, udp, tcp, done, mu, fired>>

\* The goroutine that waits for a signal closes the socket, once.
Stop ==
    /\ At("waiter", "wait") /\ stop = 1
    /\ stop' = 0 /\ udp' = "closed" /\ To("waiter", "ended")
    /\ UNCHANGED <<host, status, failed, tcp, done, mu, fired>>

Close ==
    /\ host = "test" /\ udp = "open"
    /\ udp' = "closed"
    /\ UNCHANGED <<host, go, status, failed, tcp, done, stop, mu, fired>>

-----------------------------------------------------------------------------
(* The loops *)

Fire(g) ==
    /\ Alive /\ go[g] \notin {"none", "ended"}
    /\ fired' = fired \cup {g}
    /\ UNCHANGED <<host, go, status, failed, udp, tcp, done, stop, mu>>

\* Where both cases of the select are ready, either is taken.
SelectTick(g) ==
    /\ At(g, "select") /\ g \in fired
    /\ fired' = fired \ {g} /\ To(g, "lock")
    /\ UNCHANGED <<host, status, failed, udp, tcp, done, stop, mu>>

SelectDone(g) ==
    /\ At(g, "select") /\ done
    /\ To(g, "ended")
    /\ UNCHANGED <<host, status, failed, udp, tcp, done, stop, mu, fired>>

\* tick reads and prepares under the lock, the statistics only read.
UnderLock(g) ==
    /\ At(g, "lock") /\ mu = "none"
    /\ To(g, IF g = "ticker" THEN "send" ELSE "select")
    /\ UNCHANGED <<host, status, failed, udp, tcp, done, stop, mu, fired>>

\* The errors of a closed socket are dropped.
SendAll ==
    /\ At("ticker", "send")
    /\ To("ticker", "select")
    /\ UNCHANGED <<host, status, failed, udp, tcp, done, stop, mu, fired>>

-----------------------------------------------------------------------------
(* RCON *)

Accept ==
    /\ At("accept", "accept") /\ tcp = "open" /\ go.rcon = "none"
    /\ To("rcon", "ready")
    /\ UNCHANGED <<host, status, failed, udp, tcp, done, stop, mu, fired>>

Command ==
    /\ At("rcon", "ready") /\ mu = "none"
    /\ mu' = "rcon" /\ To("rcon", "save")
    /\ UNCHANGED <<host, status, failed, udp, tcp, done, stop, fired>>

\* The save may fail; the lock is given back all the same.
BugKeptOnError == {"none", "rcon"}
Released == {"none"}
Saved ==
    /\ At("rcon", "save")
    /\ mu' \in Released /\ To("rcon", "answer")
    /\ UNCHANGED <<host, status, failed, udp, tcp, done, stop, fired>>

Answer ==
    /\ At("rcon", "answer")
    /\ \E pc \in {"ready", "none"} : To("rcon", pc)
    /\ UNCHANGED <<host, status, failed, udp, tcp, done, stop, mu, fired>>

-----------------------------------------------------------------------------
(* The specification *)

SrvInit ==
    /\ host \in Host
    /\ go = [g \in Goroutine |-> IF g # "main" THEN "none"
                                 ELSE IF host = "program" THEN "flags" ELSE "new"]
    /\ status = NoStatus /\ failed = FALSE
    /\ udp = "none" /\ tcp = "none"
    /\ done = FALSE /\ stop = 0 /\ mu = "none" /\ fired = {}

Main == ParseFlags \/ New \/ ListenRCON \/ Notify \/ Run \/ Read \/ Return \/ Leave
Session == Accept \/ Command \/ Saved \/ Answer

SrvNext ==
    \/ Main \/ Handle \/ Signal \/ Stop \/ Close \/ Session \/ SendAll
    \/ \E g \in Loop : Fire(g) \/ SelectTick(g) \/ SelectDone(g) \/ UnderLock(g)

\* Every goroutine that can run is run, and tickers fire.  s.mu does not starve
\* who waits for it, and a select takes each case that stays ready in the end.
SrvFairness ==
    /\ WF_srvVars(Main) /\ SF_srvVars(Handle)
    /\ WF_srvVars(Stop) /\ WF_srvVars(SendAll)
    /\ WF_srvVars(Saved) /\ WF_srvVars(Answer)
    /\ \A g \in Loop :
        /\ WF_srvVars(Fire(g)) /\ SF_srvVars(SelectTick(g))
        /\ SF_srvVars(SelectDone(g)) /\ SF_srvVars(UnderLock(g))

-----------------------------------------------------------------------------
(* Properties *)

\* The state is well formed: an RCON command in the middle of a save, and
\* nobody else, keeps the lock; the socket is there as soon as Run is, its loops
\* only since then, and they are told to end only once Run has returned.
TypeOK ==
    /\ host \in Host /\ fired \subseteq Loop /\ stop \in {0, 1}
    /\ mu = IF go.rcon = "save" THEN "rcon" ELSE "none"
    /\ udp = "none" => \A g \in Loop : go[g] = "none"
    /\ go.waiter # "none" => host = "program"
    /\ done => go.main \in {"stopped", "gave up", "ended", "exit"}
    /\ Alive => status = NoStatus

\* The program tells how it ended: 0 exactly if it was stopped, 1 or 2 exactly
\* if something it needs failed.
StatusTrue ==
    status \notin {NoStatus, Killed} => (status = 0 <=> ~failed)

\* A Ctrl-C ends the program, whatever the reader, the ticker and RCON are at.
StopsWhenAsked == stop = 1 ~> ~Alive

\* When Run has returned its loops end, even if ticks go on coming in.
LoopsEnd ==
    go.main \in {"stopped", "gave up", "ended"} ~>
        (~Alive \/ \A g \in Loop : go[g] \in {"none", "ended"})

\* Until Run ends the players get their snapshots: no command keeps the ticker
\* waiting for ever.
TicksGoOn ==
    (At("main", "read") \/ At("main", "handle")) ~> (At("ticker", "send") \/ done \/ ~Alive)
=============================================================================
