--------------------------- MODULE ProgramsProofs ---------------------------
(***************************************************************************)
(* Proofs about the lives of the server and of the simulator, for every    *)
(* set of hosts, capacity of the channel, duration and bound of the clock; *)
(* and about the bans file, which the lives of a server share, for any set *)
(* of IPs and any number of kills: every step of BanList is one of         *)
(* BanStore.                                                               *)
(***************************************************************************)
EXTENDS MC_Programs, BanList, TLAPS

-----------------------------------------------------------------------------
(* The server *)

\* Where main is tells what has been opened, who has been started, and whether
\* something has failed; its exit status keeps what it knew of that.
MainOK ==
    /\ go.main \in {"flags", "listen", "notify"} => host = "program"
    /\ go.main \in {"flags", "new"} => udp = "none"
    /\ udp = "none" => go.main \in {"flags", "new", "exit"}
    /\ go.waiter # "none" => go.main \notin {"flags", "new", "listen", "notify"}
    /\ go.main \in {"broken", "gave up"} => failed = TRUE
    /\ go.main \notin {"broken", "gave up", "ended", "exit"} => failed = FALSE

ExitOK ==
    status \notin {NoStatus, Killed} =>
        \/ status = 0 /\ failed = FALSE
        \/ status \in {1, 2} /\ failed = TRUE

\* go is a function.
GoOK == go = [g \in Goroutine |-> go[g]]

ServerInv == TypeOK /\ ExitOK /\ MainOK /\ GoOK

\* A program that starts has opened nothing and failed in nothing.
LEMMA ServerStarts == SrvInit => ServerInv
<1>. SUFFICES ASSUME SrvInit PROVE ServerInv
  OBVIOUS
<1>1. TypeOK
  BY DEF SrvInit, TypeOK, Goroutine, Loop, Alive
<1>2. ExitOK
  BY DEF SrvInit, ExitOK
<1>3. MainOK
  BY DEF SrvInit, MainOK, Goroutine
<1>4. GoOK
  BY DEF SrvInit, GoOK
<1>. QED
  BY <1>1, <1>2, <1>3, <1>4 DEF ServerInv

\* What main does, from the flags to the end.
LEMMA MainStep ==
    ASSUME ServerInv, Main
    PROVE  ServerInv'
<1>1. CASE ParseFlags
  <2>1. TypeOK'
    BY <1>1 DEF ParseFlags, Fail, Exit, At, To, Alive, ServerInv, TypeOK, MainOK, GoOK, Goroutine, Loop
  <2>2. ExitOK'
    BY <1>1 DEF ParseFlags, Fail, Exit, At, To, ServerInv, ExitOK, TypeOK, Alive, MainOK, GoOK, Goroutine, NoStatus, Killed
  <2>3. MainOK'
    BY <1>1 DEF ParseFlags, Fail, Exit, At, To, ServerInv, MainOK, GoOK, Goroutine
  <2>4. GoOK'
    BY <1>1 DEF ParseFlags, Fail, Exit, At, To, ServerInv, GoOK
  <2>. QED
    BY <2>1, <2>2, <2>3, <2>4 DEF ServerInv
<1>2. CASE New
  <2>1. TypeOK'
    BY <1>2 DEF New, Fail, Exit, At, To, Alive, ServerInv, TypeOK, MainOK, GoOK, Goroutine, Loop
  <2>2. ExitOK'
    BY <1>2 DEF New, Fail, Exit, At, To, ServerInv, ExitOK, TypeOK, Alive, MainOK, GoOK, Goroutine, NoStatus, Killed
  <2>3. MainOK'
    BY <1>2 DEF New, Fail, Exit, At, To, ServerInv, MainOK, GoOK, Goroutine
  <2>4. GoOK'
    BY <1>2 DEF New, Fail, Exit, At, To, ServerInv, GoOK
  <2>. QED
    BY <2>1, <2>2, <2>3, <2>4 DEF ServerInv
<1>3. CASE ListenRCON
  <2>1. TypeOK'
    BY <1>3 DEF ListenRCON, Fail, Exit, At, To, Alive, ServerInv, TypeOK, MainOK, GoOK, Goroutine, Loop
  <2>2. ExitOK'
    BY <1>3 DEF ListenRCON, Fail, Exit, At, To, ServerInv, ExitOK, TypeOK, Alive, MainOK, GoOK, Goroutine, NoStatus, Killed
  <2>3. MainOK'
    BY <1>3 DEF ListenRCON, Fail, Exit, At, To, ServerInv, MainOK, GoOK, Goroutine
  <2>4. GoOK'
    BY <1>3 DEF ListenRCON, Fail, Exit, At, To, ServerInv, GoOK
  <2>. QED
    BY <2>1, <2>2, <2>3, <2>4 DEF ServerInv
<1>4. CASE Notify
  <2>1. TypeOK'
    BY <1>4 DEF Notify, At, To, Alive, ServerInv, TypeOK, MainOK, GoOK, Goroutine, Loop
  <2>2. ExitOK'
    BY <1>4 DEF Notify, At, To, ServerInv, ExitOK, TypeOK, Alive, MainOK, GoOK, Goroutine, NoStatus, Killed
  <2>3. MainOK'
    BY <1>4 DEF Notify, At, To, ServerInv, MainOK, GoOK, Goroutine
  <2>4. GoOK'
    BY <1>4 DEF Notify, At, To, ServerInv, GoOK
  <2>. QED
    BY <2>1, <2>2, <2>3, <2>4 DEF ServerInv
<1>5. CASE Run
  <2>1. TypeOK'
    BY <1>5 DEF Run, At, To, Alive, ServerInv, TypeOK, MainOK, GoOK, Goroutine, Loop
  <2>2. ExitOK'
    BY <1>5 DEF Run, At, To, ServerInv, ExitOK, TypeOK, Alive, MainOK, GoOK, Goroutine, NoStatus, Killed
  <2>3. MainOK'
    BY <1>5 DEF Run, At, To, ServerInv, MainOK, GoOK, Goroutine
  <2>4. GoOK'
    BY <1>5 DEF Run, At, To, ServerInv, GoOK
  <2>. QED
    BY <2>1, <2>2, <2>3, <2>4 DEF ServerInv
<1>6. CASE Read
  <2>1. TypeOK'
    BY <1>6 DEF Read, AfterError, At, To, Alive, ServerInv, TypeOK, MainOK, GoOK, Goroutine, Loop
  <2>2. ExitOK'
    BY <1>6 DEF Read, AfterError, At, To, ServerInv, ExitOK, TypeOK, Alive, MainOK, GoOK, Goroutine, NoStatus, Killed
  <2>3. MainOK'
    BY <1>6 DEF Read, AfterError, At, To, ServerInv, MainOK, GoOK, Goroutine
  <2>4. GoOK'
    BY <1>6 DEF Read, AfterError, At, To, ServerInv, GoOK
  <2>. QED
    BY <2>1, <2>2, <2>3, <2>4 DEF ServerInv
<1>7. CASE Return
  <2>1. TypeOK'
    BY <1>7 DEF Return, DoneOnReturn, At, To, Alive, ServerInv, TypeOK, MainOK, GoOK, Goroutine, Loop
  <2>2. ExitOK'
    BY <1>7 DEF Return, DoneOnReturn, At, To, ServerInv, ExitOK, TypeOK, Alive, MainOK, GoOK, Goroutine, NoStatus, Killed
  <2>3. MainOK'
    BY <1>7 DEF Return, DoneOnReturn, At, To, ServerInv, MainOK, GoOK, Goroutine
  <2>4. GoOK'
    BY <1>7 DEF Return, DoneOnReturn, At, To, ServerInv, GoOK
  <2>. QED
    BY <2>1, <2>2, <2>3, <2>4 DEF ServerInv
<1>8. CASE Leave
  <2>1. TypeOK'
    BY <1>8 DEF Leave, StatusOf, Exit, At, To, Alive, ServerInv, TypeOK, MainOK, GoOK, Goroutine, Loop
  <2>2. ExitOK'
    BY <1>8 DEF Leave, StatusOf, Exit, At, To, ServerInv, ExitOK, TypeOK, Alive, MainOK, GoOK, Goroutine, NoStatus, Killed
  <2>3. MainOK'
    BY <1>8 DEF Leave, StatusOf, Exit, At, To, ServerInv, MainOK, GoOK, Goroutine
  <2>4. GoOK'
    BY <1>8 DEF Leave, StatusOf, Exit, At, To, ServerInv, GoOK
  <2>. QED
    BY <2>1, <2>2, <2>3, <2>4 DEF ServerInv
<1>. QED
  BY <1>1, <1>2, <1>3, <1>4, <1>5, <1>6, <1>7, <1>8 DEF Main

\* RCON takes the lock for a save and gives it back with it.
LEMMA SessionStep ==
    ASSUME ServerInv, Session
    PROVE  ServerInv'
<1>1. CASE Accept
  <2>1. TypeOK'
    BY <1>1 DEF Accept, At, To, Alive, ServerInv, TypeOK, MainOK, GoOK, Goroutine, Loop
  <2>2. ExitOK'
    BY <1>1 DEF Accept, At, To, ServerInv, ExitOK, TypeOK, Alive, MainOK, GoOK, Goroutine, NoStatus, Killed
  <2>3. MainOK'
    BY <1>1 DEF Accept, At, To, ServerInv, MainOK, GoOK, Goroutine
  <2>4. GoOK'
    BY <1>1 DEF Accept, At, To, ServerInv, GoOK
  <2>. QED
    BY <2>1, <2>2, <2>3, <2>4 DEF ServerInv
<1>2. CASE Command
  <2>1. TypeOK'
    BY <1>2 DEF Command, At, To, Alive, ServerInv, TypeOK, MainOK, GoOK, Goroutine, Loop
  <2>2. ExitOK'
    BY <1>2 DEF Command, At, To, ServerInv, ExitOK, TypeOK, Alive, MainOK, GoOK, Goroutine, NoStatus, Killed
  <2>3. MainOK'
    BY <1>2 DEF Command, At, To, ServerInv, MainOK, GoOK, Goroutine
  <2>4. GoOK'
    BY <1>2 DEF Command, At, To, ServerInv, GoOK
  <2>. QED
    BY <2>1, <2>2, <2>3, <2>4 DEF ServerInv
<1>3. CASE Saved
  <2>1. TypeOK'
    BY <1>3 DEF Saved, Released, At, To, Alive, ServerInv, TypeOK, MainOK, GoOK, Goroutine, Loop
  <2>2. ExitOK'
    BY <1>3 DEF Saved, Released, At, To, ServerInv, ExitOK, TypeOK, Alive, MainOK, GoOK, Goroutine, NoStatus, Killed
  <2>3. MainOK'
    BY <1>3 DEF Saved, Released, At, To, ServerInv, MainOK, GoOK, Goroutine
  <2>4. GoOK'
    BY <1>3 DEF Saved, Released, At, To, ServerInv, GoOK
  <2>. QED
    BY <2>1, <2>2, <2>3, <2>4 DEF ServerInv
<1>4. CASE Answer
  <2>1. TypeOK'
    BY <1>4 DEF Answer, At, To, Alive, ServerInv, TypeOK, MainOK, GoOK, Goroutine, Loop
  <2>2. ExitOK'
    BY <1>4 DEF Answer, At, To, ServerInv, ExitOK, TypeOK, Alive, MainOK, GoOK, Goroutine, NoStatus, Killed
  <2>3. MainOK'
    BY <1>4 DEF Answer, At, To, ServerInv, MainOK, GoOK, Goroutine
  <2>4. GoOK'
    BY <1>4 DEF Answer, At, To, ServerInv, GoOK
  <2>. QED
    BY <2>1, <2>2, <2>3, <2>4 DEF ServerInv
<1>. QED
  BY <1>1, <1>2, <1>3, <1>4 DEF Session

\* The signals, the reader's work and the sending.
LEMMA OtherStep ==
    ASSUME ServerInv, Handle \/ Signal \/ Stop \/ Close \/ SendAll
    PROVE  ServerInv'
<1>1. CASE Handle
  <2>1. TypeOK'
    BY <1>1 DEF Handle, At, To, Alive, ServerInv, TypeOK, MainOK, GoOK, Goroutine, Loop
  <2>2. ExitOK'
    BY <1>1 DEF Handle, At, To, ServerInv, ExitOK, TypeOK, Alive, MainOK, GoOK, Goroutine, NoStatus, Killed
  <2>3. MainOK'
    BY <1>1 DEF Handle, At, To, ServerInv, MainOK, GoOK, Goroutine
  <2>4. GoOK'
    BY <1>1 DEF Handle, At, To, ServerInv, GoOK
  <2>. QED
    BY <2>1, <2>2, <2>3, <2>4 DEF ServerInv
<1>2. CASE Signal
  <2>1. TypeOK'
    BY <1>2 DEF Signal, Exit, At, To, Alive, ServerInv, TypeOK, MainOK, GoOK, Goroutine, Loop
  <2>2. ExitOK'
    BY <1>2 DEF Signal, Exit, At, To, ServerInv, ExitOK, TypeOK, Alive, MainOK, GoOK, Goroutine, NoStatus, Killed
  <2>3. MainOK'
    BY <1>2 DEF Signal, Exit, At, To, ServerInv, MainOK, GoOK, Goroutine
  <2>4. GoOK'
    BY <1>2 DEF Signal, Exit, At, To, ServerInv, GoOK
  <2>. QED
    BY <2>1, <2>2, <2>3, <2>4 DEF ServerInv
<1>3. CASE Stop
  <2>1. TypeOK'
    BY <1>3 DEF Stop, At, To, Alive, ServerInv, TypeOK, MainOK, GoOK, Goroutine, Loop
  <2>2. ExitOK'
    BY <1>3 DEF Stop, At, To, ServerInv, ExitOK, TypeOK, Alive, MainOK, GoOK, Goroutine, NoStatus, Killed
  <2>3. MainOK'
    BY <1>3 DEF Stop, At, To, ServerInv, MainOK, GoOK, Goroutine
  <2>4. GoOK'
    BY <1>3 DEF Stop, At, To, ServerInv, GoOK
  <2>. QED
    BY <2>1, <2>2, <2>3, <2>4 DEF ServerInv
<1>4. CASE Close
  <2>1. TypeOK'
    BY <1>4 DEF Close, At, To, Alive, ServerInv, TypeOK, MainOK, GoOK, Goroutine, Loop
  <2>2. ExitOK'
    BY <1>4 DEF Close, At, To, ServerInv, ExitOK, TypeOK, Alive, MainOK, GoOK, Goroutine, NoStatus, Killed
  <2>3. MainOK'
    BY <1>4 DEF Close, At, To, ServerInv, MainOK, GoOK, Goroutine
  <2>4. GoOK'
    BY <1>4 DEF Close, At, To, ServerInv, GoOK
  <2>. QED
    BY <2>1, <2>2, <2>3, <2>4 DEF ServerInv
<1>5. CASE SendAll
  <2>1. TypeOK'
    BY <1>5 DEF SendAll, At, To, Alive, ServerInv, TypeOK, MainOK, GoOK, Goroutine, Loop
  <2>2. ExitOK'
    BY <1>5 DEF SendAll, At, To, ServerInv, ExitOK, TypeOK, Alive, MainOK, GoOK, Goroutine, NoStatus, Killed
  <2>3. MainOK'
    BY <1>5 DEF SendAll, At, To, ServerInv, MainOK, GoOK, Goroutine
  <2>4. GoOK'
    BY <1>5 DEF SendAll, At, To, ServerInv, GoOK
  <2>. QED
    BY <2>1, <2>2, <2>3, <2>4 DEF ServerInv
<1>. QED
  BY <1>1, <1>2, <1>3, <1>4, <1>5

\* The loops, which main starts once the socket is there.
LEMMA LoopStep ==
    ASSUME ServerInv, NEW g \in Loop,
           Fire(g) \/ SelectTick(g) \/ SelectDone(g) \/ UnderLock(g)
    PROVE  ServerInv'
<1>1. g \in {"ticker", "stats"} /\ go[g] # "none" /\ udp # "none"
  BY DEF ServerInv, TypeOK, Loop, Fire, SelectTick, SelectDone, UnderLock, At
<1>2. go' = go \/ \E to : go' = [go EXCEPT ![g] = to]
  BY DEF Fire, SelectTick, SelectDone, UnderLock, To
<1>3. /\ go'.main = go.main /\ go'.rcon = go.rcon /\ go'.waiter = go.waiter
      /\ GoOK'
  BY <1>1, <1>2 DEF ServerInv, GoOK, Goroutine
<1>4. UNCHANGED <<host, status, failed, udp, tcp, done, stop, mu>>
      /\ fired' \subseteq Loop
  BY DEF Fire, SelectTick, SelectDone, UnderLock, ServerInv, TypeOK
<1>5. TypeOK'
  BY <1>1, <1>3, <1>4 DEF ServerInv, TypeOK, Alive
<1>6. ExitOK' /\ MainOK'
  BY <1>3, <1>4 DEF ServerInv, ExitOK, MainOK
<1>. QED
  BY <1>3, <1>5, <1>6 DEF ServerInv

\* Every step of the server preserves what is known of it.
LEMMA ServerStep == ServerInv /\ [SrvNext]_srvVars => ServerInv'
<1>1. ASSUME ServerInv, UNCHANGED srvVars PROVE ServerInv'
  BY <1>1 DEF srvVars, ServerInv, TypeOK, Alive, ExitOK, MainOK, GoOK
<1>. QED
  BY <1>1, MainStep, SessionStep, OtherStep, LoopStep DEF SrvNext

-----------------------------------------------------------------------------
(* The simulator *)

\* Only what waits to be given is in the receiver's hand.
SimulatorInv ==
    /\ reports \in Seq({"welcome", "snapshot"})
    /\ hand \in {"none", "welcome", "snapshot"}
    /\ recv = "give" <=> hand # "none"
    /\ sim = "start" => recv = "none"
    /\ counted \in BOOLEAN /\ heard \in BOOLEAN
    /\ SummaryTrue

\* Every step of the simulator keeps a snapshot it has read, or counts it.
LEMMA SimulatorStep == SimulatorInv /\ [SimNext]_simVars => SimulatorInv'
<1>. SUFFICES ASSUME SimulatorInv, [SimNext]_simVars PROVE SimulatorInv'
  OBVIOUS
<1>. USE DEF SimulatorInv, SummaryTrue
<1>1. CASE Dial
  BY <1>1 DEF Dial
<1>2. CASE Clock \/ ReadFails
  BY <1>2 DEF Clock, ReadFails
<1>3. CASE Give
  BY <1>3 DEF Give
<1>4. CASE SelectSend
  BY <1>4 DEF SelectSend
<1>5. CASE SelectReport
  <2>1. /\ reports' \in Seq({"welcome", "snapshot"})
        /\ \A i \in DOMAIN reports :
              i = 1 \/ (i - 1 \in DOMAIN reports' /\ reports'[i - 1] = reports[i])
    BY <1>5 DEF SelectReport
  <2>2. reports[1] = "snapshot" => counted'
    <3>1. Head(reports) = reports[1]
      BY <1>5 DEF SelectReport
    <3>. QED
      BY <1>5, <3>1, Zenon DEF SelectReport
  <2>3. UNCHANGED <<sim, hand, recv, heard>> /\ counted' \in BOOLEAN
        /\ (counted => counted')
    BY <1>5 DEF SelectReport
  <2>4. SummaryTrue'
    BY <2>1, <2>2, <2>3
  <2>. QED
    BY <2>1, <2>3, <2>4
<1>6. CASE SelectPrint
  BY <1>6 DEF SelectPrint, TotalAfterPrint
<1>7. ASSUME NEW t \in {"send", "print"}, Ring(t) PROVE SimulatorInv'
  BY <1>7 DEF Ring
<1>8. ASSUME NEW report \in {"welcome", "snapshot"}, Receive(report)
      PROVE  SimulatorInv'
  BY <1>8 DEF Receive
<1>9. CASE UNCHANGED simVars
  BY <1>9 DEF simVars
<1>. QED
  BY <1>1, <1>2, <1>3, <1>4, <1>5, <1>6, <1>7, <1>8, <1>9 DEF SimNext

-----------------------------------------------------------------------------
(* The lives together *)

\* Whichever life a behaviour is, both parts of the state stay as they should.
LEMMA ProgramsInvariant == Spec => [](ServerInv /\ SimulatorInv)
<1>1. Init => ServerInv /\ SimulatorInv
  <2>1. Init => ServerInv
    BY ServerStarts DEF Init
  <2>2. Init => SimulatorInv
    <3>. SUFFICES ASSUME SimInit PROVE SimulatorInv
      BY DEF Init
    <3>1. heard = FALSE /\ counted = FALSE
      BY DEF SimInit
    <3>2. SummaryTrue
      BY <3>1, Zenon DEF SummaryTrue
    <3>3. reports = <<>> /\ hand = "none" /\ recv = "none"
      BY DEF SimInit
    <3>4. counted \in BOOLEAN /\ heard \in BOOLEAN
      BY <3>1, Zenon
    <3>. QED
      BY <3>2, <3>3, <3>4 DEF SimulatorInv
  <2>. QED
    BY <2>1, <2>2
<1>2. ServerInv /\ SimulatorInv /\ [Next]_vars => (ServerInv /\ SimulatorInv)'
  BY ServerStep, SimulatorStep DEF Next, vars
<1>. QED
  BY <1>1, <1>2, PTL DEF Spec

\* The state of the server stays well formed in every life: in particular the
\* lock is held over a step by a command that saves, and by nobody else.
THEOREM TypeCorrect == Spec => []TypeOK
<1>1. ServerInv => TypeOK
  BY DEF ServerInv
<1>. QED
  BY <1>1, ProgramsInvariant, PTL

\* The exit status of the server is 0 exactly if nothing it needs had failed.
THEOREM StatusTrueAlways == Spec => []StatusTrue
<1>1. ServerInv => StatusTrue
  BY DEF ServerInv, ExitOK, StatusTrue
<1>. QED
  BY <1>1, ProgramsInvariant, PTL

\* A snapshot the simulator has read is counted, or waits to be, for any
\* capacity of its channel.
THEOREM SummaryTrueAlways == Spec => []SummaryTrue
<1>1. SimulatorInv => SummaryTrue
  BY DEF SimulatorInv
<1>. QED
  BY <1>1, ProgramsInvariant, PTL

-----------------------------------------------------------------------------
(* The bans file, which outlives them *)

\* While a command is being saved its change is in memory: what makes the
\* answer after the rename true.
ChangeMade ==
    pc \notin {"ready", "down"} => (cmd[1] = "banned" <=> cmd[2] \in entries)

BansInv == BansOK /\ FileWhole /\ PromiseKept /\ ChangeMade

\* The three kinds of file are different.
LEMMA FileKinds ==
    /\ None # Torn
    /\ \A S : Whole(S) # None /\ Whole(S) # Torn /\ Whole(S)[2] = S
    /\ None[2] = {}
BY DEF None, Torn, Whole

\* The server has not started, and the file is absent or whole.
LEMMA BansInvInit == BansInit => BansInv
BY FileKinds DEF BansInit, BansInv, BansOK, FileWhole, PromiseKept, ChangeMade, File

\* Every step of a command, of a save, and every kill and start preserves BansInv.
LEMMA BansInvStep == BansInv /\ [BansNext]_bansVars => BansInv'
<1>. SUFFICES ASSUME BansInv, [BansNext]_bansVars PROVE BansInv'
  OBVIOUS
<1>. USE DEF BansInv, BansOK, FileWhole, ChangeMade
<1>1. CASE BanCommand
  <2>. PICK ip \in IP : Ban(ip) \/ Unban(ip) \/ UnbanUnknown(ip)
    BY <1>1 DEF BanCommand
  <2>1. CASE Ban(ip) \/ Unban(ip)
    BY <2>1 DEF Ban, Unban, Begin, PromiseKept, OnDisk
  <2>2. CASE UnbanUnknown(ip)
    BY <2>2 DEF UnbanUnknown, PromiseKept, OnDisk
  <2>. QED
    BY <2>1, <2>2
<1>2. CASE CreateTemp \/ WriteTemp \/ CloseTemp
  BY <1>2 DEF CreateTemp, WriteTemp, CloseTemp, PromiseKept, OnDisk
<1>3. CASE Rename
  <2>1. file' = Whole(entries) /\ tmp' = None /\ entries' = entries
        /\ pc = "rename" /\ pc' = "ready" /\ cmd' = NoCommand
        /\ UNCHANGED <<denied, kills>>
    BY <1>3 DEF Rename, Reply
  <2>2. PICK ok \in BOOLEAN :
          promised' = [promised EXCEPT ![cmd[2]] = IF ok THEN cmd[1] ELSE "unknown"]
    BY <1>3 DEF Rename, Reply
  <2>3. cmd \in {"banned", "unbanned"} \X IP
    BY <2>1
  <2>4. OnDisk' = entries
    BY <2>1, FileKinds DEF OnDisk
  <2>5. PromiseKept'
    <3>. SUFFICES ASSUME NEW ip \in IP
                  PROVE  /\ promised'[ip] = "banned" => ip \in entries
                         /\ promised'[ip] = "unbanned" => ip \notin entries
      BY <2>1, <2>4 DEF PromiseKept
    <3>1. CASE ip = cmd[2]
      BY <2>1, <2>2, <2>3, <3>1
    <3>2. CASE ip # cmd[2]
      BY <2>1, <2>2, <3>2 DEF PromiseKept
    <3>. QED
      BY <3>1, <3>2
  <2>6. promised' \in [IP -> {"unknown", "banned", "unbanned"}]
    BY <2>2, <2>3
  <2>. QED
    BY <2>1, <2>5, <2>6, FileKinds DEF File
<1>4. CASE SaveFails
  BY <1>4 DEF SaveFails, Reply, PromiseKept, OnDisk
<1>5. CASE Kill
  BY <1>5 DEF Kill, PromiseKept, OnDisk
<1>6. CASE LoadBans
  BY <1>6, FileKinds DEF LoadBans, PromiseKept, OnDisk, File
<1>7. CASE UNCHANGED bansVars
  BY <1>7 DEF bansVars, PromiseKept, OnDisk
<1>. QED
  BY <1>1, <1>2, <1>3, <1>4, <1>5, <1>6, <1>7 DEF BansNext, SaveStep

\* BansInv holds in every reachable state.
LEMMA BansInvariance == BansSpec => []BansInv
BY BansInvInit, BansInvStep, PTL DEF BansSpec

\* Every state is well formed.
THEOREM BansCorrect == BansSpec => []BansOK
BY BansInvariance, PTL DEF BansInv

\* The bans file is never torn, whatever fails and whenever the process dies.
THEOREM FileAlwaysWhole == BansSpec => []FileWhole
BY BansInvariance, PTL DEF BansInv

\* What a command answered OK stays true, in memory and in the file.
THEOREM PromiseAlwaysKept == BansSpec => []PromiseKept
BY BansInvariance, PTL DEF BansInv

-----------------------------------------------------------------------------
(* StoreRefinement *)

\* Under BansInv, every step is a step of BanStore or changes neither list nor copy.
LEMMA StoreStep == BansInv /\ BansInv' /\ [BansNext]_bansVars => [Store!Next]_(Store!vars)
<1>. SUFFICES ASSUME BansInv, BansInv', [BansNext]_bansVars PROVE [Store!Next]_(Store!vars)
  OBVIOUS
<1>. USE DEF BansInv, BansOK
<1>. DEFINE list == IF pc = "down" THEN OnDisk ELSE entries
<1>1. CASE BanCommand
  <2>. PICK ip \in IP : Ban(ip) \/ Unban(ip) \/ UnbanUnknown(ip)
    BY <1>1 DEF BanCommand
  <2>1. OnDisk' = OnDisk
    BY DEF Ban, Unban, UnbanUnknown, OnDisk
  <2>2. list' \in {list \cup {ip}, list \ {ip}} \/ list' = list
    BY <2>1 DEF Ban, Unban, UnbanUnknown, Begin
  <2>. QED
    BY <2>1, <2>2 DEF Store!Next, Store!Change, Store!vars
<1>2. CASE CreateTemp \/ WriteTemp \/ CloseTemp \/ SaveFails
  BY <1>2 DEF CreateTemp, WriteTemp, CloseTemp, SaveFails, Reply, OnDisk, Store!vars
<1>3. CASE Rename
  <2>1. OnDisk' = entries /\ list' = entries /\ list = entries
    BY <1>3, FileKinds DEF Rename, Reply, OnDisk
  <2>. QED
    BY <2>1 DEF Store!Next, Store!Save, Store!vars
<1>4. CASE Kill
  <2>1. list' = OnDisk /\ OnDisk' = OnDisk
    BY <1>4 DEF Kill, OnDisk
  <2>. QED
    BY <2>1 DEF Store!Next, Store!Restart
<1>5. CASE LoadBans
  BY <1>5 DEF LoadBans, OnDisk, Store!vars
<1>6. CASE UNCHANGED bansVars
  BY <1>6 DEF bansVars, OnDisk, Store!vars
<1>. QED
  BY <1>1, <1>2, <1>3, <1>4, <1>5, <1>6 DEF BansNext, SaveStep

\* The ban list implements BanStore.
THEOREM StoreRefinement == BansSpec => ImplementsStore
<1>1. BansInit => Store!Init
  BY FileKinds DEF BansInit, Store!Init, OnDisk
<1>2. BansInv /\ BansInv' /\ [BansNext]_bansVars => [Store!Next]_(Store!vars)
  BY StoreStep
<1>. QED
  BY <1>1, <1>2, BansInvariance, PTL DEF BansSpec, ImplementsStore, Store!Spec
=============================================================================
