------------------------------ MODULE BanList -------------------------------
(***************************************************************************)
(* The ban list and its file (internal/server/bans.go), with the commands  *)
(* that change it (Ban and Unban of server.go).  A command changes the     *)
(* list in memory and then saves it whole: a temp file in the directory of *)
(* the bans file is created, written, closed and renamed over it.  s.mu is *)
(* held from the change to the end of save, so there is one save at a      *)
(* time, but every call of the file system is a step: it may fail, and the *)
(* process may be killed before it.                                        *)
(*                                                                         *)
(* An entry is its IP; reason, name, time and the JSON are left out.  A    *)
(* kill loses memory and keeps what the file system calls did; the loss of *)
(* unsynced data with the machine itself is not modelled.                  *)
(***************************************************************************)
EXTENDS Naturals

CONSTANTS IP, MaxKills                  \* MaxKills: bound on kills

ASSUME KillsAssumption == MaxKills \in Nat

VARIABLES
    entries,    \* banList.entries: the IPs banned, in memory
    file,       \* the bans file
    tmp,        \* the temp file of the save in progress
    pc,         \* the next call of the save in progress, or where we are
    cmd,        \* the command in progress
    promised,   \* history variable: what the last answer about an IP said
    denied,     \* history variable: the IPs answered "not banned" by the
                \* last command on them
    kills       \* bound: how often the process has been killed

bansVars == <<entries, file, tmp, pc, cmd, promised, denied, kills>>

None == <<"none", {}>>                  \* no such file
Torn == <<"torn", {}>>                  \* a file of which only a part is there
Whole(S) == <<"whole", S>>              \* a file that holds the list S
File == {None, Torn} \cup {Whole(S) : S \in SUBSET IP}

NoCommand == <<"none">>

-----------------------------------------------------------------------------
(* The commands *)

\* The answer to the command in progress: OK means the change is in the file.
Reply(ok) ==
    /\ promised' = [promised EXCEPT ![cmd[2]] = IF ok THEN cmd[1] ELSE "unknown"]
    /\ pc' = "ready"
    /\ cmd' = NoCommand

Begin(verb, ip) ==
    /\ cmd' = <<verb, ip>>
    /\ promised' = [promised EXCEPT ![ip] = "unknown"]
    /\ denied' = denied \ {ip}
    /\ pc' = "create"

\* bans.add and the beginning of save; a ban of a banned IP replaces it.
Ban(ip) ==
    /\ pc = "ready"
    /\ entries' = entries \cup {ip}
    /\ Begin("banned", ip)
    /\ UNCHANGED <<file, tmp, kills>>

Unban(ip) ==
    /\ pc = "ready" /\ ip \in entries
    /\ entries' = entries \ {ip}
    /\ Begin("unbanned", ip)
    /\ UNCHANGED <<file, tmp, kills>>

\* An IP that is not in the list is an error, and nothing is saved.
UnbanUnknown(ip) ==
    /\ pc = "ready" /\ ip \notin entries
    /\ denied' = denied \cup {ip}
    /\ UNCHANGED <<entries, file, tmp, pc, cmd, promised, kills>>

-----------------------------------------------------------------------------
(* save: one action per call, and the error path of each *)

CreateTemp ==
    /\ pc = "create"
    /\ tmp' = Torn /\ pc' = "write"
    /\ UNCHANGED <<entries, file, cmd, promised, denied, kills>>

\* What is written is the list as it was when save began; nobody can change it
\* before the rename.
BugWriteInPlace ==
    /\ pc = "write"
    /\ tmp' = Whole(entries) /\ file' = Torn /\ pc' = "close"
    /\ UNCHANGED <<entries, cmd, promised, denied, kills>>
WriteTemp ==
    /\ pc = "write"
    /\ tmp' = Whole(entries) /\ pc' = "close"
    /\ UNCHANGED <<entries, file, cmd, promised, denied, kills>>

CloseTemp ==
    /\ pc = "close"
    /\ pc' = "rename"
    /\ UNCHANGED <<entries, file, tmp, cmd, promised, denied, kills>>

\* The rename replaces the file in one step.  Ban may still answer with the
\* error of its Kick although the ban is saved.
Rename ==
    /\ pc = "rename"
    /\ file' = tmp /\ tmp' = None
    /\ \E ok \in IF cmd[1] = "banned" THEN BOOLEAN ELSE {TRUE} : Reply(ok)
    /\ UNCHANGED <<entries, denied, kills>>

\* Any call may fail: the temp file is removed and the command answers with
\* the error.  The list in memory stays changed.
BugErrorIgnored ==
    /\ pc \in {"create", "write", "close", "rename"}
    /\ tmp' = None
    /\ Reply(TRUE)
    /\ UNCHANGED <<entries, file, denied, kills>>
BugTempLeft ==
    /\ pc \in {"create", "write", "close", "rename"}
    /\ Reply(FALSE)
    /\ UNCHANGED <<entries, file, tmp, denied, kills>>
SaveFails ==
    /\ pc \in {"create", "write", "close", "rename"}
    /\ tmp' = None
    /\ Reply(FALSE)
    /\ UNCHANGED <<entries, file, denied, kills>>

-----------------------------------------------------------------------------
(* The process *)

\* The process is killed: memory and the command in progress are gone, a temp
\* file is left behind under a name that no later save uses.
Kill ==
    /\ pc # "down" /\ kills < MaxKills
    /\ kills' = kills + 1
    /\ pc' = "down" /\ entries' = {} /\ tmp' = None /\ cmd' = NoCommand
    /\ UNCHANGED <<file, promised, denied>>

\* New: a missing file is an empty list; a torn one does not parse, and the
\* server does not start.
LoadBans ==
    /\ pc = "down" /\ file # Torn
    /\ entries' = file[2]
    /\ pc' = "ready"
    /\ UNCHANGED <<file, tmp, cmd, promised, denied, kills>>

-----------------------------------------------------------------------------
(* The specification *)

BansInit ==
    /\ entries = {} /\ tmp = None /\ pc = "down" /\ cmd = NoCommand
    /\ file \in {None} \cup {Whole(S) : S \in SUBSET IP}
    /\ promised = [ip \in IP |-> "unknown"]
    /\ denied = {}
    /\ kills = 0

BanCommand == \E ip \in IP : Ban(ip) \/ Unban(ip) \/ UnbanUnknown(ip)
SaveStep == CreateTemp \/ WriteTemp \/ CloseTemp \/ Rename \/ SaveFails

BansNext == BanCommand \/ SaveStep \/ Kill \/ LoadBans

BansSpec == BansInit /\ [][BansNext]_bansVars

-----------------------------------------------------------------------------
(* Properties *)

\* The state is well formed: a save is in progress exactly during a command,
\* and its temp file exists exactly from CreateTemp on and is whole once written.
BansOK ==
    /\ entries \in SUBSET IP
    /\ file \in File
    /\ pc \in {"ready", "create", "write", "close", "rename", "down"}
    /\ tmp = CASE pc = "write" -> Torn
               [] pc \in {"close", "rename"} -> Whole(entries)
               [] OTHER -> None
    /\ IF pc \in {"ready", "down"} THEN cmd = NoCommand
       ELSE cmd \in {"banned", "unbanned"} \X IP
    /\ promised \in [IP -> {"unknown", "banned", "unbanned"}]
    /\ denied \in SUBSET IP
    /\ kills \in Nat

\* The bans file always parses, wherever the process is killed and whatever
\* call of save fails: the server can always start again.
FileWhole == file # Torn

\* The IPs a server started now would ban.
OnDisk == file[2]

\* An answer holds across failures of later commands, kills and restarts: an IP
\* whose ban was answered OK is banned, one whose unban was answered OK is not,
\* in memory (while up) and in the file.
PromiseKept ==
    \A ip \in IP :
        /\ promised[ip] = "banned" =>
              ip \in OnDisk /\ (pc # "down" => ip \in entries)
        /\ promised[ip] = "unbanned" =>
              ip \notin OnDisk /\ (pc # "down" => ip \notin entries)

\* The list and its file implement BanStore: the file is replaced as a whole
\* and by the list in memory only, and a server starts with what it holds.
Store == INSTANCE BanStore
    WITH list <- IF pc = "down" THEN OnDisk ELSE entries, copy <- OnDisk
ImplementsStore == Store!Spec

\* The comment of Unban says it persists the change.  So an IP answered "not
\* banned", with no ban of it since, is not in the file either.  (It may be:
\* an unban whose save failed took it out of memory only, and the retry that
\* would save the list finds nothing to remove.)
DeniedIsGone == \A ip \in denied : ip \notin OnDisk
=============================================================================
