SPECIFICATION FairSpec
CONSTANTS
    a1 = a1
    ip = ip
    p1 = p1
    p2 = p2
    p3 = p3
    r1 = r1
    Addr = {a1}
    IP = {ip}
    IPOf <- SharedIP
    Name = {}
    NoName = NoName
    PlayerName <- MCPlayerName
    Admin = {r1}
    Traffic = {"Hello", "State", "Chat"}
    Commands = {"kick", "ban", "unban"}
    Timeout = 1
    KickWindow = 2
    BanNoticeEvery = 2
    ChatGap = 1
    MaxClock = 3
    MaxSessions = 2
INVARIANTS  BannedStaysOut
PROPERTIES NoEarlyDrop NoticeSpaced BannedDrains
