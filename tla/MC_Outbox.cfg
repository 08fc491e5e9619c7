SPECIFICATION OutFairSpec
CONSTANTS
    a1 = a1
    a2 = a2
    ip = ip
    p1 = p1
    p2 = p2
    p3 = p3
    r1 = r1
    Addr = {a1, a2}
    IP = {ip}
    IPOf <- SharedIP
    Name = {}
    NoName = NoName
    PlayerName <- MCPlayerName
    Admin = {r1}
    Traffic = {"Hello", "State", "Chat"}
    Commands = {"kick"}
    Timeout = 0
    KickWindow = 1
    BanNoticeEvery = 1
    ChatGap = 0
    MaxClock = 1
    MaxSessions = 2
    Stale = 1
    Copies = 1
INVARIANTS KnowsItsId NotMyself
PROPERTIES ImplementsRoom NoGhost LeftVanishes
