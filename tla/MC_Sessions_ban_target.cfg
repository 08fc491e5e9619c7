SPECIFICATION Spec
CONSTANTS
    a1 = a1
    a2 = a2
    ip = ip
    n1 = n1
    p1 = p1
    p2 = p2
    p3 = p3
    r1 = r1
    Addr = {a1, a2}
    IP = {ip}
    IPOf <- SharedIP
    Name = {n1}
    NoName = NoName
    PlayerName <- MCPlayerName
    Admin = {r1}
    Traffic = {"Hello", "Bye"}
    Commands = {"ban"}
    Timeout = 1
    KickWindow = 1
    BanNoticeEvery = 1
    ChatGap = 1
    MaxClock = 1
    MaxSessions = 2
PROPERTY BanKicksItsTarget
