------------------------------ MODULE MC_Wire -------------------------------
(* An instance of Wire in which a field is a few bytes and a 16-bit number  *)
(* counts to two.                                                          *)
EXTENDS Wire

CONSTANTS x, y                          \* characters

MCSizeOf == [name |-> 3, text |-> 2, reason |-> 2, u16 |-> 1, u32 |-> 2,
             transform |-> 2, telemetry |-> 1]
MCDefaultName == <<y, y>>
MCMaxDatagram == SnapshotSize(2)
=============================================================================
