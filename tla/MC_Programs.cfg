SPECIFICATION Spec
CONSTANTS
    Host = {"program", "test"}
    RunFor = {0, 1}
    Capacity = 2
    MaxTime = 2
INVARIANTS StatusTrue SummaryTrue
PROPERTIES StopsWhenAsked LoopsEnd TicksGoOn SimulatorEnds ReceiverGoesOn
CHECK_DEADLOCK FALSE
