SPECIFICATION FairSpec
CONSTANTS
    Idle = 2
    MaxRows = 2
    MaxCommands = 3
 
PROPERTIES AnswerComes SessionEnds
CHECK_DEADLOCK FALSE
