\* Every combination of small .dist and user files, then any calls.
SPECIFICATION Spec
CONSTANTS
    Asked <- AskedOptions
    SetValues <- SomeValues
    Filters <- SomeFilters
    BrokenChannels <- FileIsBroken
    MessageLevels <- SomeLevels
    DefaultFile = "default"
    Scenarios <- SomeScenarios
INVARIANTS
    OptionsAreLayered
    AnswersFollowFiles
    MessagesReachChannels
CHECK_DEADLOCK FALSE
