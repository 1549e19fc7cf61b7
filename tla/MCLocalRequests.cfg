CONSTANTS
    MaxCalls <- MCCalls
    MaxPresses = 1
    MaxRemounts <- MCRemounts
    MaxProposals = 2
    MaxDeliveries = 1
    MaxFields = 2
    MaxPanels = 2
SPECIFICATION FairLocalSpec
INVARIANTS EditsCorrect
PROPERTIES ChannelCorrect AutofillCorrect RequestsEnd
CHECK_DEADLOCK FALSE
