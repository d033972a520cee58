SPECIFICATION LiveSpec
CONSTANTS
    Forms <- MCForms
CHECK_DEADLOCK FALSE
INVARIANTS
    ProcessorsTypeOK
    CompletedIsWhole
    NameTellsContent
    ArgumentsInRange
    SliderIsFaithful
    PageRequestsServed
PROPERTIES
    AttemptEnds
