CONSTANTS
    j1 = j1
    j2 = j2
    s1 = s1
    s2 = s2
    NoJob = NoJob
    NoPoll = NoPoll
    Jobs <- TwoUploads
    Slots <- TwoSlots
SPECIFICATION Spec
INVARIANT
    LinkIsResult
