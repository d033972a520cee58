SPECIFICATION Spec
CONSTANTS
    Forms <- MCForms
CHECK_DEADLOCK FALSE
INVARIANTS
    PageRequestsCanSucceed
