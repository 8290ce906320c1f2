\* Every change from every screen, with the other party and a lost call.
CONSTANTS
    MaxActs = 2
    MaxChanges = 2
    MaxEvents = 1
    Undefined = Undefined
    Idle = Idle
    Asked = Asked
    NotFound = NotFound

SPECIFICATION Spec

INVARIANTS
    ScreensTypeOK
    ReadYourWrites

PROPERTIES
    OwnCancelOvertaken
    MutationSettles

CHECK_DEADLOCK FALSE
