\* Two people, three messages of which the history holds two, one draft.
SPECIFICATION FairSpec
CONSTANTS
    me = me
    eva = eva
    d1 = d1
    Me = me
    Users = {me, eva}
    HistorySize = 2
    MaxMessages = 3
    Drafts = {d1}
INVARIANTS
    ChatTypeOK
    CaughtUp
    TypingEnds
PROPERTIES
    ShownStays
    StoredIsSeen
CHECK_DEADLOCK FALSE
