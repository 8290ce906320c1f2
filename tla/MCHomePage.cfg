\* Two events, pages of one, filters of each kind.
SPECIFICATION FairSpec
CONSTANTS
    lyon = lyon
    word = word
    Ids = {1, 2}
    Facts <- TwoEvents
    StartsWith <- CityPrefixes
    Undefined = Undefined
    Searches = {word}
    Cities = {lyon}
    Distances = {5}
    Ranges <- FirstDay
    PlaceOf <- LyonAtTen
    Profiles = {0, Failed}
    Tables <- OneOrBoth
    PageSize = 1
    MaxActs = 2
    MaxChanges = 1
    Idle = Idle
    Asked = Asked
    Failed = Failed
INVARIANTS
    HTypeOK
    PagesPartition
    NoEmptyPage
PROPERTIES
    SearchSettles
CHECK_DEADLOCK FALSE
