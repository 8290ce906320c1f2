\* The same searches: what the map shows of them.
SPECIFICATION Spec
CONSTANTS
    lyon = lyon
    word = word
    Ids = {1, 2}
    Facts <- TwoEvents
    StartsWith <- CityPrefixes
    Undefined = Undefined
    Searches = {word}
    Cities = {lyon}
    Distances = {5}
    Ranges <- FirstDay
    PlaceOf <- LyonAtTen
    Profiles = {0, Failed}
    Tables <- OneOrBoth
    PageSize = 1
    MaxActs = 2
    MaxChanges = 1
    Idle = Idle
    Asked = Asked
    Failed = Failed
INVARIANT MapShowsEvents
CHECK_DEADLOCK FALSE
