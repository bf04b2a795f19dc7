CONSTANTS
    Keys = {1, 2, 3}
    Fields = {"score", "rank"}
    Values = {1, 2}
    Queries <- MCQueries
    MaxWrites = 2
    Null = Null
    Absent = Absent
    NoCursor = NoCursor
    NoQuery = NoQuery
SPECIFICATION Spec
INVARIANTS
    TypeOK
    PagesGoForward
    StayedIsReturned
CHECK_DEADLOCK FALSE
