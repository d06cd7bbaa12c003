SPECIFICATION ExecSpec
CONSTANTS
    TableSpan = 16
    KeySpan = 8
    ValueSpan = 2
    PkSpan = 4
    TableName = {t}
    TheTable = t
    IndexName = {i}
    IdLiteral <- TwoIds
    ALiteral <- IndexableVals
    SetInput <- MoveToOne
    WhereInput <- EveryRow
    WhereAsked <- Asked
    QueryAsked <- Queries
    IndexColumn = {"a"}
    Absent = Absent
    Text = Text
    Interrupts = {}
    KeyUpdates = "many"
    MaxId = 2
    MaxCuts = 1
INVARIANTS IndexInSync
