SPECIFICATION ExecSpec
CONSTANTS
    TableSpan = 16
    KeySpan = 8
    ValueSpan = 2
    PkSpan = 4
    TableName = {t}
    TheTable = t
    IndexName = {i}
    IdLiteral <- Ids
    ALiteral <- Vals
    SetInput <- Sets
    WhereInput <- Inputs
    WhereAsked <- Asked
    QueryAsked <- Queries
    IndexColumn = {"a","id"}
    Absent = Absent
    Text = Text
    Interrupts = {"crash","throw"}
    KeyUpdates = "one"
    MaxId = 2
    MaxCuts = 1
INVARIANTS QueriesAgree ResultsRight IndexInSync KindsApart CatalogReloads
PROPERTIES ExecIsTable
