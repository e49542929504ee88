CONSTANTS
    a = a  ab = ab  Date = Date
    Tasks = {t1, t2}
    Ids = {i1, i2, i3}
    Columns <- TwoColumns
    Key = "name"
    Records <- AllRecords
    Refused <- RefusedRecords
    Null = Null
    Texts = {a, ab}
    Part <- AWithinAb
    Simple <- SimpleValues
    Lists <- SplitTexts
    Schemas <- SomeSchemas
    Changes <- SomeChanges
    Batches <- SomeBatches
    Unborn = Unborn  Gone = Gone  None = None
SPECIFICATION Spec
INVARIANTS TellsTheTruth CallInv
SYMMETRY Symmetry
