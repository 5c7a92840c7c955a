SPECIFICATION PagesSpec
CONSTANTS
    c1 = c1
    c2 = c2
    x1 = x1
    x2 = x2
    t1 = t1
    Cells = {c1, c2}
    Contents = {x1, x2}
    ValidContents = {x1, x2}
    Generated = x1
    Texts = {t1}
    MaxRevision = 2
    NoContent = NoContent
    NoText = NoText
    NoCell = NoCell
    MaxBatch = 1
    MaxLost = 1
SYMMETRY Alike
INVARIANTS ContentPageIsTrue
PROPERTIES ApprovedIsSimulated ActionsEnd
