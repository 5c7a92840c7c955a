SPECIFICATION Spec
CONSTANTS
    c1 = c1
    c2 = c2
    x1 = x1
    x2 = x2
    x3 = x3
    t1 = t1
    r1 = r1
    r2 = r2
    Cells = {c1, c2}
    Contents = {x1, x2, x3}
    ValidContents = {x1, x2}
    Generated = x1
    Texts = {t1}
    Requests = {r1, r2}
    MaxRevision = 2
    NoContent = NoContent
    NoText = NoText
SYMMETRY Alike
INVARIANTS VersionIsSound ReadsFitTheirRevision
PROPERTIES DecisionsStand
