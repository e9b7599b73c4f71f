SPECIFICATION Spec
CONSTANTS
    i1 = i1
    b1 = b1
    d = d
    n1 = n1
    n2 = n2
    fits = fits
    small = small
    Importers = {i1}
    Batches = {b1}
    Outsider = Outsider
    Dest = d
    Names = {n1, n2}
    ImportFiles = 2
    Books = 2
    Covers = {fits, small}
    FitCovers = {fits}
    Absent = Absent
    Payload = Payload
    Torn = Torn
    Attempts = 2
INVARIANTS
    ResultTruthful
    SealedAsMeasured
    ResidueReported
PROPERTIES
    AppearsWhole
    Ends
