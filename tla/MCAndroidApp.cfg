SPECIFICATION AppSpec
CONSTANTS
    a = a
    b = b
    None = None
    Documents = {a, b}
    MaxStale = 2
    MaxPickers = 2
    MaxDecodes = 2
INVARIANTS
    InfoOfSelection
    ScreenShowsBook
    OneDecode
    FlowDoesNotLoop
PROPERTIES
    BusyEnds
