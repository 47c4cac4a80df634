\* Two administrators, a manual refresh, up to three starts.
CONSTANTS
    Handlers = {h1, h2}
    Others = {}
    Refreshers = {r1}
    AppLists = {none, found}
    NoApps = none
    MaxStarts = 3
SPECIFICATION Spec
SYMMETRY Symmetry
INVARIANTS TypeOK StopFieldIsOpen WgCountsLoops OnHasLoop
