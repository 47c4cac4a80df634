\* One administrator: does a PUT that disables the source always return?
CONSTANTS
    Handlers = {h1}
    Others = {}
    Refreshers = {}
    AppLists = {none, found}
    NoApps = none
    MaxStarts = 1
SPECIFICATION FairSpec
PROPERTY StopReturns
