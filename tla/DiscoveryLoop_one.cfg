\* One administrator, no manual refresh, another request that saves the settings.
CONSTANTS
    Handlers = {h1}
    Others = {o1}
    Refreshers = {}
    AppLists = {none, found}
    NoApps = none
    MaxStarts = 4
SPECIFICATION FairSpec
INVARIANTS EnabledAsSaved OffIsEmpty
PROPERTIES ImplementsService StopReturnsFromSleep
