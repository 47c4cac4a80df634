\* Two requests at a time, two applications and two categories; any call may fail.
CONSTANTS
    Workers = {w1, w2}
    Urls = {u1, u2}
    Cats = {media, tools}
    MaxCats = 2
    Patience = 1
    Torn = torn
    Absent = absent
    Nothing = nothing
    Faults = TRUE
SPECIFICATION Spec
SYMMETRY Symmetry
INVARIANTS TypeOK UrlsUnique FileIsWhole FileIsMemory MappingsFollow
PROPERTY CategoriesKeepApps
