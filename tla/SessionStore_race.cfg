\* Two requests at a time, each of which may stop between two statements.
CONSTANTS
    Workers = {w1, w2}
    Names = {root, ann}
    Root = root
    DirectoryNames = {ann}
    ExternalAdmins = {root}
    Passwords = {p1}
    FirstPassword = p1
    Directory = directory
    Nobody = nobody
    Mails = {"own"}
    Interruptions = TRUE
    MaxId = 3
    MaxToken = 2
SPECIFICATION Spec
SYMMETRY Symmetry
CHECK_DEADLOCK FALSE
INVARIANTS TypeOK SessionsBelong
PROPERTY SelfProtection
