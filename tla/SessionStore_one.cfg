\* One request at a time; the directory knows only accounts of its own.
CONSTANTS
    Workers = {w1}
    Names = {root, ann, dirk}
    Root = root
    DirectoryNames = {dirk}
    ExternalAdmins = {}
    Passwords = {p1, p2}
    FirstPassword = p1
    Directory = directory
    Nobody = nobody
    Mails = {"own", "none"}
    Interruptions = FALSE
    MaxId = 3
    MaxToken = 2
SPECIFICATION Spec
CHECK_DEADLOCK FALSE
INVARIANT PasswordIsCurrent
PROPERTY PanelKeepsAnAdmin
