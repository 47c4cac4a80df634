\* A login while the password of its account is being reset.
CONSTANTS
    Workers = {w1, w2}
    Names = {root}
    Root = root
    DirectoryNames = {}
    ExternalAdmins = {}
    Passwords = {p1, p2}
    FirstPassword = p1
    Directory = directory
    Nobody = nobody
    Mails = {"own"}
    Interruptions = FALSE
    MaxId = 3
    MaxToken = 3
SPECIFICATION Spec
CHECK_DEADLOCK FALSE
INVARIANT PasswordIsCurrent
