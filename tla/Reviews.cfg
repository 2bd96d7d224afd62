SPECIFICATION Spec
CONSTANTS
    Editions <- MCEditions
    Clients = {c1, c2}
    Names = {n1, n2}
    Admin = Admin
    NoteIds = {i1, i2}
    Threads = {r1, r2}
    None = None
    MaxUsers = 3
    MaxSongs = 2
    MaxLosses = 1
SYMMETRY Symmetry
INVARIANT ReportedIsOwn
INVARIANT ReviewSeesReport
INVARIANT BrowsersEnd
