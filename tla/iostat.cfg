SPECIFICATION StatSpec
CONSTANTS
    Fds = {1, 2}
    Words <- MCWords
    Files <- MCFiles
    LogWords <- MCLogWords
    Lens = {1, 2}
    HistMax = 1
    MaxBytes = 2
INVARIANTS
    BytesConserved
    OthersSynced
