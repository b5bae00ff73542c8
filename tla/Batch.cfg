\* Up to three files renamed among four names while another program creates and deletes
\* and system calls fail.
CONSTANTS
    a = a
    b = b
    c = c
    d = d
    s1 = s1
    Names = {a, b, c, d}
    Strangers = {s1}
    NoFile = NoFile
    MaxItems = 3
    OthersDelete = TRUE
    RenamesMayFail = TRUE
SPECIFICATION Spec
CHECK_DEADLOCK FALSE
SYMMETRY Renaming
INVARIANTS TypeOK NothingLost HonestAnswer UndisturbedUndo
