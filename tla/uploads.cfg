SPECIFICATION Spec
CONSTANTS
    t1 = t1
    t2 = t2
    u1 = u1
    file1 = file1
    file2 = file2
    k1 = k1
    k2 = k2
    k3 = k3
    m1 = m1
    m2 = m2
    None = None
    Tasks = {t1, t2}
    Users = {u1}
    Files = {file1, file2}
    Uploads = {k1, k2, k3}
    Messages = {m1, m2}
    Owner <- OneUser
    File <- FileOf
    Author <- OneAuthor
    Quota = 2
    Limit <- AndAccount
SYMMETRY Symmetry
INVARIANTS
    TypeOK
    UsedUploadsStay
    QuotaIsExact
    UnusedIsChecked
PROPERTIES
    DeletedRowsAreQueued
CHECK_DEADLOCK FALSE
