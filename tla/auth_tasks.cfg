CONSTANTS
    p1 = p1  p2 = p2
    t1 = t1  t2 = t2
    u1 = u1
    s1 = s1  s2 = s2
    NoSession = NoSession
    Procs = {p1}
    Tasks = {t1, t2}
    Users = {u1}
    Sessions = {s1, s2}
    Blockable = {s2}
    Faulty = TRUE
    Host <- HostOneProc
    Owner <- OwnerOneUser
SPECIFICATION FairSpec
INVARIANTS IInv NoFalseDenial RevokedRowsDead
PROPERTIES Termination RevocationFinal ImplementsLedger LogoutStoppedByAnother
