CONSTANTS
    l1 = l1  l2 = l2  a = a  b = b  t1 = t1  t2 = t2
    None = None
    Logins = {l1, l2}
    Passwords = {a, b}
    Tasks = {t1, t2}
    Methods = {"password", "other"}
    Faulty = TRUE
SPECIFICATION FairSpec
INVARIANTS SignInv NoTakeover RegisteredCanSignIn
PROPERTIES AccountUsable ImplementsAccounts
