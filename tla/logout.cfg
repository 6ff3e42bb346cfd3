CONSTANTS
    User = {u1, u2}
    Role = {"admin", "viewer"}
    Thread = {t1, t2}
    MaxSessions = 2
    Lifetime = 2
    MaxTime = 3
    MaxTokens = 3
    MaxPasswords = 2
    None = None

SPECIFICATION Spec


PROPERTY LogoutEndsOwnSession
