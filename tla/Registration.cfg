SPECIFICATION MCSpec
CONSTANTS
    s1 = s1 s2 = s2 s3 = s3 p1 = p1 p2 = p2 p3 = p3 old = old h1 = h1 v1 = v1 v2 = v2 t1 = t1
    Workers = {"w1", "w2"}
    Cont = "cont"
    None = None
    Attempts <- MCAttempts
    Modes <- MCModes
    Esxi = {s1, s2, s3, old}
    Legacy = {old}
    Closed = {p2}
    Followed = {s3, p1, p3}
    Hosts = {h1}
    Tokens = {t1}
    Values = {v1}
    MaxFresh = 1
    MaxFaults = 1
INVARIANTS ClaimedFirst CredentialsKept RegistrationSound
CHECK_DEADLOCK FALSE
PROPERTIES StagedEnds
