SPECIFICATION FairSpec
CONSTANTS
    Requests = {1, 2}
    Dcs = {1, 2}
    Shifts = {0, 1}
    AfterOf <- Chain
    Kinds = {"fail", "migrate", "msgWait", "server", "flood", "unauthorized", "badGuest", "notInited"}
    MaxErrors = 3
    DelayLimit = 1
CHECK_DEADLOCK FALSE
INVARIANT OnePlace
PROPERTY EventuallyAnswered
