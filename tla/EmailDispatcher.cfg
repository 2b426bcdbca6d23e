SPECIFICATION FairSpec
CONSTANTS
    Mails = {m1, m2, m3}
    NoMail = NoMail
    Retries = 2
    MaxStops = 2
INVARIANTS OnePlace DrainIsTrue
PROPERTIES IsOutbox AllSettled
CHECK_DEADLOCK FALSE
