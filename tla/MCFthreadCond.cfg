\* Three threads, two of them with a timeout.
SPECIFICATION FairSpec
CONSTANTS
    Thread = {t1, t2, t3}
    NoThread = NoThread
    Timed = {t2, t3}
INVARIANTS
    TypeOK
    TransmissionSound
PROPERTIES
    Implements
