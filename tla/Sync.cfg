SPECIFICATION Spec
CONSTANTS
    Threads = {t1, t2, t3}
    l1 = l1
    l2 = l2
    c1 = c1
    Locks = {l1, l2}
    Cvs = {c1}
    CvLock <- MCCvLock
    MaxRepeat = 2
    NULL = NULL
CHECK_DEADLOCK FALSE
INVARIANTS TypeOK MutualExclusion RepeatMatchesHolder WaitersBlocked NoLostWakeup CvWaitersQueued
PROPERTY FreeLockTaken
