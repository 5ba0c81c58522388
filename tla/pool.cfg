\* Three names for at most two workers, a failing pthread_create, thread_pool_destroy.
SPECIFICATION FairSpec
CONSTANTS
    Threads = {t1, t2, t3}
    thr_max = 2
    MaxJobs = 4
    MaxFailures = 1
    MayDestroy = TRUE
INVARIANTS CountersAgree FreedWhenQuiet
PROPERTIES ImplementsJobPool UnracedJobRun
CHECK_DEADLOCK FALSE
