SPECIFICATION FairSpec
CONSTANTS
    Once = {t1}
    Recurring = {t2}
    Locals = {c1, c2}
    Remotes = {}
    Poller = poller
    Nobody = nobody
    MaxRuns = 3
    MaxMishaps = 2
INVARIANTS OnceRunsOnce
PROPERTIES StoppedStaysStopped RecurringRuns KeepsPromise
