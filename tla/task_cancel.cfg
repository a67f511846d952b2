SPECIFICATION Spec
CONSTANTS
    Once = {t1}
    Recurring = {t2}
    Locals = {c1}
    Remotes = {}
    Poller = poller
    Nobody = nobody
    MaxRuns = 3
    MaxMishaps = 0
INVARIANTS CancelIsPermanent
