\* Two clients after one place, which is refused or passed on, and after two, where
\* both are served at once; failures of every call, and a stop at any time.
CONSTANTS
    c1 = c1  c2 = c2
    Client = {c1, c2}
    None = None
    Limits = {1, 2}
    MaxInterrupts = 1
SPECIFICATION FairSpec
INVARIANTS ActiveIsSound ThreadsAreOwned NoWorkerOutlivesRun
PROPERTIES WorkersAreReaped ShutdownCompletes
