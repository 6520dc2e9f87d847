SPECIFICATION Spec
CONSTANTS
    Parkers = {p}
    IoCoros = {c}
    Fns = {f, g}
    Threads = {t1, t2}
    Stay = FALSE
    MaxTime = 1
    NoCoro = NoCoro
INVARIANTS NoLostWakeup QueuedOnce FnFifo FnFlag
 
