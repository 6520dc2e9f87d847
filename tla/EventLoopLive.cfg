SPECIFICATION FairSpec
CONSTANTS
    Parkers = {p}
    IoCoros = {c}
    Fns = {f}
    Threads = {t1}
    Stay = TRUE
    MaxTime = 1
    NoCoro = NoCoro
PROPERTIES NothingForgotten StopStops
