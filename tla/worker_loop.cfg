\* Two workers, one with its observer, while Drain and Stop are called in turn.
SPECIFICATION FairLoopSpec
CONSTANTS
    Workers = {w1, w2}
    Observed = {w1}
    Jobs = {1, 2}
    NoJob = 0
    BufferSize = 1
    MaxErrors = 1
    Env = {"fetch_error", "block"}
INVARIANTS
    LoopTypeOK
    DrainedJobsHaveEnded
    CheckinsFindTheirJob
    NothingLeftToWrite
    StoppedObserverShowsNothing
PROPERTIES
    DrainEnds
    StopEnds
