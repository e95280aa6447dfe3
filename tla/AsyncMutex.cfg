SPECIFICATION FairSpec
CONSTANT Procs = {c1, c2, c3, c4}
INVARIANTS Exclusive
PROPERTIES FirstComeFirstServed EveryCallRuns
