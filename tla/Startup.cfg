\* Every allocation and every call may fail, unwritten memory may hold anything.
SPECIFICATION Spec
CONSTANT MaxAddresses = 2
INVARIANTS FreedOnce ServedComplete FailureReleases MisuseExplained
