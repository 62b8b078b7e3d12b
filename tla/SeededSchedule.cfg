SPECIFICATION ServicesSpec
CONSTANTS c1 = c1 t1 = t1
CONSTANTS Object = {o1, o2} StartTake = 1 SweepTake = 1 Concurrency = 1 MaxAttempts = 2 MaxCrashes = 1
CONSTANTS Task = {t1, t2, t3, t4}
CONSTANTS Key = {k1, k2}
CONSTANTS Limit = 1 Window = 2 SweepEvery = 2 MaxBuckets = 1 MaxFailing = 1 MaxEvicted = 1
CONSTANTS Process = {p1, p2} RecordKey = {k2} MaxWrites = 3
CONSTANTS MaxPlanned = 2 Users = {3, 4, 5} Seed = {"demo", "volume"}
CONSTANTS TaskCount = 3 LookBack = 2 MaxSchedules = 1
CHECK_DEADLOCK FALSE
INVARIANT PlannedRecurringHasDueDate
