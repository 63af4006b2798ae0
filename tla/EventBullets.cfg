SPECIFICATION Spec
CONSTANT Events <- MCEvents
INVARIANTS TypeOK BarShowsOptions SilentUnlessGreen ClosedIsSaved
PROPERTIES OpensSuspended StatusBarPromise
