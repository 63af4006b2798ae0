SPECIFICATION Spec
CONSTANT Events <- MCNmeaEvents
INVARIANT SilentUnlessGreen
PROPERTY StatusBarPromise
