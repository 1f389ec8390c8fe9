CONSTANTS
  Last = 3
  Idempotent <- MCIdempotent
  Reconcilable <- MCReconcilable
  MaxAttempts = 2
  MaxCrashes = 2
SPECIFICATION FairSpec
INVARIANTS AtMostOnce NotSentIsTrue JournalTellsTheTruth PrefixDelivered
PROPERTIES OpenClaimsClose PromiseKept
