\* A refetched and a one-off request, fair scheduling, one mishap.
SPECIFICATION FairSpec
CONSTANTS
  a = a
  b = b
  Task = {a, b}
  Polled = {a}
  Says <- AnyOfA
  Timeout = 1
  MaxMishaps = 1
  NoTask = NoTask
INVARIANT RunsOnlyWithConsent
PROPERTIES ApprovalHonoured UnansweredIsDenied
