\* One tank, two client processes, pushes only.  The last step repeats its
\* pushes for ever, and what is repeated arrives.
CONSTANTS
  o1 = o1
  o2 = o2
  Objs = {o1}
  Processes = 2
  Requests = FALSE
  RemoveWindow = 1
  MaxTime = 3
  MaxVersion = 2
SPECIFICATION FairSpec
CHECK_DEADLOCK FALSE
INVARIANT SkippedIsCurrent
PROPERTY Converges
