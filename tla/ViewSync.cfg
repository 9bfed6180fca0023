\* One tank, two client processes, requests answered in the middle of steps.
\* RemoveWindow 0 lets a removal expire within the two steps.
CONSTANTS
  o1 = o1
  o2 = o2
  Objs = {o1}
  Processes = 2
  Requests = TRUE
  RemoveWindow = 0
  MaxTime = 2
  MaxVersion = 1
SPECIFICATION Spec
CHECK_DEADLOCK FALSE
INVARIANTS AckMeansCurrent
