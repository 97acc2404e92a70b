\* One learner, three requests that change the scores of two problems of a unit;
\* the unit and one of the problems are graded assignments.
SPECIFICATION Spec
CONSTANTS
  r1 = r1
  r2 = r2
  r3 = r3
  p1 = p1
  p2 = p2
  unit = unit
  leaf = leaf
  w1 = w1
  w2 = w2
  Request = {r1, r2, r3}
  Problem = {p1, p2}
  Assignment = {unit, leaf}
  Worker = {w1, w2}
  Leaf = {leaf}
  ProblemOf <- MCProblemOf
  Contains <- MCContains
SYMMETRY WorkerSymmetry
INVARIANT TypeOK
INVARIANT CampusIsCurrent
PROPERTY SendsCurrentScore
PROPERTY NoOlderScore
\* The system stops when all requests have ended and all tasks have run.
CHECK_DEADLOCK FALSE
