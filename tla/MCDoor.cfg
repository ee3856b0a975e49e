SPECIFICATION Spec
CONSTANTS
  p1 = p1
  p2 = p2
  q1 = q1
  s1 = s1
  s2 = s2
  l1 = l1
  a = a
  b = b
  Requests = {p1, p2, q1, s1, s2, l1}
  Agents = {a, b}
  Kind <- MCKind
  AgentOf <- MCAgentOf
  Misspelt = {q1}
  Callers <- MCCallers
  MaxContexts = 2
  FreshFor = 2
  LookFor = 1
  Minutes = {1, 2}
  None = None
CONSTRAINT Apart
INVARIANTS RootNeedsACard OneContextOneRequest RuleHasATimer
PROPERTY SpellEnds
CHECK_DEADLOCK FALSE
