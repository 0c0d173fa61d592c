SPECIFICATION Spec
CONSTANTS
  m1 = m1
  m2 = m2
  m3 = m3
  Requests = {r1, r2}
  Conversations = {c1}
  NoConversation = NoConversation
  Relays <- MCRelays
  Plans <- MCPlans
  NoAggregate = NoAggregate
  NoSelector = NoSelector
  MaxSaves = 2
  MaxPicks = 3
SYMMETRY Alike
CHECK_DEADLOCK FALSE
INVARIANT TriedAll
INVARIANT Fair
INVARIANT SelectorRemembers
