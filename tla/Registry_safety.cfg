\* Two requests on a registry with two databases, a group and a channel; one more database.
SPECIFICATION Spec
CONSTANTS
  DbIds = {d1, d2, d3}
  GroupIds = {g1, g2}
  ChannelIds = {c1, c2}
  TimerIds = {i1}
  Keys = {k1, k2, k3}
  Requests = {r1, r2}
  Existing = {d1, d2, g1, c1}
  None = None
SYMMETRY Exchangeable
CHECK_DEADLOCK FALSE
INVARIANTS TypeOK NothingDangles ResolvesToOwn SavedIsChosen
