SPECIFICATION Spec
CONSTANTS
  Requests = {r1, r2}
  People = {p1, p2}
  Links = {l1, l2}
  Workspaces <- MCWorkspaces
  SeatCaps = {1, 2}
  LinkCap = 1
  Conns = 2
  MaxOps = 3
  MaxFaults = 1
SYMMETRY MCSymmetry
INVARIANTS TypeOK OnlyWaitsStop OnlyThePoolBlocks
PROPERTIES SeatsRise LinksRise JoinsFit JoinsOnce
CHECK_DEADLOCK FALSE
