SPECIFICATION Spec
CONSTANTS
  BasisPoints = 20
  LamportsPerPoint = 1
  MaxFeePoints = 1
  MaxU64 = 40
  Admins = {a1, a2}
  NoHierarchy = NoHierarchy
  MaxSuperAdmins = 2
  MarketIds = {m1, m2}
  EventIds = {e1, e2}
  Absent = Absent
  OptaOdds = {12, 21}
  MatchTimes = {3}
  AdminStatuses = {"Active", "PrimaryClosed", "SecondaryActive"}
  LeadTime = 2
  CloseBefore = 1
  MaxU8 = 1
  EndOfTime = 3
SYMMETRY Symmetry
INVARIANTS
  TypeOK
  EventIdsUnique
  CountsAgree
  HierarchySound
  ReadyForPrimary
  SecondaryLinked
PROPERTIES
  RolesFollowList
  OrphanedEventsOnlyResolve
