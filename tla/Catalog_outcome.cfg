SPECIFICATION Spec
CONSTANTS
  BasisPoints = 20
  LamportsPerPoint = 1
  MaxFeePoints = 1
  MaxU64 = 40
  Admins = {a1, a2}
  NoHierarchy = NoHierarchy
  MaxSuperAdmins = 2
  MarketIds = {m1}
  EventIds = {e1}
  Absent = Absent
  OptaOdds = {12}
  MatchTimes = {3, 4}
  AdminStatuses = {"Active", "PrimaryClosed", "SecondaryActive"}
  LeadTime = 2
  CloseBefore = 1
  MaxU8 = 2
  EndOfTime = 4
SYMMETRY Symmetry
PROPERTY OutcomeIsFinal
