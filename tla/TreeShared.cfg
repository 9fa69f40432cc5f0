SPECIFICATION Spec
CONSTANTS
  Sids = {"A", "B", "C"}
  Files = {"f", "g", "h", "k"}
  Markings = {"x", "y"}
  Absent = Absent
  SubFiles <- SharedFiles
  SubClass <- BetweenClass
  Supp <- PrivateSupp
  Deleters = {"p", "q"}
  Target <- DeleteAB
  Bulk = {"q"}
  Imported = {}
  Viewed = {"A", "B"}
  MaxCrashes = 1
INVARIANTS StayingComplete StayingReadable FindableTreesDeleted
