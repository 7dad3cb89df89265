SPECIFICATION Spec
CONSTANTS
  Procs = {p1, p2}
  Names = {"ann", "bob"}
  Loaded <- AnnAndBob
  NumLoaded = 2
  HeaderLines = 1
  PoolNodes = 5
  None = None
INVARIANTS WalkIsLinked FindIsExact SizeKeepsPace
PROPERTIES CallsReturn
