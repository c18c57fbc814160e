SPECIFICATION Spec
CONSTANTS
  Thread = {p0, p1}
  Zero = Zero
  Key <- Keys
  Result <- Results
  BucketOf <- Buckets
  TagOf <- Tags
  PlaceOf <- Places
  AtomicGet = TRUE
SYMMETRY Symmetry
INVARIANTS
  HitRight
