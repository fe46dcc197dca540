\* Two commands at once, two tenants, two files, two comments and two
\* milliseconds to make them in.
SPECIFICATION Spec
CONSTANTS
  Tenants = {"single", "acme"}
  Single = "single"
  Files = {"a.rs", "b.rs"}
  FirstFile = "a.rs"
  Calls = {c1, c2}
  MaxClock = 2
  MaxAdds = 2
CONSTRAINT Scope
SYMMETRY CallsAlike
INVARIANTS
  ToldIsKept
  TenantsApart
  ListedOnce
  LockShownIsHeld
PROPERTIES
  ImplementsBoard
CHECK_DEADLOCK FALSE
