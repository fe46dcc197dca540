\* Two dependent edits of one document, a command, and a commit that the principal
\* may not make, reviewed one by one and in batches under a user who types.
SPECIFICATION Spec
CONSTANTS
  Proposals = {"first", "second", "command", "commit"}
  Edit <- MCEdit
  Perms = {"Modify", "Execute"}
  Seeded = {"a.rs"}
  SeedText <- MCSeedText
  Fragments = {"x", "y", "u"}
  Typed = {"u"}
  MaxConfirms <- MCMaxConfirms
  MaxTyped = 1
INVARIANTS
  AppliedIffEffect
  BatchTruthful
  UserTextKept
CHECK_DEADLOCK FALSE
