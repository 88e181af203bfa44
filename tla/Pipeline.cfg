\* Two workers, a URL, a URL with file and text, a file with a note, a text;
\* two edits of the owner.
SPECIFICATION Spec
CONSTANTS
  Calls = {c1, c2}
  None = None
  Kinds <- MCKinds
  MaxEdits = 2
SYMMETRY Symmetry
INVARIANTS
  OverrideKept
  StatusIsContract
  CompleteIsEnriched
  PendingIsMoving
