\* All texts of at most five characters.
CONSTANTS
  Alphabet = {"/", "*", "-", ";", "'", "dq", "nl", " ", "backslash", "a"}
  MaxLength = 5
SPECIFICATION Spec
INVARIANTS TypeOK SplitsAtTheEnd RefinesToCode
