\* Dashes, quotes, line feeds and semicolons alone, in longer texts.
CONSTANTS
  Alphabet = {"-", ";", "'", "nl"}
  MaxLength = 7
SPECIFICATION Spec
INVARIANTS QuotedSemicolonsIgnored
