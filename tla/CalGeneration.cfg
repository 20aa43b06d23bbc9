SPECIFICATION GenSpec
CONSTANTS
  Corrections = {c1, c2}
  Default = c1
  None = None
  Blank = Blank
  MaxGen = 3
  Onward = FALSE

  
PROPERTIES
  GenerationsAreNew
