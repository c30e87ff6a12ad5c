CONSTANTS
  old = old  new = new  twin1 = twin1  twin2 = twin2  single = single  notes = notes
  Plugins <- MCPlugins
  Others <- MCOthers
  Info <- MCInfo
SPECIFICATION Spec
INVARIANTS
  PrunedServes
CHECK_DEADLOCK FALSE
