CONSTANTS
  old = old  new = new  twin1 = twin1  twin2 = twin2  single = single  notes = notes
  Plugins <- MCPlugins
  Others <- MCOthers
  Info <- MCInfo
SPECIFICATION Spec
INVARIANTS
  ListAccounts
  ReleasedAll
  TableHasBest
  LoadedServes
\* main() returns or calls Exit(): the process is over.
CHECK_DEADLOCK FALSE
