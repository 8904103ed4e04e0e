SPECIFICATION Spec
CONSTANTS
  thy = thy
  ml = ml
  stmtT = stmtT
  stmtM = stmtM
  Snippet = Snippet
  Other = Other
  Nobody = Nobody
  Calls = {c1, c2}
  Files = {thy, ml}
  ML = {ml}
  Stmts = {stmtT, stmtM}
  Lines = {1, 2}
  Home <- FirstLine
  FileOf <- InFiles
  AnchorOf <- Snippets
  Downstream <- Loads
  MaxEntries = 2
  MaxSerial = 2
  MaxCalls = 3
  MaxTrouble = 2
SYMMETRY CallsAlike
INVARIANT TypeOK
INVARIANT FlagMatchesSite
INVARIANT NoStrayBreakpoint
INVARIANT SiteDeathIsNoticed
PROPERTY LiveEntryKeepsItsSite
CHECK_DEADLOCK FALSE
