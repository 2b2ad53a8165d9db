CONSTANTS
  r1 = r1
  r2 = r2
  other = other
  plain = plain
  pii = pii
  link = link
  Resources <- MCResources
  Listed <- MCListed
  Trusted <- MCTrusted
  IdRank <- MCIdRank
  Prompts <- MCPrompts
  Pii <- MCPii
  Named <- MCNamed
  Enough = enough
  Short = short
  MaxTime = 1
  MaxChecks = 2
  MaxDuals = 2
  MaxCrashes = 1
  None = None
SPECIFICATION Spec
INVARIANT ReceiptForBoundResource
