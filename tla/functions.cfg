SPECIFICATION Spec
CONSTANTS
  c1 = c1
  c2 = c2
  Free = Free
  Clients <- TwoClients
  Names <- FourNames
  Lower <- LowerCase
  Upper <- UpperCase
  Signature <- Declared
  MaxMade = 2
  Env = {"restart"}
INVARIANTS CacheIsNewest CallsRunNewest CallsAnswer TypeOK
SYMMETRY ClientSymmetry
