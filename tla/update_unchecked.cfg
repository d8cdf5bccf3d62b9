SPECIFICATION Spec
CONSTANTS
  r1 = r1
  r2 = r2
  v0 = v0
  v1 = v1
  v2 = v2
  Requests = {r1, r2}
  Images = {v0, v1, v2}
  Factory = v0
  Offers <- TwoOffers
  MaxFaults = 0
INVARIANT InstalledIsWhole
