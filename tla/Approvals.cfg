SPECIFICATION FairSpec
CONSTANTS
  Requests = {r1, r2}
  MaxSends = 2
  MaxClicks = 2
INVARIANTS ResolverHasRow OneVerdict OneResponsePerSend
PROPERTIES CredentialSettles
