CONSTANTS
  u1 = u1  a = a  i1 = i1  i2 = i2  k1 = k1  k2 = k2
  OPK = OPK  RP = RP  PfxAud = PfxAud
  Users = {u1}
  Attacker = a
  Issuers = {i1, i2}
  EvilIssuers = {i2}
  OtherAlg = "ES256"
  AudForms = {"string", "list"}
  RpNonces <- MCRpNonces
  ForgedTokens <- MCForgedTokens
  EvilTokens <- MCEvilTokens
  OpKey <- OpKeyDistinct
  Algs <- AlgsAll
  Configs <- ConfigsAll
SPECIFICATION Spec
INVARIANTS KeyOwnedBySubject
