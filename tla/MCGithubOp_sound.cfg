\* Honest PK Tokens, leaked tokens for another service, attacker tokens.
CONSTANTS
  u1 = u1  u2 = u2  a = a  sigstore = sigstore
  Users = {u1, u2}
  Attacker = a
  OtherAuds = {sigstore}
SPECIFICATION Spec
INVARIANT GithubSound
