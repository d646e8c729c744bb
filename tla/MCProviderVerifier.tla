------------------------- MODULE MCProviderVerifier -------------------------
(***************************************************************************)
(* Model-checking instance of ProviderVerifier: one honest user u1, the   *)
(* attacker a, an honest issuer i1 and an attacker-controlled issuer i2   *)
(* (an attacker-owned tenant of a multi-tenant OP when the two share a    *)
(* key).  The definitions below are chosen per run in the .cfg files.     *)
(***************************************************************************)
EXTENDS ProviderVerifier

CONSTANTS u1, a, i1, i2, k1, k2

\* The two issuers' JWKS: separate keys, or one key served for both.
OpKeyDistinct == [i \in {i1, i2} |-> IF i = i1 THEN k1 ELSE k2]
OpKeyShared == [i \in {i1, i2} |-> k1]

\* A relying party may put the attacker's commitment in its nonce.
MCRpNonces == {Hash(Cic(a)), None}

\* Payloads the attacker writes: u1's identity bound to the attacker's
\* commitment, by nonce and by a prefixed audience.
MCForgedTokens ==
  {[iss |-> i1, sub |-> u1, aud |-> OPK, audList |-> FALSE,
    nonce |-> Hash(Cic(a))],
   [iss |-> i1, sub |-> u1, aud |-> PfxAud, audList |-> FALSE,
    nonce |-> None]}

\* The attacker's issuer signs a token naming u1 with its commitment.
MCEvilTokens ==
  {[iss |-> i2, sub |-> u1, aud |-> OPK, audList |-> FALSE,
    nonce |-> Hash(Cic(a))]}

NonceCfg(i, gqOnly) ==
  [issuer |-> i, commitmentClaim |-> "nonce", clientID |-> OPK,
   skipClientIDCheck |-> FALSE, gqOnly |-> gqOnly, gqCommitment |-> FALSE]

GQCommitCfg(i) ==
  [issuer |-> i, commitmentClaim |-> "", clientID |-> "",
   skipClientIDCheck |-> TRUE, gqOnly |-> TRUE, gqCommitment |-> TRUE]

\* GQCommitment without GQOnly: rejected by the sanity check.
BadCfg(i) == [GQCommitCfg(i) EXCEPT !.gqOnly = FALSE]

ConfigsGQOnly == {NonceCfg(i, TRUE) : i \in {i1, i2}} \cup {GQCommitCfg(i) : i \in {i1, i2}}
ConfigsAll == ConfigsGQOnly \cup {NonceCfg(i, FALSE) : i \in {i1, i2}} \cup {BadCfg(i1)}

AlgsAll == {"RS256", "GQ256", "ES256", ""}
AlgsKnown == {"RS256", "GQ256", ""}
=============================================================================
