------------------------------- MODULE GithubOp -------------------------------
(***************************************************************************)
(* The GitHub Actions OP client (src/parties/githubclient.go).  A         *)
(* workflow asks GitHub's token endpoint for an ID token whose audience   *)
(* is whatever it names; the OpenPubkey client names its CIC commitment,  *)
(* so the commitment is carried in aud.  GithubOp.VerifyPKToken checks    *)
(* a PK Token against GitHub's JWKS, on a GQ or an RS256 path.            *)
(*                                                                         *)
(* The parties: honest workflows, which make PK Tokens (RS256 or          *)
(* GQ-upgraded) and also fetch tokens for other audiences that they send  *)
(* to other services (so these leak); the attacker's workflow, which      *)
(* fetches tokens for any audience.  Cryptography is perfect as in        *)
(* ProviderVerifier: an RSA signature exists iff GitHub issued the token; *)
(* a GQ signature under a header exists iff an honest client made it or   *)
(* the attacker holds the raw token; a CIC signature iff the key's owner  *)
(* made it.  Every token here is GitHub's: iss and the JWKS are fixed.    *)
(***************************************************************************)
EXTENDS Naturals, FiniteSets

CONSTANTS
  Users,      \* honest workflows (their repository identities, the sub)
  Attacker,   \* the attacker's workflow
  OtherAuds   \* audiences of other services a workflow fetches tokens for

Subjects == Users \cup {Attacker}

Cic(k) == [upk |-> k]
Cics == {Cic(k) : k \in Subjects}
\* util.B64SHA3_256 of the CIC protected header: injective.
Hash(c) == [cicHash |-> c.upk]
Commitments == {Hash(c) : c \in Cics}

\* Other services' audiences are not CIC commitments.
ASSUME GithubAssumption ==
  /\ Users # {} /\ Attacker \notin Users
  /\ OtherAuds # {} /\ OtherAuds \cap Commitments = {}

Auds == Commitments \cup OtherAuds

\* A GitHub ID token: its sub and aud (iss is githubIssuer).
Tokens == [sub : Subjects, aud : Auds]

\* A PK Token: the alg of the Op part's protected header, the OpSigGQ
\* flag, the ID token and the CIC.
PKTokens == [alg : {"RS256", "GQ256"}, gq : BOOLEAN, tok : Tokens, cic : Cics]

VARIABLES
  issued,     \* tokens GitHub has RSA-signed
  leaked,     \* raw tokens the attacker holds
  gqSigned,   \* <<token, alg header>> pairs honest clients GQ-signed
  cicSigned,  \* <<cic, token>>: CIC signatures made by key owners
  published   \* PK Tokens honest workflows made

vars == <<issued, leaked, gqSigned, cicSigned, published>>

RSASigExists(t) == t \in issued
\* A GQ proof of knowledge of t's RSA signature, bound to the header: the
\* holder of the raw token can make one under any header.
GQSigExists(t, alg) == <<t, alg>> \in gqSigned \/ t \in leaked
CicSigExists(c, t) == <<c, t>> \in cicSigned \/ c.upk = Attacker

-----------------------------------------------------------------------------
(***************************************************************************)
(* GithubOp.                                                              *)
(***************************************************************************)

\* RequestTokens with buildTokenURL: GitHub signs a token for the calling
\* workflow with the audience the request names.
RequestTokens(w, aud) == [sub |-> w, aud |-> aud]

\* PublicKey: the header's alg must be RS256; the key is then looked up
\* in GitHub's JWKS, which holds the key that signs every GitHub token.
GithubPublicKey(p) == p.alg = "RS256"

\* Mutant: the GQ branch does not compare aud with the CIC commitment.
VerifyPKTokenNoGQAud(p) ==
  IF ~GithubPublicKey(p) THEN "pubkey"
  ELSE IF p.gq /\ ~GQSigExists(p.tok, p.alg) THEN "gqsig"
  ELSE IF ~p.gq /\ ~(RSASigExists(p.tok) /\ p.tok.aud = Hash(p.cic))
    THEN "jwt"
  ELSE IF ~CicSigExists(p.cic, p.tok) THEN "cicsig"
  ELSE "ok"

\* VerifyPKToken with no cosigner key (cosPk = nil): expectedAud is the
\* commitment to the CIC header; PublicKey; on the GQ path the GQ
\* signature and aud = expectedAud (no issuer check); on the other path
\* jwt.Parse with the RSA key, aud = expectedAud and iss = githubIssuer;
\* then the CIC signature.
VerifyPKToken(p) ==
  IF ~GithubPublicKey(p) THEN "pubkey"
  ELSE IF p.gq /\ ~GQSigExists(p.tok, p.alg) THEN "gqsig"
  ELSE IF p.gq /\ p.tok.aud # Hash(p.cic) THEN "aud"
  ELSE IF ~p.gq /\ ~(RSASigExists(p.tok) /\ p.tok.aud = Hash(p.cic))
    THEN "jwt"
  ELSE IF ~CicSigExists(p.cic, p.tok) THEN "cicsig"
  ELSE "ok"

-----------------------------------------------------------------------------
(***************************************************************************)
(* The parties.                                                           *)
(***************************************************************************)

Init ==
  /\ issued = {}
  /\ leaked = {}
  /\ gqSigned = {}
  /\ cicSigned = {}
  /\ published = {}

\* An honest workflow makes a PK Token: RequestTokens(cicHash), the CIC
\* signature over the payload, and optionally the GQ upgrade, which sets
\* OpSigGQ, signs over the token's own RS256 header (VerifyPKToken checks
\* it over the original header.payload) and keeps the raw token private.
GithubOidcAuth(u, signGQ) ==
  LET t == RequestTokens(u, Hash(Cic(u)))
      p == [alg |-> "RS256", gq |-> signGQ, tok |-> t, cic |-> Cic(u)]
  IN
  /\ issued' = issued \cup {t}
  /\ cicSigned' = cicSigned \cup {<<Cic(u), t>>}
  /\ published' = published \cup {p}
  /\ IF signGQ
       THEN gqSigned' = gqSigned \cup {<<t, "RS256">>} /\ UNCHANGED leaked
       ELSE leaked' = leaked \cup {t} /\ UNCHANGED gqSigned

\* An honest workflow fetches a token for another service, which sees it.
OtherAudToken(u, aud) ==
  /\ issued' = issued \cup {RequestTokens(u, aud)}
  /\ leaked' = leaked \cup {RequestTokens(u, aud)}
  /\ UNCHANGED <<gqSigned, cicSigned, published>>

\* The attacker's workflow fetches a token for any audience, including
\* another user's published commitment.
AttackerToken(aud) ==
  /\ issued' = issued \cup {RequestTokens(Attacker, aud)}
  /\ leaked' = leaked \cup {RequestTokens(Attacker, aud)}
  /\ UNCHANGED <<gqSigned, cicSigned, published>>

Next ==
  \/ \E u \in Users, g \in BOOLEAN : GithubOidcAuth(u, g)
  \/ \E u \in Users, aud \in OtherAuds : OtherAudToken(u, aud)
  \/ \E aud \in Auds : AttackerToken(aud)

Spec == Init /\ [][Next]_vars

\* Whatever PK Token anybody assembles from the tokens that exist.
Candidates == PKTokens

-----------------------------------------------------------------------------
(***************************************************************************)
(* Properties.                                                            *)
(***************************************************************************)

TypeOK ==
  /\ issued \subseteq Tokens
  /\ leaked \subseteq issued
  /\ gqSigned \subseteq issued \X {"RS256", "GQ256"}
  /\ cicSigned \subseteq Cics \X issued
  /\ published \subseteq PKTokens

(* Key binding: VerifyPKToken accepts a PK Token only if the key in its  *)
(* CIC belongs to the workflow named by the token's sub, although every  *)
(* workflow can have GitHub sign a token with any audience, tokens for   *)
(* other services leak, and the GQ path checks no issuer.                *)
GithubSound ==
  \A p \in Candidates :
    VerifyPKToken(p) = "ok" => p.cic.upk = p.tok.sub

(* Completeness: every PK Token an honest workflow made, RS256 or GQ,    *)
(* passes VerifyPKToken (the GQ path exists for the GQ-upgraded ones).   *)
GithubCompleteness ==
  \A p \in published : VerifyPKToken(p) = "ok"

(* The strengthening that makes GithubSound inductive: an honest         *)
(* workflow's token carrying a commitment carries its own, and CIC       *)
(* signatures are made only over the signer's own tokens.                *)
GithubIInv ==
  /\ TypeOK
  /\ \A t \in issued : t.sub \in Users /\ t.aud \in Commitments =>
                         t.aud = Hash(Cic(t.sub))
  /\ \A s \in cicSigned : s[1] = Cic(s[2].sub)

=============================================================================
