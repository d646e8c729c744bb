-------------------------- MODULE ProviderVerifier --------------------------
(***************************************************************************)
(* The OpenID-provider half of PK Token verification                      *)
(* (verifier/providerverifier.go, DefaultProviderVerifier.VerifyProvider)  *)
(* run against the parties that produce the tokens it is given:           *)
(*                                                                         *)
(*  - OPs, which RSA-sign ID tokens, some of them sharing a signing key   *)
(*    (one JWKS served for several issuers, e.g. Azure tenants);           *)
(*  - honest OpenPubkey clients (client.OidcAuth), which commit to their  *)
(*    CIC in the nonce and publish the PK Token, RS256 or GQ256;          *)
(*  - honest clients in GQ-commitment mode, which put the commitment in   *)
(*    the GQ protected header and an audience with the                    *)
(*    "OPENPUBKEY-PKTOKEN:" prefix;                                        *)
(*  - ordinary relying parties, which see raw ID tokens for their own     *)
(*    audience and a nonce they chose, and leak them to the attacker;     *)
(*  - issuers whose issuance the attacker controls.                       *)
(*                                                                         *)
(* Cryptography is perfect and abstract: an RSA signature on a token      *)
(* exists iff an OP issued it; a GQ signature over <<token, cic header>>  *)
(* exists iff an honest client made it or the attacker holds the raw     *)
(* token (GQ is a proof of knowledge of the RSA signature); a CIC         *)
(* signature exists iff the key owner made it.  The CIC commitment        *)
(* (SHA-256 of the CIC header) is an injective map Hash.                  *)
(***************************************************************************)
EXTENDS Naturals, FiniteSets

CONSTANTS
  Users,        \* honest end users (model values)
  Attacker,     \* the adversary, who also owns a key and an identity
  Issuers,      \* OIDC issuers (iss values)
  EvilIssuers,  \* issuers whose token issuance the attacker controls
  OpKey,        \* [Issuers -> keys]: the kid an issuer's JWKS serves
  OPK,          \* client ID of the OpenPubkey client (an aud value)
  RP,           \* client ID of an ordinary relying party (an aud value)
  PfxAud,       \* an aud value that starts with "OPENPUBKEY-PKTOKEN:"
  OtherAlg,     \* a provider alg other than RS256 and GQ256 (e.g. ES256)
  Algs,         \* the alg header values a PK Token may carry
  AudForms,     \* the JSON forms an OP may give aud: "string", "list"
  RpNonces,     \* nonces a relying party may put in its ID tokens
  ForgedTokens, \* token payloads the attacker writes without any OP
  EvilTokens,   \* tokens the attacker's issuers sign
  Configs       \* ProviderVerifierOpts (+ issuer, commitmentClaim) in use

Subjects == Users \cup {Attacker}

\* Missing values: no alg header, no "cic" header, no nonce claim.
NoAlg == ""
None == [none |-> "none"]

(* The client instance claims of a key's owner, and its commitment.     *)
Cic(k) == [upk |-> k]
Cics == {Cic(k) : k \in Subjects}
Hash(c) == [cicHash |-> c.upk]
Commitments == {Hash(c) : c \in Cics}

\* An ID token: payload claims and the JSON form of aud.
Tokens == [iss : Issuers, sub : Subjects, aud : {OPK, RP, PfxAud},
           audList : BOOLEAN, nonce : Commitments \cup {None}]

\* The Op part of a PK Token: its alg header, the ID token, the GQ "cic"
\* protected header, and the CIC part.
PKTokens == [alg : Algs, tok : Tokens, gqCic : Commitments \cup {None},
             cic : Cics]

\* Verifier configuration: issuer, commitmentClaim and the options.
ConfigType == [issuer : Issuers, commitmentClaim : {"nonce", ""},
               clientID : {OPK, ""}, skipClientIDCheck : BOOLEAN,
               gqOnly : BOOLEAN, gqCommitment : BOOLEAN]

Results == {"ok", "sanity", "audience", "noalg", "nongq", "issuer",
            "opkey", "gqsig", "rssig", "panic", "prefix", "nocommitment",
            "nocommitmentclaim", "mismatch", "cicsig"}

ASSUME ConstantsAssumption ==
  /\ Users # {} /\ Attacker \notin Users
  /\ EvilIssuers \subseteq Issuers
  /\ OtherAlg \notin {"RS256", "GQ256", NoAlg}
  /\ {"RS256", "GQ256"} \subseteq Algs
  /\ Algs \subseteq {"RS256", "GQ256", OtherAlg, NoAlg}
  /\ {OPK, RP, PfxAud} \cap {None, ""} = {} /\ OPK # RP
  /\ PfxAud \notin {OPK, RP}
  /\ AudForms \subseteq {"string", "list"} /\ AudForms # {}
  /\ RpNonces \subseteq Commitments \cup {None}
  /\ ForgedTokens \subseteq Tokens
  /\ EvilTokens \subseteq [iss : EvilIssuers, sub : Subjects,
                           aud : {OPK, RP, PfxAud}, audList : BOOLEAN,
                           nonce : Commitments \cup {None}]
  /\ Configs \subseteq ConfigType

VARIABLES
  issued,     \* ID tokens some OP has RSA-signed
  leaked,     \* raw (RSA-signed) ID tokens the attacker holds
  gqSigned,   \* <<token, cic header>> pairs honest clients GQ-signed
  cicSigned,  \* <<cic, token>> pairs: CIC signatures made by key owners
  published   \* PK Tokens honest clients produced

vars == <<issued, leaked, gqSigned, cicSigned, published>>

-----------------------------------------------------------------------------
(***************************************************************************)
(* What a signature check can see.                                        *)
(***************************************************************************)

\* jws.Verify(OpToken, RS256 key): the RSA signature exists.
RSASigExists(t) == t \in issued

\* gq.GQ256VerifyJWT: a GQ signature over the token and its GQ header.
GQSigExists(t, h) == <<t, h>> \in gqSigned \/ t \in leaked

\* jws.Verify(CicToken, upk): the owner of upk signed this CIC over the
\* ID token payload; the attacker signs with its own key at will.
CicSigExists(c, t) == <<c, t>> \in cicSigned \/ c.upk = Attacker

-----------------------------------------------------------------------------
(***************************************************************************)
(* DefaultProviderVerifier.VerifyProvider and the helpers it calls, in   *)
(* the order of their early returns.                                      *)
(***************************************************************************)

\* GQCommitment needs GQOnly, an empty commitmentClaim and
\* SkipClientIDCheck (VerifyProvider's sanity check).
SanityOK(v) ==
  v.gqCommitment => v.gqOnly /\ v.commitmentClaim = "" /\ v.skipClientIDCheck

\* Mutant: the type switch only accepts the string form of aud.
VerifyAudienceStringOnly(t, clientID) == t.aud = clientID /\ ~t.audList

\* verifyAudience: a string aud must equal clientID, a list aud must
\* contain it.  Both forms hold one value here.
VerifyAudience(t, clientID) == t.aud = clientID

\* discover.PublicKeyFinder.ByToken(v.issuer, token): the kid in the
\* token header names a key in the verifier issuer's JWKS.
ProviderPublicKey(v, t) == OpKey[t.iss] = OpKey[v.issuer]

\* verifyGQSig: issuer of the token, key lookup, GQ256VerifyJWT.
VerifyGQSig(v, p) ==
  IF p.tok.iss # v.issuer THEN "issuer"
  ELSE IF ~ProviderPublicKey(v, p.tok) THEN "opkey"
  ELSE IF ~GQSigExists(p.tok, p.gqCic) THEN "gqsig"
  ELSE "ok"

\* Mutant: the RS256 branch finds the key but never calls jws.Verify.
VerifyRSASigNoVerify(v, p) ==
  IF ~ProviderPublicKey(v, p.tok) THEN "opkey" ELSE "ok"

\* The RS256 branch: key lookup, then jws.Verify.
VerifyRSASig(v, p) ==
  IF ~ProviderPublicKey(v, p.tok) THEN "opkey"
  ELSE IF ~RSASigExists(p.tok) THEN "rssig"
  ELSE "ok"

\* Mutant: the GQOnly test inverted.
VerifyOpSigGQOnlyInverted(v, p) ==
  IF p.alg = NoAlg THEN "noalg"
  ELSE IF p.alg # "GQ256" /\ ~v.gqOnly THEN "nongq"
  ELSE IF p.alg = "GQ256" THEN VerifyGQSig(v, p)
  ELSE IF p.alg = "RS256" THEN VerifyRSASig(v, p)
  ELSE "ok"

\* The provider-signature step of VerifyProvider: GQOnly, then the switch
\* on alg, which has no default case.
VerifyOpSig(v, p) ==
  IF p.alg = NoAlg THEN "noalg"
  ELSE IF p.alg # "GQ256" /\ v.gqOnly THEN "nongq"
  ELSE IF p.alg = "GQ256" THEN VerifyGQSig(v, p)
  ELSE IF p.alg = "RS256" THEN VerifyRSASig(v, p)
  ELSE "ok"

\* Mutant: the "OPENPUBKEY-PKTOKEN:" prefix check left out.
VerifyGQCommitmentNoPrefix(p) ==
  IF p.tok.audList THEN "panic"
  ELSE IF p.gqCic = None THEN "nocommitment"
  ELSE IF p.gqCic # Hash(p.cic) THEN "mismatch"
  ELSE "ok"

\* verifyCommitment, GQCommitment branch: aud.(string) panics on a list;
\* the aud must carry the prefix; the commitment is the GQ "cic" header.
VerifyGQCommitment(p) ==
  IF p.tok.audList THEN "panic"
  ELSE IF p.tok.aud # PfxAud THEN "prefix"
  ELSE IF p.gqCic = None THEN "nocommitment"
  ELSE IF p.gqCic # Hash(p.cic) THEN "mismatch"
  ELSE "ok"

\* verifyCommitment, claim branch: claims[commitmentClaim].
VerifyClaimCommitment(v, p) ==
  IF ~(v.commitmentClaim = "nonce" /\ p.tok.nonce # None)
    THEN "nocommitmentclaim"
  ELSE IF p.tok.nonce # Hash(p.cic) THEN "mismatch"
  ELSE "ok"

VerifyCommitment(v, p) ==
  IF v.gqCommitment THEN VerifyGQCommitment(p) ELSE VerifyClaimCommitment(v, p)

\* verifyCicSignature
VerifyCicSignature(p) == IF CicSigExists(p.cic, p.tok) THEN "ok" ELSE "cicsig"

VerifyProvider(v, p) ==
  IF ~SanityOK(v) THEN "sanity"
  ELSE IF ~VerifyAudience(p.tok, v.clientID) /\ ~v.skipClientIDCheck
    THEN "audience"
  ELSE IF VerifyOpSig(v, p) # "ok" THEN VerifyOpSig(v, p)
  ELSE IF VerifyCommitment(v, p) # "ok" THEN VerifyCommitment(v, p)
  ELSE VerifyCicSignature(p)

-----------------------------------------------------------------------------
(***************************************************************************)
(* The parties.                                                           *)
(***************************************************************************)

Init ==
  /\ issued = EvilTokens
  /\ leaked = EvilTokens
  /\ gqSigned = {}
  /\ cicSigned = {}
  /\ published = {}

\* client.OidcAuth with the mock OP's RequestTokens: the CIC commitment
\* is the nonce, the OP signs the token, the client signs its CIC over
\* the payload, optionally upgrades the Op part to GQ (the raw token then
\* stays with the client) and publishes the PK Token.
OidcAuth(u, i, form, signGQ) ==
  LET t == [iss |-> i, sub |-> u, aud |-> OPK, audList |-> form = "list",
            nonce |-> Hash(Cic(u))]
      p == [alg |-> IF signGQ THEN "GQ256" ELSE "RS256", tok |-> t,
            gqCic |-> None, cic |-> Cic(u)]
  IN
  /\ issued' = issued \cup {t}
  /\ cicSigned' = cicSigned \cup {<<Cic(u), t>>}
  /\ published' = published \cup {p}
  /\ IF signGQ
       THEN gqSigned' = gqSigned \cup {<<t, None>>} /\ UNCHANGED leaked
       ELSE leaked' = leaked \cup {t} /\ UNCHANGED gqSigned

\* GQ-commitment issuance: aud carries the PK Token prefix, the nonce is
\* unused and the commitment goes into the GQ protected header.
GQCommitAuth(u, i) ==
  LET t == [iss |-> i, sub |-> u, aud |-> PfxAud, audList |-> FALSE,
            nonce |-> None]
      p == [alg |-> "GQ256", tok |-> t, gqCic |-> Hash(Cic(u)), cic |-> Cic(u)]
  IN
  /\ issued' = issued \cup {t}
  /\ gqSigned' = gqSigned \cup {<<t, Hash(Cic(u))>>}
  /\ cicSigned' = cicSigned \cup {<<Cic(u), t>>}
  /\ published' = published \cup {p}
  /\ UNCHANGED leaked

\* An honest user logs in to an ordinary relying party, which picks the
\* nonce, receives the raw ID token and hands it to the attacker.
RPLogin(u, i, form, n) ==
  LET t == [iss |-> i, sub |-> u, aud |-> RP, audList |-> form = "list",
            nonce |-> n]
  IN
  /\ issued' = issued \cup {t}
  /\ leaked' = leaked \cup {t}
  /\ UNCHANGED <<gqSigned, cicSigned, published>>

\* The PK Tokens anybody can hand to a verifier: any alg header, any
\* token an OP signed or the attacker wrote, any GQ header and CIC; the
\* signature checks decide which of them carry valid signatures.
Candidates ==
  [alg : Algs, tok : issued \cup ForgedTokens,
   gqCic : Commitments \cup {None}, cic : Cics]

HonestIssuers == Issuers \ EvilIssuers

Next ==
  \/ \E u \in Users, i \in HonestIssuers, f \in AudForms, g \in BOOLEAN :
       OidcAuth(u, i, f, g)
  \/ \E u \in Users, i \in HonestIssuers : GQCommitAuth(u, i)
  \/ \E u \in Users, i \in HonestIssuers, f \in AudForms, n \in RpNonces :
       RPLogin(u, i, f, n)

Spec == Init /\ [][Next]_vars

-----------------------------------------------------------------------------
(***************************************************************************)
(* Properties.                                                            *)
(***************************************************************************)

TypeOK ==
  /\ issued \subseteq Tokens
  /\ leaked \subseteq issued
  /\ gqSigned \subseteq issued \X (Commitments \cup {None})
  /\ cicSigned \subseteq Cics \X issued
  /\ published \subseteq PKTokens

\* VerifyProvider accepts PK Token p under configuration v.
Accepts(v, p) == VerifyProvider(v, p) = "ok"

(* Issuer binding (spec 4.6 step 5): VerifyProvider accepts a PK Token   *)
(* only if its ID token's iss is the verifier's issuer, whatever PK      *)
(* Token anybody builds from the tokens and signatures that exist.       *)
IssuerMatches ==
  \A v \in Configs, p \in Candidates :
    Accepts(v, p) => p.tok.iss = v.issuer

(* Key binding: when VerifyProvider accepts a PK Token of an issuer the  *)
(* attacker does not control, the user key in its CIC belongs to the     *)
(* token's subject: nobody binds a key to someone else's identity, by    *)
(* relabelling alg, by GQ-upgrading a token leaked by a relying party,   *)
(* or by choosing a relying party's nonce.                               *)
KeyOwnedBySubject ==
  \A v \in Configs, p \in Candidates :
    Accepts(v, p) /\ p.tok.iss \notin EvilIssuers => p.cic.upk = p.tok.sub

Sound == IssuerMatches /\ KeyOwnedBySubject

(* No PK Token anybody can build makes VerifyProvider panic (the         *)
(* unchecked aud.(string) assertion in verifyCommitment).                *)
NoPanic ==
  \A v \in Configs, p \in Candidates : VerifyProvider(v, p) # "panic"

(* Completeness (spec section 8): every PK Token an honest client        *)
(* published verifies under every configuration for its issuer whose     *)
(* mode matches how the token was committed.                             *)
ModeMatches(v, p) ==
  /\ v.issuer = p.tok.iss
  /\ v.gqCommitment = (p.gqCic # None)
  /\ v.gqOnly => p.alg = "GQ256"
  /\ ~v.gqCommitment => v.commitmentClaim = "nonce"

Completeness ==
  \A p \in published, v \in Configs :
    ModeMatches(v, p) /\ SanityOK(v) => Accepts(v, p)

(* The deployments under which Sound holds: a verifier that accepts RS256 *)
(* relies on each JWKS key belonging to one issuer (the RS256 path never  *)
(* compares iss) and on no PK Token carrying an alg outside the switch;   *)
(* a nonce-mode verifier checks the client ID, so that a relying party's  *)
(* nonce is never taken for a commitment.                                 *)
SecureConfigs ==
  \A v \in Configs :
    /\ ~v.gqOnly => /\ \A i, j \in Issuers : OpKey[i] = OpKey[j] => i = j
                    /\ OtherAlg \notin Algs
    /\ ~v.gqCommitment => v.clientID = OPK /\ ~v.skipClientIDCheck

(* The strengthening of TypeOK that makes Sound inductive: what honest    *)
(* issuers sign and honest clients GQ- or CIC-sign.                       *)
HonestTokensOK ==
  /\ \A t \in leaked : t.iss \notin EvilIssuers => t.aud # PfxAud
  /\ \A t \in issued : t.iss \notin EvilIssuers /\ t.aud = OPK =>
                         t.nonce = Hash(Cic(t.sub))
  /\ \A s \in gqSigned : s[2] = None \/ s[2] = Hash(Cic(s[1].sub))

IInv == TypeOK /\ HonestTokensOK

(* The deployment under which Completeness holds: every verifier either   *)
(* expects the OpenPubkey client's ID or skips the client ID check.       *)
VerifierKnowsClient ==
  \A v \in Configs : v.clientID = OPK \/ v.skipClientIDCheck

(* The strengthening that makes Completeness inductive: what OidcAuth and *)
(* GQCommitAuth leave behind for each PK Token they publish.              *)
PublishedOK ==
  \A p \in published :
    /\ p.tok \in issued /\ <<p.cic, p.tok>> \in cicSigned
    /\ \/ /\ p.gqCic = None /\ p.tok.aud = OPK /\ p.tok.nonce = Hash(p.cic)
          /\ \/ p.alg = "RS256"
             \/ p.alg = "GQ256" /\ <<p.tok, None>> \in gqSigned
       \/ /\ p.alg = "GQ256" /\ p.tok.aud = PfxAud /\ ~p.tok.audList
          /\ p.gqCic = Hash(p.cic) /\ <<p.tok, p.gqCic>> \in gqSigned


=============================================================================
