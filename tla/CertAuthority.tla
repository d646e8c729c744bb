---------------------------- MODULE CertAuthority ----------------------------
(***************************************************************************)
(* The example X.509 CA (src/cert/ca.go, PktTox509): it turns a PK Token  *)
(* into a code-signing certificate that binds the CIC's user key to the   *)
(* ID token's email and issuer.  It runs against the same issuers,       *)
(* clients, relying parties and attacker as ProviderVerifier; the email  *)
(* of a token is its subject.                                            *)
(***************************************************************************)
EXTENDS ProviderVerifier

\* PktTox509 up to x509.CreateCertificate: the CIC signature; the
\* cosigner check is a TODO; json.Unmarshal of aud into []string fails on
\* the string form; Audience[0] must be the required audience.  "ok"
\* means a certificate for (p.tok.sub, p.tok.iss, p.cic.upk) is issued.
PktTox509(p, requiredAudience) ==
  IF ~CicSigExists(p.cic, p.tok) THEN "cicsig"
  ELSE IF ~p.tok.audList THEN "unmarshal"
  ELSE IF p.tok.aud # requiredAudience THEN "audience"
  ELSE "ok"

(* Certificate binding: the CA, configured with the OpenPubkey client's  *)
(* audience, certifies a user key for an email of an issuer the attacker *)
(* does not control only if the key belongs to that email's owner, as    *)
(* the OP's signature and the commitment would guarantee.                *)
CertBindsKeyToSubject ==
  \A p \in Candidates :
    PktTox509(p, OPK) = "ok" /\ p.tok.iss \notin EvilIssuers =>
      p.cic.upk = p.tok.sub
=============================================================================
