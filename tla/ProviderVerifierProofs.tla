----------------------- MODULE ProviderVerifierProofs -----------------------
(***************************************************************************)
(* Proofs about ProviderVerifier for every value of the constants: the    *)
(* type invariant, the inductive invariant IInv, and Sound under the      *)
(* deployment hypothesis SecureConfigs.                                   *)
(***************************************************************************)
EXTENDS ProviderVerifier, TLAPS

\* The tokens and commitments the parties add are of their types.
LEMMA OidcTokenTyped ==
  ASSUME NEW u \in Users, NEW i \in HonestIssuers, NEW f \in AudForms
  PROVE  /\ [iss |-> i, sub |-> u, aud |-> OPK, audList |-> f = "list",
            nonce |-> Hash(Cic(u))] \in Tokens
         /\ Cic(u) \in Cics /\ Hash(Cic(u)) \in Commitments
BY ConstantsAssumption DEF Tokens, HonestIssuers, Subjects, Cics, Commitments

LEMMA GQCommitTokenTyped ==
  ASSUME NEW u \in Users, NEW i \in HonestIssuers
  PROVE  /\ [iss |-> i, sub |-> u, aud |-> PfxAud, audList |-> FALSE,
            nonce |-> None] \in Tokens
         /\ Cic(u) \in Cics /\ Hash(Cic(u)) \in Commitments
BY ConstantsAssumption DEF Tokens, HonestIssuers, Subjects, Cics, Commitments

LEMMA RPTokenTyped ==
  ASSUME NEW u \in Users, NEW i \in HonestIssuers, NEW f \in AudForms,
         NEW n \in RpNonces
  PROVE  [iss |-> i, sub |-> u, aud |-> RP, audList |-> f = "list",
          nonce |-> n] \in Tokens
BY ConstantsAssumption DEF Tokens, HonestIssuers, Subjects

\* Every step of the parties preserves TypeOK.
LEMMA TypeOKStep == TypeOK /\ [Next]_vars => TypeOK'
<1> SUFFICES ASSUME TypeOK, [Next]_vars PROVE TypeOK'
  OBVIOUS
<1>1. ASSUME NEW u \in Users, NEW i \in HonestIssuers, NEW f \in AudForms,
             NEW g \in BOOLEAN, OidcAuth(u, i, f, g)
      PROVE  TypeOK'
  <2> DEFINE t == [iss |-> i, sub |-> u, aud |-> OPK, audList |-> f = "list",
                   nonce |-> Hash(Cic(u))]
  <2>1. t \in Tokens /\ Cic(u) \in Cics
    BY OidcTokenTyped
  <2>2. issued' = issued \cup {t} /\ leaked' \subseteq leaked \cup {t}
        /\ gqSigned' \subseteq gqSigned \cup {<<t, None>>}
        /\ cicSigned' = cicSigned \cup {<<Cic(u), t>>}
    BY <1>1 DEF OidcAuth
  <2>3. published' \subseteq PKTokens
    BY <1>1, <2>1, ConstantsAssumption DEF OidcAuth, TypeOK, PKTokens
  <2> QED
    BY <2>1, <2>2, <2>3 DEF TypeOK
<1>2. ASSUME NEW u \in Users, NEW i \in HonestIssuers, GQCommitAuth(u, i)
      PROVE  TypeOK'
  <2> DEFINE t == [iss |-> i, sub |-> u, aud |-> PfxAud, audList |-> FALSE,
                   nonce |-> None]
  <2> DEFINE h == Hash(Cic(u))
  <2>1. t \in Tokens /\ Cic(u) \in Cics /\ h \in Commitments \cup {None}
    BY GQCommitTokenTyped
  <2>2. issued' = issued \cup {t} /\ leaked' = leaked
        /\ gqSigned' = gqSigned \cup {<<t, h>>}
        /\ cicSigned' = cicSigned \cup {<<Cic(u), t>>}
    BY <1>2 DEF GQCommitAuth
  <2>3. published' = published \cup
          {[alg |-> "GQ256", tok |-> t, gqCic |-> h, cic |-> Cic(u)]}
    BY <1>2 DEF GQCommitAuth
  <2>4. [alg |-> "GQ256", tok |-> t, gqCic |-> h, cic |-> Cic(u)] \in PKTokens
    BY <2>1, ConstantsAssumption DEF PKTokens
  <2>5. published' \subseteq PKTokens
    BY <2>3, <2>4 DEF TypeOK
  <2>6. gqSigned' \subseteq issued' \X (Commitments \cup {None})
    BY <2>1, <2>2 DEF TypeOK
  <2>7. cicSigned' \subseteq Cics \X issued'
    BY <2>1, <2>2 DEF TypeOK
  <2> QED
    BY <2>1, <2>2, <2>5, <2>6, <2>7 DEF TypeOK
<1>3. ASSUME NEW u \in Users, NEW i \in HonestIssuers, NEW f \in AudForms,
             NEW n \in RpNonces, RPLogin(u, i, f, n)
      PROVE  TypeOK'
  <2> DEFINE t == [iss |-> i, sub |-> u, aud |-> RP, audList |-> f = "list",
                   nonce |-> n]
  <2>1. t \in Tokens
    BY RPTokenTyped
  <2>2. issued' = issued \cup {t} /\ leaked' = leaked \cup {t}
        /\ UNCHANGED <<gqSigned, cicSigned, published>>
    BY <1>3 DEF RPLogin
  <2> QED
    BY <2>1, <2>2 DEF TypeOK
<1>4. CASE UNCHANGED vars
  BY <1>4 DEF vars, TypeOK
<1> QED
  BY <1>1, <1>2, <1>3, <1>4 DEF Next

(* Type correctness: every reachable state gives each variable the type  *)
(* of the code's data (tokens, signatures, PK Tokens).                   *)
THEOREM TypeCorrect == Spec => []TypeOK
<1>1. Init => TypeOK
  BY ConstantsAssumption DEF Init, TypeOK, Tokens
<1>2. TypeOK /\ [Next]_vars => TypeOK'
  BY TypeOKStep
<1> QED
  BY <1>1, <1>2, PTL DEF Spec
-----------------------------------------------------------------------------
(* What honest issuers sign and honest clients GQ-sign stays as IInv     *)
(* says: this is the strengthening the proof of Sound rests on.         *)
THEOREM IInvInvariant == Spec => []IInv
<1>1. Init => IInv
  BY ConstantsAssumption DEF Init, IInv, TypeOK, HonestTokensOK, Tokens
<1>2. IInv /\ [Next]_vars => IInv'
  <2> SUFFICES ASSUME IInv, [Next]_vars PROVE IInv'
    OBVIOUS
  <2>0. TypeOK'
    BY TypeOKStep DEF IInv
  <2>1. ASSUME NEW u \in Users, NEW i \in HonestIssuers, NEW f \in AudForms,
               NEW g \in BOOLEAN, OidcAuth(u, i, f, g)
        PROVE  HonestTokensOK'
    <3> DEFINE t == [iss |-> i, sub |-> u, aud |-> OPK, audList |-> f = "list",
                     nonce |-> Hash(Cic(u))]
    <3>1. issued' = issued \cup {t} /\ leaked' \subseteq leaked \cup {t}
          /\ gqSigned' \subseteq gqSigned \cup {<<t, None>>}
      BY <2>1 DEF OidcAuth
    <3>2. t.aud # PfxAud /\ t.iss \notin EvilIssuers
      BY ConstantsAssumption DEF HonestIssuers
    <3> QED
      BY <3>1, <3>2 DEF IInv, HonestTokensOK
  <2>2. ASSUME NEW u \in Users, NEW i \in HonestIssuers, GQCommitAuth(u, i)
        PROVE  HonestTokensOK'
    <3> DEFINE t == [iss |-> i, sub |-> u, aud |-> PfxAud, audList |-> FALSE,
                     nonce |-> None]
    <3>1. issued' = issued \cup {t} /\ leaked' = leaked
          /\ gqSigned' = gqSigned \cup {<<t, Hash(Cic(u))>>}
      BY <2>2 DEF GQCommitAuth
    <3>2. t.aud # OPK
      BY ConstantsAssumption
    <3> QED
      BY <3>1, <3>2 DEF IInv, HonestTokensOK
  <2>3. ASSUME NEW u \in Users, NEW i \in HonestIssuers, NEW f \in AudForms,
               NEW n \in RpNonces, RPLogin(u, i, f, n)
        PROVE  HonestTokensOK'
    <3> DEFINE t == [iss |-> i, sub |-> u, aud |-> RP, audList |-> f = "list",
                     nonce |-> n]
    <3>1. issued' = issued \cup {t} /\ leaked' = leaked \cup {t}
          /\ gqSigned' = gqSigned
      BY <2>3 DEF RPLogin
    <3>2. t.aud # PfxAud /\ t.aud # OPK
      BY ConstantsAssumption
    <3> QED
      BY <3>1, <3>2 DEF IInv, HonestTokensOK
  <2>4. ASSUME UNCHANGED vars PROVE HonestTokensOK'
    BY <2>4 DEF vars, IInv, HonestTokensOK
  <2>5. HonestTokensOK'
    BY <2>1, <2>2, <2>3, <2>4 DEF Next
  <2> QED
    BY <2>0, <2>5 DEF IInv
<1> QED
  BY <1>1, <1>2, PTL DEF Spec
-----------------------------------------------------------------------------
\* What acceptance by VerifyProvider gives, step by step.
LEMMA AcceptSteps ==
  ASSUME NEW v, NEW p, Accepts(v, p)
  PROVE  /\ SanityOK(v)
         /\ VerifyAudience(p.tok, v.clientID) \/ v.skipClientIDCheck
         /\ VerifyOpSig(v, p) = "ok"
         /\ VerifyCommitment(v, p) = "ok"
BY DEF Accepts, VerifyProvider, VerifyCicSignature

\* A provider signature that verifies is on a token some OP issued, from
\* the verifier's issuer; under GQOnly it is a GQ signature.
LEMMA OpSigSigned ==
  ASSUME TypeOK, SecureConfigs, NEW v \in Configs, NEW p \in Candidates,
         VerifyOpSig(v, p) = "ok"
  PROVE  /\ p.tok \in issued
         /\ p.tok.iss = v.issuer
         /\ p.alg = "GQ256" => GQSigExists(p.tok, p.gqCic)
         /\ v.gqOnly => p.alg = "GQ256"
<1>1. p.tok \in Tokens /\ v \in ConfigType /\ p.alg \in Algs
  BY ConstantsAssumption DEF Candidates, TypeOK
<1>2. CASE p.alg = "GQ256"
  <2>1. VerifyGQSig(v, p) = "ok"
    BY <1>2 DEF VerifyOpSig
  <2>2. p.tok.iss = v.issuer /\ GQSigExists(p.tok, p.gqCic)
    BY <2>1 DEF VerifyGQSig
  <2>3. p.tok \in issued
    BY <2>2 DEF GQSigExists, TypeOK
  <2> QED
    BY <1>2, <2>2, <2>3
<1>3. CASE p.alg # "GQ256"
  <2>1. p.alg # NoAlg /\ ~v.gqOnly
    BY <1>3 DEF VerifyOpSig
  <2>2. OtherAlg \notin Algs /\ \A i, j \in Issuers : OpKey[i] = OpKey[j] => i = j
    BY <2>1 DEF SecureConfigs
  <2>3. p.alg = "RS256"
    BY <1>1, <1>3, <2>1, <2>2, ConstantsAssumption
  <2>4. VerifyRSASig(v, p) = "ok"
    BY <1>3, <2>1, <2>3 DEF VerifyOpSig
  <2>5. OpKey[p.tok.iss] = OpKey[v.issuer] /\ p.tok \in issued
    BY <2>4 DEF VerifyRSASig, ProviderPublicKey, RSASigExists
  <2>6. p.tok.iss \in Issuers /\ v.issuer \in Issuers
    BY <1>1 DEF Tokens, ConfigType
  <2> QED
    BY <1>3, <2>1, <2>2, <2>5, <2>6
<1> QED
  BY <1>2, <1>3

\* The CIC commitment is injective on the key.
LEMMA HashCic ==
  ASSUME NEW c \in Cics, NEW k
  PROVE  /\ Hash(c) = Hash(Cic(k)) => c.upk = k
         /\ Hash(c) # None
BY DEF Hash, Cic, Cics, None
\* In every state of IInv, under a secure deployment, Sound holds.
LEMMA IInvSound ==
  ASSUME IInv, SecureConfigs
  PROVE  Sound
<1> SUFFICES ASSUME NEW v \in Configs, NEW p \in Candidates, Accepts(v, p)
             PROVE  /\ p.tok.iss = v.issuer
                    /\ p.tok.iss \notin EvilIssuers => p.cic.upk = p.tok.sub
  BY DEF Sound, IssuerMatches, KeyOwnedBySubject
<1>1. /\ SanityOK(v)
      /\ VerifyAudience(p.tok, v.clientID) \/ v.skipClientIDCheck
      /\ VerifyOpSig(v, p) = "ok"
      /\ VerifyCommitment(v, p) = "ok"
  BY AcceptSteps
<1>2. /\ p.tok \in issued
      /\ p.tok.iss = v.issuer
      /\ p.alg = "GQ256" => GQSigExists(p.tok, p.gqCic)
      /\ v.gqOnly => p.alg = "GQ256"
  BY <1>1, OpSigSigned DEF IInv
<1>3. p.cic \in Cics /\ p.tok \in Tokens
  BY <1>2 DEF Candidates, IInv, TypeOK
<1>4. ASSUME p.tok.iss \notin EvilIssuers PROVE p.cic.upk = p.tok.sub
  <2>1. CASE v.gqCommitment
    <3>1. v.gqOnly
      BY <1>1, <2>1 DEF SanityOK
    <3>2. ~p.tok.audList /\ p.tok.aud = PfxAud /\ p.gqCic = Hash(p.cic)
      BY <1>1, <2>1 DEF VerifyCommitment, VerifyGQCommitment
    <3>3. p.tok \notin leaked
      BY <1>4, <3>2 DEF IInv, HonestTokensOK
    <3>4. <<p.tok, Hash(p.cic)>> \in gqSigned
      BY <1>2, <3>1, <3>2, <3>3 DEF GQSigExists
    <3>5. Hash(p.cic) = None \/ Hash(p.cic) = Hash(Cic(p.tok.sub))
      BY <3>4 DEF IInv, HonestTokensOK
    <3> QED
      BY <1>3, <3>5, HashCic
  <2>2. CASE ~v.gqCommitment
    <3>1. v.clientID = OPK /\ ~v.skipClientIDCheck
      BY <2>2 DEF SecureConfigs
    <3>2. p.tok.aud = OPK
      BY <1>1, <3>1 DEF VerifyAudience
    <3>3. p.tok.nonce = Hash(Cic(p.tok.sub))
      BY <1>2, <1>4, <3>2 DEF IInv, HonestTokensOK
    <3>4. p.tok.nonce = Hash(p.cic)
      BY <1>1, <2>2 DEF VerifyCommitment, VerifyClaimCommitment
    <3> QED
      BY <1>3, <3>3, <3>4, HashCic
  <2> QED
    BY <2>1, <2>2
<1> QED
  BY <1>2, <1>4

(* Soundness of VerifyProvider (spec 4.6): under a secure deployment,    *)
(* in every reachable state, no PK Token anybody can assemble from the   *)
(* signatures that exist is accepted for another issuer, or binds a key  *)
(* other than its subject's to an honest issuer's identity, for every    *)
(* set of users, issuers, keys and verifier configurations.              *)
THEOREM SoundTheorem == SecureConfigs => (Spec => []Sound)
<1> SUFFICES ASSUME SecureConfigs PROVE Spec => []Sound
  OBVIOUS
<1>1. IInv => Sound
  BY IInvSound
<1> QED
  BY <1>1, IInvInvariant, PTL
-----------------------------------------------------------------------------
\* The parties only add tokens and signatures: none is ever withdrawn.
LEMMA SignaturesGrow ==
  ASSUME [Next]_vars
  PROVE  /\ issued \subseteq issued'
         /\ gqSigned \subseteq gqSigned'
         /\ cicSigned \subseteq cicSigned'
         /\ published \subseteq published'
BY DEF Next, OidcAuth, GQCommitAuth, RPLogin, vars

\* Every step keeps what the publishing clients left behind.
LEMMA PublishedOKStep == PublishedOK /\ [Next]_vars => PublishedOK'
<1> SUFFICES ASSUME PublishedOK, [Next]_vars PROVE PublishedOK'
  OBVIOUS
<1>0. /\ issued \subseteq issued' /\ gqSigned \subseteq gqSigned'
      /\ cicSigned \subseteq cicSigned'
  BY SignaturesGrow
<1>1. ASSUME NEW p \in published PROVE PublishedOK!(p)'
  \* A PK Token published earlier: the signatures it needs are still there.
  BY <1>0 DEF PublishedOK
<1>2. ASSUME NEW u \in Users, NEW i \in HonestIssuers, NEW f \in AudForms,
             NEW g \in BOOLEAN, OidcAuth(u, i, f, g)
      PROVE  PublishedOK'
  <2> DEFINE t == [iss |-> i, sub |-> u, aud |-> OPK, audList |-> f = "list",
                   nonce |-> Hash(Cic(u))]
  <2> DEFINE q == [alg |-> IF g THEN "GQ256" ELSE "RS256", tok |-> t,
                   gqCic |-> None, cic |-> Cic(u)]
  <2>1. published' = published \cup {q}
    BY <1>2 DEF OidcAuth
  <2>2. t \in issued' /\ <<Cic(u), t>> \in cicSigned'
        /\ (g => <<t, None>> \in gqSigned')
    BY <1>2 DEF OidcAuth
  <2>3. PublishedOK!(q)'
    BY <2>2
  <2> QED
    BY <1>1, <2>1, <2>3 DEF PublishedOK
<1>3. ASSUME NEW u \in Users, NEW i \in HonestIssuers, GQCommitAuth(u, i)
      PROVE  PublishedOK'
  <2> DEFINE t == [iss |-> i, sub |-> u, aud |-> PfxAud, audList |-> FALSE,
                   nonce |-> None]
  <2> DEFINE q == [alg |-> "GQ256", tok |-> t, gqCic |-> Hash(Cic(u)),
                   cic |-> Cic(u)]
  <2>1. published' = published \cup {q}
    BY <1>3 DEF GQCommitAuth
  <2>2. t \in issued' /\ <<Cic(u), t>> \in cicSigned'
        /\ <<t, Hash(Cic(u))>> \in gqSigned'
    BY <1>3 DEF GQCommitAuth
  <2>3. PublishedOK!(q)'
    BY <2>2
  <2> QED
    BY <1>1, <2>1, <2>3 DEF PublishedOK
<1>4. CASE published' = published
  BY <1>1, <1>4 DEF PublishedOK
<1> QED
  BY <1>2, <1>3, <1>4 DEF Next, RPLogin, vars

\* A published PK Token that PublishedOK describes passes every check of
\* VerifyProvider under a configuration whose mode matches it.
LEMMA PublishedComplete ==
  ASSUME TypeOK, PublishedOK, VerifierKnowsClient
  PROVE  Completeness
<1> SUFFICES ASSUME NEW p \in published, NEW v \in Configs, ModeMatches(v, p),
                    SanityOK(v)
             PROVE  Accepts(v, p)
  BY DEF Completeness
<1>1. p \in PKTokens /\ v \in ConfigType
  BY ConstantsAssumption DEF TypeOK
<1>2. p.cic \in Cics /\ Hash(p.cic) # None
  BY <1>1, HashCic DEF PKTokens
<1>3. /\ v.issuer = p.tok.iss /\ ProviderPublicKey(v, p.tok)
      /\ p.tok \in issued /\ VerifyCicSignature(p) = "ok"
  BY DEF ModeMatches, ProviderPublicKey, PublishedOK, VerifyCicSignature,
         CicSigExists
<1>4. CASE p.gqCic = None
  <2>1. /\ p.tok.aud = OPK /\ p.tok.nonce = Hash(p.cic)
        /\ \/ p.alg = "RS256"
           \/ p.alg = "GQ256" /\ <<p.tok, None>> \in gqSigned
    BY <1>2, <1>4 DEF PublishedOK
  <2>2. ~v.gqCommitment /\ v.commitmentClaim = "nonce"
    BY <1>4 DEF ModeMatches
  <2>3. VerifyAudience(p.tok, v.clientID) \/ v.skipClientIDCheck
    BY <2>1 DEF VerifierKnowsClient, VerifyAudience
  <2>4. VerifyOpSig(v, p) = "ok"
    <3>1. CASE p.alg = "RS256"
      <4>1. ~v.gqOnly
        BY <3>1 DEF ModeMatches
      <4> QED
        BY <1>3, <3>1, <4>1 DEF VerifyOpSig, VerifyRSASig, RSASigExists, NoAlg
    <3>2. CASE p.alg = "GQ256" /\ <<p.tok, None>> \in gqSigned
      BY <1>3, <1>4, <3>2 DEF VerifyOpSig, VerifyGQSig, GQSigExists, NoAlg
    <3> QED
      BY <2>1, <3>1, <3>2
  <2>5. VerifyCommitment(v, p) = "ok"
    BY <1>2, <2>1, <2>2 DEF VerifyCommitment, VerifyClaimCommitment
  <2> QED
    BY <1>3, <2>3, <2>4, <2>5 DEF Accepts, VerifyProvider
<1>5. CASE p.gqCic # None
  <2>1. /\ p.alg = "GQ256" /\ p.tok.aud = PfxAud /\ ~p.tok.audList
        /\ p.gqCic = Hash(p.cic) /\ <<p.tok, p.gqCic>> \in gqSigned
    BY <1>5 DEF PublishedOK
  <2>2. v.gqCommitment /\ v.skipClientIDCheck
    BY <1>5 DEF ModeMatches, SanityOK
  <2>3. VerifyOpSig(v, p) = "ok"
    BY <1>3, <2>1 DEF VerifyOpSig, VerifyGQSig, GQSigExists, NoAlg
  <2>4. VerifyCommitment(v, p) = "ok"
    BY <1>2, <2>1, <2>2 DEF VerifyCommitment, VerifyGQCommitment
  <2> QED
    BY <1>3, <2>2, <2>3, <2>4 DEF Accepts, VerifyProvider
<1> QED
  BY <1>4, <1>5

(* Completeness of VerifyProvider (spec section 8): for every set of     *)
(* users, issuers and configurations, every PK Token that OidcAuth or    *)
(* GQCommitAuth published is accepted by every verifier of its issuer    *)
(* whose mode matches it and that expects the OpenPubkey client ID.      *)
THEOREM CompletenessTheorem == VerifierKnowsClient => (Spec => []Completeness)
<1> SUFFICES ASSUME VerifierKnowsClient PROVE Spec => []Completeness
  OBVIOUS
<1>1. Init => PublishedOK
  BY DEF Init, PublishedOK
<1>2. PublishedOK /\ [Next]_vars => PublishedOK'
  BY PublishedOKStep
<1>3. TypeOK /\ PublishedOK => Completeness
  BY PublishedComplete
<1> QED
  BY <1>1, <1>2, <1>3, TypeCorrect, PTL DEF Spec

=============================================================================
