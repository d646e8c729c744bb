---------------------------- MODULE GithubOpProofs ----------------------------
(***************************************************************************)
(* Proofs about GithubOp for every set of workflows and audiences: the    *)
(* inductive invariant GithubIInv, and key binding (GithubSound) of      *)
(* GithubOp.VerifyPKToken.                                               *)
(***************************************************************************)
EXTENDS GithubOp, TLAPS

\* The commitment of a subject's own CIC, and its injectivity.
LEMMA CommitmentOf ==
  ASSUME NEW k \in Subjects
  PROVE  Cic(k) \in Cics /\ Hash(Cic(k)) \in Commitments /\ Hash(Cic(k)) \in Auds
BY DEF Cics, Commitments, Auds

LEMMA CommitmentInjective ==
  ASSUME NEW k \in Subjects, NEW j \in Subjects, Hash(Cic(k)) = Hash(Cic(j))
  PROVE  k = j
BY DEF Hash, Cic

LEMMA GithubInit == Init => GithubIInv
BY DEF Init, GithubIInv, TypeOK

\* Each party's step preserves GithubIInv.
LEMMA GithubStep == GithubIInv /\ [Next]_vars => GithubIInv'
<1> SUFFICES ASSUME GithubIInv, [Next]_vars PROVE GithubIInv'
  OBVIOUS
<1>1. ASSUME NEW u \in Users, NEW g \in BOOLEAN, GithubOidcAuth(u, g)
      PROVE  GithubIInv'
  <2> DEFINE t == [sub |-> u, aud |-> Hash(Cic(u))]
  <2> DEFINE p == [alg |-> "RS256", gq |-> g, tok |-> t, cic |-> Cic(u)]
  <2>1. t \in Tokens /\ Cic(u) \in Cics /\ p \in PKTokens
    BY CommitmentOf DEF Tokens, PKTokens, Subjects
  <2>2. /\ issued' = issued \cup {t}
        /\ leaked' \subseteq leaked \cup {t}
        /\ gqSigned' \subseteq gqSigned \cup {<<t, "RS256">>}
        /\ cicSigned' = cicSigned \cup {<<Cic(u), t>>}
        /\ published' = published \cup {p}
    BY <1>1 DEF GithubOidcAuth, RequestTokens
  <2>3. TypeOK'
    BY <2>1, <2>2 DEF GithubIInv, TypeOK
  <2>4. \A x \in issued' : x.sub \in Users /\ x.aud \in Commitments =>
                             x.aud = Hash(Cic(x.sub))
    BY <2>2 DEF GithubIInv
  <2>5. \A s \in cicSigned' : s[1] = Cic(s[2].sub)
    BY <2>2 DEF GithubIInv
  <2> QED
    BY <2>3, <2>4, <2>5 DEF GithubIInv
<1>2. ASSUME NEW u \in Users, NEW aud \in OtherAuds, OtherAudToken(u, aud)
      PROVE  GithubIInv'
  <2> DEFINE t == [sub |-> u, aud |-> aud]
  <2>1. t \in Tokens /\ aud \notin Commitments
    BY GithubAssumption DEF Tokens, Subjects, Auds
  <2>2. issued' = issued \cup {t} /\ leaked' = leaked \cup {t}
        /\ UNCHANGED <<gqSigned, cicSigned, published>>
    BY <1>2 DEF OtherAudToken, RequestTokens
  <2>3. TypeOK'
    BY <2>1, <2>2 DEF GithubIInv, TypeOK
  <2>4. \A x \in issued' : x.sub \in Users /\ x.aud \in Commitments =>
                             x.aud = Hash(Cic(x.sub))
    BY <2>1, <2>2 DEF GithubIInv
  <2>5. \A s \in cicSigned' : s[1] = Cic(s[2].sub)
    BY <2>2 DEF GithubIInv
  <2> QED
    BY <2>3, <2>4, <2>5 DEF GithubIInv
<1>3. ASSUME NEW aud \in Auds, AttackerToken(aud)
      PROVE  GithubIInv'
  <2> DEFINE t == [sub |-> Attacker, aud |-> aud]
  <2>1. t \in Tokens /\ Attacker \notin Users
    BY GithubAssumption DEF Tokens, Subjects
  <2>2. issued' = issued \cup {t} /\ leaked' = leaked \cup {t}
        /\ UNCHANGED <<gqSigned, cicSigned, published>>
    BY <1>3 DEF AttackerToken, RequestTokens
  <2>3. TypeOK'
    BY <2>1, <2>2 DEF GithubIInv, TypeOK
  <2>4. \A x \in issued' : x.sub \in Users /\ x.aud \in Commitments =>
                             x.aud = Hash(Cic(x.sub))
    BY <2>1, <2>2 DEF GithubIInv
  <2>5. \A s \in cicSigned' : s[1] = Cic(s[2].sub)
    BY <2>2 DEF GithubIInv
  <2> QED
    BY <2>3, <2>4, <2>5 DEF GithubIInv
<1>4. CASE UNCHANGED vars
  BY <1>4 DEF vars, GithubIInv, TypeOK
<1> QED
  BY <1>1, <1>2, <1>3, <1>4 DEF Next

(* An accepted PK Token's ID token was issued by GitHub, carries the     *)
(* commitment to the PK Token's CIC as its aud, and has a CIC signature. *)
LEMMA AcceptedFacts ==
  ASSUME GithubIInv, NEW p \in Candidates, VerifyPKToken(p) = "ok"
  PROVE  /\ p.tok \in issued
         /\ p.tok.aud = Hash(p.cic)
         /\ CicSigExists(p.cic, p.tok)
<1>1. p.gq => p.tok \in issued /\ p.tok.aud = Hash(p.cic)
  BY DEF VerifyPKToken, GQSigExists, GithubIInv, TypeOK
<1>2. ~p.gq => p.tok \in issued /\ p.tok.aud = Hash(p.cic)
  BY DEF VerifyPKToken, RSASigExists
<1>3. CicSigExists(p.cic, p.tok)
  BY DEF VerifyPKToken
<1> QED
  BY <1>1, <1>2, <1>3

\* Key binding follows from GithubIInv.
LEMMA GithubIInvSound == GithubIInv => GithubSound
<1> SUFFICES ASSUME GithubIInv, NEW p \in Candidates, VerifyPKToken(p) = "ok"
             PROVE  p.cic.upk = p.tok.sub
  BY DEF GithubSound
<1>1. p.tok \in issued /\ p.tok.aud = Hash(p.cic) /\ CicSigExists(p.cic, p.tok)
  BY AcceptedFacts
<1>2. p.tok.sub \in Subjects /\ p.cic \in Cics
  BY DEF Candidates, PKTokens, Tokens
<1>3. CASE <<p.cic, p.tok>> \in cicSigned
  <2>1. p.cic = Cic(p.tok.sub)
    BY <1>3 DEF GithubIInv
  <2> QED
    BY <2>1 DEF Cic
<1>4. CASE p.cic.upk = Attacker
  <2>1. p.cic = Cic(Attacker) /\ p.tok.aud = Hash(Cic(Attacker))
    BY <1>1, <1>2, <1>4 DEF Cics, Cic
  <2>2. p.tok.sub \notin Users
    <3> SUFFICES ASSUME p.tok.sub \in Users PROVE FALSE
      OBVIOUS
    <3>1. Attacker \in Subjects /\ Hash(Cic(Attacker)) \in Commitments
      BY CommitmentOf DEF Subjects
    <3>2. Hash(Cic(Attacker)) = Hash(Cic(p.tok.sub))
      BY <1>1, <2>1, <3>1 DEF GithubIInv
    <3> QED
      BY <1>2, <3>2, CommitmentInjective, GithubAssumption DEF Subjects
  <2> QED
    BY <1>2, <1>4, <2>2 DEF Subjects
<1> QED
  BY <1>1, <1>3, <1>4 DEF CicSigExists

(* GithubIInv holds in every reachable state.                           *)
THEOREM GithubIInvInvariant == Spec => []GithubIInv
BY GithubInit, GithubStep, PTL DEF Spec

(* GithubOp.VerifyPKToken never accepts a PK Token that binds a key to  *)
(* a workflow identity other than its owner's, for any set of workflows *)
(* and other-service audiences.                                         *)
THEOREM GithubSoundTheorem == Spec => []GithubSound
BY GithubIInvInvariant, GithubIInvSound, PTL
=============================================================================
