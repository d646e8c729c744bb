---------------------------- MODULE CosignerProofs ----------------------------
(***************************************************************************)
(* Proofs about Cosigner for every set of users, goroutines and authcodes *)
(* and every bound on the authID counter: the inductive invariant        *)
(* CosignerIInv, and from it type correctness and the refinement of      *)
(* CosignerAbstract.                                                      *)
(***************************************************************************)
EXTENDS Cosigner, TLAPS

LEMMA NoLocalsType == NoLocals \in Locals
BY DEF NoLocals, Locals

LEMMA CosignerInit == Init => CosignerIInv
<1> SUFFICES ASSUME Init PROVE CosignerIInv
  OBVIOUS
<1>1. TypeOK
  <2>1. authIdIter \in 0..MaxAuthID /\ DOMAIN authStateMap \subseteq 1..authIdIter
        /\ authStateMap \in [DOMAIN authStateMap -> Owners]
    BY CosignerAssumption DEF Init
  <2>2. DOMAIN authCodeMap \subseteq codesUsed
        /\ authCodeMap \in [DOMAIN authCodeMap -> AuthIDs]
    BY DEF Init
  <2>3. writer \in [Maps -> Procs \cup {NoProc}]
    BY DEF Init
  <2>4. pc \in [Procs -> PCs]
    BY DEF Init, PCs
  <2>5. loc \in [Procs -> Locals]
    BY NoLocalsType DEF Init
  <2>6. crashed \in BOOLEAN /\ codesUsed \subseteq Codes
        /\ sent \subseteq [code : Codes, signer : Owners]
    BY DEF Init
  <2> QED
    BY <2>1, <2>2, <2>3, <2>4, <2>5, <2>6 DEF TypeOK
<1> QED
  BY <1>1 DEF Init, CosignerIInv, PendingSessionsFresh, PendingCodesFresh,
              RedeemConsistent, CosignedToOwner, InitPCs, CodePCs, RedeemPCs

\* A Crash step changes only crashed.
LEMMA CrashStep == CosignerIInv /\ Crash => CosignerIInv'
BY DEF Crash, CosignerIInv, TypeOK, PendingSessionsFresh, PendingCodesFresh,
       RedeemConsistent, CosignedToOwner

\* InitAuth takes the next authID, which no map or goroutine holds yet.
LEMMA InitAuthStep ==
  ASSUME CosignerIInv, NEW p \in Procs, NEW u \in Owners, InitAuth(p, u)
  PROVE  CosignerIInv'
<1> USE CosignerAssumption
<1>1. /\ authIdIter \in 0..(MaxAuthID - 1) /\ authIdIter' = authIdIter + 1
      /\ pc[p] = "idle"
      /\ pc' = [pc EXCEPT ![p] = "initWrite"]
      /\ loc' = [loc EXCEPT ![p] = [NoLocals EXCEPT !.pkt = u, !.id = authIdIter + 1]]
      /\ UNCHANGED <<authStateMap, authCodeMap, writer, crashed, sent,
                     codesUsed, cosigs>>
  BY DEF InitAuth, Goto, CosignerIInv, TypeOK
<1>2. TypeOK'
  <2>1. authIdIter' \in 0..MaxAuthID /\ DOMAIN authStateMap' \subseteq 1..authIdIter'
    BY <1>1 DEF CosignerIInv, TypeOK
  <2>2. [NoLocals EXCEPT !.pkt = u, !.id = authIdIter + 1] \in Locals
    <3>1. authIdIter + 1 \in AuthIDs /\ u \in Owners \cup {NoProc}
      BY <1>1 DEF AuthIDs
    <3> QED
      BY <3>1 DEF NoLocals, Locals
  <2>3. pc' \in [Procs -> PCs] /\ loc' \in [Procs -> Locals]
    BY <1>1, <2>2 DEF CosignerIInv, TypeOK, PCs
  <2> QED
    BY <1>1, <2>1, <2>3 DEF CosignerIInv, TypeOK
<1>3. PendingSessionsFresh'
  BY <1>1 DEF CosignerIInv, TypeOK, PendingSessionsFresh, InitPCs, NoLocals
<1>4. PendingCodesFresh'
  BY <1>1 DEF CosignerIInv, PendingCodesFresh, CodePCs
<1>5. RedeemConsistent'
  BY <1>1 DEF CosignerIInv, RedeemConsistent, RedeemPCs
<1> QED
  BY <1>1, <1>2, <1>3, <1>4, <1>5 DEF CosignerIInv, CosignedToOwner

\* The first step of a write changes only writer and p's program counter.
LEMMA WriteBeginStep ==
  ASSUME CosignerIInv, NEW p \in Procs, NEW m \in Maps, NEW l \in PCs,
         NEW l2 \in PCs, WriteBegin(p, m, l, l2),
         l \in InitPCs <=> l2 \in InitPCs, l \in CodePCs <=> l2 \in CodePCs,
         l \notin RedeemPCs, l2 \notin RedeemPCs
  PROVE  CosignerIInv'
<1>1. CASE Touch(p, m)
  BY <1>1, CrashStep DEF WriteBegin
<1>2. CASE ~Touch(p, m)
  <2>1. /\ pc[p] = l
        /\ writer' = [writer EXCEPT ![m] = p]
        /\ pc' = [pc EXCEPT ![p] = l2] /\ loc' = [loc EXCEPT ![p] = loc[p]]
        /\ UNCHANGED <<authIdIter, authStateMap, authCodeMap, crashed, sent,
                       codesUsed, cosigs>>
    BY <1>2 DEF WriteBegin, Goto
  <2>2. loc' = loc
    BY <2>1 DEF CosignerIInv, TypeOK
  <2>3. TypeOK'
    BY <2>1, <2>2 DEF CosignerIInv, TypeOK
  <2>4. PendingSessionsFresh'
    BY <2>1, <2>2 DEF CosignerIInv, TypeOK, PendingSessionsFresh
  <2>5. PendingCodesFresh'
    BY <2>1, <2>2 DEF CosignerIInv, TypeOK, PendingCodesFresh
  <2>6. RedeemConsistent'
    BY <2>1, <2>2 DEF CosignerIInv, TypeOK, RedeemConsistent
  <2> QED
    BY <2>1, <2>3, <2>4, <2>5, <2>6 DEF CosignerIInv, CosignedToOwner
<1> QED
  BY <1>1, <1>2

\* The end of the AuthStateMap write stores the pending session under its
\* fresh authID.
LEMMA InitWriteEndStep ==
  ASSUME CosignerIInv, NEW p \in Procs, InitWriteEnd(p)
  PROVE  CosignerIInv'
<1> DEFINE id == loc[p].id
<1>1. /\ pc[p] = "initWriteEnd"
      /\ authStateMap' = MapPut(authStateMap, id, loc[p].pkt)
      /\ writer' = [writer EXCEPT !["AuthStateMap"] = NoProc]
      /\ pc' = [pc EXCEPT ![p] = "idle"] /\ loc' = [loc EXCEPT ![p] = NoLocals]
      /\ UNCHANGED <<authIdIter, authCodeMap, crashed, sent, codesUsed, cosigs>>
  BY DEF InitWriteEnd, Goto
<1>2. id \in 1..authIdIter /\ id \notin DOMAIN authStateMap /\ loc[p].pkt \in Owners
      /\ \A q \in Procs \ {p} : pc[q] \in InitPCs => loc[q].id # id
  BY <1>1 DEF CosignerIInv, PendingSessionsFresh, InitPCs
<1>3. /\ DOMAIN authStateMap' = DOMAIN authStateMap \cup {id}
      /\ authStateMap'[id] = loc[p].pkt
      /\ \A x \in DOMAIN authStateMap : authStateMap'[x] = authStateMap[x]
  BY <1>1, <1>2 DEF MapPut
<1>4. TypeOK'
  <2>1. DOMAIN authStateMap' \subseteq 1..authIdIter'
    BY <1>1, <1>2, <1>3 DEF CosignerIInv, TypeOK
  <2>2a. authStateMap' \in [DOMAIN authStateMap \cup {id} -> Owners]
    BY <1>1, <1>2 DEF MapPut, CosignerIInv, TypeOK
  <2>2b. authStateMap' \in [DOMAIN authStateMap' -> Owners]
    BY <2>2a, <1>3
  <2>2. writer' \in [Maps -> Procs \cup {NoProc}]
    BY <1>1 DEF CosignerIInv, TypeOK
  <2>3. pc' \in [Procs -> PCs] /\ loc' \in [Procs -> Locals]
    BY <1>1, NoLocalsType DEF CosignerIInv, TypeOK, PCs
  <2> QED
    BY <1>1, <2>1, <2>2b, <2>2, <2>3 DEF CosignerIInv, TypeOK
<1>5. PendingSessionsFresh'
  BY <1>1, <1>2, <1>3 DEF CosignerIInv, TypeOK, PendingSessionsFresh, InitPCs
<1>6. PendingCodesFresh'
  BY <1>1, <1>3 DEF CosignerIInv, TypeOK, PendingCodesFresh, CodePCs
<1>7. RedeemConsistent'
  <2>1. \A q \in Procs : pc'[q] \in RedeemPCs => q # p /\ pc[q] \in RedeemPCs
                                                   /\ loc'[q] = loc[q]
    BY <1>1 DEF CosignerIInv, TypeOK, RedeemPCs
  <2>2. \A q \in Procs : pc[q] \in RedeemPCs => loc[q].id \in DOMAIN authStateMap
    BY DEF CosignerIInv, RedeemConsistent, PendingCodesFresh
  <2> QED
    BY <1>1, <1>3, <2>1, <2>2 DEF CosignerIInv, RedeemConsistent
<1> QED
  BY <1>1, <1>4, <1>5, <1>6, <1>7 DEF CosignerIInv, CosignedToOwner

\* A step that changes no variable.
LEMMA StutterStep == CosignerIInv /\ UNCHANGED vars => CosignerIInv'
BY DEF vars, CosignerIInv, TypeOK, PendingSessionsFresh, PendingCodesFresh,
       RedeemConsistent, CosignedToOwner

\* NewAuthcode draws an authcode never handed out, so no map entry and no
\* other goroutine has it.
LEMMA NewAuthcodeStep ==
  ASSUME CosignerIInv, NEW p \in Procs, NEW id \in AuthIDs, NEW c \in Codes,
         NewAuthcode(p, id, c)
  PROVE  CosignerIInv'
<1>1. /\ pc[p] = "idle" /\ id \in DOMAIN authStateMap /\ c \notin codesUsed
      /\ codesUsed' = codesUsed \cup {c}
      /\ pc' = [pc EXCEPT ![p] = "codeWrite"]
      /\ loc' = [loc EXCEPT ![p] = [NoLocals EXCEPT !.id = id, !.code = c]]
      /\ UNCHANGED <<authIdIter, authStateMap, authCodeMap, writer, crashed,
                     sent, cosigs>>
  BY DEF NewAuthcode, Goto
<1>2. /\ loc'[p].id = id /\ loc'[p].code = c /\ pc'[p] = "codeWrite"
      /\ \A q \in Procs \ {p} : pc'[q] = pc[q] /\ loc'[q] = loc[q]
  BY <1>1 DEF CosignerIInv, TypeOK, NoLocals
<1>3. TypeOK'
  <2>1. [NoLocals EXCEPT !.id = id, !.code = c] \in Locals
    <3>1. id \in AuthIDs \cup {0} /\ c \in Codes \cup {NoProc}
      OBVIOUS
    <3> QED
      BY <3>1 DEF NoLocals, Locals
  <2>2. pc' \in [Procs -> PCs] /\ loc' \in [Procs -> Locals]
    BY <1>1, <2>1 DEF CosignerIInv, TypeOK, PCs
  <2>3. codesUsed' \subseteq Codes /\ DOMAIN authCodeMap' \subseteq codesUsed'
    BY <1>1 DEF CosignerIInv, TypeOK
  <2> QED
    BY <1>1, <2>2, <2>3 DEF CosignerIInv, TypeOK
<1>4. PendingSessionsFresh'
  BY <1>1, <1>2 DEF CosignerIInv, PendingSessionsFresh, InitPCs
<1>5. PendingCodesFresh'
  <2>1. \A q \in Procs : pc[q] \in CodePCs => loc[q].code # c
    BY <1>1 DEF CosignerIInv, PendingCodesFresh
  <2>2. c \notin DOMAIN authCodeMap
    BY <1>1 DEF CosignerIInv, TypeOK
  <2> QED
    BY <1>1, <1>2, <2>1, <2>2 DEF CosignerIInv, PendingCodesFresh, CodePCs
<1>6. RedeemConsistent'
  BY <1>1, <1>2 DEF CosignerIInv, RedeemConsistent, RedeemPCs
<1> QED
  BY <1>1, <1>3, <1>4, <1>5, <1>6 DEF CosignerIInv, CosignedToOwner

\* The end of the AuthCodeMap write approves the pending authcode, which
\* no other goroutine stores and no redeem in progress holds.
LEMMA CodeWriteEndStep ==
  ASSUME CosignerIInv, NEW p \in Procs, CodeWriteEnd(p)
  PROVE  CosignerIInv'
<1> DEFINE c == loc[p].code
           id == loc[p].id
<1>1. /\ pc[p] = "codeWriteEnd"
      /\ authCodeMap' = MapPut(authCodeMap, c, id)
      /\ writer' = [writer EXCEPT !["AuthCodeMap"] = NoProc]
      /\ sent' = sent \cup {[code |-> c, signer |-> authStateMap[id]]}
      /\ pc' = [pc EXCEPT ![p] = "idle"] /\ loc' = [loc EXCEPT ![p] = NoLocals]
      /\ UNCHANGED <<authIdIter, authStateMap, crashed, codesUsed, cosigs>>
  BY DEF CodeWriteEnd, Goto
<1>2. /\ c \in codesUsed /\ c \notin DOMAIN authCodeMap
      /\ id \in DOMAIN authStateMap
      /\ \A q \in Procs \ {p} : pc[q] \in CodePCs => loc[q].code # c
  BY <1>1 DEF CosignerIInv, PendingCodesFresh, CodePCs
<1>3. /\ DOMAIN authCodeMap' = DOMAIN authCodeMap \cup {c}
      /\ authCodeMap'[c] = id
      /\ \A x \in DOMAIN authCodeMap : authCodeMap'[x] = authCodeMap[x]
  BY <1>1, <1>2 DEF MapPut
<1>4. \A q \in Procs \ {p} : pc'[q] = pc[q] /\ loc'[q] = loc[q]
  BY <1>1 DEF CosignerIInv, TypeOK
<1>5. pc'[p] = "idle"
  BY <1>1 DEF CosignerIInv, TypeOK
<1>6. TypeOK'
  <2>1. id \in AuthIDs /\ c \in Codes /\ authStateMap[id] \in Owners
    <3>1. id \in 1..authIdIter /\ authIdIter \in 0..MaxAuthID
      BY <1>2 DEF CosignerIInv, TypeOK
    <3>2. id \in AuthIDs
      BY <3>1, CosignerAssumption DEF AuthIDs
    <3>3. c \in Codes
      BY <1>2 DEF CosignerIInv, TypeOK
    <3>4. authStateMap[id] \in Owners
      BY <1>2 DEF CosignerIInv, TypeOK
    <3> QED
      BY <3>2, <3>3, <3>4
  <2>2. authCodeMap' \in [DOMAIN authCodeMap \cup {c} -> AuthIDs]
    BY <1>1, <2>1 DEF MapPut, CosignerIInv, TypeOK
  <2>3. DOMAIN authCodeMap' \subseteq codesUsed'
        /\ authCodeMap' \in [DOMAIN authCodeMap' -> AuthIDs]
    BY <1>1, <1>2, <1>3, <2>2 DEF CosignerIInv, TypeOK
  <2>4. sent' \subseteq [code : Codes, signer : Owners]
    BY <1>1, <2>1 DEF CosignerIInv, TypeOK
  <2>5. writer' \in [Maps -> Procs \cup {NoProc}]
    BY <1>1 DEF CosignerIInv, TypeOK
  <2>6. pc' \in [Procs -> PCs] /\ loc' \in [Procs -> Locals]
    BY <1>1, NoLocalsType DEF CosignerIInv, TypeOK, PCs
  <2> QED
    BY <1>1, <2>3, <2>4, <2>5, <2>6 DEF CosignerIInv, TypeOK
<1>7. PendingSessionsFresh'
  BY <1>1, <1>4, <1>5 DEF CosignerIInv, PendingSessionsFresh, InitPCs
<1>8. PendingCodesFresh'
  BY <1>1, <1>2, <1>3, <1>4, <1>5 DEF CosignerIInv, PendingCodesFresh, CodePCs
<1>9. RedeemConsistent'
  BY <1>1, <1>3, <1>4, <1>5 DEF CosignerIInv, RedeemConsistent, RedeemPCs
<1> QED
  BY <1>1, <1>6, <1>7, <1>8, <1>9 DEF CosignerIInv, CosignedToOwner

\* A redeem request carries an authcode and a signer that is an owner.
LEMMA RedeemableType ==
  ASSUME CosignerIInv, NEW m \in Redeemable
  PROVE  m.code \in Codes /\ m.signer \in Owners
BY DEF Redeemable, CosignerIInv, TypeOK, Owners

\* RedeemAuthcode reads the authID a stored authcode names.
LEMMA RedeemAuthcodeStep ==
  ASSUME CosignerIInv, NEW p \in Procs, NEW m \in Redeemable,
         RedeemAuthcode(p, m)
  PROVE  CosignerIInv'
<1>1. CASE Touch(p, "AuthCodeMap")
  BY <1>1, CrashStep DEF RedeemAuthcode
<1>2. CASE ~Touch(p, "AuthCodeMap") /\ m.code \notin DOMAIN authCodeMap
  BY <1>2, StutterStep DEF RedeemAuthcode, vars
<1>3. CASE ~Touch(p, "AuthCodeMap") /\ m.code \in DOMAIN authCodeMap
  <2> DEFINE l == [NoLocals EXCEPT !.id = authCodeMap[m.code], !.code = m.code,
                                   !.signer = m.signer]
  <2>1. /\ pc[p] = "idle"
        /\ pc' = [pc EXCEPT ![p] = "redeemState"] /\ loc' = [loc EXCEPT ![p] = l]
        /\ UNCHANGED <<authIdIter, authStateMap, authCodeMap, writer, crashed,
                       sent, codesUsed, cosigs>>
    BY <1>3 DEF RedeemAuthcode, Goto
  <2>2. /\ l.id = authCodeMap[m.code] /\ l.code = m.code
        /\ pc'[p] = "redeemState" /\ loc'[p] = l
        /\ \A q \in Procs \ {p} : pc'[q] = pc[q] /\ loc'[q] = loc[q]
    BY <2>1 DEF CosignerIInv, TypeOK, NoLocals
  <2>3. TypeOK'
    <3>1. authCodeMap[m.code] \in AuthIDs \cup {0}
          /\ m.code \in Codes \cup {NoProc} /\ m.signer \in Owners \cup {NoProc}
      BY <1>3, RedeemableType DEF CosignerIInv, TypeOK
    <3>2. l \in Locals
      BY <3>1 DEF NoLocals, Locals
    <3>3. pc' \in [Procs -> PCs] /\ loc' \in [Procs -> Locals]
      BY <2>1, <3>2 DEF CosignerIInv, TypeOK, PCs
    <3> QED
      BY <2>1, <3>3 DEF CosignerIInv, TypeOK
  <2>4. PendingSessionsFresh'
    BY <2>1, <2>2 DEF CosignerIInv, PendingSessionsFresh, InitPCs
  <2>5. PendingCodesFresh'
    BY <2>1, <2>2 DEF CosignerIInv, PendingCodesFresh, CodePCs
  <2>6. RedeemConsistent'
    <3> SUFFICES ASSUME NEW q \in Procs, pc'[q] \in RedeemPCs
                 PROVE  /\ loc'[q].code \in DOMAIN authCodeMap'
                        /\ loc'[q].id = authCodeMap'[loc'[q].code]
                        /\ pc'[q] = "issue" =>
                             /\ loc'[q].pkt = authStateMap'[loc'[q].id]
                             /\ loc'[q].signer = loc'[q].pkt
      BY DEF RedeemConsistent
    <3>1. CASE q = p
      BY <1>3, <2>1, <2>2, <3>1
    <3>2. CASE q # p
      BY <2>1, <2>2, <3>2 DEF CosignerIInv, RedeemConsistent
    <3> QED
      BY <3>1, <3>2
  <2> QED
    BY <2>1, <2>3, <2>4, <2>5, <2>6 DEF CosignerIInv, CosignedToOwner
<1> QED
  BY <1>1, <1>2, <1>3

\* RedeemState checks the signer against the session's PK Token and
\* keeps that PK Token.
LEMMA RedeemStateStep ==
  ASSUME CosignerIInv, NEW p \in Procs, RedeemState(p)
  PROVE  CosignerIInv'
<1> DEFINE id == loc[p].id
<1>1. CASE Touch(p, "AuthStateMap")
  BY <1>1, CrashStep DEF RedeemState
<1>2. CASE ~Touch(p, "AuthStateMap")
  <2>1. /\ pc[p] = "redeemState"
        /\ UNCHANGED <<authIdIter, authStateMap, authCodeMap, writer, crashed,
                       sent, codesUsed, cosigs>>
    BY <1>2 DEF RedeemState
  <2>2. id \in DOMAIN authStateMap /\ authStateMap[id] \in Owners
        /\ loc[p].code \in DOMAIN authCodeMap /\ id = authCodeMap[loc[p].code]
    BY <2>1 DEF CosignerIInv, TypeOK, RedeemConsistent, PendingCodesFresh,
                RedeemPCs
  <2>3. \A q \in Procs \ {p} : pc'[q] = pc[q] /\ loc'[q] = loc[q]
    BY <1>2 DEF RedeemState, Goto, CosignerIInv, TypeOK
  <2>4. CASE loc[p].signer = authStateMap[id]
    <3> DEFINE l == [loc[p] EXCEPT !.pkt = authStateMap[id]]
    <3>1. pc' = [pc EXCEPT ![p] = "issue"] /\ loc' = [loc EXCEPT ![p] = l]
      BY <1>2, <2>4 DEF RedeemState, Goto
    <3>2. /\ pc'[p] = "issue" /\ loc'[p] = l
          /\ l.id = id /\ l.code = loc[p].code /\ l.pkt = authStateMap[id]
          /\ l.signer = loc[p].signer
      BY <3>1 DEF CosignerIInv, TypeOK, Locals
    <3>3. TypeOK'
      <4>1. l \in Locals
        BY <2>2 DEF CosignerIInv, TypeOK, Locals
      <4>2. pc' \in [Procs -> PCs] /\ loc' \in [Procs -> Locals]
        BY <3>1, <4>1 DEF CosignerIInv, TypeOK, PCs
      <4> QED
        BY <2>1, <4>2 DEF CosignerIInv, TypeOK
    <3>4. PendingSessionsFresh'
      BY <2>1, <2>3, <3>2 DEF CosignerIInv, PendingSessionsFresh, InitPCs
    <3>5. PendingCodesFresh'
      BY <2>1, <2>3, <3>2 DEF CosignerIInv, PendingCodesFresh, CodePCs
    <3>6. RedeemConsistent'
      <4> SUFFICES ASSUME NEW q \in Procs, pc'[q] \in RedeemPCs
                   PROVE  /\ loc'[q].code \in DOMAIN authCodeMap'
                          /\ loc'[q].id = authCodeMap'[loc'[q].code]
                          /\ pc'[q] = "issue" =>
                               /\ loc'[q].pkt = authStateMap'[loc'[q].id]
                               /\ loc'[q].signer = loc'[q].pkt
        BY DEF RedeemConsistent
      <4>1. CASE q = p
        BY <2>1, <2>2, <2>4, <3>2, <4>1
      <4>2. CASE q # p
        BY <2>1, <2>3, <4>2 DEF CosignerIInv, RedeemConsistent
      <4> QED
        BY <4>1, <4>2
    <3> QED
      BY <2>1, <3>3, <3>4, <3>5, <3>6 DEF CosignerIInv, CosignedToOwner
  <2>5. CASE loc[p].signer # authStateMap[id]
    <3>1. pc' = [pc EXCEPT ![p] = "idle"] /\ loc' = [loc EXCEPT ![p] = NoLocals]
      BY <1>2, <2>5 DEF RedeemState, Goto
    <3>2. pc'[p] = "idle"
      BY <3>1 DEF CosignerIInv, TypeOK
    <3>3. TypeOK'
      BY <2>1, <3>1, NoLocalsType DEF CosignerIInv, TypeOK, PCs
    <3> QED
      BY <2>1, <2>3, <3>2, <3>3 DEF CosignerIInv, PendingSessionsFresh,
         PendingCodesFresh, RedeemConsistent, CosignedToOwner, InitPCs, CodePCs,
         RedeemPCs
  <2> QED
    BY <2>4, <2>5
<1> QED
  BY <1>1, <1>2

\* IssueSignature cosigns the session's PK Token for the signer, who is its
\* owner.
LEMMA IssueSignatureStep ==
  ASSUME CosignerIInv, NEW p \in Procs, IssueSignature(p)
  PROVE  CosignerIInv'
<1>1. CASE Touch(p, "AuthStateMap")
  BY <1>1, CrashStep DEF IssueSignature
<1>2. CASE ~Touch(p, "AuthStateMap")
  <2> DEFINE r == [code |-> loc[p].code, pkt |-> loc[p].pkt, to |-> loc[p].signer,
                   n |-> Cardinality({x \in cosigs : x.code = loc[p].code}) + 1]
  <2>1. /\ pc[p] = "issue"
        /\ cosigs' = cosigs \cup {r}
        /\ pc' = [pc EXCEPT ![p] = "idle"] /\ loc' = [loc EXCEPT ![p] = NoLocals]
        /\ UNCHANGED <<authIdIter, authStateMap, authCodeMap, writer, crashed,
                       sent, codesUsed>>
    BY <1>2 DEF IssueSignature, Goto
  <2>2. loc[p].signer = loc[p].pkt
    BY <2>1 DEF CosignerIInv, RedeemConsistent, RedeemPCs
  <2>3. CosignedToOwner'
    BY <2>1, <2>2 DEF CosignerIInv, CosignedToOwner
  <2>4. pc'[p] = "idle" /\ \A q \in Procs \ {p} : pc'[q] = pc[q] /\ loc'[q] = loc[q]
    BY <2>1 DEF CosignerIInv, TypeOK
  <2>5. TypeOK'
    BY <2>1, NoLocalsType DEF CosignerIInv, TypeOK, PCs
  <2> QED
    BY <2>1, <2>3, <2>4, <2>5 DEF CosignerIInv, PendingSessionsFresh,
       PendingCodesFresh, RedeemConsistent, InitPCs, CodePCs, RedeemPCs
<1> QED
  BY <1>1, <1>2

\* Every step of a handler goroutine preserves CosignerIInv.
LEMMA CosignerStep == CosignerIInv /\ [Next]_vars => CosignerIInv'
<1> SUFFICES ASSUME CosignerIInv, [Next]_vars PROVE CosignerIInv'
  OBVIOUS
<1>1. CASE UNCHANGED vars
  BY <1>1, StutterStep
<1>2. CASE Next
  <2> PICK p \in Procs :
        \/ \E u \in Owners : InitAuth(p, u)
        \/ WriteBegin(p, "AuthStateMap", "initWrite", "initWriteEnd")
        \/ InitWriteEnd(p)
        \/ \E id \in AuthIDs, c \in Codes : NewAuthcode(p, id, c)
        \/ WriteBegin(p, "AuthCodeMap", "codeWrite", "codeWriteEnd")
        \/ CodeWriteEnd(p)
        \/ \E m \in Redeemable : RedeemAuthcode(p, m)
        \/ RedeemState(p)
        \/ IssueSignature(p)
    BY <1>2 DEF Next
  <2>1. CASE \E u \in Owners : InitAuth(p, u)
    BY <2>1, InitAuthStep
  <2>2. CASE WriteBegin(p, "AuthStateMap", "initWrite", "initWriteEnd")
    BY <2>2, WriteBeginStep DEF Maps, PCs, InitPCs, CodePCs, RedeemPCs
  <2>3. CASE InitWriteEnd(p)
    BY <2>3, InitWriteEndStep
  <2>4. CASE \E id \in AuthIDs, c \in Codes : NewAuthcode(p, id, c)
    BY <2>4, NewAuthcodeStep
  <2>5. CASE WriteBegin(p, "AuthCodeMap", "codeWrite", "codeWriteEnd")
    BY <2>5, WriteBeginStep DEF Maps, PCs, InitPCs, CodePCs, RedeemPCs
  <2>6. CASE CodeWriteEnd(p)
    BY <2>6, CodeWriteEndStep
  <2>7. CASE \E m \in Redeemable : RedeemAuthcode(p, m)
    BY <2>7, RedeemAuthcodeStep
  <2>8. CASE RedeemState(p)
    BY <2>8, RedeemStateStep
  <2>9. CASE IssueSignature(p)
    BY <2>9, IssueSignatureStep
  <2> QED
    BY <2>1, <2>2, <2>3, <2>4, <2>5, <2>6, <2>7, <2>8, <2>9
<1> QED
  BY <1>1, <1>2

(* CosignerIInv holds in every reachable state, for any number of        *)
(* goroutines, owners and authcodes and any bound on the authID counter. *)
THEOREM CosignerIInvariant == Spec => []CosignerIInv
BY CosignerInit, CosignerStep, PTL DEF Spec

(* Type correctness of the cosigner, for any number of goroutines: the   *)
(* authID counter stays within its bound, every stored session's authID  *)
(* was handed out by it, and every stored authcode was once generated.   *)
THEOREM CosignerTypeCorrect == Spec => []TypeOK
<1>1. CosignerIInv => TypeOK
  BY DEF CosignerIInv
<1> QED
  BY <1>1, CosignerIInvariant, PTL

-----------------------------------------------------------------------------
(***************************************************************************)
(* The steps that change the maps or the cosignatures: the ends of the    *)
(* two map writes and an IssueSignature that is not killed.  Every other  *)
(* step leaves AuthStateMap, AuthCodeMap and the cosignatures alone.      *)
(***************************************************************************)
MapsUnchanged == UNCHANGED <<authStateMap, authCodeMap, cosigs>>

LEMMA VisibleSteps ==
  ASSUME [Next]_vars
  PROVE  \/ MapsUnchanged
         \/ \E p \in Procs : InitWriteEnd(p)
         \/ \E p \in Procs : CodeWriteEnd(p)
         \/ \E p \in Procs : IssueSignature(p) /\ ~Touch(p, "AuthStateMap")
<1>1. CASE UNCHANGED vars
  BY <1>1 DEF vars, MapsUnchanged
<1>2. CASE Next
  <2> PICK p \in Procs :
        \/ \E u \in Owners : InitAuth(p, u)
        \/ WriteBegin(p, "AuthStateMap", "initWrite", "initWriteEnd")
        \/ InitWriteEnd(p)
        \/ \E id \in AuthIDs, c \in Codes : NewAuthcode(p, id, c)
        \/ WriteBegin(p, "AuthCodeMap", "codeWrite", "codeWriteEnd")
        \/ CodeWriteEnd(p)
        \/ \E m \in Redeemable : RedeemAuthcode(p, m)
        \/ RedeemState(p)
        \/ IssueSignature(p)
    BY <1>2 DEF Next
  <2>1. CASE \E u \in Owners : InitAuth(p, u)
    BY <2>1 DEF InitAuth, MapsUnchanged
  <2>2. CASE \/ WriteBegin(p, "AuthStateMap", "initWrite", "initWriteEnd")
             \/ WriteBegin(p, "AuthCodeMap", "codeWrite", "codeWriteEnd")
    BY <2>2 DEF WriteBegin, Crash, MapsUnchanged
  <2>3. CASE \E id \in AuthIDs, c \in Codes : NewAuthcode(p, id, c)
    BY <2>3 DEF NewAuthcode, MapsUnchanged
  <2>4. CASE \E m \in Redeemable : RedeemAuthcode(p, m)
    BY <2>4 DEF RedeemAuthcode, Crash, MapsUnchanged
  <2>5. CASE RedeemState(p)
    BY <2>5 DEF RedeemState, Crash, MapsUnchanged
  <2>6. CASE IssueSignature(p) /\ Touch(p, "AuthStateMap")
    BY <2>6 DEF IssueSignature, Crash, MapsUnchanged
  <2> QED
    BY <2>1, <2>2, <2>3, <2>4, <2>5, <2>6
<1> QED
  BY <1>1, <1>2

-----------------------------------------------------------------------------
(***************************************************************************)
(* Refinement of CosignerAbstract.                                         *)
(***************************************************************************)
\* The abstract cosignatures: the issued ones without their replay count.
Cosigned(S) == {[code |-> r.code, pkt |-> r.pkt, to |-> r.to] : r \in S}

\* Issuing one more cosignature adds its abstract image.
LEMMA CosignedAdd ==
  ASSUME NEW S, NEW r
  PROVE  Cosigned(S \cup {r}) =
           Cosigned(S) \cup {[code |-> r.code, pkt |-> r.pkt, to |-> r.to]}
BY DEF Cosigned

LEMMA RefInit == Init => Abs!AInit
<1> SUFFICES ASSUME Init PROVE Abs!AInit
  OBVIOUS
<1>1. authStateMap = [x \in {} |-> Owners] /\ authCodeMap = [x \in {} |-> AuthIDs]
  BY DEF Init
<1>2. Cosigned(cosigs) = {}
  BY DEF Init, Cosigned
<1> QED
  BY <1>1, <1>2 DEF Abs!AInit, Cosigned

LEMMA RefStep == CosignerIInv /\ [Next]_vars => [Abs!ANext]_Abs!avars
<1> SUFFICES ASSUME CosignerIInv, [Next]_vars PROVE [Abs!ANext]_Abs!avars
  OBVIOUS
<1>1. CASE MapsUnchanged
  BY <1>1 DEF MapsUnchanged, Abs!avars
<1>2. ASSUME NEW p \in Procs, InitWriteEnd(p) PROVE Abs!ANext
  <2>1. loc[p].id \in AuthIDs /\ loc[p].pkt \in Owners
    <3>1. loc[p].id \in 1..authIdIter /\ authIdIter \in 0..MaxAuthID
          /\ loc[p].pkt \in Owners
      BY <1>2 DEF InitWriteEnd, CosignerIInv, PendingSessionsFresh, InitPCs, TypeOK
    <3> QED
      BY <3>1, CosignerAssumption DEF AuthIDs
  <2>2. Abs!Open(loc[p].id, loc[p].pkt)
    BY <1>2 DEF InitWriteEnd, CosignerIInv, PendingSessionsFresh, InitPCs,
                Abs!Open, Abs!Extend, MapPut
  <2> QED
    BY <2>1, <2>2 DEF Abs!ANext
<1>3. ASSUME NEW p \in Procs, CodeWriteEnd(p) PROVE Abs!ANext
  <2>1. /\ loc[p].code \in codesUsed /\ loc[p].code \notin DOMAIN authCodeMap
        /\ loc[p].id \in DOMAIN authStateMap
    BY <1>3 DEF CodeWriteEnd, CosignerIInv, PendingCodesFresh, CodePCs
  <2>2. loc[p].id \in AuthIDs /\ loc[p].code \in Codes
    <3>1. loc[p].id \in 1..authIdIter /\ authIdIter \in 0..MaxAuthID
      BY <2>1 DEF CosignerIInv, TypeOK
    <3>2. loc[p].id \in AuthIDs
      BY <3>1, CosignerAssumption DEF AuthIDs
    <3> QED
      BY <2>1, <3>2 DEF CosignerIInv, TypeOK
  <2>3. Abs!Approve(loc[p].id, loc[p].code)
    BY <1>3, <2>1 DEF CodeWriteEnd, Abs!Approve, Abs!Extend, MapPut
  <2> QED
    BY <2>2, <2>3 DEF Abs!ANext
<1>4. ASSUME NEW p \in Procs, IssueSignature(p), ~Touch(p, "AuthStateMap")
      PROVE Abs!ANext
  <2> DEFINE c == loc[p].code
             r == [code |-> c, pkt |-> loc[p].pkt, to |-> loc[p].signer,
                   n |-> Cardinality({x \in cosigs : x.code = c}) + 1]
  <2>1. /\ pc[p] = "issue" /\ cosigs' = cosigs \cup {r}
        /\ UNCHANGED <<authStateMap, authCodeMap>>
    BY <1>4 DEF IssueSignature, Goto
  <2>2. /\ c \in DOMAIN authCodeMap
        /\ loc[p].pkt = authStateMap[authCodeMap[c]]
        /\ loc[p].signer = loc[p].pkt
    BY <2>1 DEF CosignerIInv, RedeemConsistent, RedeemPCs
  <2>3. c \in Codes
    BY <2>2 DEF CosignerIInv, TypeOK
  <2>4. Cosigned(cosigs') = Cosigned(cosigs) \cup
          {[code |-> c, pkt |-> authStateMap[authCodeMap[c]],
            to |-> authStateMap[authCodeMap[c]]]}
    <3>1. r.code = c /\ r.pkt = authStateMap[authCodeMap[c]]
          /\ r.to = authStateMap[authCodeMap[c]]
      BY <2>2
    <3>2. Cosigned(cosigs \cup {r}) =
            Cosigned(cosigs) \cup {[code |-> r.code, pkt |-> r.pkt, to |-> r.to]}
      BY CosignedAdd
    <3>3. Cosigned(cosigs') = Cosigned(cosigs \cup {r})
      BY <2>1
    <3> QED
      BY <3>1, <3>2, <3>3
  <2>5. Abs!Cosign(c)
    BY <2>1, <2>2, <2>4 DEF Abs!Cosign, Cosigned
  <2>6. \E cc \in Codes : Abs!Cosign(cc)
    BY <2>3, <2>5 DEF Abs!Cosign
  <2> QED
    BY <2>6 DEF Abs!ANext
<1> QED
  BY <1>1, <1>2, <1>3, <1>4, VisibleSteps

(* The handlers implement CosignerAbstract, for any number of goroutines *)
(* and authcodes: a store into AuthStateMap opens a session under a      *)
(* fresh authID, a store into AuthCodeMap approves a fresh authcode for  *)
(* an open session, an IssueSignature cosigns, for its owner, the PK     *)
(* Token of the session an approved authcode names, and every other step *)
(* leaves the abstract state alone.                                      *)
THEOREM CosignerRefinementTheorem == Spec => CosignerRefinement
<1>1. CosignerIInv /\ [Next]_vars => [Abs!ANext]_Abs!avars
  BY RefStep
<1> QED
  BY <1>1, RefInit, CosignerIInvariant, PTL DEF Spec, CosignerRefinement, Abs!ASpec

=============================================================================
