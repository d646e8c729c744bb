------------------------------- MODULE Cosigner -------------------------------
(***************************************************************************)
(* The MFA cosigner's AuthCosigner (cosigner/authcosigner.go, found as   *)
(* src/unnamed/part_000): InitAuth, CreateAuthID, NewAuthcode,           *)
(* RedeemAuthcode and IssueSignature, called from concurrent HTTP        *)
(* handler goroutines (Procs).                                            *)
(*                                                                         *)
(* AuthStateMap and AuthCodeMap are plain Go maps with no lock.  The Go  *)
(* runtime marks a map while a write is in progress and kills the        *)
(* process ("concurrent map writes" / "concurrent map read and map       *)
(* write") when another goroutine touches the map meanwhile: a write is  *)
(* two steps (begin, end) and a read checks the mark.                    *)
(*                                                                         *)
(* A PK Token is named by its owner; the attacker owns one too.  An       *)
(* authcode is sent in the redirect URL, so the attacker may learn it;    *)
(* messages signed under a PK Token's key are made only by its owner.    *)
(* authID = hex(HMAC(key, counter || time)) is modelled by the counter   *)
(* value (HMAC is injective on distinct counters).                        *)
(***************************************************************************)
EXTENDS Naturals, FiniteSets

CONSTANTS
  Users,      \* honest users, each with a PK Token
  Attacker,   \* a user who also tries to redeem other users' authcodes
  Procs,      \* handler goroutines serving requests concurrently
  Codes,      \* authcode values (32 random bytes; fresh on each call)
  MaxAuthID   \* bound on AuthIdIter

ASSUME CosignerAssumption ==
  /\ Attacker \notin Users
  /\ Procs # {} /\ Codes # {}
  /\ MaxAuthID \in Nat \ {0}

Owners == Users \cup {Attacker}
AuthIDs == 1..MaxAuthID
NoProc == "noproc"
Maps == {"AuthStateMap", "AuthCodeMap"}

\* Goroutine program counters: between the steps of the handlers.
PCs == {"idle", "initWrite", "initWriteEnd", "codeWrite", "codeWriteEnd",
        "redeemState", "issue"}

\* Each goroutine's locals: the PK Token owner, authID, authcode and the
\* signer of the message being redeemed.
Locals == [pkt : Owners \cup {NoProc}, id : AuthIDs \cup {0},
           code : Codes \cup {NoProc}, signer : Owners \cup {NoProc}]
NoLocals == [pkt |-> NoProc, id |-> 0, code |-> NoProc, signer |-> NoProc]

VARIABLES
  authIdIter,    \* AuthIdIter (atomic.Uint64)
  authStateMap,  \* AuthStateMap: authID -> AuthState
  authCodeMap,   \* AuthCodeMap: authcode -> authID
  writer,        \* per map: the goroutine inside a write, or NoProc
  crashed,       \* the runtime killed the process on a map race
  pc, loc,       \* handler goroutines
  sent,          \* signed authcode messages [code, signer] owners sent
  codesUsed,     \* authcodes ever handed out
  cosigs         \* cosignatures issued: [code, pkt, to, n]

vars == <<authIdIter, authStateMap, authCodeMap, writer, crashed, pc, loc,
          sent, codesUsed, cosigs>>

\* f with key k set to v (Go map assignment).
MapPut(f, k, v) == [x \in DOMAIN f \cup {k} |-> IF x = k THEN v ELSE f[x]]

Init ==
  /\ authIdIter = 0
  /\ authStateMap = [x \in {} |-> NoProc]
  /\ authCodeMap = [x \in {} |-> 0]
  /\ writer = [m \in Maps |-> NoProc]
  /\ crashed = FALSE
  /\ pc = [p \in Procs |-> "idle"]
  /\ loc = [p \in Procs |-> NoLocals]
  /\ sent = {}
  /\ codesUsed = {}
  /\ cosigs = {}

\* A goroutine touches map m: the runtime aborts if another one is
\* writing it.
Touch(p, m) == writer[m] # NoProc /\ writer[m] # p

Crash ==
  /\ crashed' = TRUE
  /\ UNCHANGED <<authIdIter, authStateMap, authCodeMap, writer, pc, loc,
                 sent, codesUsed, cosigs>>

Goto(p, l, locals) ==
  /\ pc' = [pc EXCEPT ![p] = l]
  /\ loc' = [loc EXCEPT ![p] = locals]

-----------------------------------------------------------------------------
(* InitAuth: the message is signed under the caller's PK Token and is    *)
(* fresh; NewAuthState; CreateAuthID (atomic Add(1)); then the write of  *)
(* AuthStateMap[authID].  The time and signature error paths change     *)
(* nothing.                                                               *)
InitAuth(p, u) ==
  /\ pc[p] = "idle"
  /\ authIdIter < MaxAuthID
  /\ authIdIter' = authIdIter + 1
  /\ Goto(p, "initWrite", [NoLocals EXCEPT !.pkt = u, !.id = authIdIter + 1])
  /\ UNCHANGED <<authStateMap, authCodeMap, writer, crashed, sent, codesUsed,
                 cosigs>>

\* Begin or end a write of map m at program counter l, going on to l2.
WriteBegin(p, m, l, l2) ==
  /\ pc[p] = l
  /\ IF Touch(p, m) THEN Crash
     ELSE /\ writer' = [writer EXCEPT ![m] = p]
          /\ Goto(p, l2, loc[p])
          /\ UNCHANGED <<authIdIter, authStateMap, authCodeMap, crashed,
                         sent, codesUsed, cosigs>>

InitWriteEnd(p) ==
  /\ pc[p] = "initWriteEnd"
  /\ authStateMap' = MapPut(authStateMap, loc[p].id, loc[p].pkt)
  /\ writer' = [writer EXCEPT !["AuthStateMap"] = NoProc]
  /\ Goto(p, "idle", NoLocals)
  /\ UNCHANGED <<authIdIter, authCodeMap, crashed, sent, codesUsed, cosigs>>

(* NewAuthcode(authID), called once the session's owner has passed the   *)
(* MFA check: a fresh random code, then the write AuthCodeMap[code] =    *)
(* authID.  The code goes back in the redirect to the owner, whose client *)
(* signs it under its PK Token and sends it to be redeemed.              *)
\* Mutant: the authcode is not fresh (e.g. derived from a repeating value).
NewAuthcodeRepeats(p, id, c) ==
  /\ pc[p] = "idle"
  /\ id \in DOMAIN authStateMap
  /\ codesUsed' = codesUsed \cup {c}
  /\ Goto(p, "codeWrite", [NoLocals EXCEPT !.id = id, !.code = c])
  /\ UNCHANGED <<authIdIter, authStateMap, authCodeMap, writer, crashed,
                 sent, cosigs>>

NewAuthcode(p, id, c) ==
  /\ pc[p] = "idle"
  /\ id \in DOMAIN authStateMap
  /\ c \notin codesUsed
  /\ codesUsed' = codesUsed \cup {c}
  /\ Goto(p, "codeWrite", [NoLocals EXCEPT !.id = id, !.code = c])
  /\ UNCHANGED <<authIdIter, authStateMap, authCodeMap, writer, crashed,
                 sent, cosigs>>

CodeWriteEnd(p) ==
  /\ pc[p] = "codeWriteEnd"
  /\ authCodeMap' = MapPut(authCodeMap, loc[p].code, loc[p].id)
  /\ writer' = [writer EXCEPT !["AuthCodeMap"] = NoProc]
  /\ sent' = sent \cup {[code |-> loc[p].code,
                          signer |-> authStateMap[loc[p].id]]}
  /\ Goto(p, "idle", NoLocals)
  /\ UNCHANGED <<authIdIter, authStateMap, crashed, codesUsed, cosigs>>

(* The messages a redeem request may carry: those owners signed, and     *)
(* any authcode seen in a redirect signed under the attacker's key.      *)
Redeemable == sent \cup {[code |-> c, signer |-> Attacker] : c \in codesUsed}

(* RedeemAuthcode, first step: jws.Parse, then the read of               *)
(* AuthCodeMap[payload]; an unknown code is rejected.  The code stays in *)
(* the map.                                                              *)
RedeemAuthcode(p, m) ==
  /\ pc[p] = "idle"
  /\ IF Touch(p, "AuthCodeMap") THEN Crash
     ELSE /\ IF m.code \in DOMAIN authCodeMap
               THEN Goto(p, "redeemState",
                         [NoLocals EXCEPT !.id = authCodeMap[m.code],
                                          !.code = m.code, !.signer = m.signer])
               ELSE UNCHANGED <<pc, loc>>
          /\ UNCHANGED <<authIdIter, authStateMap, authCodeMap, writer,
                         crashed, sent, codesUsed, cosigs>>

(* RedeemAuthcode, second step: the read authState := AuthStateMap[authID] *)
(* and the check that the message is signed under authState.Pkt.          *)
RedeemState(p) ==
  /\ pc[p] = "redeemState"
  /\ IF Touch(p, "AuthStateMap") THEN Crash
     ELSE /\ IF loc[p].signer = authStateMap[loc[p].id]
               THEN Goto(p, "issue", [loc[p] EXCEPT !.pkt = authStateMap[loc[p].id]])
               ELSE Goto(p, "idle", NoLocals)
          /\ UNCHANGED <<authIdIter, authStateMap, authCodeMap, writer,
                         crashed, sent, codesUsed, cosigs>>

(* IssueSignature(pkt, authID): reads AuthStateMap[authID] again for the  *)
(* claims and cosigns pkt; the cosigned PK Token goes back to the caller. *)
IssueSignature(p) ==
  /\ pc[p] = "issue"
  /\ IF Touch(p, "AuthStateMap") THEN Crash
     ELSE /\ cosigs' = cosigs \cup
                 {[code |-> loc[p].code, pkt |-> loc[p].pkt, to |-> loc[p].signer,
                   n |-> Cardinality({r \in cosigs : r.code = loc[p].code}) + 1]}
          /\ Goto(p, "idle", NoLocals)
          /\ UNCHANGED <<authIdIter, authStateMap, authCodeMap, writer,
                         crashed, sent, codesUsed>>

Next ==
  /\ ~crashed
  /\ \E p \in Procs :
       \/ \E u \in Owners : InitAuth(p, u)
       \/ WriteBegin(p, "AuthStateMap", "initWrite", "initWriteEnd")
       \/ InitWriteEnd(p)
       \/ \E id \in AuthIDs, c \in Codes : NewAuthcode(p, id, c)
       \/ WriteBegin(p, "AuthCodeMap", "codeWrite", "codeWriteEnd")
       \/ CodeWriteEnd(p)
       \/ \E m \in Redeemable : RedeemAuthcode(p, m)
       \/ RedeemState(p)
       \/ IssueSignature(p)

Spec == Init /\ [][Next]_vars

-----------------------------------------------------------------------------
TypeOK ==
  /\ authIdIter \in 0..MaxAuthID
  /\ DOMAIN authStateMap \subseteq 1..authIdIter
  /\ authStateMap \in [DOMAIN authStateMap -> Owners]
  /\ DOMAIN authCodeMap \subseteq codesUsed
  /\ authCodeMap \in [DOMAIN authCodeMap -> AuthIDs]
  /\ writer \in [Maps -> Procs \cup {NoProc}]
  /\ crashed \in BOOLEAN
  /\ pc \in [Procs -> PCs]
  /\ loc \in [Procs -> Locals]
  /\ codesUsed \subseteq Codes
  /\ sent \subseteq [code : Codes, signer : Owners]

(* The spec (4.7): "The authcode is single-use (removed on redeem)":     *)
(* no authcode yields a second cosignature.                              *)
AuthcodeSingleUse == \A r \in cosigs : r.n = 1

(* The spec (4.7, 5): the state maps are protected by a single lock, so  *)
(* concurrent requests never trip the Go runtime's map race check.       *)
NoFatalMapRace == ~crashed

(***************************************************************************)
(* The strengthening of TypeOK from which the refinement below follows:   *)
(* what each goroutine's locals say about the maps at each program       *)
(* counter, and that every cosignature went to its PK Token's owner.     *)
(***************************************************************************)
InitPCs == {"initWrite", "initWriteEnd"}
CodePCs == {"codeWrite", "codeWriteEnd"}
RedeemPCs == {"redeemState", "issue"}

\* An authID being stored is fresh, and no other goroutine stores it.
PendingSessionsFresh ==
  \A p \in Procs :
    pc[p] \in InitPCs =>
      /\ loc[p].id \in 1..authIdIter /\ loc[p].id \notin DOMAIN authStateMap
      /\ loc[p].pkt \in Owners
      /\ \A q \in Procs \ {p} : pc[q] \in InitPCs => loc[q].id # loc[p].id

\* An authcode being stored is fresh, for a stored session, and no other
\* goroutine stores it.
PendingCodesFresh ==
  /\ \A c \in DOMAIN authCodeMap : authCodeMap[c] \in DOMAIN authStateMap
  /\ \A p \in Procs :
       pc[p] \in CodePCs =>
         /\ loc[p].code \in codesUsed /\ loc[p].code \notin DOMAIN authCodeMap
         /\ loc[p].id \in DOMAIN authStateMap
         /\ \A q \in Procs \ {p} : pc[q] \in CodePCs => loc[q].code # loc[p].code

\* A redeem in progress holds a stored authcode and its session; once the
\* signature is checked, the PK Token and its owner are the session's.
RedeemConsistent ==
  \A p \in Procs :
    pc[p] \in RedeemPCs =>
      /\ loc[p].code \in DOMAIN authCodeMap
      /\ loc[p].id = authCodeMap[loc[p].code]
      /\ pc[p] = "issue" => /\ loc[p].pkt = authStateMap[loc[p].id]
                            /\ loc[p].signer = loc[p].pkt

\* Every cosignature issued went to the owner of the PK Token it cosigns.
CosignedToOwner == \A r \in cosigs : r.to = r.pkt

CosignerIInv ==
  /\ TypeOK
  /\ PendingSessionsFresh
  /\ PendingCodesFresh
  /\ RedeemConsistent
  /\ CosignedToOwner

-----------------------------------------------------------------------------
(***************************************************************************)
(* Refinement: the maps are the abstract sessions and approvals, and the *)
(* cosignatures issued (without their replay count) the abstract ones.   *)
(***************************************************************************)
Abs == INSTANCE CosignerAbstract
         WITH sessions <- authStateMap, approved <- authCodeMap,
              cosigned <- {[code |-> r.code, pkt |-> r.pkt, to |-> r.to] :
                             r \in cosigs}

(* The handlers implement the cosigner's promise: every store into a map *)
(* opens a session under a fresh authID or approves a fresh authcode for *)
(* an open session, and every IssueSignature cosigns, for the session's  *)
(* owner, a PK Token whose session an approved authcode names.           *)
CosignerRefinement == Abs!ASpec

=============================================================================
