------------------------- MODULE CosAuthHandshakeProofs -------------------------
(***************************************************************************)
(* Proofs about CosAuthHandshake for every number of CosAuth calls: the   *)
(* inductive invariant HandshakeIInv and, from it, that the send on       *)
(* redirCh always has a receiver.  That CosAuth then returns (liveness    *)
(* under the goroutines' weak fairness) is left to TLC.                   *)
(***************************************************************************)
EXTENDS CosAuthHandshake, TLAPS

USE HandshakeAssumption

LEMMA HandshakeInit == Init => HandshakeIInv
BY DEF Init, HandshakeIInv, TypeOK, Attempts, NoHook

\* The caller starts a new call: the goroutine was idle, so no tokens.
LEMMA StartStep == HandshakeIInv /\ StartCosAuth => HandshakeIInv'
BY DEF HandshakeIInv, TypeOK, StartCosAuth, Attempts

\* The hook of the current call is installed.
LEMMA RegisterStep == HandshakeIInv /\ RegisterHook => HandshakeIInv'
BY DEF HandshakeIInv, TypeOK, RegisterHook, Attempts, NoHook

\* The callback of the current call reaches the hook installed for it.
LEMMA CallbackStep ==
  ASSUME NEW k \in Attempts, HandshakeIInv, Callback(k)
  PROVE  HandshakeIInv'
<1>1. pc = "request" /\ attempt = k /\ hook = k /\ hook # NoHook
  BY DEF Callback, HandshakeIInv, Attempts, NoHook
<1>2. TypeOK'
  BY <1>1 DEF Callback, HandshakeIInv, TypeOK
<1>3. tokens' = "ok" =>
        handler'[attempt] = "hookWait" /\ waitsOn'[attempt] = attempt
  BY <1>1 DEF Callback, HandshakeIInv, TypeOK
<1> QED
  BY <1>1, <1>2, <1>3 DEF Callback, HandshakeIInv

\* OidcAuth goes on to the cosigner only with the tokens of this call.
LEMMA OidcAuthStep == HandshakeIInv /\ OidcAuth => HandshakeIInv'
<1> SUFFICES ASSUME HandshakeIInv, OidcAuth PROVE HandshakeIInv'
  OBVIOUS
<1>1. CASE pc' = "idle"
  BY <1>1 DEF OidcAuth, Return, HandshakeIInv, TypeOK
<1>2. CASE pc' = "cos"
  <2>1. tokens = "ok" /\ tokens' = tokens /\ pc = "request"
    BY <1>2 DEF OidcAuth, Return, HandshakeIInv, TypeOK
  <2>2. UNCHANGED <<attempt, hook, handler, waitsOn, result>>
    BY <1>2, <2>1 DEF OidcAuth, Return
  <2> QED
    BY <1>2, <2>1, <2>2 DEF HandshakeIInv, TypeOK
<1> QED
  BY <1>1, <1>2 DEF OidcAuth, Return

LEMMA MfaInitAuthStep == HandshakeIInv /\ MfaInitAuth => HandshakeIInv'
BY DEF MfaInitAuth, Return, HandshakeIInv, TypeOK

\* The send answers one waiting handler and leaves the "send" state.
LEMMA SendStep == HandshakeIInv /\ SendRedirect => HandshakeIInv'
BY DEF SendRedirect, HandshakeIInv, TypeOK

LEMMA RedirectStep == HandshakeIInv /\ CosignerRedirect => HandshakeIInv'
BY DEF CosignerRedirect, Return, HandshakeIInv, TypeOK

LEMMA HandshakeStep == HandshakeIInv /\ [Next]_vars => HandshakeIInv'
<1> SUFFICES ASSUME HandshakeIInv, [Next]_vars PROVE HandshakeIInv'
  OBVIOUS
<1>1. CASE \E k \in Attempts : Callback(k)
  BY <1>1, CallbackStep
<1>2. CASE UNCHANGED vars
  BY <1>2 DEF vars, HandshakeIInv, TypeOK
<1> QED
  BY <1>1, <1>2, StartStep, RegisterStep, OidcAuthStep, MfaInitAuthStep,
     SendStep, RedirectStep DEF Next

(* HandshakeIInv holds in every reachable state, for every number of      *)
(* CosAuth calls.                                                          *)
THEOREM HandshakeIInvariant == Spec => []HandshakeIInv
BY HandshakeInit, HandshakeStep, PTL DEF Spec

(* The redirect URI CosAuth sends on the unbuffered redirCh always finds  *)
(* the hook of its own call blocked on that channel: a stale hook of an   *)
(* earlier call never leaves the send without a receiver, however many    *)
(* calls came before and however they ended.                              *)
THEOREM RedirectHasReceiverTheorem == Spec => []RedirectHasReceiver
<1>1. HandshakeIInv => RedirectHasReceiver
  BY DEF HandshakeIInv, RedirectHasReceiver
<1> QED
  BY <1>1, HandshakeIInvariant, PTL
=============================================================================
