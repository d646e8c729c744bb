--------------------------- MODULE CosAuthHandshake ---------------------------
(***************************************************************************)
(* OpkClient.CosAuth (src/cert/ca.go): the hand-off between the client's *)
(* goroutine and the HTTP handler that answers the browser's OIDC         *)
(* callback.  CosAuth makes an unbuffered channel redirCh and installs a  *)
(* session hook that blocks on it, then runs OidcAuth.  The OP's callback *)
(* handler (not under src; spec section 6) exchanges the code, hands the  *)
(* tokens to RequestTokens, and calls the hook, which keeps the browser's *)
(* request open until the MFA cosigner client (not under src; spec 4.7)   *)
(* sends the cosigner's redirect URI on redirCh.                          *)
(*                                                                         *)
(* A long-running caller may call CosAuth several times (attempt); every *)
(* call makes a fresh channel and replaces the hook.  handler[k] is the  *)
(* callback handler goroutine of call k, waitsOn[k] the call whose        *)
(* channel its hook reads.                                               *)
(***************************************************************************)
EXTENDS Naturals

CONSTANT MaxAttempts   \* calls of CosAuth explored

ASSUME HandshakeAssumption == MaxAttempts \in Nat \ {0}

Attempts == 1..MaxAttempts
NoHook == 0

VARIABLES
  pc,        \* the CosAuth goroutine
  attempt,   \* the current (last) call of CosAuth
  hook,      \* the call whose redirCh the installed session hook reads
  tokens,    \* what RequestTokens gets from the callback: none, ok, err
  handler,   \* call -> its callback handler: none, hookWait, responded
  waitsOn,   \* call -> the call whose channel its handler's hook reads
  result     \* call -> what CosAuth returned: none, ok, err

vars == <<pc, attempt, hook, tokens, handler, waitsOn, result>>

TypeOK ==
  /\ pc \in {"idle", "hook", "request", "cos", "send", "waitCode"}
  /\ attempt \in 0..MaxAttempts
  /\ hook \in {NoHook} \cup Attempts
  /\ tokens \in {"none", "ok", "err"}
  /\ handler \in [Attempts -> {"none", "hookWait", "responded"}]
  /\ waitsOn \in [Attempts -> {NoHook} \cup Attempts]
  /\ result \in [Attempts -> {"none", "ok", "err"}]

Init ==
  /\ pc = "idle"
  /\ attempt = 0
  /\ hook = NoHook
  /\ tokens = "none"
  /\ handler = [k \in Attempts |-> "none"]
  /\ waitsOn = [k \in Attempts |-> NoHook]
  /\ result = [k \in Attempts |-> "none"]

\* CosAuth returns r to its caller.
Return(r) ==
  /\ pc' = "idle"
  /\ result' = [result EXCEPT ![attempt] = r]
  /\ tokens' = "none"

\* The caller calls CosAuth; the OP is a BrowserOpenIdProvider.
StartCosAuth ==
  /\ pc = "idle"
  /\ attempt < MaxAttempts
  /\ attempt' = attempt + 1
  /\ pc' = "hook"
  /\ UNCHANGED <<hook, tokens, handler, waitsOn, result>>

\* Mutant: the hook is installed only once per OP, not per call.
RegisterHookOnce ==
  /\ pc = "hook"
  /\ hook' = IF hook = NoHook THEN attempt ELSE hook
  /\ pc' = "request"
  /\ UNCHANGED <<attempt, tokens, handler, waitsOn, result>>

\* redirCh := make(chan string); HookHTTPSession(hook reading redirCh).
RegisterHook ==
  /\ pc = "hook"
  /\ hook' = attempt
  /\ pc' = "request"
  /\ UNCHANGED <<attempt, tokens, handler, waitsOn, result>>

\* The OP's callback handler of call k: the code exchange succeeds, the
\* tokens go to RequestTokens and the installed hook blocks on its
\* channel; or the exchange fails and the browser gets the error.
Callback(k) ==
  /\ pc = "request" /\ attempt = k /\ handler[k] = "none"
  /\ \/ /\ tokens' = "ok"
        /\ handler' = [handler EXCEPT ![k] = IF hook = NoHook THEN "responded"
                                                               ELSE "hookWait"]
        /\ waitsOn' = [waitsOn EXCEPT ![k] = hook]
     \/ /\ tokens' = "err"
        /\ handler' = [handler EXCEPT ![k] = "responded"]
        /\ UNCHANGED waitsOn
  /\ UNCHANGED <<pc, attempt, hook, result>>

\* OidcAuth after RequestTokens: an OP error returns at once; the CIC
\* signature, pktoken.New or VerifyPKToken may still fail (return at
\* line 188, with nothing sent on redirCh).
OidcAuth ==
  /\ pc = "request" /\ tokens # "none"
  /\ IF tokens = "err"
       THEN Return("err")
       ELSE \/ pc' = "cos" /\ UNCHANGED <<result, tokens>>
            \/ Return("err")
  /\ UNCHANGED <<attempt, hook, handler, waitsOn>>

\* MfaCos.CosAuth: the MFA init request to the cosigner, which may fail.
MfaInitAuth ==
  /\ pc = "cos"
  /\ \/ pc' = "send" /\ UNCHANGED <<result, tokens>>
     \/ Return("err")
  /\ UNCHANGED <<attempt, hook, handler, waitsOn>>

\* redirCh <- cosigner URI: a rendezvous with a hook blocked on this
\* call's channel, which redirects the browser to the cosigner.
SendRedirect ==
  /\ pc = "send"
  /\ \E j \in Attempts :
       /\ handler[j] = "hookWait" /\ waitsOn[j] = attempt
       /\ handler' = [handler EXCEPT ![j] = "responded"]
  /\ pc' = "waitCode"
  /\ UNCHANGED <<attempt, hook, tokens, waitsOn, result>>

\* The user passes the cosigner's MFA; the cosigner redirects back with
\* the authcode, which the client signs and redeems for the cosignature.
CosignerRedirect ==
  /\ pc = "waitCode"
  /\ Return("ok")
  /\ UNCHANGED <<attempt, hook, handler, waitsOn>>

Next ==
  \/ StartCosAuth
  \/ RegisterHook
  \/ \E k \in Attempts : Callback(k)
  \/ OidcAuth
  \/ MfaInitAuth
  \/ SendRedirect
  \/ CosignerRedirect

(***************************************************************************)
(* Fairness: Go's scheduler runs every runnable goroutine, so each step   *)
(* of the CosAuth goroutine that stays enabled is taken; the user is      *)
(* assumed to finish the OP login and the MFA step in the browser.  The   *)
(* caller need not call CosAuth again (no fairness on StartCosAuth).      *)
(***************************************************************************)
Fairness ==
  /\ WF_vars(RegisterHook)
  /\ \A k \in Attempts : WF_vars(Callback(k))
  /\ WF_vars(OidcAuth)
  /\ WF_vars(MfaInitAuth)
  /\ WF_vars(SendRedirect)
  /\ WF_vars(CosignerRedirect)

Spec == Init /\ [][Next]_vars /\ Fairness

-----------------------------------------------------------------------------
(***************************************************************************)
(* Properties.                                                            *)
(***************************************************************************)

(* Every browser callback that reached the session hook is eventually    *)
(* answered: the hook's goroutine is not left blocked on redirCh.        *)
CallbackAnswered ==
  \A k \in Attempts : handler[k] = "hookWait" ~> handler[k] = "responded"


(* The unbuffered send redirCh <- uri (line 182's hook is its receiver)   *)
(* always has a receiver: when CosAuth is about to send, the hook of this *)
(* very call is blocked on this call's channel, whatever earlier calls    *)
(* left behind.                                                           *)
RedirectHasReceiver ==
  pc = "send" =>
    \E j \in Attempts : handler[j] = "hookWait" /\ waitsOn[j] = attempt

(* The strengthening that makes RedirectHasReceiver inductive: from       *)
(* RegisterHook on, the installed hook is the current call's; tokens are  *)
(* only pending inside a call; once the code exchange of the current call *)
(* succeeded, its handler waits on its own channel until the send.        *)
HandshakeIInv ==
  /\ TypeOK
  /\ pc = "hook" => attempt \in Attempts
  /\ pc \in {"request", "cos", "send", "waitCode"} =>
       attempt \in Attempts /\ hook = attempt
  /\ pc \in {"idle", "hook"} => tokens = "none"
  /\ pc \in {"cos", "send"} => tokens = "ok"
  /\ tokens = "ok" /\ pc \in {"request", "cos", "send"} =>
       handler[attempt] = "hookWait" /\ waitsOn[attempt] = attempt

=============================================================================
