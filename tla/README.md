# Formal models of OpenPubkey

This directory holds TLA+ models of the parts of OpenPubkey (`src/`) whose
correctness depends on several parties or goroutines acting in some order:

- who signs what, and who can replay what;
- which goroutine touches which map, and when;
- which channel a blocked handler waits on;
- which file a crash leaves behind.

Each model is checked with TLC on small instances. The key properties are
also proved with TLAPS for every value of the constants.

## 1. The system and its parts

OpenPubkey binds a user's public key to an OIDC identity. A *PK Token* has
three parts:

- the OP's ID token, signed with RS256 or upgraded to a GQ256 signature of
  knowledge;
- a client-instance-claims (CIC) JWS signed with the user's key;
- an optional cosignature from an MFA cosigner.

The commitment to the CIC goes into the ID token's `nonce`, or into its `aud`
(GitHub, GQ-commitment mode).

| Part | Source | Module(s) | Status |
|---|---|---|---|
| Provider verifier (C6) | `src/verifier/providerverifier.go` | `ProviderVerifier`, `ProviderVerifierProofs` | modelled |
| Client issuance, mock OP | `src/cert/ca.go` (`OidcAuth`), `src/client/mocks/provider.go` | `ProviderVerifier` (as the parties' actions) | partly |
| MFA cosigner (C7) | `src/unnamed/part_000` (`AuthCosigner`) | `Cosigner`, `CosignerAbstract`, `CosignerProofs` | partly |
| CosAuth redirect hand-off | `src/cert/ca.go` 171-194 | `CosAuthHandshake`, `CosAuthHandshakeProofs` | modelled |
| X.509 CA | `src/cert/ca.go` 61-150 (`PktTox509`) | `CertAuthority` (over `ProviderVerifier`'s parties) | modelled |
| GitHub Actions OP client | `src/parties/githubclient.go` | `GithubOp`, `GithubOpProofs` | modelled |
| Example SSH CLI key files | `src/main.go` 125-219 (`writeKeysToSSHDir`) | `SSHKeyFiles`, `SSHKeyFilesProofs` | partly |
| opkssh command | `src/opkssh/main.go` (`run`, `checkOpenSSHVersion`) | `OpksshMain`, `OpksshMainProofs` | modelled |

How the parts interact:

- The client (`OidcAuth`) obtains ID tokens from an OP and makes PK Tokens.
- Verifiers (`VerifyProvider`, `GithubOp.VerifyPKToken`) and the CA
  (`PktTox509`) consume PK Tokens. `CertAuthority` composes the CA with the
  same parties and attacker as `ProviderVerifier`.
- `CosAuth` is the client's MFA login. Its session hook hands the browser to
  the cosigner, whose `AuthCosigner` handlers issue cosignatures.
- The example CLI stores the resulting key and certificate in `~/.ssh`.
- sshd runs `opkssh verify` as its AuthorizedKeysCommand and reads the
  authorized key line from its stdout.

Cryptography (C1–C5: JWS, GQ, discovery, CIC and PK Token types) is not under
`src/` and is modelled as perfect:

- an RSA signature exists iff the OP issued the token;
- a GQ signature over a token and a header exists iff an honest client made
  it, or the raw token is in the attacker's hands (GQ is a proof of knowledge
  of the RSA signature);
- a CIC signature exists iff the key's owner made it;
- the CIC hash is injective.

## 2. Modules

### ProviderVerifier (+ MCProviderVerifier)

**State.** The signatures that exist:

- `issued`, `leaked`, `gqSigned`, `cicSigned`;
- the honest clients' `published` PK Tokens.

**Actions.** The ways tokens come to exist:

- `OidcAuth`: `OpkClient.OidcAuth` with the mock OP's `RequestTokens`. The
  nonce is the CIC hash; the aud is the client ID, as a string or a list.
  With GQ the raw token stays private.
- `GQCommitAuth`: GQ-commitment issuance, from the spec (its issuing code is
  not under `src/`).
- `RPLogin`: an ordinary relying party gets, and leaks, a token for its own
  audience.
- Issuers the attacker controls start with `EvilTokens`.

**The verifier.** `VerifyProvider(v, p)` follows the Go function's early
returns one for one and is a pure operator. The properties quantify over every
configuration in `Configs` and every candidate PK Token the attacker could
assemble.

### CertAuthority (+ MCCertAuthority)

`PktTox509` is an operator over the same parties. It returns the first error:

- the CIC signature;
- `Audience[0]` on the string aud form (unmarshal);
- the required audience.

Otherwise it returns `ok`. The certificate's subject is the token's email
(sub); its key is the CIC's.

### GithubOp (+ MCGithubOp)

The parties:

- Honest workflows get tokens whose `aud` is their CIC commitment, and make
  RS256 or GQ-upgraded PK Tokens (`GithubOidcAuth`). A GQ-upgraded token keeps its RS256 header
  and sets `OpSigGQ`, because `VerifyPKToken` checks the GQ signature over
  the original `header.payload`.
- They also fetch tokens for other services, which leak (`OtherAudToken`).
- The attacker's workflow gets tokens for any audience (`AttackerToken`).

`RequestTokens` is GitHub signing a token for the calling workflow with the
audience it names.

`VerifyPKToken` follows `githubclient.go` 158-241:

- `PublicKey` demands an RS256 header;
- the GQ path compares `aud` with the commitment but checks no issuer;
- the RS256 path checks the signature, `aud` and `iss`;
- then the CIC signature.

### Cosigner (+ MCCosigner), CosignerAbstract

**State.**

- `AuthIdIter`.
- `AuthStateMap`: authID → the owner of the session's PK Token.
- `AuthCodeMap`: authcode → authID.
- `writer`: the Go runtime's map-writing mark.
- `crashed`: the runtime's fatal "concurrent map read and map write".
- A program counter and locals per handler goroutine in `Procs`.
- History: `sent`, `codesUsed`, `cosigs`.

**Actions.** Each handler is split where it touches a map:

- `InitAuth`: `CreateAuthID`'s atomic `Add(1)`, then `WriteBegin` and
  `InitWriteEnd` of `AuthStateMap`;
- `NewAuthcode`: a fresh code, then the write of `AuthCodeMap`;
- `RedeemAuthcode`: the read of `AuthCodeMap`;
- `RedeemState`: the read of `AuthStateMap` and the check of the owner's
  signature;
- `IssueSignature`: the cosignature.

A read or a write while another goroutine writes the same map is `Crash`.

**The attacker.** It owns a PK Token and sees every authcode, because codes
travel in redirect URLs. It can sign any code, but only with its own key.

**`CosignerAbstract`.** The promise: sessions are opened under fresh authIDs,
MFA checks approve fresh authcodes for open sessions, and cosignatures are
issued for an approved code, over its session's PK Token, to that token's
owner.

**Refinement.** `Cosigner` maps onto `CosignerAbstract`:

- `AuthStateMap` → `sessions`;
- `AuthCodeMap` → `approved`;
- `cosigs` without the replay count → `cosigned`.

`CosignerRefinement == Abs!ASpec` is checked as a property. It is the one
property of the passing cosigner run. It covers:

- that a leaked authcode yields a cosignature only for the session's owner
  (`Cosign` requires it);
- that concurrent `InitAuth` calls never store two sessions under one authID
  (`Open` requires a fresh one);
- that each approval is of a fresh authcode.

### CosAuthHandshake (+ MCCosAuthHandshake)

**The code.** `OpkClient.CosAuth` (`ca.go` 171-194):

- makes an unbuffered `redirCh`;
- installs a session hook that blocks on it;
- runs `OidcAuth`;
- sends the cosigner's redirect URI on `redirCh`.

**The model.** The callback handler and the MFA client are not under `src/`
and are modelled from spec 4.7 and 6.

- `attempt` counts calls of `CosAuth`.
- `handler[k]` and `waitsOn[k]` are call k's callback goroutine and the call
  whose channel its hook reads.
- `SendRedirect` is a rendezvous with a hook blocked on the current call's
  channel.
- Each call may fail after the callback (`OidcAuth`) or at the MFA init.

`RedirectHasReceiver` states that whenever the call is at the send, a hook
goroutine is blocked on the current call's channel, so the send can complete.

### SSHKeyFiles (+ MCSSHKeyFiles)

**The code.** `writeKeysToSSHDir` (`main.go` 125-219):

- scans the slots `id_ecdsa` and `id_dsa`;
- takes the first whose secret key is absent or whose `.pub` has the
  `openpubkey` comment;
- writes the secret key and then the certificate.

**Actions.**

- `StartLogin`.
- `ScanSlot`, with one disjunct per branch of the loop, including the failed
  `os.ReadFile`.
- `WriteSeckey` and `WritePub`.
- `Crash`: the process dies, or a write fails between the two writes.
- `UserKeygen` and `UserRemove`: the user changing `~/.ssh`, between logins
  or, with `UserRacesLogin`, at any time.

### OpksshMain (+ MCOpksshMain)

One invocation of `run()`.

**State.**

- `args`: the command and `len(os.Args)`.
- `stdout`: the lines printed, by kind.
- `logOut`: where `log` writes.
- `sshd`: the installed sshd.
- `warned`: whether the version warning was logged.
- `exitCode`.

**Actions.** The branches of `run()`:

- `Start`: the usage and the dispatch.
- `LoginCmd`.
- On the verify path: `VerifyOpenLog`, `CheckOpenSSHVersion`, `VerifyArgs`
  and `AuthorizedKeys`.
- `AddCmd`.

The commands package is not under `src/`: the results of its calls are
nondeterministic.

**The version check.** `isOpenSSHVersion8Dot1OrGreater` is modelled by what
each call does, on the output of `sshd -V` as a sequence of bytes:

- `strings.Split(..., ", ")[0]` is `SplitFirst`;
- `TrimPrefix` is `TrimOpenSSH`;
- the regular expression's greedy capture is `Capture`;
- Go's bytewise `>=` is `StrLess`.

Text the function never compares is kept as single symbols. `AtLeast81`
is the numeric order its comment describes.

## 3. Runs

| Run | Checks | Expect | Shows |
|---|---|---|---|
| `pv_gqonly` | `Sound`, `Completeness` | pass | GQOnly verifiers, in nonce and GQ-commitment mode, are sound even with a shared JWKS key and any alg header; every honest PK Token verifies |
| `pv_unknownalg` | `KeyOwnedBySubject` | violation | An ES256 alg header skips the provider signature |
| `cos_conc` | `CosignerRefinement` | pass | With two goroutines and leaked authcodes, the handlers refine `CosignerAbstract`: sessions open under fresh authIDs and are never replaced, and cosignatures go only to the session's owner |
| `cos_reuse` | `AuthcodeSingleUse` | violation | Authcodes are never removed: one MFA check, many cosignatures |
| `cos_race` | `NoFatalMapRace` | violation | Unlocked maps: two requests crash the process |
| `keys_seq` | `UserSecretKeyKept` | pass | Over three logins with crashes anywhere, a user's secret key is never overwritten |
| `keys_crash` | `SlotReclaimable` | violation | A crash between the two writes leaves a slot no later login reclaims |
| `gh_sound` | `GithubSound` | pass | GitHub keys are bound only to their owners' workflows, although tokens for any audience can be had and tokens for other services leak |
| `ca_x509` | `CertBindsKeyToSubject` | violation | The CA certifies the attacker's key for an honest user's email |
| `cosauth_redirect` | `RedirectHasReceiver` | pass | The send of the redirect URI always has the current call's hook waiting, whatever failed in earlier calls |
| `cosauth_leak` | `CallbackAnswered` | violation | A failed call leaves its callback handler blocked on `redirCh` forever |
| `opk_version` | `VersionWarningCorrect` | violation | sshd 10.0 is reported as older than 8.1 |

Every property of every passing run has a mutant in `PROJECT.json`: a
plausible bug in the mapped code that TLC finds violates the property. Two
examples:

- `NewAuthcodeRepeats` breaks `CosignerRefinement`;
- `RegisterHookOnce` (the hook installed on the first call only) breaks
  `RedirectHasReceiver`.

**Bounds.**

- **ProviderVerifier and CertAuthority.**
  - One user, the attacker, one honest and one attacker issuer.
  - Keys distinct or shared; both aud forms; two forged tokens.
  - Binding someone else's key needs exactly one honest and one attacker
    identity, and an issuer mismatch needs two issuers.
- **Cosigner.**
  - One user, the attacker, two goroutines, three codes and three authIDs;
    replays cut at two per code.
  - About 1.26 million states.
  - Two goroutines are the least that can race. Three sessions and codes let
    the attacker hold another's code while the owner redeems.
- **GithubOp.** Two workflows (so one can target the other's commitment),
  the attacker, one other service.
- **SSHKeyFiles.** Two slots as in the code, and three logins (two for the
  crash run). That is enough to fill both slots and then need a reclaim.
- **CosAuthHandshake.** Three calls: a call that failed after its callback
  and one that failed at the MFA init can both precede a third.
- **OpksshMain.** sshd versions 7.x to 10.x with minors 0, 1 and 9 (around
  the 8.1 boundary, and one two-digit major), and one to five arguments.

**Deadlock and fairness.**

- `CHECK_DEADLOCK FALSE` is set where the system really stops:
  - the cosigner after a fatal map race;
  - opkssh once it exits;
  - `CosAuth` once its caller stops calling it.
- `Fairness` in `CosAuthHandshake` is the scheduling under which
  `CallbackAnswered` is asked:
  - weak fairness on every step of the `CosAuth` goroutine and of the
    callback handlers, because Go's scheduler runs every runnable goroutine;
  - on the user's browser steps: the user completes the OP login and the
    MFA step;
  - none on `StartCosAuth`, because the caller need not call again.
- `CallbackAnswered` fails even under this fairness: nothing is left that
  could send on the abandoned channel.
- No liveness property of a passing run remains. Under this fairness, that
  `CosAuth` returns follows from `RedirectHasReceiver`: every other step is
  enabled at its program counter.

## 4. Findings

1. `providerverifier.go:119`: the `switch alg` has no `default`. With GQOnly
   off, any other alg passes unverified (spec 4.6 step 3 rejects it).
2. `providerverifier.go:124`: the RS256 path never compares `iss` with the
   verifier's issuer (spec 4.6 step 5). `SoundTheorem` needs the hypothesis
   that no two issuers share a key where RS256 is allowed. TLC finds
   `IssuerMatches` violated when they do; no run keeps it.
3. `part_000:102`: the authcode is never deleted (spec 4.7: single-use).
4. `part_000:67`: the maps have no lock (spec 4.7: a single lock), and
   concurrent requests crash the cosigner.
5. `main.go:204`: a crash or failed write between the secret-key and the
   certificate write leaves a slot every later login skips. The comment at
   lines 166-170 says such slots are overwritten.
6. `ca.go:67`: `PktTox509` checks only the CIC signature, so it certifies
   the attacker's key for an honest user.
7. `ca.go:182`: when `OidcAuth` or the MFA init fails after the callback,
   the hook's goroutine and the browser's request hang forever.
8. `opkssh/main.go:230`: `version >= "8.1"` compares strings, so OpenSSH
   10.0 and later are logged as unsupported.

TLC also shows the following; `PROJECT.json` lists them as hazards, and no
run keeps them:

- `providerverifier.go:184`: `aud.(string)` panics on a list audience in
  GQ-commitment mode (`NoPanic`).
- `opkssh/main.go:113`, `199` and `224`: in verify mode, errors are printed
  to stdout before the key line, although the comment at line 150 says
  nothing else may be printed (`StdoutOnlyAuthKey`).
- `main.go:175`: if the user runs ssh-keygen during a login
  (`UserRacesLogin`), `fileExists` and the truncating write race, and the
  user's key is overwritten.

## 5. Proofs

Each proof module EXTENDS its component and `TLAPS`. The proofs use the
constants' assumptions: `ConstantsAssumption`, `CosignerAssumption`,
`GithubAssumption`, `KeyFilesAssumption` and `HandshakeAssumption`.
`OpksshMainProofs` also EXTENDS `SequenceTheorems`.

### ProviderVerifierProofs

- `TypeCorrect`: `Spec => []TypeOK`.
- `IInvInvariant`: honest issuers never leak a prefixed-aud token, and honest
  tokens and GQ headers commit to the subject's own CIC.
- `SoundTheorem`: `SecureConfigs => (Spec => []Sound)`.
  - `Sound` alone is not inductive, because acceptance depends on which
    signatures exist. `IInv` supplies that.
  - `SecureConfigs` requires no unknown alg and no shared key outside
    GQOnly, and the client ID checked in nonce mode. It holds for
    `pv_gqonly`'s constants and fails for `pv_unknownalg`'s.
- `CompletenessTheorem`: `VerifierKnowsClient => (Spec => []Completeness)`.
  - `VerifierKnowsClient`: every verifier expects the OpenPubkey client ID
    or skips the client ID check. It holds in `pv_gqonly`. A verifier
    configured for another client rejects honest tokens, as the code means
    it to.
  - The strengthening is `PublishedOK`. It records what `OidcAuth` and
    `GQCommitAuth` leave behind for each published PK Token: the token was
    issued and CIC-signed over its own CIC, and its `aud`, `nonce` and GQ
    signature match its mode. `SignaturesGrow` shows that no step removes a
    token or a signature. So a check that passed at publication still passes
    at every later verification.

### GithubOpProofs

- `GithubIInvInvariant`: an honest workflow's token that carries a
  commitment carries its own, and CIC signatures are only over the signer's
  own tokens.
- `GithubSoundTheorem`: `Spec => []GithubSound`. It uses the injectivity of
  the commitment and the assumption that other services' audiences are not
  commitments.

### SSHKeyFilesProofs

- `KeyFilesIInvariant`. When the user does not race a login:
  - the slot being written holds no user key;
  - every `.pub` with the openpubkey comment sits beside an openpubkey
    secret key.
- `UserSecretKeyKeptTheorem`: the action property `UserSecretKeyKept`
  follows, for any number of logins and crashes.

### CosignerProofs

**`CosignerIInvariant`.** `CosignerIInv` strengthens `TypeOK` with what each
goroutine's locals say about the maps:

- a pending `AuthStateMap` store holds a fresh authID that no other goroutine
  stores (`PendingSessionsFresh`);
- a pending `AuthCodeMap` store holds a fresh code for a stored session
  (`PendingCodesFresh`);
- a redeem in progress holds a stored code, its session and, once checked,
  that session's owner (`RedeemConsistent`).

It is proved with one lemma per handler step. `Crash` and stutter steps are
separate lemmas.

It also keeps `CosignedToOwner`: every cosignature went to the owner of the
PK Token it cosigns.

**The theorems that follow from it.**

- `CosignerTypeCorrect`: `Spec => []TypeOK`, from `CosignerIInv`.
- `CosignerRefinementTheorem`: `Spec => CosignerRefinement`. The initial
  state maps to `AInit`. `InitWriteEnd` maps to `Open`, `CodeWriteEnd` to
  `Approve`, `IssueSignature` to `Cosign`, and every other step to a stutter.
  `VisibleSteps` shows that only the ends of the two map writes and an
  `IssueSignature` change the maps or the cosignatures.

### CosAuthHandshakeProofs

- `HandshakeIInvariant`: `Spec => []HandshakeIInv`.
- `RedirectHasReceiverTheorem`: `Spec => []RedirectHasReceiver`, for every
  `MaxAttempts`.

`RedirectHasReceiver` is not inductive by itself. `HandshakeIInv` adds four
facts:

- past `RegisterHook`, the installed hook is the current call's;
- tokens are held only between the callback and the return;
- at the cosigner and at the send, the tokens are there;
- while a call holds tokens before the send, its own callback goroutine is
  blocked in the hook on its own channel.

The last fact is what the callback establishes. `OidcAuth` and
`MfaInitAuth` keep it, and the others show that no earlier call's goroutine
can take its place. There is one lemma per action.

### OpksshMainProofs

`LexicographicVersionCheck` covers every OpenSSH `maj.min` with
10 <= maj <= 79 and 0 <= min <= 99. For each of them, `AtLeast81` holds, yet
`isOpenSSHVersion8Dot1OrGreater` returns `(false, nil)` on what `sshd -V`
prints. The `opk_version` run finds one such version; the theorem covers all
of them.

The argument follows the function's calls through lemmas on the output's
layout:

- `OutputFacts`: where the digits, the dot, the `p` and the `", "` fall.
- `SplitFirstAt`: `Split` cuts at the first separator.
- `TrimAt`: `TrimPrefix` drops the `OpenSSH_` symbol.
- `CaptureAt`: the greedy capture stops at the `p`.
- `Pipeline`: the captured version is `maj.min`, byte for byte.
- Finally, the first byte of the version is a digit below `8`. So the string
  comparison with `"8.1"` already decides at the first byte.

No induction is needed, because the lemmas are about fixed positions.

### Only model-checked

- The violation runs' properties. `VersionWarningCorrect` is violated; the
  proof above shows the whole class of versions it is violated on, not the
  property itself.
- Liveness under fairness (`CallbackAnswered`, which is violated): TLAPS
  does not handle liveness under fairness or ENABLED.

## 6. Not modelled

- `retrieveOpenPort` (`main.go:225`): an OS port race, outside any model.
- `src/providers/azure.go`: option plumbing with no concurrent or
  persistent state.
- `src/client/mocks/oidp_server.go`: a test HTTP server.
- Key discovery and its cache, and token expiry and timestamps. The cosigner
  has no expiry to model, although spec 4.7 requires one (a hazard in
  `PROJECT.json`).
- JSON and Base64 encodings: no property tells encodings apart.
