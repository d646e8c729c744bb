--------------------------- MODULE SSHKeyFilesProofs ---------------------------
(***************************************************************************)
(* Proofs about SSHKeyFiles for every number of logins: when the user    *)
(* does not change ~/.ssh while a login runs, writeKeysToSSHDir never    *)
(* replaces a secret key the user generated, crashes included.           *)
(***************************************************************************)
EXTENDS SSHKeyFiles, TLAPS

\* The step UserSecretKeyKept constrains.
KeptStep ==
  \A s \in Slots :
    seckey[s] = UserFile /\ seckey'[s] # UserFile => seckey'[s] = Absent

LEMMA SlotFacts == Len(SlotNames) = 2 /\ Slots = 1..2
BY DEF SlotNames, Slots

LEMMA FileFacts ==
  /\ UserFile \in Files /\ Absent \in Files /\ UserFile # Absent
  /\ OpkFiles \subseteq Files /\ UserFile \notin OpkFiles
  /\ Absent \notin OpkFiles
BY DEF UserFile, Absent, Files, OpkFiles, OpkFile

LEMMA IInvInit == Init => KeyFilesIInv
<1> SUFFICES ASSUME Init PROVE KeyFilesIInv
  OBVIOUS
<1>1. TypeOK
  BY SlotFacts, FileFacts, KeyFilesAssumption DEF Init, TypeOK
<1>2. \A s \in Slots : ~HasOpkComment(pub[s])
  BY DEF Init, HasOpkComment, FileExists, UserFile, Absent
<1> QED
  BY <1>1, <1>2 DEF Init, KeyFilesIInv

\* Each step preserves the strengthening when the user does not race.
LEMMA IInvStep ==
  ~UserRacesLogin /\ KeyFilesIInv /\ [Next]_vars => KeyFilesIInv'
<1> SUFFICES ASSUME ~UserRacesLogin, KeyFilesIInv, [Next]_vars
             PROVE  KeyFilesIInv'
  OBVIOUS
<1> USE SlotFacts, FileFacts, KeyFilesAssumption
<1>1. CASE StartLogin
  BY <1>1 DEF StartLogin, KeyFilesIInv, TypeOK
<1>2. CASE ScanSlot
  <2>1. TypeOK'
    BY <1>2 DEF ScanSlot, KeyFilesIInv, TypeOK
  <2>2. pc' = "writeSec" => slot' \in Slots /\ seckey'[slot'] # UserFile
    BY <1>2 DEF ScanSlot, KeyFilesIInv, TypeOK, HasOpkComment, FileExists
  <2> QED
    BY <1>2, <2>1, <2>2 DEF ScanSlot, KeyFilesIInv
<1>3. CASE WriteSeckey
  <2>1. slot \in Slots /\ seckey' = [seckey EXCEPT ![slot] = OpkFile(login)]
    BY <1>3 DEF WriteSeckey, KeyFilesIInv
  <2>2. login \in 1..MaxLogins
    \* A login in progress was started: login > 0.
    <3>1. login \in 0..MaxLogins
      BY DEF KeyFilesIInv, TypeOK
    <3>2. login # 0
      BY <1>3 DEF KeyFilesIInv, TypeOK, WriteSeckey
    <3> QED
      BY <3>1, <3>2
  <2>3. OpkFile(login) \in OpkFiles
    BY <2>2 DEF OpkFiles
  <2>4. TypeOK'
    BY <1>3, <2>1, <2>3 DEF WriteSeckey, KeyFilesIInv, TypeOK
  <2>5. \A s \in Slots : HasOpkComment(pub'[s]) => seckey'[s] \in OpkFiles
    BY <1>3, <2>1, <2>3 DEF WriteSeckey, KeyFilesIInv, TypeOK
  <2>6. pc' = "writePub" /\ slot' = slot /\ login' = login
    BY <1>3 DEF WriteSeckey
  <2>7. seckey'[slot'] \in OpkFiles
    BY <2>1, <2>3, <2>6 DEF KeyFilesIInv, TypeOK
  <2> QED
    BY <2>2, <2>1, <2>4, <2>5, <2>6, <2>7 DEF KeyFilesIInv
<1>4. CASE WritePub
  <2>1. slot \in Slots /\ seckey[slot] \in OpkFiles
    BY <1>4 DEF WritePub, KeyFilesIInv
  <2>2. pub' = [pub EXCEPT ![slot] = OpkFile(login)] /\ login \in 1..MaxLogins
    <3>1. login # 0
      BY <1>4 DEF KeyFilesIInv, TypeOK, WritePub
    <3> QED
      BY <1>4, <3>1 DEF WritePub, KeyFilesIInv, TypeOK
  <2>3. TypeOK'
    BY <1>4, <2>1, <2>2 DEF WritePub, KeyFilesIInv, TypeOK, Files, OpkFile
  <2>4. \A s \in Slots : HasOpkComment(pub'[s]) => seckey'[s] \in OpkFiles
    BY <1>4, <2>1, <2>2 DEF WritePub, KeyFilesIInv, TypeOK
  <2> QED
    BY <1>4, <2>3, <2>4 DEF WritePub, KeyFilesIInv
<1>5. CASE Crash
  BY <1>5 DEF Crash, KeyFilesIInv, TypeOK
<1>6. ASSUME NEW s \in Slots, UserKeygen(s) PROVE KeyFilesIInv'
  <2>1. pc = "idle"
    BY <1>6 DEF UserKeygen
  <2>2. TypeOK'
    BY <1>6 DEF UserKeygen, KeyFilesIInv, TypeOK
  <2>3. \A x \in Slots : HasOpkComment(pub'[x]) => seckey'[x] \in OpkFiles
    BY <1>6 DEF UserKeygen, KeyFilesIInv, TypeOK, HasOpkComment, FileExists,
                UserFile, Absent
  <2> QED
    BY <1>6, <2>1, <2>2, <2>3 DEF UserKeygen, KeyFilesIInv
<1>7. ASSUME NEW s \in Slots, UserRemove(s) PROVE KeyFilesIInv'
  <2>1. pc = "idle"
    BY <1>7 DEF UserRemove
  <2>2. TypeOK'
    BY <1>7 DEF UserRemove, KeyFilesIInv, TypeOK
  <2>3. \A x \in Slots : HasOpkComment(pub'[x]) => seckey'[x] \in OpkFiles
    BY <1>7 DEF UserRemove, KeyFilesIInv, TypeOK, HasOpkComment, FileExists
  <2> QED
    BY <1>7, <2>1, <2>2, <2>3 DEF UserRemove, KeyFilesIInv
<1>8. CASE UNCHANGED vars
  BY <1>8 DEF vars, KeyFilesIInv, TypeOK, HasOpkComment, FileExists
<1> QED
  BY <1>1, <1>2, <1>3, <1>4, <1>5, <1>6, <1>7, <1>8 DEF Next

\* No step replaces a user's secret key except by its removal.
LEMMA KeptByStep == KeyFilesIInv /\ [Next]_vars => [KeptStep]_vars
<1> SUFFICES ASSUME KeyFilesIInv, [Next]_vars PROVE [KeptStep]_vars
  OBVIOUS
<1> USE SlotFacts, FileFacts, KeyFilesAssumption
<1>1. CASE WriteSeckey
  <2>1. slot \in Slots /\ seckey[slot] # UserFile
        /\ seckey' = [seckey EXCEPT ![slot] = OpkFile(login)]
    BY <1>1 DEF WriteSeckey, KeyFilesIInv
  <2> QED
    BY <2>1 DEF KeptStep, KeyFilesIInv, TypeOK
<1>2. ASSUME NEW s \in Slots, UserRemove(s) PROVE [KeptStep]_vars
  BY <1>2 DEF UserRemove, KeptStep, KeyFilesIInv, TypeOK
<1>3. ASSUME NEW s \in Slots, UserKeygen(s) PROVE [KeptStep]_vars
  BY <1>3 DEF UserKeygen, KeptStep, KeyFilesIInv, TypeOK
<1>4. CASE StartLogin \/ ScanSlot \/ WritePub \/ Crash \/ UNCHANGED vars
  BY <1>4 DEF StartLogin, ScanSlot, WritePub, Crash, vars, KeptStep
<1> QED
  BY <1>1, <1>2, <1>3, <1>4 DEF Next

(* KeyFilesIInv holds in every reachable state when the user leaves      *)
(* ~/.ssh alone while a login runs.                                      *)
THEOREM KeyFilesIInvariant == ~UserRacesLogin => (Spec => []KeyFilesIInv)
<1> SUFFICES ASSUME ~UserRacesLogin PROVE Spec => []KeyFilesIInv
  OBVIOUS
<1>1. KeyFilesIInv /\ [Next]_vars => KeyFilesIInv'
  BY IInvStep
<1> QED
  BY <1>1, IInvInit, PTL DEF Spec

(* writeKeysToSSHDir never overwrites a secret key the user generated,   *)
(* whatever the number of logins and wherever the CLI crashes, as long   *)
(* as the user does not run ssh-keygen while a login is running.         *)
THEOREM UserSecretKeyKeptTheorem == ~UserRacesLogin => (Spec => UserSecretKeyKept)
<1> SUFFICES ASSUME ~UserRacesLogin PROVE Spec => UserSecretKeyKept
  OBVIOUS
<1>1. Spec => []KeyFilesIInv
  BY KeyFilesIInvariant
<1>2. KeyFilesIInv /\ [Next]_vars => [KeptStep]_vars
  BY KeptByStep
<1> QED
  BY <1>1, <1>2, PTL DEF Spec, UserSecretKeyKept, KeptStep
=============================================================================
