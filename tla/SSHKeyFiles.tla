---------------------------- MODULE SSHKeyFiles ----------------------------
(***************************************************************************)
(* The example CLI's "login" command (src/main.go) stores the key pair it  *)
(* generated and the SSH certificate it obtained in ~/.ssh.  It looks for *)
(* a free default key slot (id_ecdsa, then id_dsa): a slot whose secret    *)
(* key file does not exist, or whose .pub file carries the comment         *)
(* "openpubkey" (a slot an earlier login wrote).  It then writes the      *)
(* secret key, and after it the .pub file with the certificate.            *)
(*                                                                         *)
(* A file's content is abstracted to who wrote it and, for the CLI, which  *)
(* login generated it: a secret key and a certificate match iff they come  *)
(* from the same login.  The user's own ssh-keygen and rm act on the same  *)
(* directory, possibly while a login is running (UserRacesLogin); the CLI  *)
(* may be killed between any two of its steps (Crash).                    *)
(***************************************************************************)
EXTENDS Naturals, Sequences

CONSTANTS
  MaxLogins,        \* number of logins explored
  UserRacesLogin    \* may the user change ~/.ssh while a login runs?

ASSUME KeyFilesAssumption ==
  /\ MaxLogins \in Nat \ {0}
  /\ UserRacesLogin \in BOOLEAN

\* The slots of writeKeysToSSHDir, in the order the loop tries them.
SlotNames == <<"id_ecdsa", "id_dsa">>
Slots == DOMAIN SlotNames

Absent == [absent |-> TRUE]
\* A file written by the user (ssh-keygen) or by a login of the CLI.  A .pub
\* file the CLI wrote ends in " openpubkey"; the user's does not.
UserFile == [owner |-> "user", gen |-> 0]
OpkFile(g) == [owner |-> "opk", gen |-> g]
Files == {Absent, UserFile} \cup {OpkFile(g) : g \in 1..MaxLogins}

\* fileExists: os.Open succeeds.
FileExists(f) == f # Absent

\* The split on " " gives three fields and the third contains "openpubkey".
HasOpkComment(f) == FileExists(f) /\ f.owner = "opk"

VARIABLES
  seckey,   \* slot -> the secret key file ~/.ssh/<slot>
  pub,      \* slot -> the certificate file ~/.ssh/<slot>.pub
  pc,       \* the CLI: "idle", "scan" (the loop), "writeSec", "writePub"
  slot,     \* the loop index
  login     \* number of logins started; the current one's key is its gen

vars == <<seckey, pub, pc, slot, login>>

TypeOK ==
  /\ seckey \in [Slots -> Files]
  /\ pub \in [Slots -> Files]
  /\ pc \in {"idle", "scan", "writeSec", "writePub"}
  /\ slot \in 1..Len(SlotNames) + 1
  /\ login \in 0..MaxLogins

\* A home directory holds any combination of the user's own keys.
Init ==
  /\ seckey \in [Slots -> {Absent, UserFile}]
  /\ pub \in [Slots -> {Absent, UserFile}]
  /\ pc = "idle"
  /\ slot = 1
  /\ login = 0

(***************************************************************************)
(* createSSHCert: a fresh key pair, the PK Token and the certificate.  The *)
(* login's key and certificate are those of generation login'.            *)
(***************************************************************************)
StartLogin ==
  /\ pc = "idle"
  /\ login < MaxLogins
  /\ login' = login + 1
  /\ pc' = "scan"
  /\ slot' = 1
  /\ UNCHANGED <<seckey, pub>>

(***************************************************************************)
(* One iteration of the loop of writeKeysToSSHDir, or its end.  The slot  *)
(* is chosen here; writeKeys writes it in later steps.                    *)
(***************************************************************************)
\* Mutant: any existing .pub file is taken as a slot openpubkey wrote.
ScanSlotAnyPub ==
  /\ pc = "scan"
  /\ \/ /\ slot > Len(SlotNames)
        /\ pc' = "idle" /\ UNCHANGED slot
     \/ /\ slot <= Len(SlotNames)
        /\ ~FileExists(seckey[slot]) \/ FileExists(pub[slot])
        /\ pc' = "writeSec" /\ UNCHANGED slot
     \/ /\ slot <= Len(SlotNames)
        /\ FileExists(seckey[slot]) /\ ~FileExists(pub[slot])
        /\ slot' = slot + 1 /\ UNCHANGED pc
  /\ UNCHANGED <<seckey, pub, login>>

\* The loop body for one slot, or the error after the loop ("no default
\* ssh key file free for openpubkey").  A missing secret key file, or a
\* .pub file whose comment contains "openpubkey", selects the slot; a
\* missing .pub file, another comment, or a failed os.ReadFile moves on.
ScanSlot ==
  /\ pc = "scan"
  /\ \/ /\ slot > Len(SlotNames)
        /\ pc' = "idle" /\ UNCHANGED slot
     \/ /\ slot <= Len(SlotNames)
        /\ ~FileExists(seckey[slot]) \/ HasOpkComment(pub[slot])
        /\ pc' = "writeSec" /\ UNCHANGED slot
     \/ /\ slot <= Len(SlotNames)
        /\ FileExists(seckey[slot]) /\ ~HasOpkComment(pub[slot])
        /\ slot' = slot + 1 /\ UNCHANGED pc
     \/ /\ slot <= Len(SlotNames)
        /\ FileExists(seckey[slot]) /\ FileExists(pub[slot])
        /\ slot' = slot + 1 /\ UNCHANGED pc
  /\ UNCHANGED <<seckey, pub, login>>

\* writeKeys: os.WriteFile of the secret key (0600) ...
WriteSeckey ==
  /\ pc = "writeSec"
  /\ seckey' = [seckey EXCEPT ![slot] = OpkFile(login)]
  /\ pc' = "writePub"
  /\ UNCHANGED <<pub, slot, login>>

\* ... then of the certificate with the comment " openpubkey" (0777).
WritePub ==
  /\ pc = "writePub"
  /\ pub' = [pub EXCEPT ![slot] = OpkFile(login)]
  /\ pc' = "idle"
  /\ UNCHANGED <<seckey, slot, login>>

\* The CLI is killed (signal, power loss) between two steps, or a write of
\* writeKeys fails (disk full) and the error is returned; files stay.
Crash ==
  /\ pc # "idle"
  /\ pc' = "idle"
  /\ UNCHANGED <<seckey, pub, slot, login>>

\* The user runs ssh-keygen for a slot that has no key.
UserKeygen(s) ==
  /\ UserRacesLogin \/ pc = "idle"
  /\ ~FileExists(seckey[s])
  /\ seckey' = [seckey EXCEPT ![s] = UserFile]
  /\ pub' = [pub EXCEPT ![s] = UserFile]
  /\ UNCHANGED <<pc, slot, login>>

\* The user removes a key pair.
UserRemove(s) ==
  /\ UserRacesLogin \/ pc = "idle"
  /\ FileExists(seckey[s]) \/ FileExists(pub[s])
  /\ seckey' = [seckey EXCEPT ![s] = Absent]
  /\ pub' = [pub EXCEPT ![s] = Absent]
  /\ UNCHANGED <<pc, slot, login>>

Next ==
  \/ StartLogin
  \/ ScanSlot
  \/ WriteSeckey
  \/ WritePub
  \/ Crash
  \/ \E s \in Slots : UserKeygen(s) \/ UserRemove(s)

Spec == Init /\ [][Next]_vars

-----------------------------------------------------------------------------
(***************************************************************************)
(* Properties.                                                             *)
(***************************************************************************)

\* A secret key the user generated is never replaced by one the CLI writes:
\* writeKeysToSSHDir only takes a slot that is free or that it wrote before.
\* Only the user's own rm may make it go away.
UserSecretKeyKept ==
  [][\A s \in Slots :
       seckey[s] = UserFile /\ seckey'[s] # UserFile => seckey'[s] = Absent]_vars

\* Whenever no login is running, a secret key the CLI wrote sits beside a
\* .pub file with the "openpubkey" comment, so that the next login, which
\* recognises its own slots by that comment, can reuse the slot.
SlotReclaimable ==
  pc = "idle" =>
    \A s \in Slots :
      FileExists(seckey[s]) /\ seckey[s].owner = "opk" => HasOpkComment(pub[s])

(* The strengthening that makes UserSecretKeyKept provable when the user *)
(* does not race a login: the slot a login is writing holds no key of    *)
(* the user's, and a .pub file with the "openpubkey" comment sits beside *)
(* a secret key the CLI wrote.                                          *)
OpkFiles == {OpkFile(g) : g \in 1..MaxLogins}
KeyFilesIInv ==
  /\ TypeOK
  /\ pc # "idle" => login # 0
  /\ pc \in {"writeSec", "writePub"} => slot \in Slots
  /\ pc = "writeSec" => seckey[slot] # UserFile
  /\ pc = "writePub" => seckey[slot] \in OpkFiles
  /\ \A s \in Slots : HasOpkComment(pub[s]) => seckey[s] \in OpkFiles

=============================================================================
