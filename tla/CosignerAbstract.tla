--------------------------- MODULE CosignerAbstract ---------------------------
(***************************************************************************)
(* What the MFA cosigner promises, with no goroutines, maps or messages: *)
(* sessions are opened for the owner of a PK Token under fresh authIDs,  *)
(* each MFA check that passes approves a fresh authcode for one session, *)
(* and a cosignature is issued only for an approved authcode, over the   *)
(* PK Token of the session it was approved for and to that token's      *)
(* owner.  It is the promise the code keeps: an approved authcode may be *)
(* redeemed more than once (spec 4.7 wants it single-use).               *)
(***************************************************************************)
CONSTANTS
  Owners,    \* owners of PK Tokens
  AuthIDs,   \* session identifiers
  Codes      \* authcodes

VARIABLES
  sessions,  \* authID -> owner of the session's PK Token
  approved,  \* authcode -> the authID whose MFA check it completes
  cosigned   \* cosignatures issued: [code, pkt, to]

avars == <<sessions, approved, cosigned>>

\* f extended with k |-> v.
Extend(f, k, v) == [x \in DOMAIN f \cup {k} |-> IF x = k THEN v ELSE f[x]]

AInit ==
  /\ sessions = [x \in {} |-> Owners]
  /\ approved = [x \in {} |-> AuthIDs]
  /\ cosigned = {}

\* A session is opened under an authID never used before.
Open(id, u) ==
  /\ id \notin DOMAIN sessions
  /\ sessions' = Extend(sessions, id, u)
  /\ UNCHANGED <<approved, cosigned>>

\* The MFA check of an open session passes: a fresh authcode approves it.
Approve(id, c) ==
  /\ id \in DOMAIN sessions
  /\ c \notin DOMAIN approved
  /\ approved' = Extend(approved, c, id)
  /\ UNCHANGED <<sessions, cosigned>>

\* An approved authcode is redeemed by its session's owner.
Cosign(c) ==
  /\ c \in DOMAIN approved
  /\ cosigned' = cosigned \cup {[code |-> c, pkt |-> sessions[approved[c]],
                                 to |-> sessions[approved[c]]]}
  /\ UNCHANGED <<sessions, approved>>

ANext ==
  \/ \E id \in AuthIDs, u \in Owners : Open(id, u)
  \/ \E id \in AuthIDs, c \in Codes : Approve(id, c)
  \/ \E c \in Codes : Cosign(c)

ASpec == AInit /\ [][ANext]_avars

=============================================================================
