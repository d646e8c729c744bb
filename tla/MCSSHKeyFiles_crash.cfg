\* The CLI is killed between the secret-key and the certificate writes.
CONSTANTS
  MaxLogins = 2
  UserRacesLogin = FALSE
SPECIFICATION Spec
INVARIANT SlotReclaimable
