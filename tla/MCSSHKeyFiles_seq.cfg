\* Logins with the user acting only between them, with crashes.
CONSTANTS
  MaxLogins = 3
  UserRacesLogin = FALSE
SPECIFICATION Spec
PROPERTY UserSecretKeyKept
