--------------------------- MODULE MCSSHKeyFiles ---------------------------
(* Model-checking instance of SSHKeyFiles: the constants come from the cfgs. *)
EXTENDS SSHKeyFiles
=============================================================================
