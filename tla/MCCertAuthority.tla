--------------------------- MODULE MCCertAuthority ---------------------------
(* Model-checking instance of CertAuthority, with the constants of        *)
(* MCProviderVerifier.                                                    *)
EXTENDS MCProviderVerifier, CertAuthority
=============================================================================
