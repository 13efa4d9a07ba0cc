--------------------------- MODULE MCCertificates ---------------------------
(***************************************************************************)
(* Certificates with two issuers, so that one may follow another after a   *)
(* crash or overlap it after Shutdown, three certificates and a time in    *)
(* which the first one is renewed and a second one expires.                *)
(***************************************************************************)
EXTENDS Certificates
=============================================================================
