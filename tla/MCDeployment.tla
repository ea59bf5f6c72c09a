---------------------------- MODULE MCDeployment ----------------------------
(***************************************************************************)
(* The paths of some of the built-in applications (BUILTIN_APPS), for the  *)
(* model checker: targets of one host, whose paths meet.                   *)
(***************************************************************************)
EXTENDS Deployment

CONSTANTS K, C, H  \* places on the host

\* A file for each.
Apache == [key |-> K, certificate |-> C, chain |-> H]

\* The chain is written over the certificate.
Nginx == [key |-> K, certificate |-> C, chain |-> C]

\* The certificate is written over the key, and there is no chain.
Haproxy == [key |-> C, certificate |-> C, chain |-> Null]

BuiltinApps == {Apache, Nginx, Haproxy}

=============================================================================
