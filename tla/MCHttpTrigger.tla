---------------------------- MODULE MCHttpTrigger ----------------------------
(***************************************************************************)
(* Values for HttpTrigger: strings, for the fields of the Trigger and of   *)
(* the answers are compared with strings.                                  *)
(***************************************************************************)
EXTENDS HttpTrigger

Cluster == {"team"}
Credentials == {"creds", "old"}
Urls == {"https://runs"}

\* As httptrigger.go:32 says, and as main builds it.
OwnNamespace == "team"
NoNamespace == ""
=============================================================================
