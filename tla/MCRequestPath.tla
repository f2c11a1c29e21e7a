--------------------------- MODULE MCRequestPath ---------------------------
(* Instances of RequestPath for TLC. *)
EXTENDS RequestPath, TLC

CONSTANTS c, n1, n2

\* One client, that may write in one namespace and read in the other.
TwoGrants == {<<c, n1, "write">>, <<c, n2, "read">>}
=============================================================================
