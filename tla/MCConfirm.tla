------------------------------ MODULE MCConfirm ------------------------------
(* Instances of Confirm for TLC: requests a and b. *)
EXTENDS Confirm

CONSTANTS a, b

\* Humans may change their mind about a, and only ever approve b.
AnyOfA == {<<a, "approved">>, <<a, "denied">>, <<b, "approved">>}
=============================================================================
