------------------------------- MODULE MCOtp -------------------------------
(* Instances of Otp for TLC. *)
EXTENDS Otp, TLC

CONSTANTS mail, s1, s2

\* Nobody has the email yet, or somebody does, whom an admin may have locked.
FreeOrTaken ==
  {{}} \cup {{[id |-> None, email |-> mail, secret |-> s1, status |-> s]} :
              s \in {"ACTIVE", "LOCKED"}}

Symmetry == Permutations(Requests) \cup Permutations(Codes)
=============================================================================
