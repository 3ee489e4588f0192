------------------------------ MODULE MCLogin ------------------------------
(* Small instances of Login for TLC. *)
EXTENDS Login

Edit(r, a, p) == [role |-> r, active |-> a, password |-> p]

\* A new administrator, an account disabled or enabled, a password changed.
SomeEdits == {Edit("admin", None, "pw1"), Edit(None, "no", None), Edit(None, "yes", None),
              Edit(None, None, "pw2")}
=============================================================================
