--------------------------- MODULE MCAuthSessions ---------------------------
(* A user with one tab, and an administrator with two; a second one exists. *)
EXTENDS AuthSessions

CONSTANTS user, a1, a2, b1, b2, t1, t2, t3

Owners == (b1 :> user) @@ (b2 :> a1)
TabBrowsers == (t1 :> b1) @@ (t2 :> b2) @@ (t3 :> b2)
Alike == Permutations({t2, t3})
=============================================================================
