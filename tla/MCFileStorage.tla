---------------------------- MODULE MCFileStorage ----------------------------
(* Values for the small instances of FileStorage. *)
EXTENDS FileStorage, TLC

CONSTANTS r1, r2, r3, f1, f2, f3, k, c1, c2

\* Two uploads with one key, the second with the same content or another, and one without.
BatchOf == (r1 :> {f1}) @@ (r2 :> {f2}) @@ (r3 :> {f3})
KeyOf == (r1 :> k) @@ (r2 :> k) @@ (r3 :> None)
Versions == (r1 :> {c1}) @@ (r2 :> {c1, c2}) @@ (r3 :> {c1})
=============================================================================
