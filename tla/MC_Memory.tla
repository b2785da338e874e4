------------------------------- MODULE MC_Memory -------------------------------
(* Memory with signed sbrk arguments, which a .cfg cannot write. *)
EXTENDS Memory

\* Shrinking and growing steps, inside a page and across page edges.
MCDeltas == {-3, -1, 0, 1, 3}

====
