------------------------------ MODULE MCReviews ------------------------------
(* Reviews on a small instance: two visitors, two reviews at once and, in the  *)
(* edition of the notes, two numbers that reports may be given.                *)
EXTENDS Reviews, TLC

MCEditions == {"songs", "urls", "notes"}

Symmetry == Permutations(Clients) \cup Permutations(Names) \cup Permutations(Threads)
            \cup Permutations(NoteIds)
=============================================================================
