----------------------------- MODULE MCScanner -----------------------------
(* Scanner with a plain name that is uploaded with two contents, a tar whose  *)
(* member has that name, and a zip.                                          *)
EXTENDS Scanner, TLC

Symmetry == Permutations(Reqs)

MCUploads == {<<"a.txt", "odd">>, <<"a.txt", "bad">>, <<"b.tar", "tar">>, <<"c.zip", "zip">>}
MCInside == "tar" :> <<"a.txt", "bad">> @@ "zip" :> <<"a.txt", "odd">>
=============================================================================
