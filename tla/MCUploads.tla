------------------------------ MODULE MCUploads ------------------------------
(* An instance of Uploads: two pages that upload files of one name, one of them *)
(* where there is a file of that name.                                          *)
EXTENDS Uploads, TLC

CONSTANTS t1, t2

MCFile(name, size) == [name |-> name, size |-> size]

MCChosen == (t1 :> <<MCFile("a", 2), MCFile("b", 1)>>) @@ (t2 :> <<MCFile("a", 2)>>)

MCBefore == {<<"b", 0>>}
=============================================================================
