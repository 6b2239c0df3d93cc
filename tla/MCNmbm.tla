------------------------------- MODULE MCNmbm -------------------------------
(* Instance of Nmbm: chips without and with factory bad blocks. *)
EXTENDS Nmbm

NewChips == {{}, {1}, {0, 1, 6}}
Attachers == {TRUE, FALSE}
=============================================================================
