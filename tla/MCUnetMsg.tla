------------------------------ MODULE MCUnetMsg ------------------------------
(* Instance of UnetMsg: two hosts; a name with a publisher on one and a    *)
(* subscriber on the other, and a name that nobody uses, which may be all  *)
(* that a host allows the other.                                           *)
EXTENDS UnetMsg

HomeOf == [c1 |-> "A", c2 |-> "B"]
UsesOf == [c1 |-> {<<"publish", "n">>}, c2 |-> {<<"subscribe", "n">>}]
=============================================================================
