----------------------------- MODULE MCXClient -----------------------------
(***************************************************************************)
(* Small instances of XClient: a Broadcast to two or three servers, and a  *)
(* user of Call beside it.                                                 *)
(***************************************************************************)
EXTENDS XClient

CONSTANTS s1, s2, s3, u   \* model values

MCTwo == {s1, s2}
MCThree == {s1, s2, s3}
MCUser == {u}
MCNone == {}
=============================================================================
