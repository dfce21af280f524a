-------------------------- MODULE MCVersionFamilies --------------------------
(***************************************************************************)
(* Instances of VersionFamilies.  The texts a and b are plain statements,  *)
(* u updates one of its neighbours and x invalidates one.                  *)
(***************************************************************************)
EXTENDS VersionFamilies

MCOp ==
  [t \in Texts |-> CASE t \in {"a", "b"} -> "add" [] t = "u" -> "update" [] t = "x" -> "invalidate"]
=============================================================================
