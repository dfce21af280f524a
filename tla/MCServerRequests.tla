--------------------------- MODULE MCServerRequests ---------------------------
(***************************************************************************)
(* Two tries of one write and calls of the other routes; bodies within and *)
(* beyond every limit.                                                     *)
(***************************************************************************)
EXTENDS ServerRequests

MCRoute ==
  [r \in Requests |->
     CASE r \in {"try1", "try2"} -> "remember"
       [] OTHER -> r]

MCKey == [r \in Requests |-> IF r \in {"try1", "try2"} THEN "write" ELSE r]

MCConfig ==
  [dbTaskTimeout |-> 5, distillerTimeout |-> 2, reconstructorTimeout |-> 2,
   maxProjectLimit |-> 2, maxQueryTokens |-> 2, maxAuditLimit |-> 2]

MCBodies ==
  [limit : {0, 2, 3}, tokens : {2, 3}, steps : {2, 3}, reconstructs : BOOLEAN, given : BOOLEAN]
=============================================================================
