------------------------------ MODULE MCGateway ------------------------------
(***************************************************************************)
(* Two coordinators behind one gateway. e1 is behind a vendor profile with *)
(* a collection round, e2 is not known before its model 1 was read.        *)
(***************************************************************************)
EXTENDS GatewayProperties, TLC

CONSTANTS e1, e2, p1, p2, p3, w1

OwnerOf == [t \in Task |-> IF t \in {p1, p3, w1} THEN e1 ELSE e2]
=============================================================================
