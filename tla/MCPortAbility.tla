--------------------------- MODULE MCPortAbility ---------------------------
(* PortAbility on two ports.                                                *)
EXTENDS PortAbility

CONSTANTS p0, p1

ASSUME Port = {p0, p1} /\ PortZero = p0
=============================================================================
