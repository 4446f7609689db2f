--------------------------- MODULE MCWireExchange ---------------------------
(***************************************************************************)
(* Every API that is advertised or dispatched, at every version around the *)
(* ones the schemas define.                                                *)
(***************************************************************************)
EXTENDS WireExchange

MCKeys == {a[1] : a \in ADVERTISED} \cup {d[1] : d \in Dispatched}

=============================================================================
