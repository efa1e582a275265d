------------------------------ MODULE MCDomSync ------------------------------
(* DomSync for TLC: an instance is what its cfg lets happen.               *)
EXTENDS DomSync
=============================================================================
