------------------------------ MODULE MCPorts ------------------------------
(* An instance of Ports.                                                   *)
EXTENDS Ports

(* 9600 and 300 bits per second.                                           *)
MCOldDivisors == {<<12, 0>>, <<128, 1>>}
=============================================================================
