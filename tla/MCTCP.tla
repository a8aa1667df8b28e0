------------------------------- MODULE MCTCP -------------------------------
(* Small instances of TCP for TLC. *)
EXTENDS TCP

CONSTANTS client, server, conn

LocalPorts == [s \in {client, server} |-> IF s = client THEN 1 ELSE 2]
RemotePorts == [s \in {client} |-> 2]
CrossPorts == [s \in {client, server} |-> IF s = client THEN 2 ELSE 1]
OneEach == [p \in {1, 2} |-> 1]
TwoOneWay == [p \in {1, 2} |-> p]
ThreeOneWay == [p \in {1, 2} |-> IF p = 2 THEN 3 ELSE 1]
WR == {{"WR"}}
RD == {{"RD"}}

=============================================================================
