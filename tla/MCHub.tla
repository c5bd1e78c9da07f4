-------------------------------- MODULE MCHub --------------------------------
(***************************************************************************)
(* Small instances of Hub for TLC.                                         *)
(***************************************************************************)
EXTENDS Hub

CONSTANTS p1, c1, c2, i1, i2

SameProvider == [c \in Connections |-> p1]

\* A provider with a node on each of two machines.
NodeEach == [c \in Connections |-> IF c = c1 THEN i1 ELSE i2]

\* A node that connects, and connects again.
SameNode == [c \in Connections |-> i1]

-----------------------------------------------------------------------------
(***************************************************************************)
(* docs/provider-node/07_provider_node_spec.md:224: a node whose           *)
(* connection is established and being read is available: the hub finds a  *)
(* connection of its provider.                                             *)
(***************************************************************************)
ConnectedIsAvailable ==
    \A c \in open :
        reader[c] = "reading" => providers[ProviderOf[c]] # NoConnection
=============================================================================
