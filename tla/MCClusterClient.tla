--------------------------- MODULE MCClusterClient ---------------------------
(* A client looking for the leader of two nodes.                           *)
EXTENDS ClusterClient

CONSTANTS n1, n2

FullMesh == Server \X Server

\* Leadership goes from n1 to n2 and back.
BackAndForth == {<<n1, 1>>, <<n2, 2>>, <<n1, 3>>}

N2First == <<n2, n1>>

=============================================================================
