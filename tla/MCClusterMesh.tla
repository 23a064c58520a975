--------------------------- MODULE MCClusterMesh ---------------------------
(* Small meshes for TLC.  The ids are far enough apart for the clusterIDs   *)
(* of different nodes not to collide.                                        *)
EXTENDS ClusterMesh

Three == {10, 20, 30}
Four  == {10, 20, 30, 40}
=============================================================================
