--------------------------- MODULE MCGrpcServer ---------------------------
(* The instance of GrpcServer that TLC checks: files that are inline on    *)
(* their own and not together, and artifacts of more blobs than there are  *)
(* places.                                                                 *)
EXTENDS GrpcServer

MCArtifacts == {<<2, 2, 1>>, <<3, 1>>, <<1>>}
=============================================================================
