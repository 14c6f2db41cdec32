---------------------------- MODULE MCMigration ----------------------------
(* Two RDMA threads deliver the images of three databases of one          *)
(* partition each; sem_ may start at 0, 1 or 2, so Start runs zero, one   *)
(* or two batches and images arrive while a batch is being recovered.     *)
EXTENDS Migration
MCSenders == {"r1", "r2"}
MCDbIds == {0, 1, 2}
MCParts == {"p1"}
=============================================================================
