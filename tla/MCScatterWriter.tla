------------------------- MODULE MCScatterWriter --------------------------
(* Model-checking instance of ScatterWriter: three StoCs, tables of one to *)
(* four data blocks of one or two bytes plus a one-byte trailer.           *)
EXTENDS ScatterWriter

MCStoCs == {"s1", "s2", "s3"}
=============================================================================
