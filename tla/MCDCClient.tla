---------------------------- MODULE MCDCClient -----------------------------
(* Model-checking instance of DCClient: a 2-bit request id (ids 1..3) and  *)
(* five requests, so the id wraps, skips 0 and is reused while earlier     *)
(* requests are still in flight.                                           *)
EXTENDS DCClient
=============================================================================
