---------------------------- MODULE MCSessionLock ----------------------------
(* The watch and one request after another, two looks to the away time.      *)
EXTENDS SessionLock
===============================================================================
