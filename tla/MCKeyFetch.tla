------------------------------ MODULE MCKeyFetch ------------------------------
(* TLC instance of KeyFetch: every object of up to three services over three *)
(* servers, every threshold, every set of configured and of honest servers.  *)
EXTENDS KeyFetch
=============================================================================
