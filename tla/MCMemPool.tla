----------------------------- MODULE MCMemPool -----------------------------
(* Instances of MemPool for TLC.                                           *)
EXTENDS MemPool

\* Places below, between and above the first block, some back to back.
SomeAddresses == {0, 4, 10, 14, 20, 26}
=============================================================================
