-------------------------- MODULE MCRefreshTokens --------------------------
(* Small instances of RefreshTokens for TLC.                               *)
EXTENDS RefreshTokens, TLC

Interchangeable == Permutations(Tokens) \cup Permutations(Requests)
=============================================================================
