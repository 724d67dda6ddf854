---------------------------- MODULE MCOAuthRefresh -----------------------------
(* Two connections, which are alike, and a validation. *)
EXTENDS OAuthRefresh, TLC

CONSTANTS c1, c2, v1

MCConnects == {c1, c2}
MCValidations == {v1}
Alike == Permutations(MCConnects)
================================================================================
