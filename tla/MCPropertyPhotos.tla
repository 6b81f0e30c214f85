--------------------------- MODULE MCPropertyPhotos ----------------------------
(***************************************************************************)
(* Small galleries for TLC.  Photo ids and requests are interchangeable.   *)
(***************************************************************************)
EXTENDS PropertyPhotos, TLC

Symmetric == Permutations(Photos) \union Permutations(Requests)
================================================================================
