---------------------------- MODULE MCWebUploads ----------------------------
(* WebUploads with interchangeable requests for two files. *)
EXTENDS WebUploads, TLC

Interchangeable == Permutations(Requests)
=============================================================================
