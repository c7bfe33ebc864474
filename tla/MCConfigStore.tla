---------------------------- MODULE MCConfigStore ----------------------------
(* ConfigStore with two valid behavior sections and one out of range. *)
EXTENDS ConfigStore

Section == {"default", "changed", "out_of_range"}
Valid   == {"default", "changed"}

\* Files that a careless user saves from the editor, and uploads.
CarelessEdits   == {[Defaults EXCEPT !.behavior = b] : b \in Section \ Valid}
CarelessUploads == {Other, Defaults}
=============================================================================
