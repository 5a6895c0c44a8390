------------------------------ MODULE MCValFaces ------------------------------
(* Instances of ValFaces: two areas besides the floodFace's. *)
EXTENDS ValFaces

MCArea == {"0", "a", "b"}
=============================================================================
