---------------------------- MODULE MCFileUpload ----------------------------
(* Instances of FileUpload for TLC. *)
EXTENDS FileUpload, TLC

UploadSymmetry == Permutations(Uploads \ Unfit)
=============================================================================
