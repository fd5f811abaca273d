---------------------------- MODULE MCUploadClient ----------------------------
(* One browser: the file manager, which looks for duplicates first, and a      *)
(* drop share two large files in every way.                                    *)
EXTENDS UploadClient
CONSTANTS fileManager, drop
MCWorkloads == {[k \in {fileManager, drop} |-> IF k = drop THEN n ELSE 2 - n] : n \in 0..2}
=============================================================================
