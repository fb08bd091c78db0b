------------------------------ MODULE Pointers ------------------------------
(* The null pointer of the C code: an absent inode, entry or artifact.     *)
CONSTANT NULL
=============================================================================
