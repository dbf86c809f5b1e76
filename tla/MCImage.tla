------------------------------ MODULE MCImage ------------------------------
(* Instances of Image.                                                     *)
EXTENDS Image

=============================================================================
