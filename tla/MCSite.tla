------------------------------ MODULE MCSite ------------------------------
(* TLC's instance of Site: the organisation's certificates cover the installed name only *)
EXTENDS Site, TLC

Symmetry == Permutations(Admins)
===========================================================================
