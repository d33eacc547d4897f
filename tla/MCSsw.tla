------------------------------- MODULE MCSsw -------------------------------
(* Ssw on small instances. *)
EXTENDS Ssw
=============================================================================
