----------------------------- MODULE MCSessions ----------------------------
(* Sessions with versions in every range of patches, and between them.     *)
EXTENDS Sessions

MCRelease == <<"1.6.4", "1.7", "1.11.2", "1.12", "1.16.5", "20w45a", "1.17", "1.18.1", "1.20">>

MCUsed == {"1.11.2", "1.16.5", "20w45a", "1.17"}
=============================================================================
