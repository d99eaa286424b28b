------------------------ MODULE MCServiceSequential ------------------------
(***************************************************************************)
(* Calls of the service, one at a time, and what the memory store makes of *)
(* what they write.                                                        *)
(***************************************************************************)
EXTENDS MCRoleProvider, TwoStores
=============================================================================
