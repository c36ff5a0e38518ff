--------------------------- MODULE MCGraphqlPath ----------------------------
(* Small instances of GraphqlPath for TLC.                                        *)
EXTENDS GraphqlPath
=============================================================================
