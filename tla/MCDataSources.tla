------------------------------ MODULE MCDataSources ------------------------------
(***************************************************************************)
(* TLC instances of DataSources on its own, for what it does not promise:  *)
(* a generic file that gates the optimizer, and two operators of whom      *)
(* neither is a platform admin.                                            *)
(***************************************************************************)
EXTENDS DataSources

CONSTANTS file, alice, bob

MCKind == [c \in Connectors |-> "data_table"]
=============================================================================
