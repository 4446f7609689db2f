--------------------------- MODULE MCSqlSavepoints ---------------------------
(* One session nesting savepoints in a transaction, a fetch against it. *)
EXTENDS SqlProduce

CONSTANT s1

MCSessions == {s1}
=============================================================================
