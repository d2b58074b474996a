--------------------------- MODULE MCAdminPipeline ---------------------------
(* Small instances of AdminPipeline: a request is named after its kind.    *)
EXTENDS AdminPipeline

KindByName == [r \in Requests |->
  CASE r \in {"learn1", "learn2"} -> "learn"
    [] r = "uml1"  -> "uml"   [] r = "save1"   -> "save"
    [] r = "list1" -> "blocks" [] r = "types1" -> "types"
    [] r = "table1" -> "table" [] r = "stop1"  -> "stop"]
=============================================================================
