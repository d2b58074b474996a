------------------------------ MODULE MCLifecycle ------------------------------
(* Small instances of Lifecycle.                                           *)
EXTENDS Lifecycle, TLC

CONSTANTS list1, list2, compose1, search1, prompt1

KindOfVisitor == (list1 :> "list") @@ (list2 :> "list") @@ (compose1 :> "compose")
                 @@ (search1 :> "search") @@ (prompt1 :> "prompt")

MCKindOf == [r \in Requests |-> KindOfVisitor[r]]
=============================================================================
