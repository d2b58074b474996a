----------------------------- MODULE MCUmlStore -----------------------------
(* A small instance of UmlStore: two uploads of one name, one of another.  *)
EXTENDS UmlStore

Source(t, c) == [type |-> t, content |-> c]
Event(e, g)  == [event |-> e, target |-> g]

MCUploads ==
  { [name |-> "a", schema |-> "s1",
     sources |-> <<Source(1, "p"), Source(1, "p"), Source(3, "q")>>,
     events |-> <<Event("e", "a"), Event("", "b"), Event("e", "b")>>],
    [name |-> "b", schema |-> "s2", sources |-> <<Source(2, "p")>>,
     events |-> <<Event("e", "a")>>],
    [name |-> "a", schema |-> "s3", sources |-> <<>>, events |-> <<>>] }

MCProjects == { <<"b", "none", "a">> }
=============================================================================
