----------------------------- MODULE MCIpcLink -----------------------------
(* Small jobs over bytes 0..2.  A byte has 3 values here, so 16 bits hold   *)
(* 0..8 and 32 bits 0..80: the long tags below are cut like 2^16 of them.  *)
EXTENDS IpcLink

Train(flag, tags, text) == [kind |-> "train", flag |-> flag, tags |-> tags, text |-> text]

MCJobs ==
  { Train(1, <<>>, <<2>>), Train(0, <<1, 2>>, <<0, 1>>), Train(1, <<2, 0>>, <<1>>),
    Train(1, [i \in 1..10 |-> 1 + (i % 2)], <<2>>),
    [kind |-> "list"],
    [kind |-> "table", table |-> <<1>>, filter |-> <<>>, offset |-> 10, limit |-> 5],
    [kind |-> "table", table |-> <<2>>, filter |-> <<1, 0, 2>>, offset |-> 0, limit |-> 4],
    [kind |-> "uml", name |-> <<1>>, schema |-> <<2, 0>>,
     sources |-> <<[type |-> 1, text |-> <<0>>], [type |-> 2, text |-> <<>>]>>,
     events |-> <<[event |-> <<1>>, target |-> <<2>>, type |-> 0, source |-> <<>>]>>] }
=============================================================================
