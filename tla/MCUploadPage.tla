---------------------------- MODULE MCUploadPage ----------------------------
(* Small instances of UploadPage: the files are the uploads learn1 and     *)
(* learn2, table1 and learn3 are requests of another browser.              *)
EXTENDS UploadPage

KindByName == [r \in Requests |-> CASE r = "table1" -> "table"
                                    [] r = "stop1"  -> "stop"
                                    [] OTHER -> "learn"]
OneFile  == <<"learn1">>
TwoFiles == <<"learn1", "learn2">>
=============================================================================
