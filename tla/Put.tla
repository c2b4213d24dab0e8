---------------------------------- MODULE Put ----------------------------------
(***************************************************************************)
(* What a destination promises of the put of one file, and what BackupRun  *)
(* assumes of it (PutArchive, ArchivePutFails and their sidecar twins): a  *)
(* put that returns has stored the file in full; one that raises leaves    *)
(* what was there, a part of the file, or all of it; and each put ends.    *)
(***************************************************************************)

VARIABLES
  object,   \* under the key: "absent", "torn" or "whole"
  status    \* of the latest put: "none", "putting", "stored" or "failed"

vars == <<object, status>>

Init == object = "absent" /\ status = "none"

Begin ==
  /\ status # "putting"
  /\ status' = "putting"
  /\ UNCHANGED object

\* A request may reach the server after the client has given it up.
Land ==
  /\ status # "none"
  /\ object' \in IF status = "stored" THEN {"whole"} ELSE {"torn", "whole"}
  /\ UNCHANGED status

Return ==
  /\ status = "putting"
  /\ object = "whole"
  /\ status' = "stored"
  /\ UNCHANGED object

\* Its last request may have reached the server all the same.
Raise ==
  /\ status = "putting"
  /\ status' = "failed"
  /\ object' \in {object, "torn", "whole"}

Next == Begin \/ Land \/ Return \/ Raise

Spec == Init /\ [][Next]_vars /\ WF_vars(Return \/ Raise)
=============================================================================
