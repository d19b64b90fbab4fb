------------------------------- MODULE Severity -------------------------------
(***************************************************************************)
(* The severity groups of the row limit, in the order in which it deletes  *)
(* from them: the queue deletes by them, and the runtime names its levels  *)
(* so that each is in one.                                                 *)
(***************************************************************************)

SeverityGroups == <<{"debug", "info"}, {"warning"}, {"error"}, {"fault"}>>
=============================================================================
