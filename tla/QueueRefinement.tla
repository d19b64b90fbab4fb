--------------------------- MODULE QueueRefinement ---------------------------
(***************************************************************************)
(* The table of QueueRepository keeps the promise of UploadQueue, as long  *)
(* as one process uses it and no transaction is left open: with two        *)
(* processes a failure report may free a row that another batch has by     *)
(* then, and an open transaction may take an accepted event back.          *)
(***************************************************************************)
EXTENDS QueueRepository

ASSUME PlaceAssumption == Batch \cap {"new", "waiting", "rejected", "gone"} = {}

(* A row that is not in the table was not inserted yet, or was removed. *)
PlaceOf(i) ==
    CASE queue[i].state = "absent"    -> IF i < nextId THEN "gone" ELSE "new"
      [] queue[i].state = "pending"   -> "waiting"
      [] queue[i].state = "dropped"   -> "rejected"
      [] queue[i].state = "uploading" -> queue[i].batch

AnswerOf(status) ==
    IF status = 200 THEN "delivered"
    ELSE IF IsPermanentFailure(status) THEN "rejected" ELSE "failed"

Promise == INSTANCE UploadQueue WITH
    Event     <- Id,
    place     <- [i \in Id |-> PlaceOf(i)],
    given     <- carried,
    answers   <- [b \in Batch |-> {AnswerOf(s) : s \in reported[b]}],
    lapsed    <- {b \in Batch : carried[b] # {} /\ deadline[b] <= peak},
    discarded <- expired \cup evicted

(* Every step of the repository, crashes included, is a step the promise  *)
(* allows or leaves what it speaks of alone: a claim leases waiting       *)
(* events to a new batch, a late, repeated or half finished report        *)
(* changes nothing but the events still leased to its own batch, and a    *)
(* lease is taken back only when it lapsed.                               *)
KeepsPromise == Promise!Spec
=============================================================================
