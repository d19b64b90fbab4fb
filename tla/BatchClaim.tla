----------------------------- MODULE BatchClaim -----------------------------
(***************************************************************************)
(* Which queue rows QueueRepository::CreateUploadBatch takes into a batch, *)
(* as a closed form.  BatchSelection models the loops that compute it and  *)
(* checks them against this definition; QueueRepository claims with it.    *)
(*                                                                         *)
(* Rows are named by their ids, which order them; size[i] is the length of *)
(* row i's payload_json.                                                   *)
(***************************************************************************)
EXTENDS Naturals, FiniteSets, FiniteSetsExt

CONSTANT BatchOverhead      \* length of the batch JSON with no event in it

ASSUME BatchOverheadAssumption == BatchOverhead \in Nat \ {0}

TotalSize(S, size) == MapThenSumSet(LAMBDA i : size[i], S)

(* Length of batch.dump(): the envelope, the events, a comma between two. *)
PayloadSize(S, size) ==
    BatchOverhead + TotalSize(S, size) + (IF S = {} THEN 0 ELSE Cardinality(S) - 1)

(* The eligible rows once the leading ones that cannot fit are skipped. *)
Candidates(E, size, maxBytes) ==
    {i \in E : \E f \in E : f <= i /\ size[f] <= maxBytes}

(* The longest prefix of the candidates that respects both limits. *)
ClaimedIds(E, size, maxEvents, maxBytes) ==
    LET C         == Candidates(E, size, maxBytes)
        Prefix(i) == {j \in C : j <= i}
    IN  {i \in C : /\ Cardinality(Prefix(i)) <= maxEvents
                   /\ PayloadSize(Prefix(i), size) <= maxBytes}
=============================================================================
