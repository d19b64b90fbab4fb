---------------------------- MODULE BatchSelection ----------------------------
(***************************************************************************)
(* The two loops of QueueRepository::CreateUploadBatch, one iteration a    *)
(* step: the first fills ids and event_array from the eligible rows while  *)
(* an estimate of the payload is within the limit, the second takes events *)
(* off the end while the payload really built is not.                      *)
(*                                                                         *)
(* rows is the result of the SELECT, in the order of the row ids; a row is *)
(* named by its place in it.                                               *)
(***************************************************************************)
EXTENDS SequencesExt, BatchClaim

CONSTANTS
    MaxRows,        \* bound: rows the SELECT returns
    Size,           \* lengths of their payload_json
    Parses,         \* whether payload_json may be, or fail to be, JSON
    EventLimit,     \* limits.max_events()
    ByteLimit       \* limits.max_bytes()

ASSUME SelectionAssumption ==
    /\ MaxRows \in Nat
    /\ Size \subseteq Nat /\ EventLimit \subseteq Nat /\ ByteLimit \subseteq Nat
    /\ Parses \subseteq BOOLEAN

VARIABLES
    rows,           \* the eligible rows
    maxEvents, maxBytes,
    cursor,         \* rows read so far
    ids,            \* rows taken, in order
    eventArray,     \* the row each element of the JSON array came from
    estimated,      \* estimated_bytes
    pc              \* "fill", "trim", then "claim" (UPDATE) or "empty" (ROLLBACK)

vars == <<rows, maxEvents, maxBytes, cursor, ids, eventArray, estimated, pc>>

Eligible == [size : Size, parses : Parses]
Candidate == rows[cursor + 1]

SizeOf == [i \in DOMAIN rows |-> rows[i].size]

(* payload.size(): the events in the array are all different rows. *)
\* Mutant: the commas are forgotten.
PayloadWithoutCommas == BatchOverhead + TotalSize(ToSet(eventArray), SizeOf)
PayloadBytes == PayloadSize(ToSet(eventArray), SizeOf)

(* The early return on a zero limit. *)
Init ==
    /\ rows \in UNION {[1 .. n -> Eligible] : n \in 0 .. MaxRows}
    /\ maxEvents \in EventLimit /\ maxBytes \in ByteLimit
    /\ cursor = 0
    /\ ids = <<>> /\ eventArray = <<>>
    /\ estimated = 0
    /\ pc = IF maxEvents = 0 \/ maxBytes = 0 THEN "empty" ELSE "fill"

(* query.Step() has a row and the loop does not break at the event limit. *)
\* Mutant: > for >=.
HasCandidateOneMore == pc = "fill" /\ cursor < Len(rows) /\ Len(ids) <= maxEvents
HasCandidate == pc = "fill" /\ cursor < Len(rows) /\ Len(ids) < maxEvents

(* The limit on the row alone while there is none yet, on the estimate then. *)
Fits == IF ids = <<>> THEN Candidate.size <= maxBytes
        ELSE estimated + Candidate.size <= maxBytes

(* Go on behind a row that is not taken. *)
Skip(n) ==
    /\ cursor' = cursor + n
    /\ UNCHANGED <<rows, maxEvents, maxBytes, ids, eventArray, estimated, pc>>

(* The row is too large for any batch: the loop goes on behind it. *)
\* Mutant: continue for break.
SkipWhatDoesNotFit == HasCandidate /\ ~Fits /\ Skip(1)
SkipOversized == HasCandidate /\ ids = <<>> /\ Candidate.size > maxBytes /\ Skip(1)

(* A row that turns out not to be JSON is taken out again of all three. *)
Take ==
    /\ HasCandidate
    /\ Fits
    /\ IF Candidate.parses
       THEN /\ ids' = Append(ids, cursor + 1)
            /\ eventArray' = Append(eventArray, cursor + 1)
            /\ estimated' = estimated + Candidate.size
       ELSE UNCHANGED <<ids, eventArray, estimated>>
    /\ cursor' = cursor + 1
    /\ UNCHANGED <<rows, maxEvents, maxBytes, pc>>

EndFill ==
    /\ pc = "fill"
    /\ \/ cursor = Len(rows)
       \/ Len(ids) >= maxEvents
       \/ HasCandidate /\ ids # <<>> /\ ~Fits
    /\ pc' = IF ids = <<>> THEN "empty" ELSE "trim"
    /\ UNCHANGED <<rows, maxEvents, maxBytes, cursor, ids, eventArray, estimated>>

\* Mutant: event_array keeps the event.
TrimIdsOnly ==
    /\ pc = "trim"
    /\ ids # <<>> /\ PayloadBytes > maxBytes
    /\ ids' = Front(ids)
    /\ UNCHANGED <<rows, maxEvents, maxBytes, cursor, eventArray, estimated, pc>>
Trim ==
    /\ pc = "trim"
    /\ ids # <<>> /\ PayloadBytes > maxBytes
    /\ ids' = Front(ids)
    /\ eventArray' = Front(eventArray)
    /\ UNCHANGED <<rows, maxEvents, maxBytes, cursor, estimated, pc>>

EndTrim ==
    /\ pc = "trim"
    /\ ids = <<>> \/ PayloadBytes <= maxBytes
    /\ pc' = IF ids = <<>> THEN "empty" ELSE "claim"
    /\ UNCHANGED <<rows, maxEvents, maxBytes, cursor, ids, eventArray, estimated>>

Next == SkipOversized \/ Take \/ EndFill \/ Trim \/ EndTrim

Spec == Init /\ [][Next]_vars

-----------------------------------------------------------------------------
(* The rows that are marked as uploading are those whose events are in the    *)
(* payload, in every state of the loops: none is sent without being claimed   *)
(* and none is claimed without being sent.                                    *)
ClaimedIsSent == ids = eventArray

(* A batch respects both limits, with its envelope and its commas. *)
WithinLimits ==
    pc = "claim" => /\ Len(ids) \in 1 .. maxEvents
                    /\ PayloadSize(ToSet(eventArray), SizeOf) <= maxBytes

(* No row overtakes an earlier one, except one that cannot be sent. *)
FirstInFirstOut ==
    pc = "claim" =>
        \A i \in DOMAIN rows : i < ids[Len(ids)] =>
            \/ i \in ToSet(ids)
            \/ rows[i].size > maxBytes
            \/ ~rows[i].parses

(* Where every payload parses, as LogEvent stores it, the loops compute the   *)
(* definition of BatchClaim, a batch with nothing in it being none.           *)
ComputesClaim ==
    (pc \in {"claim", "empty"} /\ \A i \in DOMAIN rows : rows[i].parses) =>
        ToSet(ids) = ClaimedIds(DOMAIN rows, SizeOf, maxEvents, maxBytes)
=============================================================================
