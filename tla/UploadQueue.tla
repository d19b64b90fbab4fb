----------------------------- MODULE UploadQueue -----------------------------
(***************************************************************************)
(* What Fountain's event queue promises its host and its uploader, without *)
(* tables, clocks, threads or crashes.                                     *)
(*                                                                         *)
(* An accepted event waits until it is leased to a batch.  The uploader    *)
(* answers for a batch, any number of times, late or never; the lease is   *)
(* over once it has been answered or has lapsed.  Only what was answered   *)
(* for the batch an event is leased to decides about the event: delivered, *)
(* it is gone, rejected, it is never leased again, failed, it waits.  A    *)
(* lease that lapsed may be taken back.  An event goes unanswered only     *)
(* when it is discarded, which is recorded.                                *)
(*                                                                         *)
(* Acting on an answer is a step of its own, except that a delivery may    *)
(* take effect with its answer: a crash or a failure may come in between.  *)
(***************************************************************************)
EXTENDS FiniteSets

CONSTANTS
    Event,
    Batch       \* none of them one of the places below

VARIABLES
    place,      \* where each event is: a batch if it is leased to that batch
    given,      \* the events each batch was given
    answers,    \* what the uploader has answered for each batch
    lapsed,     \* batches whose lease has run out
    discarded   \* events given up because of their age or of the row limit

vars == <<place, given, answers, lapsed, discarded>>

Answer == {"delivered", "rejected", "failed"}

At(p)  == {e \in Event : place[e] = p}
Issued == {b \in Batch : given[b] # {}}

Move(S, p) == place' = [e \in Event |-> IF e \in S THEN p ELSE place[e]]

-----------------------------------------------------------------------------
Init ==
    /\ place = [e \in Event |-> "new"]
    /\ given = [b \in Batch |-> {}]
    /\ answers = [b \in Batch |-> {}]
    /\ lapsed = {}
    /\ discarded = {}

Accept(e) ==
    /\ place[e] = "new"
    /\ Move({e}, "waiting")
    /\ UNCHANGED <<given, answers, lapsed, discarded>>

(* With a clock that was set back a lease may be over from the start. *)
Lease(b, S) ==
    /\ b \notin Issued
    /\ S # {} /\ S \subseteq At("waiting")
    /\ Move(S, b)
    /\ given' = [given EXCEPT ![b] = S]
    /\ lapsed' \in {lapsed, lapsed \cup {b}}
    /\ UNCHANGED <<answers, discarded>>

Reply(b, a) ==
    /\ b \in Issued
    /\ answers' = [answers EXCEPT ![b] = @ \cup {a}]
    /\ UNCHANGED <<place, given, lapsed, discarded>>

Deliver(b) ==
    /\ b \in Issued
    /\ answers' = [answers EXCEPT ![b] = @ \cup {"delivered"}]
    /\ Move(At(b), "gone")
    /\ UNCHANGED <<given, lapsed, discarded>>

Reject(b, S) ==
    /\ "rejected" \in answers[b]
    /\ S \subseteq At(b)
    /\ Move(S, "rejected")
    /\ UNCHANGED <<given, answers, lapsed, discarded>>

Retry(b, S) ==
    /\ "failed" \in answers[b]
    /\ S \subseteq At(b)
    /\ Move(S, "waiting")
    /\ UNCHANGED <<given, answers, lapsed, discarded>>

Lapse(L) ==
    /\ L \subseteq Issued
    /\ lapsed' = lapsed \cup L
    /\ UNCHANGED <<place, given, answers, discarded>>

TakeBack(S) ==
    /\ \A e \in S : place[e] \in lapsed
    /\ Move(S, "waiting")
    /\ UNCHANGED <<given, answers, lapsed, discarded>>

Forget(S) ==
    /\ S \subseteq At("rejected")
    /\ Move(S, "gone")
    /\ UNCHANGED <<given, answers, lapsed, discarded>>

Discard(S) ==
    /\ S \cap (At("new") \cup At("gone")) = {}
    /\ Move(S, "gone")
    /\ discarded' = discarded \cup S
    /\ UNCHANGED <<given, answers, lapsed>>

Next ==
    \/ \E e \in Event : Accept(e)
    \/ \E b \in Batch : \/ Deliver(b)
                        \/ \E a \in Answer : Reply(b, a)
                        \/ \E S \in SUBSET Event : \/ Lease(b, S)
                                                   \/ Reject(b, S)
                                                   \/ Retry(b, S)
    \/ \E L \in SUBSET Batch : Lapse(L)
    \/ \E S \in SUBSET Event : TakeBack(S) \/ Forget(S) \/ Discard(S)

Spec == Init /\ [][Next]_vars
=============================================================================
