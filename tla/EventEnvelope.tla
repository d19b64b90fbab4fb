---------------------------- MODULE EventEnvelope ----------------------------
(***************************************************************************)
(* From the arguments of FountainLogEvent to the envelope that is stored:  *)
(* CopyFields, and BuildEventEnvelope with its privacy filter.  A text is  *)
(* what it matters for: whether it is there, empty, UTF-8, or so long that *)
(* an envelope with it exceeds kMaxEventPayloadBytes.                      *)
(***************************************************************************)
EXTENDS SequencesExt

CONSTANTS
    Text,           \* the strings the host passes, but for the empty one
    NoText,         \* a null pointer
    EmptyText,
    NotUtf8,        \* those nlohmann's dump() throws on
    Huge            \* those that make an envelope too large

ASSUME EnvelopeAssumption ==
    /\ {NoText, EmptyText} \cap Text = {} /\ NoText # EmptyText
    /\ NotUtf8 \subseteq Text /\ Huge \subseteq Text

Level == {"debug", "info", "warning", "error", "fault"}

-----------------------------------------------------------------------------
(* The host's array of fields to the runtime's.  A field is its key, privacy, *)
(* type and value, any of which may be out of the range of its enumeration.   *)
(* Only the value of a string may be a null pointer.                          *)

ValueType == {"string", "int64", "double", "bool"}

FountainLogField ==
    {f \in [key     : Text \cup {NoText, EmptyText},
            privacy : STRING,
            type    : STRING,
            value   : Text \cup {NoText, EmptyText}] :
        f.value = NoText => f.type \notin ValueType \ {"string"}}

HasKey(f) == f.key \notin {NoText, EmptyText}

\* Mutant: a null string is passed on.
CopyAsIs(f) == f
Copy(f) ==
    IF f.type = "string" /\ f.value = NoText THEN [f EXCEPT !.value = EmptyText] ELSE f

CopyField(copied, f) == IF HasKey(f) THEN Append(copied, Copy(f)) ELSE copied

CopyFields(fields) == FoldLeft(LAMBDA copied, f : CopyField(copied, f), <<>>, fields)

-----------------------------------------------------------------------------
(* BuildEventEnvelope. *)

\* Mutant: only private fields are held back.
UploadableUnlessPrivate(f) == f.privacy # "private" /\ f.type \in ValueType
Uploadable(f) == f.privacy = "public" /\ f.type \in ValueType

AddField(json, f) ==
    IF Uploadable(f) THEN [k \in {f.key} \cup DOMAIN json |-> IF k = f.key THEN f.value ELSE json[k]]
    ELSE json

PublicFields(fields) == FoldLeft(LAMBDA json, f : AddField(json, f), <<>>, fields)

\* Mutant: a level out of range is not mapped.
LevelAsIs(level) == level
LevelToString(level) == IF level \in Level THEN level ELSE "info"

Texts(envelope) ==
    {envelope.event, envelope.component, envelope.app, envelope.install, envelope.session}
        \cup DOMAIN envelope.fields \cup Range(envelope.fields)

(* dump() returns, and what it returns may be stored. *)
Dumps(envelope) == Texts(envelope) \cap NotUtf8 = {}
Fits(envelope)  == Texts(envelope) \cap Huge = {}

-----------------------------------------------------------------------------
(* What the filter is to compute, from the array the host passed: for each    *)
(* key the last value the host declared public, and nothing else.             *)
LastPublicValues(args) ==
    LET Public    == {i \in DOMAIN args : /\ HasKey(args[i])
                                          /\ args[i].privacy = "public"
                                          /\ args[i].type \in ValueType}
        Latest(k) == Max({i \in Public : args[i].key = k})
    IN  [k \in {args[i].key : i \in Public} |-> Copy(args[Latest(k)]).value]
=============================================================================
