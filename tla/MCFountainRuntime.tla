------------------------- MODULE MCFountainRuntime -------------------------
(* Values of the constants of FountainRuntime for model checking. *)
EXTENDS FountainRuntime

CONSTANTS c1, c2, l1

Field(k, p, t, v) == [key |-> k, privacy |-> p, type |-> t, value |-> v]

Fields == {Field(NoText, "public", "string", "text"),
           Field("k", "public", "string", "text"),
           Field("k", "public", "string", NoText),
           Field("k", "public", "other", NoText),
           Field("k", "private", "string", "secret"),
           Field("j", "forbidden", "string", "secret"),
           Field("j", "public", "string", "huge"),
           Field("j", "public", "string", "invalid")}

Arrays == {<<>>} \cup {<<f, g>> : f, g \in Fields}
=============================================================================
