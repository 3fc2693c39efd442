-------------------------- MODULE MCRecordExchange --------------------------
(***************************************************************************)
(* Values for model checking RecordExchange: a base record of each kind    *)
(* and those that differ from it in one field.                             *)
(***************************************************************************)
EXTENDS RecordExchange

CONSTANT Reasons    \* the reasons a revocation may be given, as options

TwoDevices == {<<13, 1>>, <<13, 2>>}

\* revoke without --reason or with one, and never with an empty one
GivenReasons == {<<>>, << <<1>> >>}

\* revoke as the command line takes it: --reason "" is a reason
AnyReasons == GivenReasons \cup {<< <<>> >>}

SomeId(space) == <<Namespace[space], 1>>

Values(field, k) ==
    IF field = "reason_optional" THEN Reasons ELSE
    CASE k = "text" -> {<<1>>, <<>>, <<1, 1>>}
      [] k = "bytes" -> {<<1>>, <<>>, <<1, 17>>}
      [] k = "nonce" -> {<<1>>, <<1, 1>>}
      [] k = "word" -> {1, U32}
      [] k = "u32" -> {0, U32 - 1}
      [] k \in FixedLength -> {<<1>>, <<2>>}
      [] k \in DOMAIN Namespace -> {SomeId(k), <<Namespace[k], 2>>}
      [] k \in DOMAIN Names -> Names[k]
      [] k = "environments" -> {<<SomeId("environment")>>, <<>>,
                                <<SomeId("environment"), <<Namespace["environment"], 2>>>>}
      [] k = "source" -> {<<>>, <<SomeId("device")>>}
      [] k = "optRevision" -> {<<>>, <<SomeId("revision")>>}
      [] k = "optHash" -> {<<>>, << <<1>> >>}
      [] k = "optText" -> {<<>>, << <<>> >>, << <<1>> >>}

FieldKind(k, f) == LET i == CHOOSE i \in DOMAIN FieldsOf(k) : FieldsOf(k)[i][1] = f IN FieldsOf(k)[i][2]

BaseRecord(k) ==
    [f \in {FieldsOf(k)[i][1] : i \in DOMAIN FieldsOf(k)} |->
        CHOOSE v \in Values(f, FieldKind(k, f)) : TRUE]

Variations(k) ==
    UNION {{[BaseRecord(k) EXCEPT ![f] = v] : v \in Values(f, FieldKind(k, f))} :
             f \in DOMAIN BaseRecord(k)}
=============================================================================
