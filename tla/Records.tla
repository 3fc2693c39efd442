------------------------------- MODULE Records ------------------------------
(***************************************************************************)
(* The signed records of keyit and their three representations: the bytes  *)
(* that are signed or hashed, the TOML file a checkout and the relay keep, *)
(* and the fields of the relay's authorization envelope.  The code spells  *)
(* the fields out three times, in three crates; each spelling is a list of *)
(* <<field, kind>> here, translated from its own place in the code, and    *)
(* the operators below give every kind its three encodings.                *)
(*                                                                         *)
(* A record is a function from field names to values: a natural for a      *)
(* "word" or "u32", a sequence of texts for "environments", <<>> or <<v>>  *)
(* for the optional kinds and "source", a text (a byte string) otherwise.  *)
(***************************************************************************)
EXTENDS Fields, SequencesExt

CONSTANT U32    \* one more than the largest u32

ASSUME U32Assumption == U32 \in Nat \ {0}

-----------------------------------------------------------------------------
(* Texts with a fixed form. *)

Namespace == [project |-> 11, environment |-> 12, device |-> 13,
              invite |-> 14, revision |-> 15]

IdBodyChars == {1, 2}

ParsesAsId(space, text) ==
    /\ Len(text) = 2
    /\ text[1] = Namespace[space]
    /\ text[2] \in IdBodyChars

Names == [version |-> {<<21>>}, doctype |-> {<<22>>},
          role |-> {<<23>>, <<24>>, <<25>>}, status |-> {<<26>>, <<27>>}]

GenesisText == <<28>>

KeyLen == 1     \* stands for the 32 bytes of a key or hash, the 64 of a signature

FixedLength == {"key", "hash", "sig"}

\* what the parse of one text of this kind accepts
Parses(kind, text) ==
    CASE kind \in DOMAIN Namespace -> ParsesAsId(kind, text)
      [] kind \in DOMAIN Names -> text \in Names[kind]
      [] kind \in FixedLength -> Len(text) = KeyLen
      [] OTHER -> TRUE

\* a string of bytes
Octets == Seq(0..255)

\* the kind of the value inside an optional one
Inner == [optText |-> "text", optHash |-> "hash", optRevision |-> "revision",
          source |-> "device"]

ParsesValue(kind, v) ==
    CASE kind \in DOMAIN Inner -> v = <<>> \/ Parses(Inner[kind], v[1])
      [] kind = "environments" -> \A i \in DOMAIN v : Parses("environment", v[i])
      [] OTHER -> Parses(kind, v)

\* the values that the type of such a field in the record structs admits
HasType(kind, v) ==
    CASE kind = "word" -> v \in Nat
      [] kind = "u32" -> v \in 0..(U32 - 1)
      [] kind \in DOMAIN Inner -> v = <<>> \/ (v = <<v[1]>> /\ v[1] \in Octets /\ Parses(Inner[kind], v[1]))
      [] kind = "environments" -> v \in Seq(Octets) /\ \A i \in DOMAIN v : Parses("environment", v[i])
      [] OTHER -> v \in Octets /\ Parses(kind, v)

-----------------------------------------------------------------------------
(* The signed and hashed bytes. *)

PushList(items) == PushU64(Len(items)) \o FlattenSeq([i \in DOMAIN items |-> PushField(items[i])])

\* Fault: texts without their length
WriteCanonicalUnprefixed(kind, v) ==
    CASE kind \in {"word", "u32"} -> PushU64(v)
      [] kind \in DOMAIN Inner -> PushOptBytes(v)
      [] kind = "environments" -> PushList(v)
      [] OTHER -> v

WriteCanonical(kind, v) ==
    CASE kind \in {"word", "u32"} -> PushU64(v)
      [] kind \in DOMAIN Inner -> PushOptBytes(v)
      [] kind = "environments" -> PushList(v)
      [] OTHER -> PushField(v)

CanonicalPreimage(label, fields, r) ==
    PushField(label)
        \o FlattenSeq([i \in DOMAIN fields |-> WriteCanonical(fields[i][2], r[fields[i][1]])])

SignedProjectGenesis ==
    << <<"protocol_version", "version">>, <<"project_id", "project">>,
       <<"genesis_nonce", "bytes">>, <<"created_at", "word">>,
       <<"creator_device_id", "device">>, <<"creator_device_public_identity", "key">>,
       <<"project_label", "text">>, <<"default_relay_url", "text">>,
       <<"canonicalization_version", "u32">> >>

SignedMembershipGenesis ==
    << <<"project_id", "project">>, <<"member_device_id", "device">>, <<"role", "role">>,
       <<"approved_by", "source">>, <<"created_at", "word">> >>

SignedEnvironmentGenesis ==
    << <<"protocol_version", "version">>, <<"project_id", "project">>,
       <<"environment_id", "environment">>, <<"environment_label", "text">>,
       <<"document_type", "doctype">>, <<"local_path_hint", "text">>,
       <<"created_at", "word">>, <<"created_by_device_id", "device">>,
       <<"parent_project_genesis_hash", "hash">> >>

SignedInvite ==
    << <<"invite_id", "invite">>, <<"project_id", "project">>,
       <<"allowed_environment_ids", "environments">>, <<"created_by_device_id", "device">>,
       <<"nonce", "bytes">>, <<"expires_at", "word">>, <<"max_uses", "u32">>,
       <<"status", "status">> >>

SignedJoinRequest ==
    << <<"project_id", "project">>, <<"invite_id", "invite">>, <<"joining_device_id", "device">>,
       <<"joining_device_public_identity", "key">>,
       <<"joining_device_encryption_public_key", "key">>,
       <<"requested_environment_ids", "environments">>, <<"device_label", "text">>,
       <<"created_at", "word">> >>

SignedApproval ==
    << <<"project_id", "project">>, <<"approved_device_id", "device">>,
       <<"approved_environment_ids", "environments">>, <<"role", "role">>,
       <<"approved_by_device_id", "device">>, <<"created_at", "word">> >>

SignedRevocation ==
    << <<"project_id", "project">>, <<"revoked_device_id", "device">>,
       <<"affected_environment_ids", "environments">>, <<"revoked_by_device_id", "device">>,
       <<"created_at", "word">>, <<"reason_optional", "optText">> >>

SignedRevision ==
    << <<"revision_id", "revision">>, <<"project_id", "project">>,
       <<"environment_id", "environment">>, <<"parent_revision_id", "optRevision">>,
       <<"parent_revision_hash", "optHash">>, <<"payload_hash", "hash">>,
       <<"encrypted_payload_ref", "text">>, <<"author_device_id", "device">>,
       <<"created_at", "word">>, <<"change_summary", "optText">> >>

SignedDeviceIdentity ==
    << <<"protocol_version", "version">>, <<"device_id", "device">>,
       <<"signing_public_key", "key">>, <<"encryption_public_key", "key">>,
       <<"created_at", "word">> >>

\* The identifiers are hashes of these fields.
HashedDeviceId ==
    << <<"protocol_version", "version">>, <<"signing_public_key", "key">>,
       <<"encryption_public_key", "key">> >>

HashedProjectId ==
    << <<"protocol_version", "version">>, <<"genesis_nonce", "bytes">>,
       <<"creator_device_id", "device">>, <<"created_at", "word">>,
       <<"project_label", "text">>, <<"default_relay_url", "text">> >>

HashedEnvironmentId ==
    << <<"protocol_version", "version">>, <<"project_id", "project">>,
       <<"environment_label", "text">>, <<"document_type", "doctype">>,
       <<"created_at", "word">>, <<"created_by_device_id", "device">> >>

HashedInviteId ==
    << <<"project_id", "project">>, <<"created_by_device_id", "device">>,
       <<"nonce", "bytes">>, <<"created_at", "word">> >>

HashedRevisionId ==
    << <<"project_id", "project">>, <<"environment_id", "environment">>,
       <<"parent_revision_hash", "optHash">>, <<"payload_hash", "hash">>,
       <<"author_device_id", "device">>, <<"created_at", "word">> >>

SignedRelayRequest ==
    << <<"method", "text">>, <<"path", "text">>, <<"device_id", "device">>,
       <<"created_at", "word">>, <<"nonce", "nonce">>, <<"authorization_hash", "hash">>,
       <<"payload", "bytes">> >>

-----------------------------------------------------------------------------
(* The TOML files: a sequence of lines [key, value] in the order of the    *)
(* Rust struct.  An absent optional field has no line.                     *)

\* Fault: a leading zero digit is dropped
HexLowerUnpadded(b) ==
    FlattenSeq([i \in DOMAIN b |->
        IF b[i] < 16 THEN <<b[i]>> ELSE <<b[i] \div 16, b[i] % 16>>])

HexLower(b) == FlattenSeq([i \in DOMAIN b |-> <<b[i] \div 16, b[i] % 16>>])

DecodeHex(text) ==
    IF Len(text) % 2 = 0 /\ \A i \in DOMAIN text : text[i] \in 0..15
    THEN <<[i \in 1..(Len(text) \div 2) |-> 16 * text[2 * i - 1] + text[2 * i]]>>
    ELSE <<>>

Hexadecimal == FixedLength \cup {"bytes"}

\* the optional fields: without a value they have no line
PlainOptional == {"optText", "optRevision"}

Optional == PlainOptional \cup {"optHash"}

ApprovalSourceToString(source) == IF source = <<>> THEN GenesisText ELSE source[1]

ParseApprovalSource(text) == IF text = GenesisText THEN <<>> ELSE <<text>>

TomlValue(kind, v) ==
    CASE kind = "source" -> ApprovalSourceToString(v)
      [] kind = "optHash" -> HexLower(v[1])
      [] kind \in PlainOptional -> v[1]
      [] kind \in Hexadecimal -> HexLower(v)
      [] OTHER -> v

TomlLine(key, kind, v) ==
    IF kind \in Optional /\ v = <<>> THEN <<>>
    ELSE <<[key |-> key, value |-> TomlValue(kind, v)]>>

WriteToml(fields, r) ==
    FlattenSeq([i \in DOMAIN fields |-> TomlLine(fields[i][1], fields[i][2], r[fields[i][1]])])

ValuesOf(file, key) == {file[i].value : i \in {j \in DOMAIN file : file[j].key = key}}

\* the value a line stands for, as an option
FromToml(kind, value) ==
    CASE kind = "source" -> <<ParseApprovalSource(value)>>
      [] kind = "optHash" -> IF DecodeHex(value) = <<>> THEN <<>> ELSE <<DecodeHex(value)>>
      [] kind \in PlainOptional -> << <<value>> >>
      [] kind \in Hexadecimal -> DecodeHex(value)
      [] OTHER -> <<value>>

ParseTomlValue(kind, value) ==
    LET parsed == FromToml(kind, value) IN
    IF parsed /= <<>> /\ ParsesValue(kind, parsed[1]) THEN parsed ELSE <<>>

ReadTomlField(file, key, kind) ==
    IF ValuesOf(file, key) = {}
    THEN IF kind \in Optional THEN << <<>> >> ELSE <<>>
    ELSE ParseTomlValue(kind, CHOOSE v \in ValuesOf(file, key) : TRUE)

Malformed == [ok |-> FALSE]

\* to_record: every field is present and parses, or the file is malformed
ToRecord(fields, read) ==
    IF \E i \in DOMAIN fields : read[i] = <<>>
    THEN Malformed
    ELSE [ok |-> TRUE,
          rec |-> [f \in {fields[i][1] : i \in DOMAIN fields} |->
                     read[CHOOSE i \in DOMAIN fields : fields[i][1] = f][1]]]

ReadToml(fields, file) ==
    ToRecord(fields, [i \in DOMAIN fields |-> ReadTomlField(file, fields[i][1], fields[i][2])])

TomlProjectGenesis ==
    << <<"protocol_version", "version">>, <<"project_id", "project">>,
       <<"genesis_nonce", "bytes">>, <<"created_at", "word">>,
       <<"creator_device_id", "device">>, <<"creator_device_public_identity", "key">>,
       <<"project_label", "text">>, <<"default_relay_url", "text">>,
       <<"canonicalization_version", "u32">>, <<"signature", "sig">> >>

TomlMembershipGenesis ==
    << <<"project_id", "project">>, <<"member_device_id", "device">>, <<"role", "role">>,
       <<"approved_by", "source">>, <<"created_at", "word">>, <<"signature", "sig">> >>

TomlEnvironmentGenesis ==
    << <<"protocol_version", "version">>, <<"project_id", "project">>,
       <<"environment_id", "environment">>, <<"environment_label", "text">>,
       <<"document_type", "doctype">>, <<"local_path_hint", "text">>,
       <<"created_at", "word">>, <<"created_by_device_id", "device">>,
       <<"parent_project_genesis_hash", "hash">>, <<"signature", "sig">> >>

TomlInvite ==
    << <<"invite_id", "invite">>, <<"project_id", "project">>,
       <<"allowed_environment_ids", "environments">>, <<"created_by_device_id", "device">>,
       <<"nonce", "bytes">>, <<"expires_at", "word">>, <<"max_uses", "u32">>,
       <<"status", "status">>, <<"signature", "sig">> >>

TomlJoinRequest ==
    << <<"project_id", "project">>, <<"invite_id", "invite">>, <<"joining_device_id", "device">>,
       <<"joining_device_public_identity", "key">>,
       <<"joining_device_encryption_public_key", "key">>,
       <<"requested_environment_ids", "environments">>, <<"device_label", "text">>,
       <<"created_at", "word">>, <<"proof_signature", "sig">> >>

TomlApproval ==
    << <<"project_id", "project">>, <<"approved_device_id", "device">>,
       <<"approved_environment_ids", "environments">>, <<"role", "role">>,
       <<"approved_by_device_id", "device">>, <<"created_at", "word">>, <<"signature", "sig">> >>

\* Fault: the optional field is the last line
TomlRevocationReasonLast ==
    << <<"project_id", "project">>, <<"revoked_device_id", "device">>,
       <<"affected_environment_ids", "environments">>, <<"revoked_by_device_id", "device">>,
       <<"created_at", "word">>, <<"signature", "sig">>, <<"reason_optional", "optText">> >>

TomlRevocation ==
    << <<"project_id", "project">>, <<"revoked_device_id", "device">>,
       <<"affected_environment_ids", "environments">>, <<"revoked_by_device_id", "device">>,
       <<"created_at", "word">>, <<"reason_optional", "optText">>, <<"signature", "sig">> >>

TomlRevision ==
    << <<"revision_id", "revision">>, <<"project_id", "project">>,
       <<"environment_id", "environment">>, <<"parent_revision_id", "optRevision">>,
       <<"parent_revision_hash", "optHash">>, <<"payload_hash", "hash">>,
       <<"encrypted_payload_ref", "text">>, <<"author_device_id", "device">>,
       <<"created_at", "word">>, <<"change_summary", "optText">>, <<"signature", "sig">> >>

\* What the relay reads of the files it is sent, ignoring every other key.
RelayProjectGenesisRecord == << <<"creator_device_id", "text">> >>

\* Fault: the relay's name of a field drifts from the client's
RelayInviteRecordRenamed ==
    << <<"uses", "u32">>, <<"status", "text">>, <<"expires_at", "word">> >>

RelayInviteRecord == << <<"max_uses", "u32">>, <<"status", "text">>, <<"expires_at", "word">> >>

RelayJoinRequestRecord == << <<"invite_id", "text">>, <<"joining_device_id", "text">> >>

RelayRevisionMetadata ==
    << <<"revision_id", "revision">>, <<"project_id", "project">>,
       <<"environment_id", "environment">>, <<"parent_revision_id", "optRevision">>,
       <<"parent_revision_hash", "optHash">>, <<"payload_hash", "hash">>,
       <<"encrypted_payload_ref", "text">>, <<"author_device_id", "device">>,
       <<"created_at", "word">>, <<"change_summary", "optText">>, <<"signature", "sig">> >>

-----------------------------------------------------------------------------
(* The payload and its wrapped keys.  Encryption is ideal: what was sealed *)
(* with a key and associated data opens with that key and that data only.  *)
(* A data key is wrapped for a device and bound to a context.              *)

PayloadAssociatedData(r) == <<r.project_id, r.environment_id>>

DekWrapContext(r) == <<r.project_id, r.environment_id, r.author_device_id>>

WrapDek(recipient, context) == [recipient |-> recipient, context |-> context]

Unwraps(wrapped, device, context) == wrapped = WrapDek(device, context)

\* Fault: every copy of the data key is wrapped with the first device's key
WrapForDevicesWithOneKey(devices, context) ==
    [i \in DOMAIN devices |-> [device |-> devices[i], dek |-> WrapDek(devices[1], context)]]

WrapForDevices(devices, context) ==
    [i \in DOMAIN devices |-> [device |-> devices[i], dek |-> WrapDek(devices[i], context)]]

PayloadLines == <<[key |-> "payload_algorithm", value |-> <<31>>],
                  [key |-> "payload_nonce", value |-> <<0, 1>>]>>

RevisionFile(r, wrapped) ==
    WriteToml(TomlRevision, r) \o PayloadLines
        \o [i \in DOMAIN wrapped |-> [key |-> "wrapped_deks", value |-> wrapped[i]]]

LegacyKeys == <<"dek_wrap_algorithm", "dek_wrap_ephemeral_public_key",
                "dek_wrap_nonce", "dek_wrap_ciphertext">>

\* a revision written before a revision could have several readers
LegacyRevisionFile(r) ==
    WriteToml(TomlRevision, r) \o PayloadLines
        \o [i \in DOMAIN LegacyKeys |->
              [key |-> LegacyKeys[i], value |-> WrapDek(r.author_device_id, DekWrapContext(r))]]

ToEncryptedPayload(file) ==
    \A i \in DOMAIN PayloadLines : ValuesOf(file, PayloadLines[i].key) = {PayloadLines[i].value}

\* the wrapped keys of a file; none: malformed
ToWrappedDeks(file, r) ==
    IF ValuesOf(file, "wrapped_deks") /= {}
    THEN ValuesOf(file, "wrapped_deks")
    ELSE IF \A i \in DOMAIN LegacyKeys : ValuesOf(file, LegacyKeys[i]) /= {}
         THEN {[device |-> r.author_device_id, dek |-> w] :
                 w \in ValuesOf(file, "dek_wrap_ciphertext")}
         ELSE {}

WholeRevision(file, revision) ==
    IF revision.ok /\ ToEncryptedPayload(file) /\ ToWrappedDeks(file, revision.rec) /= {}
    THEN revision
    ELSE Malformed

ReadRevisionFile(file) == WholeRevision(file, ReadToml(TomlRevision, file))

-----------------------------------------------------------------------------
(* The relay's envelopes. *)

EmptyIfNone(opt) == IF opt = <<>> THEN <<>> ELSE opt[1]

\* Fault: an absent reason comes back as an empty one
SomeEvenIfEmpty(text) == <<text>>

NoneIfEmpty(text) == IF text = <<>> THEN <<>> ELSE <<text>>

PushWire(kind, v) ==
    CASE kind \in {"word", "u32"} -> PushField(PushU64(v))
      [] kind \in DOMAIN Inner -> PushField(EmptyIfNone(v))
      [] kind = "environments" -> PushList(v)
      [] OTHER -> PushField(v)

EncodeWire(fields, r) ==
    FlattenSeq([i \in DOMAIN fields |-> PushWire(fields[i][2], r[fields[i][1]])])

\* one more list item: the items read so far, the cursor after them
ReadItem(sofar) ==
    IF ~sofar.ok THEN Truncated ELSE
    LET field == ReadField(sofar.cursor) IN
    IF field.ok THEN Read(Append(sofar.value, field.value), field.cursor) ELSE Truncated

ReadItems(count, cursor) ==
    LET items[n \in 0..count] == IF n = 0 THEN Read(<<>>, cursor) ELSE ReadItem(items[n - 1])
    IN items[count]

ReadList(cursor) ==
    LET count == ReadU64(cursor) IN
    IF count.ok THEN ReadItems(count.value, count.cursor) ELSE Truncated

ReadU64Field(kind, bytes) ==
    IF Len(bytes) /= 1 THEN <<>>
    ELSE IF kind = "u32" THEN <<bytes[1] % U32>> ELSE <<bytes[1]>>

\* what the bytes of a field say, as an option
WireValue(kind, bytes) ==
    CASE kind \in {"word", "u32"} -> ReadU64Field(kind, bytes)
      [] kind \in DOMAIN Inner -> <<NoneIfEmpty(bytes)>>
      [] OTHER -> <<bytes>>

ParsedField(kind, value, cursor) ==
    IF value /= <<>> /\ ParsesValue(kind, value[1]) THEN Read(value[1], cursor) ELSE Truncated

ParseField(kind, field) ==
    IF field.ok THEN ParsedField(kind, WireValue(kind, field.value), field.cursor) ELSE Truncated

ReadWire(kind, cursor) ==
    ParseField(kind, IF kind = "environments" THEN ReadList(cursor) ELSE ReadField(cursor))

AddNamed(record, name, field) ==
    IF field.ok
    THEN Read([f \in DOMAIN record \cup {name} |-> IF f = name THEN field.value ELSE record[f]],
              field.cursor)
    ELSE Truncated

ReadNamed(sofar, name, kind) ==
    IF sofar.ok THEN AddNamed(sofar.value, name, ReadWire(kind, sofar.cursor)) ELSE Truncated

\* nothing may follow the last field
AtEnd(read) ==
    IF read.ok /\ read.cursor = <<>> THEN [ok |-> TRUE, rec |-> read.value] ELSE Malformed

ReadFields(fields, bytes) ==
    LET read[n \in 0..Len(fields)] ==
            IF n = 0 THEN Read(<<>>, bytes) ELSE ReadNamed(read[n - 1], fields[n][1], fields[n][2])
    IN read[Len(fields)]

DecodeWire(fields, bytes) == AtEnd(ReadFields(fields, bytes))

WireProjectGenesis ==
    << <<"protocol_version", "version">>, <<"project_id", "project">>,
       <<"genesis_nonce", "bytes">>, <<"created_at", "word">>,
       <<"creator_device_id", "device">>, <<"creator_device_public_identity", "key">>,
       <<"project_label", "text">>, <<"default_relay_url", "text">>,
       <<"canonicalization_version", "u32">>, <<"signature", "sig">> >>

WireJoinRequest ==
    << <<"project_id", "project">>, <<"invite_id", "invite">>, <<"joining_device_id", "device">>,
       <<"joining_device_public_identity", "key">>,
       <<"joining_device_encryption_public_key", "key">>,
       <<"requested_environment_ids", "environments">>, <<"device_label", "text">>,
       <<"created_at", "word">>, <<"proof_signature", "sig">> >>

WireApproval ==
    << <<"project_id", "project">>, <<"approved_device_id", "device">>,
       <<"approved_environment_ids", "environments">>, <<"role", "role">>,
       <<"approved_by_device_id", "device">>, <<"created_at", "word">>, <<"signature", "sig">> >>

WireRevocation ==
    << <<"project_id", "project">>, <<"revoked_device_id", "device">>,
       <<"affected_environment_ids", "environments">>, <<"revoked_by_device_id", "device">>,
       <<"created_at", "word">>, <<"reason_optional", "optText">>, <<"signature", "sig">> >>

AuthorizationMagic == <<41>>

EncodeList(fields, records) ==
    PushList([i \in DOMAIN records |-> EncodeWire(fields, records[i])])

EncodeAuthorization(e) ==
    AuthorizationMagic \o PushField(EncodeWire(WireProjectGenesis, e.project))
        \o EncodeList(WireJoinRequest, e.join_requests)
        \o EncodeList(WireApproval, e.approvals)
        \o EncodeList(WireRevocation, e.revocations)

AllDecoded(records, cursor) ==
    IF \A i \in DOMAIN records : records[i].ok
    THEN Read([i \in DOMAIN records |-> records[i].rec], cursor)
    ELSE Truncated

DecodeItems(fields, items) ==
    IF items.ok
    THEN AllDecoded([i \in DOMAIN items.value |-> DecodeWire(fields, items.value[i])], items.cursor)
    ELSE Truncated

ReadRecords(sofar, name, fields) ==
    IF sofar.ok
    THEN AddNamed(sofar.value, name, DecodeItems(fields, ReadList(sofar.cursor)))
    ELSE Truncated

StartWith(genesis, cursor) ==
    IF genesis.ok THEN Read([project |-> genesis.rec], cursor) ELSE Truncated

ReadGenesis(field) ==
    IF field.ok
    THEN StartWith(DecodeWire(WireProjectGenesis, field.value), field.cursor)
    ELSE Truncated

DecodeAuthorization(bytes) ==
    IF bytes = <<>> \/ ~IsPrefix(AuthorizationMagic, bytes) THEN Malformed ELSE
    LET genesis == ReadGenesis(ReadField(Tail(bytes)))
        joined == ReadRecords(genesis, "join_requests", WireJoinRequest)
        approved == ReadRecords(joined, "approvals", WireApproval)
        revoked == ReadRecords(approved, "revocations", WireRevocation) IN
    AtEnd(revoked)

\* The TOML metadata file travels as bytes of its own.
WireRevisionEnvelope ==
    << <<"project_id", "project">>, <<"environment_id", "environment">>,
       <<"revision_id", "revision">>, <<"parent_revision_id", "optRevision">>,
       <<"revision_metadata", "bytes">>, <<"encrypted_payload", "bytes">> >>

RevisionMagic == <<42>>

EncodeRevision(e) == RevisionMagic \o EncodeWire(WireRevisionEnvelope, e)

DecodeRevision(bytes) ==
    IF bytes = <<>> \/ ~IsPrefix(RevisionMagic, bytes) THEN Malformed
    ELSE DecodeWire(WireRevisionEnvelope, Tail(bytes))

\* The authorization envelope and the payload travel inside a signed request.
WireRelayRequest ==
    << <<"device_id", "device">>, <<"signing_public_key", "key">>, <<"created_at", "word">>,
       <<"nonce", "nonce">>, <<"signature", "sig">>, <<"authorization", "bytes">>,
       <<"payload", "bytes">> >>

RequestMagic == <<43>>

EncodeRequest(e) == RequestMagic \o EncodeWire(WireRelayRequest, e)

WithAuthorization(request, authorization) ==
    IF authorization.ok
    THEN [ok |-> TRUE, rec |-> [request.rec EXCEPT !.authorization = authorization.rec]]
    ELSE Malformed

WithDecodedAuthorization(request) ==
    IF request.ok
    THEN WithAuthorization(request, DecodeAuthorization(request.rec.authorization))
    ELSE Malformed

DecodeRequest(bytes) ==
    IF bytes = <<>> \/ ~IsPrefix(RequestMagic, bytes)
    THEN Malformed
    ELSE WithDecodedAuthorization(DecodeWire(WireRelayRequest, Tail(bytes)))
=============================================================================
