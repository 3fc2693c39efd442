--------------------------- MODULE RecordExchange ---------------------------
(***************************************************************************)
(* The life of one record: a device signs it and saves it as a TOML file,  *)
(* possibly dying in the middle of the write; a command loads the file and *)
(* checks its signature, or opens the revision it describes; the record is *)
(* sent to a relay, in the authorization envelope, in a revision envelope  *)
(* or as the file itself, and the relay decodes and verifies it.           *)
(*                                                                         *)
(* A signature is ideal: it verifies exactly the bytes that were signed.   *)
(***************************************************************************)
EXTENDS Records

CONSTANTS
    SignableRecords(_),  \* of each kind, the records that a device may sign
    Devices,             \* who may be wrapped for and try to open a revision
    MaxReaders           \* bound on the readers of a revision

VARIABLES
    stage,      \* what was last done with the record
    kind,       \* its kind
    signed,     \* the record its author signed
    readers,    \* the devices a revision was wrapped for
    file,       \* the lines of its TOML file
    message,    \* the bytes sent to a relay
    result      \* what the last reader made of it

vars == <<stage, kind, signed, readers, file, message, result>>

-----------------------------------------------------------------------------
(* The fields of every kind and its domain separation label. *)

SignedFields ==
    [project |-> SignedProjectGenesis, membership |-> SignedMembershipGenesis,
     environment |-> SignedEnvironmentGenesis, invite |-> SignedInvite,
     join |-> SignedJoinRequest, approval |-> SignedApproval,
     revocation |-> SignedRevocation, revision |-> SignedRevision,
     request |-> SignedRelayRequest, identity |-> SignedDeviceIdentity,
     deviceId |-> HashedDeviceId, projectId |-> HashedProjectId,
     environmentId |-> HashedEnvironmentId, inviteId |-> HashedInviteId,
     revisionId |-> HashedRevisionId]

labels == [project |-> <<51>>, membership |-> <<52>>, environment |-> <<53>>,
           invite |-> <<54>>, join |-> <<55>>, approval |-> <<56>>,
           revocation |-> <<57>>, revision |-> <<58>>, request |-> <<59>>,
           identity |-> <<60>>, deviceId |-> <<61>>, projectId |-> <<62>>,
           environmentId |-> <<63>>, inviteId |-> <<64>>, revisionId |-> <<65>>]

Kinds == DOMAIN SignedFields

TomlFields ==
    [project |-> TomlProjectGenesis, membership |-> TomlMembershipGenesis,
     environment |-> TomlEnvironmentGenesis, invite |-> TomlInvite,
     join |-> TomlJoinRequest, approval |-> TomlApproval,
     revocation |-> TomlRevocation, revision |-> TomlRevision]

\* the kinds of which the relay reads a part of the file
RelayFields ==
    [project |-> RelayProjectGenesisRecord, invite |-> RelayInviteRecord,
     join |-> RelayJoinRequestRecord, revision |-> RelayRevisionMetadata]

Enveloped == {"project", "join", "approval", "revocation"}

Preimage(k, r) == CanonicalPreimage(labels[k], SignedFields[k], r)

Verifies(k, r) == Preimage(k, r) = Preimage(kind, signed)

-----------------------------------------------------------------------------
(* The records a device may sign. *)

FieldsOf(k) == IF k \in DOMAIN TomlFields THEN TomlFields[k] ELSE SignedFields[k]

\* A record has the fields of its kind, each with a value of its type.
IsRecord(k, r) ==
    /\ r = [f \in {FieldsOf(k)[i][1] : i \in DOMAIN FieldsOf(k)} |-> r[f]]
    /\ \A i \in DOMAIN FieldsOf(k) : HasType(FieldsOf(k)[i][2], r[FieldsOf(k)[i][1]])

\* Some device founded the project, and the nonce a client draws is long enough.
ASSUME RecordsAssumption ==
    /\ \A k \in Kinds : \A r \in SignableRecords(k) : IsRecord(k, r)
    /\ SignableRecords("project") /= {}
    /\ \A r \in SignableRecords("request") : Len(r.nonce) >= KeyLen

SomeRecord(k) == CHOOSE r \in SignableRecords(k) : TRUE

\* the devices a data key is wrapped for: the author and other active devices
ReadersFor(r) ==
    IF kind = "revision"
    THEN {s \in UNION {[1..n -> Devices] : n \in 1..MaxReaders} :
            IsInjective(s) /\ \E i \in DOMAIN s : s[i] = r.author_device_id}
    ELSE {<<>>}

-----------------------------------------------------------------------------
Init ==
    /\ stage = "new" /\ kind \in Kinds /\ signed = <<>> /\ readers = <<>>
    /\ file = <<>> /\ message = <<>> /\ result = Malformed

\* a command builds a record and signs it, or derives an identifier
Sign ==
    /\ stage = "new"
    /\ \E r \in SignableRecords(kind) : signed' = r /\ readers' \in ReadersFor(r)
    /\ stage' = "signed"
    /\ UNCHANGED <<kind, file, message, result>>

\* the record's write_ function, with write_toml
Save ==
    /\ stage = "signed"
    /\ kind \in DOMAIN TomlFields
    /\ file' = IF kind = "revision"
               THEN RevisionFile(signed, WrapForDevices(readers, DekWrapContext(signed)))
               ELSE WriteToml(TomlFields[kind], signed)
    /\ stage' = "saved"
    /\ UNCHANGED <<kind, signed, readers, message, result>>

\* a build from before a revision had a list of readers wrote it
SaveLegacy ==
    /\ stage = "signed"
    /\ kind = "revision"
    /\ readers = <<signed.author_device_id>>
    /\ file' = LegacyRevisionFile(signed)
    /\ stage' = "saved"
    /\ UNCHANGED <<kind, signed, readers, message, result>>

\* the process dies in fs::write after some of the lines
Tear ==
    /\ stage = "saved"
    /\ \E n \in 0..(Len(file) - 1) : file' = SubSeq(file, 1, n)
    /\ stage' = "torn"
    /\ UNCHANGED <<kind, signed, readers, message, result>>

ReadFile == IF kind = "revision" THEN ReadRevisionFile(file) ELSE ReadToml(TomlFields[kind], file)

\* read_toml and to_record
Load ==
    /\ stage \in {"saved", "torn"}
    /\ result' = ReadFile
    /\ stage' = IF stage = "saved" THEN "loaded" ELSE "loadedTorn"
    /\ UNCHANGED <<kind, signed, readers, file, message>>

\* decrypt_revision_bundle in the checkout of device d
Open(d) ==
    /\ stage = "loaded"
    /\ kind = "revision"
    /\ result.ok
    /\ LET r == result.rec IN
       result' = [by |-> d,
                  opened |-> /\ Verifies(kind, r)
                             /\ \E w \in ToWrappedDeks(file, r) :
                                  w.device = d /\ Unwraps(w.dek, d, DekWrapContext(r))]
    /\ stage' = "opened"
    /\ UNCHANGED <<kind, signed, readers, file, message>>

\* a signature (or an identifier) is checked against some record
Present ==
    /\ stage = "signed"
    /\ \E k \in Kinds : \E r \in SignableRecords(k) :
         result' = [kind |-> k, rec |-> r, verified |-> Verifies(k, r)]
    /\ stage' = "presented"
    /\ UNCHANGED <<kind, signed, readers, file, message>>

Authorization(r) ==
    [project |-> IF kind = "project" THEN r ELSE SomeRecord("project"),
     join_requests |-> IF kind = "join" THEN <<r>> ELSE <<>>,
     approvals |-> IF kind = "approval" THEN <<SomeRecord("approval"), r>> ELSE <<>>,
     revocations |-> IF kind = "revocation" THEN <<r>> ELSE <<>>]

RevisionEnvelope(r) ==
    [project_id |-> r.project_id, environment_id |-> r.environment_id,
     revision_id |-> r.revision_id, parent_revision_id |-> r.parent_revision_id,
     revision_metadata |-> <<file>>, encrypted_payload |-> <<1, 1>>]

\* the loaded record goes into the envelope of a push
Send ==
    /\ stage = "loaded"
    /\ result.ok
    /\ \/ kind \in Enveloped /\ message' = EncodeAuthorization(Authorization(result.rec))
       \/ kind = "revision" /\ message' = EncodeRevision(RevisionEnvelope(result.rec))
    /\ stage' = "sent"
    /\ UNCHANGED <<kind, signed, readers, file, result>>

\* A hash is ideal: of the authorizations that requests carry each has a hash
\* of its own, which stands in it as the signature of its genesis.
Authorized(hash) == [Authorization(SomeRecord("project")) EXCEPT !.project.signature = hash]

AuthorizationHash(e) ==
    IF e = Authorized(e.project.signature) THEN e.project.signature ELSE <<>>

RequestEnvelope(r) ==
    [device_id |-> r.device_id, signing_public_key |-> <<1>>, created_at |-> r.created_at,
     nonce |-> r.nonce, signature |-> <<1>>, payload |-> r.payload,
     authorization |-> EncodeAuthorization(Authorized(r.authorization_hash))]

SendRequest ==
    /\ stage = "signed"
    /\ kind = "request"
    /\ message' = EncodeRequest(RequestEnvelope(signed))
    /\ stage' = "sent"
    /\ UNCHANGED <<kind, signed, readers, file, result>>

\* the sender or the connection stops before the last byte (external)
Cut ==
    /\ stage = "sent"
    /\ \E n \in 0..(Len(message) - 1) : message' = SubSeq(message, 1, n)
    /\ stage' = "cut"
    /\ UNCHANGED <<kind, signed, readers, file, result>>

\* the record the signature check of the envelope looks at
SentRecord(e) ==
    CASE kind = "project" -> e.project
      [] kind = "join" -> e.join_requests[1]
      [] kind = "approval" -> e.approvals[2]
      [] kind = "revocation" -> e.revocations[1]

\* RelayAuthorizationEnvelope::decode and the signature checks of verify
VerifyAuthorization(e) ==
    IF e.ok THEN [ok |-> TRUE, rec |-> SentRecord(e.rec),
                  verified |-> Verifies(kind, SentRecord(e.rec))]
    ELSE Malformed

\* RelayRevisionEnvelope::decode and validate_publish_authorization
VerifyRevision(e, r) ==
    IF r.ok
    THEN [ok |-> TRUE, rec |-> r.rec,
          verified |-> /\ \A f \in {"project_id", "environment_id", "revision_id",
                                    "parent_revision_id"} : r.rec[f] = e[f]
                       /\ Verifies(kind, r.rec)]
    ELSE Malformed

ReceiveRevision(e) ==
    IF e.ok
    THEN VerifyRevision(e.rec, ReadToml(RelayRevisionMetadata, e.rec.revision_metadata[1]))
    ELSE Malformed

\* RelaySignedRequestEnvelope::decode and verify, for the method and the path
\* that the request came with
VerifyRequest(r) ==
    [ok |-> TRUE, rec |-> r, verified |-> Len(r.nonce) >= KeyLen /\ Verifies(kind, r)]

ReceiveRequest(e, method, path) ==
    IF e.ok
    THEN VerifyRequest([method |-> method, path |-> path, device_id |-> e.rec.device_id,
                        created_at |-> e.rec.created_at, nonce |-> e.rec.nonce,
                        payload |-> e.rec.payload,
                        authorization_hash |-> AuthorizationHash(e.rec.authorization)])
    ELSE Malformed

Receive ==
    /\ stage \in {"sent", "cut"}
    /\ \/ kind = "revision" /\ result' = ReceiveRevision(DecodeRevision(message))
       \/ kind \in Enveloped /\ result' = VerifyAuthorization(DecodeAuthorization(message))
       \/ kind = "request" /\ \E m, p \in SignableRecords("request") :
            result' = ReceiveRequest(DecodeRequest(message), m.method, p.path)
    /\ stage' = IF stage = "sent" THEN "received" ELSE "receivedCut"
    /\ UNCHANGED <<kind, signed, readers, file, message>>

\* the file itself is stored at the relay, which reads the few fields it needs
PublishFile ==
    /\ stage = "saved"
    /\ kind \in DOMAIN RelayFields
    /\ result' = ReadToml(RelayFields[kind], file)
    /\ stage' = "published"
    /\ UNCHANGED <<kind, signed, readers, file, message>>

Next ==
    \/ Sign \/ Save \/ SaveLegacy \/ Tear \/ Load \/ (\E d \in Devices : Open(d))
    \/ Present \/ Send \/ SendRequest \/ Cut \/ Receive \/ PublishFile

Spec == Init /\ [][Next]_vars

-----------------------------------------------------------------------------
(* Properties. *)

Stages == {"new", "signed", "saved", "torn", "loaded", "loadedTorn", "opened", "presented",
           "sent", "cut", "received", "receivedCut", "published"}

\* The stages and kinds are the ones above, a file is a sequence of lines, and
\* the author of a revision is among its readers.
TypeOK ==
    /\ stage \in Stages
    /\ kind \in Kinds
    /\ \A i \in DOMAIN file : DOMAIN file[i] = {"key", "value"}
    /\ stage /= "new" => signed \in SignableRecords(kind)
    /\ stage /= "new" /\ kind = "revision" =>
         \E i \in DOMAIN readers : readers[i] = signed.author_device_id

\* What a command saved it reads back field for field, so that the signature
\* it checks is over the bytes that were signed (to_record after from_record).
LoadedIsWhatWasSigned == stage = "loaded" => result = [ok |-> TRUE, rec |-> signed]

\* A file whose writer died is never read as another record: every kind but
\* a revision is refused, and a revision is the one signed, with fewer
\* readers at worst (wrapped_deks defaults to what is there).
TornFileIsRefused ==
    stage = "loadedTorn" /\ result.ok =>
        /\ kind = "revision"
        /\ result.rec = signed
        /\ \A w \in ToWrappedDeks(file, signed) : \E i \in DOMAIN readers : readers[i] = w.device

\* A revision opens in the checkouts of its readers and in no other, in the
\* current and in the legacy form of the wrapped keys.
OpensForItsReaders ==
    stage = "opened" => (result.opened <=> \E i \in DOMAIN readers : readers[i] = result.by)

\* A signature made for a record verifies that record only, and two different
\* inputs never derive the same identifier: the canonical bytes of records of
\* any two kinds differ.  A signature and an identifier cover the fields of
\* their preimage, not the signature itself.
Covered(k, r) == [f \in {SignedFields[k][i][1] : i \in DOMAIN SignedFields[k]} |-> r[f]]

SignatureBindsTheRecord ==
    stage = "presented" =>
        (result.verified <=>
            kind = result.kind /\ Covered(kind, signed) = Covered(result.kind, result.rec))

\* The relay verifies the signature over what it decoded from an envelope: a
\* record that was signed arrives as it was signed and its signature holds, a
\* request for the method and the path it was signed for and for no other, and
\* an envelope that ends early is refused, wherever it ends.
RelayVerifiesWhatWasSigned ==
    /\ stage = "received" =>
         /\ result.ok
         /\ result.verified <=> Covered(kind, result.rec) = Covered(kind, signed)
         /\ kind = "request" \/ result.verified
         /\ kind = "request" =>
              Covered(kind, [result.rec EXCEPT !.method = signed.method, !.path = signed.path])
                = Covered(kind, signed)
    /\ stage = "receivedCut" => ~result.ok

\* What the theorem on RelayVerifiesWhatWasSigned asks of the records, and the
\* code does not check: the envelope writes an absent reason and an empty one
\* alike, so that revoke --reason "" makes a record that it cannot carry.
NoEmptyReason == \A r \in SignableRecords("revocation") : r.reason_optional /= << <<>> >>

\* The relay takes the fields it needs from a file a checkout wrote, each with
\* the value that was signed.
RelayReadsTheFile ==
    stage = "published" => result.ok /\ \A f \in DOMAIN result.rec : result.rec[f] = signed[f]
=============================================================================
