# A verification of keyit

keyit keeps the dotenv files of a team in sync.  Each device has a checkout of
its own (`.keyit/` beside the dotenv file); a relay, which never sees
plaintext, stores signed and encrypted records and one append-only history of
revisions per environment.  This directory models the parts of that system
whose correctness depends on order, overlap and failure, checks them with TLC
and proves the central results with TLAPS.

Paths below are relative to the repository; `relay/lib.rs` stands for
`crates/keyit-relay/src/lib.rs`, and `cli/x.rs` for `crates/keyit-cli/src/x.rs`.
`PROJECT.json` holds the map from every definition to the lines it translates.

## 1. Inventory

| component | code | state | operations | status |
|---|---|---|---|---|
| revision store | relay/lib.rs `FileRelayStore::publish_revision_checked`, `write_locked_revision`, `fetch_*` | per environment: `revisions/`, `payloads/`, `latest`, `publish.lock` | publish, fetch latest, fetch one | `RelayPublish`, abstract: `RevisionLog` |
| join requests | relay/lib.rs `publish_join_request_checked` | `join-requests/<device>`, `join-request-locks/<invite>.lock` | publish, count the uses of an invite | `InviteRedemption` |
| account limits | relay/lib.rs `publish_project_genesis_checked`, `publish_environment_checked`, `publish_approval_checked` | record directories, three quota locks | publish a new record, re-publish one | `AccountCaps` |
| maintenance | relay/lib.rs `cleanup_storage`, `verify_integrity`, relay/main.rs | ages of files | remove stale locks, temporary files, nonces; report what is incomplete | actions of the three modules above and of `RelayServer`; the report in `RelayPublish` |
| push and pull | cli/revision.rs, cli/keyit_dir.rs | dotenv file, `revisions/`, `payloads/`, latest and materialized pointers | `keyit push`, `keyit pull` | `PushPull` |
| HTTP service | relay/lib.rs `serve_http_blocking_with_options`, `handle_http_request*`, `remember_request_nonce` | nonce directory, rate windows, connections | read, limit, verify, remember the nonce, dispatch, answer | `RelayServer` |
| access state | cli/auth.rs `load_access_state`, relay/lib.rs envelopes | approvals, revocations, join requests | the fold that yields active devices | `Membership`, declaratively and as a fold |
| access commands | cli/access.rs | the same records, per checkout and on the relay; invite bundles; rotation markers | invite, join, approve, revoke, sync | `Membership` |
| creation of a checkout | cli/init.rs, environment.rs, project_state.rs, cli/keyit_dir.rs | project files in the data directory, locator `keyit.toml` in the checkout | init, env add, bootstrap from the relay, join from a bundle | `ProjectSetup` |
| device keys | cli/device_key.rs, device_identity.rs | key files or key chain entries | load or create | `ProjectSetup` |
| records and their spellings | keyit-protocol `canonical.rs`, `records/`, `ids/`; cli/keyit_dir.rs `*Toml`; relay/lib.rs `encode_*`, `decode_*`, `Relay*RecordToml` | none of their own; TOML files and messages | sign, derive an id, save, load, send, receive, verify | `Fields`, `Records`, `RecordExchange` |
| envelopes | relay/lib.rs `RelaySignedRequestEnvelope`, `RelayAuthorizationEnvelope`, `RelayRevisionEnvelope` | none | encode, decode, verify | `Records`, `RecordExchange` |
| wrapped data keys | keyit-protocol `encryption.rs`, cli/revision.rs | per revision, one entry for each reader | wrap, unwrap | `Records`, `RecordExchange`; who the readers are: `Membership` |
| views | cli/local_state.rs, inspect.rs; inventory | none of their own | status, diff, counts | read-only, not modelled |
| output, argument parsing, HTTP client, site, packaging | cli/main.rs, error.rs, relay_client.rs, site/ | none | | not modelled; of the client only nonce, timeout and what its outcomes mean to push and pull |

How they interact.  A CLI command reads and writes files of its checkout
without any lock and makes HTTP requests, each with a 30 s timeout.  A relay
process handles one connection at a time, but several relay processes, CLIs
run with a relay directory, and `keyit-relay maintenance cleanup` may share
one store.  They are coordinated only by lock files made with `create_new`
and removed when a guard is dropped.  `docs/relay-production.md` says that
coordination between instances is more than the lock files provide; the models
show which part the lock files do provide and what they rest on.

Behaviours that are hard here:

* two publishers between the comparison of the pointer and its replacement;
  cleanup, which judges a lock by its age and removes it by its path;
* processes that die between two writes, or fail in one, and what they leave:
  lock files, unreferenced revisions, temporary files that are counted later;
* limits that are counted and then used, beside writes that skip the count;
* answers that never arrive after the relay has acted; requests that arrive twice;
* a service that handles one connection at a time and ends when it cannot write
  an answer;
* a checkout whose files (dotenv file, pointers, stored revisions) are written
  one after the other, in place, and can be left in any combination;
* users who edit, push, pull and force in any order;
* project files, a locator and keys that a first command writes one after the
  other, and a locator that git carries to machines without the rest;
* every record spelled three times by hand, for signing, for its file and for the
  wire, with files and messages that may end early;
* access records that reach each checkout at another time or never, dated by
  clocks that need not agree, and in bundles that are written file by file.

What makes each component correct.  Revision store: one linear, complete
history; no accepted revision lost; readers only move forward; locks do not
stay for good; the cap holds.  Join requests: `max_uses` holds; retries are
free.  Account limits: the cap holds; re-publication needs neither lock nor
room; a refusal for the cap is true.  HTTP
service: a signed request is carried out once; 201 and 409 are true; a peer that
stays is answered.  Push
and pull: no accepted push overwrites work its author had not taken in; pull
destroys nothing that exists nowhere else; pulling cures a conflict.  Access:
every checkout can work out who is active; the creator keeps its standing; a
known revocation is final; a rotation marker stays until a revision without the
revoked device is on the relay; who is approved can read, who is revoked cannot.
Creation of a checkout: a locator has its project behind it; the creator keeps
the keys it signed with; a label names one environment.  Records: what was
signed is what is loaded, sent and verified; a file or message that ends early
is refused; a signature is good for one record.

## 2. Modules

    RevisionLog          abstract: accept a revision on top of the head
      ^ implemented by            ^ used as the relay by
    RelayPublish                PushPull
      RelayPublishProofs          PushPullProofs

    InviteRedemption          AccountCaps          Membership          RelayServer
      InviteRedemptionProofs    AccountCapsProofs    MembershipProofs    RelayServerProofs

    Fields  <- extended by -  Records  <- extended by -  RecordExchange     ProjectSetup
                                            RecordExchangeProofs     ProjectSetupProofs

`MC*` modules give the constants of small instances their structure and their
symmetry.  Definitions whose comment starts with "Fault:" are not part of any
specification: they are ways in which the definition after them could have
been written wrongly, one for each property a run checks, kept to show that
the property notices.

**RevisionLog.**  `head` and `log` (accepted revision -> the revision it
extends); the only action is `Accept`.

**RelayPublish.**  One action per file-system call whose effect another
process sees.  `lock` is `publish.lock` and remembers which process created
it, `Orphaned` when that process is gone; `stale` is "older than
`stale_lock_ttl`".  A publisher goes `acquire`, `check` (pointer = parent?),
`quota`, `revision`, `payload`, `latest`, `unlock`; each write may fail
(`WriteFails`), the process may die anywhere (`Crash`), and the creation of
the lock may fail after the file exists (`AcquireFails`).  Cleanup looks at
the age (`CleanupDooms`) and removes the path (`CleanupRemoves`) in two steps,
and so does a reader with pointer and object.  `rank` is a history variable:
at which place a revision became the latest.  The parent is part of a
revision's id, so a retry names the same parent (`Request`).`leftover`
counts temporary files in `revisions/`, which the quota counts too and
`verify_integrity` (`IntegrityReport`) reports as malformed.

**InviteRedemption.**  A join request is handled under a lock of its invite:
expiry, count, write.  A device has one join request file, so joining through
another invite replaces it.  Temporary records left by a failed write decode
like real ones and are counted under a name that is no device's.

**AccountCaps.**  Three handlers of one shape; `kind` says which of them a
behaviour is about, and with it what is counted.  A record that exists, or any
record without a cap, is written without the lock (`fastTemp`, `fastRename`).
`stored` is history: whether the relay had the record when its request arrived.
`RepublishGoesThrough` relates it to the end of that request, over the look at the
path, the lock and the count.  It fails without that look (`RouteNoLook`: a
dead process's lock then stops re-publications too), without the second one under
the lock (`CountWithoutRecheck`), and without the lock.

**RelayServer.**  A process (`step`, `at`, `reply`) goes through the accept loop
with one connection: `Accept`, `Read` or `ReadFails`, `Limit`, `Verify`,
`RememberNonce`, the store (`StorePublish`, `RefusePublish`, `StoreOther`), and
`Respond`; when the peer is gone the write may fail, and then the process ends
(`RespondFails`).  `Connect` may bring any request any number of times: the client
sends a signed request once, with a nonce of its own, but what stands between
may repeat it.  `nonces` are the files in `request-nonces/`; `expired` ones are
older than `nonce_ttl`, and `CleanupNonce` removes those.  What a publish does in
the store is one step here, with the outcomes of `RelayPublish`; `executed` and
`accepted` are history.

**PushPull.**  A command is a process on a device; `pc` follows `run_push` and
`run_pull`.  The relay is `RevisionLog` with its one atomic step; the client
may not hear of the outcome (`PublishAccepted` has both ends), and may fail
without one.  A dotenv file is a pair of what it assigns and how it is laid
out, and `Normalize` forgets the layout.  `seen`, `took` and `merged` are
history: which revisions the text in the file, in the command's memory and in
a revision had taken in.  `synced` is the head that the last completed command
found.  A crash in a pointer or dotenv write, which are done in place, may
leave the file `Torn`.

**Membership.**  A record is an entry of a table (holder -> device -> record),
as there is one file per device and kind; holders are the checkouts and the
relay.  `Loads` and `Active` say of a checkout's records, without folding,
whether `load_access_state` succeeds and whom it finds active; `LoadAccessState`
is the fold itself, records in the order of their dates, and `LoadIsTheFold` compares the two.  `job` is what is left of a running
command: `keyit join` goes `ImportBundle` (or `JoinById`), `WriteJoinRequest`,
`PublishRequest`; `keyit approve` `FetchRequest` or `UseOwnRequest`,
`WriteApproval`, `PublishApproval`; `keyit revoke` `Revoke`, `MarkRotation`,
`PublishRevocation`.  Whatever is written file by file may stop after any file
(`n` of `ImportBundle` and `Pull`, `marked` of `MarkRotation`), and any command
may be given up between two steps (`Abandon`).  `pending` is the rotation
markers.  `head` remembers of the relay's latest revision who wrote it, for
whom it is encrypted (`readers`) and whom its author held to be revoked
(`without`); `current` says which checkouts have read it.  A push is its
successful end: conflicts are the matter of `PushPull`.  The relay checks a push
against the records that the author sends along, by the same fold, so it adds
no guard of its own.  Dates are arbitrary: devices have clocks of their own.

**Fields** and **Records.**  A byte string is a short sequence of numbers, and a
length prefix is one number: `PushField` and `ReadField` are the two layers that
everything is written with.  `Records` gives each record its signed preimage
(`Signed*`, and `Hashed*` for the five derived ids), its file (`Toml*`) and its
form on the wire (`Wire*`), each as a list of fields with a kind, and the readers
of each; an id parses when it has the prefix of its type.  Wrapping a data key
remembers device and context, so that it opens for no other.

**RecordExchange.**  The life of one record: `Sign`, then `Save` (or `SaveLegacy`
for a revision in the older form of one wrapped key), `Tear` when the writer
dies, `Load` or `Open`, `Send` in the envelope of its kind or `PublishFile`, `Cut`
when the connection ends early, and what the relay makes of it.  A signed
request goes `SendRequest`, `Receive`, for the method and path it is received under.
`Present` shows a signature to the verifier with any other record.  `SignableRecords` is the
constant set of records that there are: each has the fields of its kind with values of their
types (`IsRecord`, `HasType`).

**ProjectSetup.**  Machines, each with keys, a data directory and a checkout with
its locator.  A command decides what it will write (`plan`: files, and resets and
entries of the locator) and then writes it step by step; it may die between two
steps or inside one (`Crash`), which leaves the file or the locator `Torn`.
`KeyOrder` is the order in which a command asks for its two keys; a key file is
created empty and then written (`CreateKeyFile`, `WriteKeyFile`), a key chain
entry is replaced in one step, and a key chain may refuse to answer
(`KeyChainRefuses`).  `CheckOut` is git.  What commands do once they have the
layout is in the other modules.

Modelling decisions: listings and pointer reads are single steps; stored
revision bundles are whole or absent; users edit only while no command runs in
the checkout; a relay is configured; signatures, hashes and encryption are
ideal; sizes are validated before the modelled part starts and only refuse; in
the modules about order and failure a record is a value, and its formats are the
matter of `Records`.

## 3. Runs

| run | instance | shows |
|---|---|---|
| `relay_history` | 2 publishers, 1 cleanup, 1 reader, 3 revisions | `LinearHistory`, `LatestComplete`, `AcceptedNeverLost`, `FetchesMoveForward`, the inductive `PublishInv`, and `RefinesRevisionLog`: the file protocol implements the log |
| `relay_limits` | 2 publishers, 1 cleanup, 3 revisions at a cap of 2 | `QuotaHolds`; `LockIsFreed`, also after a crash |
| `invite_limit` | 2 workers, 3 devices, invites of one and of two uses, 1 leftover record each | `UsesWithinLimit`, its inductive form `InviteInv`, `RetryIsFree` |
| `caps` | 3 workers, 3 records at a cap of 2, 2 leftover files, each of the three kinds | `CapInv` (with `CapHolds`), `RepublishGoesThrough` |
| `caps_lock` | 1 worker, fair | **violated** `QuotaLockIsFreed` (finding 1) |
| `push` | 2 devices, 2 revisions, 2 values in 2 layouts, 1 edit, 1 crash | `NoLostUpdate`, the inductive `PushPullInv`, `LaterPushAfterPull`, `PullKeepsWork` |
| `access` | a creator and two devices that join as admins, 2 invites, 4 commands, dates 0 and 1, 1 failure | the inductive `AccessInv`, `CreatorStaysOwner`, `EveryCheckoutLoads`, `LoadIsTheFold`, `RevocationIsFinal`, `RotatedBeforeCleared` |
| `access_readers` | the same with 1 invite, two roles and 5 commands | **violated** `EveryDeviceCanRead` (finding 2) |
| `access_revoked` | one manager, 2 invites, 5 commands | **violated** `RevokedStayExcluded` (finding 3) |
| `server` | 2 processes, 2 connections, 5 sorts of request, 1 request per window, 1 crash, fair | `AtMostOnce`, `AnswersAreTrue`, the inductive `ServerInv`, `EveryPeerAnswered` |
| `records` | every kind of record, with every variation of one field; 2 devices; files and messages that end after any line or number | `LoadedIsWhatWasSigned`, `TornFileIsRefused`, `OpensForItsReaders`, `SignatureBindsTheRecord`, `RelayVerifiesWhatWasSigned`, `RelayReadsTheFile` |
| `setup` | a creator with key files and a clone with a key chain, 2 projects, 2 environments, 2 labels, 1 fault, 1 command at a time | the inductive `SetupInv`, `CreatorKeepsItsKeys`, `LocatorIsBacked`, `LocatorIsOfOneProject`, `LabelsAreUnique`, `OpensUnlessInterrupted`, `BootstrapKeepsTheLocator` |

Each inductive invariant (`PublishInv`, `InviteInv`, `CapInv`, `PushPullInv`,
`AccessInv`, `ServerInv`, `SetupInv`) has the `TypeOK` of its module as its first conjunct.

Bounds and why they are enough.  Two publishers make every race on one lock; a
third adds only another waiter, and the proofs cover any number.  Three
revisions give a chain, a conflict and a retry of either; in `push` two give a
conflict and the push after it, and `PushPullProofs` has any number.  `MaxLeftover`
bounds what failed writes leave: one file is enough to move a count past or up
to the cap.  At a cap of two there is a full, a half-full and an empty state
(an active device besides the creator in the device kind).  In `caps`, three
workers let one hold the lock while two re-publish beside it.  `MaxCrashes`
and `MaxEdits` bound the events that users and machines contribute; one crash
reaches every half-written state, and `PushPullProofs` needs neither bound.
In the `access` runs three devices are a signer, one it approved, and one that
may not know of it; `MaxCommands` counts joins, approvals and revocations, while
invites, pulls and pushes repeat freely; four let an admin join, be approved
and act, or a second device import what happened to the first; two dates make
every order of two records; `MaxFailures` bounds commands that break off.  With
one environment, approvals for part of the signer's environments are out of
sight of the runs; `MembershipProofs` has any number.
In the `server` run a connection is opened once: two make every race of two
copies, on one process or on two, and let the second wait behind the first or
come after it.  A signed fetch is left out, which is a push that the store never accepts; `RelayServerProofs` has any number.  With one request per window the
second of two meets the limit.
In `records` a byte string has up to two numbers out of two, lists have up to two items, and
`U32 = 2` makes the version of a canonicalization wrap within reach: what can differ between two
spellings (a missing field, another name or order, a lost prefix or digit) differs there already, and
`RecordExchangeProofs` has any records, with byte strings and lists of any length.  In `setup` one founder and one clone are the two
roles a machine can have, and a machine of either kind is never disturbed by a third but
through the relay and the locator, both of which are shared here; `MaxBusy = 1` leaves
commands of two machines to run one after the other, which meet in the relay and the
locator only and find either as another command left it; `MaxFaults = 1` reaches every
state that one broken command leaves, and the next commands start there;
`ProjectSetupProofs` needs none of these bounds.
Symmetry is used for interchangeable identities in safety runs only, and never
between devices that the instance tells apart.

Fairness.  `RelayPublish!FairSpec` is weak fairness of each publisher (nothing
in a publish waits: a busy lock is an immediate answer), of time passing, and
of cleanup, which `docs/relay-production.md` has run from a timer.  No fairness
is put on `Crash`, on requests or on failures.  `AccountCaps!FairSpec` is the
same for its handlers.  `RelayServer!FairSpec` has a process go on with what it can do,
and be restarted when it ended (`restart: unless-stopped` in
`deploy/simplbase/keyit/compose.yml`), and has whoever keeps a connection open send
the rest of its request: the code has no read timeout, so this is left to the
reverse proxy that `docs/relay-production.md` asks for.

Assumptions named in the specifications.  `Timely`: no live publish outlasts
`stale_lock_ttl` (`SlowHolders = FALSE`), and one cleanup runs at a time.
`OneAtATime`: one keyit command per checkout.  The guard of
`RelayServer!Connect`: no copy of a request arrives later than `nonce_ttl` (a week by
default); the request's own date is not looked at.  The code enforces
none of them.  That the results need them shows with both commands of `PushPull_push.cfg` in one
checkout for the second, and with `SlowHolders = TRUE` in `RelayPublish_history.cfg`
for the first.  `OneCommandPerMachine`: one keyit command per machine, which the `MachineOf` of `setup`
gives it.  There, too, the founder keeps its keys in files, and bundles are joined in
checkouts of their own project: `CreatorKeepsItsKeys` speaks of such founders
only, and `LocatorsDoNotMix` assumes `~MixedBundles`.  `MarksAssumption` only says that
"no file" and "torn" are unlike anything that is stored, and `RecordsAssumption` that
records have the fields of their kind with values of their types, that there is a project for
an authorization to name, and that a request's nonce is as long as the code makes it.
`NoEmptyReason`: no revocation is signed with an empty reason; `RelayVerifies` assumes it and the
code does not check it (section 4, last sentence).

## 4. Findings

1. *Quota and join-request locks of a dead process stay for good*: cleanup
   knows a lock by the name `publish.lock` only (relay/lib.rs:1249).
2. *The creator cannot read what members push*: the access state has no
   encryption key for the creator (cli/auth.rs:111).
3. *A revoked device is let in again by members who never hear of it*: the
   access sync brings a device its own records only (cli/access.rs:690), so a
   member goes on encrypting for a device revoked after the member joined, also
   when the owner has rotated.  "Revoking a device stops it from decrypting
   future revisions after the next push" (boundaries.mdx:38).

Seen in the same code and not held by a run of their own: a publish that
outlasts `stale_lock_ttl` loses its lock to cleanup, which goes by age (relay/lib.rs:1210,
1219), and a second one can then pass the same check of the pointer and drop an
accepted revision from the history; a pull that overlaps a push in one checkout
defeats the base check, as push reads the dotenv file before the pointers
(cli/revision.rs:125, 128) and the old text can become a child of the revision just
pulled; a publish that breaks off between object and payload leaves a revision
that `keyit-relay maintenance inspect` reports for ever, unless the same revision is
pushed again; a temporary file in
`revisions/` counts as a revision object, so a publish below
`max_revisions_per_environment` may be refused; a device that moves to another
invite gives its use of the first back, so over time more devices than
`max_uses` can join through one invite; after a push that failed, a pull
without `--force` replaces the unpublished file, because the file matches the
revision that push had marked as materialized (it stays in the local store,
which is what `PullKeepsWork` says); a first push that fails leaves the device
in conflict with an empty relay (cli/keyit_dir.rs:630), which a pull does not
cure; a temporary join request left by a failed write counts as another device
(relay/lib.rs:903).  In access: an approval or revocation signed by an admin
makes the load fail in every checkout that lacks the admin's own approval
(cli/auth.rs:126), which is why `EveryCheckoutLoads` speaks of one manager; a
revoke that broke off cannot be repeated, as the device is no longer active in
that checkout, and may leave no marker; an approval after a revocation has no
effect; a device that joins again for more environments is approved for what
it asked first, because approve prefers the request it has; a creator that
joins its own project and is approved replaces its own standing.  In the first
commands of a machine: any error of the key chain is taken for a key that is not
there, so a key chain that refuses once makes the machine replace its keys, and a
creator is no longer the owner of its projects (cli/device_key.rs:169;
`CreatorKeepsItsKeys` with `NativeStore = {owner}`); a key file left empty is an error
from then on; a bootstrap that died is never resumed, because `project.toml` is the first
file it writes and the only one looked for (cli/project_state.rs:18), and
one that died while entering environments leaves a shorter locator for git to show; an
environment added after a clone was set up does not reach that clone's data
directory, except by a bundle; a bundle of another project, joined in a checkout
that has a locator, enters its environments under the project that is there
(cli/access.rs:424; `MixedBundles = TRUE`).  In records: `keyit revoke --reason ""` signs an
empty reason, which the authorization envelope carries as no reason (relay/lib.rs:2861,
2887), so the relay refuses every later push of a checkout that holds that
revocation (`RelayVerifiesWhatWasSigned` with the reasons `AnyReasons`).

## 5. Proofs

All theorems hold for any sets of processes, devices and revisions (finite
where a cap counts them) and any values of the bounds.

* `RelayPublishProofs`: `RelayTypeCorrect` needs no assumption on timing.
  Under `Timely`, `RelayInvariant` proves `PublishInv` inductive.  `LinearHistory`
  alone is not: it needs that a publisher past the check holds the lock
  (`LockedWhileWriting`), that under it what it saw and wrote stays true
  (`ViewHolds`), and that cleanup only dooms locks whose creator is gone
  (`OnlyOrphansDoomed`), which is the part that a slow holder breaks.
  `LockAlwaysHeld`, `HistoryStaysLinear` and `LatestAlwaysComplete` follow, and
  `ImplementsRevisionLog` maps `WriteLatest` to `Accept` and every other step to
  a stutter.  `QuotaAlwaysHolds` adds `Room`: a publisher past the quota is alone
  with its environment and a revision short of the cap.
  `HistoryNeverForks` proves that the log never forks (every accepted revision but the
  head has exactly one successor) and carries it to the file protocol
  through the refinement.  `AcceptedIsKept` and `ReadersMoveForward` are about ancestors,
  which are named by a set closed under parents instead of by recursion
  (`Ancestry`); they rest on a second invariant, `AncestryInv`: every accepted revision is an
  ancestor of the latest one, so is what a reader holds or is about to fetch,
  and the one that it is about to fetch descends from the one that it holds.
* `InviteRedemptionProofs`: `InviteInvariant` proves `InviteInv` inductive.
  `UsesWithinLimit` alone is not: between the count and the write a use must
  still be free for the worker's device, which holds because it has the lock of
  that invite and every other worker of the invite stands before the lock.
  `UsesStayWithinLimit` follows, and `RetriesAreFree` by comparing what is
  counted (the other devices) with the limit.  No assumption on timing: cleanup
  never touches these locks (finding 1).
* `AccountCapsProofs`: `CapInvariant` is the same argument under the account's
  quota lock, beside writers that skip it because their record exists;
  `CapsAlwaysHold` follows.  `RepublicationGoesThrough` needs a second invariant beside it,
  `RepublishInv`: a record is never removed, so a request that found it when it
  arrived (the history variable `stored`) never comes to the lock; and as long as a
  refused worker holds the lock, everyone else who writes holds a record that
  was there already, so its own is still absent when it ends.
* `RelayServerProofs`: `ServerInvariant` proves `ServerInv` inductive.
  `AtMostOnce` alone is not: between nonce and store a process must be the only
  one with that request (`FirstInStore`), and a nonce must stay for as long as
  copies are under way (`NonceOutlivesCopies`).  `RequestsAtMostOnce` follows, and
  `AnswersAlwaysTrue`, as a request that was answered 409 has been carried out and
  is not carried out again.
* `PushPullProofs`: `PushPullTypeCorrect` holds for overlapping commands too.
  Under `OneAtATime`, `PushPullInvariant` proves `PushPullInv` inductive and
  `UpdatesAreNeverLost` follows.  The part that carries it is `CleanBase`: when
  the materialized pointer names a revision that the dotenv file has not taken
  in (a pull died between file and pointer), that revision is not the latest
  and not the head, so the base check refuses the push.  `PullCuresConflict`
  proves the action property `LaterPushAfterPull` from a second invariant on top,
  `SyncInv`: a head that a device caught up with stays the base of its commands
  for as long as it is the head, because a head never returns.
  `PullingKeepsWork` proves the action property `PullKeepsWork` from a third,
  `StoredInv`: whatever a pointer names is in the store, and a pull that is about to
  write its file has found the old one to match such a revision.
* `MembershipProofs`: `AccessInvariant` proves `AccessInv` inductive; its parts
  are about what survives a command that stops anywhere.  `AskedFirst`: whoever
  is approved in a checkout has a join request there, because bundles are
  written requests first and the access sync fetches in the same order, and the
  request came from a checkout that still has it.  `CreatorUntouched`: without a
  request of the creator nobody can approve it.  `MarksRevoked`: a rotation
  marker is written after the revocation it stands for.  `CreatorKeepsStanding`,
  `CheckoutsLoad` and `MarkersOutlastReaders` follow from it,
  `RevocationsAreFinal` from a checkout never losing a record
  (`RevocationsStay`).  `LoadReadsByDate` needs types only: it follows the fold record by
  record (`ReadOneByOne`).  When a record is read, those read before it are the ones of
  earlier date and the earlier files of the same date (`ReadBefore`), so that the signer is
  judged by what `ApprovedBefore` and its kin say of it (`ApprovalsAreRead`, `RevocationsAreRead`).
  It covers any number of records, any dates, equal ones included, and any order of files.
  The proofs need none of the bounds, and
  `RecordAssumption` only says that "no record" is not a record.

* `ProjectSetupProofs`: under `OneCommandPerMachine`, `SetupHolds` proves `SetupInv`
  inductive for any number of machines, projects, environments (finitely many,
  as a bootstrap enters them one by one), labels and faults, and the six
  properties follow: `FoundersStayOwners`, `LocatorIsWrittenLast`, `LocatorsDoNotMix`
  (for `~MixedBundles`), `SelectorsFindOne`, `WholeUnlessInterrupted` and the action property
  `BootstrapRestores`.  None of them is inductive, because what the files say in
  the middle of a command depends on what it has still to write; so the
  invariant is about the rest of each plan together with the files.  `Ordered` and
  `Completed` say what may follow what in a plan (nothing but entries after an
  entry, no write after an import, each record before its settings);
  `FounderPlan` that a founder's locator is updated last, to files that are whole
  or come before it; `BootView` that the entries left and those in the locator
  together are those that the bootstrap read; `RecordsFit` and `RecordsAreAtHome` that
  a record is wherever else only if it is where it was made, so that labels,
  which are compared there, differ everywhere.  `KeyView` is the same for keys: a
  command holds the stored keys of its machine and the key it is about to write
  is stored nowhere.  The plans themselves are closed forms, and a family of
  lemmas (`BootstrapPlanHolds`, `JoinPlanHolds`, ...) says once what is in each.

* `RecordExchangeProofs`: the whole way of a record through its file and its signature, for
  any set of records that `RecordsAssumption` admits, which is what the field types of the
  record structs say: byte strings, lists and option values of any length, and any number of
  readers.  `LoadGivesTheRecord`, `TornFilesAreRefused`, `ReadersOpen` and
  `RelayReadsWhatWasSigned` follow from `RecordInv`.  None of the four is inductive, because
  they speak of what a reader just made of a file and not of the file; the invariant adds
  that a file is one of those that its record is written as, whole or cut (`FileHolds`), that
  it is made of lines (`LinesHold`), and that the author is among the readers
  (`ReadersHold`).  That such a file reads back rests on `FileLines` (a file has the lines
  of its fields and no other, the last field last) and `HexReadsBack`; that a cut file is
  refused, on every file but a revision's ending with a signature, without which it does
  not parse.
  `SignaturesBind` is `PreimageNamesTheRecord`: the canonical bytes of two records of any
  kinds are equal only when kind and signed fields are.  It takes the fields one by one with
  `PiecesSplitOneWay`: where one value of a field begins, no other value of it does,
  which is what lengths, counts and option tags are for (`FieldReadsBack`,
  `CutFieldIsTruncated`, `FieldsSplitOneWay`, `OptionsSplitOneWay`), and the labels of the
  kinds differ.  `FlattenSeq` and `HexLower` rest on a recursive function; where an induction
  is needed it is over a set of naturals (`NatsByInduction`, from `NatLessThanWellFounded`),
  as no induction theorem with an operator parameter can be used here.
  `RelayVerifies` proves `RelayVerifiesWhatWasSigned` for records without empty reasons.  Its
  invariant `MessageInv` adds to `RecordInv` that a message is the whole envelope of the record
  that was signed, or a proper beginning of it.  What such a message is read as is said by
  `AuthorizationReadsBack`, `RevisionReadsBack` and `RequestReadsBack`: if all of it arrived, the
  record that it was written from, and otherwise nothing, wherever it ends and however many records
  are in it.  They are proved by following the cursor: what is still to be read is the rest of the
  message after a position (`Rest`), and reading a number, a field, a list, a record moves
  that position by the length of what was written for it or runs out (`ReadTo`; `ReadFieldAt`,
  `ReadItemsAt`, `ReadFieldsAt`, `ReadRecordsAt`).  The values that the envelopes carry without
  loss are `Sendable`, and `TypesAreSendable` shows that every value of the type of its field is
  one, but for an empty reason.  That a request holds for no other method or path is again
  `PreimageNamesTheRecord`, for the record that the relay puts together.
  What stays fixed: a key or hash is one byte long (`KeyLen`), and an identifier is its
  prefix and one of two bodies (`IdBodyChars`).

Checked by TLC only: liveness and everything under fairness (`LockIsFreed`, `EveryPeerAnswered`),
which is beyond TLAPS here.  Every invariant and every other action property of the runs that
pass is a theorem as well.

## 6. Plan

1. `Membership`: two commands that overlap in one checkout (a push that clears
   a marker a revoke has just renewed); then what it says of readers in place of
   the fixed rule `CanRead` of `PushPull`.
2. `ProjectSetup`: two first commands of one machine at once, and the older layout
   with `.keyit` in the checkout.
3. Torn stored revisions in `PushPull`, where a later pull has to replace them.
4. Proofs for keys, hashes and identifiers of their real lengths, with `KeyLen` and
   `IdBodyChars` as constants.

## 7. Not modelled

* Parsing of dotenv text: pull and push treat a file as assignments and a layout.
* The cryptographic primitives, which are taken to be ideal, and randomness.
* Status, diff and inspect, the inventory counts, help and messages: they read
  and print.
* The relay's configuration and metrics, which keep no state beside the store,
  and the site, packaging and deployment.
* A push without a relay, and projects that never had one.
