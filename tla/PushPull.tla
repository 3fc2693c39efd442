------------------------------- MODULE PushPull -------------------------------
(***************************************************************************)
(* `keyit push` and `keyit pull` (src/crates/keyit-cli/src/revision.rs and *)
(* the pointer files of keyit_dir.rs) on the devices of one project, for   *)
(* one environment.  The relay is the abstract RevisionLog: what           *)
(* RelayPublish implements is one atomic step here, which may also fail,   *)
(* or succeed without the client hearing of it.  A command is a process;   *)
(* nothing keeps two of them out of the same checkout.                     *)
(***************************************************************************)
EXTENDS Naturals, FiniteSets

CONSTANTS
  Devices,      \* approved devices, one checkout each
  Creator,      \* the device that created the project
  Commands,     \* keyit processes
  DeviceOf,     \* command -> the device it runs on
  Revisions,    \* revision ids
  NoRevision,   \* "no parent", "no pointer file"
  Unbuilt,      \* mark of a revision that does not exist yet
  Values,       \* what a dotenv file assigns
  Layouts,      \* how it is laid out: comments, order, quoting
  Absent,       \* the dotenv file does not exist
  Torn,         \* a file that a crash left half written
  MaxEdits,     \* bound: edits by users
  MaxCrashes    \* bound: commands killed

ASSUME PushPullAssumption ==
  /\ DeviceOf \in [Commands -> Devices]
  /\ NoRevision \notin Revisions
  /\ Unbuilt \notin Revisions \cup {NoRevision} \cup Devices
  /\ Torn \notin Revisions \cup {NoRevision, Unbuilt}
  /\ Absent # Torn
  /\ MaxEdits \in Nat
  /\ MaxCrashes \in Nat

Texts == Values \X Layouts
ASSUME TextAssumption == {Absent, Torn, Unbuilt} \cap Texts = {}

(* DotenvDocument::normalize forgets the layout. *)
Normalize(text) == IF text = Torn THEN Torn ELSE text[1]

VARIABLES
  pc,        \* what each command does next
  forced,    \* pull: was it given --force?
  text,      \* push: the dotenv file as it read it
  took,      \* history: the revisions that text had taken in
  base,      \* push: the parent; pull: the relay's latest as it fetched it
  rev,       \* the revision it pushes or materializes
  latest,    \* device: the latest-revision pointer
  mat,       \* device: the materialized-revision pointer
  stored,    \* device: the revisions in its revisions/ and payloads/
  file,      \* device: the dotenv file
  seen,      \* history: the revisions that the dotenv file has taken in
  synced,    \* history: the head that its last command found and caught up with
  content,   \* revision -> the text it encrypts
  author,    \* revision -> its author
  merged,    \* history: revision -> the revisions its text had taken in
  head, log, \* the relay
  edits, crashes

command == <<pc, forced, text, took, base, rev>>
checkout == <<latest, mat, stored, file, seen, synced>>
built == <<content, author, merged>>
relay == <<head, log>>
bounds == <<edits, crashes>>
vars == <<command, checkout, built, relay, bounds>>

Relay == INSTANCE RevisionLog WITH Unaccepted <- Unbuilt

Steps == {"idle", "check", "write", "mark", "publish",
          "fetch", "import", "decrypt", "guard", "file", "record"}

(* The revisions that exist, and what a pointer file may name. *)
Built == {r \in Revisions : content[r] # Unbuilt}
Pointers == Built \cup {NoRevision, Torn}

CommandTypes ==
  /\ pc \in [Commands -> Steps]
  /\ forced \in [Commands -> BOOLEAN]
  /\ text \in [Commands -> Texts \cup {Torn, Absent}]
  /\ took \in [Commands -> SUBSET Revisions]
  /\ base \in [Commands -> Revisions \cup {NoRevision}]
  /\ rev \in [Commands -> Revisions \cup {NoRevision}]

(* What a command has in memory by the time it needs it. *)
InMemory ==
  \A c \in Commands :
    /\ pc[c] \in {"check", "write"} => text[c] # Absent
    /\ pc[c] = "import" => base[c] \in Built
    /\ pc[c] \in {"mark", "publish", "guard", "file", "record"} => rev[c] \in Built

CheckoutTypes ==
  /\ latest \in [Devices -> Pointers]
  /\ mat \in [Devices -> Pointers]
  /\ stored \in [Devices -> SUBSET Revisions]
  /\ file \in [Devices -> Texts \cup {Absent, Torn}]
  /\ seen \in [Devices -> SUBSET Revisions]
  /\ synced \in [Devices -> Revisions \cup {NoRevision, Unbuilt}]
  /\ edits \in 0..MaxEdits
  /\ crashes \in 0..MaxCrashes

RevisionTypes ==
  /\ content \in [Revisions -> Texts \cup {Torn, Unbuilt}]
  /\ author \in [Revisions -> Devices \cup {Unbuilt}]
  /\ merged \in [Revisions -> SUBSET Revisions]
  /\ Relay!TypeOK
  /\ head \in Built \cup {NoRevision}

TypeOK == CommandTypes /\ InMemory /\ CheckoutTypes /\ RevisionTypes

Init ==
  /\ pc = [c \in Commands |-> "idle"]
  /\ forced = [c \in Commands |-> FALSE]
  /\ text = [c \in Commands |-> Absent]
  /\ took = [c \in Commands |-> {}]
  /\ base = [c \in Commands |-> NoRevision]
  /\ rev = [c \in Commands |-> NoRevision]
  /\ latest = [d \in Devices |-> NoRevision]
  /\ mat = [d \in Devices |-> NoRevision]
  /\ stored = [d \in Devices |-> {}]
  /\ file \in [Devices -> Texts \cup {Absent}]
  /\ seen = [d \in Devices |-> {}]
  /\ synced = [d \in Devices |-> Unbuilt]
  /\ content = [r \in Revisions |-> Unbuilt]
  /\ author = [r \in Revisions |-> Unbuilt]
  /\ merged = [r \in Revisions |-> {}]
  /\ Relay!Init
  /\ edits = 0
  /\ crashes = 0

(* wrap_dek_for_active_devices: the author, and every device whose         *)
(* encryption key the access state knows; it has none for the creator.     *)
CanRead(d, r) == d = author[r] \/ d # Creator

Goto(c, step) == pc' = [pc EXCEPT ![c] = step]

(* A command ends; it forgets what it held in memory. *)
End(c) ==
  /\ Goto(c, "idle")
  /\ forced' = [forced EXCEPT ![c] = FALSE]
  /\ text' = [text EXCEPT ![c] = Absent]
  /\ took' = [took EXCEPT ![c] = {}]
  /\ base' = [base EXCEPT ![c] = NoRevision]
  /\ rev' = [rev EXCEPT ![c] = NoRevision]

-------------------------------------------------------------------------------
(* keyit push *)

BeginPush(c) ==
  LET d == DeviceOf[c] IN
  /\ pc[c] = "idle"
  /\ file[d] # Absent
  /\ \E r \in Revisions : content[r] = Unbuilt
  /\ text' = [text EXCEPT ![c] = file[d]]
  /\ took' = [took EXCEPT ![c] = seen[d]]
  /\ Goto(c, "check")
  /\ UNCHANGED <<forced, base, rev, checkout, built, relay, bounds>>

(* Fault: the two pointers are not compared. *)
BaseNeverChecked(d) == latest[d] # Torn

(***************************************************************************)
(* ensure_local_push_base_is_latest: the latest local revision must be the *)
(* materialized one, and becomes the parent; with no local revision there  *)
(* is nothing to compare.  A pointer that does not parse is an error.      *)
(***************************************************************************)
BaseIsLatest(d) ==
  \/ latest[d] = NoRevision
  \/ latest[d] \in Revisions /\ latest[d] = mat[d]

CheckBase(c) ==
  LET d == DeviceOf[c] IN
  /\ pc[c] = "check"
  /\ IF BaseIsLatest(d)
     THEN /\ base' = [base EXCEPT ![c] = latest[d]]
          /\ Goto(c, "write")
          /\ UNCHANGED <<forced, text, took, rev>>
     ELSE End(c)
  /\ UNCHANGED <<checkout, built, relay, bounds>>

(* Fault: the pointer stays where it is. *)
WriteLocalRevisionUnpointed(c, r) ==
  LET d == DeviceOf[c] IN
  /\ pc[c] = "write"
  /\ content[r] = Unbuilt
  /\ content' = [content EXCEPT ![r] = text[c]]
  /\ author' = [author EXCEPT ![r] = d]
  /\ merged' = [merged EXCEPT ![r] = took[c]]
  /\ stored' = [stored EXCEPT ![d] = @ \cup {r}]
  /\ seen' = [seen EXCEPT ![d] = @ \cup {r}]
  /\ rev' = [rev EXCEPT ![c] = r]
  /\ Goto(c, "mark")
  /\ UNCHANGED <<forced, text, took, base, latest, mat, file, synced, relay, bounds>>

(* write_local_revision stores the new revision and makes it the latest.   *)
WriteLocalRevision(c, r) ==
  LET d == DeviceOf[c] IN
  /\ pc[c] = "write"
  /\ content[r] = Unbuilt
  /\ content' = [content EXCEPT ![r] = text[c]]
  /\ author' = [author EXCEPT ![r] = d]
  /\ merged' = [merged EXCEPT ![r] = took[c]]
  /\ stored' = [stored EXCEPT ![d] = @ \cup {r}]
  /\ latest' = [latest EXCEPT ![d] = r]
  /\ seen' = [seen EXCEPT ![d] = @ \cup {r}]
  /\ rev' = [rev EXCEPT ![c] = r]
  /\ Goto(c, "mark")
  /\ UNCHANGED <<forced, text, took, base, mat, file, synced, relay, bounds>>

(* The revision is materialized before the relay has seen it. *)
MarkPushed(c) ==
  /\ pc[c] = "mark"
  /\ mat' = [mat EXCEPT ![DeviceOf[c]] = rev[c]]
  /\ Goto(c, "publish")
  /\ UNCHANGED <<forced, text, took, base, rev, latest, stored, file,
                 seen, synced, built, relay, bounds>>

(* The relay accepts; the answer may not come back (a 30 s timeout). *)
PublishAccepted(c) ==
  /\ pc[c] = "publish"
  /\ head = base[c]
  /\ Relay!Accept(rev[c])
  /\ \/ /\ End(c)
        /\ synced' = [synced EXCEPT ![DeviceOf[c]] = rev[c]]
     \/ /\ End(c)
        /\ synced' = [synced EXCEPT ![DeviceOf[c]] = Unbuilt]
  /\ UNCHANGED <<latest, mat, stored, file, seen, built, bounds>>

PublishConflict(c) ==
  /\ pc[c] = "publish"
  /\ head # base[c]
  /\ End(c)
  /\ synced' = [synced EXCEPT ![DeviceOf[c]] = Unbuilt]
  /\ UNCHANGED <<latest, mat, stored, file, seen, built, relay, bounds>>

(* Busy, over a quota, rate limited, unreachable: nothing was accepted. *)
PublishFails(c) ==
  /\ pc[c] = "publish"
  /\ End(c)
  /\ synced' = [synced EXCEPT ![DeviceOf[c]] = Unbuilt]
  /\ UNCHANGED <<latest, mat, stored, file, seen, built, relay, bounds>>

-------------------------------------------------------------------------------
(* keyit pull *)

BeginPull(c, force) ==
  /\ pc[c] = "idle"
  /\ forced' = [forced EXCEPT ![c] = force]
  /\ Goto(c, "fetch")
  /\ UNCHANGED <<text, took, base, rev, checkout, built, relay, bounds>>

(* With nothing on the relay, pull goes on with the local revisions. *)
Fetch(c) ==
  /\ pc[c] = "fetch"
  /\ base' = [base EXCEPT ![c] = head]
  /\ Goto(c, IF head = NoRevision THEN "decrypt" ELSE "import")
  /\ UNCHANGED <<forced, text, took, rev, checkout, built, relay, bounds>>

FetchFails(c) ==
  /\ pc[c] = "fetch"
  /\ End(c)
  /\ UNCHANGED <<checkout, built, relay, bounds>>

(* import_relay_revision_bytes moves the pointer before anything is verified. *)
Import(c) ==
  LET d == DeviceOf[c] IN
  /\ pc[c] = "import"
  /\ stored' = [stored EXCEPT ![d] = @ \cup {base[c]}]
  /\ latest' = [latest EXCEPT ![d] = base[c]]
  /\ Goto(c, "decrypt")
  /\ UNCHANGED <<forced, text, took, base, rev, mat, file, seen, synced,
                 built, relay, bounds>>

(* decrypt_latest_revision reads the pointer again. *)
DecryptLatest(c) ==
  LET d == DeviceOf[c] IN
  /\ pc[c] = "decrypt"
  /\ IF latest[d] \in Revisions /\ CanRead(d, latest[d])
     THEN /\ rev' = [rev EXCEPT ![c] = latest[d]]
          /\ Goto(c, "guard")
          /\ UNCHANGED <<forced, text, took, base>>
     ELSE End(c)
  /\ UNCHANGED <<checkout, built, relay, bounds>>

(* Fault: the dotenv file is not compared. *)
MatchesAnything(d) == mat[d] # Torn

(***************************************************************************)
(* ensure_pull_can_write_local_path: the file may be replaced if it is     *)
(* missing, already what is pulled, or, up to its layout, what the         *)
(* materialized revision holds.                                            *)
(***************************************************************************)
MatchesMaterialized(d) ==
  /\ mat[d] \in Revisions
  /\ Normalize(content[mat[d]]) = Normalize(file[d])

CanWriteLocalPath(c) ==
  LET d == DeviceOf[c] IN
  \/ forced[c]
  \/ file[d] = Absent
  \/ file[d] = content[rev[c]]
  \/ MatchesMaterialized(d)

(* Fault: the revision is marked as materialized before the file is written. *)
CheckLocalPathMarksFirst(c) ==
  /\ pc[c] = "guard"
  /\ IF CanWriteLocalPath(c)
     THEN /\ mat' = [mat EXCEPT ![DeviceOf[c]] = rev[c]]
          /\ Goto(c, "file")
          /\ UNCHANGED <<forced, text, took, base, rev>>
     ELSE End(c) /\ UNCHANGED mat
  /\ UNCHANGED <<latest, stored, file, seen, synced, built, relay, bounds>>

CheckLocalPath(c) ==
  /\ pc[c] = "guard"
  /\ IF CanWriteLocalPath(c)
     THEN Goto(c, "file") /\ UNCHANGED <<forced, text, took, base, rev>>
     ELSE End(c)
  /\ UNCHANGED <<checkout, built, relay, bounds>>

WriteFile(c) ==
  LET d == DeviceOf[c] IN
  /\ pc[c] = "file"
  /\ file' = [file EXCEPT ![d] = content[rev[c]]]
  /\ seen' = [seen EXCEPT ![d] = {rev[c]}]
  /\ Goto(c, "record")
  /\ UNCHANGED <<forced, text, took, base, rev, latest, mat, stored,
                 synced, built, relay, bounds>>

MarkPulled(c) ==
  LET d == DeviceOf[c] IN
  /\ pc[c] = "record"
  /\ mat' = [mat EXCEPT ![d] = rev[c]]
  /\ synced' = [synced EXCEPT ![d] = base[c]]
  /\ End(c)
  /\ UNCHANGED <<latest, stored, file, seen, built, relay, bounds>>

-------------------------------------------------------------------------------
(***************************************************************************)
(* The process is killed.  Pointers and the dotenv file are written in     *)
(* place (fs::write), so the write it was in may leave half a file.        *)
(***************************************************************************)
Crash(c) ==
  LET d == DeviceOf[c] IN
  /\ pc[c] # "idle"
  /\ crashes < MaxCrashes
  /\ \/ UNCHANGED latest
     \/ pc[c] \in {"write", "import"} /\ latest' = [latest EXCEPT ![d] = Torn]
  /\ \/ UNCHANGED mat
     \/ pc[c] \in {"mark", "record"} /\ mat' = [mat EXCEPT ![d] = Torn]
  /\ \/ UNCHANGED <<file, seen>>
     \/ /\ pc[c] = "file"
        /\ file' = [file EXCEPT ![d] = Torn]
        /\ seen' = [seen EXCEPT ![d] = {rev[c]}]
  /\ synced' = [synced EXCEPT ![d] = Unbuilt]
  /\ End(c)
  /\ crashes' = crashes + 1
  /\ UNCHANGED <<stored, built, relay, edits>>

(* The user saves, or removes, the dotenv file while no command runs there. *)
Edit(d, new) ==
  /\ \A c \in Commands : DeviceOf[c] = d => pc[c] = "idle"
  /\ edits < MaxEdits
  /\ new # file[d]
  /\ file' = [file EXCEPT ![d] = new]
  /\ edits' = edits + 1
  /\ UNCHANGED <<command, latest, mat, stored, seen, synced, built, relay, crashes>>

-------------------------------------------------------------------------------
Push(c) ==
  \/ BeginPush(c) \/ CheckBase(c)
  \/ \E r \in Revisions : WriteLocalRevision(c, r)
  \/ MarkPushed(c)
  \/ PublishAccepted(c) \/ PublishConflict(c) \/ PublishFails(c)

Pull(c) ==
  \/ \E force \in BOOLEAN : BeginPull(c, force)
  \/ Fetch(c) \/ FetchFails(c) \/ Import(c) \/ DecryptLatest(c)
  \/ CheckLocalPath(c) \/ WriteFile(c) \/ MarkPulled(c)

Next ==
  \/ \E c \in Commands : Push(c) \/ Pull(c) \/ Crash(c)
  \/ \E d \in Devices, new \in Texts \cup {Absent} : Edit(d, new)

Spec == Init /\ [][Next]_vars

-------------------------------------------------------------------------------
(* Properties *)

(***************************************************************************)
(* "Bob's push must not silently overwrite Alice's change" (protocol §11): *)
(* whatever the relay accepts was written from a dotenv file that had      *)
(* taken in the revision it replaces as the latest.                        *)
(***************************************************************************)
NoLostUpdate ==
  \A r \in Relay!Accepted : log[r] # NoRevision => log[r] \in merged[r]

(***************************************************************************)
(* The inductive invariant behind it, when a checkout runs one command at  *)
(* a time.  A materialized revision that the dotenv file has not taken in  *)
(* (pull crashed between the two writes) is not the latest and never will  *)
(* be: the relay's head only moves on to revisions the device cannot know. *)
(***************************************************************************)
OneAtATime == \A c, e \in Commands : DeviceOf[c] = DeviceOf[e] => c = e

(* A device's pointers name its own revisions or accepted ones. *)
Known(d) == {r \in Built : author[r] = d \/ r \in Relay!Accepted}

PointersKnown ==
  /\ \A r \in Revisions : author[r] \in Devices => r \in Built
  /\ Relay!Accepted \subseteq Built
  /\ head \in Relay!Accepted \cup {NoRevision}
  /\ \A d \in Devices : {latest[d], mat[d]} \subseteq Known(d) \cup {NoRevision, Torn}

PushView(c) ==
  LET d == DeviceOf[c] IN
  /\ pc[c] = "check" => took[c] = seen[d]
  /\ pc[c] = "write" => base[c] \in took[c] \cup {NoRevision}
  /\ pc[c] \in {"mark", "publish"} =>
       /\ rev[c] \in Built \cap seen[d]
       /\ author[rev[c]] = d
       /\ rev[c] \notin Relay!Accepted
       /\ base[c] \in merged[rev[c]] \cup {NoRevision}
  /\ pc[c] = "publish" => mat[d] = rev[c]

PullView(c) ==
  LET d == DeviceOf[c] IN
  /\ pc[c] = "import" => base[c] \in Relay!Accepted
  /\ pc[c] \in {"decrypt", "guard", "file"} => base[c] \in {latest[d], NoRevision}
  /\ pc[c] \in {"guard", "file", "record"} => rev[c] = latest[d]
  /\ pc[c] \in {"import", "decrypt", "guard", "file"} /\ mat[d] \in Revisions =>
       mat[d] = base[c] \/ mat[d] # head
  /\ pc[c] = "record" => rev[c] \in seen[d]

CleanBase ==
  \A d \in Devices :
    mat[d] \in Revisions \ seen[d] =>
      /\ mat[d] \notin {latest[d], head}
      /\ \A c \in Commands : DeviceOf[c] = d /\ pc[c] = "import" => base[c] # mat[d]

PushPullInv ==
  /\ TypeOK /\ PointersKnown /\ CleanBase /\ NoLostUpdate
  /\ \A c \in Commands : PushView(c) /\ PullView(c)

(***************************************************************************)
(* Without --force, keyit replaces only a dotenv file whose assignments    *)
(* some revision stored on the device still holds.                         *)
(***************************************************************************)
PullKeepsWork ==
  [][\A c \in Commands :
       LET d == DeviceOf[c] IN
       /\ pc[c] = "file" /\ ~forced[c]
       /\ file'[d] # file[d] /\ file[d] # Absent
       => \E r \in stored[d] : Normalize(content[r]) = Normalize(file[d])]_vars

(***************************************************************************)
(* "Pull first, ... then push again" (conflicts.mdx): a push that follows  *)
(* a completed pull or push of the device meets a conflict only if another *)
(* revision was accepted in between.  While the environment has no         *)
(* revision at all, a pull finds nothing that a push could start from.     *)
(***************************************************************************)
LaterPushAfterPull ==
  [][\A c \in Commands :
       PublishConflict(c) /\ head # NoRevision => synced[DeviceOf[c]] # head]_vars
===============================================================================
