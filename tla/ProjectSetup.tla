---------------------------- MODULE ProjectSetup ----------------------------
(***************************************************************************)
(* How a machine comes to hold a project: its device keys, keyit init,     *)
(* keyit env add, the bootstrap of a cloned checkout from the relay and    *)
(* the join from an invite bundle.  Every machine has one data directory   *)
(* and one checkout with its locator, keyit.toml.                          *)
(*                                                                         *)
(* The code writes file after file in place, without a transaction.  What  *)
(* a command has decided to write is its plan, a sequence of files and of  *)
(* updates of the locator; a command may die, or a write may fail, in      *)
(* every step of it.                                                       *)
(***************************************************************************)
EXTENDS Naturals, Sequences, FiniteSets, Functions

CONSTANTS
    Machines,
    Founders,       \* machines whose users run init and env add; the others join
    NativeStore,    \* machines that keep device keys in the system's key chain
    Commands,       \* processes
    MachineOf,      \* the machine a process runs on
    Projects,       \* ids that inits may derive
    Environments,   \* ids that env adds may derive
    Labels,         \* environment labels
    None,           \* no file, no value
    Torn,           \* a file that is empty or ends early
    MayForce,       \* whether users give init --force
    MixedBundles,   \* whether a bundle of another project is joined in a checkout
    MaxBusy,        \* bound: commands that run at a time, on all machines, git included
    MaxFaults       \* bound: commands killed, failed writes, refusals of a key chain

ASSUME SetupAssumption ==
    /\ Founders \subseteq Machines
    /\ NativeStore \subseteq Machines
    /\ MachineOf \in [Commands -> Machines]
    /\ IsFiniteSet(Environments)
    /\ MayForce \in BOOLEAN /\ MixedBundles \in BOOLEAN
    /\ MaxBusy \in Nat /\ MaxFaults \in Nat

VARIABLES
    key,        \* key[m][k]: the stored device key
    minted,     \* minted[m]: how many keys were generated there, each unlike any other
    locator,    \* locator[m]: keyit.toml
    whole,      \* whole[m]: the files of the data directory that read back
    torn,       \* torn[m]: those that do not
    relay,      \* the records the relay stores
    creator,    \* creator[p]: the device that signed the genesis of p
    home,       \* home[p]: the machine whose init made p
    made,       \* made[e]: the project and the label of an environment
    job,        \* job[c]: what a process is doing
    faults      \* how many there were so far

files == <<locator, whole, torn>>
history == <<creator, home, made>>
vars == <<key, minted, files, relay, history, job, faults>>

KeyKinds == {"signing", "encryption"}

-----------------------------------------------------------------------------
(* Files of a data directory, and of the relay. *)

Metadata(p) == [file |-> "project.toml", of |-> p]
Genesis(p) == [file |-> "genesis.keyit", of |-> p]
Membership(p) == [file |-> "membership/genesis.keyit", of |-> p]
Environment(e) == [file |-> "environment.keyit", of |-> e]
Local(e) == [file |-> "local.toml", of |-> e]

Files ==
    {Metadata(p) : p \in Projects} \cup {Genesis(p) : p \in Projects}
        \cup {Membership(p) : p \in Projects}
        \cup {Environment(e) : e \in Environments} \cup {Local(e) : e \in Environments}

Exists(m, f) == f \in whole[m] \cup torn[m]

EnvironmentsOf(p) == {e \in Environments : made[e] # None /\ made[e].project = p}

\* read_environment_genesis_records: every environment.keyit there is
RecordsOf(m, p) == {e \in EnvironmentsOf(p) : Exists(m, Environment(e))}

\* the orders a set of environments may have, by id or by label
Orders(E) == Surjection(1..Cardinality(E), E)

Locators == [project : Projects, environments : SUBSET Environments]

CommandNames == {"init", "add", "open", "join"}

\* None and Torn are unlike anything that is stored
ASSUME MarksAssumption ==
    /\ None \notin CommandNames \cup Machines \cup Projects \cup {Torn}
                    \cup [project : Projects, label : Labels]
    /\ \A mark \in {None, Torn} : mark \notin Nat /\ mark \notin Seq(Nat) /\ mark \notin Locators

-----------------------------------------------------------------------------
(* Plans: what is written, in which order. *)

Write(f) == [op |-> "write", what |-> f]
ResetLocator(p) == [op |-> "reset", what |-> p]
Upsert(e) == [op |-> "upsert", what |-> e]
ImportMembership(p) == [op |-> "import", what |-> p]

\* Fault: the record is written where the local settings belong
WriteEnvironmentDirTwice(e) == <<Write(Environment(e)), Write(Environment(e))>>

WriteEnvironmentDir(e) == <<Write(Environment(e)), Write(Local(e))>>

\* one directory after the other
WriteEnvironmentDirs(s) ==
    [i \in 1..(2 * Len(s)) |->
        IF i % 2 = 1 THEN WriteEnvironmentDir(s[(i + 1) \div 2])[1]
        ELSE WriteEnvironmentDir(s[i \div 2])[2]]

WriteKeyitDir(p) == <<Write(Metadata(p)), Write(Genesis(p)), Write(Membership(p))>>

WriteProjectBootstrapDir(p, s) ==
    <<Write(Metadata(p)), Write(Genesis(p))>> \o WriteEnvironmentDirs(s)

UpsertAll(s) == [i \in DOMAIN s |-> Upsert(s[i])]

InitPlan(p) == WriteKeyitDir(p) \o <<ResetLocator(p)>>

\* Fault: the locator names the environment before its record is there
EnvAddPlanLocatorFirst(e) == <<Upsert(e)>> \o WriteEnvironmentDir(e)

EnvAddPlan(e) == WriteEnvironmentDir(e) \o <<Upsert(e)>>

BootstrapPlan(p, s) ==
    WriteProjectBootstrapDir(p, s) \o <<ImportMembership(p), ResetLocator(p)>> \o UpsertAll(s)

\* prepare_join_project, in a data directory that has the project or not
JoinPlan(m, p, s) ==
    IF Exists(m, Metadata(p))
    THEN (IF locator[m] = None THEN <<ResetLocator(p)>> ELSE <<>>)
            \o WriteEnvironmentDirs(s) \o UpsertAll(s)
    ELSE WriteProjectBootstrapDir(p, s) \o <<ResetLocator(p)>> \o UpsertAll(s)

-----------------------------------------------------------------------------
(* Jobs. *)

Idle == [stage |-> "idle", command |-> None, about |-> None, plan |-> <<>>,
         keys |-> <<>>, seed |-> None]

Busy(m) == \E c \in Commands : MachineOf[c] = m /\ job[c].stage # "idle"

MayStart == Cardinality({d \in Commands : job[d] # Idle}) < MaxBusy

To(c, stage) == job' = [job EXCEPT ![c].stage = stage]

End(c) == job' = [job EXCEPT ![c] = Idle]

Start(c, command, about, stage, plan) ==
    /\ MayStart
    /\ job' = [job EXCEPT ![c] = [Idle EXCEPT !.stage = stage, !.command = command,
                                               !.about = about, !.plan = plan]]

Init ==
    /\ key = [m \in Machines |-> [k \in KeyKinds |-> None]]
    /\ minted = [m \in Machines |-> 0]
    /\ locator = [m \in Machines |-> None]
    /\ whole = [m \in Machines |-> {}]
    /\ torn = [m \in Machines |-> {}]
    /\ relay = {}
    /\ creator = [p \in Projects |-> None]
    /\ home = [p \in Projects |-> None]
    /\ made = [e \in Environments |-> None]
    /\ job = [c \in Commands |-> Idle]
    /\ faults = 0

-----------------------------------------------------------------------------
(* Device keys: load_or_create_device_signing_key, then the encryption key. *)

KeyOrder == <<"signing", "encryption">>

Wanted(c) == KeyOrder[Len(job[c].keys) + 1]

\* with both keys the command goes on
WithKey(c, seed) ==
    LET keys == Append(job[c].keys, seed) IN
    job' = [job EXCEPT ![c].keys = keys,
                       ![c].seed = None,
                       ![c].stage = IF Len(keys) < Len(KeyOrder) THEN "key"
                                    ELSE CASE job[c].command = "init" -> "found"
                                           [] job[c].command = "add" -> "create"
                                           [] job[c].command = "join" -> "request"]

\* a key file that does not decode is an error from then on
LookForKey(c) ==
    LET stored == key[MachineOf[c]][Wanted(c)] IN
    /\ job[c].stage = "key"
    /\ CASE stored = Torn -> End(c)
         [] stored = None -> To(c, "generate")
         [] OTHER -> WithKey(c, stored)
    /\ UNCHANGED <<key, minted, files, relay, history, faults>>

\* every key chain error is taken for a key that is not there
KeyChainRefuses(c) ==
    /\ faults < MaxFaults
    /\ job[c].stage = "key"
    /\ MachineOf[c] \in NativeStore
    /\ key[MachineOf[c]][Wanted(c)] # None
    /\ faults' = faults + 1
    /\ To(c, "generate")
    /\ UNCHANGED <<key, minted, files, relay, history>>

\* Fault: one seed for all keys of a machine
GenerateOnce(m) == 0

Generate(m) == minted[m]

\* the key chain replaces what it has
StoreNativeKey(c) ==
    LET m == MachineOf[c] IN
    /\ job[c].stage = "generate"
    /\ m \in NativeStore
    /\ key' = [key EXCEPT ![m][Wanted(c)] = Generate(m)]
    /\ minted' = [minted EXCEPT ![m] = @ + 1]
    /\ WithKey(c, Generate(m))
    /\ UNCHANGED <<files, relay, history, faults>>

\* open with create and truncate: the file is there, and empty
CreateKeyFile(c) ==
    LET m == MachineOf[c] IN
    /\ job[c].stage = "generate"
    /\ m \notin NativeStore
    /\ key' = [key EXCEPT ![m][Wanted(c)] = Torn]
    /\ minted' = [minted EXCEPT ![m] = @ + 1]
    /\ job' = [job EXCEPT ![c].stage = "store", ![c].seed = Generate(m)]
    /\ UNCHANGED <<files, relay, history, faults>>

\* Fault: the key is used although it was not written
WriteKeyFileIgnored(c) ==
    /\ job[c].stage = "store"
    /\ WithKey(c, job[c].seed)
    /\ UNCHANGED <<key, minted, files, relay, history, faults>>

WriteKeyFile(c) ==
    /\ job[c].stage = "store"
    /\ key' = [key EXCEPT ![MachineOf[c]][Wanted(c)] = job[c].seed]
    /\ WithKey(c, job[c].seed)
    /\ UNCHANGED <<minted, files, relay, history, faults>>

-----------------------------------------------------------------------------
(* keyit init *)

BeginInit(c) ==
    LET m == MachineOf[c] IN
    /\ job[c] = Idle
    /\ m \in Founders
    /\ locator[m] = None \/ MayForce
    /\ \E p \in Projects : creator[p] = None
    /\ Start(c, "init", None, "key", <<>>)
    /\ UNCHANGED <<key, minted, files, relay, history, faults>>

\* the genesis and the membership genesis are built, signed and verified
Found(c, p) ==
    LET m == MachineOf[c] IN
    /\ job[c].stage = "found"
    /\ creator[p] = None
    /\ creator' = [creator EXCEPT ![p] = job[c].keys]
    /\ home' = [home EXCEPT ![p] = m]
    /\ job' = [job EXCEPT ![c].stage = "write", ![c].plan = InitPlan(p)]
    /\ UNCHANGED <<key, minted, files, relay, made, faults>>

-----------------------------------------------------------------------------
(* require_project_layout and bootstrap_from_relay, the first thing every  *)
(* command but init and a join from a bundle does.                         *)

BeginCommand(c, command, about) ==
    /\ job[c] = Idle
    /\ command = "add" => MachineOf[c] \in Founders /\ \E e \in Environments : made[e] = None
    /\ Start(c, command, about, "resolve", <<>>)
    /\ UNCHANGED <<key, minted, files, relay, history, faults>>

Resolve(c) ==
    LET m == MachineOf[c] IN
    /\ job[c].stage = "resolve"
    /\ IF locator[m] \in {None, Torn} THEN End(c)
       ELSE To(c, IF Exists(m, Metadata(locator[m].project)) THEN "load" ELSE "fetch")
    /\ UNCHANGED <<key, minted, files, relay, history, faults>>

FetchFails(c) ==
    /\ job[c].stage = "fetch"
    /\ End(c)
    /\ UNCHANGED <<key, minted, files, relay, history, faults>>

\* what validate_environment compares with the locator
FitsLocator(l, e) == made[e].project = l.project

\* Fault: what the relay does not have is left out
FetchWhatIsThere(c) ==
    LET l == locator[MachineOf[c]] IN
    /\ job[c].stage = "fetch"
    /\ Genesis(l.project) \in relay
    /\ \E s \in Orders({e \in l.environments : Environment(e) \in relay /\ FitsLocator(l, e)}) :
         job' = [job EXCEPT ![c].stage = "bootstrap", ![c].about = [read |-> l, was |-> @],
                            ![c].plan = BootstrapPlan(l.project, s)]
    /\ UNCHANGED <<key, minted, files, relay, history, faults>>

\* nothing is written before everything the locator names was fetched
Fetch(c) ==
    LET l == locator[MachineOf[c]] IN
    /\ job[c].stage = "fetch"
    /\ Genesis(l.project) \in relay
    /\ \A e \in l.environments : Environment(e) \in relay /\ FitsLocator(l, e)
    /\ \E s \in Orders(l.environments) :
         job' = [job EXCEPT ![c].stage = "bootstrap", ![c].about = [read |-> l, was |-> @],
                            ![c].plan = BootstrapPlan(l.project, s)]
    /\ UNCHANGED <<key, minted, files, relay, history, faults>>

Bootstrapped(c) ==
    /\ job[c].stage = "bootstrap"
    /\ job[c].plan = <<>>
    /\ job' = [job EXCEPT ![c].stage = "load", ![c].about = @.was]
    /\ UNCHANGED <<key, minted, files, relay, history, faults>>

-----------------------------------------------------------------------------
(* What the commands do with the layout. *)

\* load_project and load_environment_refs, in status, push, pull and the like
Readable(m, p) ==
    /\ Genesis(p) \in whole[m]
    /\ \A e \in RecordsOf(m, p) : {Environment(e), Local(e)} \subseteq whole[m]

OpenProject(c) ==
    /\ job[c].stage = "load"
    /\ job[c].command = "open"
    /\ End(c)
    /\ UNCHANGED <<key, minted, files, relay, history, faults>>

\* run_env_add reads the project and its membership genesis
CheckOwner(c) ==
    LET m == MachineOf[c]
        p == locator[m].project
    IN
    /\ job[c].stage = "load"
    /\ job[c].command = "add"
    /\ IF {Genesis(p), Membership(p)} \subseteq whole[m]
       THEN To(c, "key")
       ELSE End(c)
    /\ UNCHANGED <<key, minted, files, relay, history, faults>>

\* Fault: the labels in use are looked up in the locator
LabelsInUseByLocator(m, p) == {made[e].label : e \in locator[m].environments}

LabelsInUse(m, p) == {made[e].label : e \in RecordsOf(m, p)}

CreateEnvironment(c, e) ==
    LET m == MachineOf[c]
        p == locator[m].project
        label == job[c].about
    IN
    /\ job[c].stage = "create"
    /\ made[e] = None
    /\ IF /\ job[c].keys = creator[p]
          /\ \A f \in RecordsOf(m, p) : Environment(f) \in whole[m]
          /\ label \notin LabelsInUse(m, p)
       THEN /\ made' = [made EXCEPT ![e] = [project |-> p, label |-> label]]
            /\ job' = [job EXCEPT ![c].stage = "write", ![c].plan = EnvAddPlan(e)]
       ELSE End(c) /\ UNCHANGED made
    /\ UNCHANGED <<key, minted, files, relay, creator, home, faults>>

\* an invite bundle carries the genesis and some environments of its project
Bundles ==
    UNION {[project : {p},
            environments : SUBSET {e \in EnvironmentsOf(p) : Environment(e) \in whole[home[p]]} \ {{}}] :
             p \in {q \in Projects : home[q] # None /\ Genesis(q) \in whole[home[q]]}}

BeginJoin(c, b) ==
    LET m == MachineOf[c] IN
    /\ m \notin Founders
    /\ ~MixedBundles /\ locator[m] \notin {None, Torn} => locator[m].project = b.project
    /\ Exists(m, Metadata(b.project)) => Genesis(b.project) \in whole[m]
    /\ \E s \in Orders(b.environments) :
         Start(c, "join", None, "write", JoinPlan(m, b.project, s))
    /\ UNCHANGED <<key, minted, files, relay, history, faults>>

\* the join request itself is in Membership
RequestToJoin(c) ==
    /\ job[c].stage = "request"
    /\ End(c)
    /\ UNCHANGED <<key, minted, files, relay, history, faults>>

-----------------------------------------------------------------------------
(* One write after the other. *)

\* an entry with the id or the label of the new one is replaced
Entered(l, e) ==
    [l EXCEPT !.environments = {f \in @ : made[f].label # made[e].label} \cup {e}]

StoresFile(step) ==
    \/ step.op = "write"
    \/ step.op = "import" /\ Membership(step.what) \in relay

FileOf(step) == IF step.op = "write" THEN step.what ELSE Membership(step.what)

\* Fault: a new locator keeps the entries of the old one
LocatorAfterKeepingEntries(m, step) ==
    CASE step.op = "reset" -> [project |-> step.what,
                               environments |-> IF locator[m] \in {None, Torn} THEN {}
                                                ELSE locator[m].environments]
      [] step.op = "upsert" -> Entered(locator[m], step.what)
      [] OTHER -> locator[m]

LocatorAfter(m, step) ==
    CASE step.op = "reset" -> [project |-> step.what, environments |-> {}]
      [] step.op = "upsert" -> Entered(locator[m], step.what)
      [] OTHER -> locator[m]

Fails(m, step) == step.op = "upsert" /\ locator[m] \in {None, Torn}

Step(c) ==
    LET m == MachineOf[c]
        step == Head(job[c].plan)
    IN
    /\ job[c].stage \in {"write", "bootstrap"}
    /\ job[c].plan # <<>>
    /\ IF Fails(m, step)
       THEN End(c) /\ UNCHANGED files
       ELSE /\ job' = [job EXCEPT ![c].plan = Tail(@)]
            /\ locator' = [locator EXCEPT ![m] = LocatorAfter(m, step)]
            /\ IF StoresFile(step)
               THEN /\ whole' = [whole EXCEPT ![m] = @ \cup {FileOf(step)}]
                    /\ torn' = [torn EXCEPT ![m] = @ \ {FileOf(step)}]
               ELSE UNCHANGED <<whole, torn>>
    /\ UNCHANGED <<key, minted, relay, history, faults>>

Written(c) ==
    /\ job[c].stage = "write"
    /\ job[c].plan = <<>>
    /\ IF job[c].command = "join" THEN To(c, "key") ELSE End(c)
    /\ UNCHANGED <<key, minted, files, relay, history, faults>>

\* the relay cannot be reached for the membership genesis
ImportFails(c) ==
    /\ job[c].stage = "bootstrap"
    /\ job[c].plan # <<>> /\ Head(job[c].plan).op = "import"
    /\ End(c)
    /\ UNCHANGED <<key, minted, files, relay, history, faults>>

\* killed, or a write fails: between two steps or in the middle of a write
Crash(c) ==
    LET m == MachineOf[c]
        step == Head(job[c].plan)
    IN
    /\ faults < MaxFaults
    /\ job[c].stage # "idle"
    /\ faults' = faults + 1
    /\ End(c)
    /\ \/ UNCHANGED files
       \/ /\ job[c].plan # <<>>
          /\ StoresFile(step)
          /\ whole' = [whole EXCEPT ![m] = @ \ {FileOf(step)}]
          /\ torn' = [torn EXCEPT ![m] = @ \cup {FileOf(step)}]
          /\ UNCHANGED locator
       \/ /\ job[c].plan # <<>>
          /\ step.op \in {"reset", "upsert"}
          /\ locator' = [locator EXCEPT ![m] = Torn]
          /\ UNCHANGED <<whole, torn>>
    /\ UNCHANGED <<key, minted, relay, history>>

-----------------------------------------------------------------------------
(* The other ways records and locators travel. *)

\* publish_shared_project_state_to_http_relay: what is there, in this order
Shared(m, p) ==
    LET records == {Environment(e) : e \in RecordsOf(m, p)}
        readable == IF records \subseteq whole[m] THEN records ELSE {}
    IN <<{Genesis(p)}, {f \in {Membership(p)} : Exists(m, f)}, readable>>

\* one record more of those that a command shares (the commands are in Membership)
Publish(m) ==
    /\ locator[m] \notin {None, Torn}
    /\ ~Busy(m) /\ MayStart
    /\ LET shared == Shared(m, locator[m].project) IN
       \E i \in DOMAIN shared : \E f \in shared[i] :
         /\ f \in whole[m] \ relay
         /\ \A j \in 1..(i - 1) : shared[j] \subseteq relay
         /\ relay' = relay \cup {f}
    /\ UNCHANGED <<key, minted, files, history, job, faults>>

\* the locator is committed by one user and checked out by another (external)
CheckOut(from, m) ==
    /\ locator[from] \notin {None, Torn}
    /\ locator[m] # locator[from]
    /\ m \notin Founders /\ from \in Founders
    /\ ~Busy(m) /\ MayStart
    /\ locator' = [locator EXCEPT ![m] = locator[from]]
    /\ UNCHANGED <<key, minted, whole, torn, relay, history, job, faults>>

Command(c) ==
    \/ BeginInit(c) \/ (\E p \in Projects : Found(c, p))
    \/ LookForKey(c) \/ KeyChainRefuses(c) \/ StoreNativeKey(c) \/ CreateKeyFile(c) \/ WriteKeyFile(c)
    \/ BeginCommand(c, "open", None) \/ (\E l \in Labels : BeginCommand(c, "add", l))
    \/ Resolve(c) \/ FetchFails(c) \/ Fetch(c) \/ Bootstrapped(c)
    \/ OpenProject(c) \/ CheckOwner(c) \/ (\E e \in Environments : CreateEnvironment(c, e))
    \/ (job[c] = Idle /\ \E b \in Bundles : BeginJoin(c, b)) \/ RequestToJoin(c)
    \/ Step(c) \/ Written(c) \/ ImportFails(c) \/ Crash(c)

Next ==
    \/ \E c \in Commands : Command(c)
    \/ \E m \in Machines : Publish(m)
    \/ \E from, m \in Machines : CheckOut(from, m)

Spec == Init /\ [][Next]_vars

-----------------------------------------------------------------------------
(* Properties.  All but the first are stated for one command at a time on  *)
(* each machine.                                                           *)

Stages == {"idle", "key", "generate", "store", "found", "resolve", "fetch", "bootstrap",
           "load", "create", "write", "request"}

PlanSteps ==
    [op : {"write"}, what : Files] \cup [op : {"reset", "import"}, what : Projects]
        \cup [op : {"upsert"}, what : Environments]

Topics == Labels \cup {None}

Jobs ==
    [stage : Stages, command : CommandNames \cup {None},
     about : Topics \cup [read : Locators, was : Topics],
     plan : Seq(PlanSteps), keys : Seq(Nat), seed : Nat \cup {None}]

\* A file reads back or does not, and what was made is named by its maker.
TypeOK ==
    /\ key \in [Machines -> [KeyKinds -> Nat \cup {None, Torn}]]
    /\ minted \in [Machines -> Nat]
    /\ locator \in [Machines -> Locators \cup {None, Torn}]
    /\ whole \in [Machines -> SUBSET Files]
    /\ torn \in [Machines -> SUBSET Files]
    /\ relay \subseteq Files
    /\ creator \in [Projects -> Seq(Nat) \cup {None}]
    /\ home \in [Projects -> Founders \cup {None}]
    /\ \A p \in Projects : creator[p] = None <=> home[p] = None
    /\ made \in [Environments -> [project : Projects, label : Labels] \cup {None}]
    /\ job \in [Commands -> Jobs]
    /\ faults \in 0..MaxFaults

\* "The same device identity is reused" (device_key.rs): the keys that signed
\* the genesis of a project remain the stored keys of the machine, which is
\* therefore still its owner, whatever crashed in between.  Stated for founders
\* that keep their keys in files: a key chain that refuses once to answer makes
\* a machine replace its keys, and a native founder loses its project.
CreatorKeepsItsKeys ==
    \A p \in Projects : home[p] \notin NativeStore \cup {None} =>
        creator[p] = [i \in 1..Len(KeyOrder) |-> key[home[p]][KeyOrder[i]]]

\* The locator of a project made on this machine is only there when the whole
\* project is, and lists an environment only when that is: init and env add
\* write it last.
LocatorIsBacked ==
    \A m \in Machines :
        locator[m] \notin {None, Torn} /\ home[locator[m].project] = m =>
            LET p == locator[m].project IN
            /\ {Metadata(p), Genesis(p), Membership(p)} \subseteq whole[m]
            /\ \A e \in locator[m].environments : {Environment(e), Local(e)} \subseteq whole[m]

\* The environments that the locator lists belong to the project it names, in
\* every checkout, also after init --force and a change of the locator by git.
LocatorIsOfOneProject ==
    \A m \in Machines :
        locator[m] \notin {None, Torn} =>
            \A e \in locator[m].environments : made[e].project = locator[m].project

\* A data directory has one environment of a label, so that a selector names
\* one environment, also when an env add that broke off is repeated.
LabelsAreUnique ==
    \A m \in Machines : \A p \in Projects : \A e, f \in RecordsOf(m, p) :
        e # f => made[e].label # made[f].label

\* Where no command was interrupted, a project whose directory exists can be
\* read: a bootstrap writes nothing before it has fetched everything, and an
\* unreachable relay leaves nothing half done.
OpensUnlessInterrupted ==
    faults = 0 => \A c \in Commands : job[c].stage = "load" =>
        Readable(MachineOf[c], locator[MachineOf[c]].project)

\* A bootstrap rewrites the committed locator and ends with the one it found:
\* it leaves nothing for the user to commit.
BootstrapKeepsTheLocator ==
    [][\A c \in Commands : Bootstrapped(c) => locator[MachineOf[c]] = job[c].about.read]_vars

-----------------------------------------------------------------------------
(* The inductive invariant behind the properties, for one command at a     *)
(* time on each machine.                                                   *)

OneCommandPerMachine == \A c, d \in Commands : MachineOf[c] = MachineOf[d] => c = d

HasLocator(m) == locator[m] \notin {None, Torn}

Pending(c) == Range(job[c].plan)

(* Keys: a stored key was generated once and is stored under one name      *)
(* only; a command that holds keys of a machine with key files holds the   *)
(* stored ones, and replaces none.                                         *)
KeysAreDistinct ==
    \A m \in Machines : \A k \in KeyKinds : key[m][k] \in Nat =>
        /\ key[m][k] < minted[m]
        /\ \A l \in KeyKinds \ {k} : key[m][l] # key[m][k]

KeyView(c) ==
    LET m == MachineOf[c] IN
    /\ m \notin NativeStore =>
         /\ job[c].stage = "generate" => key[m][Wanted(c)] = None
         /\ \A i \in DOMAIN job[c].keys : job[c].keys[i] = key[m][KeyOrder[i]]
    /\ job[c].stage = "store" =>
         /\ m \notin NativeStore
         /\ key[m][Wanted(c)] = Torn
         /\ job[c].seed \in Nat /\ job[c].seed < minted[m]
         /\ \A k \in KeyKinds : key[m][k] # job[c].seed

(* What the stage of a command says about it. *)
JobView(c) ==
    LET m == MachineOf[c]
        j == job[c]
    IN
    /\ j.stage = "idle" => j = Idle
    /\ j.stage \notin {"write", "bootstrap"} => j.plan = <<>>
    /\ j.stage \in {"resolve", "fetch", "bootstrap", "load"} => j.command \in {"open", "add"}
    /\ j.stage \in {"key", "generate", "store", "write"} => j.command \in {"init", "add", "join"}
    /\ j.stage = "found" => j.command = "init"
    /\ j.stage = "create" => j.command = "add"
    /\ j.command \in {"init", "add"} => m \in Founders
    /\ j.command = "join" => m \notin Founders
    /\ j.stage \in {"fetch", "bootstrap", "request"} => m \notin Founders
    /\ j.stage \in {"key", "generate", "store"} => Len(j.keys) < Len(KeyOrder)
    /\ j.stage \in {"found", "create"} => Len(j.keys) = Len(KeyOrder)
    /\ j.stage \in {"resolve", "fetch", "bootstrap", "load"} => j.keys = <<>>
    /\ j.stage = "write" /\ j.command = "join" => j.keys = <<>>
    /\ IF j.stage = "bootstrap" THEN j.about.read \in Locators /\ j.about.was \in Topics
       ELSE j.about \in Topics
    /\ j.command = "add" =>
         (IF j.stage = "bootstrap" THEN j.about.was ELSE j.about) \in Labels
    /\ j.stage \in {"fetch", "bootstrap", "load"} => HasLocator(m)
    /\ j.command = "add" /\ j.stage \in {"key", "generate", "store", "create"} => HasLocator(m)
    /\ j.stage = "load" => Exists(m, Metadata(locator[m].project))

(* Plans: nothing but updates follows an update of the locator, nothing is *)
(* written after an import that may fail, and a record is followed by what *)
(* is read together with it.                                               *)
MayFollow(first, next) ==
    /\ first.op = "upsert" => next.op = "upsert"
    /\ first.op = "import" => next.op # "write"
    /\ first.op = "reset" => next.op # "reset"

Ordered(plan) == \A i, j \in DOMAIN plan : i < j => MayFollow(plan[i], plan[j])

Partner == {<<Environment(e), Local(e)>> : e \in Environments}
             \cup {<<Metadata(p), Genesis(p)>> : p \in Projects}

Completed(plan) ==
    \A pair \in Partner : \A i \in DOMAIN plan : plan[i] = Write(pair[1]) =>
        \E j \in DOMAIN plan : i < j /\ plan[j] = Write(pair[2])

UpdatesFit(c) ==
    LET m == MachineOf[c] IN
    \A e \in Environments : Upsert(e) \in Pending(c) =>
        /\ made[e] # None
        /\ ~MixedBundles =>
             /\ \A p \in Projects : ResetLocator(p) \in Pending(c) => p = made[e].project
             /\ HasLocator(m) => locator[m].project = made[e].project

RecordsFit(c) ==
    LET m == MachineOf[c] IN
    \A e \in Environments : Write(Environment(e)) \in Pending(c) =>
        /\ made[e] # None
        /\ \A p \in Projects, h \in Machines : made[e].project = p /\ home[p] = h =>
             IF h = m THEN \A f \in RecordsOf(m, p) \ {e} : made[f].label # made[e].label
             ELSE Exists(h, Environment(e))

(* A founder's command writes one record at most, updates the locator      *)
(* last, to files that are whole by then, and writes no file that the      *)
(* locator already stands for.                                             *)
ResetsLate(plan) ==
    \A i, j \in DOMAIN plan : i < j /\ plan[i].op = "reset" => plan[j].op # "write"

Listed(m) ==
    LET p == locator[m].project IN
    {Metadata(p), Genesis(p), Membership(p)}
        \cup UNION {{Environment(e), Local(e)} : e \in locator[m].environments}

Comes(c, f) == f \in whole[MachineOf[c]] \/ Write(f) \in Pending(c)

FounderPlan(c) ==
    LET m == MachineOf[c] IN
    /\ ResetsLate(job[c].plan)
    /\ \A d, e \in Environments :
         {Write(Environment(d)), Write(Environment(e))} \subseteq Pending(c) => d = e
    /\ \A p \in Projects :
         /\ ImportMembership(p) \notin Pending(c)
         /\ ResetLocator(p) \in Pending(c) =>
              /\ home[p] = m
              /\ Comes(c, Metadata(p)) /\ Comes(c, Genesis(p)) /\ Comes(c, Membership(p))
    /\ \A e \in Environments : Upsert(e) \in Pending(c) =>
         Comes(c, Environment(e)) /\ Comes(c, Local(e))
    /\ HasLocator(m) => \A f \in Listed(m) : Write(f) \notin Pending(c)

PlanView(c) ==
    /\ Ordered(job[c].plan)
    /\ Completed(job[c].plan)
    /\ UpdatesFit(c)
    /\ RecordsFit(c)
    /\ \A p \in Projects : ResetLocator(p) \in Pending(c) => home[p] # None
    /\ MachineOf[c] \in Founders => FounderPlan(c)

(* A bootstrap enters again, one by one, what the locator listed.          *)
BootView(c) ==
    LET m == MachineOf[c]
        read == job[c].about.read
        left == {e \in Environments : Upsert(e) \in Pending(c)}
    IN
    job[c].stage = "bootstrap" =>
        /\ locator[m].project = read.project
        /\ Comes(c, Metadata(read.project))
        /\ \A e, f \in read.environments : e # f => made[e].label # made[f].label
        /\ \A p \in Projects : ResetLocator(p) \in Pending(c) => p = read.project
        /\ IF ResetLocator(read.project) \in Pending(c) THEN left = read.environments
           ELSE left \cup locator[m].environments = read.environments

(* Projects, environments and where their records are. *)
LocatorView(m) ==
    HasLocator(m) =>
        /\ home[locator[m].project] # None
        /\ \A e \in locator[m].environments : made[e] # None
        /\ m \in Founders => home[locator[m].project] = m /\ Listed(m) \subseteq whole[m]

\* a record is at home wherever else it is
RecordsAreAtHome ==
    \A e \in Environments :
        /\ made[e] # None => home[made[e].project] # None
        /\ Environment(e) \in relay \cup UNION {whole[m] \cup torn[m] : m \in Machines} =>
             /\ made[e] # None
             /\ \A p \in Projects, m \in Machines : made[e].project = p /\ home[p] = m =>
                  Exists(m, Environment(e))

HomeLabelsAreUnique ==
    \A p \in Projects, m \in Machines : home[p] = m =>
        \A e, f \in RecordsOf(m, p) : e # f => made[e].label # made[f].label

\* without a fault nothing is torn, and what is half there is being completed
Undisturbed ==
    faults = 0 => \A m \in Machines :
        /\ torn[m] = {}
        /\ \A pair \in Partner : pair[1] \in whole[m] =>
             \/ pair[2] \in whole[m]
             \/ \E c \in Commands : MachineOf[c] = m /\ Write(pair[2]) \in Pending(c)

SetupInv ==
    /\ TypeOK /\ KeysAreDistinct /\ CreatorKeepsItsKeys
    /\ \A c \in Commands : KeyView(c) /\ JobView(c) /\ PlanView(c) /\ BootView(c)
    /\ \A m \in Machines : LocatorView(m)
    /\ RecordsAreAtHome /\ HomeLabelsAreUnique /\ Undisturbed
    /\ ~MixedBundles => LocatorIsOfOneProject
=============================================================================
