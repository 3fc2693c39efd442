---------------------------- MODULE PushPullProofs ----------------------------
(***************************************************************************)
(* For every number of devices, commands and revisions: when a checkout    *)
(* runs one keyit command at a time (OneAtATime), no push that the relay   *)
(* accepts overwrites a revision its author's dotenv file had not taken in,*)
(* and after a pull a push conflicts only with newer work.                 *)
(***************************************************************************)
EXTENDS PushPull, TLAPS

USE PushPullAssumption, TextAssumption
USE DEF checkout, built, relay, bounds, Goto

(* Every variable keeps its type, however many commands run in a checkout. *)
LEMMA PushPullTypeInit == Init => TypeOK
  BY DEF Init, TypeOK, CommandTypes, InMemory, CheckoutTypes, RevisionTypes,
     Steps, Pointers, Built, Relay!Init, Relay!TypeOK

(* A command that ends keeps no memory that needs a type. *)
LEMMA EndTypes ==
  ASSUME CommandTypes, InMemory, NEW c \in Commands, End(c), UNCHANGED content
  PROVE  /\ (CommandTypes /\ InMemory)'
         /\ pc'[c] = "idle"
         /\ \A e \in Commands \ {c} :
              /\ pc'[e] = pc[e] /\ text'[e] = text[e] /\ took'[e] = took[e]
              /\ base'[e] = base[e] /\ rev'[e] = rev[e] /\ forced'[e] = forced[e]
<1>1. pc' \in [Commands -> Steps] /\ forced' \in [Commands -> BOOLEAN]
  BY DEF CommandTypes, End, Steps
<1>2. text' \in [Commands -> Texts \cup {Torn, Absent}] /\ took' \in [Commands -> SUBSET Revisions]
  BY DEF CommandTypes, End
<1>3. /\ base' \in [Commands -> Revisions \cup {NoRevision}]
      /\ rev' \in [Commands -> Revisions \cup {NoRevision}]
  BY DEF CommandTypes, End
<1>4. /\ pc'[c] = "idle"
      /\ \A e \in Commands \ {c} :
           /\ pc'[e] = pc[e] /\ text'[e] = text[e] /\ took'[e] = took[e]
           /\ base'[e] = base[e] /\ rev'[e] = rev[e] /\ forced'[e] = forced[e]
  BY DEF CommandTypes, End
<1>5. InMemory'
  BY <1>4 DEF InMemory, Built
<1> QED
  BY <1>1, <1>2, <1>3, <1>4, <1>5 DEF CommandTypes

(* A step changes the types of no variable. *)
LEMMA PushPullTypeStep == TypeOK /\ [Next]_vars => TypeOK'
<1> SUFFICES ASSUME TypeOK, [Next]_vars PROVE TypeOK'
  OBVIOUS
<1> DEFINE Cmd == CommandTypes /\ InMemory
           Rest == CheckoutTypes /\ RevisionTypes
<1> USE DEF TypeOK, Steps, Pointers, Built, Relay!TypeOK
<1>1. ASSUME NEW c \in Commands, BeginPush(c) PROVE TypeOK'
  <2>1. Cmd'
    BY <1>1 DEF BeginPush, CommandTypes, InMemory, CheckoutTypes
  <2>2. Rest'
    BY <1>1 DEF BeginPush, CheckoutTypes, RevisionTypes, InMemory, CommandTypes
  <2> QED
    BY <2>1, <2>2
<1>2. ASSUME NEW c \in Commands, CheckBase(c) PROVE TypeOK'
  <2>1. Cmd'
    BY <1>2, EndTypes DEF CheckBase, BaseIsLatest, CommandTypes, InMemory
  <2>2. Rest'
    BY <1>2 DEF CheckBase, BaseIsLatest, CheckoutTypes, RevisionTypes, InMemory, CommandTypes
  <2> QED
    BY <2>1, <2>2
<1>3. ASSUME NEW c \in Commands, NEW r \in Revisions, WriteLocalRevision(c, r) PROVE TypeOK'
  <2>1. Cmd'
    <3>1. text[c] \in Texts \cup {Torn}
      BY <1>3 DEF WriteLocalRevision, CommandTypes, InMemory
    <3>2. Built' = Built \cup {r}
      BY <1>3, <3>1 DEF WriteLocalRevision, RevisionTypes
    <3>3. CommandTypes'
      BY <1>3 DEF WriteLocalRevision, CommandTypes
    <3>4. InMemory'
      BY <1>3, <3>2 DEF WriteLocalRevision, CommandTypes, InMemory
    <3> QED
      BY <3>3, <3>4
  <2>2. Rest'
    BY <1>3 DEF WriteLocalRevision, CheckoutTypes, RevisionTypes, InMemory, CommandTypes
  <2> QED
    BY <2>1, <2>2
<1>4. ASSUME NEW c \in Commands, MarkPushed(c) PROVE TypeOK'
  <2>1. Cmd'
    BY <1>4 DEF MarkPushed, CommandTypes, InMemory
  <2>2. Rest'
    BY <1>4 DEF MarkPushed, CheckoutTypes, RevisionTypes, InMemory, CommandTypes
  <2> QED
    BY <2>1, <2>2
<1>5. ASSUME NEW c \in Commands, PublishAccepted(c) PROVE TypeOK'
  <2>1. Cmd'
    BY <1>5, EndTypes DEF PublishAccepted
  <2>2. Rest'
    BY <1>5 DEF PublishAccepted, Relay!Accept, CheckoutTypes, RevisionTypes, InMemory, CommandTypes
  <2> QED
    BY <2>1, <2>2
<1>6. ASSUME NEW c \in Commands, PublishConflict(c) PROVE TypeOK'
  <2>1. Cmd'
    BY <1>6, EndTypes DEF PublishConflict
  <2>2. Rest'
    BY <1>6 DEF PublishConflict, CheckoutTypes, RevisionTypes, InMemory, CommandTypes
  <2> QED
    BY <2>1, <2>2
<1>7. ASSUME NEW c \in Commands, PublishFails(c) PROVE TypeOK'
  <2>1. Cmd'
    BY <1>7, EndTypes DEF PublishFails
  <2>2. Rest'
    BY <1>7 DEF PublishFails, CheckoutTypes, RevisionTypes, InMemory, CommandTypes
  <2> QED
    BY <2>1, <2>2
<1>8. ASSUME NEW c \in Commands, NEW force \in BOOLEAN, BeginPull(c, force) PROVE TypeOK'
  <2>1. Cmd'
    BY <1>8 DEF BeginPull, CommandTypes, InMemory
  <2>2. Rest'
    BY <1>8 DEF BeginPull, CheckoutTypes, RevisionTypes, InMemory, CommandTypes
  <2> QED
    BY <2>1, <2>2
<1>9. ASSUME NEW c \in Commands, Fetch(c) PROVE TypeOK'
  <2>1. Cmd'
    BY <1>9 DEF Fetch, CommandTypes, InMemory, RevisionTypes
  <2>2. Rest'
    BY <1>9 DEF Fetch, CheckoutTypes, RevisionTypes, InMemory, CommandTypes
  <2> QED
    BY <2>1, <2>2
<1>10. ASSUME NEW c \in Commands, FetchFails(c) PROVE TypeOK'
  <2>1. Cmd'
    BY <1>10, EndTypes DEF FetchFails
  <2>2. Rest'
    BY <1>10 DEF FetchFails, CheckoutTypes, RevisionTypes, InMemory, CommandTypes
  <2> QED
    BY <2>1, <2>2
<1>11. ASSUME NEW c \in Commands, Import(c) PROVE TypeOK'
  <2>1. Cmd'
    BY <1>11 DEF Import, CommandTypes, InMemory
  <2>2. Rest'
    BY <1>11 DEF Import, CheckoutTypes, RevisionTypes, InMemory, CommandTypes
  <2> QED
    BY <2>1, <2>2
<1>12. ASSUME NEW c \in Commands, DecryptLatest(c) PROVE TypeOK'
  <2>1. Cmd'
    <3>1. CASE latest[DeviceOf[c]] \in Revisions /\ CanRead(DeviceOf[c], latest[DeviceOf[c]])
      BY <1>12, <3>1 DEF DecryptLatest, CommandTypes, InMemory, CheckoutTypes
    <3>2. CASE End(c)
      BY <1>12, <3>2, EndTypes DEF DecryptLatest
    <3> QED
      BY <1>12, <3>1, <3>2 DEF DecryptLatest
  <2>2. Rest'
    BY <1>12 DEF DecryptLatest, CheckoutTypes, RevisionTypes, InMemory, CommandTypes
  <2> QED
    BY <2>1, <2>2
<1>13. ASSUME NEW c \in Commands, CheckLocalPath(c) PROVE TypeOK'
  <2>1. Cmd'
    BY <1>13, EndTypes DEF CheckLocalPath, CommandTypes, InMemory
  <2>2. Rest'
    BY <1>13 DEF CheckLocalPath, CheckoutTypes, RevisionTypes, InMemory, CommandTypes
  <2> QED
    BY <2>1, <2>2
<1>14. ASSUME NEW c \in Commands, WriteFile(c) PROVE TypeOK'
  <2>1. Cmd'
    BY <1>14 DEF WriteFile, CommandTypes, InMemory
  <2>2. Rest'
    BY <1>14 DEF WriteFile, CheckoutTypes, RevisionTypes, InMemory, CommandTypes
  <2> QED
    BY <2>1, <2>2
<1>15. ASSUME NEW c \in Commands, MarkPulled(c) PROVE TypeOK'
  <2>1. Cmd'
    BY <1>15, EndTypes DEF MarkPulled
  <2>2. Rest'
    BY <1>15 DEF MarkPulled, CheckoutTypes, RevisionTypes, InMemory, CommandTypes
  <2> QED
    BY <2>1, <2>2
<1>16. ASSUME NEW c \in Commands, Crash(c) PROVE TypeOK'
  <2>1. Cmd'
    BY <1>16, EndTypes DEF Crash
  <2>2. Rest'
    <3>1. latest' \in [Devices -> Pointers] /\ mat' \in [Devices -> Pointers]
      BY <1>16 DEF Crash, CheckoutTypes
    <3>2. file' \in [Devices -> Texts \cup {Absent, Torn}]
      BY <1>16 DEF Crash, CheckoutTypes
    <3>3. seen' \in [Devices -> SUBSET Revisions]
      BY <1>16 DEF Crash, CheckoutTypes, InMemory
    <3>4. synced' \in [Devices -> Revisions \cup {NoRevision, Unbuilt}]
      BY <1>16 DEF Crash, CheckoutTypes
    <3>5. crashes' \in 0..MaxCrashes
      BY <1>16 DEF Crash, CheckoutTypes
    <3> QED
      BY <1>16, <3>1, <3>2, <3>3, <3>4, <3>5 DEF Crash, CheckoutTypes, RevisionTypes
  <2> QED
    BY <2>1, <2>2
<1>17. ASSUME NEW d \in Devices, NEW new \in Texts \cup {Absent}, Edit(d, new)
       PROVE  TypeOK'
  BY <1>17 DEF Edit, command, Built, CommandTypes, InMemory, CheckoutTypes, RevisionTypes
<1>18. CASE UNCHANGED vars
  BY <1>18 DEF vars, command, CommandTypes, InMemory, CheckoutTypes, RevisionTypes
<1> QED
  BY <1>1, <1>2, <1>3, <1>4, <1>5, <1>6, <1>7, <1>8, <1>9, <1>10, <1>11, <1>12,
     <1>13, <1>14, <1>15, <1>16, <1>17, <1>18 DEF Next, Push, Pull

(* All variables keep their types, with any overlap of commands. *)
THEOREM PushPullTypeCorrect == Spec => []TypeOK
  BY PushPullTypeInit, PushPullTypeStep, PTL DEF Spec

-------------------------------------------------------------------------------
(***************************************************************************)
(* The invariant, one part at a time.                                      *)
(***************************************************************************)
LEMMA PushPullInvInit == Init => PushPullInv
<1> SUFFICES ASSUME Init PROVE PushPullInv
  OBVIOUS
<1>1. TypeOK
  BY PushPullTypeInit
<1>2. Relay!Accepted = {}
  BY DEF Init, Relay!Init, Relay!Accepted
<1>3. PointersKnown /\ CleanBase /\ NoLostUpdate
  BY <1>2 DEF Init, Relay!Init, PointersKnown, CleanBase, NoLostUpdate, Known, Built
<1>4. \A c \in Commands : PushView(c) /\ PullView(c)
  BY DEF Init, PushView, PullView
<1> QED
  BY <1>1, <1>3, <1>4 DEF PushPullInv

(* A device's pointers go on naming its own or accepted revisions. *)
LEMMA KnownStep ==
  ASSUME PushPullInv, [Next]_vars
  PROVE  PointersKnown'
<1> USE DEF PushPullInv, PointersKnown, Known, Built, Relay!Accepted
<1>0. ASSUME UNCHANGED <<latest, mat, content, author, head, log>> PROVE PointersKnown'
  BY <1>0
<1>1. ASSUME NEW c \in Commands, NEW r \in Revisions, WriteLocalRevision(c, r)
      PROVE  PointersKnown'
  <2> DEFINE d == DeviceOf[c]
  <2>1. /\ text[c] # Unbuilt
        /\ content' = [content EXCEPT ![r] = text[c]]
        /\ author' = [author EXCEPT ![r] = d]
        /\ latest' = [latest EXCEPT ![d] = r]
        /\ UNCHANGED <<mat, head, log>>
    BY <1>1 DEF WriteLocalRevision, TypeOK, CommandTypes, InMemory
  <2>2. Built \subseteq Built' /\ r \in Built' /\ d \in Devices
    BY <2>1 DEF TypeOK, RevisionTypes
  <2>3. \A s \in Built : author'[s] = author[s]
    BY <1>1, <2>1 DEF WriteLocalRevision, TypeOK, RevisionTypes
  <2>4. \A e \in Devices : {latest'[e], mat'[e]} \subseteq Known(e)' \cup {NoRevision, Torn}
    <3> SUFFICES ASSUME NEW e \in Devices
                 PROVE  {latest'[e], mat'[e]} \subseteq Known(e)' \cup {NoRevision, Torn}
      OBVIOUS
    <3>1. Known(e) \subseteq Known(e)'
      BY <2>1, <2>2, <2>3
    <3>2. r \in Known(d)'
      BY <2>1, <2>2 DEF TypeOK, RevisionTypes
    <3> QED
      BY <2>1, <3>1, <3>2 DEF TypeOK, CheckoutTypes
  <2> QED
    BY <2>1, <2>2, <2>4 DEF TypeOK, RevisionTypes
<1>2. ASSUME NEW c \in Commands, MarkPushed(c) PROVE PointersKnown'
  BY <1>2 DEF MarkPushed, TypeOK, CheckoutTypes, PushView
<1>3. ASSUME NEW c \in Commands, PublishAccepted(c) PROVE PointersKnown'
  <2>1. rev[c] \in Built /\ log' = [log EXCEPT ![rev[c]] = head] /\ head' = rev[c]
    BY <1>3 DEF PublishAccepted, Relay!Accept, PushView
  <2>2. Relay!Accepted' = Relay!Accepted \cup {rev[c]}
    BY <2>1 DEF TypeOK, RevisionTypes, Relay!TypeOK
  <2> QED
    BY <1>3, <2>1, <2>2 DEF PublishAccepted
<1>4. ASSUME NEW c \in Commands, Import(c) PROVE PointersKnown'
  BY <1>4 DEF Import, TypeOK, CheckoutTypes, PullView
<1>5. ASSUME NEW c \in Commands, MarkPulled(c) PROVE PointersKnown'
  BY <1>5 DEF MarkPulled, TypeOK, CheckoutTypes, PullView
<1>6. ASSUME NEW c \in Commands, Crash(c) PROVE PointersKnown'
  BY <1>6 DEF Crash, TypeOK, CheckoutTypes
<1>7. ASSUME NEW c \in Commands,
             \/ BeginPush(c) \/ CheckBase(c) \/ PublishConflict(c) \/ PublishFails(c)
             \/ \E force \in BOOLEAN : BeginPull(c, force)
             \/ Fetch(c) \/ FetchFails(c) \/ DecryptLatest(c) \/ CheckLocalPath(c)
             \/ WriteFile(c)
      PROVE  PointersKnown'
  BY <1>0, <1>7 DEF BeginPush, CheckBase, PublishConflict, PublishFails, BeginPull,
     Fetch, FetchFails, DecryptLatest, CheckLocalPath, WriteFile
<1>8. ASSUME NEW d \in Devices, NEW new \in Texts \cup {Absent}, Edit(d, new)
      PROVE  PointersKnown'
  BY <1>0, <1>8 DEF Edit
<1>9. CASE UNCHANGED vars
  BY <1>0, <1>9 DEF vars
<1> QED
  BY <1>1, <1>2, <1>3, <1>4, <1>5, <1>6, <1>7, <1>8, <1>9 DEF Next, Push, Pull

(***************************************************************************)
(* What a command's step leaves alone: the other commands, their devices   *)
(* (a checkout runs one command), revisions that exist, and the relay,     *)
(* unless the step is the one by which it accepts the command's revision.  *)
(***************************************************************************)
Accepts(c) ==
  /\ rev[c] \in Built \ Relay!Accepted
  /\ author[rev[c]] = DeviceOf[c]
  /\ head = base[c] /\ head' = rev[c]
  /\ log' = [log EXCEPT ![rev[c]] = head]
  /\ Relay!Accepted' = Relay!Accepted \cup {rev[c]}

Frame(c) ==
  /\ \A e \in Commands \ {c} :
       /\ pc'[e] = pc[e] /\ took'[e] = took[e] /\ base'[e] = base[e] /\ rev'[e] = rev[e]
  /\ \A d \in Devices \ {DeviceOf[c]} :
       latest'[d] = latest[d] /\ mat'[d] = mat[d] /\ seen'[d] = seen[d]
  /\ \A r \in Built :
       r \in Built' /\ author'[r] = author[r] /\ merged'[r] = merged[r]
  /\ UNCHANGED <<head, log>> \/ Accepts(c)

LEMMA CommandFrame ==
  ASSUME PushPullInv, NEW c \in Commands, Push(c) \/ Pull(c) \/ Crash(c)
  PROVE  Frame(c)
<1> USE DEF PushPullInv, TypeOK, CommandTypes, CheckoutTypes, Frame
<1>1. ASSUME BeginPush(c) PROVE Frame(c)
  BY <1>1 DEF BeginPush, Built
<1>2. CASE CheckBase(c)
  BY <1>2 DEF CheckBase, End, Built
<1>3. ASSUME NEW r \in Revisions, WriteLocalRevision(c, r) PROVE Frame(c)
  BY <1>3 DEF WriteLocalRevision, RevisionTypes, InMemory, Built
<1>4. CASE MarkPushed(c)
  BY <1>4 DEF MarkPushed, Built
<1>5. CASE PublishAccepted(c)
  <2>1. Accepts(c)
    BY <1>5 DEF PublishAccepted, Accepts, Relay!Accept, Relay!Accepted, PushView,
       Built, RevisionTypes, Relay!TypeOK
  <2> QED
    BY <1>5, <2>1 DEF PublishAccepted, End, Built
<1>6. CASE PublishConflict(c) \/ PublishFails(c)
  BY <1>6 DEF PublishConflict, PublishFails, End, Built
<1>7. ASSUME NEW force \in BOOLEAN, BeginPull(c, force) PROVE Frame(c)
  BY <1>7 DEF BeginPull, Built
<1>8. CASE Fetch(c) \/ FetchFails(c) \/ DecryptLatest(c) \/ CheckLocalPath(c)
  BY <1>8 DEF Fetch, FetchFails, DecryptLatest, CheckLocalPath, End, Built
<1>9. CASE Import(c) \/ WriteFile(c)
  BY <1>9 DEF Import, WriteFile, Built
<1>10. CASE MarkPulled(c)
  BY <1>10 DEF MarkPulled, End, Built
<1>11. CASE Crash(c)
  BY <1>11 DEF Crash, End, Built
<1> QED
  BY <1>1, <1>2, <1>3, <1>4, <1>5, <1>6, <1>7, <1>8, <1>9, <1>10, <1>11 DEF Push, Pull

(* The other commands go on knowing what they knew. *)
LEMMA OthersKeepView ==
  ASSUME OneAtATime, PushPullInv, NEW c \in Commands, Frame(c),
         NEW e \in Commands \ {c}
  PROVE  (PushView(e) /\ PullView(e))'
<1> DEFINE d == DeviceOf[e]
<1>1. d \in Devices \ {DeviceOf[c]}
  BY DEF OneAtATime
<1>2. /\ pc'[e] = pc[e] /\ took'[e] = took[e] /\ base'[e] = base[e] /\ rev'[e] = rev[e]
      /\ latest'[d] = latest[d] /\ mat'[d] = mat[d] /\ seen'[d] = seen[d]
  BY <1>1 DEF Frame
<1>3. PushView(e) /\ PullView(e)
  BY DEF PushPullInv
<1>4. Relay!Accepted \subseteq Relay!Accepted'
  BY DEF Frame, Accepts, Relay!Accepted
<1>5. rev[e] \in Built /\ author[rev[e]] = d /\ rev[e] \notin Relay!Accepted
      => rev[e] \notin Relay!Accepted'
  BY <1>1 DEF Frame, Accepts, Relay!Accepted
<1>6. mat[d] \in Revisions /\ mat[d] # head => mat[d] # head'
  BY <1>1 DEF Frame, Accepts, PushPullInv, PointersKnown, Known
<1>7. PushView(e)'
  BY <1>2, <1>3, <1>5 DEF PushView, Frame
<1>8. PullView(e)'
  BY <1>2, <1>3, <1>4, <1>6 DEF PullView
<1> QED
  BY <1>7, <1>8

(* A command that steps knows what it needs to know next. *)
LEMMA OwnView ==
  ASSUME PushPullInv, NEW c \in Commands, Push(c) \/ Pull(c) \/ Crash(c)
  PROVE  (PushView(c) /\ PullView(c))'
<1> DEFINE d == DeviceOf[c]
<1> USE DEF PushPullInv, TypeOK, CommandTypes, PushView, PullView
<1>0. ASSUME End(c) PROVE (PushView(c) /\ PullView(c))'
  BY <1>0 DEF End
<1>1. ASSUME BeginPush(c) PROVE (PushView(c) /\ PullView(c))'
  BY <1>1 DEF BeginPush
<1>2. CASE CheckBase(c)
  <2>1. CASE BaseIsLatest(d) /\ base' = [base EXCEPT ![c] = latest[d]] /\ Goto(c, "write")
    <3>1. latest[d] \in seen[d] \cup {NoRevision}
      BY <2>1 DEF BaseIsLatest, CleanBase
    <3> QED
      BY <1>2, <2>1, <3>1 DEF CheckBase
  <2> QED
    BY <1>0, <1>2, <2>1 DEF CheckBase
<1>3. ASSUME NEW r \in Revisions, WriteLocalRevision(c, r)
      PROVE  (PushView(c) /\ PullView(c))'
  <2>1. r \notin Relay!Accepted
    BY <1>3 DEF WriteLocalRevision, PointersKnown, Built
  <2>2. text[c] # Unbuilt
    BY <1>3 DEF WriteLocalRevision, InMemory
  <2> QED
    BY <1>3, <2>1, <2>2 DEF WriteLocalRevision, Built, Relay!Accepted,
       CheckoutTypes, RevisionTypes
<1>4. CASE MarkPushed(c)
  BY <1>4 DEF MarkPushed, Built, Relay!Accepted, CheckoutTypes
<1>5. CASE PublishAccepted(c) \/ PublishConflict(c) \/ PublishFails(c)
  BY <1>0, <1>5 DEF PublishAccepted, PublishConflict, PublishFails
<1>6. ASSUME NEW force \in BOOLEAN, BeginPull(c, force)
      PROVE  (PushView(c) /\ PullView(c))'
  BY <1>6 DEF BeginPull
<1>7. CASE Fetch(c)
  BY <1>7 DEF Fetch, PointersKnown, Relay!Accepted
<1>8. CASE FetchFails(c)
  BY <1>0, <1>8 DEF FetchFails
<1>9. CASE Import(c)
  BY <1>9 DEF Import, CheckoutTypes
<1>10. CASE DecryptLatest(c)
  BY <1>0, <1>10 DEF DecryptLatest
<1>11. CASE CheckLocalPath(c)
  BY <1>0, <1>11 DEF CheckLocalPath
<1>12. CASE WriteFile(c)
  BY <1>12 DEF WriteFile, CheckoutTypes
<1>13. CASE MarkPulled(c) \/ Crash(c)
  BY <1>0, <1>13 DEF MarkPulled, Crash
<1> QED
  BY <1>1, <1>2, <1>3, <1>4, <1>5, <1>6, <1>7, <1>8, <1>9, <1>10, <1>11, <1>12,
     <1>13 DEF Push, Pull

(***************************************************************************)
(* A materialized revision outside the dotenv file stays behind the latest *)
(* and behind the head.  On the device of the step the two pointers and    *)
(* the file move together; on another device only the head can move, to a  *)
(* revision that is new to it.                                             *)
(***************************************************************************)
LEMMA CleanStep ==
  ASSUME OneAtATime, PushPullInv, NEW c \in Commands, Push(c) \/ Pull(c) \/ Crash(c)
  PROVE  CleanBase'
<1> DEFINE d == DeviceOf[c]
           Clean(x) == mat[x] \in Revisions \ seen[x] =>
             /\ mat[x] \notin {latest[x], head}
             /\ \A e \in Commands : DeviceOf[e] = x /\ pc[e] = "import" => base[e] # mat[x]
           OwnClean == mat[d] \in Revisions \ seen[d] =>
             /\ mat[d] \notin {latest[d], head}
             /\ pc[c] = "import" => base[c] # mat[d]
<1> USE DEF PushPullInv, TypeOK, CommandTypes, CheckoutTypes
<1>1. Frame(c)
  BY CommandFrame
<1>2. ASSUME NEW x \in Devices \ {d} PROVE Clean(x)'
  <2>1. Clean(x)
    BY DEF CleanBase
  <2>2. mat[x] \in Revisions /\ mat[x] # head => mat[x] # head'
    BY <1>1 DEF Frame, Accepts, PointersKnown, Known
  <2>3. \A e \in Commands : DeviceOf[e] = x => pc'[e] = pc[e] /\ base'[e] = base[e]
    BY <1>1 DEF Frame
  <2>4. latest'[x] = latest[x] /\ mat'[x] = mat[x] /\ seen'[x] = seen[x]
    BY <1>1 DEF Frame
  <2> QED
    BY <2>1, <2>2, <2>3, <2>4
<1>3. OwnClean
  BY DEF CleanBase
<1>4. OwnClean'
  <2> USE <1>3
  <2>1. ASSUME UNCHANGED <<latest, mat, seen, head>>, pc'[c] # "import" PROVE OwnClean'
    BY <2>1
  <2>2. CASE BeginPush(c) \/ CheckBase(c) \/ PublishConflict(c) \/ PublishFails(c)
             \/ (\E force \in BOOLEAN : BeginPull(c, force)) \/ FetchFails(c)
             \/ DecryptLatest(c) \/ CheckLocalPath(c)
    BY <2>1, <2>2 DEF BeginPush, CheckBase, PublishConflict, PublishFails, BeginPull,
       FetchFails, DecryptLatest, CheckLocalPath, End
  <2>3. ASSUME NEW r \in Revisions, WriteLocalRevision(c, r) PROVE OwnClean'
    <3>1. mat[d] # r
      BY <2>3, PushPullAssumption DEF WriteLocalRevision, Pointers, Built
    <3> QED
      BY <2>3, <3>1 DEF WriteLocalRevision
  <2>4. CASE MarkPushed(c)
    BY <2>4 DEF MarkPushed, PushView
  <2>5. CASE PublishAccepted(c)
    BY <2>5 DEF PublishAccepted, PushView
  <2>6. CASE Fetch(c)
    BY <2>6 DEF Fetch
  <2>7. CASE Import(c)
    BY <2>7 DEF Import
  <2>8. CASE WriteFile(c)
    BY <2>8 DEF WriteFile, PullView, InMemory, Built
  <2>9. CASE MarkPulled(c)
    BY <2>9 DEF MarkPulled, PullView
  <2>10. CASE Crash(c)
    BY <2>10 DEF Crash, End, PullView, InMemory, Built
  <2> QED
    BY <2>2, <2>3, <2>4, <2>5, <2>6, <2>7, <2>8, <2>9, <2>10 DEF Push, Pull
<1>5. Clean(d)'
  BY <1>4 DEF OneAtATime
<1> QED
  BY <1>2, <1>5 DEF CleanBase

(* The relay's own step is the only one that can lose an update. *)
LEMMA UpdateStep ==
  ASSUME PushPullInv, NEW c \in Commands, Push(c) \/ Pull(c) \/ Crash(c)
  PROVE  NoLostUpdate'
<1>1. Frame(c)
  BY CommandFrame
<1>2. Relay!Accepted \subseteq Built
  BY DEF PushPullInv, PointersKnown
<1>3. CASE UNCHANGED <<head, log>>
  BY <1>1, <1>2, <1>3 DEF Frame, PushPullInv, NoLostUpdate, Relay!Accepted
<1>4. CASE Accepts(c) /\ ~UNCHANGED <<head, log>>
  <2>1. PublishAccepted(c)
    BY <1>4 DEF Push, Pull, Crash, BeginPush, CheckBase, WriteLocalRevision, MarkPushed,
       PublishConflict, PublishFails, BeginPull, Fetch, FetchFails, Import,
       DecryptLatest, CheckLocalPath, WriteFile, MarkPulled
  <2>2. base[c] \in merged[rev[c]] \cup {NoRevision}
    BY <2>1 DEF PublishAccepted, PushPullInv, PushView
  <2>3. log'[rev[c]] = base[c] /\ \A r \in Relay!Accepted : log'[r] = log[r]
    BY <1>4 DEF Accepts, PushPullInv, TypeOK, RevisionTypes, Relay!TypeOK, Built
  <2> QED
    BY <1>1, <1>2, <1>4, <2>2, <2>3 DEF Frame, Accepts, PushPullInv, NoLostUpdate
<1> QED
  BY <1>1, <1>3, <1>4 DEF Frame

LEMMA PushPullInvStep ==
  ASSUME OneAtATime, PushPullInv, [Next]_vars
  PROVE  PushPullInv'
<1>1. TypeOK' /\ PointersKnown'
  BY PushPullTypeStep, KnownStep DEF PushPullInv
<1>2. ASSUME NEW c \in Commands, Push(c) \/ Pull(c) \/ Crash(c) PROVE PushPullInv'
  <2>1. \A e \in Commands : (PushView(e) /\ PullView(e))'
    BY <1>2, CommandFrame, OwnView, OthersKeepView
  <2>2. CleanBase' /\ NoLostUpdate'
    BY <1>2, CleanStep, UpdateStep
  <2> QED
    BY <1>1, <2>1, <2>2 DEF PushPullInv
<1>3. ASSUME UNCHANGED <<command, latest, mat, seen, built, relay>> PROVE PushPullInv'
  <2>1. (\A c \in Commands : PushView(c) /\ PullView(c))'
    BY <1>3 DEF PushPullInv, PushView, PullView, command, Built, Relay!Accepted
  <2>2. CleanBase' /\ NoLostUpdate'
    BY <1>3 DEF PushPullInv, CleanBase, NoLostUpdate, command, Relay!Accepted
  <2> QED
    BY <1>1, <2>1, <2>2 DEF PushPullInv
<1>4. ASSUME NEW d \in Devices, NEW new \in Texts \cup {Absent}, Edit(d, new)
      PROVE  PushPullInv'
  BY <1>3, <1>4 DEF Edit
<1>5. CASE UNCHANGED vars
  BY <1>3, <1>5 DEF vars
<1> QED
  BY <1>2, <1>4, <1>5 DEF Next

(***************************************************************************)
(* The whole invariant, and with it the theorem a user relies on: whoever  *)
(* pushes, whatever crashes, fails or goes unanswered, an accepted         *)
(* revision contains the work of the one it replaces.                      *)
(***************************************************************************)
THEOREM PushPullInvariant ==
  ASSUME OneAtATime
  PROVE  Spec => []PushPullInv
<1>1. PushPullInv /\ [Next]_vars => PushPullInv'
  BY PushPullInvStep
<1> QED
  BY <1>1, PushPullInvInit, PTL DEF Spec

(* "Bob's push must not silently overwrite Alice's change." *)
THEOREM UpdatesAreNeverLost ==
  ASSUME OneAtATime
  PROVE  Spec => []NoLostUpdate
<1>1. PushPullInv => NoLostUpdate
  BY DEF PushPullInv
<1> QED
  BY <1>1, PushPullInvariant, PTL

-------------------------------------------------------------------------------
(***************************************************************************)
(* Pulling cures a conflict.  As long as the head is the one that the last *)
(* command of a device caught up with, the device's latest pointer names   *)
(* it, or its own push has just moved the pointer on; and every command    *)
(* in between has that head as its base, because a head never returns.     *)
(***************************************************************************)
CaughtUp(d) == synced[d] = head /\ head # NoRevision

SyncView(c) ==
  LET d == DeviceOf[c] IN
  /\ pc[c] \in {"import", "decrypt", "guard", "file", "record"} =>
       base[c] \in Relay!Accepted \cup {NoRevision}
  /\ pc[c] = "record" => base[c] \in {latest[d], NoRevision}
  /\ pc[c] \in {"mark", "publish"} => latest[d] = rev[c]
  /\ CaughtUp(d) /\ pc[c] \notin {"idle", "check", "fetch"} => base[c] = head
  /\ CaughtUp(d) /\ pc[c] \notin {"mark", "publish"} => latest[d] = head

SyncInv ==
  /\ \A d \in Devices : synced[d] \in Relay!Accepted \cup {NoRevision, Unbuilt}
  /\ \A c \in Commands : SyncView(c)

(* Only the device of the step changes what it is caught up with. *)
LEMMA SyncFrame ==
  ASSUME PushPullInv, NEW c \in Commands, Push(c) \/ Pull(c) \/ Crash(c)
  PROVE  \A d \in Devices \ {DeviceOf[c]} : synced'[d] = synced[d]
  BY DEF PushPullInv, TypeOK, CheckoutTypes, Push, Pull, Crash, BeginPush, CheckBase,
     WriteLocalRevision, MarkPushed, PublishAccepted, PublishConflict, PublishFails,
     BeginPull, Fetch, FetchFails, Import, DecryptLatest, CheckLocalPath, WriteFile,
     MarkPulled

(* An accepted revision that becomes the head was not in the log before. *)
LEMMA OthersStaySynced ==
  ASSUME OneAtATime, PushPullInv, SyncInv, NEW c \in Commands,
         Push(c) \/ Pull(c) \/ Crash(c), NEW e \in Commands \ {c}
  PROVE  SyncView(e)'
<1> DEFINE d == DeviceOf[e]
<1>1. d \in Devices \ {DeviceOf[c]}
  BY DEF OneAtATime
<1>2. Frame(c)
  BY CommandFrame
<1>3. /\ pc'[e] = pc[e] /\ base'[e] = base[e] /\ rev'[e] = rev[e]
      /\ latest'[d] = latest[d] /\ synced'[d] = synced[d]
  BY <1>1, <1>2, SyncFrame DEF Frame
<1>4. Relay!Accepted \subseteq Relay!Accepted'
  BY <1>2 DEF Frame, Accepts, Relay!Accepted
<1>5. CaughtUp(d)' => head' = head /\ CaughtUp(d)
  <2>1. synced[d] \in Relay!Accepted \cup {NoRevision, Unbuilt}
    BY <1>1 DEF SyncInv
  <2>2. CASE UNCHANGED <<head, log>>
    BY <1>3, <2>2 DEF CaughtUp
  <2>3. CASE Accepts(c)
    BY <1>3, <2>1, <2>3 DEF CaughtUp, Accepts, Built
  <2> QED
    BY <1>2, <2>2, <2>3 DEF Frame
<1>6. SyncView(e)
  BY DEF SyncInv
<1> QED
  BY <1>3, <1>4, <1>5, <1>6 DEF SyncView

(* The device of the step. *)
LEMMA OwnSync ==
  ASSUME PushPullInv, SyncInv, NEW c \in Commands, Push(c) \/ Pull(c) \/ Crash(c)
  PROVE  /\ SyncView(c)'
         /\ synced'[DeviceOf[c]] \in (Relay!Accepted \cup {NoRevision, Unbuilt})'
<1> DEFINE d == DeviceOf[c]
           Own == /\ SyncView(c)
                  /\ synced[d] \in Relay!Accepted \cup {NoRevision, Unbuilt}
<1> USE DEF PushPullInv, TypeOK, CommandTypes, CheckoutTypes, SyncView, CaughtUp
<1>0. Own /\ PushView(c) /\ PullView(c) /\ head \in Relay!Accepted \cup {NoRevision}
  BY DEF SyncInv, PointersKnown
<1>1. ASSUME End(c), pc[c] \notin {"mark", "publish"},
             UNCHANGED <<latest, synced, head, log>>
      PROVE  Own'
  BY <1>0, <1>1 DEF End, Relay!Accepted
<1>2. ASSUME End(c), synced' = [synced EXCEPT ![d] = Unbuilt] PROVE Own'
  <2>1. head' # Unbuilt
    BY PushPullTypeStep DEF Next, RevisionTypes, Built
  <2> QED
    BY <1>2, <2>1 DEF End
<1>3. ASSUME BeginPush(c) \/ (\E force \in BOOLEAN : BeginPull(c, force)) PROVE Own'
  BY <1>0, <1>3 DEF BeginPush, BeginPull, Relay!Accepted
<1>4. CASE CheckBase(c)
  BY <1>0, <1>1, <1>4 DEF CheckBase, Relay!Accepted
<1>5. ASSUME NEW r \in Revisions, WriteLocalRevision(c, r) PROVE Own'
  BY <1>0, <1>5 DEF WriteLocalRevision, Relay!Accepted
<1>6. CASE MarkPushed(c)
  BY <1>0, <1>6 DEF MarkPushed, Relay!Accepted
<1>7. CASE PublishAccepted(c)
  <2>1. rev[c] \in Relay!Accepted' /\ head' = rev[c] /\ latest'[d] = rev[c]
    <3>1. Frame(c) /\ head' = rev[c] /\ log' = [log EXCEPT ![rev[c]] = head]
      BY <1>7, CommandFrame DEF PublishAccepted, Relay!Accept
    <3>2. rev[c] \in Built /\ head # Unbuilt
      BY <1>7 DEF PublishAccepted, InMemory, RevisionTypes, Built
    <3> QED
      BY <1>0, <1>7, <3>1, <3>2 DEF PublishAccepted, Relay!Accepted, Built,
         RevisionTypes, Relay!TypeOK
  <2>2. CASE End(c) /\ synced' = [synced EXCEPT ![d] = rev[c]]
    BY <2>1, <2>2 DEF End
  <2> QED
    BY <1>2, <1>7, <2>2 DEF PublishAccepted
<1>8. CASE PublishConflict(c) \/ PublishFails(c)
  BY <1>2, <1>8 DEF PublishConflict, PublishFails
<1>9. CASE Fetch(c)
  BY <1>0, <1>9 DEF Fetch, Relay!Accepted
<1>10. CASE FetchFails(c)
  BY <1>1, <1>10 DEF FetchFails
<1>11. CASE Import(c)
  BY <1>0, <1>11 DEF Import, Relay!Accepted
<1>12. CASE DecryptLatest(c)
  BY <1>0, <1>1, <1>12 DEF DecryptLatest, Relay!Accepted
<1>13. CASE CheckLocalPath(c)
  BY <1>0, <1>1, <1>13 DEF CheckLocalPath, Relay!Accepted
<1>14. CASE WriteFile(c)
  BY <1>0, <1>14 DEF WriteFile, PullView, Relay!Accepted
<1>15. CASE MarkPulled(c)
  BY <1>0, <1>15 DEF MarkPulled, End, Relay!Accepted
<1>16. CASE Crash(c)
  BY <1>2, <1>16 DEF Crash
<1> QED
  BY <1>3, <1>4, <1>5, <1>6, <1>7, <1>8, <1>9, <1>10, <1>11, <1>12, <1>13, <1>14,
     <1>15, <1>16 DEF Push, Pull

LEMMA SyncStep ==
  ASSUME OneAtATime, PushPullInv, SyncInv, [Next]_vars
  PROVE  SyncInv'
<1>1. ASSUME NEW c \in Commands, Push(c) \/ Pull(c) \/ Crash(c) PROVE SyncInv'
  <2>1. \A e \in Commands : SyncView(e)'
    BY <1>1, OwnSync, OthersStaySynced
  <2>2. ASSUME NEW d \in Devices
        PROVE  synced'[d] \in (Relay!Accepted \cup {NoRevision, Unbuilt})'
    <3>1. CASE d = DeviceOf[c]
      BY <1>1, <3>1, OwnSync
    <3>2. CASE d # DeviceOf[c]
      <4>1. synced'[d] = synced[d]
        BY <1>1, <3>2, SyncFrame
      <4>2. Relay!Accepted \subseteq Relay!Accepted'
        BY <1>1, CommandFrame DEF Frame, Accepts, Relay!Accepted
      <4> QED
        BY <4>1, <4>2 DEF SyncInv
    <3> QED
      BY <3>1, <3>2
  <2> QED
    BY <2>1, <2>2 DEF SyncInv
<1>2. ASSUME UNCHANGED <<command, latest, synced, relay>> PROVE SyncInv'
  BY <1>2 DEF SyncInv, SyncView, CaughtUp, command, Relay!Accepted
<1>3. ASSUME NEW d \in Devices, NEW new \in Texts \cup {Absent}, Edit(d, new)
      PROVE  SyncInv'
  BY <1>2, <1>3 DEF Edit
<1>4. CASE UNCHANGED vars
  BY <1>2, <1>4 DEF vars
<1> QED
  BY <1>1, <1>3, <1>4 DEF Next

(***************************************************************************)
(* "Pull first, ... then push again": once the environment has a revision, *)
(* a push after a completed pull or push meets a conflict only if another  *)
(* revision was accepted in between.                                       *)
(***************************************************************************)
THEOREM PullCuresConflict ==
  ASSUME OneAtATime
  PROVE  Spec => LaterPushAfterPull
<1> DEFINE Cured == \A c \in Commands :
             PublishConflict(c) /\ head # NoRevision => synced[DeviceOf[c]] # head
<1>1. Init => SyncInv
  BY DEF Init, SyncInv, SyncView, CaughtUp, Relay!Init
<1>2. PushPullInv /\ SyncInv /\ [Next]_vars => SyncInv'
  BY SyncStep
<1>3. SyncInv /\ [Next]_vars => [Cured]_vars
  BY DEF SyncInv, SyncView, CaughtUp, PublishConflict
<1> QED
  BY <1>1, <1>2, <1>3, PushPullInvariant, PTL DEF Spec, LaterPushAfterPull
-------------------------------------------------------------------------------
(***************************************************************************)
(* Pulling keeps work.  Whatever a pointer names is stored on the device,  *)
(* so once the guard has let a pull past without --force, a stored         *)
(* revision holds what the dotenv file assigns.  It stays so until the     *)
(* file is replaced: revisions are never changed or removed, and nothing   *)
(* else of that checkout runs.                                             *)
(***************************************************************************)
Held(d) == \E r \in stored[d] : Normalize(content[r]) = Normalize(file[d])

StoredView(c) ==
  LET d == DeviceOf[c] IN
  /\ pc[c] \in {"mark", "publish", "guard", "file", "record"} => rev[c] \in stored[d]
  /\ pc[c] = "file" /\ ~forced[c] /\ file[d] # Absent => Held(d)

Stocked(d) ==
  /\ stored[d] \subseteq Built
  /\ {latest[d], mat[d]} \subseteq stored[d] \cup {NoRevision, Torn}

StoredInv ==
  /\ \A d \in Devices : Stocked(d)
  /\ \A c \in Commands : StoredView(c)

(* No step changes a revision that exists or removes one from a device,    *)
(* and a command leaves the other devices' files to their own commands.    *)
LEMMA StoredFrame ==
  ASSUME TypeOK, NEW c \in Commands, Push(c) \/ Pull(c) \/ Crash(c)
  PROVE  /\ \A e \in Commands \ {c} :
              pc'[e] = pc[e] /\ forced'[e] = forced[e] /\ rev'[e] = rev[e]
         /\ \A d \in Devices \ {DeviceOf[c]} :
              /\ latest'[d] = latest[d] /\ mat'[d] = mat[d]
              /\ file'[d] = file[d] /\ stored'[d] = stored[d]
         /\ \A r \in Built : r \in Built' /\ content'[r] = content[r]
<1> USE DEF TypeOK, CommandTypes, CheckoutTypes, Built
<1>1. ASSUME NEW r \in Revisions, WriteLocalRevision(c, r)
      PROVE  \A s \in Built : s \in Built' /\ content'[s] = content[s]
  BY <1>1 DEF WriteLocalRevision, RevisionTypes
<1>2. ASSUME UNCHANGED content
      PROVE  \A r \in Built : r \in Built' /\ content'[r] = content[r]
  BY <1>2
<1>3. \A r \in Built : r \in Built' /\ content'[r] = content[r]
  BY <1>1, <1>2 DEF Push, Pull, Crash, BeginPush, CheckBase, MarkPushed, PublishAccepted,
     PublishConflict, PublishFails, BeginPull, Fetch, FetchFails, Import,
     DecryptLatest, CheckLocalPath, WriteFile, MarkPulled
<1>4. \A e \in Commands \ {c} :
        pc'[e] = pc[e] /\ forced'[e] = forced[e] /\ rev'[e] = rev[e]
  BY DEF Push, Pull, Crash, End, BeginPush, CheckBase, WriteLocalRevision, MarkPushed,
     PublishAccepted, PublishConflict, PublishFails, BeginPull, Fetch, FetchFails,
     Import, DecryptLatest, CheckLocalPath, WriteFile, MarkPulled
<1>5. \A d \in Devices \ {DeviceOf[c]} :
        /\ latest'[d] = latest[d] /\ mat'[d] = mat[d]
        /\ file'[d] = file[d] /\ stored'[d] = stored[d]
  BY DEF Push, Pull, Crash, BeginPush, CheckBase, WriteLocalRevision, MarkPushed,
     PublishAccepted, PublishConflict, PublishFails, BeginPull, Fetch, FetchFails,
     Import, DecryptLatest, CheckLocalPath, WriteFile, MarkPulled
<1> QED
  BY <1>3, <1>4, <1>5

(* The device of the step, and the command that makes it. *)
LEMMA OwnStored ==
  ASSUME TypeOK, StoredInv, NEW c \in Commands, Push(c) \/ Pull(c) \/ Crash(c)
  PROVE  (Stocked(DeviceOf[c]) /\ StoredView(c))'
<1> DEFINE d == DeviceOf[c]
           Own == Stocked(d) /\ StoredView(c)
<1> USE DEF TypeOK, CommandTypes, CheckoutTypes, Stocked, StoredView
<1>0. Own /\ \A r \in Built : r \in Built' /\ content'[r] = content[r]
  BY StoredFrame DEF StoredInv
<1>1. ASSUME UNCHANGED <<latest, mat, stored>>,
             pc'[c] \in {"idle", "check", "write", "fetch", "import", "decrypt"}
      PROVE  Own'
  BY <1>0, <1>1
<1>2. CASE BeginPush(c) \/ CheckBase(c) \/ PublishAccepted(c) \/ PublishConflict(c)
           \/ PublishFails(c) \/ (\E force \in BOOLEAN : BeginPull(c, force))
           \/ Fetch(c) \/ FetchFails(c)
  BY <1>1, <1>2 DEF BeginPush, CheckBase, PublishAccepted, PublishConflict, PublishFails,
     BeginPull, Fetch, FetchFails, End
<1>3. ASSUME NEW r \in Revisions, WriteLocalRevision(c, r) PROVE Own'
  <2>1. r \in Built'
    BY <1>3 DEF WriteLocalRevision, InMemory, Built, RevisionTypes
  <2> QED
    BY <1>0, <1>3, <2>1 DEF WriteLocalRevision
<1>4. CASE MarkPushed(c)
  BY <1>0, <1>4 DEF MarkPushed
<1>5. CASE Import(c)
  BY <1>0, <1>5 DEF Import, InMemory
<1>6. CASE DecryptLatest(c)
  BY <1>0, <1>1, <1>6 DEF DecryptLatest, End
<1>7. CASE CheckLocalPath(c)
  <2>1. CASE CanWriteLocalPath(c) /\ Goto(c, "file")
    <3>1. ~forced[c] /\ file[d] # Absent => Held(d)
      BY <1>0, <1>7, <2>1 DEF CheckLocalPath, CanWriteLocalPath, MatchesMaterialized, Held
    <3>2. UNCHANGED <<forced, rev, latest, mat, stored, file, content>>
      BY <1>7, <2>1 DEF CheckLocalPath, End
    <3> QED
      BY <1>0, <1>7, <2>1, <3>1, <3>2 DEF CheckLocalPath, Held
  <2>2. CASE End(c)
    BY <1>1, <1>7, <2>2 DEF CheckLocalPath, End
  <2> QED
    BY <1>7, <2>1, <2>2 DEF CheckLocalPath
<1>8. CASE WriteFile(c)
  BY <1>0, <1>8 DEF WriteFile
<1>9. CASE MarkPulled(c)
  BY <1>0, <1>9 DEF MarkPulled, End
<1>10. CASE Crash(c)
  BY <1>0, <1>10 DEF Crash, End
<1> QED
  BY <1>2, <1>3, <1>4, <1>5, <1>6, <1>7, <1>8, <1>9, <1>10 DEF Push, Pull

LEMMA StoredStep ==
  ASSUME OneAtATime, TypeOK, StoredInv, [Next]_vars
  PROVE  StoredInv'
<1>1. ASSUME NEW c \in Commands, Push(c) \/ Pull(c) \/ Crash(c) PROVE StoredInv'
  <2>1. \A r \in Built : r \in Built' /\ content'[r] = content[r]
    BY <1>1, StoredFrame
  <2>2. ASSUME NEW d \in Devices \ {DeviceOf[c]} PROVE Stocked(d)'
    BY <1>1, <2>1, StoredFrame DEF StoredInv, Stocked
  <2>3. ASSUME NEW e \in Commands \ {c} PROVE StoredView(e)'
    <3> DEFINE d == DeviceOf[e]
    <3>1. d \in Devices \ {DeviceOf[c]}
      BY DEF OneAtATime
    <3>2. /\ pc'[e] = pc[e] /\ forced'[e] = forced[e] /\ rev'[e] = rev[e]
          /\ file'[d] = file[d] /\ stored'[d] = stored[d]
      BY <1>1, <3>1, StoredFrame
    <3>3. Held(d) => Held(d)'
      BY <2>1, <3>1, <3>2 DEF Held, StoredInv, Stocked
    <3> QED
      BY <3>2, <3>3 DEF StoredInv, StoredView
  <2> QED
    BY <1>1, <2>2, <2>3, OwnStored DEF StoredInv
<1>2. ASSUME NEW d \in Devices, NEW new \in Texts \cup {Absent}, Edit(d, new)
      PROVE  StoredInv'
  <2>1. ASSUME NEW e \in Commands PROVE StoredView(e)'
    <3>1. CASE DeviceOf[e] = d
      BY <1>2, <3>1 DEF Edit, command, StoredView
    <3>2. CASE DeviceOf[e] # d
      BY <1>2, <3>2 DEF Edit, command, StoredView, StoredInv, Held, TypeOK, CheckoutTypes
    <3> QED
      BY <3>1, <3>2
  <2> QED
    BY <1>2, <2>1 DEF Edit, StoredInv, Stocked, Built
<1>3. CASE UNCHANGED vars
  BY <1>3 DEF vars, command, StoredInv, StoredView, Stocked, Held, Built
<1> QED
  BY <1>1, <1>2, <1>3 DEF Next

(***************************************************************************)
(* Without --force, keyit never replaces a dotenv file whose assignments   *)
(* are in no revision stored on the device.                                *)
(***************************************************************************)
THEOREM PullingKeepsWork ==
  ASSUME OneAtATime
  PROVE  Spec => PullKeepsWork
<1> DEFINE Kept ==
             \A c \in Commands :
               LET d == DeviceOf[c] IN
               /\ pc[c] = "file" /\ ~forced[c]
               /\ file'[d] # file[d] /\ file[d] # Absent
               => \E r \in stored[d] : Normalize(content[r]) = Normalize(file[d])
<1>1. Init => StoredInv
  BY DEF Init, StoredInv, StoredView, Stocked
<1>2. TypeOK /\ StoredInv /\ [Next]_vars => StoredInv'
  BY StoredStep
<1>3. StoredInv /\ [Next]_vars => [Kept]_vars
  BY DEF StoredInv, StoredView, Held
<1> QED
  BY <1>1, <1>2, <1>3, PushPullTypeCorrect, PTL DEF Spec, PullKeepsWork
===============================================================================
