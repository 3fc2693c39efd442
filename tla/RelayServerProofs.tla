--------------------------- MODULE RelayServerProofs ---------------------------
(***************************************************************************)
(* For any number of relay processes, connections and requests: ServerInv  *)
(* is an inductive invariant, so no signed request is carried out twice    *)
(* and what an answer says of a published revision is true.                *)
(***************************************************************************)
EXTENDS RelayServer, TLAPS

USE DEF Goto, Answer, peers, work, limiter, store

LEMMA TypeInit == Init => TypeOK
  BY ServerAssumption DEF Init, TypeOK, Replies, Steps

(* The process that takes a nonce serves a signed request: see ServedOnce. *)
LEMMA TypeStep == TypeOK /\ ServedOnce /\ [Next]_vars => TypeOK'
<1> SUFFICES ASSUME TypeOK, ServedOnce, [Next]_vars PROVE TypeOK'
  OBVIOUS
<1> USE ServerAssumption DEF TypeOK, Replies, Steps
<1>1. ASSUME NEW c \in Connections, Peer(c) PROVE TypeOK'
  <2>1. ASSUME NEW r \in Requests, NEW s \in Servers, Connect(c, r, s) PROVE TypeOK'
    BY <2>1 DEF Connect
  <2>2. CASE SendRest(c) \/ HangUp(c)
    BY <2>2 DEF SendRest, HangUp
  <2> QED
    BY <1>1, <2>1, <2>2 DEF Peer
<1>2. ASSUME NEW s \in Servers, NEW c \in Connections, Accept(s, c) PROVE TypeOK'
  <2>1. step' \in [Servers -> Steps] /\ at' \in [Servers -> Connections \cup {None}]
    BY <1>2 DEF Accept
  <2>2. UNCHANGED <<peers, reply, limiter, store, crashes>>
    BY <1>2 DEF Accept
  <2> HIDE DEF Replies, Steps
  <2> QED
    BY <2>1, <2>2
<1>3. ASSUME NEW s \in Servers, Read(s) \/ ReadFails(s) \/ Verify(s) PROVE TypeOK'
  BY <1>3 DEF Read, ReadFails, Verify
<1>4. ASSUME NEW s \in Servers, Limit(s) PROVE TypeOK'
  <2> DEFINE p == PeerOf[at[s]]
             counted == IF MaxPerWindow = 0 THEN 0 ELSE Counted(s, p) + 1
  <2>1. CASE /\ MaxPerWindow = 0 \/ Counted(s, p) < MaxPerWindow
             /\ count' = [count EXCEPT ![s][p] = counted]
             /\ over' = [over EXCEPT ![s] = @ \ {p}]
             /\ Goto(s, "verify")
    <3>1. ASSUME p \in Peers PROVE counted \in 0..MaxPerWindow
      BY <2>1, <3>1 DEF Counted
    <3>2. [count[s] EXCEPT ![p] = counted] \in [Peers -> 0..MaxPerWindow]
      <4>1. count[s] \in [Peers -> 0..MaxPerWindow]
        OBVIOUS
      <4> HIDE DEF counted
      <4> QED
        BY <3>1, <4>1
    <3>3. count' = [count EXCEPT ![s] = [count[s] EXCEPT ![p] = counted]]
      BY <2>1
    <3>4. count' \in [Servers -> [Peers -> 0..MaxPerWindow]]
      BY <3>2, <3>3
    <3> QED
      BY <1>4, <2>1, <3>4 DEF Limit
  <2>2. CASE Answer(s, "limited") /\ UNCHANGED limiter
    BY <1>4, <2>2 DEF Limit
  <2> QED
    BY <1>4, <2>1, <2>2 DEF Limit
<1>5. ASSUME NEW s \in Servers, RememberNonce(s) \/ NonceFails(s) PROVE TypeOK'
  <2>1. Request(s) \in Signed
    BY <1>5 DEF RememberNonce, NonceFails, ServedOnce
  <2>2. step' \in [Servers -> Steps]
    BY <1>5 DEF RememberNonce, NonceFails
  <2>3. nonces' \subseteq Signed /\ reply' \in [Servers -> Replies \cup {"none"}]
    BY <1>5, <2>1 DEF RememberNonce, NonceFails
  <2> QED
    BY <1>5, <2>2, <2>3 DEF RememberNonce, NonceFails
<1>6. ASSUME NEW s \in Servers, StorePublish(s) \/ RefusePublish(s) \/ StoreOther(s)
      PROVE  TypeOK'
  <2>1. executed' \in [Requests -> Nat]
    BY <1>6 DEF StorePublish, RefusePublish, StoreOther, Executes
  <2>2. accepted' \subseteq Publishing
    BY <1>6 DEF StorePublish, RefusePublish, StoreOther
  <2>3. /\ step' \in [Servers -> Steps]
        /\ reply' \in [Servers -> Replies \cup {"none"}]
    BY <1>6 DEF StorePublish, RefusePublish, StoreOther
  <2> QED
    BY <1>6, <2>1, <2>2, <2>3 DEF StorePublish, RefusePublish, StoreOther
<1>7. ASSUME NEW s \in Servers, Respond(s) PROVE TypeOK'
  <2>1. at[s] \in Connections
    BY <1>7 DEF Respond, ServedOnce, Serving
  <2>2. /\ answer' \in [Connections -> Replies \cup {"none"}]
        /\ conn' \in [Connections -> {"unused", "open", "gone", "closed"}]
    BY <1>7, <2>1 DEF Respond
  <2>3. /\ step' \in [Servers -> Steps]
        /\ at' \in [Servers -> Connections \cup {None}]
        /\ reply' \in [Servers -> Replies \cup {"none"}]
    BY <1>7 DEF Respond
  <2> QED
    BY <1>7, <2>2, <2>3 DEF Respond
<1>8. ASSUME NEW s \in Servers, RespondFails(s) \/ Crash(s) PROVE TypeOK'
  <2>1. /\ step' \in [Servers -> Steps]
        /\ at' \in [Servers -> Connections \cup {None}]
        /\ reply' \in [Servers -> Replies \cup {"none"}]
    BY <1>8 DEF RespondFails, Crash, GoDown
  <2>2. conn' \in [Connections -> {"unused", "open", "gone", "closed"}]
    BY <1>8 DEF RespondFails, Crash, GoDown
  <2>3. crashes' \in 0..MaxCrashes
    BY <1>8 DEF RespondFails, Crash
  <2> QED
    BY <1>8, <2>1, <2>2, <2>3 DEF RespondFails, Crash
<1>9. ASSUME NEW s \in Servers, Restart(s) PROVE TypeOK'
  BY <1>9 DEF Restart
<1>10. ASSUME NEW s \in Servers, NEW p \in Peers, WindowEnds(s, p) PROVE TypeOK'
  <2>1. over' \in [Servers -> SUBSET Peers]
    BY <1>10 DEF WindowEnds
  <2> QED
    BY <1>10, <2>1 DEF WindowEnds
<1>11. ASSUME NEW r \in Requests, Maintain(r) PROVE TypeOK'
  BY <1>11 DEF Maintain, NonceExpires, CleanupNonce
<1>12. CASE UNCHANGED vars
  BY <1>12 DEF vars
<1> QED
  BY <1>1, <1>2, <1>3, <1>4, <1>5, <1>6, <1>7, <1>8, <1>9, <1>10, <1>11, <1>12 DEF Next, Serve

-------------------------------------------------------------------------------
(* What a process serves: a connection of its own with a known request. *)
LEMMA Served ==
  ASSUME ServerInv, NEW s \in Servers, Serving(s)
  PROVE  /\ at[s] \in Connections /\ to[at[s]] = s
         /\ conn[at[s]] \in {"open", "gone"} /\ conn[at[s]] # "unused"
         /\ Request(s) \in Requests /\ Request(s) \notin expired
         /\ executed[Request(s)] \in Nat
  BY DEF ServerInv, ServedOnce, NonceOutlivesCopies, Request, TypeOK

(* The parts of ServerInv but the types. *)
Rest ==
  /\ AtMostOnce /\ AnswersAreTrue
  /\ ServedOnce /\ FirstInStore /\ NonceOutlivesCopies /\ RepliesAreTrue

(* Steps that only move one process on, to the step and the reply given.   *)
Moves(s, next, response) ==
  /\ Serving(s)
  /\ step' = [step EXCEPT ![s] = next]
  /\ reply' = [reply EXCEPT ![s] = response]
  /\ UNCHANGED <<peers, at, store>>

LEMMA MovesStep ==
  ASSUME ServerInv, NEW s \in Servers, NEW next, NEW response, Moves(s, next, response),
         next \in Steps,
         next = "nonce" => Request(s) \in Signed,
         next = "store" => Request(s) \notin Signed,
         response \notin {"created", "conflict"} \/ next # "reply"
  PROVE  Rest'
<1> USE DEF ServerInv, Moves, TypeOK, Request
<1>1. AtMostOnce' /\ AnswersAreTrue' /\ NonceOutlivesCopies'
  BY DEF AtMostOnce, AnswersAreTrue, Outcome, NonceOutlivesCopies
<1>2. ServedOnce'
  BY Served DEF ServedOnce, Serving
<1>3. FirstInStore'
  BY DEF FirstInStore, InStore
<1>4. RepliesAreTrue'
  BY DEF RepliesAreTrue, Outcome
<1> QED
  BY <1>1, <1>2, <1>3, <1>4 DEF Rest

LEMMA ConnectStep ==
  ASSUME ServerInv, NEW c \in Connections, NEW r \in Requests, NEW p \in Servers,
         Connect(c, r, p)
  PROVE  Rest'
<1> USE DEF ServerInv, TypeOK, Connect
<1>1. answer[c] = "none"
  BY DEF ServedOnce
<1>2. /\ conn'[c] = "open" /\ carries'[c] = r /\ r \notin expired
      /\ \A d \in Connections : d # c => carries'[d] = carries[d] /\ conn'[d] = conn[d] /\ to'[d] = to[d]
  OBVIOUS
<1>3. \A s \in Servers : Serving(s) => at[s] # c /\ Request(s)' = Request(s)
  BY Served, <1>2 DEF Request
<1>4. AtMostOnce' /\ AnswersAreTrue'
  BY <1>1, <1>2 DEF AtMostOnce, AnswersAreTrue, Outcome
<1>5. ServedOnce'
  <2>1. \A s \in Servers : step[s] = "nonce" => Request(s)' \in Signed
    BY <1>3 DEF ServedOnce, Serving
  <2>2. \A s \in Servers : Serving(s) =>
          at[s] \in Connections /\ to'[at[s]] = s /\ conn'[at[s]] \in {"open", "gone"}
    BY <1>2, <1>3 DEF ServedOnce
  <2>3. \A d \in Connections :
          IF conn'[d] = "unused" THEN answer[d] = "none" ELSE carries'[d] \in Requests
    BY <1>2 DEF ServedOnce
  <2> QED
    BY <2>1, <2>2, <2>3 DEF ServedOnce, Serving
<1>6. FirstInStore'
  <2>1. ASSUME NEW s \in Servers, InStore(s)'
        PROVE  InStore(s) /\ Request(s)' = Request(s)
    BY <1>3, <2>1 DEF InStore, Serving
  <2> QED
    BY <2>1 DEF FirstInStore
<1>7. NonceOutlivesCopies'
  BY <1>2 DEF NonceOutlivesCopies
<1>8. RepliesAreTrue'
  BY <1>1, <1>2, <1>3 DEF RepliesAreTrue, Outcome, Serving
<1> QED
  BY <1>4, <1>5, <1>6, <1>7, <1>8 DEF Rest

LEMMA SendRestStep ==
  ASSUME ServerInv, NEW c \in Connections, SendRest(c) \/ HangUp(c)
  PROVE  Rest'
<1> USE DEF ServerInv, TypeOK, Request, SendRest, HangUp
<1>1. AtMostOnce' /\ AnswersAreTrue'
  BY ServerAssumption DEF AtMostOnce, AnswersAreTrue, Outcome
<1>2. ServedOnce'
  BY ServerAssumption DEF ServedOnce, Serving
<1>3. FirstInStore'
  BY ServerAssumption DEF FirstInStore, InStore
<1>4. NonceOutlivesCopies'
  BY ServerAssumption DEF NonceOutlivesCopies
<1>5. RepliesAreTrue'
  BY ServerAssumption DEF RepliesAreTrue, Outcome
<1> QED
  BY <1>1, <1>2, <1>3, <1>4, <1>5 DEF Rest

LEMMA AcceptStep ==
  ASSUME ServerInv, NEW s \in Servers, NEW c \in Connections, Accept(s, c)
  PROVE  Rest'
<1> USE DEF ServerInv, TypeOK, Request, Accept
<1>1. AtMostOnce' /\ AnswersAreTrue'
  BY ServerAssumption DEF AtMostOnce, AnswersAreTrue, Outcome
<1>2. ServedOnce'
  BY ServerAssumption DEF ServedOnce, Serving
<1>3. FirstInStore'
  BY ServerAssumption DEF FirstInStore, InStore
<1>4. NonceOutlivesCopies'
  BY ServerAssumption DEF NonceOutlivesCopies
<1>5. RepliesAreTrue'
  BY ServerAssumption DEF RepliesAreTrue, Outcome
<1> QED
  BY <1>1, <1>2, <1>3, <1>4, <1>5 DEF Rest

LEMMA NonceStep ==
  ASSUME ServerInv, NEW s \in Servers, RememberNonce(s) \/ NonceFails(s)
  PROVE  Rest'
<1> USE DEF ServerInv, TypeOK, Request, RememberNonce, NonceFails
<1>1. AtMostOnce' /\ AnswersAreTrue'
  BY Served DEF AtMostOnce, AnswersAreTrue, Outcome
<1>2. ServedOnce'
  BY Served DEF ServedOnce, Serving
<1>3. FirstInStore'
  <2>1. Serving(s) /\ Request(s) \in Signed
    BY DEF Serving, ServedOnce
  <2>2. nonces \subseteq nonces' /\ (Request(s) \notin nonces => executed[Request(s)] = 0)
    BY <2>1, Served DEF NonceOutlivesCopies
  <2>3. InStore(s)' => Request(s) \notin nonces /\ Request(s) \in nonces'
    BY DEF InStore
  <2>4. ASSUME NEW t \in Servers, t # s, InStore(t)'
        PROVE  InStore(t) /\ Request(t) \in nonces
    BY <2>4 DEF FirstInStore, InStore
  <2> QED
    BY <2>2, <2>3, <2>4 DEF FirstInStore
<1>4. NonceOutlivesCopies'
  BY Served DEF NonceOutlivesCopies
<1>5. RepliesAreTrue'
  BY Served DEF RepliesAreTrue, Outcome
<1> QED
  BY <1>1, <1>2, <1>3, <1>4, <1>5 DEF Rest

(* Who carries a signed request out is the first, and the only one. *)
LEMMA Alone ==
  ASSUME ServerInv, NEW s \in Servers, InStore(s)
  PROVE  /\ Request(s) \in Requests \cap nonces
         /\ Request(s) \notin expired /\ Request(s) \notin accepted
         /\ executed[Request(s)] = 0
         /\ \A t \in Servers : InStore(t) /\ Request(t) = Request(s) => t = s
<1>1. Serving(s)
  BY DEF InStore, Serving
<1>2. Request(s) \in nonces /\ executed[Request(s)] = 0
  BY DEF ServerInv, FirstInStore
<1>3. Request(s) \notin accepted
  BY <1>2 DEF ServerInv, RepliesAreTrue
<1> QED
  BY <1>1, <1>2, <1>3, Served DEF ServerInv, FirstInStore

(* A step that carries a signed request out, with the reply it gives. *)
Carries(s, response) ==
  /\ InStore(s)
  /\ executed' = [executed EXCEPT ![Request(s)] = @ + 1]
  /\ accepted' = IF response = "created" THEN accepted \cup {Request(s)} ELSE accepted
  /\ step' = [step EXCEPT ![s] = "reply"]
  /\ reply' = [reply EXCEPT ![s] = response]
  /\ UNCHANGED <<peers, at, nonces, expired>>

LEMMA CarriesStep ==
  ASSUME ServerInv, NEW s \in Servers, NEW response, Carries(s, response)
  PROVE  Rest'
<1> DEFINE r == Request(s)
<1>1. /\ r \in Requests /\ r \in Signed /\ r \in nonces
      /\ r \notin expired /\ r \notin accepted /\ executed[r] = 0
  BY Alone DEF Carries, InStore
<1>2. executed' = [executed EXCEPT ![r] = 1]
  BY <1>1 DEF Carries
<1>3. executed'[r] = 1 /\ \A q \in Requests : q # r => executed'[q] = executed[q]
  BY <1>1, <1>2 DEF ServerInv, TypeOK
<1>4. \A t \in Servers : Request(t)' = Request(t)
  BY DEF Carries, Request
<1>5. /\ \A t \in Servers : t # s => step'[t] = step[t] /\ reply'[t] = reply[t]
      /\ step'[s] = "reply" /\ reply'[s] = response
  BY DEF Carries, ServerInv, TypeOK
<1> HIDE DEF r
<1>6. AtMostOnce'
  BY <1>3, ServerAssumption DEF AtMostOnce, ServerInv
<1>7. AnswersAreTrue'
  <2>1. \A c \in Connections : answer[c] = "conflict" => carries[c] # r
    BY <1>1 DEF ServerInv, RepliesAreTrue
  <2>2. accepted \subseteq accepted' /\ accepted' \subseteq accepted \cup {r}
    BY DEF Carries, r
  <2>3. carries' = carries /\ answer' = answer
    BY DEF Carries
  <2> QED
    BY <2>1, <2>2, <2>3 DEF AnswersAreTrue, Outcome, ServerInv
<1>8. ServedOnce'
  <2>1. UNCHANGED <<at, to, conn, carries, answer>>
    BY DEF Carries
  <2>2. Serving(s)
    BY DEF Carries, InStore, Serving
  <2> QED
    BY <1>4, <1>5, <2>1, <2>2 DEF ServerInv, ServedOnce, Serving
<1>9. FirstInStore'
  <2>1. ASSUME NEW t \in Servers, InStore(t)' PROVE t # s /\ InStore(t) /\ Request(t) # r
    BY <1>4, <1>5, <2>1, Alone DEF InStore, Carries, r
  <2>2. nonces' = nonces
    BY DEF Carries
  <2>3. ASSUME NEW t \in Servers, InStore(t)
        PROVE  Request(t) \in Requests
    BY <2>3, ServerAssumption DEF InStore
  <2> QED
    BY <1>3, <1>4, <2>1, <2>2, <2>3 DEF FirstInStore, ServerInv
<1>10. NonceOutlivesCopies'
  <2>1. UNCHANGED <<nonces, expired, conn, carries>>
    BY DEF Carries
  <2> QED
    BY <1>1, <1>3, <2>1, ServerAssumption DEF NonceOutlivesCopies, ServerInv
<1>11. RepliesAreTrue'
  <2>1. \A q \in Requests : executed[q] > 0 => executed'[q] > 0
    BY <1>3
  <2>2. \A q \in accepted' : executed'[q] > 0
    BY <1>3, <2>1, ServerAssumption DEF Carries, r, RepliesAreTrue, ServerInv, TypeOK
  <2>3. ASSUME NEW t \in Servers, step'[t] = "reply"
        PROVE  /\ Outcome(Request(t), reply[t])'
               /\ reply'[t] = "conflict" => executed'[Request(t)] > 0 /\ Request(t) \in Signed
    <3>1. CASE t = s
      BY <1>1, <1>3, <1>4, <1>5, <3>1 DEF Carries, Outcome, r
    <3>2. CASE t # s
      <4>1. /\ step[t] = "reply" /\ Outcome(Request(t), reply[t])
            /\ reply[t] = "conflict" => executed[Request(t)] > 0 /\ Request(t) \in Signed
        BY <1>5, <2>3, <3>2 DEF ServerInv, RepliesAreTrue
      <4>2. reply[t] = "conflict" => Request(t) # r
        BY <1>1, <4>1
      <4> QED
        BY <1>4, <1>5, <2>1, <3>2, <4>1, <4>2, ServerAssumption DEF Carries, Outcome, r
    <3> QED
      BY <3>1, <3>2
  <2>4. carries' = carries /\ answer' = answer
    BY DEF Carries
  <2> QED
    BY <1>4, <2>1, <2>2, <2>3, <2>4, ServerAssumption DEF RepliesAreTrue, ServerInv
<1> QED
  BY <1>6, <1>7, <1>8, <1>9, <1>10, <1>11 DEF Rest

LEMMA PublishStep ==
  ASSUME ServerInv, NEW s \in Servers, StorePublish(s)
  PROVE  Rest'
<1>1. InStore(s)
  BY ServerAssumption DEF StorePublish, InStore
<1>2. CASE Answer(s, "created") /\ accepted' = accepted \cup {Request(s)}
  BY <1>1, <1>2, CarriesStep DEF StorePublish, Executes, Carries
<1>3. CASE Answer(s, "conflict") /\ UNCHANGED accepted
  BY <1>1, <1>3, CarriesStep DEF StorePublish, Executes, Carries
<1>4. CASE Answer(s, "error") /\ UNCHANGED accepted
  BY <1>1, <1>4, CarriesStep DEF StorePublish, Executes, Carries
<1> QED
  BY <1>2, <1>3, <1>4 DEF StorePublish

LEMMA OtherStep ==
  ASSUME ServerInv, NEW s \in Servers, StoreOther(s)
  PROVE  Rest'
<1>1. PICK response \in {"ok", "error"} : Answer(s, response)
  BY DEF StoreOther
<1>2. CASE Request(s) \in Signed
  BY <1>1, <1>2, CarriesStep DEF StoreOther, Executes, Carries, InStore
<1>3. CASE Request(s) \notin Signed
  <2>1. Moves(s, "reply", response)
    BY <1>1, <1>3 DEF StoreOther, Moves, Serving
  <2> QED
    BY <1>1, <2>1, MovesStep DEF Steps
<1> QED
  BY <1>2, <1>3

LEMMA RespondStep ==
  ASSUME ServerInv, NEW s \in Servers, Respond(s)
  PROVE  Rest'
<1> USE DEF ServerInv, TypeOK, Request, Respond
<1>0. /\ Outcome(Request(s), reply[s]) /\ Serving(s)
      /\ at[s] \in Connections
  BY Served DEF RepliesAreTrue, Serving
<1>1. AtMostOnce' /\ AnswersAreTrue'
  <2>1. ASSUME NEW c \in Connections PROVE Outcome(carries[c], answer'[c])
    <3>1. CASE answer'[c] = answer[c]
      BY <3>1 DEF AnswersAreTrue
    <3>2. CASE answer'[c] # answer[c]
      BY <1>0, <3>2
    <3> QED
      BY <3>1, <3>2
  <2> QED
    BY <2>1 DEF AtMostOnce, AnswersAreTrue, Outcome
<1>2. ServedOnce'
  <2>1. ASSUME NEW t \in Servers, Serving(t)'
        PROVE  /\ t # s /\ Serving(t) /\ at'[t] = at[t] /\ at[t] # at[s]
               /\ to[at[t]] = t /\ at[t] \in Connections
    <3>1. t # s /\ step'[t] = step[t] /\ at'[t] = at[t]
      BY <2>1 DEF Serving
    <3>2. Serving(t)
      BY <2>1, <3>1 DEF Serving
    <3>3. to[at[t]] = t /\ to[at[s]] = s /\ at[t] \in Connections
      BY <1>0, <3>2, Served
    <3> QED
      BY <3>1, <3>2, <3>3
  <2>2. ASSUME NEW t \in Servers, Serving(t)'
        PROVE  conn'[at'[t]] \in {"open", "gone"}
    <3>1. conn'[at'[t]] = conn[at[t]]
      BY <2>1, <2>2
    <3> QED
      BY <2>1, <2>2, <3>1 DEF ServedOnce
  <2>3. \A t \in Servers : step'[t] = "nonce" => step[t] = "nonce" /\ at'[t] = at[t]
    OBVIOUS
  <2>4. ASSUME NEW c \in Connections
        PROVE  IF conn'[c] = "unused" THEN answer'[c] = "none" ELSE carries[c] \in Requests
    BY <1>0 DEF ServedOnce
  <2> QED
    BY <2>1, <2>2, <2>3, <2>4 DEF ServedOnce
<1>3. FirstInStore'
  BY Served DEF FirstInStore, InStore
<1>4. NonceOutlivesCopies'
  BY Served DEF NonceOutlivesCopies
<1>5. RepliesAreTrue'
  BY Served DEF RepliesAreTrue, Outcome
<1> QED
  BY <1>1, <1>2, <1>3, <1>4, <1>5 DEF Rest

LEMMA GoDownStep ==
  ASSUME ServerInv, NEW s \in Servers, RespondFails(s) \/ Crash(s)
  PROVE  Rest'
<1> USE DEF ServerInv, TypeOK, Request, RespondFails, Crash, GoDown
<1>1. AtMostOnce' /\ AnswersAreTrue'
  BY ServerAssumption DEF AtMostOnce, AnswersAreTrue, Outcome
<1>2. ServedOnce'
  <2>1. ASSUME NEW t \in Servers, Serving(t)'
        PROVE  /\ t # s /\ Serving(t) /\ at'[t] = at[t] /\ to[at[t]] = t
               /\ conn'[at[t]] = conn[at[t]] /\ at[t] \in Connections
    BY <2>1 DEF ServedOnce, Serving
  <2>2. \A t \in Servers : step'[t] = "nonce" => step[t] = "nonce" /\ at'[t] = at[t]
    OBVIOUS
  <2>3. ASSUME NEW c \in Connections
        PROVE  conn'[c] = "unused" <=> conn[c] = "unused"
    <3> HIDE DEF ServerInv, TypeOK
    <3> QED
      OBVIOUS
  <2> QED
    BY <2>1, <2>2, <2>3 DEF ServedOnce
<1>3. FirstInStore'
  <2>1. \A t \in Servers : step'[t] = "store" => step[t] = "store" /\ at'[t] = at[t]
    OBVIOUS
  <2>2. UNCHANGED <<carries, nonces, executed>>
    OBVIOUS
  <2>3. \A t \in Servers : InStore(t)' => InStore(t) /\ Request(t)' = Request(t)
    BY <2>1, <2>2 DEF InStore
  <2> QED
    BY <2>2, <2>3 DEF FirstInStore
<1>4. NonceOutlivesCopies'
  BY ServerAssumption DEF NonceOutlivesCopies
<1>5. RepliesAreTrue'
  BY ServerAssumption DEF RepliesAreTrue, Outcome
<1> QED
  BY <1>1, <1>2, <1>3, <1>4, <1>5 DEF Rest

LEMMA RestartStep ==
  ASSUME ServerInv, NEW s \in Servers, Restart(s)
  PROVE  Rest'
<1> USE DEF ServerInv, TypeOK, Request, Restart
<1>1. AtMostOnce' /\ AnswersAreTrue'
  BY ServerAssumption DEF AtMostOnce, AnswersAreTrue, Outcome
<1>2. ServedOnce'
  BY ServerAssumption DEF ServedOnce, Serving
<1>3. FirstInStore'
  BY ServerAssumption DEF FirstInStore, InStore
<1>4. NonceOutlivesCopies'
  BY ServerAssumption DEF NonceOutlivesCopies
<1>5. RepliesAreTrue'
  BY ServerAssumption DEF RepliesAreTrue, Outcome
<1> QED
  BY <1>1, <1>2, <1>3, <1>4, <1>5 DEF Rest

LEMMA MaintainStep ==
  ASSUME ServerInv, NEW r \in Requests, Maintain(r)
  PROVE  Rest'
<1> USE DEF ServerInv, TypeOK, Request, Maintain, NonceExpires, CleanupNonce
<1>1. AtMostOnce' /\ AnswersAreTrue'
  BY Served DEF AtMostOnce, AnswersAreTrue, Outcome
<1>2. ServedOnce'
  BY Served DEF ServedOnce, Serving
<1>3. FirstInStore'
  <2>1. ASSUME NEW t \in Servers, InStore(t)
        PROVE  Request(t) \in nonces'
    BY <2>1, Alone
  <2>2. \A t \in Servers : InStore(t)' => InStore(t)
    BY DEF InStore
  <2> QED
    BY <2>1, <2>2 DEF FirstInStore
<1>4. NonceOutlivesCopies'
  BY Served DEF NonceOutlivesCopies
<1>5. RepliesAreTrue'
  BY Served DEF RepliesAreTrue, Outcome
<1> QED
  BY <1>1, <1>2, <1>3, <1>4, <1>5 DEF Rest
-------------------------------------------------------------------------------
LEMMA ServerInit == Init => ServerInv
<1> SUFFICES ASSUME Init PROVE ServerInv
  OBVIOUS
<1> USE DEF Init
<1>1. TypeOK
  BY TypeInit
<1>2. AtMostOnce /\ AnswersAreTrue
  BY ServerAssumption DEF AtMostOnce, AnswersAreTrue, Outcome
<1>3. \A s \in Servers : ~Serving(s) /\ step[s] = "accept"
  BY DEF Serving
<1>4. ServedOnce /\ FirstInStore /\ RepliesAreTrue
  BY <1>3 DEF ServedOnce, FirstInStore, InStore, RepliesAreTrue
<1>5. NonceOutlivesCopies
  BY ServerAssumption DEF NonceOutlivesCopies
<1> QED
  BY <1>1, <1>2, <1>4, <1>5 DEF ServerInv

LEMMA ServerStep == ServerInv /\ [Next]_vars => ServerInv'
<1> SUFFICES ASSUME ServerInv, [Next]_vars PROVE ServerInv'
  OBVIOUS
<1>1. TypeOK'
  BY TypeStep DEF ServerInv
<1>2. Rest'
  <2>1. ASSUME NEW c \in Connections, Peer(c) PROVE Rest'
    BY <2>1, ConnectStep, SendRestStep DEF Peer
  <2>2. ASSUME NEW s \in Servers, Read(s) PROVE Rest'
    <3>1. Moves(s, "limit", reply[s])
      BY <2>2 DEF Read, Moves, Serving, ServerInv, TypeOK
    <3> QED
      BY <3>1, MovesStep DEF Steps
  <2>3. ASSUME NEW s \in Servers, ReadFails(s) PROVE Rest'
    <3>1. Moves(s, "reply", "bad")
      BY <2>3 DEF ReadFails, Moves, Serving
    <3> QED
      BY <3>1, MovesStep DEF Steps
  <2>4. ASSUME NEW s \in Servers, Limit(s) PROVE Rest'
    <3>1. Moves(s, "verify", reply[s]) \/ Moves(s, "reply", "limited")
      BY <2>4 DEF Limit, Moves, Serving, ServerInv, TypeOK
    <3> QED
      BY <3>1, MovesStep DEF Steps
  <2>5. ASSUME NEW s \in Servers, Verify(s) PROVE Rest'
    <3>1. CASE Request(s) \notin Signed /\ Goto(s, "store")
      <4>1. Moves(s, "store", reply[s])
        BY <2>5, <3>1 DEF Verify, Moves, Serving, ServerInv, TypeOK
      <4> QED
        BY <3>1, <4>1, MovesStep DEF Steps
    <3>2. CASE Request(s) \in Verified /\ Goto(s, "nonce")
      <4>1. Moves(s, "nonce", reply[s])
        BY <2>5, <3>2 DEF Verify, Moves, Serving, ServerInv, TypeOK
      <4> QED
        BY <3>2, <4>1, MovesStep, ServerAssumption DEF Steps
    <3>3. CASE Answer(s, "refused")
      <4>1. Moves(s, "reply", "refused")
        BY <2>5, <3>3 DEF Verify, Moves, Serving
      <4> QED
        BY <4>1, MovesStep DEF Steps
    <3> QED
      BY <2>5, <3>1, <3>2, <3>3 DEF Verify
  <2>6. ASSUME NEW s \in Servers, RefusePublish(s) PROVE Rest'
    <3>1. Moves(s, "reply", "forbidden")
      BY <2>6 DEF RefusePublish, Moves, Serving
    <3> QED
      BY <3>1, MovesStep DEF Steps
  <2>7. ASSUME NEW s \in Servers, NEW p \in Peers, WindowEnds(s, p) PROVE Rest'
    BY <2>7 DEF WindowEnds, Rest, ServerInv, AtMostOnce, AnswersAreTrue, Outcome, ServedOnce,
       Serving, FirstInStore, InStore, NonceOutlivesCopies, RepliesAreTrue, Request
  <2>8. CASE UNCHANGED vars
    BY <2>8 DEF vars, Rest, ServerInv, AtMostOnce, AnswersAreTrue, Outcome, ServedOnce,
       Serving, FirstInStore, InStore, NonceOutlivesCopies, RepliesAreTrue, Request
  <2> QED
    BY <2>1, <2>2, <2>3, <2>4, <2>5, <2>6, <2>7, <2>8, AcceptStep, NonceStep, PublishStep,
       OtherStep, RespondStep, GoDownStep, RestartStep, MaintainStep DEF Next, Serve
<1> QED
  BY <1>1, <1>2 DEF ServerInv, Rest

(***************************************************************************)
(* The inductive invariant of the service, whatever copies of a request    *)
(* arrive, whoever hangs up and whichever process dies.                    *)
(***************************************************************************)
THEOREM ServerInvariant == Spec => []ServerInv
  BY ServerInit, ServerStep, PTL DEF Spec

(***************************************************************************)
(* The relay's processes, connections and answers keep their types.        *)
(***************************************************************************)
THEOREM ServerTypeCorrect == Spec => []TypeOK
<1>1. ServerInv => TypeOK
  BY DEF ServerInv
<1> QED
  BY <1>1, ServerInvariant, PTL

(***************************************************************************)
(* handle_http_request_inner carries a signed request out at most once.    *)
(***************************************************************************)
THEOREM RequestsAtMostOnce == Spec => []AtMostOnce
<1>1. ServerInv => AtMostOnce
  BY DEF ServerInv
<1> QED
  BY <1>1, ServerInvariant, PTL

(***************************************************************************)
(* 201 and 409 tell a client the truth about its revision.                 *)
(***************************************************************************)
THEOREM AnswersAlwaysTrue == Spec => []AnswersAreTrue
<1>1. ServerInv => AnswersAreTrue
  BY DEF ServerInv
<1> QED
  BY <1>1, ServerInvariant, PTL
===============================================================================
