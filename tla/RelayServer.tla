------------------------------ MODULE RelayServer ------------------------------
(***************************************************************************)
(* The relay's HTTP service (src/crates/keyit-relay/src/lib.rs, from       *)
(* serve_http_blocking_with_options down to the store).  A relay process   *)
(* serves one connection at a time and ends when it cannot write an        *)
(* answer; several processes may share a store.  A signed request carries  *)
(* a nonce of its own and may reach the relay in several copies, because   *)
(* what stands between client and relay may send it again.                 *)
(***************************************************************************)
EXTENDS Naturals

CONSTANTS
  Servers,      \* relay processes on one store
  Connections,  \* bound: each is opened once
  Peers,        \* addresses that the limiter tells apart
  PeerOf,       \* connection -> the peer it comes from
  Requests,
  Malformed,    \* requests that the reader turns away
  Signed,       \* the revision routes; the others need no signature
  Verified,     \* signed requests whose envelope verifies
  Publishing,   \* signed requests that publish a revision
  Permitted,    \* those whose author may publish it
  MaxPerWindow, \* max_per_minute, 0 for no limit
  MaxCrashes,   \* bound
  None

ASSUME ServerAssumption ==
  /\ PeerOf \in [Connections -> Peers]
  /\ Malformed \subseteq Requests
  /\ Signed \subseteq Requests \ Malformed /\ Verified \subseteq Signed
  /\ Publishing \subseteq Signed /\ Permitted \subseteq Publishing
  /\ MaxPerWindow \in Nat /\ MaxCrashes \in Nat
  /\ None \notin Connections \cup Requests \cup Servers

VARIABLES
  conn,      \* connection -> "unused", "open", "gone" (hung up) or "closed"
  carries,   \* connection -> its request
  to,        \* connection -> the process it was made to
  whole,     \* connections whose request has arrived to the last byte
  answer,    \* connection -> the answer its peer got
  step,      \* process -> what it does next
  at,        \* process -> the connection it serves
  reply,     \* process -> the response it is about to write
  count,     \* process -> peer -> requests in the current window
  over,      \* process -> peers whose window is over
  nonces,    \* requests with a nonce file
  expired,   \* requests whose nonce file has become older than nonce_ttl
  executed,  \* request -> how often it was carried out
  accepted,  \* requests whose revision the store accepted
  crashes

peers == <<conn, carries, to, whole, answer>>
work == <<step, at, reply>>
limiter == <<count, over>>
store == <<nonces, expired, executed, accepted>>
vars == <<peers, work, limiter, store, crashes>>

Replies ==
  {"bad", "limited", "refused", "replay", "forbidden", "created", "conflict", "ok", "error"}

Steps == {"accept", "read", "limit", "verify", "nonce", "store", "reply", "down"}

TypeOK ==
  /\ conn \in [Connections -> {"unused", "open", "gone", "closed"}]
  /\ carries \in [Connections -> Requests \cup {None}]
  /\ to \in [Connections -> Servers \cup {None}]
  /\ whole \subseteq Connections
  /\ answer \in [Connections -> Replies \cup {"none"}]
  /\ step \in [Servers -> Steps]
  /\ at \in [Servers -> Connections \cup {None}]
  /\ reply \in [Servers -> Replies \cup {"none"}]
  /\ count \in [Servers -> [Peers -> 0..MaxPerWindow]]
  /\ over \in [Servers -> SUBSET Peers]
  /\ nonces \subseteq Signed
  /\ expired \subseteq Signed
  /\ executed \in [Requests -> Nat]
  /\ accepted \subseteq Publishing
  /\ crashes \in 0..MaxCrashes

Init ==
  /\ conn = [c \in Connections |-> "unused"]
  /\ carries = [c \in Connections |-> None]
  /\ to = [c \in Connections |-> None]
  /\ whole = {}
  /\ answer = [c \in Connections |-> "none"]
  /\ step = [s \in Servers |-> "accept"]
  /\ at = [s \in Servers |-> None]
  /\ reply = [s \in Servers |-> "none"]
  /\ count = [s \in Servers |-> [p \in Peers |-> 0]]
  /\ over = [s \in Servers |-> {}]
  /\ nonces = {}
  /\ expired = {}
  /\ executed = [r \in Requests |-> 0]
  /\ accepted = {}
  /\ crashes = 0

Request(s) == carries[at[s]]
Goto(s, next) == step' = [step EXCEPT ![s] = next] /\ UNCHANGED reply
Answer(s, response) ==
  /\ step' = [step EXCEPT ![s] = "reply"]
  /\ reply' = [reply EXCEPT ![s] = response]

-------------------------------------------------------------------------------
(* The other end of a connection *)

(* No copy of a request is delivered later than nonce_ttl after it was     *)
(* first served: see CleanupNonce.                                         *)
Connect(c, r, s) ==
  /\ conn[c] = "unused" /\ step[s] # "down"
  /\ r \notin expired
  /\ conn' = [conn EXCEPT ![c] = "open"]
  /\ carries' = [carries EXCEPT ![c] = r]
  /\ to' = [to EXCEPT ![c] = s]
  /\ whole' \in {whole, whole \cup {c}}
  /\ UNCHANGED <<answer, work, limiter, store, crashes>>

SendRest(c) ==
  /\ conn[c] = "open" /\ c \notin whole
  /\ whole' = whole \cup {c}
  /\ UNCHANGED <<conn, carries, to, answer, work, limiter, store, crashes>>

(* The client's 30 s are over, or the peer goes away. *)
HangUp(c) ==
  /\ conn[c] = "open"
  /\ conn' = [conn EXCEPT ![c] = "gone"]
  /\ UNCHANGED <<carries, to, whole, answer, work, limiter, store, crashes>>

-------------------------------------------------------------------------------
(* serve_http_blocking_with_options *)

Accept(s, c) ==
  /\ step[s] = "accept"
  /\ to[c] = s /\ conn[c] \in {"open", "gone"}
  /\ at' = [at EXCEPT ![s] = c]
  /\ Goto(s, "read")
  /\ UNCHANGED <<peers, limiter, store, crashes>>

Read(s) ==
  /\ step[s] = "read" /\ at[s] \in whole /\ Request(s) \notin Malformed
  /\ Goto(s, "limit")
  /\ UNCHANGED <<peers, at, limiter, store, crashes>>

(* Fault: reads on for ever when the peer has hung up. *)
ReadWaitsOn(s) ==
  /\ step[s] = "read" /\ Request(s) \in Malformed
  /\ Answer(s, "bad")
  /\ UNCHANGED <<peers, at, limiter, store, crashes>>

(* Too large, not HTTP, or cut off. *)
ReadFails(s) ==
  /\ step[s] = "read"
  /\ \/ Request(s) \in Malformed
     \/ at[s] \notin whole /\ conn[at[s]] = "gone"
  /\ Answer(s, "bad")
  /\ UNCHANGED <<peers, at, limiter, store, crashes>>

(* RelayRateLimiter::allow: a fixed window for each peer, in this process. *)
Counted(s, p) == IF p \in over[s] THEN 0 ELSE count[s][p]

Limit(s) ==
  /\ step[s] = "limit"
  /\ LET p == PeerOf[at[s]] IN
     \/ /\ MaxPerWindow = 0 \/ Counted(s, p) < MaxPerWindow
        /\ count' = [count EXCEPT ![s][p] = IF MaxPerWindow = 0 THEN 0 ELSE Counted(s, p) + 1]
        /\ over' = [over EXCEPT ![s] = @ \ {p}]
        /\ Goto(s, "verify")
     \/ /\ MaxPerWindow > 0 /\ Counted(s, p) = MaxPerWindow
        /\ Answer(s, "limited")
        /\ UNCHANGED limiter
  /\ UNCHANGED <<peers, at, store, crashes>>

WindowEnds(s, p) ==
  /\ step[s] # "down" /\ count[s][p] > 0 /\ p \notin over[s]
  /\ over' = [over EXCEPT ![s] = @ \cup {p}]
  /\ UNCHANGED <<peers, work, count, store, crashes>>

-------------------------------------------------------------------------------
(* handle_http_request_inner *)

(* Access records, probes and metrics go to the store unsigned. *)
Verify(s) ==
  /\ step[s] = "verify"
  /\ \/ Request(s) \notin Signed /\ Goto(s, "store")
     \/ Request(s) \in Verified /\ Goto(s, "nonce")
     \/ Request(s) \in Signed \ Verified /\ Answer(s, "refused")
  /\ UNCHANGED <<peers, at, limiter, store, crashes>>

(* Fault: opens the nonce file whether or not it exists. *)
RememberNonceAnyway(s) ==
  /\ step[s] = "nonce"
  /\ nonces' = nonces \cup {Request(s)}
  /\ Goto(s, "store")
  /\ UNCHANGED <<peers, at, limiter, expired, executed, accepted, crashes>>

(* remember_request_nonce: the file is created or exists. *)
RememberNonce(s) ==
  /\ step[s] = "nonce"
  /\ \/ /\ Request(s) \notin nonces
        /\ nonces' = nonces \cup {Request(s)}
        /\ Goto(s, "store")
     \/ /\ Request(s) \in nonces
        /\ Answer(s, "replay")
        /\ UNCHANGED nonces
  /\ UNCHANGED <<peers, at, limiter, expired, executed, accepted, crashes>>

(* The file cannot be created, or not be written once it exists. *)
NonceFails(s) ==
  /\ step[s] = "nonce" /\ Request(s) \notin nonces
  /\ nonces' \in {nonces, nonces \cup {Request(s)}}
  /\ Answer(s, "error")
  /\ UNCHANGED <<peers, at, limiter, expired, executed, accepted, crashes>>

Executes(s) == executed' = [executed EXCEPT ![Request(s)] = @ + 1]

(* publish_revision_checked accepts, or finds another parent, or fails.    *)
(* What it does in between is RelayPublish.                                *)
StorePublish(s) ==
  /\ step[s] = "store" /\ Request(s) \in Permitted
  /\ Executes(s)
  /\ \/ /\ Request(s) \notin accepted
        /\ accepted' = accepted \cup {Request(s)}
        /\ Answer(s, "created")
     \/ Answer(s, "conflict") /\ UNCHANGED accepted
     \/ Answer(s, "error") /\ UNCHANGED accepted
  /\ UNCHANGED <<peers, at, limiter, nonces, expired, crashes>>

RefusePublish(s) ==
  /\ step[s] = "store" /\ Request(s) \in Publishing \ Permitted
  /\ Answer(s, "forbidden")
  /\ UNCHANGED <<peers, at, limiter, store, crashes>>

StoreOther(s) ==
  /\ step[s] = "store" /\ Request(s) \notin Publishing
  /\ IF Request(s) \in Signed THEN Executes(s) ELSE UNCHANGED executed
  /\ Answer(s, "ok") \/ Answer(s, "error")
  /\ UNCHANGED <<peers, at, limiter, nonces, expired, accepted, crashes>>

-------------------------------------------------------------------------------
(* write_http_response, and the end of a process *)

Respond(s) ==
  /\ step[s] = "reply"
  /\ answer' = [answer EXCEPT ![at[s]] = IF conn[at[s]] = "open" THEN reply[s] ELSE @]
  /\ conn' = [conn EXCEPT ![at[s]] = "closed"]
  /\ step' = [step EXCEPT ![s] = "accept"]
  /\ at' = [at EXCEPT ![s] = None]
  /\ reply' = [reply EXCEPT ![s] = "none"]
  /\ UNCHANGED <<carries, to, whole, limiter, store, crashes>>

(* Connections that a process leaves behind are reset. *)
GoDown(s) ==
  /\ step' = [step EXCEPT ![s] = "down"]
  /\ at' = [at EXCEPT ![s] = None]
  /\ reply' = [reply EXCEPT ![s] = "none"]
  /\ conn' = [c \in Connections |->
       IF to[c] = s /\ conn[c] \in {"open", "gone"} THEN "closed" ELSE conn[c]]

(* Writing to a peer that is gone may fail, which ends the loop. *)
RespondFails(s) ==
  /\ step[s] = "reply" /\ conn[at[s]] = "gone"
  /\ GoDown(s)
  /\ UNCHANGED <<carries, to, whole, answer, limiter, store, crashes>>

Crash(s) ==
  /\ step[s] # "down" /\ crashes < MaxCrashes
  /\ GoDown(s)
  /\ crashes' = crashes + 1
  /\ UNCHANGED <<carries, to, whole, answer, limiter, store>>

(* The limiter's windows were in the memory of the process. *)
Restart(s) ==
  /\ step[s] = "down"
  /\ Goto(s, "accept")
  /\ count' = [count EXCEPT ![s] = [p \in Peers |-> 0]]
  /\ over' = [over EXCEPT ![s] = {}]
  /\ UNCHANGED <<peers, at, store, crashes>>

-------------------------------------------------------------------------------
(* keyit-relay maintenance cleanup, on nonce files *)

(* See Connect: a copy under way keeps its nonce young. *)
NonceExpires(r) ==
  /\ r \in nonces \ expired
  /\ \A c \in Connections : carries[c] = r => conn[c] = "closed"
  /\ expired' = expired \cup {r}
  /\ UNCHANGED <<peers, work, limiter, nonces, executed, accepted, crashes>>

(* Fault: looks at no age. *)
CleanupNonceAnyAge(r) ==
  /\ r \in nonces
  /\ nonces' = nonces \ {r}
  /\ UNCHANGED <<peers, work, limiter, expired, executed, accepted, crashes>>

CleanupNonce(r) ==
  /\ r \in nonces \cap expired
  /\ nonces' = nonces \ {r}
  /\ UNCHANGED <<peers, work, limiter, expired, executed, accepted, crashes>>

-------------------------------------------------------------------------------
Serve(s) ==
  \/ \E c \in Connections : Accept(s, c)
  \/ Read(s) \/ ReadFails(s) \/ Limit(s) \/ Verify(s)
  \/ RememberNonce(s) \/ NonceFails(s)
  \/ StorePublish(s) \/ RefusePublish(s) \/ StoreOther(s)
  \/ Respond(s) \/ RespondFails(s)

Peer(c) ==
  \/ \E r \in Requests, s \in Servers : Connect(c, r, s)
  \/ SendRest(c) \/ HangUp(c)

Maintain(r) == NonceExpires(r) \/ CleanupNonce(r)

Next ==
  \/ \E s \in Servers : Serve(s) \/ Crash(s) \/ Restart(s) \/ \E p \in Peers : WindowEnds(s, p)
  \/ \E c \in Connections : Peer(c)
  \/ \E r \in Requests : Maintain(r)

Spec == Init /\ [][Next]_vars

(* Processes go on and are restarted; who keeps a connection open sends on. *)
FairSpec ==
  /\ Spec
  /\ \A s \in Servers : WF_vars(Serve(s)) /\ WF_vars(Restart(s))
  /\ \A c \in Connections : WF_vars(SendRest(c))

-------------------------------------------------------------------------------
(* Properties *)

(***************************************************************************)
(* A signed request is carried out at most once, however many copies of it *)
(* reach however many processes, and whichever of them die on the way.     *)
(***************************************************************************)
AtMostOnce == \A r \in Signed : executed[r] <= 1

(***************************************************************************)
(* What the client makes of 201 and 409 is true of its request, whichever  *)
(* copy the answer belongs to: its revision is accepted, or never will be. *)
(***************************************************************************)
Outcome(r, response) ==
  /\ response = "created" => r \in accepted
  /\ response = "conflict" => r \notin accepted
AnswersAreTrue == \A c \in Connections : Outcome(carries[c], answer[c])

(***************************************************************************)
(* Everyone who stays on the line gets an answer or a reset, although one  *)
(* connection is served at a time and a peer that leaves ends the process. *)
(***************************************************************************)
EveryPeerAnswered ==
  \A c \in Connections : conn[c] = "open" ~> conn[c] \in {"gone", "closed"}

-------------------------------------------------------------------------------
(* The inductive invariant *)

Serving(s) == step[s] \notin {"accept", "down"}
InStore(s) == step[s] = "store" /\ Request(s) \in Signed

(* A process serves an unfinished connection that was made to it. *)
ServedOnce ==
  /\ \A s \in Servers : Serving(s) =>
       at[s] \in Connections /\ to[at[s]] = s /\ conn[at[s]] \in {"open", "gone"}
  /\ \A s \in Servers : step[s] = "nonce" => Request(s) \in Signed
  /\ \A c \in Connections :
       IF conn[c] = "unused" THEN answer[c] = "none" ELSE carries[c] \in Requests

(* Who gets past the nonce is the first and the only one. *)
FirstInStore ==
  /\ \A s \in Servers : InStore(s) => Request(s) \in nonces /\ executed[Request(s)] = 0
  /\ \A s, t \in Servers : InStore(s) /\ InStore(t) /\ Request(s) = Request(t) => s = t

NonceOutlivesCopies ==
  /\ \A r \in Signed : executed[r] > 0 => r \in nonces \cup expired
  /\ \A c \in Connections : conn[c] \in {"open", "gone"} => carries[c] \notin expired

RepliesAreTrue ==
  /\ \A r \in accepted : executed[r] > 0
  /\ \A s \in Servers : step[s] = "reply" =>
       /\ Outcome(Request(s), reply[s])
       /\ reply[s] = "conflict" => executed[Request(s)] > 0 /\ Request(s) \in Signed
  /\ \A c \in Connections : answer[c] = "conflict" =>
       carries[c] \in Signed /\ executed[carries[c]] > 0

ServerInv ==
  TypeOK /\ AtMostOnce /\ AnswersAreTrue
  /\ ServedOnce /\ FirstInStore /\ NonceOutlivesCopies /\ RepliesAreTrue
===============================================================================
