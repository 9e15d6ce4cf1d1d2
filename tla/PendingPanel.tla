---------------------------- MODULE PendingPanel ----------------------------
(***************************************************************************)
(* A browser window that shows a user the deposits on their way to him:    *)
(* usePendingDeposits, the list PendingActivity makes of it, and the       *)
(* WebSocket that watches his deposit address.  The wallet may be switched *)
(* to another account at any time; React runs the effects whose            *)
(* dependencies changed after a render, so that for a moment what is shown *)
(* belongs to the render before.                                           *)
(*                                                                         *)
(* An address is named by the user it belongs to.  That a message of the   *)
(* socket brings a refetch forward is left out: the lists are fetched      *)
(* again and again, at any time.  The table of deposits is filled by the   *)
(* job of module DepositTracking, here cut down to what the window sees.   *)
(***************************************************************************)
EXTENDS Naturals, Sequences, FiniteSets

CONSTANTS
  Users, Deposits,
  To,              \* Deposits -> Users
  Confirmations,   \* REQUIRED_CONFIRMATIONS: 4
  MaxDelay,        \* MAX_RECONNECT_DELAY_30_SECONDS_MS; the least is 1
  MaxDepth, MaxLosses, MaxSwitches   \* bounds of the model

Nobody == "nobody"

PendingPanelAssumption ==
  /\ To \in [Deposits -> Users] /\ Nobody \notin Users
  /\ {Confirmations, MaxDelay, MaxDepth, MaxLosses, MaxSwitches} \subseteq Nat

VARIABLES
  sent, depth,     \* deposits in the mempool or a block, and their blocks
  table, credited, \* confirmations of the rows the server lists; credited
  user,            \* the connected account
  asked,           \* whose deposit address the server has told
  stored,          \* localStorage: deposit-address-cache
  cached,          \* cachedDepositAddress
  ran,             \* dependencies of the effects when they last ran
  mempool, rows,   \* what the two queries answered last
  trackers,        \* MempoolAddressTrackers, the last one being the current
  losses, switches, seen   \* bounds; deposits shown to their owner so far

chain == <<sent, depth>>
server == <<table, credited>>
queries == <<asked, mempool, rows>>
state == <<stored, cached, ran, trackers>>
vars == <<chain, server, user, queries, state, losses, switches, seen>>

Away == [user |-> Nobody, server |-> Nobody, address |-> Nobody]

Init ==
  /\ sent = {} /\ depth = [d \in Deposits |-> 0]
  /\ table = [d \in Deposits |-> 0] /\ credited = {}
  /\ user = Nobody /\ asked = {} /\ stored = [u \in Users |-> Nobody]
  /\ cached = Nobody /\ ran = Away
  /\ mempool = [u \in Users |-> {}]
  /\ rows = [u \in Users |-> [d \in Deposits |-> 0]]
  /\ trackers = <<>> /\ losses = 0 /\ switches = 0 /\ seen = {}

Switch(u) ==
  /\ u # user /\ switches < MaxSwitches
  /\ switches' = switches + 1 /\ user' = u
  /\ UNCHANGED <<chain, server, queries, state, losses, seen>>

-----------------------------------------------------------------------------
(* usePendingDeposits.                                                     *)

(* Fault: while an address is asked for, the last user's answer stands in. *)
LastAnswer(u) == IF u \in asked THEN u ELSE ran.server

Answer(u) == IF u \in asked THEN u ELSE Nobody

Address == IF Answer(user) # Nobody THEN Answer(user) ELSE cached
Dependencies == [user |-> user, server |-> Answer(user), address |-> Address]
Settled == Dependencies = ran

Disconnect(t) ==
  [t EXCEPT !.stopped = TRUE, !.timer = FALSE, !.socket = IF @ = "none" THEN @ ELSE "closing"]

Connect(address) ==
  [address |-> address, stopped |-> FALSE, socket |-> "connecting", timer |-> FALSE, delay |-> 1]

FromStorage(u) == IF u = Nobody THEN Nobody ELSE stored[u]

RunEffects ==
  LET now == Dependencies
      answered == /\ now.user # Nobody /\ now.server # Nobody
                  /\ <<now.user, now.server>> # <<ran.user, ran.server>>
      last == Len(trackers)
      kept == IF last = 0 THEN trackers
              ELSE [trackers EXCEPT ![last] = Disconnect(trackers[last])]
  IN
  /\ ~Settled /\ ran' = now
  /\ cached' = IF answered THEN now.server
               ELSE IF now.user # ran.user THEN FromStorage(now.user) ELSE cached
  /\ stored' = IF answered THEN [stored EXCEPT ![now.user] = now.server] ELSE stored
  /\ trackers' = IF now.address = ran.address THEN trackers
                 ELSE IF now.address = Nobody THEN kept
                 ELSE Append(kept, Connect(now.address))
  /\ UNCHANGED <<chain, server, user, queries, losses, switches, seen>>

(* buildPendingDeposits and buildActivityRows: a deposit with the          *)
(* confirmations its row shows.                                            *)
Shown ==
  {<<d, 0>> : d \in IF Address = Nobody THEN {} ELSE {x \in mempool[Address] : To[x] = Address}}
    \cup (IF user = Nobody THEN {}
          ELSE {<<d, rows[user][d]>> : d \in {x \in Deposits : rows[user][x] > 0}})

Look ==
  /\ Settled /\ user # Nobody
  /\ seen' = seen \cup {x[1] : x \in Shown} /\ seen' # seen
  /\ UNCHANGED <<chain, server, user, queries, state, losses, switches>>

FetchAddress ==
  /\ user \notin asked \cup {Nobody}
  /\ asked' = asked \cup {user}
  /\ UNCHANGED <<chain, server, user, mempool, rows, state, losses, switches, seen>>

FetchMempool ==
  /\ Address # Nobody
  /\ mempool' = [mempool EXCEPT ![Address] = {d \in sent : depth[d] = 0 /\ To[d] = Address}]
  /\ UNCHANGED <<chain, server, user, asked, rows, state, losses, switches, seen>>

FetchRows ==
  /\ user # Nobody
  /\ rows' = [rows EXCEPT ![user] =
       [d \in Deposits |-> IF To[d] = user /\ d \notin credited THEN table[d] ELSE 0]]
  /\ UNCHANGED <<chain, server, user, asked, mempool, state, losses, switches, seen>>

-----------------------------------------------------------------------------
(* MempoolAddressTracker.                                                  *)
SocketStep(i, from, to) ==
  /\ trackers[i].socket \in from
  /\ trackers' = [trackers EXCEPT ![i] = to]
  /\ UNCHANGED <<chain, server, user, queries, stored, cached, ran, switches, seen>>

Open(i) ==
  SocketStep(i, {"connecting"}, [trackers[i] EXCEPT !.socket = "open", !.delay = 1])
  /\ UNCHANGED losses

(* Fault: a connection that ends is not made again.                        *)
GiveUp(t) == [t EXCEPT !.socket = "none"]

(* onclose and scheduleReconnect; an error closes the socket.              *)
Reconnect(t) ==
  IF t.stopped THEN [t EXCEPT !.socket = "none"]
  ELSE [t EXCEPT !.socket = "none", !.timer = TRUE,
                 !.delay = IF 2 * @ < MaxDelay THEN 2 * @ ELSE MaxDelay]

Lose(i) ==
  /\ losses < MaxLosses /\ losses' = losses + 1
  /\ SocketStep(i, {"connecting", "open"}, Reconnect(trackers[i]))

Closed(i) == SocketStep(i, {"closing"}, Reconnect(trackers[i])) /\ UNCHANGED losses

Fire(i) ==
  /\ trackers[i].timer
  /\ trackers' = [trackers EXCEPT ![i].timer = FALSE,
       ![i].socket = IF trackers[i].stopped THEN @ ELSE "connecting"]
  /\ UNCHANGED <<chain, server, user, queries, stored, cached, ran, losses, switches, seen>>

-----------------------------------------------------------------------------
(* The chain, and the table the server keeps.                              *)
Send(d) ==
  /\ d \notin sent /\ sent' = sent \cup {d}
  /\ UNCHANGED <<depth, server, user, queries, state, losses, switches, seen>>

Block ==
  /\ \E d \in sent : depth[d] < MaxDepth
  /\ depth' = [d \in Deposits |-> IF d \in sent /\ depth[d] < MaxDepth
                                  THEN depth[d] + 1 ELSE depth[d]]
  /\ UNCHANGED <<sent, server, user, queries, state, losses, switches, seen>>

SyncDeposits ==
  /\ table' = [d \in Deposits |-> IF d \in credited THEN table[d] ELSE depth[d]]
  /\ credited' = credited \cup {d \in Deposits : table[d] >= Confirmations}
  /\ <<table, credited>>' # <<table, credited>>
  /\ UNCHANGED <<chain, user, queries, state, losses, switches, seen>>

Next ==
  \/ \E u \in Users \cup {Nobody} : Switch(u)
  \/ RunEffects \/ Look \/ FetchAddress \/ FetchMempool \/ FetchRows
  \/ \E i \in DOMAIN trackers : Open(i) \/ Lose(i) \/ Closed(i) \/ Fire(i)
  \/ \E d \in Deposits : Send(d)
  \/ Block \/ SyncDeposits

Spec == Init /\ [][Next]_vars

(* React renders, the server tells the address, the network comes back.    *)
FairSpec ==
  /\ Spec /\ WF_vars(RunEffects) /\ WF_vars(FetchAddress)
  /\ \A i \in 1 .. 3 * (MaxSwitches + 1) :
       WF_vars(i \in DOMAIN trackers /\ (Open(i) \/ Fire(i)))
-----------------------------------------------------------------------------
TypeOK ==
  /\ sent \subseteq Deposits /\ depth \in [Deposits -> Nat]
  /\ user \in Users \cup {Nobody} /\ cached \in Users \cup {Nobody}
  /\ stored \in [Users -> Users \cup {Nobody}] /\ mempool \in [Users -> SUBSET sent]
  /\ \A i \in DOMAIN trackers :
       /\ trackers[i].socket \in {"none", "connecting", "open", "closing"}
       /\ trackers[i].delay \in 1 .. MaxDelay
       /\ trackers[i].timer => trackers[i].socket = "none"

(* However the wallet switches between its accounts, an address kept in    *)
(* the browser is kept under its owner: it is shown to him before the      *)
(* server is asked (localStorage in usePendingDeposits).                   *)
StoredIsOwn == \A u \in Users : stored[u] \in {u, Nobody}

(* Once the effects have run, a user is shown nobody else's deposits.      *)
OnlyOwnShown == Settled => \A x \in Shown : user = To[x[1]]

(* One tracker is connected, or about to be, and to the address the window *)
(* shows; of those before it no timer is left and no socket stays open.    *)
OneTracker ==
  \A i \in DOMAIN trackers :
    LET t == trackers[i] IN
    \/ i = Len(trackers) /\ t.address = ran.address
    \/ t.stopped /\ ~t.timer /\ t.socket \in {"none", "closing"}

(* The address of a user who stays is watched in the end, through every    *)
(* loss of the connection ("The app watches your address automatically").  *)
WatchedInTheEnd ==
  \A u \in Users :
    (user = u) ~> (user # u \/ \E i \in DOMAIN trackers :
                                 trackers[i].address = u /\ trackers[i].socket = "open")

(* The documentation says that the panel shows the live confirmation       *)
(* count: no deposit is shown with two.                                    *)
OneCountPerDeposit == \A x, y \in Shown : x[1] = y[1] => x = y

(* ... and that it does so while the user waits.                           *)
CountWhileWaiting ==
  \A d \in seen \ credited :
    (Settled /\ user = To[d]) => \E x \in Shown : x[1] = d
=============================================================================
