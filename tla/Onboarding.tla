----------------------------- MODULE Onboarding -----------------------------
(***************************************************************************)
(* How a connected wallet comes to an account: useEnsureAccount, the modal *)
(* it steers, and create_account with its invite codes.                    *)
(*                                                                         *)
(* A run of the mutation checks the invite code kept in the session, asks  *)
(* for the message, has it signed, and sends it.  It goes on when the      *)
(* wallet is disconnected or another account takes its place, and writes   *)
(* the step of the modal that is there when it ends.  After every render   *)
(* React runs the effect (Effect), before the next event.                  *)
(*                                                                         *)
(* Nonces are left out: that of a wallet without an account changes only   *)
(* when the account is made, and then create_account refuses for another   *)
(* reason.  A message names the user and the invite code it was made for.  *)
(***************************************************************************)
EXTENDS Naturals, Sequences, FiniteSets

CONSTANTS
  Users, Codes,
  Friend,            \* the user who has an account to begin with
  Candidates,        \* Users -> Seq(Codes): generate_invite_code, by attempt
  MaxRuns, MaxConnections, MaxLinks, MaxPauses   \* bounds of the model

Nobody == "nobody"
NoCode == "no code"

OnboardingAssumption ==
  /\ Friend \in Users /\ Nobody \notin Users /\ NoCode \notin Codes
  /\ Candidates \in [Users -> Seq(Codes)] /\ Candidates[Friend] # <<>>
  /\ {MaxRuns, MaxConnections, MaxLinks, MaxPauses} \subseteq Nat

VARIABLES
  referrer,     \* profiles: who referred each user who has an account
  inviteCode,   \* their invite codes
  registry,     \* INVITE_CODE_REGISTRY
  paused, pauses,
  wallet, connection,   \* the connected user; wallets connected so far
  known,        \* what the account query holds for each user
  pauseKnown,   \* what the query of the flag holds
  attempted, step,
  session, links,       \* the invite code in sessionStorage; links followed
  runs,         \* [user, connection, code, at, gate, done]
  render        \* rendered, and the effect has not run

canister == <<referrer, inviteCode, registry>>
flag == <<paused, pauses>>
queries == <<known, pauseKnown>>
hook == <<attempted, step>>
link == <<session, links>>
vars == <<canister, flag, wallet, connection, queries, hook, link, runs, render>>

Registered == DOMAIN referrer

Init ==
  /\ referrer = [u \in {Friend} |-> Nobody]
  /\ inviteCode = [u \in {Friend} |-> Candidates[Friend][1]]
  /\ registry = [c \in {Candidates[Friend][1]} |-> Friend]
  /\ paused = FALSE /\ pauses = 0 /\ wallet = Nobody /\ connection = 0
  /\ known = [u \in Users |-> "unknown"] /\ pauseKnown = "unknown"
  /\ attempted = Nobody /\ step = "idle" /\ session = NoCode /\ links = 0
  /\ runs = <<>> /\ render = FALSE

-----------------------------------------------------------------------------
(* The user: Dynamic's wallet, links that carry an invite code, the modal. *)
Connect(u) ==
  /\ ~render /\ wallet # u
  /\ connection < MaxConnections /\ Len(runs) < MaxRuns
  /\ wallet' = u /\ connection' = connection + 1 /\ render' = TRUE
  /\ UNCHANGED <<canister, flag, queries, hook, link, runs>>

Disconnect ==
  /\ ~render /\ wallet # Nobody /\ wallet' = Nobody /\ render' = TRUE
  /\ UNCHANGED <<canister, flag, connection, queries, hook, link, runs>>

FollowLink(c) ==
  /\ ~render /\ links < MaxLinks /\ session' = c /\ links' = links + 1
  /\ UNCHANGED <<canister, flag, wallet, connection, queries, hook, runs, render>>

Close ==
  /\ ~render /\ wallet # Nobody /\ step \in {"error", "awaiting_signature"}
  /\ wallet' = Nobody /\ step' = "idle" /\ render' = TRUE
  /\ UNCHANGED <<canister, flag, connection, queries, attempted, link, runs>>

-----------------------------------------------------------------------------
(* Queries.  One that fails keeps the data it had; without data it counts  *)
(* as fetched all the same.                                                *)
Known == IF wallet = Nobody THEN "nothing" ELSE known[wallet]

FetchAccount ==
  /\ ~render /\ wallet # Nobody
  /\ known' = [known EXCEPT ![wallet] = IF wallet \in Registered THEN "account" ELSE "none"]
  /\ render' = TRUE
  /\ UNCHANGED <<canister, flag, wallet, connection, pauseKnown, hook, link, runs>>

FetchFails ==
  /\ ~render /\ Known = "unknown"
  /\ known' = [known EXCEPT ![wallet] = "failed"] /\ render' = TRUE
  /\ UNCHANGED <<canister, flag, wallet, connection, pauseKnown, hook, link, runs>>

(* A flag that cannot be read counts as not set.                           *)
FetchPauseMode ==
  /\ ~render /\ pauseKnown' \in {IF paused THEN "paused" ELSE "open"} \cup
                             (IF pauseKnown = "unknown" THEN {"open"} ELSE {})
  /\ render' = TRUE
  /\ UNCHANGED <<canister, flag, wallet, connection, known, hook, link, runs>>

TogglePause ==
  /\ pauses < MaxPauses /\ pauses' = pauses + 1 /\ paused' = ~paused
  /\ UNCHANGED <<canister, wallet, connection, queries, hook, link, runs, render>>

-----------------------------------------------------------------------------
(* The effect.                                                             *)

ShouldCreate ==
  pauseKnown = "open" /\ Known \in {"none", "failed"} /\ attempted # wallet

NothingToDo ==
  /\ \/ Known = "unknown"
     \/ Known \in {"none", "failed"} /\ (pauseKnown = "unknown" \/ (attempted = wallet /\ ~ShouldCreate))
  /\ UNCHANGED <<wallet, hook, runs>>

(* Fault: the attempt is not forgotten.                                   *)
SettleStep ==
  /\ Known \in {"nothing", "account"} /\ step' = "idle" /\ UNCHANGED <<attempted, wallet, runs>>

Settle ==
  /\ Known \in {"nothing", "account"}
  /\ attempted' = Nobody /\ step' = "idle" /\ UNCHANGED <<wallet, runs>>

TurnAway ==
  /\ Known \in {"none", "failed"} /\ pauseKnown = "paused" /\ attempted # wallet
  /\ attempted' = wallet /\ wallet' = Nobody /\ UNCHANGED <<step, runs>>

StartRun ==
  /\ ShouldCreate /\ Len(runs) < MaxRuns
  /\ attempted' = wallet /\ step' = "checking"
  /\ runs' = Append(runs, [user |-> wallet, connection |-> connection, code |-> session,
                           at |-> "checking", gate |-> "closed", done |-> "no"])
  /\ UNCHANGED wallet

Effect ==
  /\ render
  /\ NothingToDo \/ Settle \/ TurnAway \/ StartRun
  /\ render' = (<<wallet, hook>> # <<wallet', hook'>>)
  /\ UNCHANGED <<canister, flag, connection, queries, link>>

-----------------------------------------------------------------------------
(* A run of the mutation in the browser.                                   *)
Valid(c, u) == c = NoCode \/ (c \in DOMAIN registry /\ registry[c] # u /\ registry[c] \in Registered)

Move(r, at) == runs' = [runs EXCEPT ![r].at = at]

ValidateInviteCode(r) ==
  /\ ~render /\ runs[r].at = "checking" /\ Valid(runs[r].code, runs[r].user)
  /\ Move(r, "signing") /\ step' = "awaiting_signature" /\ render' = TRUE
  /\ UNCHANGED <<canister, flag, wallet, connection, queries, attempted, link>>

(* Refused or unanswered: whatever code the session has now is dropped.    *)
RejectInviteCode(r) ==
  /\ ~render /\ runs[r].at = "checking" /\ runs[r].code # NoCode
  /\ Move(r, "over") /\ step' = "error" /\ session' = NoCode /\ render' = TRUE
  /\ UNCHANGED <<canister, flag, wallet, connection, queries, attempted, links>>

Sign(r) ==
  /\ ~render /\ runs[r].at = "signing"
  /\ Move(r, "sent") /\ step' = "creating" /\ render' = TRUE
  /\ UNCHANGED <<canister, flag, wallet, connection, queries, attempted, link>>

(* Declined, refused, or the answer was lost.                              *)
Fail(r) ==
  /\ ~render /\ runs[r].at \in {"signing", "sent"}
  /\ Move(r, "over") /\ step' = "error" /\ render' = TRUE
  /\ UNCHANGED <<canister, flag, wallet, connection, queries, attempted, link>>

Succeed(r) ==
  /\ ~render /\ runs[r].at = "sent" /\ runs[r].done = "yes"
  /\ Move(r, "over") /\ step' = "done" /\ session' = NoCode /\ render' = TRUE
  /\ UNCHANGED <<canister, flag, wallet, connection, queries, attempted, links>>

-----------------------------------------------------------------------------
(* createAccount of the server, and create_account of the canister, which  *)
(* may come to it after the browser has given up.                          *)
AssertNotPaused(r) ==
  /\ runs[r].at \in {"sent", "over"} /\ runs[r].gate = "closed" /\ ~paused
  /\ runs' = [runs EXCEPT ![r].gate = "open"]
  /\ UNCHANGED <<canister, flag, wallet, connection, queries, hook, link, render>>

(* Fault: a code is taken for free without a look at the registry.         *)
FirstCandidate(u) == 1
FreeCandidate(u) ==
  LET free == {i \in DOMAIN Candidates[u] : Candidates[u][i] \notin DOMAIN registry} IN
  IF free = {} THEN 0 ELSE CHOOSE i \in free : \A j \in free : i <= j

Acceptable(r) == runs[r].user \notin Registered /\ Valid(runs[r].code, runs[r].user)

Extended(f, x, y) == [z \in DOMAIN f \cup {x} |-> IF z = x THEN y ELSE f[z]]

CreateAccount(r) ==
  LET q == runs[r]  i == FreeCandidate(q.user) IN
  /\ q.gate = "open" /\ q.done = "no"
  /\ IF Acceptable(r)
     THEN /\ referrer' = Extended(referrer, q.user,
                           IF q.code = NoCode THEN Nobody ELSE registry[q.code])
          /\ runs' = [runs EXCEPT ![r].done = "yes"]
          /\ IF i = 0
             THEN inviteCode' = Extended(inviteCode, q.user, NoCode) /\ UNCHANGED registry
             ELSE /\ inviteCode' = Extended(inviteCode, q.user, Candidates[q.user][i])
                  /\ registry' = Extended(registry, Candidates[q.user][i], q.user)
     ELSE runs' = [runs EXCEPT ![r].done = "refused"] /\ UNCHANGED canister
  /\ UNCHANGED <<flag, wallet, connection, queries, hook, link, render>>

Next ==
  \/ \E u \in Users : Connect(u)
  \/ \E c \in Codes : FollowLink(c)
  \/ Disconnect \/ Close \/ FetchAccount \/ FetchFails \/ FetchPauseMode \/ TogglePause
  \/ Effect
  \/ \E r \in DOMAIN runs :
       \/ ValidateInviteCode(r) \/ RejectInviteCode(r) \/ Sign(r) \/ Fail(r) \/ Succeed(r)
       \/ AssertNotPaused(r) \/ CreateAccount(r)

Spec == Init /\ [][Next]_vars

(* Effects run; queries are repeated and answered now and then; the server *)
(* or a time limit ends a request.                                         *)
FairSpec ==
  /\ Spec /\ WF_vars(Effect) /\ SF_vars(FetchAccount /\ known' # known)
  /\ SF_vars(FetchPauseMode /\ pauseKnown' # pauseKnown)
  /\ \A r \in 1 .. MaxRuns :
       SF_vars(r \in DOMAIN runs /\ (ValidateInviteCode(r) \/ RejectInviteCode(r) \/
                (runs[r].at = "sent" /\ Fail(r))))
-----------------------------------------------------------------------------
TypeOK ==
  /\ wallet \in Users \cup {Nobody} /\ attempted \in Users \cup {Nobody}
  /\ step \in {"idle", "checking", "awaiting_signature", "creating", "done", "error"}
  /\ session \in Codes \cup {NoCode} /\ pauseKnown \in {"unknown", "open", "paused"}
  /\ DOMAIN inviteCode = Registered /\ DOMAIN registry \subseteq Codes

(* However often React renders and the queries are repeated, a wallet is   *)
(* asked for one signature each time it is connected (attemptedAddressRef  *)
(* and the memo around it).                                                *)
OneAttemptPerConnection ==
  \A r, s \in DOMAIN runs : runs[r].connection = runs[s].connection => r = s

(* A run that made an account gave it the referrer its signature named,    *)
(* and no later run, of a retry or another window, changed that.           *)
ReferralAsSigned ==
  \A r \in DOMAIN runs : runs[r].done = "yes" =>
    LET c == runs[r].code  u == runs[r].user IN
    u \in Registered /\ referrer[u] = IF c = NoCode THEN Nobody ELSE registry[c]

(* An invite code leads to the one user who has it.                        *)
InviteCodesAgree ==
  /\ \A u \in Registered : inviteCode[u] # NoCode => registry[inviteCode[u]] = u
  /\ \A c \in DOMAIN registry : registry[c] \in Registered /\ inviteCode[registry[c]] = c

(* The modal does not stay open over a user who has an account, not even   *)
(* when the answer that made it was lost (useEnsureAccount).               *)
ClosedInTheEnd ==
  \A u \in Users : (wallet = u /\ u \in Registered) ~> (wallet # u \/ step \in {"idle", "done"})

Asked(n) ==
  \/ connection # n \/ wallet \in Registered \cup {Nobody}
  \/ pauseKnown # "open"
  \/ \E r \in DOMAIN runs : runs[r].connection = n

(* A user without an account who connects, again if need be, is asked to   *)
(* sign: always when no wallet was connected before, and when he takes the *)
(* place of another unless the attempt still remembered is his own         *)
(* (attemptedAddressRef, which a wallet that goes clears).                 *)
AskedWhenConnected ==
  \A n \in 1 .. MaxConnections :
    /\ <>(connection = n - 1 /\ wallet = Nobody /\ ~render) =>
         (connection = n /\ wallet # Nobody ~> Asked(n))
    /\ (connection = n /\ wallet \notin {Nobody, attempted}) ~> Asked(n)

(* messages/en.json, AccountCreation.errorDescription: "try again by       *)
(* reconnecting", whoever was connected in between.                        *)
AskedOnReturn ==
  \A n \in 1 .. MaxConnections : (connection = n /\ wallet # Nobody) ~> Asked(n)

(* A step the user cannot leave comes to an end.                           *)
StepsEnd == step \in {"checking", "creating"} ~> step \notin {"checking", "creating"}

(* docs/getting-started/connect-and-account.md:20: the app asks for a      *)
(* signature the first time a wallet connects.                             *)
AskedOnlyWithoutAccount ==
  [][Len(runs') > Len(runs) => runs'[Len(runs')].user \notin Registered]_vars

(* messages/en.json:6: "New accounts can't be created while trading is     *)
(* paused."                                                                *)
NoneWhilePaused == [][Registered' # Registered => ~paused]_vars
=============================================================================
