----------------------------- MODULE OAuthToken -----------------------------
(***************************************************************************)
(* The access token the Data Sources of one OAuth Plugin poll with         *)
(* (plugin-oauth.service.ts): taken, and refreshed when due, one Data      *)
(* Source at a time; refreshed once more when a poll is refused with a     *)
(* 401.  Beside them the admin pastes other tokens, tokens age and expire, *)
(* answers get lost and the server crashes.  A pasting is a grant of the   *)
(* provider's; a token is a grant and its number within the grant.         *)
(***************************************************************************)
EXTENDS Integers, Sequences, FiniteSets

CONSTANTS
  Polls,          \* polls of Data Sources that may be under way at the same time
  Incomplete,     \* the pastings that lack a refresh token, a client id or its secret
  SaveBetween,    \* whether a save may come between a refresh's check and its update
  MaxPastings,    \* bound: how often tokens are pasted
  MaxRefreshes,   \* bound: refreshes of one grant; the provider refuses more
  MaxFaults       \* bound: lost answers and crashes

\* What a module that instantiates this one is to give it
OAuthTokenAssumptions ==
  /\ {MaxPastings, MaxRefreshes, MaxFaults} \subseteq Nat
  /\ Incomplete \subseteq Nat /\ SaveBetween \in BOOLEAN

VARIABLES
  pasted,     \* the pasting in the Field Values
  stored,     \* the Plugin's oauth columns
  poll,       \* each poll: where it stands and what it works on
  line, working,
  rotates,    \* provider: whether a refresh answers a new refresh token
  issued,     \* provider: how often a grant was refreshed
  faults,
  unkept,     \* history: the grants of which an accepted refresh's answer was not stored
  respent     \* history: the grants of which a spent refresh token was sent

provider == <<rotates, issued>>
vars == <<pasted, stored, poll, line, working, rotates, issued, faults, unkept, respent>>

ThePlugin == "plugin"
Line == INSTANCE FifoLock WITH Runs <- Polls, Keys <- {ThePlugin}

Grants == 0..MaxPastings
Absent == -1

-----------------------------------------------------------------------------
NoToken == [grant |-> Absent, access |-> 0, refresh |-> Absent, due |-> TRUE]
Idle == [pc |-> "idle", pasted |-> 0, lastTry |-> FALSE, token |-> NoToken]

Init ==
  /\ pasted = 0 /\ stored = NoToken
  /\ poll = [q \in Polls |-> Idle]
  /\ Line!Init
  /\ rotates \in BOOLEAN
  /\ issued = [g \in Grants |-> 0]
  /\ faults = 0 /\ unkept = {} /\ respent = {}

At(q, pc) == poll[q].pc = pc
Goto(q, pc) == poll' = [poll EXCEPT ![q].pc = pc]
Take(q, token, pc) == poll' = [poll EXCEPT ![q] = [@ EXCEPT !.token = token, !.pc = pc]]

-----------------------------------------------------------------------------
(* withAccessToken.                                                        *)

\* A tick, a render or a preview reads the Field Values, and polls with them.
Begin(q) ==
  /\ At(q, "idle")
  /\ poll' = [poll EXCEPT ![q] = [Idle EXCEPT !.pc = "ask", !.pasted = pasted]]
  /\ UNCHANGED <<pasted, stored, line, working, provider, faults, unkept, respent>>

Ask(q) ==
  /\ At(q, "ask")
  /\ Line!Join(q, ThePlugin)
  /\ Goto(q, "waiting")
  /\ UNCHANGED <<pasted, stored, provider, faults, unkept, respent>>

CanRefresh(q) == poll[q].pasted \notin Incomplete

\* due before the first try; refused, and nobody has refreshed since, before the last
RefreshNeeded(q) ==
  IF poll[q].lastTry
  THEN stored = NoToken \/ <<stored.grant, stored.access>> = <<poll[q].token.grant, poll[q].token.access>>
  ELSE CanRefresh(q) /\ stored.due

Turn(q) == Line!Begin(q, ThePlugin)

\* What the load answered is what the refresh goes by.
Load(q) ==
  /\ At(q, "waiting")
  /\ Turn(q)
  /\ Take(q, stored, IF ~RefreshNeeded(q) THEN "leave" ELSE IF CanRefresh(q) THEN "send" ELSE "fail")
  /\ UNCHANGED <<pasted, stored, provider, faults, unkept, respent>>

\* refreshCredentialsOf
RefreshToken(q) ==
  IF poll[q].token.refresh # Absent
  THEN <<poll[q].token.grant, poll[q].token.refresh>> ELSE <<poll[q].pasted, 0>>

\* The refresh token a grant's provider takes; of a rotating one, the last it answered.
Unspent(g) == <<g, IF rotates THEN issued[g] ELSE 0>>

\* refreshedTokenOf; a refresh token that is not answered stays what it was
Refreshed(q, g, due) ==
  [grant |-> g, access |-> issued[g] + 1, due |-> due,
   refresh |-> IF rotates THEN issued[g] + 1 ELSE poll[q].token.refresh]

\* The provider takes the refresh token, and answers new tokens, with an expiry
\* that may already be within the margin; the answer may be lost.
Send(q) ==
  /\ At(q, "send")
  /\ LET g == RefreshToken(q)[1] IN
     /\ RefreshToken(q) = Unspent(g)
     /\ issued[g] < MaxRefreshes
     /\ issued' = [issued EXCEPT ![g] = @ + 1]
     /\ \/ /\ \E due \in BOOLEAN : Take(q, Refreshed(q, g, due), "check")
           /\ UNCHANGED <<faults, unkept>>
        \/ /\ faults < MaxFaults /\ faults' = faults + 1
           /\ unkept' = unkept \cup {g}
           /\ Goto(q, "fail")
  /\ UNCHANGED <<pasted, stored, line, working, rotates, respent>>

\* The provider refuses, as a rotating one does a refresh token it has spent.
SendRefused(q) ==
  /\ At(q, "send")
  /\ respent' = IF RefreshToken(q) = Unspent(RefreshToken(q)[1]) THEN respent ELSE respent \cup {RefreshToken(q)[1]}
  /\ Goto(q, "fail")
  /\ UNCHANGED <<pasted, stored, line, working, provider, faults, unkept>>

\* Slip: not asked
AlwaysPasted(q) == TRUE
StillPasted(q) == pasted = poll[q].pasted

Check(q) ==
  /\ At(q, "check")
  /\ Goto(q, IF StillPasted(q) THEN "keep" ELSE "leave")
  /\ unkept' = IF StillPasted(q) THEN unkept ELSE unkept \cup {poll[q].token.grant}
  /\ UNCHANGED <<pasted, stored, line, working, provider, faults, respent>>

\* Slip: the refresh token that was answered is not kept
OldRefreshToken(q) == [poll[q].token EXCEPT !.refresh = stored.refresh]
Columns(q) == poll[q].token

Keep(q) ==
  /\ At(q, "keep")
  /\ stored' = Columns(q)
  /\ Goto(q, "leave")
  /\ UNCHANGED <<pasted, line, working, provider, faults, unkept, respent>>

\* A refresh that fails throws, and the poll with it.
Leave(q) ==
  /\ At(q, "leave") \/ At(q, "fail")
  /\ Line!Finish(q, ThePlugin)
  /\ IF At(q, "leave") THEN Goto(q, "poll") ELSE poll' = [poll EXCEPT ![q] = Idle]
  /\ UNCHANGED <<pasted, stored, provider, faults, unkept, respent>>

\* The poll is answered, or fails otherwise than with a 401.
PollEnds(q) ==
  /\ At(q, "poll")
  /\ poll' = [poll EXCEPT ![q] = Idle]
  /\ UNCHANGED <<pasted, stored, line, working, provider, faults, unkept, respent>>

LastTry(q) == [poll[q] EXCEPT !.pc = "waiting", !.lastTry = TRUE]

\* An access token has expired or was revoked, of which the columns tell nothing.
PollUnauthorized(q) ==
  /\ At(q, "poll")
  /\ IF poll[q].lastTry
     THEN poll' = [poll EXCEPT ![q] = Idle] /\ UNCHANGED <<line, working>>
     ELSE poll' = [poll EXCEPT ![q] = LastTry(q)] /\ Line!Join(q, ThePlugin)
  /\ UNCHANGED <<pasted, stored, provider, faults, unkept, respent>>

PollStep(q) ==
  \/ Ask(q) \/ Load(q) \/ Send(q) \/ SendRefused(q) \/ Check(q) \/ Keep(q) \/ Leave(q)
  \/ PollEnds(q) \/ PollUnauthorized(q)

-----------------------------------------------------------------------------
(* The admin, the clock, the provider, and the server.                     *)

\* PluginsService.update, with a pasted token changed: NO_REFRESHED_TOKEN
Paste ==
  /\ pasted < MaxPastings
  /\ SaveBetween \/ \A q \in Polls : ~At(q, "keep")
  /\ pasted' = pasted + 1
  /\ stored' = NoToken
  /\ UNCHANGED <<poll, line, working, provider, faults, unkept, respent>>

\* isDueForRefresh, once within sixty seconds of the expiry or after fifty minutes
TokenAges ==
  /\ stored # NoToken /\ ~stored.due
  /\ stored' = [stored EXCEPT !.due = TRUE]
  /\ UNCHANGED <<pasted, poll, line, working, provider, faults, unkept, respent>>

Crash ==
  /\ faults < MaxFaults
  /\ faults' = faults + 1
  /\ poll' = [q \in Polls |-> Idle]
  /\ line' = [k \in {ThePlugin} |-> <<>>] /\ working' = {}
  /\ unkept' = unkept \cup {poll[q].token.grant : q \in {r \in Polls : At(r, "check") \/ At(r, "keep")}}
  /\ UNCHANGED <<pasted, stored, provider, respent>>

Next ==
  \/ \E q \in Polls : Begin(q) \/ PollStep(q)
  \/ Paste \/ TokenAges \/ Crash

Spec == Init /\ [][Next]_vars

\* A query and a token request with its timeout of ten seconds settle.
FairSpec == Spec /\ \A q \in Polls : WF_vars(PollStep(q))

-----------------------------------------------------------------------------
(* What the code is to guarantee.                                          *)

\* What is stored is of the tokens that are pasted: a refresh "must not bring
\* back one issued for the old ones", and a stored token is the last answered.
StoredIsOfPasted ==
  stored # NoToken =>
    /\ stored.grant = pasted
    /\ (\A q \in Polls : ~At(q, "check") /\ ~At(q, "keep")) /\ pasted \notin unkept =>
         stored.access = issued[pasted]

\* Data Sources polling together "never send a refresh token a rotating provider
\* has already spent", as long as each answer of the grant could be stored.
SpentOnlyAfterUnkept == pasted \in respent => pasted \in unkept

=============================================================================
