------------------------------ MODULE MCQueues ------------------------------
(***************************************************************************)
(* OneAtATime and its two users, WebhookIngest and OAuthToken, for TLC.    *)
(* They share no state, so a step of one changes nothing the properties of *)
(* another speak of: a behaviour is one of a single component, `part`, and *)
(* the others stand still.                                                 *)
(***************************************************************************)
EXTENDS OneAtATime

CONSTANTS
  Posts, Arrays, StreamLimit, None, Screens, Others, ClearBetween, MaxSaves,
  Polls, Incomplete, SaveBetween, MaxPastings, MaxRefreshes, MaxFaults

VARIABLES
  part,
  row, exists, drawn, task, posted, posting, accepted, disturbed,
  pasted, stored, poll, polled, polling, rotates, issued, faults, unkept, respent

Webhook == INSTANCE WebhookIngest WITH line <- posted, working <- posting
OAuth == INSTANCE OAuthToken WITH line <- polled, working <- polling

ASSUME QueuesAssumptions == Webhook!WebhookIngestAssumptions /\ OAuth!OAuthTokenAssumptions

webhookVars == <<row, exists, drawn, task, posted, posting, accepted, disturbed>>
oauthVars == <<pasted, stored, poll, polled, polling, rotates, issued, faults, unkept, respent>>
queuesVars == <<part, vars, webhookVars, oauthVars>>

QueuesInit ==
  /\ part \in {"lock", "webhook", "oauth"}
  /\ Init /\ Webhook!Init /\ OAuth!Init
  /\ part # "webhook" => row.strategy = "standard"
  /\ part # "oauth" => rotates

LockMoves == part = "lock" /\ Next /\ UNCHANGED <<part, webhookVars, oauthVars>>
WebhookMoves == part = "webhook" /\ Webhook!Next /\ UNCHANGED <<part, vars, oauthVars>>
OAuthMoves == part = "oauth" /\ OAuth!Next /\ UNCHANGED <<part, vars, webhookVars>>

QueuesSpec ==
  /\ QueuesInit
  /\ [][LockMoves \/ WebhookMoves \/ OAuthMoves]_queuesVars
  /\ \A r \in Runs : WF_vars(part = "lock" /\ (Work(r) \/ Settle(r) \/ Leave(r)))

\* Every POST takes effect on all that was stored before it, once (WebhookIngest).
PayloadSpec == Webhook!PayloadSpec
\* What is drawn last is what is stored (WebhookIngest).
DrawnIsStored == Webhook!DrawnIsStored
\* No token refreshed for the tokens of before is stored (OAuthToken).
StoredIsOfPasted == OAuth!StoredIsOfPasted
\* A spent refresh token is sent only once an answer could not be stored (OAuthToken).
SpentOnlyAfterUnkept == OAuth!SpentOnlyAfterUnkept
=============================================================================
