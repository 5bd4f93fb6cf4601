---------------------------- MODULE WebhookPayload ----------------------------
(***************************************************************************)
(* What the Webhook of one Plugin promises its senders: each POST takes    *)
(* effect at once, on all that was stored before it, and once; the admin   *)
(* empties what is stored.  A payload is the POSTs whose data is in it.    *)
(***************************************************************************)
EXTENDS Integers, Sequences

CONSTANTS
  Posts,
  Arrays,        \* the POSTs whose body is a JSON array or null, not an object
  StreamLimit

VARIABLES
  strategy,      \* the Merge Strategy, fixed when the Plugin was created
  data,          \* the Webhook Payload
  accepted       \* the POSTs that have taken effect

payloadVars == <<strategy, data, accepted>>

-----------------------------------------------------------------------------
\* appendStream's slice(-streamLimit)
Newest(posts) ==
  IF Len(posts) <= StreamLimit THEN posts ELSE SubSeq(posts, Len(posts) - StreamLimit + 1, Len(posts))

\* merge: an array replaces what is stored, and is replaced by what comes next
Merged(how, stored, p) ==
  LET isObject == stored # <<>> /\ stored[Len(stored)] \notin Arrays
      both == IF p \notin Arrays /\ isObject THEN Append(stored, p) ELSE <<p>>
  IN CASE how = "standard" -> <<p>>
       [] how = "deep_merge" -> both
       [] how = "stream" -> Newest(both)

Init == strategy \in {"standard", "deep_merge", "stream"} /\ data = <<>> /\ accepted = {}

Accept(p) ==
  /\ p \notin accepted
  /\ data' = Merged(strategy, data, p)
  /\ accepted' = accepted \cup {p}
  /\ UNCHANGED strategy

Clear == data' = <<>> /\ UNCHANGED <<strategy, accepted>>

Next == Clear \/ \E p \in Posts : Accept(p)

Spec == Init /\ [][Next]_payloadVars
===============================================================================
