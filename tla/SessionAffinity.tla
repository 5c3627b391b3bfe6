-------------------------- MODULE SessionAffinity --------------------------
(***************************************************************************)
(* What the account pool promises its callers, without entries, reference  *)
(* counts, gates, expiry or capacity: at most one request at a time works  *)
(* in a conversation, only that request may change the account the         *)
(* conversation is bound to, and a binding may be forgotten only while     *)
(* nobody works in the conversation.  AccountPool implements it.           *)
(***************************************************************************)
CONSTANTS Requests, Sessions, Profiles, None

VARIABLES
  holder,   \* the request that works in each conversation, or None
  account   \* the account each conversation is bound to, or None

affinityVars == <<holder, account>>

Init ==
  /\ holder = [s \in Sessions |-> None]
  /\ account = [s \in Sessions |-> None]

Admit(r, s) ==
  /\ holder[s] = None
  /\ \A t \in Sessions : holder[t] # r
  /\ holder' = [holder EXCEPT ![s] = r]
  /\ UNCHANGED account

Bind(s, p) ==
  /\ holder[s] # None
  /\ account' = [account EXCEPT ![s] = p]
  /\ UNCHANGED holder

Leave(s) ==
  /\ holder[s] # None
  /\ holder' = [holder EXCEPT ![s] = None]
  /\ UNCHANGED account

Forget(S) ==
  /\ \A s \in S : holder[s] = None
  /\ account' = [s \in Sessions |-> IF s \in S THEN None ELSE account[s]]
  /\ UNCHANGED holder

Next ==
  \/ \E r \in Requests, s \in Sessions : Admit(r, s)
  \/ \E s \in Sessions, p \in Profiles : Bind(s, p)
  \/ \E s \in Sessions : Leave(s)
  \/ \E S \in SUBSET Sessions : Forget(S)

Spec == Init /\ [][Next]_affinityVars
=============================================================================
