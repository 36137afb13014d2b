----------------------------- MODULE RemoteCall -----------------------------
(***************************************************************************)
(* What a call of HokusaiClient (packages/core/src/client.ts) promises its *)
(* caller: one that resolves resolves with something the server did for    *)
(* it, and calls that carry the same idempotency key have one effect       *)
(* between them.  A call that rejects promises nothing: the server may     *)
(* have acted on it, and may still do so.                                  *)
(***************************************************************************)
CONSTANTS
  Calls,
  Keys,     \* idempotency keys
  Effects,  \* what the server may do: records with a call and a key
  Unkeyed,  \* the key of a call without one
  None

VARIABLES
  asked,    \* the key a call was sent with, or None
  applied,  \* the effects the server has had
  outcome,  \* "open", "resolved" or "rejected"
  answer    \* the effect a resolved call resolved with, or None

vars == <<asked, applied, outcome, answer>>

Init ==
  /\ asked = [c \in Calls |-> None]
  /\ applied = {}
  /\ outcome = [c \in Calls |-> "open"]
  /\ answer = [c \in Calls |-> None]

SameKey(c, e) == e.key # Unkeyed /\ e.key = asked[c]

Ask(c, key) ==
  /\ asked[c] = None
  /\ outcome[c] = "open"
  /\ asked' = [asked EXCEPT ![c] = key]
  /\ UNCHANGED <<applied, outcome, answer>>

Apply(c, e) ==
  /\ asked[c] # None
  /\ e.call = c /\ e.key = asked[c]
  /\ ~ \E d \in applied : SameKey(c, d)
  /\ applied' = applied \cup {e}
  /\ UNCHANGED <<asked, outcome, answer>>

Resolve(c, e) ==
  /\ outcome[c] = "open"
  /\ e \in applied
  /\ e.call = c \/ SameKey(c, e)
  /\ outcome' = [outcome EXCEPT ![c] = "resolved"]
  /\ answer' = [answer EXCEPT ![c] = e]
  /\ UNCHANGED <<asked, applied>>

Reject(c) ==
  /\ outcome[c] = "open"
  /\ outcome' = [outcome EXCEPT ![c] = "rejected"]
  /\ UNCHANGED <<asked, applied, answer>>

Next ==
  \E c \in Calls :
    \/ \E key \in Keys \cup {Unkeyed} : Ask(c, key)
    \/ \E e \in Effects : Apply(c, e) \/ Resolve(c, e)
    \/ Reject(c)

Spec == Init /\ [][Next]_vars
=============================================================================
