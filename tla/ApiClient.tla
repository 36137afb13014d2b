----------------------------- MODULE ApiClient -----------------------------
(***************************************************************************)
(* HokusaiClient's calls, packages/core/src/client.ts: the retry loop of   *)
(* #send with the timeout and the caller's abort of executeRequest, over   *)
(* fetch and against a server.  A request the client gave up on may still  *)
(* reach the server and be acted on.                                       *)
(*                                                                         *)
(* External: fetch, which sends nothing for a signal already aborted; and  *)
(* the server, which has one effect for an Idempotency-Key.  Abstracted:   *)
(* payloads, delays and the wording of errors.                             *)
(***************************************************************************)
EXTENDS Naturals, FiniteSets

CONSTANTS
  Calls,       \* the calls made, each once
  MaxRetries,  \* how often a call is sent again
  CallerKeys,  \* values of metadata.idempotency_key
  Unkeyed,     \* the key of a call without one
  None

ASSUME RetryAssumption == MaxRetries \in Nat
ASSUME KeyAssumption == Unkeyed \notin CallerKeys
ASSUME NoneAssumption == None \notin CallerKeys \cup {Unkeyed}

Kinds == {"route", "telemetry", "contribution"}
Requests == [call : Calls, attempt : 0 .. MaxRetries]
Effects == [call : Calls, attempt : 0 .. MaxRetries, key : CallerKeys \cup {Unkeyed}]

Success == {"ok", "no_content"}
Retryable == {"rate_limited", "server_error"}
Statuses == Success \cup Retryable \cup {"client_error"}

VARIABLES
  call,     \* each call: its kind, key, state, attempt, and the answer it has
  aborted,  \* calls whose caller aborted its signal
  network,  \* requests sent that the server has not handled
  applied,  \* effects the server has had
  replies   \* responses under way to a call that waits for them

vars == <<call, aborted, network, applied, replies>>

States == {"idle", "waiting", "body", "backoff", "resolved", "rejected", "refused"}
Ended == {"resolved", "rejected", "refused"}

\* A call that was not made, or threw before its first request.
Unsent == {"idle", "refused"}

CallRecords ==
  [kind : Kinds \cup {None}, key : CallerKeys \cup {Unkeyed}, state : States,
   attempt : 0 .. MaxRetries, status : Statuses \cup {None},
   value : Effects \cup {None}]

TypeOK ==
  /\ call \in [Calls -> CallRecords]
  /\ aborted \subseteq Calls
  /\ network \subseteq Requests
  /\ applied \subseteq Effects
  /\ replies \subseteq
       [request : Requests, status : Statuses, value : Effects \cup {None}]

Init ==
  /\ call = [c \in Calls |->
       [kind |-> None, key |-> Unkeyed, state |-> "idle", attempt |-> 0,
        status |-> None, value |-> None]]
  /\ aborted = {}
  /\ network = {}
  /\ applied = {}
  /\ replies = {}

(***************************************************************************)
(* The client.                                                             *)
(***************************************************************************)
\* The key of a contribution is the caller's, which all attempts share: a request
\* whose key is blank does not validate, so that the request's id never stands in.
KeysFor(kind) == IF kind = "contribution" THEN CallerKeys ELSE {Unkeyed}

Request(c) == [call |-> c, attempt |-> call[c].attempt]

\* linkAbortSignals: an attempt made after the abort aborts before it is sent.
Send(c, n) ==
  network' = IF c \in aborted THEN network
             ELSE network \cup {[call |-> c, attempt |-> n]}

Begin(c, kind, key) ==
  /\ call[c].state = "idle"
  /\ call' = [call EXCEPT ![c] =
       [@ EXCEPT !.kind = kind, !.key = key, !.state = "waiting"]]
  /\ Send(c, 0)
  /\ UNCHANGED <<aborted, applied, replies>>

\* The request does not validate, or there is no API key or transport.
Refuse(c) ==
  /\ call[c].state = "idle"
  /\ call' = [call EXCEPT ![c].state = "refused"]
  /\ UNCHANGED <<aborted, network, applied, replies>>

Hangup(c) == replies' = {p \in replies : p.request.call # c}

MayRetry(c) == call[c].attempt < MaxRetries

\* An attempt ends without an answer the loop accepts: it waits and tries
\* again, or the call rejects with what went wrong last.
FailAttempt(c) ==
  /\ call' = [call EXCEPT ![c] =
       [@ EXCEPT !.state = IF MayRetry(c) THEN "backoff" ELSE "rejected",
                 !.status = None, !.value = None]]
  /\ Hangup(c)

\* The timeout fires or the connection fails before the status line.
GiveUp(c) ==
  /\ call[c].state = "waiting"
  /\ FailAttempt(c)
  /\ UNCHANGED <<aborted, network, applied>>

\* The caller aborts.  Only an attempt that waits for its status line listens;
\* a backoff runs to its end and the body of a response is read to its end.
Abort(c) ==
  /\ c \notin aborted
  /\ call[c].state \notin Ended
  /\ aborted' = aborted \cup {c}
  /\ IF call[c].state = "waiting" THEN FailAttempt(c) ELSE UNCHANGED <<call, replies>>
  /\ UNCHANGED <<network, applied>>

SameAttempt(c) == call[c].attempt

\* The next attempt of the loop.
NextAttempt(c) == call[c].attempt + 1

Retry(c) ==
  /\ call[c].state = "backoff"
  /\ call' = [call EXCEPT ![c] =
       [@ EXCEPT !.state = "waiting", !.attempt = NextAttempt(c)]]
  /\ Send(c, NextAttempt(c))
  /\ UNCHANGED <<aborted, applied, replies>>

\* The status line of the response to the attempt that waits.  It ends the
\* timeout; a telemetry call takes a 204 for an answer, all others go on to
\* read the body.
Receive(c) ==
  /\ call[c].state = "waiting"
  /\ \E p \in replies :
       /\ p.request = Request(c)
       /\ call' = [call EXCEPT ![c] =
            [@ EXCEPT !.state = IF p.status = "no_content" /\ call[c].kind = "telemetry"
                                THEN "resolved" ELSE "body",
                      !.status = p.status, !.value = p.value]]
       /\ replies' = replies \ {p}
  /\ UNCHANGED <<aborted, network, applied>>

AcceptedUnlessRefused(c) == call[c].status # "client_error"

Accepted(c) == call[c].status = "ok"

\* A success whose body is the response expected.
ReadBody(c) ==
  /\ call[c].state = "body" /\ Accepted(c)
  /\ call' = [call EXCEPT ![c].state = "resolved"]
  /\ UNCHANGED <<aborted, network, applied, replies>>

\* A success that is empty, malformed or invalid, or an error that is final.
ReadFinalError(c) ==
  /\ call[c].state = "body" /\ call[c].status \notin Retryable
  /\ call' = [call EXCEPT ![c].state = "rejected"]
  /\ UNCHANGED <<aborted, network, applied, replies>>

ReadRetryableError(c) ==
  /\ call[c].state = "body" /\ call[c].status \in Retryable
  /\ FailAttempt(c)
  /\ UNCHANGED <<aborted, network, applied>>

\* The connection fails within the body, of a success as of an error.
LoseBody(c) ==
  /\ call[c].state = "body"
  /\ FailAttempt(c)
  /\ UNCHANGED <<aborted, network, applied>>

(***************************************************************************)
(* The server.  It handles a request once, whether or not the client still *)
(* waits for it; an error of its own may come after the effect.            *)
(***************************************************************************)
HeaderKeyOfCall(r) == IF call[r.call].key = Unkeyed THEN Unkeyed ELSE r.call

HeaderKey(r) == call[r.call].key

Effect(r) == [call |-> r.call, attempt |-> r.attempt, key |-> HeaderKey(r)]

Earlier(r) == {e \in applied : HeaderKey(r) # Unkeyed /\ e.key = HeaderKey(r)}

EffectFor(r) ==
  IF Earlier(r) # {} THEN CHOOSE e \in Earlier(r) : TRUE ELSE Effect(r)

Awaited(r) == call[r.call].state = "waiting" /\ call[r.call].attempt = r.attempt

Respond(r, status, value) ==
  replies' = IF Awaited(r)
             THEN replies \cup {[request |-> r, status |-> status, value |-> value]}
             ELSE replies

Perform(r) ==
  /\ applied' = applied \cup {EffectFor(r)}
  /\ \/ \E status \in Success : Respond(r, status, EffectFor(r))
     \/ Respond(r, "server_error", None)

Decline(r) ==
  /\ \E status \in Statuses \ Success : Respond(r, status, None)
  /\ UNCHANGED applied

Serve(r) ==
  /\ r \in network
  /\ network' = network \ {r}
  /\ Perform(r) \/ Decline(r)
  /\ UNCHANGED <<call, aborted>>

Next ==
  \/ \E c \in Calls :
       \/ \E kind \in Kinds : \E key \in KeysFor(kind) : Begin(c, kind, key)
       \/ Refuse(c)
       \/ GiveUp(c) \/ Abort(c) \/ Retry(c)
       \/ Receive(c) \/ ReadBody(c) \/ ReadFinalError(c)
       \/ ReadRetryableError(c) \/ LoseBody(c)
  \/ \E r \in Requests : Serve(r)

\* Timers fire: a call that waits for a status line times out if nothing else
\* ends the wait, and a backoff ends.  Nothing bounds how long a body takes.
Spec ==
  /\ Init /\ [][Next]_vars
  /\ \A c \in Calls : WF_vars(GiveUp(c)) /\ WF_vars(Retry(c))

(***************************************************************************)
(* Properties.                                                             *)
(***************************************************************************)
\* One idempotency key has one effect, over the retries of a call and over
\* calls a caller made again with the same key, also when every response to
\* the first was lost.
KeyedOnce ==
  \A d, e \in applied :
    call[d.call].key # Unkeyed /\ call[d.call].key = call[e.call].key => d = e

\* Nothing is sent for a call after its caller aborted it, although the loop
\* takes the abort for a network failure and goes on to its next attempt.
AbortStopsSending ==
  [][\A r \in network' \ network : r.call \notin aborted]_vars

\* A call ends, unless the body of a response never does: the timeout covers
\* the wait for the status line and no more.
StopsTrying ==
  \A c \in Calls : <>[](call[c].state \in Ended \cup {"idle", "body"})

\* What a caller knows of its calls.
AskedKey(c) == IF call[c].state \in Unsent THEN None ELSE call[c].key

OutcomeOf(c) ==
  CASE call[c].state = "resolved" -> "resolved"
    [] call[c].state \in {"rejected", "refused"} -> "rejected"
    [] OTHER -> "open"

AnswerOf(c) == IF call[c].state = "resolved" THEN call[c].value ELSE None

Asked == [c \in Calls |-> AskedKey(c)]
Outcome == [c \in Calls |-> OutcomeOf(c)]
Answer == [c \in Calls |-> AnswerOf(c)]

Remote == INSTANCE RemoteCall
  WITH Keys <- CallerKeys, asked <- Asked, outcome <- Outcome, answer <- Answer

\* A call that resolves resolves with an effect the server had for it, in
\* spite of retries and of answers to earlier attempts that come late.
KeepsItsPromise == Remote!Spec
=============================================================================
