-------------------------- MODULE ApiClientProofs --------------------------
(***************************************************************************)
(* Proofs about the client's calls, for any number of calls, retries and   *)
(* keys.  The inductive invariant CInv says whose effect each reply tells  *)
(* of; from it follow that one key has one effect, and that the retry loop *)
(* against a server that forgets nothing implements RemoteCall.            *)
(***************************************************************************)
EXTENDS ApiClient, TLAPS

Answers(c, e) == e.call = c \/ (e.key # Unkeyed /\ e.key = call[c].key)

\* Everything sent, and every effect, is of a call that was made.
SentIsMade ==
  /\ \A r \in network : call[r.call].state \notin Unsent
  /\ \A p \in replies : call[p.request.call].state \notin Unsent
  /\ \A e \in applied : call[e.call].state \notin Unsent /\ e.key = call[e.call].key

\* A success tells of an effect the server had for the call it goes to.
RepliesTrue ==
  \A p \in replies :
    p.status \in Success => p.value \in applied /\ Answers(p.request.call, p.value)

BodiesTrue ==
  \A c \in Calls :
    call[c].state = "body" /\ call[c].status \in Success
    => call[c].value \in applied /\ Answers(c, call[c].value)

BackoffEnds ==
  \A c \in Calls : call[c].state = "backoff" => call[c].attempt < MaxRetries

CInv == TypeOK /\ BackoffEnds /\ SentIsMade /\ RepliesTrue /\ BodiesTrue /\ KeyedOnce

LEMMA InitCInv == Init => CInv
  BY RetryAssumption DEF Init, CInv, TypeOK, BackoffEnds, SentIsMade, RepliesTrue, BodiesTrue,
     KeyedOnce, CallRecords, Requests, Effects, Statuses, States, Kinds, Unsent

\* One call's record is replaced.
LEMMA CallUpdate ==
  ASSUME TypeOK, NEW c \in Calls, NEW now \in CallRecords,
         call' = [call EXCEPT ![c] = now]
  PROVE  call' \in [Calls -> CallRecords] /\ call'[c] = now
BY DEF TypeOK

USE DEF CallRecords, Ended, Unsent, Success, Retryable

(***************************************************************************)
(* Steps of one call.                                                      *)
(***************************************************************************)
\* A step of call c that has no effect on the server keeps the invariant when
\* it sends only for c and leaves c with no answer it was not given.
LEMMA CallStep ==
  ASSUME CInv, TypeOK', NEW c \in Calls,
         applied' = applied,
         replies' \subseteq replies,
         \A d \in Calls \ {c} : call'[d] = call[d],
         \/ call'[c].key = call[c].key
         \/ call[c].state \in Unsent,
         call[c].state \notin Unsent => call'[c].state \notin Unsent,
         \A r \in network' : r \in network \/ (r.call = c /\ call'[c].state \notin Unsent),
         call'[c].state = "backoff" => call'[c].attempt < MaxRetries,
         call'[c].state = "body" /\ call'[c].status \in Success
         => call'[c].value \in applied /\ Answers(c, call'[c].value) /\ call'[c].key = call[c].key
  PROVE  CInv'
<1>1. \A e \in applied : e.call \in Calls
  BY DEF CInv, TypeOK, Effects
<1>2. \A p \in replies : p.request.call \in Calls
  BY DEF CInv, TypeOK, Requests
<1>3. \A r \in network : r.call \in Calls
  BY DEF CInv, TypeOK, Requests
<1>4. \A e \in applied : call'[e.call].key = call[e.call].key
  BY <1>1 DEF CInv, SentIsMade
<1>5. SentIsMade'
  BY <1>1, <1>2, <1>3, <1>4 DEF CInv, SentIsMade
<1>6. RepliesTrue'
  <2> SUFFICES ASSUME NEW p \in replies', p.status \in Success
               PROVE  p.value \in applied' /\ Answers(p.request.call, p.value)'
    BY DEF RepliesTrue
  <2>1. p \in replies /\ p.request.call \in Calls
    BY <1>2
  <2>2. p.value \in applied /\ Answers(p.request.call, p.value)
    BY <2>1 DEF CInv, RepliesTrue
  <2>3. call'[p.request.call].key = call[p.request.call].key
    BY <2>1 DEF CInv, SentIsMade
  <2>. QED BY <2>2, <2>3 DEF Answers
<1>7. BodiesTrue'
  BY DEF CInv, BodiesTrue, Answers
<1>8. KeyedOnce'
  BY <1>4 DEF CInv, KeyedOnce
<1>9. BackoffEnds'
  BY DEF CInv, BackoffEnds
<1>. QED BY <1>5, <1>6, <1>7, <1>8, <1>9 DEF CInv

LEMMA FailAttemptType ==
  ASSUME TypeOK, NEW c \in Calls, FailAttempt(c), UNCHANGED <<network, applied>>,
         aborted' \subseteq Calls
  PROVE  /\ TypeOK'
         /\ call'[c].state \in {"backoff", "rejected"}
         /\ call'[c].state = "backoff" => call'[c].attempt < MaxRetries
         /\ call'[c].key = call[c].key
<1> DEFINE state == IF MayRetry(c) THEN "backoff" ELSE "rejected"
           now   == [call[c] EXCEPT !.state = state, !.status = None, !.value = None]
<1>1. state \in States /\ (state = "backoff" => MayRetry(c))
  BY DEF States
<1>2. call' = [call EXCEPT ![c] = now]
  BY DEF FailAttempt
<1> HIDE DEF state
<1>3. /\ now \in CallRecords
      /\ now.state = state /\ now.attempt = call[c].attempt /\ now.key = call[c].key
  <2>1. call[c] \in CallRecords
    BY DEF TypeOK
  <2>. QED BY <1>1, <2>1
<1> HIDE DEF now
<1>4. TypeOK'
  BY <1>2, <1>3, CallUpdate DEF TypeOK, FailAttempt, Hangup
<1>5. /\ call'[c].state = state /\ call'[c].attempt = call[c].attempt
      /\ call'[c].key = call[c].key
  BY <1>2, <1>3, CallUpdate
<1>. QED BY <1>1, <1>4, <1>5 DEF state, MayRetry

LEMMA FailAttemptKeeps ==
  ASSUME CInv, NEW c \in Calls, FailAttempt(c), UNCHANGED <<network, applied>>,
         aborted' \subseteq Calls
  PROVE  CInv'
<1>1. /\ TypeOK'
      /\ call'[c].state = "backoff" => call'[c].attempt < MaxRetries
  BY FailAttemptType DEF CInv
<1>2. call'[c].state \in {"backoff", "rejected"} /\ call'[c].key = call[c].key
  BY FailAttemptType DEF CInv
<1>3. \A d \in Calls \ {c} : call'[d] = call[d]
  BY DEF FailAttempt, CInv, TypeOK
<1>4. replies' \subseteq replies
  BY DEF FailAttempt, Hangup
<1>. QED BY <1>1, <1>2, <1>3, <1>4, CallStep

LEMMA BeginKeeps ==
  ASSUME CInv, NEW c \in Calls, NEW kind \in Kinds, NEW key \in KeysFor(kind),
         Begin(c, kind, key)
  PROVE  CInv'
<1>1. TypeOK'
  <2>1. key \in CallerKeys \cup {Unkeyed}
    BY DEF KeysFor
  <2>2. call' \in [Calls -> CallRecords]
    <3> DEFINE now == [call[c] EXCEPT !.kind = kind, !.key = key, !.state = "waiting"]
    <3>1. call[c] \in CallRecords /\ "waiting" \in States
      BY DEF CInv, TypeOK, States
    <3>2. now \in CallRecords
      BY <2>1, <3>1
    <3>3. call' = [call EXCEPT ![c] = now]
      BY DEF Begin
    <3> HIDE DEF CallRecords, now
    <3>. QED BY <3>2, <3>3, CallUpdate DEF CInv
  <2>3. network' \subseteq Requests
    BY RetryAssumption DEF CInv, TypeOK, Begin, Send, Requests
  <2>. QED BY <2>2, <2>3 DEF CInv, TypeOK, Begin
<1>2. call[c].state = "idle" /\ call'[c].state = "waiting"
  BY DEF Begin, CInv, TypeOK
<1>3. \A d \in Calls \ {c} : call'[d] = call[d]
  BY DEF Begin, CInv, TypeOK
<1>4. \A r \in network' : r \in network \/ r.call = c
  BY DEF Begin, Send
<1>. QED BY <1>1, <1>2, <1>3, <1>4, CallStep DEF Begin

LEMMA RefuseKeeps ==
  ASSUME CInv, NEW c \in Calls, Refuse(c)
  PROVE  CInv'
<1>1. TypeOK'
  BY DEF CInv, TypeOK, Refuse, States
<1>2. call[c].state = "idle" /\ call'[c].state = "refused" /\ call'[c].key = call[c].key
  BY DEF Refuse, CInv, TypeOK
<1>3. \A d \in Calls \ {c} : call'[d] = call[d]
  BY DEF Refuse, CInv, TypeOK
<1>. QED BY <1>1, <1>2, <1>3, CallStep DEF Refuse

LEMMA AbortKeeps ==
  ASSUME CInv, NEW c \in Calls, Abort(c)
  PROVE  CInv'
<1>1. CASE call[c].state = "waiting"
  BY <1>1, FailAttemptKeeps DEF Abort, CInv, TypeOK
<1>2. CASE call[c].state # "waiting"
  BY <1>2 DEF Abort, CInv, TypeOK, BackoffEnds, SentIsMade, RepliesTrue, BodiesTrue, KeyedOnce, Answers
<1>. QED BY <1>1, <1>2

LEMMA RetryKeeps ==
  ASSUME CInv, NEW c \in Calls, Retry(c)
  PROVE  CInv'
<1>1. call[c].attempt \in 0 .. MaxRetries /\ NextAttempt(c) \in 0 .. MaxRetries
  BY RetryAssumption DEF CInv, TypeOK, BackoffEnds, NextAttempt, Retry
<1>2. TypeOK'
  <2>1. call' \in [Calls -> CallRecords]
    <3> DEFINE now == [call[c] EXCEPT !.state = "waiting", !.attempt = NextAttempt(c)]
    <3>1. call[c] \in CallRecords /\ "waiting" \in States
      BY DEF CInv, TypeOK, States
    <3>2. now \in CallRecords
      BY <1>1, <3>1
    <3>3. call' = [call EXCEPT ![c] = now]
      BY DEF Retry
    <3> HIDE DEF CallRecords, now
    <3>. QED BY <3>2, <3>3, CallUpdate DEF CInv
  <2>2. network' \subseteq Requests
    BY <1>1 DEF CInv, TypeOK, Retry, Send, Requests
  <2>. QED BY <2>1, <2>2 DEF CInv, TypeOK, Retry
<1>3. call[c].state = "backoff" /\ call'[c].state = "waiting" /\ call'[c].key = call[c].key
  BY DEF Retry, CInv, TypeOK
<1>4. \A d \in Calls \ {c} : call'[d] = call[d]
  BY DEF Retry, CInv, TypeOK
<1>5. \A r \in network' : r \in network \/ r.call = c
  BY DEF Retry, Send
<1>. QED BY <1>2, <1>3, <1>4, <1>5, CallStep DEF Retry

LEMMA ReceiveKeeps ==
  ASSUME CInv, NEW c \in Calls, Receive(c)
  PROVE  CInv'
<1> DEFINE StateOn(p) == IF p.status = "no_content" /\ call[c].kind = "telemetry"
                         THEN "resolved" ELSE "body"
<1>0. PICK p \in replies :
        /\ p.request = Request(c)
        /\ call' = [call EXCEPT ![c] =
             [call[c] EXCEPT !.state = StateOn(p), !.status = p.status, !.value = p.value]]
        /\ replies' = replies \ {p}
  BY DEF Receive
<1> DEFINE state == StateOn(p)
<1>1. /\ state \in {"resolved", "body"}
      /\ p.request = Request(c)
      /\ call' = [call EXCEPT ![c] =
           [call[c] EXCEPT !.state = state, !.status = p.status, !.value = p.value]]
      /\ replies' = replies \ {p}
  BY <1>0
<1> HIDE DEF state, StateOn
<1>2. /\ call[c].state = "waiting" /\ p.request.call = c
      /\ p.status \in Statuses /\ p.value \in Effects \cup {None}
  BY <1>1 DEF Receive, Request, CInv, TypeOK
<1>3. TypeOK'
  <2>1. UNCHANGED <<aborted, network, applied>>
    BY DEF Receive
  <2>2. call' \in [Calls -> CallRecords]
    <3> DEFINE now == [call[c] EXCEPT !.state = state, !.status = p.status, !.value = p.value]
    <3>1. call[c] \in CallRecords /\ state \in States
      BY <1>1 DEF CInv, TypeOK, States
    <3>2. now \in CallRecords
      BY <1>2, <3>1
    <3>3. call' = [call EXCEPT ![c] = now]
      BY <1>1
    <3> HIDE DEF CallRecords, now
    <3>. QED BY <3>2, <3>3, CallUpdate DEF CInv
  <2>. QED BY <1>1, <2>1, <2>2 DEF CInv, TypeOK
<1>4. /\ call'[c].state = state /\ call'[c].key = call[c].key
      /\ call'[c].status = p.status /\ call'[c].value = p.value
  BY <1>1 DEF CInv, TypeOK
<1>5. \A d \in Calls \ {c} : call'[d] = call[d]
  BY <1>1 DEF CInv, TypeOK
<1>6. p.status \in Success => p.value \in applied /\ Answers(c, p.value)
  BY <1>1, <1>2 DEF CInv, RepliesTrue
<1>. QED BY <1>1, <1>2, <1>3, <1>4, <1>5, <1>6, CallStep DEF Receive

\* A call that ends on the answer it has.
LEMMA EndKeeps ==
  ASSUME CInv, NEW c \in Calls, ReadBody(c) \/ ReadFinalError(c)
  PROVE  CInv'
<1>1. PICK state \in {"resolved", "rejected"} : call' = [call EXCEPT ![c].state = state]
  BY DEF ReadBody, ReadFinalError
<1>2. UNCHANGED <<aborted, network, applied, replies>>
  BY DEF ReadBody, ReadFinalError
<1>3. TypeOK'
  BY <1>1, <1>2 DEF CInv, TypeOK, States
<1>4. call'[c].state = state /\ call'[c].key = call[c].key
  BY <1>1 DEF CInv, TypeOK
<1>5. \A d \in Calls \ {c} : call'[d] = call[d]
  BY <1>1 DEF CInv, TypeOK
<1>. QED BY <1>2, <1>3, <1>4, <1>5, CallStep

(***************************************************************************)
(* Steps of the server.                                                    *)
(***************************************************************************)
\* What the server answers a request with is an effect for its call.
LEMMA EffectAnswers ==
  ASSUME CInv, NEW r \in network
  PROVE  /\ r.call \in Calls
         /\ EffectFor(r) \in Effects
         /\ Answers(r.call, EffectFor(r))
         /\ \/ EffectFor(r) \in applied
            \/ EffectFor(r) = Effect(r) /\ Earlier(r) = {}
<1>1. r \in Requests /\ r.call \in Calls
  BY DEF CInv, TypeOK, Requests
<1>2. Effect(r) \in Effects /\ Effect(r).call = r.call
  BY <1>1 DEF Effect, HeaderKey, Effects, Requests, CInv, TypeOK
<1>3. CASE Earlier(r) = {}
  BY <1>1, <1>2, <1>3 DEF EffectFor, Answers
<1>4. CASE Earlier(r) # {}
  <2>1. EffectFor(r) \in Earlier(r)
    BY <1>4 DEF EffectFor
  <2>. QED BY <1>1, <2>1 DEF Earlier, Answers, HeaderKey, CInv, TypeOK
<1>. QED BY <1>3, <1>4

LEMMA ServeKeeps ==
  ASSUME CInv, NEW r \in Requests, Serve(r)
  PROVE  CInv'
<1> DEFINE e == EffectFor(r)
<1>0. r \in network /\ UNCHANGED <<call, aborted>> /\ network' = network \ {r}
  BY DEF Serve
<1>1. /\ r.call \in Calls /\ e \in Effects /\ Answers(r.call, e)
      /\ e \in applied \/ (e = Effect(r) /\ Earlier(r) = {})
  BY <1>0, EffectAnswers
<1>2. call[r.call].state \notin Unsent
  BY <1>0 DEF CInv, SentIsMade
<1> HIDE DEF e
<1>3. PICK status \in Statuses, value \in {e, None} :
        /\ Respond(r, status, value)
        /\ status \in Success => value = e /\ applied' = applied \cup {e}
        /\ applied' = applied \/ applied' = applied \cup {e}
  BY DEF Serve, Perform, Decline, Statuses, e
<1>4. applied \subseteq applied' /\ applied' \subseteq applied \cup {e}
  BY <1>3
<1>5. replies' \subseteq replies \cup {[request |-> r, status |-> status, value |-> value]}
  BY <1>3 DEF Respond
<1>6. TypeOK'
  BY <1>0, <1>1, <1>3, <1>4, <1>5 DEF CInv, TypeOK
<1>7. SentIsMade'
  <2>1. \A d \in applied' \ applied : d.call = r.call /\ d.key = call[r.call].key
    BY <1>1, <1>4 DEF Effect, HeaderKey
  <2>2. \A p \in replies' \ replies : p.request = r
    BY <1>5
  <2>. QED BY <1>0, <1>2, <2>1, <2>2 DEF CInv, SentIsMade
<1>8. RepliesTrue'
  <2> SUFFICES ASSUME NEW p \in replies', p.status \in Success
               PROVE  p.value \in applied' /\ Answers(p.request.call, p.value)
    BY <1>0 DEF RepliesTrue, Answers
  <2>1. CASE p \in replies
    BY <1>4, <2>1 DEF CInv, RepliesTrue
  <2>2. CASE p \notin replies
    BY <1>1, <1>3, <1>5, <2>2
  <2>. QED BY <2>1, <2>2
<1>9. BodiesTrue'
  BY <1>0, <1>4 DEF CInv, BodiesTrue, Answers
<1>10. KeyedOnce'
  <2>1. CASE e \in applied
    BY <1>0, <1>4, <2>1 DEF CInv, KeyedOnce
  <2>2. CASE e = Effect(r) /\ Earlier(r) = {}
    <3>1. e.call = r.call
      BY <2>2 DEF Effect
    <3>2. \A d \in applied : call[d.call].key # Unkeyed => call[d.call].key # call[r.call].key
      BY <2>2 DEF Earlier, HeaderKey, CInv, SentIsMade
    <3>. QED BY <1>0, <1>4, <3>1, <3>2 DEF CInv, KeyedOnce
  <2>. QED BY <1>1, <2>1, <2>2
<1>11. BackoffEnds'
  BY <1>0 DEF CInv, BackoffEnds
<1>. QED BY <1>6, <1>7, <1>8, <1>9, <1>10, <1>11 DEF CInv

(***************************************************************************)
(* The invariant.                                                          *)
(***************************************************************************)
LEMMA NextKeeps == CInv /\ [Next]_vars => CInv'
<1> SUFFICES ASSUME CInv, [Next]_vars PROVE CInv'
  OBVIOUS
<1>1. ASSUME NEW c \in Calls, NEW kind \in Kinds, NEW key \in KeysFor(kind),
             Begin(c, kind, key)
      PROVE  CInv'
  BY <1>1, BeginKeeps
<1>2. ASSUME NEW c \in Calls, Refuse(c) PROVE CInv'
  BY <1>2, RefuseKeeps
<1>3. ASSUME NEW c \in Calls, GiveUp(c) \/ ReadRetryableError(c) \/ LoseBody(c)
      PROVE  CInv'
  <2>1. FailAttempt(c) /\ UNCHANGED <<aborted, network, applied>>
    BY <1>3 DEF GiveUp, ReadRetryableError, LoseBody
  <2>. QED BY <2>1, FailAttemptKeeps DEF CInv, TypeOK
<1>4. ASSUME NEW c \in Calls, Abort(c) PROVE CInv'
  BY <1>4, AbortKeeps
<1>5. ASSUME NEW c \in Calls, Retry(c) PROVE CInv'
  BY <1>5, RetryKeeps
<1>6. ASSUME NEW c \in Calls, Receive(c) PROVE CInv'
  BY <1>6, ReceiveKeeps
<1>7. ASSUME NEW c \in Calls, ReadBody(c) \/ ReadFinalError(c) PROVE CInv'
  BY <1>7, EndKeeps
<1>8. ASSUME NEW r \in Requests, Serve(r) PROVE CInv'
  BY <1>8, ServeKeeps
<1>9. CASE UNCHANGED vars
  BY <1>9 DEF vars, CInv, TypeOK, BackoffEnds, SentIsMade, RepliesTrue, BodiesTrue,
     KeyedOnce, Answers
<1>. QED BY <1>1, <1>2, <1>3, <1>4, <1>5, <1>6, <1>7, <1>8, <1>9 DEF Next

\* Whose effect every reply tells of, at every moment and for any number of
\* calls and retries: the invariant the other results follow from.
THEOREM ClientInvariant == Spec => []CInv
<1>. QED BY InitCInv, NextKeeps, PTL DEF Spec

\* The state of the client is well typed; attempt never exceeds MaxRetries, so
\* that a call sends at most MaxRetries + 1 requests.
THEOREM TypeCorrect == Spec => []TypeOK
<1>1. CInv => TypeOK
  BY DEF CInv
<1>. QED BY <1>1, ClientInvariant, PTL

\* One idempotency key has one effect, over all the retries of all the calls
\* that carry it.
THEOREM OneEffectPerKey == Spec => []KeyedOnce
<1>1. CInv => KeyedOnce
  BY DEF CInv
<1>. QED BY <1>1, ClientInvariant, PTL

\* After the caller aborted a call no request of it is sent: the attempts the
\* loop still makes end before fetch sends anything.
THEOREM AbortIsQuiet == Spec => AbortStopsSending
<1>1. [Next]_vars => [\A r \in network' \ network : r.call \notin aborted]_vars
  <2> SUFFICES ASSUME Next, NEW r \in network' \ network PROVE r.call \notin aborted
    BY DEF vars
  <2>1. ASSUME NEW c \in Calls, NEW n, Send(c, n) PROVE r.call \notin aborted
    BY <2>1 DEF Send
  <2>. QED BY <2>1 DEF Next, Begin, Refuse, GiveUp, Abort, Retry, Receive, ReadBody,
          ReadFinalError, ReadRetryableError, LoseBody, Serve
<1>. QED BY <1>1, PTL DEF Spec, AbortStopsSending

(***************************************************************************)
(* The client implements RemoteCall.                                       *)
(***************************************************************************)
\* A step of call c shows in what c's caller knows and nowhere else.
LEMMA CallShows ==
  ASSUME NEW c \in Calls, \A d \in Calls \ {c} : call'[d] = call[d]
  PROVE  /\ Asked' = [Asked EXCEPT ![c] = AskedKey(c)']
         /\ Outcome' = [Outcome EXCEPT ![c] = OutcomeOf(c)']
         /\ Answer' = [Answer EXCEPT ![c] = AnswerOf(c)']
<1>1. \A d \in Calls \ {c} :
        /\ AskedKey(d)' = AskedKey(d)
        /\ OutcomeOf(d)' = OutcomeOf(d)
        /\ AnswerOf(d)' = AnswerOf(d)
  BY DEF AskedKey, OutcomeOf, AnswerOf
<1>. QED BY <1>1 DEF Asked, Outcome, Answer

LEMMA Reads ==
  ASSUME NEW c \in Calls
  PROVE  Asked[c] = AskedKey(c) /\ Outcome[c] = OutcomeOf(c) /\ Answer[c] = AnswerOf(c)
BY DEF Asked, Outcome, Answer

\* A call goes on, rejects or resolves; the server's effects stay.
LEMMA CallRefines ==
  ASSUME CInv, NEW c \in Calls, applied' = applied,
         \A d \in Calls \ {c} : call'[d] = call[d],
         AskedKey(c)' = AskedKey(c),
         OutcomeOf(c) = "open",
         \/ OutcomeOf(c)' = "open" /\ AnswerOf(c)' = AnswerOf(c)
         \/ OutcomeOf(c)' = "rejected" /\ AnswerOf(c)' = AnswerOf(c)
         \/ /\ OutcomeOf(c)' = "resolved"
            /\ AnswerOf(c)' \in applied
            /\ Answers(c, AnswerOf(c)')
            /\ AskedKey(c) = call[c].key
  PROVE  [Remote!Next]_Remote!vars
<1>1. /\ Asked' = Asked
      /\ Outcome' = [Outcome EXCEPT ![c] = OutcomeOf(c)']
      /\ Answer' = [Answer EXCEPT ![c] = AnswerOf(c)']
  BY CallShows, Reads DEF Asked
<1>2. Outcome[c] = "open" /\ Answer[c] = AnswerOf(c) /\ Asked[c] = AskedKey(c)
  BY Reads
<1>3. CASE OutcomeOf(c)' = "open" /\ AnswerOf(c)' = AnswerOf(c)
  <2>1. Outcome' = Outcome /\ Answer' = Answer
    BY <1>1, <1>2, <1>3 DEF Outcome, Answer
  <2>. QED BY <1>1, <2>1 DEF Remote!vars
<1>4. CASE OutcomeOf(c)' = "rejected" /\ AnswerOf(c)' = AnswerOf(c)
  <2>1. Answer' = Answer
    BY <1>1, <1>2, <1>4 DEF Answer
  <2>2. Remote!Reject(c)
    BY <1>1, <1>2, <1>4, <2>1 DEF Remote!Reject
  <2>. QED BY <2>2 DEF Remote!Next
<1>5. CASE /\ OutcomeOf(c)' = "resolved"
           /\ AnswerOf(c)' \in applied
           /\ Answers(c, AnswerOf(c)')
           /\ AskedKey(c) = call[c].key
  <2> DEFINE e == AnswerOf(c)'
  <2>1. e \in Effects
    BY <1>5 DEF CInv, TypeOK
  <2>2. e.call = c \/ Remote!SameKey(c, e)
    BY <1>2, <1>5 DEF Answers, Remote!SameKey
  <2> HIDE DEF e
  <2>3. e \in applied /\ Outcome' = [Outcome EXCEPT ![c] = "resolved"]
        /\ Answer' = [Answer EXCEPT ![c] = e]
    BY <1>1, <1>5 DEF e
  <2>4. Remote!Resolve(c, e)
    BY <1>1, <1>2, <2>2, <2>3 DEF Remote!Resolve
  <2>. QED BY <2>1, <2>4 DEF Remote!Next
<1>. QED BY <1>3, <1>4, <1>5

LEMMA BeginRefines ==
  ASSUME CInv, NEW c \in Calls, NEW kind \in Kinds, NEW key \in KeysFor(kind),
         Begin(c, kind, key)
  PROVE  Remote!Next
<1>1. call[c].state = "idle" /\ call'[c].state = "waiting" /\ call'[c].key = key
  BY DEF Begin, CInv, TypeOK
<1>2. \A d \in Calls \ {c} : call'[d] = call[d]
  BY DEF Begin, CInv, TypeOK
<1>3. /\ AskedKey(c) = None /\ AskedKey(c)' = key
      /\ OutcomeOf(c) = "open" /\ OutcomeOf(c)' = "open"
      /\ AnswerOf(c)' = AnswerOf(c)
  BY <1>1 DEF AskedKey, OutcomeOf, AnswerOf
<1>4. Outcome' = Outcome /\ Answer' = Answer
  BY <1>2, <1>3, CallShows, Reads DEF Outcome, Answer
<1>5. key \in CallerKeys \cup {Unkeyed}
  BY DEF KeysFor
<1>6. Remote!Ask(c, key)
  BY <1>2, <1>3, <1>4, CallShows, Reads DEF Remote!Ask, Begin
<1>. QED BY <1>5, <1>6 DEF Remote!Next

LEMMA ServeRefines ==
  ASSUME CInv, NEW r \in Requests, Serve(r)
  PROVE  [Remote!Next]_Remote!vars
<1>0. r \in network /\ call' = call
  BY DEF Serve
<1>1. Asked' = Asked /\ Outcome' = Outcome /\ Answer' = Answer
  BY <1>0 DEF Asked, Outcome, Answer, AskedKey, OutcomeOf, AnswerOf
<1>2. CASE applied' = applied
  BY <1>1, <1>2 DEF Remote!vars
<1>3. CASE applied' # applied
  <2> DEFINE c == r.call
             e == EffectFor(r)
  <2>1. applied' = applied \cup {e} /\ e \notin applied
    BY <1>3 DEF Serve, Perform, Decline
  <2>2. c \in Calls /\ e = Effect(r) /\ Earlier(r) = {} /\ e \in Effects
    BY <1>0, <2>1, EffectAnswers
  <2>3. e.call = c /\ e.key = call[c].key
    BY <2>2 DEF Effect, HeaderKey
  <2>4. Asked[c] = call[c].key
    BY <1>0, <2>2, Reads DEF AskedKey, CInv, SentIsMade
  <2>5. call[c].key # None
    BY <2>2, NoneAssumption DEF CInv, TypeOK
  <2>6. ~ \E d \in applied : Remote!SameKey(c, d)
    BY <2>2, <2>4 DEF Remote!SameKey, Earlier, HeaderKey
  <2> HIDE DEF e, c
  <2>7. Remote!Apply(c, e)
    BY <1>1, <2>1, <2>3, <2>4, <2>5, <2>6 DEF Remote!Apply
  <2>. QED BY <2>2, <2>7 DEF Remote!Next
<1>. QED BY <1>2, <1>3

\* An attempt that fails leaves its call open or rejects it.
LEMMA FailAttemptRefines ==
  ASSUME CInv, NEW c \in Calls, FailAttempt(c), UNCHANGED <<network, applied>>,
         aborted' \subseteq Calls, call[c].state \in {"waiting", "body"}
  PROVE  [Remote!Next]_Remote!vars
<1>1. call'[c].state \in {"backoff", "rejected"} /\ call'[c].key = call[c].key
  BY FailAttemptType DEF CInv
<1>2. \A d \in Calls \ {c} : call'[d] = call[d]
  BY DEF FailAttempt, CInv, TypeOK
<1>3. /\ AskedKey(c)' = AskedKey(c) /\ AnswerOf(c)' = AnswerOf(c)
      /\ OutcomeOf(c) = "open" /\ OutcomeOf(c)' \in {"open", "rejected"}
  BY <1>1 DEF AskedKey, AnswerOf, OutcomeOf
<1>. QED BY <1>2, <1>3, CallRefines

\* A call that only changes state between two states it is open in.
LEMMA StaysOpen ==
  ASSUME CInv, NEW c \in Calls, applied' = applied,
         \A d \in Calls \ {c} : call'[d] = call[d],
         call'[c].key = call[c].key,
         call[c].state \in {"waiting", "body", "backoff"},
         call'[c].state \in {"waiting", "body", "backoff"}
  PROVE  [Remote!Next]_Remote!vars
<1>1. /\ AskedKey(c)' = AskedKey(c) /\ AnswerOf(c)' = AnswerOf(c)
      /\ OutcomeOf(c) = "open" /\ OutcomeOf(c)' = "open"
  BY DEF AskedKey, AnswerOf, OutcomeOf
<1>. QED BY <1>1, CallRefines

\* A call that ends on an answer: with it when it resolves.
LEMMA EndRefines ==
  ASSUME CInv, NEW c \in Calls, applied' = applied,
         \A d \in Calls \ {c} : call'[d] = call[d],
         call'[c].key = call[c].key,
         call[c].state \in {"idle", "waiting", "body"},
         \/ call[c].state = "idle" /\ call'[c].state = "refused"
         \/ call[c].state # "idle" /\ call'[c].state = "rejected"
         \/ /\ call[c].state # "idle" /\ call'[c].state = "resolved"
            /\ call'[c].value \in applied /\ Answers(c, call'[c].value)
  PROVE  [Remote!Next]_Remote!vars
<1>1. AskedKey(c)' = AskedKey(c) /\ OutcomeOf(c) = "open"
  BY DEF AskedKey, OutcomeOf
<1>2. \/ OutcomeOf(c)' = "rejected" /\ AnswerOf(c)' = AnswerOf(c)
      \/ /\ OutcomeOf(c)' = "resolved" /\ AnswerOf(c)' \in applied
         /\ Answers(c, AnswerOf(c)') /\ AskedKey(c) = call[c].key
  BY DEF AskedKey, OutcomeOf, AnswerOf
<1>. QED BY <1>1, <1>2, CallRefines

LEMMA ReceiveRefines ==
  ASSUME CInv, NEW c \in Calls, Receive(c)
  PROVE  [Remote!Next]_Remote!vars
<1>1. PICK p \in replies, state \in {"resolved", "body"} :
        /\ p.request = Request(c)
        /\ state = "resolved" => p.status = "no_content"
        /\ call' = [call EXCEPT ![c] =
             [call[c] EXCEPT !.state = state, !.status = p.status, !.value = p.value]]
  BY DEF Receive
<1>2. call[c].state = "waiting" /\ applied' = applied /\ p.request.call = c
  BY <1>1 DEF Receive, Request
<1>3. /\ call'[c].state = state /\ call'[c].key = call[c].key
      /\ call'[c].value = p.value
  BY <1>1 DEF CInv, TypeOK
<1>4. \A d \in Calls \ {c} : call'[d] = call[d]
  BY <1>1 DEF CInv, TypeOK
<1>5. CASE state = "body"
  BY <1>2, <1>3, <1>4, <1>5, StaysOpen
<1>6. CASE state = "resolved"
  <2>1. p.value \in applied /\ Answers(c, p.value)
    BY <1>1, <1>2, <1>6 DEF CInv, RepliesTrue
  <2>. QED BY <1>2, <1>3, <1>4, <1>6, <2>1, EndRefines
<1>. QED BY <1>5, <1>6

LEMMA StepRefines == CInv /\ [Next]_vars => [Remote!Next]_Remote!vars
<1> SUFFICES ASSUME CInv, [Next]_vars PROVE [Remote!Next]_Remote!vars
  OBVIOUS
<1>1. ASSUME NEW c \in Calls, NEW kind \in Kinds, NEW key \in KeysFor(kind),
             Begin(c, kind, key)
      PROVE  Remote!Next
  BY <1>1, BeginRefines
<1>2. ASSUME NEW c \in Calls, Refuse(c) PROVE [Remote!Next]_Remote!vars
  BY <1>2, EndRefines DEF Refuse, CInv, TypeOK
<1>3. ASSUME NEW c \in Calls, GiveUp(c) \/ ReadRetryableError(c) \/ LoseBody(c)
      PROVE  [Remote!Next]_Remote!vars
  <2>1. /\ FailAttempt(c) /\ UNCHANGED <<aborted, network, applied>>
        /\ call[c].state \in {"waiting", "body"}
    BY <1>3 DEF GiveUp, ReadRetryableError, LoseBody
  <2>. QED BY <2>1, FailAttemptRefines DEF CInv, TypeOK
<1>4. ASSUME NEW c \in Calls, Abort(c) PROVE [Remote!Next]_Remote!vars
  <2>1. CASE call[c].state = "waiting"
    BY <1>4, <2>1, FailAttemptRefines DEF Abort, CInv, TypeOK
  <2>2. CASE call[c].state # "waiting"
    <3>1. call' = call /\ applied' = applied
      BY <1>4, <2>2 DEF Abort
    <3>. QED BY <3>1 DEF Remote!vars, Asked, Outcome, Answer, AskedKey, OutcomeOf, AnswerOf
  <2>. QED BY <2>1, <2>2
<1>5. ASSUME NEW c \in Calls, Retry(c) PROVE [Remote!Next]_Remote!vars
  BY <1>5, StaysOpen DEF Retry, CInv, TypeOK
<1>6. ASSUME NEW c \in Calls, Receive(c) PROVE [Remote!Next]_Remote!vars
  BY <1>6, ReceiveRefines
<1>7. ASSUME NEW c \in Calls, ReadBody(c) PROVE [Remote!Next]_Remote!vars
  <2>1. call[c].value \in applied /\ Answers(c, call[c].value)
    BY <1>7 DEF ReadBody, Accepted, CInv, BodiesTrue
  <2>. QED BY <1>7, <2>1, EndRefines DEF ReadBody, CInv, TypeOK
<1>8. ASSUME NEW c \in Calls, ReadFinalError(c) PROVE [Remote!Next]_Remote!vars
  BY <1>8, EndRefines DEF ReadFinalError, CInv, TypeOK
<1>9. ASSUME NEW r \in Requests, Serve(r) PROVE [Remote!Next]_Remote!vars
  BY <1>9, ServeRefines
<1>10. CASE UNCHANGED vars
  BY <1>10 DEF vars, Remote!vars, Asked, Outcome, Answer, AskedKey, OutcomeOf, AnswerOf
<1>. QED BY <1>1, <1>2, <1>3, <1>4, <1>5, <1>6, <1>7, <1>8, <1>9, <1>10 DEF Next

LEMMA InitRefines == Init => Remote!Init
  BY DEF Init, Remote!Init, Asked, Outcome, Answer, AskedKey, OutcomeOf, AnswerOf, Unsent

\* The retry loop implements RemoteCall: whatever is lost, late or sent twice,
\* a call that resolves resolves with an effect of its own or of its key.
THEOREM Implements == Spec => KeepsItsPromise
<1>. QED BY ClientInvariant, InitRefines, StepRefines, PTL
     DEF Spec, KeepsItsPromise, Remote!Spec
=============================================================================
