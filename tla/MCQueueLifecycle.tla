-------------------------- MODULE MCQueueLifecycle --------------------------
EXTENDS QueueLifecycle

CONSTANTS t1, t2, a, b, c, e1, e2, e3, e4, C1, x

Ref(t, r, s) == [task_id |-> t, run_id |-> r, stage_attempt_id |-> s]

\* One run per task, a's stage attempt, and a's run under the wrong task.
R1 == Ref(t1, a, None)
R2 == Ref(t2, b, None)
RS == Ref(t1, a, c)
RX == Ref(t2, a, None)

Event(id, type, scope, refs, cand, at, asOf, ctx) ==
  [event_id |-> id, event_type |-> type, scope |-> scope, attempt_refs |-> refs,
   candidate_id |-> cand, observed_at |-> at, as_of |-> asOf, context_ids |-> ctx,
   body |-> x]

\* Two runs in one candidate, that leave it and land in it in either order; a
\* second composition for the same candidate; evidence for it in the right and
\* the wrong order of refs; and decisions that read what happened to it.
MCEvents ==
  {Event(e1, "candidate_prepared", "candidate", refs, C1, 1, 1, {}) :
     refs \in {<<R1, R2>>, <<R2, RX>>}}
  \cup {Event(e2, "ejected", "pr", <<R1>>, C1, at, at, {}) : at \in {1, 2}}
  \cup {Event(e2, "ejected", "pr", <<R2>>, C1, 1, 1, {})}
  \cup {Event(e3, "merged", "pr", <<ref>>, C1, 1, 1, {}) : ref \in {R1, R2}}
  \cup {Event(e3, "enqueued", "pr", <<RS>>, None, 1, 1, {})}
  \cup {Event(e4, "candidate_prepared", "candidate", <<RS, R2>>, C1, 1, 1, {})}
  \cup {Event(e4, "check_run_completed", "candidate", refs, C1, 2, 2, {}) :
     refs \in {<<R1, R2>>, <<R2, R1>>}}
  \cup {Event(e4, "recovery_decision", "pr", <<R2>>, None, 2, asOf, {e2}) :
     asOf \in {1, 2}}

Plain(i) ==
  /\ entities[i].kind = "run" \/ (i = c /\ entities[i].kind = "stage_attempt")
  /\ entities[i].kind = "run" => entities[i].parent_id = (IF i = b THEN t2 ELSE t1)
  /\ entities[i].retry_of = None

\* Attempts, in this order: a runs t1, b runs t2, c is a stage attempt or
\* relaunches t1.
Launches ==
  /\ b \in Attempt!Declared => a \in Attempt!Declared
  /\ c \in Attempt!Declared => b \in Attempt!Declared
  /\ \A i \in Attempt!Declared : Plain(i)

\* No step reads the decision the last one reported, in either log.
QueueView ==
  <<entities, latestInGroup, seenWrites, evidence, derived, derivedSupersededBy,
    firstSeen, accepted, candidates>>
=============================================================================
