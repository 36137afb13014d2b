------------------------------ MODULE JsonRecord ------------------------------
(***************************************************************************)
(* A JSON record, and the two vocabularies in which the contracts speak of *)
(* it: the helpers of task-cost/validators.ts, and the keywords of JSON    *)
(* Schema.                                                                 *)
(*                                                                         *)
(* A record is the function from the paths of its values to leaves: a path *)
(* is the sequence of keys that leads to a value, an object or an array is *)
(* a leaf of its own and the entries below it.  A text is a representative *)
(* of those that match the same patterns, a number is written "#2", and    *)
(* any leaf may appear where another type is expected.                     *)
(***************************************************************************)
EXTENDS Integers, Sequences, FiniteSets, SequencesExt, TLC

VARIABLE record

Root == <<>>
Object == {"{}"}
Array == {"[]"}

\* The representatives that match each pattern, and the numbers in each range.
MintedId == {"uuid1", "uuid2", "ulid"}
GitSha == {"sha1", "sha2"}
HarnessSlug == {"word"}
Slug == HarnessSlug \cup {"a_word"}
ProviderId == {"99"}
CheckKey == {"word", "a_word", "ci.build", "99", "sha1", "sha2", "uuid1", "uuid2"}
PolicyVersion == {"word", "a_word", "ci.build", "99", "sha1", "sha2"} \cup MintedId
PendingSession == {"pending:a"}
Identifier == PolicyVersion \cup PendingSession \cup {"pending:a:b"}
Model == Identifier \cup {"org/model"}
Timestamp == {"t1", "t2"}
Boolean == {"#true", "#false"}
NonNegativeInt == {"#0", "#1", "#2"}
PositiveInt == {"#1", "#2"}
Probability == {"#0", "#1/2", "#1"}

\* The numbers of the wider records: whole ones but #1/2.
Numbers == {"#-1", "#0", "#1/2", "#1", "#2", "#101"}
Halves(leaf) ==
  CASE leaf = "#-1" -> -2 [] leaf = "#0" -> 0 [] leaf = "#1/2" -> 1 [] leaf = "#1" -> 2
    [] leaf = "#2" -> 4 [] leaf = "#101" -> 202
AtLeast(low) == {leaf \in Numbers : Halves(leaf) >= 2 * low}
From(low, high) == {leaf \in AtLeast(low) : Halves(leaf) <= 2 * high}

\* Texts of any form: the empty one is told apart.
Text == Model \cup Timestamp \cup {"org//model", "feb30", "bad", "", "main", "url", "a,b", "1.0.0", "1.1.0"}
SomeText == Text \ {""}
OrNull(kinds) == kinds \cup {"null"}

-----------------------------------------------------------------------------
\* Reading a record.
Has(p) == p \in DOMAIN record
Below(p) == {q \in DOMAIN record : IsPrefix(p, q)}
Children(p) == {q \in DOMAIN record : Len(q) = Len(p) + 1 /\ SubSeq(q, 1, Len(p)) = p}
At(p, key) == Append(p, key)
Value(p, key) == record[At(p, key)]
Is(p, kind) == Has(p) /\ record[p] \in kind
Later(p, q) == Is(p, {"t2"}) /\ Is(q, {"t1"})

\* No two entries of an array say the same: of themselves, or under a key.
Distinct(p) == \A a, b \in Children(p) : record[a] = record[b] => a = b
DistinctBy(p, key) == \A a, b \in Children(p) : Value(a, key) = Value(b, key) => a = b

-----------------------------------------------------------------------------
\* The validators' helpers.  An optional value is checked when it is there.
Requires(p, kinds) == Is(p, Object) /\ \A key \in DOMAIN kinds : Is(At(p, key), kinds[key])
Allows(p, kinds) == \A key \in DOMAIN kinds : Has(At(p, key)) => Value(p, key) \in kinds[key]
Forbids(p, keys) == \A key \in keys : ~Has(At(p, key))
RejectsNulls(p) == \A q \in Children(p) : record[q] # "null"
ArrayOf(p, kind) == Is(p, Array) /\ \A q \in Children(p) : record[q] \in kind
NonEmpty(p) == Is(p, Array) /\ Children(p) # {}
Optional(p, Valid(_)) == Has(p) => Valid(p)

\* Keys that may appear nowhere: one stands for the list of them.
ForbiddenKeys == {"prompt"}
NoForbiddenKeys == \A p \in DOMAIN record : p # Root => p[Len(p)] \notin ForbiddenKeys

-----------------------------------------------------------------------------
\* JSON Schema: type, properties and required of an object; items of an array.
\* "required" asks for the key, whatever its value.  The schemas' patterns are
\* those of the validators, without what the validators check beside a pattern.
SchemaModel == Model \cup {"org//model"}
UtcTimestamp == Timestamp \cup {"feb30"}

Schema(p, required, properties) ==
  /\ Is(p, Object)
  /\ \A key \in required : Has(At(p, key))
  /\ Allows(p, properties)

Items(p, Admits(_)) == Is(p, Array) /\ \A q \in Children(p) : Admits(q)

\* An object that has the properties and no other.
Closed(p, keys) == \A q \in Children(p) : q[Len(q)] \in keys
Obj(p, properties) == Schema(p, DOMAIN properties, properties) /\ Closed(p, DOMAIN properties)

\* What no schema here asks: the forbidden keys, that no value of a key it does
\* not know is null, that a time exists and that a model is no path.
UnknownToSchemas ==
  ~NoForbiddenKeys \/ \E p \in DOMAIN record : record[p] \in {"null", "feb30", "org//model"}

-----------------------------------------------------------------------------
\* Writing records.
Written(p, fields) ==
  (p :> "{}") @@ [q \in {At(p, key) : key \in DOMAIN fields} |->
                    fields[q[Len(q)]]]

Listed(p, leaves) ==
  (p :> "[]") @@ [q \in {At(p, ToString(n)) : n \in DOMAIN leaves} |->
                    leaves[CHOOSE n \in DOMAIN leaves : ToString(n) = q[Len(q)]]]

NoFields == <<>>
With(p, key, leaf) == At(p, key) :> leaf

\* What is at one path, written at another.
Copy(from, to) ==
  [q \in {to \o SubSeq(b, Len(from) + 1, Len(b)) : b \in Below(from)} |->
     record[from \o SubSeq(q, Len(to) + 1, Len(q))]]

\* A value is changed, added or removed with all below it; an entry is repeated.
Put(p, leaf) == record' = (p :> leaf) @@ [q \in DOMAIN record \ Below(p) |-> record[q]]
Drop(p) == record' = [q \in DOMAIN record \ Below(p) |-> record[q]]
Repeat(p, from, to) ==
  LET moved(q, entry) == ReplaceAt(q, Len(p) + 1, entry)
  IN record' = [q \in {moved(b, to) : b \in Below(At(p, from))} |-> record[moved(q, from)]] @@ record
=============================================================================
