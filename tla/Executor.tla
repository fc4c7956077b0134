------------------------------ MODULE Executor ------------------------------
(***************************************************************************)
(* The execution of one GraphQL operation by the code that gqlgen          *)
(* generated from the schema: which fields of an object run at once and    *)
(* which in order, how the null of a field that failed rises through the   *)
(* objects and lists above it, and how the fields under @defer follow in   *)
(* later responses.                                                        *)
(*                                                                         *)
(* A position is a value of the response: the path of names to it, from    *)
(* the alias of a root field on, and the number of the list element it is  *)
(* in, 0 outside a list (only pages have a list).  A value is "todo" until *)
(* its resolver has answered, "open" while the fields of the object (or    *)
(* the elements of the list) run, then "ok" or "null".  Scalars read from  *)
(* an object have their value with the object.                             *)
(*                                                                         *)
(* FieldSet.Dispatch, ResolveField, MarshalSliceConcurrently and           *)
(* ProcessDeferredGroup are gqlgen's; here an object has one @defer label. *)
(* Introspection and __typename are left out.                              *)
(***************************************************************************)
EXTENDS Slices, SequencesExt

CONSTANTS
  Operations,       \* by name: [kind, roots, field, bad, fields, deferred, streamed,
                    \* store]
  MaxItems,         \* bound on the elements of a list
  ComplexityLimit,  \* gqlComplexityLimit, 1000
  MaxEvents         \* bound on the events of a subscription

(***************************************************************************)
(* roots: aliases in order; field: the root field of each; bad: those with *)
(* arguments that do not convert; fields: the selected paths, without      *)
(* indices; deferred: those in a deferred fragment; streamed: whether the  *)
(* transport reads every response (websocket) or one (http); store:        *)
(* "memory" or "postgres", the one that the process runs on.               *)
(***************************************************************************)

VARIABLES
  op,         \* the name of the operation
  phase,      \* "new", "running" (a response is due), "streaming" (deferred
              \* results are read), "waiting" (for an event) or "ended"
  val,        \* values by position
  errors,     \* positions whose resolver, or arguments, failed
  effects,    \* aliases of the mutations that the store has carried out
  deferred,   \* ec.Deferred
  pending,    \* ec.PendingDeferred
  responses,  \* [group, data, errors, hasNext], in the order of delivery
  events      \* events that a subscription has taken

vars == <<op, phase, val, errors, effects, deferred, pending, responses, events>>

-----------------------------------------------------------------------------
(* The schema, as the generated functions hold it. *)

Scalar     == [of |-> "", list |-> FALSE]
Object(t)  == [of |-> t, list |-> FALSE]
ListOf(t)  == [of |-> t, list |-> TRUE]

CommentFields == [id |-> Scalar, author |-> Object("User"), postID |-> Scalar,
                  parentID |-> Scalar, depth |-> Scalar, body |-> Scalar,
                  createdAt |-> Scalar]
UserFields == [id |-> Scalar, username |-> Scalar, createdAt |-> Scalar]
PostFields == [id |-> Scalar, author |-> Object("User"), title |-> Scalar,
               body |-> Scalar, commentsAllowed |-> Scalar,
               createdAt |-> Scalar, updatedAt |-> Scalar]
CommentPageFields == [items |-> ListOf("Comment"), next |-> Scalar]
PostPageFields    == [items |-> ListOf("Post"), next |-> Scalar]
QueryFields == [posts |-> Object("PostPage"), post |-> Object("Post"),
                comments |-> Object("CommentPage")]
MutationFields == [createPost |-> Object("Post"),
                   setCommentsAllowed |-> Object("Post"),
                   createComment |-> Object("Comment")]
SubscriptionFields == [commentAdded |-> Object("Comment")]

Fields == [User |-> UserFields, Post |-> PostFields, Comment |-> CommentFields,
           PostPage |-> PostPageFields, CommentPage |-> CommentPageFields,
           query |-> QueryFields, mutation |-> MutationFields,
           subscription |-> SubscriptionFields]

\* How an object runs its fields: those not "concurrent" in order, before the
\* others; those "deferrable" may be left to a deferred group; a null counts
\* against the object unless the field is "nullable".
CommentObject == [concurrent |-> {"author", "depth"},
                  deferrable |-> {"author", "depth"}, nullable |-> {"parentID"}]
UserObject == [concurrent |-> {"username"}, deferrable |-> {"username"},
               nullable |-> {}]
PostObject == [concurrent |-> {"author"}, deferrable |-> {"author"}, nullable |-> {}]
CommentPageObject == [concurrent |-> {}, deferrable |-> {}, nullable |-> {"next"}]
PostPageObject == [concurrent |-> {}, deferrable |-> {}, nullable |-> {"next"}]
QueryObject == [concurrent |-> {"posts", "post", "comments"}, deferrable |-> {},
                nullable |-> {}]

\* Mutant of MutationObject: root fields run like those of a query.
MutationConcurrent == [concurrent |-> DOMAIN MutationFields, deferrable |-> {},
                       nullable |-> {}]
MutationObject == [concurrent |-> {}, deferrable |-> {}, nullable |-> {}]
SubscriptionObject == [concurrent |-> {}, deferrable |-> {}, nullable |-> {}]

Objects == [User |-> UserObject, Post |-> PostObject, Comment |-> CommentObject,
            PostPage |-> PostPageObject, CommentPage |-> CommentPageObject,
            query |-> QueryObject, mutation |-> MutationObject,
            subscription |-> SubscriptionObject]

\* Resolvers that answer from the object they are given.
Infallible == {"depth", "username"}

-----------------------------------------------------------------------------
(* Positions and the fields they stand for. *)

NameAt(o, q) == IF Len(q) = 1 THEN o.field[q[1]] ELSE q[Len(q)]

\* The type of the value at a selected path, "" for a scalar: each name leads from
\* one type to the next.
TypeAt(o, q) ==
  LET type[k \in 0..Len(q)] ==
        IF k = 0 THEN o.kind ELSE Fields[type[k - 1]][NameAt(o, SubSeq(q, 1, k))].of
  IN  type[Len(q)]

\* What the validation of a document leaves: every selection is a field of the
\* type it is made on, and response keys of root fields are distinct.
Selected(o, q) ==
  /\ q \in Seq(STRING) /\ q # <<>>
  /\ \E i \in DOMAIN o.roots : o.roots[i] = q[1]
  /\ Len(q) = 1 \/ Front(q) \in o.fields
  /\ TypeAt(o, Front(q)) \in DOMAIN Fields
  /\ NameAt(o, q) \in DOMAIN Fields[TypeAt(o, Front(q))]

ASSUME OperationsAssumption ==
  /\ ComplexityLimit \in Nat /\ MaxEvents \in Nat /\ MaxItems \in Nat
  /\ \A name \in DOMAIN Operations :
       LET o == Operations[name]
       IN  /\ o.kind \in {"query", "mutation", "subscription"}
           /\ o.store \in {"memory", "postgres"}
           /\ o.roots \in Seq(STRING) /\ IsInjective(o.roots)
           /\ \A i \in DOMAIN o.roots : <<o.roots[i]>> \in o.fields
           /\ \A q \in o.fields : Selected(o, q)
           /\ o.deferred \subseteq o.fields
           /\ o.kind = "subscription" => Len(o.roots) = 1

This == Operations[op]

NameOf(q) == NameAt(This, q)
Parent(q) == TypeAt(This, Front(q))

IsScalar(q) == TypeAt(This, q) = ""
Runs(how, q) == NameOf(q) \in Objects[Parent(q)][how]
IsList(p) == p.n = 0 /\ Fields[Parent(p.path)][NameOf(p.path)].list
IsElement(p) == p.n > 0 /\ Fields[Parent(p.path)][NameOf(p.path)].list

\* A null there leaves the object, or the list, above it without a value.
Counts(p) == IsElement(p) \/ ~Runs("nullable", p.path)

Deferred(q) == q \in This.deferred /\ Runs("deferrable", q)

At(q, n) == [path |-> q, n |-> n]

\* The fields of the object at p; those of a list are its elements'.
Below(p) == {At(q, p.n) : q \in {r \in This.fields :
                                   ~IsList(p) /\ Len(r) > 1 /\ Front(r) = p.path}}
InPlace(p)   == {q \in Below(p) : ~Deferred(q.path)}
Postponed(p) == {q \in Below(p) : Deferred(q.path)}

\* The values that the value at p waits for: elements, or fields of the object.
Within(p) == {q \in DOMAIN val :
                IF IsList(p) THEN q.path = p.path /\ q.n > 0
                ELSE Len(q.path) > 1 /\ Front(q.path) = p.path /\ q.n = p.n}
Final(p) == val[p] \in {"ok", "null"}
Roots == {At(<<This.roots[i]>>, 0) : i \in DOMAIN This.roots}

\* The group of deferred fields that a position belongs to, named by the object
\* that has them; Whole stands for the first response.
Whole == At(<<>>, 0)

GroupOf(p) ==
  LET cuts == {k \in 2..Len(p.path) : Deferred(SubSeq(p.path, 1, k))}
  IN  IF cuts = {} THEN Whole
      ELSE At(SubSeq(p.path, 1, (CHOOSE k \in cuts : \A m \in cuts : m <= k) - 1), p.n)

Started   == {p \in DOMAIN val : Postponed(p) \cap DOMAIN val # {}}
Delivered == {responses[i].group : i \in DOMAIN responses}
Finished(p) == \A q \in Postponed(p) : Final(q)

\* The values that an object has as it is marshalled: scalars at once, lists
\* with n elements each, and the fields whose resolvers have yet to answer.
Opened(p, n, absent) ==
  LET own      == InPlace(p)
      lists    == {q \in own : IsList(q)}
      elements == {At(q.path, i) : q \in lists, i \in 1..n}
      all      == own \cup elements \cup UNION {InPlace(e) : e \in elements}
  IN  [q \in all |-> IF q \in lists \cup elements THEN "open"
                     ELSE IF Runs("concurrent", q.path) THEN "todo"
                     ELSE IF absent /\ Runs("nullable", q.path) THEN "null"
                     ELSE "ok"]

\* What a resolver may answer with: nothing below a scalar.
Values(p) ==
  IF IsScalar(p.path) THEN {<<>>}
  ELSE {Opened(p, n, absent) : n \in 0..MaxItems, absent \in BOOLEAN}

-----------------------------------------------------------------------------
(* Admission. *)

\* No field has a weight of its own in ComplexityRoot: each selected field
\* counts one, whatever the length of a list.
Complexity(o) == Cardinality(o.fields)

Response(group, data, errs, hasNext) ==
  [group |-> group, data |-> data, errors |-> errs, hasNext |-> hasNext]

Refuse ==
  /\ phase = "new" /\ Complexity(This) > ComplexityLimit
  /\ phase' = "ended"
  /\ responses' = <<Response(Whole, "null", {Whole}, "none")>>
  /\ UNCHANGED <<op, val, errors, effects, deferred, pending, events>>

Exec ==
  /\ phase = "new" /\ Complexity(This) <= ComplexityLimit
  /\ This.kind # "subscription"
  /\ phase' = "running"
  /\ val' = [p \in Roots |-> "todo"]
  /\ UNCHANGED <<op, errors, effects, deferred, pending, responses, events>>

-----------------------------------------------------------------------------
(* Fields. *)

\* Mutant of Turn: a mutation that fails is the last to run.
TurnAfterSuccess(p) ==
  p \in Roots /\ ~Runs("concurrent", p.path) =>
    \A i \in DOMAIN This.roots :
      (\A j \in 1..i : This.roots[j] # p.path[1]) => val[At(<<This.roots[i]>>, 0)] = "ok"

\* A root field that is not concurrent runs when those before it are done with
\* everything below them.  (The other fields start with their object.)
Turn(p) ==
  p \in Roots /\ ~Runs("concurrent", p.path) =>
    \A i \in DOMAIN This.roots :
      (\A j \in 1..i : This.roots[j] # p.path[1]) => Final(At(<<This.roots[i]>>, 0))

\* Only root fields have arguments.
ArgumentsConvert(p) == p \in Roots => p.path[1] \notin This.bad

\* Values of positions that are new, beside those there are.
Adding(new, old) ==
  [q \in DOMAIN new \cup DOMAIN old |-> IF q \in DOMAIN new THEN new[q] ELSE old[q]]

\* What an error of the field at p may hide: over postgres a commit, or a statement
\* that commits by itself, may take effect and its answer be lost.  (The kinds of
\* error are not told apart.)  The memory store has done nothing when it returns one.
MayHideEffect(p) == /\ This.kind = "mutation" /\ p \in Roots /\ ArgumentsConvert(p)
                    /\ This.store = "postgres"

\* The resolver, or the conversion of the arguments before it, fails.
Fail(p) ==
  /\ phase # "new" /\ val[p] = "todo" /\ Turn(p)
  /\ NameOf(p.path) \notin Infallible
  /\ val' = [val EXCEPT ![p] = "null"]
  /\ errors' = errors \cup {p}
  /\ \/ UNCHANGED effects
     \/ MayHideEffect(p) /\ effects' = Append(effects, p.path[1])
  /\ UNCHANGED <<op, phase, deferred, pending, responses, events>>

\* The database may still be at a commit whose answer nobody waits for any more: it
\* takes effect behind mutations that came later, or behind the response.
TakeEffectLate(p) ==
  /\ MayHideEffect(p) /\ p.path[1] \notin Range(effects)
  /\ effects' = Append(effects, p.path[1])
  /\ UNCHANGED <<op, phase, val, errors, deferred, pending, responses, events>>

Resolve(p) ==
  /\ phase # "new" /\ val[p] = "todo" /\ Turn(p)
  /\ ArgumentsConvert(p)
  /\ \E new \in Values(p) :
       val' = Adding(new, [val EXCEPT ![p] = IF IsScalar(p.path) THEN "ok" ELSE "open"])
  /\ effects' = IF This.kind = "mutation" /\ p \in Roots
                THEN Append(effects, p.path[1]) ELSE effects
  /\ UNCHANGED <<op, phase, errors, deferred, pending, responses, events>>

\* Mutant of Verdict: the marshaller of a list takes elements that are null.
VerdictOfFields(p) ==
  IF \E q \in Within(p) : ~IsElement(q) /\ Counts(q) /\ val[q] = "null"
  THEN "null" ELSE "ok"

\* out.Invalids > 0, or an element of a list that is null.
Verdict(p) ==
  IF \E q \in Within(p) : Counts(q) /\ val[q] = "null" THEN "null" ELSE "ok"

\* Dispatch has returned: the object has its value, and its deferred group, if
\* it has one, begins.
Finish(p) ==
  /\ val[p] = "open" /\ \A q \in Within(p) : Final(q)
  /\ LET later == IF Verdict(p) = "ok" THEN Postponed(p) ELSE {}
         group == IF later = {} THEN 0 ELSE 1
     IN  /\ val' = Adding([q \in later |-> "todo"], [val EXCEPT ![p] = Verdict(p)])
         /\ deferred' = deferred + group
         /\ pending' = pending + group
  /\ UNCHANGED <<op, phase, errors, effects, responses, events>>

-----------------------------------------------------------------------------
(* Responses. *)

Data(ps) == IF \E p \in ps : val[p] = "null" THEN "null" ELSE "data"

ErrorsOf(group) == {p \in errors : GroupOf(p) = group}

HasNext(left) == IF deferred = 0 THEN "none" ELSE IF left > 0 THEN "yes" ELSE "no"

\* Every root field has its value, failed ones too.
Due == \A p \in Roots : Final(p)

Respond ==
  /\ phase = "running" /\ Due
  /\ responses' = Append(responses,
       Response(Whole, Data(Roots), ErrorsOf(Whole),
                IF This.kind = "query" THEN HasNext(pending) ELSE "none"))
  /\ phase' = IF This.kind = "subscription" THEN "waiting"
              ELSE IF This.streamed THEN "streaming"
              ELSE "ended"
  /\ UNCHANGED <<op, val, errors, effects, deferred, pending, events>>

\* Mutant of Deliver: hasNext is computed before the counter is decremented.
DeliverCountingItself(p) ==
  /\ phase = "streaming" /\ This.kind = "query"
  /\ p \in Started \ Delivered /\ Finished(p)
  /\ pending' = pending - 1
  /\ responses' = Append(responses,
       Response(p, Data(Postponed(p)), ErrorsOf(p), HasNext(pending)))
  /\ UNCHANGED <<op, phase, val, errors, effects, deferred, events>>

\* The goroutine of a group hands its result to the reader of the responses.
Deliver(p) ==
  /\ phase = "streaming" /\ This.kind = "query"
  /\ p \in Started \ Delivered /\ Finished(p)
  /\ pending' = pending - 1
  /\ responses' = Append(responses,
       Response(p, Data(Postponed(p)), ErrorsOf(p), HasNext(pending - 1)))
  /\ UNCHANGED <<op, phase, val, errors, effects, deferred, events>>

\* The next response is nil: for a mutation always, whatever is deferred.
Complete ==
  /\ phase = "streaming"
  /\ This.kind = "query" => pending = 0
  /\ phase' = "ended"
  /\ UNCHANGED <<op, val, errors, effects, deferred, pending, responses, events>>

-----------------------------------------------------------------------------
(* Subscriptions. *)

\* The resolver refuses, and so does the operation.
Reject ==
  /\ phase = "new" /\ Complexity(This) <= ComplexityLimit
  /\ This.kind = "subscription"
  /\ phase' = "ended"
  /\ responses' = <<Response(Whole, "null", Roots, "none")>>
  /\ errors' = Roots
  /\ UNCHANGED <<op, val, effects, deferred, pending, events>>

Subscribe ==
  /\ phase = "new" /\ Complexity(This) <= ComplexityLimit
  /\ This.kind = "subscription" /\ This.bad = {}
  /\ phase' = "waiting"
  /\ UNCHANGED <<op, val, errors, effects, deferred, pending, responses, events>>

\* An event is marshalled from scratch, with errors of its own; what the goroutines
\* of an earlier one's deferred fields still do is seen by nobody.
TakeEvent ==
  /\ phase = "waiting" /\ events < MaxEvents
  /\ phase' = "running" /\ events' = events + 1
  /\ \E root \in Roots : \E new \in Values(root) :
       val' = Adding(new, [p \in {root} |-> "open"])
  /\ errors' = {}
  /\ UNCHANGED <<op, effects, deferred, pending, responses>>

StreamCloses ==
  /\ phase = "waiting"
  /\ phase' = "ended"
  /\ UNCHANGED <<op, val, errors, effects, deferred, pending, responses, events>>

-----------------------------------------------------------------------------
Init == /\ op \in DOMAIN Operations /\ phase = "new"
        /\ val = <<>> /\ errors = {} /\ effects = <<>>
        /\ deferred = 0 /\ pending = 0
        /\ responses = <<>> /\ events = 0

FieldNext == \E p \in DOMAIN val :
               \/ Fail(p)
               \/ Resolve(p)
               \/ Finish(p)

ResponseNext == Respond \/ (\E p \in Started : Deliver(p)) \/ Complete

SubscriptionNext == Reject \/ Subscribe \/ TakeEvent \/ StreamCloses

\* Nothing makes a lost commit take effect.
Next == \/ Refuse \/ Exec \/ FieldNext \/ ResponseNext \/ SubscriptionNext
        \/ \E p \in errors : TakeEffectLate(p)

\* Resolvers return, goroutines run, and the transport reads what it reads.  No
\* event need come.
Spec == Init /\ [][Next]_vars /\ WF_vars(FieldNext) /\ WF_vars(ResponseNext)

-----------------------------------------------------------------------------
\* By the errors of its response, the root fields of a mutation that were carried
\* out, and those that may have been.
CarriedOut(errs) == {k \in DOMAIN This.roots : At(<<This.roots[k]>>, 0) \notin errs}
Doubtful(errs) == {k \in DOMAIN This.roots :
                     LET p == At(<<This.roots[k]>>, 0) IN p \in errs /\ MayHideEffect(p)}

\* Null never comes without an error that accounts for it, nor an error with
\* data: whichever fields fail in whichever order, a response (the first, one of
\* a deferred group or one of an event) has no data exactly if it lists an
\* error.  And the errors tell what a mutation does, even where the data of its
\* response are lost to another field: what has no error was carried out, once and in
\* order.  Over the memory store nothing else was.  Over postgres an effect may hide
\* behind an error and may come at any time, unless its arguments did not convert.
ResponseTruthful ==
  \A i \in DOMAIN responses : LET errs == responses[i].errors IN
    /\ responses[i].data = "null" <=> errs # {}
    /\ This.kind = "mutation" /\ Whole \notin errs =>
         /\ IsInjective(effects)
         /\ {This.roots[k] : k \in CarriedOut(errs)} \subseteq Range(effects)
         /\ Range(effects) \subseteq {This.roots[k] : k \in CarriedOut(errs) \cup Doubtful(errs)}
         /\ \A a, b \in DOMAIN effects : \A j, k \in CarriedOut(errs) :
              effects[a] = This.roots[j] /\ effects[b] = This.roots[k] /\ j < k => a < b

\* No resolver of a mutation runs while anything below an earlier one does, the
\* fields left to a deferred group aside.
MutationsSerial ==
  [][This.kind = "mutation" =>
       \A i, j \in DOMAIN This.roots : \A p \in DOMAIN val :
         i < j /\ p = At(<<This.roots[j]>>, 0) /\ val[p] = "todo" /\ val'[p] # "todo" =>
           \A q \in DOMAIN val : q.path[1] = This.roots[i] /\ GroupOf(q) = Whole => Final(q)
    ]_vars

\* A client that stops reading at a response without a successor misses nothing,
\* and one that is told of a successor gets it: and by then every field of every
\* object that it has was delivered, nested deferred groups included.
HasNextTruthful ==
  This.kind = "query" /\ This.streamed =>
    /\ \A i \in DOMAIN responses :
         responses[i].hasNext # "yes" => i = Len(responses) /\ pending = 0
    /\ phase = "ended" /\ responses # <<>> =>
         /\ Last(responses).hasNext # "yes"
         /\ Started \subseteq Delivered
         /\ \A p \in DOMAIN val : Final(p)

\* Whatever fails, the first response comes, a deferred group holds up nothing,
\* and a subscription is ready for the next event after each.
OperationAnswered ==
  (phase \in {"running", "streaming"}) ~> (phase \in {"waiting", "ended"})
=============================================================================
