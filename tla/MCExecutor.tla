----------------------------- MODULE MCExecutor -----------------------------
(* Operations that between them use every type of the schema. *)
EXTENDS Executor

OpOver(store, kind, roots, field, bad, fields, later, streamed) ==
  [kind |-> kind, roots |-> roots, field |-> field, bad |-> bad,
   fields |-> fields \cup later, deferred |-> later, streamed |-> streamed,
   store |-> store]

Op(kind, roots, field, bad, fields, later, streamed) ==
  OpOver("memory", kind, roots, field, bad, fields, later, streamed)

\* { posts { items { id ... @defer { author { username } } } next } }
Posts(streamed) ==
  Op("query", <<"a">>, [a |-> "posts"], {},
     {<<"a">>, <<"a", "items">>, <<"a", "items", "id">>, <<"a", "next">>,
      <<"a", "items", "author", "username">>},
     {<<"a", "items", "author">>}, streamed)

\* { a: post { author { username } } b: comments { items { parentID depth author
\* { id } } } }, the second with a deferred fragment around the root field.
PostAndComments ==
  Op("query", <<"a", "b">>, [a |-> "post", b |-> "comments"], {},
     {<<"a">>, <<"a", "author">>, <<"a", "author", "username">>,
      <<"b", "items">>, <<"b", "items", "parentID">>, <<"b", "items", "author">>,
      <<"b", "items", "author", "id">>},
     {<<"b">>}, TRUE)

\* A deferred author whose username is deferred again, beside comments with a
\* deferred depth.
Nested ==
  Op("query", <<"a", "b">>, [a |-> "post", b |-> "comments"], {},
     {<<"a">>, <<"a", "author", "id">>, <<"b">>, <<"b", "items">>},
     {<<"a", "author">>, <<"a", "author", "username">>, <<"b", "items", "depth">>},
     TRUE)

\* Three mutations, over either store and with arguments that may not convert.
Mutations(store, bad) ==
  OpOver(store, "mutation", <<"a", "b", "c">>,
     [a |-> "createPost", b |-> "setCommentsAllowed", c |-> "createComment"], bad,
     {<<"a">>, <<"a", "id">>, <<"b">>, <<"b", "author">>,
      <<"b", "author", "username">>, <<"c">>, <<"c", "parentID">>, <<"c", "depth">>},
     {<<"a", "author">>}, TRUE)

CommentAdded(bad) ==
  Op("subscription", <<"a">>, [a |-> "commentAdded"], bad,
     {<<"a">>, <<"a", "parentID">>, <<"a", "depth">>, <<"a", "author">>},
     {<<"a", "author", "username">>}, TRUE)

TooComplex ==
  Op("query", <<"a">>, [a |-> "post"], {},
     {<<"a">>, <<"a", "author">>} \cup {<<"a", f>> : f \in DOMAIN PostFields}
       \cup {<<"a", "author", f>> : f \in DOMAIN UserFields}, {}, FALSE)

MCOperations ==
  [posts |-> Posts(TRUE), postsByHTTP |-> Posts(FALSE), both |-> PostAndComments,
   nested |-> Nested, mutations |-> Mutations("memory", {}),
   mutationsOfRows |-> Mutations("postgres", {}),
   badMutation |-> Mutations("memory", {"b"}),
   badMutationOfRows |-> Mutations("postgres", {"b"}),
   commentAdded |-> CommentAdded({}), badSubscription |-> CommentAdded({"a"}),
   tooComplex |-> TooComplex]
=============================================================================
