--------------------------- MODULE ExecutorProofs ---------------------------
(***************************************************************************)
(* What holds of every operation, of every size, that the validation of a  *)
(* document admits.                                                        *)
(*                                                                         *)
(* The argument is about the tree of values.  Each value but a root hangs  *)
(* from the one above it, which begins before it, does not end before it   *)
(* (unless it is deferred) and is not "ok" above a null that counts: Tree. *)
(* Every null that counts has an error in its own group and every error    *)
(* has its null: Blamed and Fallen.  By induction on the height of a       *)
(* position it follows that each value stands below one of the values its  *)
(* group is due with (EveryValueStands), so that a response is due exactly *)
(* when all of its group has ended, and has lost its data exactly if one   *)
(* of its fields has failed.  Core, Effective and Announced are the        *)
(* invariants of the specification that rest on it.                        *)
(***************************************************************************)
EXTENDS Executor, DataProofs

-----------------------------------------------------------------------------
(* The schema. *)

Types == DOMAIN Fields
Leaves == {"", "User", "Post", "Comment"}
Pages == {"PostPage", "CommentPage"}
Kinds == {"query", "mutation", "subscription"}

\* What the rest needs to know of a field called name of type t: pages are the
\* only types with a list and are found under a query only, root fields are
\* objects, and a field with a resolver of its own is not nullable.
Sane(t, field, how, name) ==
  /\ field.of \in Leaves \cup Pages
  /\ field.of \in Pages => t = "query"
  /\ field.list => t \in Pages /\ field.of # ""
  /\ t \in Pages => name \notin how.concurrent /\ name \notin how.deferrable
  /\ t \in Kinds => /\ name \notin how.deferrable /\ name \notin how.nullable
                    /\ field.of # ""
  /\ t = "mutation" => name \notin how.concurrent
  /\ name \in how.concurrent \/ name \in how.deferrable => name \notin how.nullable
  /\ name \in how.nullable => field.of = ""

LEMMA SchemaFacts ==
  ASSUME NEW t \in Types, NEW name \in DOMAIN Fields[t]
  PROVE  Sane(t, Fields[t][name], Objects[t], name)
<1>1. CASE t = "User"
  <2>1. /\ Fields[t] = UserFields /\ Objects[t] = UserObject
        /\ DOMAIN UserFields =
             {"id", "username", "createdAt"}
    BY <1>1 DEF Fields, Objects, UserFields
  <2>2. CASE name \in {"id", "username", "createdAt"}
    <3>1. UserFields[name] = Scalar
      BY <2>2 DEF UserFields
    <3>2. Sane(t, Scalar, UserObject, name)
      BY <1>1, <2>2 DEF Sane, UserObject, Scalar, Object, ListOf,
                           Leaves, Pages, Kinds
    <3> QED BY <2>1, <3>1, <3>2
  <2> QED BY <2>1, <2>2
<1>2. CASE t = "Post"
  <2>1. /\ Fields[t] = PostFields /\ Objects[t] = PostObject
        /\ DOMAIN PostFields =
             {"id", "author", "title", "body", "commentsAllowed", "createdAt", "updatedAt"}
    BY <1>2 DEF Fields, Objects, PostFields
  <2>2. CASE name \in {"id", "title", "body", "commentsAllowed", "createdAt", "updatedAt"}
    <3>1. PostFields[name] = Scalar
      BY <2>2 DEF PostFields
    <3>2. Sane(t, Scalar, PostObject, name)
      BY <1>2, <2>2 DEF Sane, PostObject, Scalar, Object, ListOf,
                           Leaves, Pages, Kinds
    <3> QED BY <2>1, <3>1, <3>2
  <2>3. CASE name \in {"author"}
    <3>1. PostFields[name] = Object("User")
      BY <2>3 DEF PostFields
    <3>2. Sane(t, Object("User"), PostObject, name)
      BY <1>2, <2>3 DEF Sane, PostObject, Scalar, Object, ListOf,
                           Leaves, Pages, Kinds
    <3> QED BY <2>1, <3>1, <3>2
  <2> QED BY <2>1, <2>2, <2>3
<1>3. CASE t = "Comment"
  <2>1. /\ Fields[t] = CommentFields /\ Objects[t] = CommentObject
        /\ DOMAIN CommentFields =
             {"id", "author", "postID", "parentID", "depth", "body", "createdAt"}
    BY <1>3 DEF Fields, Objects, CommentFields
  <2>2. CASE name \in {"id", "postID", "parentID", "depth", "body", "createdAt"}
    <3>1. CommentFields[name] = Scalar
      BY <2>2 DEF CommentFields
    <3>2. Sane(t, Scalar, CommentObject, name)
      BY <1>3, <2>2 DEF Sane, CommentObject, Scalar, Object, ListOf,
                           Leaves, Pages, Kinds
    <3> QED BY <2>1, <3>1, <3>2
  <2>3. CASE name \in {"author"}
    <3>1. CommentFields[name] = Object("User")
      BY <2>3 DEF CommentFields
    <3>2. Sane(t, Object("User"), CommentObject, name)
      BY <1>3, <2>3 DEF Sane, CommentObject, Scalar, Object, ListOf,
                           Leaves, Pages, Kinds
    <3> QED BY <2>1, <3>1, <3>2
  <2> QED BY <2>1, <2>2, <2>3
<1>4. CASE t = "PostPage"
  <2>1. /\ Fields[t] = PostPageFields /\ Objects[t] = PostPageObject
        /\ DOMAIN PostPageFields =
             {"items", "next"}
    BY <1>4 DEF Fields, Objects, PostPageFields
  <2>2. CASE name \in {"items"}
    <3>1. PostPageFields[name] = ListOf("Post")
      BY <2>2 DEF PostPageFields
    <3>2. Sane(t, ListOf("Post"), PostPageObject, name)
      BY <1>4, <2>2 DEF Sane, PostPageObject, Scalar, Object, ListOf,
                           Leaves, Pages, Kinds
    <3> QED BY <2>1, <3>1, <3>2
  <2>3. CASE name \in {"next"}
    <3>1. PostPageFields[name] = Scalar
      BY <2>3 DEF PostPageFields
    <3>2. Sane(t, Scalar, PostPageObject, name)
      BY <1>4, <2>3 DEF Sane, PostPageObject, Scalar, Object, ListOf,
                           Leaves, Pages, Kinds
    <3> QED BY <2>1, <3>1, <3>2
  <2> QED BY <2>1, <2>2, <2>3
<1>5. CASE t = "CommentPage"
  <2>1. /\ Fields[t] = CommentPageFields /\ Objects[t] = CommentPageObject
        /\ DOMAIN CommentPageFields =
             {"items", "next"}
    BY <1>5 DEF Fields, Objects, CommentPageFields
  <2>2. CASE name \in {"items"}
    <3>1. CommentPageFields[name] = ListOf("Comment")
      BY <2>2 DEF CommentPageFields
    <3>2. Sane(t, ListOf("Comment"), CommentPageObject, name)
      BY <1>5, <2>2 DEF Sane, CommentPageObject, Scalar, Object, ListOf,
                           Leaves, Pages, Kinds
    <3> QED BY <2>1, <3>1, <3>2
  <2>3. CASE name \in {"next"}
    <3>1. CommentPageFields[name] = Scalar
      BY <2>3 DEF CommentPageFields
    <3>2. Sane(t, Scalar, CommentPageObject, name)
      BY <1>5, <2>3 DEF Sane, CommentPageObject, Scalar, Object, ListOf,
                           Leaves, Pages, Kinds
    <3> QED BY <2>1, <3>1, <3>2
  <2> QED BY <2>1, <2>2, <2>3
<1>6. CASE t = "query"
  <2>1. /\ Fields[t] = QueryFields /\ Objects[t] = QueryObject
        /\ DOMAIN QueryFields =
             {"posts", "post", "comments"}
    BY <1>6 DEF Fields, Objects, QueryFields
  <2>2. CASE name \in {"posts"}
    <3>1. QueryFields[name] = Object("PostPage")
      BY <2>2 DEF QueryFields
    <3>2. Sane(t, Object("PostPage"), QueryObject, name)
      BY <1>6, <2>2 DEF Sane, QueryObject, Scalar, Object, ListOf,
                           Leaves, Pages, Kinds
    <3> QED BY <2>1, <3>1, <3>2
  <2>3. CASE name \in {"post"}
    <3>1. QueryFields[name] = Object("Post")
      BY <2>3 DEF QueryFields
    <3>2. Sane(t, Object("Post"), QueryObject, name)
      BY <1>6, <2>3 DEF Sane, QueryObject, Scalar, Object, ListOf,
                           Leaves, Pages, Kinds
    <3> QED BY <2>1, <3>1, <3>2
  <2>4. CASE name \in {"comments"}
    <3>1. QueryFields[name] = Object("CommentPage")
      BY <2>4 DEF QueryFields
    <3>2. Sane(t, Object("CommentPage"), QueryObject, name)
      BY <1>6, <2>4 DEF Sane, QueryObject, Scalar, Object, ListOf,
                           Leaves, Pages, Kinds
    <3> QED BY <2>1, <3>1, <3>2
  <2> QED BY <2>1, <2>2, <2>3, <2>4
<1>7. CASE t = "mutation"
  <2>1. /\ Fields[t] = MutationFields /\ Objects[t] = MutationObject
        /\ DOMAIN MutationFields =
             {"createPost", "setCommentsAllowed", "createComment"}
    BY <1>7 DEF Fields, Objects, MutationFields
  <2>2. CASE name \in {"createPost", "setCommentsAllowed"}
    <3>1. MutationFields[name] = Object("Post")
      BY <2>2 DEF MutationFields
    <3>2. Sane(t, Object("Post"), MutationObject, name)
      BY <1>7, <2>2 DEF Sane, MutationObject, Scalar, Object, ListOf,
                           Leaves, Pages, Kinds
    <3> QED BY <2>1, <3>1, <3>2
  <2>3. CASE name \in {"createComment"}
    <3>1. MutationFields[name] = Object("Comment")
      BY <2>3 DEF MutationFields
    <3>2. Sane(t, Object("Comment"), MutationObject, name)
      BY <1>7, <2>3 DEF Sane, MutationObject, Scalar, Object, ListOf,
                           Leaves, Pages, Kinds
    <3> QED BY <2>1, <3>1, <3>2
  <2> QED BY <2>1, <2>2, <2>3
<1>8. CASE t = "subscription"
  <2>1. /\ Fields[t] = SubscriptionFields /\ Objects[t] = SubscriptionObject
        /\ DOMAIN SubscriptionFields =
             {"commentAdded"}
    BY <1>8 DEF Fields, Objects, SubscriptionFields
  <2>2. CASE name \in {"commentAdded"}
    <3>1. SubscriptionFields[name] = Object("Comment")
      BY <2>2 DEF SubscriptionFields
    <3>2. Sane(t, Object("Comment"), SubscriptionObject, name)
      BY <1>8, <2>2 DEF Sane, SubscriptionObject, Scalar, Object, ListOf,
                           Leaves, Pages, Kinds
    <3> QED BY <2>1, <3>1, <3>2
  <2> QED BY <2>1, <2>2
<1> QED
  <2>1. Types = {"User", "Post", "Comment", "PostPage", "CommentPage",
                 "query", "mutation", "subscription"}
    BY DEF Types, Fields
  <2>2. t \in {"User", "Post", "Comment", "PostPage", "CommentPage",
               "query", "mutation", "subscription"}
    BY ONLY <2>1, t \in Types
  <2> QED
    BY ONLY <2>2, <1>1, <1>2, <1>3, <1>4, <1>5, <1>6, <1>7, <1>8

\* The types along a path: each is that of a field of the one before.
LEMMA TypeAtStep ==
  ASSUME NEW o, NEW q \in Seq(STRING)
  PROVE  /\ TypeAt(o, <<>>) = o.kind
         /\ q # <<>> => TypeAt(o, q) = Fields[TypeAt(o, Front(q))][NameAt(o, q)].of
<1> DEFINE next(s, g, k) == Fields[g[k - 1]][NameAt(o, SubSeq(s, 1, k))].of
           Along(s, n, g) ==
             g = [k \in 0..n |-> IF k = 0 THEN o.kind ELSE next(s, g, k)]
           types(s) == CHOOSE g : Along(s, Len(s), g)
<1>1. ASSUME NEW s, Len(s) \in Nat PROVE \E g : Along(s, Len(s), g)
  <2> DEFINE T == {n \in Nat : \E g : Along(s, n, g)}
  <2>1. 0 \in T
    <3> DEFINE g == [k \in 0..0 |-> o.kind]
    <3>1. Along(s, 0, g)
      OBVIOUS
    <3> QED BY <3>1
  <2>2. ASSUME NEW n \in Nat, n \in T PROVE n + 1 \in T
    <3>1. PICK g : Along(s, n, g)
      BY <2>2
    <3> DEFINE h == [k \in 0..(n + 1) |-> IF k = n + 1 THEN next(s, g, n + 1) ELSE g[k]]
    <3> HIDE DEF next
    <3>2. ASSUME NEW k \in 1..(n + 1) PROVE h[k - 1] = g[k - 1]
      BY <3>2
    <3>3. ASSUME NEW k \in 1..(n + 1) PROVE next(s, h, k) = next(s, g, k)
      BY <3>2, <3>3 DEF next
    <3>4. ASSUME NEW k \in 0..(n + 1)
          PROVE  h[k] = IF k = 0 THEN o.kind ELSE next(s, h, k)
      <4>1. CASE k = n + 1
        BY <3>3, <4>1
      <4>2. CASE k \in 1..n
        <5>1. h[k] = g[k] /\ g[k] = next(s, g, k)
          BY <3>1, <4>2
        <5> QED BY <3>3, <4>2, <5>1
      <4>3. CASE k = 0
        BY <3>1, <4>3
      <4> QED BY <4>1, <4>2, <4>3
    <3>5. h = [k \in 0..(n + 1) |-> h[k]]
      OBVIOUS
    <3> HIDE DEF h
    <3>6. Along(s, n + 1, h)
      BY <3>4, <3>5
    <3> QED BY <3>6
  <2>3. Nat \subseteq T
    <3> HIDE DEF T
    <3> QED BY <2>1, <2>2, Induction
  <2> QED BY <1>1, <2>3
<1>2. ASSUME NEW s, Len(s) \in Nat
      PROVE  /\ TypeAt(o, s) = types(s)[Len(s)]
             /\ Along(s, Len(s), types(s))
  <2>1. TypeAt(o, s) = types(s)[Len(s)]
    BY DEF TypeAt
  <2>2. Along(s, Len(s), types(s))
    <3> HIDE DEF Along
    <3> QED BY <1>1, <1>2
  <2> QED BY <2>1, <2>2
<1> HIDE DEF types
<1>3. TypeAt(o, <<>>) = o.kind
  <2>1. Len(<<>>) = 0
    OBVIOUS
  <2>2. Along(<<>>, 0, types(<<>>)) /\ TypeAt(o, <<>>) = types(<<>>)[0]
    BY <1>2, <2>1
  <2> QED BY <2>2
<1>4. ASSUME q # <<>> PROVE TypeAt(o, q) = Fields[TypeAt(o, Front(q))][NameAt(o, q)].of
  <2> DEFINE r == Front(q)
             m == Len(q) - 1
  <2>1. m \in Nat /\ Len(q) = m + 1 /\ Len(r) = m /\ r = SubSeq(q, 1, m)
    <3>1. Len(q) \in Nat /\ Len(q) # 0
      BY <1>4
    <3>2. r = SubSeq(q, 1, m)
      BY DEF Front
    <3>3. m \in Nat /\ Len(q) = m + 1
      BY <3>1
    <3> HIDE DEF m
    <3>4. Len(SubSeq(q, 1, m)) = m
      BY <3>1, <3>3
    <3> QED BY <3>2, <3>3, <3>4
  <2> DEFINE g == types(q)
             f == types(r)
  <2>2. /\ TypeAt(o, q) = g[m + 1] /\ TypeAt(o, r) = f[m]
        /\ Along(q, m + 1, g) /\ Along(r, m, f)
    <3>1. Len(q) \in Nat /\ Len(r) \in Nat
      BY <2>1
    <3>2. TypeAt(o, q) = g[Len(q)] /\ Along(q, Len(q), g)
      BY <1>2, <3>1
    <3>3. TypeAt(o, r) = f[Len(r)] /\ Along(r, Len(r), f)
      BY <1>2, <3>1
    <3> HIDE DEF Along, g, f, r
    <3> QED BY <2>1, <3>2, <3>3
  <2>3. ASSUME NEW k \in 1..m PROVE SubSeq(r, 1, k) = SubSeq(q, 1, k)
    BY <2>1, <2>3
  <2>4. SubSeq(q, 1, m + 1) = q
    BY <2>1
  <2> HIDE DEF r, g, f, m
  <2> DEFINE T == {n \in Nat : n <= m => g[n] = f[n]}
  <2>5. 0 \in T
    BY <2>1, <2>2
  <2>6. ASSUME NEW n \in Nat, n \in T PROVE n + 1 \in T
    <3> SUFFICES ASSUME n + 1 <= m PROVE g[n + 1] = f[n + 1]
      BY <2>1
    <3>1. /\ n + 1 \in 1..m /\ n + 1 \in 0..m /\ n + 1 \in 0..(m + 1)
          /\ n + 1 # 0 /\ (n + 1) - 1 = n
      BY <2>1
    <3>2. g[n] = f[n]
      BY <2>1, <2>6, <3>1
    <3>3. g[n + 1] = next(q, g, n + 1) /\ f[n + 1] = next(r, f, n + 1)
      <4> HIDE DEF next
      <4> QED BY <2>2, <3>1
    <3> QED BY <2>3, <3>1, <3>2, <3>3
  <2>7. g[m] = f[m]
    <3>1. Nat \subseteq T
      <4> HIDE DEF T
      <4> QED BY <2>5, <2>6, Induction
    <3> QED BY <2>1, <3>1
  <2>8. g[m + 1] = next(q, g, m + 1)
    <3>1. m + 1 \in 0..(m + 1) /\ m + 1 # 0
      BY <2>1
    <3> HIDE DEF next
    <3> QED BY <2>2, <3>1
  <2>9. (m + 1) - 1 = m
    BY <2>1
  <2> QED BY <2>2, <2>4, <2>7, <2>8, <2>9 DEF r
<1> QED BY <1>3, <1>4

-----------------------------------------------------------------------------
(* Selected paths. *)

ListPath(q) == Fields[Parent(q)][NameOf(q)].list

\* One operation, as the validation leaves it.
Valid(o) ==
  /\ o.kind \in Kinds
  /\ o.roots \in Seq(STRING) /\ IsInjective(o.roots)
  /\ \A i \in DOMAIN o.roots : <<o.roots[i]>> \in o.fields
  /\ \A q \in o.fields : Selected(o, q)
  /\ o.deferred \subseteq o.fields
  /\ o.kind = "subscription" => Len(o.roots) = 1

LEMMA ThisIsValid == op \in DOMAIN Operations => Valid(This)
BY OperationsAssumption DEF Valid, This, Kinds

\* Paths shrink to paths.
LEMMA FrontFacts ==
  ASSUME NEW q \in Seq(STRING), Len(q) > 1
  PROVE  /\ Front(q) \in Seq(STRING) /\ Len(Front(q)) = Len(q) - 1
         /\ Front(q) # <<>> /\ Front(q)[1] = q[1]
<1> DEFINE m == Len(q) - 1
<1>1. m \in Nat /\ m >= 1 /\ m <= Len(q) /\ Front(q) = SubSeq(q, 1, m)
  BY DEF Front
<1> HIDE DEF m
<1>2. SubSeq(q, 1, m) \in Seq(STRING) /\ Len(SubSeq(q, 1, m)) = m /\ SubSeq(q, 1, m)[1] = q[1]
  BY <1>1
<1>3. SubSeq(q, 1, m) # <<>>
  <2>1. Len(<<>>) = 0
    OBVIOUS
  <2> QED BY <1>1, <1>2, <2>1
<1> QED BY <1>1, <1>2, <1>3 DEF m

\* Only root fields are fields of the operation itself.
LEMMA ParentFacts ==
  ASSUME Valid(This), NEW q \in This.fields
  PROVE  /\ q \in Seq(STRING) /\ Len(q) \in Nat /\ Len(q) >= 1
         /\ Len(q) > 1 => Front(q) \in This.fields
         /\ Sane(Parent(q), Fields[Parent(q)][NameOf(q)], Objects[Parent(q)], NameOf(q))
         /\ TypeAt(This, q) = Fields[Parent(q)][NameOf(q)].of
         /\ Len(q) = 1 => Parent(q) = This.kind
         /\ Len(q) > 1 => /\ Parent(q) = TypeAt(This, Front(q))
                          /\ Parent(q) \in Leaves \cup Pages
<1>1. Selected(This, q)
  BY DEF Valid
<1>2. q \in Seq(STRING) /\ q # <<>> /\ Len(q) \in Nat /\ Len(q) >= 1
  BY <1>1 DEF Selected
<1>3. Len(q) > 1 => Front(q) \in This.fields
  <2>1. Len(q) = 1 \/ Front(q) \in This.fields
    BY <1>1 DEF Selected
  <2> DEFINE n == Len(q)
  <2>2. n \in Nat /\ n >= 1
    BY <1>2
  <2> HIDE DEF n
  <2>3. n > 1 => n # 1
    BY <2>2
  <2> QED BY <2>1, <2>3, Zenon DEF n
<1>4. Parent(q) \in Types /\ NameOf(q) \in DOMAIN Fields[Parent(q)]
  BY <1>1 DEF Selected, Parent, NameOf, Types
<1>5. Sane(Parent(q), Fields[Parent(q)][NameOf(q)], Objects[Parent(q)], NameOf(q))
  BY <1>4, SchemaFacts
<1>6. TypeAt(This, q) = Fields[Parent(q)][NameOf(q)].of
  BY <1>2, TypeAtStep DEF Parent, NameOf
<1>7. ASSUME Len(q) = 1 PROVE Parent(q) = This.kind
  <2>1. Front(q) = <<>>
    BY <1>2, <1>7 DEF Front
  <2>2. TypeAt(This, <<>>) = This.kind
    BY <1>2, TypeAtStep
  <2> QED BY <2>1, <2>2 DEF Parent
<1>8. ASSUME Len(q) > 1
      PROVE  Parent(q) = TypeAt(This, Front(q)) /\ Parent(q) \in Leaves \cup Pages
  <2> DEFINE r == Front(q)
  <2>1. r \in This.fields /\ r \in Seq(STRING) /\ r # <<>>
    BY <1>2, <1>3, <1>8, FrontFacts
  <2>2. Selected(This, r)
    BY <2>1 DEF Valid
  <2>3. Parent(r) \in Types /\ NameOf(r) \in DOMAIN Fields[Parent(r)]
    BY <2>2 DEF Selected, Parent, NameOf, Types
  <2>4. Sane(Parent(r), Fields[Parent(r)][NameOf(r)], Objects[Parent(r)], NameOf(r))
    BY <2>3, SchemaFacts
  <2>5. TypeAt(This, r) = Fields[Parent(r)][NameOf(r)].of
    BY <2>1, TypeAtStep DEF Parent, NameOf
  <2>6. TypeAt(This, r) \in Leaves \cup Pages
    <3> HIDE DEF r
    <3> QED BY <2>4, <2>5 DEF Sane
  <2> QED BY <2>6 DEF Parent
<1> QED BY <1>2, <1>3, <1>5, <1>6, <1>7, <1>8

PathOK(q) ==
  /\ q \in Seq(STRING) /\ Len(q) \in Nat /\ Len(q) >= 1
  /\ Len(q) > 1 => /\ Front(q) \in This.fields /\ Front(q) \in Seq(STRING)
                   /\ Len(Front(q)) = Len(q) - 1 /\ Front(q)[1] = q[1]
  /\ Len(q) = 1 => \E i \in DOMAIN This.roots : q = <<This.roots[i]>>
  /\ ListPath(q) => /\ Len(q) = 2
                    /\ ~Runs("concurrent", q) /\ ~Runs("deferrable", q) /\ ~IsScalar(q)
  /\ Len(q) = 1 => ~Runs("deferrable", q) /\ ~Runs("nullable", q) /\ ~IsScalar(q)
  /\ Runs("concurrent", q) \/ Runs("deferrable", q) => ~Runs("nullable", q)
  /\ Runs("nullable", q) => IsScalar(q)
  /\ This.kind = "mutation" /\ Len(q) = 1 => ~Runs("concurrent", q)

LEMMA PathFacts ==
  ASSUME Valid(This), NEW q \in This.fields
  PROVE  PathOK(q)
<1> DEFINE t == Parent(q)
           name == NameOf(q)
           field == Fields[t][name]
           how == Objects[t]
<1>1. /\ q \in Seq(STRING) /\ Len(q) \in Nat /\ Len(q) >= 1
      /\ Len(q) > 1 => Front(q) \in This.fields
      /\ Sane(t, field, how, name)
      /\ TypeAt(This, q) = field.of
      /\ Len(q) = 1 => t = This.kind
      /\ Len(q) > 1 => t \in Leaves \cup Pages
  BY ParentFacts
<1>2. This.kind \in Kinds /\ (t \in Leaves \cup Pages => t \notin Kinds)
  BY DEF Valid, Kinds, Leaves, Pages
<1>3. Len(q) > 1 => /\ Front(q) \in Seq(STRING)
                    /\ Len(Front(q)) = Len(q) - 1 /\ Front(q)[1] = q[1]
  BY <1>1, FrontFacts
<1>4. ASSUME Len(q) = 1 PROVE \E i \in DOMAIN This.roots : q = <<This.roots[i]>>
  <2>1. PICK i \in DOMAIN This.roots : This.roots[i] = q[1]
    BY DEF Valid, Selected
  <2>2. q = <<q[1]>>
    BY <1>1, <1>4
  <2> QED BY <2>1, <2>2
<1>5. ASSUME t \in Pages PROVE Len(q) = 2
  <2>1. t \notin Kinds
    BY <1>5 DEF Pages, Kinds
  <2>2. Len(q) > 1
    <3>1. Len(q) # 1
      BY <1>1, <1>2, <2>1, Zenon
    <3> DEFINE n == Len(q)
    <3>2. n # 1 /\ n \in Nat /\ n >= 1
      BY <1>1, <3>1
    <3> HIDE DEF n
    <3>3. n > 1
      BY <3>2
    <3> QED BY <3>3 DEF n
  <2> DEFINE r == Front(q)
  <2>3. r \in This.fields /\ Len(r) = Len(q) - 1 /\ t = TypeAt(This, r)
    BY <1>3, <2>2, ParentFacts
  <2>4. /\ Sane(Parent(r), Fields[Parent(r)][NameOf(r)], Objects[Parent(r)], NameOf(r))
        /\ TypeAt(This, r) = Fields[Parent(r)][NameOf(r)].of
        /\ Len(r) > 1 => Parent(r) \in Leaves \cup Pages
    BY <2>3, ParentFacts
  <2>5. Parent(r) = "query"
    <3> HIDE DEF r
    <3> QED BY <1>5, <2>3, <2>4 DEF Sane
  <2>6. "query" \notin Leaves \cup Pages
    BY DEF Leaves, Pages
  <2>7. Len(r) \in Nat /\ Len(r) >= 1
    BY <2>3, ParentFacts
  <2> HIDE DEF r
  <2> QED BY <1>1, <2>3, <2>4, <2>5, <2>6, <2>7
<1> DEFINE conc == Runs("concurrent", q)
           later == Runs("deferrable", q)
           opt == Runs("nullable", q)
           many == ListPath(q)
           leaf == IsScalar(q)
<1>6. /\ conc <=> name \in how.concurrent
      /\ later <=> name \in how.deferrable
      /\ opt <=> name \in how.nullable
      /\ many <=> field.list
      /\ leaf <=> field.of = ""
  BY <1>1 DEF Runs, ListPath, IsScalar
<1> HIDE DEF t, name, field, how, conc, later, opt, many, leaf
<1>7. many => t \in Pages /\ ~leaf
  BY <1>1, <1>6 DEF Sane
<1>8. t \in Pages => ~conc /\ ~later
  BY <1>1, <1>6 DEF Sane
<1>9. t \in Kinds => ~later /\ ~opt /\ ~leaf
  BY <1>1, <1>6 DEF Sane
<1>10. /\ conc \/ later => ~opt
       /\ opt => leaf
       /\ t = "mutation" => ~conc
  BY <1>1, <1>6 DEF Sane
<1> QED
  BY ONLY <1>1, <1>2, <1>3, <1>4, <1>5, <1>7, <1>8, <1>9, <1>10
     DEF PathOK, conc, later, opt, many, leaf

-----------------------------------------------------------------------------
(* Positions. *)

\* Whether a path leads into a list, the list itself included.
Inside(q) == Len(q) > 1 /\ ListPath(SubSeq(q, 1, 2))

\* A position that a response may have.
Place(d) ==
  /\ d \in [path : This.fields, n : Nat]
  /\ d.n > 0 => Inside(d.path)
  /\ d.n = 0 /\ Inside(d.path) => Len(d.path) = 2

\* The value that waits for the one at d, unless d is a root or d is deferred.
Up(d) == IF IsElement(d) THEN At(d.path, 0) ELSE At(Front(d.path), d.n)

Under(q, p) == IF IsList(p) THEN q.path = p.path /\ q.n > 0
               ELSE Len(q.path) > 1 /\ Front(q.path) = p.path /\ q.n = p.n

Inline(d) == d \notin Roots /\ ~Deferred(d.path)

LEMMA InsideFacts ==
  ASSUME Valid(This), NEW q \in This.fields
  PROVE  /\ Len(q) = 1 => ~Inside(q)
         /\ Len(q) = 2 => (Inside(q) <=> ListPath(q))
         /\ Len(q) > 2 => (Inside(q) <=> Inside(Front(q)))
         /\ ListPath(q) => Len(q) = 2 /\ Inside(q)
<1>1. q \in Seq(STRING) /\ (ListPath(q) => Len(q) = 2)
  BY PathFacts DEF PathOK
<1>2. ASSUME Len(q) = 2 PROVE Inside(q) <=> ListPath(q)
  <2>1. SubSeq(q, 1, 2) = q
    BY <1>1, <1>2
  <2>2. Len(q) > 1
    BY ONLY <1>2
  <2> QED BY ONLY <2>1, <2>2 DEF Inside
<1>3. ASSUME Len(q) > 2 PROVE Inside(q) <=> Inside(Front(q))
  <2> DEFINE m == Len(q) - 1
  <2>1. m \in Nat /\ m > 1 /\ m <= Len(q) /\ Front(q) = SubSeq(q, 1, m)
    BY <1>1, <1>3 DEF Front
  <2> HIDE DEF m
  <2>2. Len(SubSeq(q, 1, m)) = m /\ SubSeq(SubSeq(q, 1, m), 1, 2) = SubSeq(q, 1, 2)
    BY <1>1, <2>1
  <2>3. Len(q) > 1
    BY <1>3
  <2> QED BY <2>1, <2>2, <2>3 DEF Inside
<1>4. Len(q) = 1 => ~Inside(q)
  BY ONLY DEF Inside
<1> QED BY ONLY <1>1, <1>2, <1>3, <1>4

\* Roots are the positions of length one.
LEMMA RootFacts ==
  ASSUME Valid(This), NEW d, Place(d)
  PROVE  /\ d \in Roots <=> Len(d.path) = 1
         /\ d \in Roots => /\ d.n = 0 /\ ~IsElement(d) /\ ~IsList(d)
                           /\ ~Deferred(d.path) /\ Counts(d)
<1> DEFINE q == d.path
<1>1. q \in This.fields /\ d.n \in Nat /\ d = At(q, d.n)
  BY DEF Place, At
<1>2. PathOK(q) /\ (Len(q) = 1 => ~Inside(q))
  BY <1>1, PathFacts, InsideFacts
<1>3. ASSUME Len(q) = 1 PROVE d \in Roots /\ d.n = 0
  <2>1. d.n = 0
    BY <1>1, <1>2, <1>3 DEF Place
  <2>2. PICK i \in DOMAIN This.roots : q = <<This.roots[i]>>
    BY <1>2, <1>3 DEF PathOK
  <2> QED BY <1>1, <2>1, <2>2 DEF Roots
<1>4. ASSUME d \in Roots PROVE Len(q) = 1
  <2>1. PICK i \in DOMAIN This.roots : d = At(<<This.roots[i]>>, 0)
    BY <1>4 DEF Roots
  <2>2. q = <<This.roots[i]>>
    BY <2>1 DEF At
  <2> QED BY <2>2
<1>5. ASSUME Len(q) = 1
      PROVE  ~IsElement(d) /\ ~IsList(d) /\ ~Deferred(q) /\ Counts(d)
  <2>1. ~ListPath(q) /\ ~Runs("deferrable", q) /\ ~Runs("nullable", q)
    BY <1>2, <1>5 DEF PathOK
  <2> QED BY <2>1 DEF ListPath, IsElement, IsList, Deferred, Counts
<1> QED BY <1>3, <1>4, <1>5

LEMMA RootsArePlaces ==
  ASSUME Valid(This), NEW d \in Roots
  PROVE  Place(d)
<1>1. PICK i \in DOMAIN This.roots : d = At(<<This.roots[i]>>, 0)
  BY DEF Roots
<1> DEFINE q == <<This.roots[i]>>
<1>2. q \in This.fields /\ Len(q) = 1
  BY DEF Valid
<1>3. ~Inside(q)
  <2> HIDE DEF q
  <2> QED BY <1>2, InsideFacts
<1>4. d = [path |-> q, n |-> 0]
  BY <1>1 DEF At
<1> HIDE DEF q
<1> QED BY <1>2, <1>3, <1>4 DEF Place

\* An element hangs from its list, and any other value from its object.
LEMMA UpFacts ==
  ASSUME Valid(This), NEW d, Place(d), d \notin Roots
  PROVE  /\ Place(Up(d)) /\ Under(d, Up(d))
         /\ Up(d).path[1] = d.path[1]
         /\ IF IsElement(d) THEN Up(d) = At(d.path, 0) /\ IsList(Up(d)) /\ Len(d.path) = 2
            ELSE /\ Up(d) = At(Front(d.path), d.n) /\ ~IsList(Up(d))
                 /\ Len(d.path) > 1 /\ Len(Front(d.path)) = Len(d.path) - 1
<1> DEFINE q == d.path
<1>1. q \in This.fields /\ d.n \in Nat
  BY DEF Place
<1>2. PathOK(q) /\ Len(q) # 1 /\ Len(q) \in Nat
  BY <1>1, PathFacts, RootFacts DEF PathOK
<1>3. Len(q) > 1
  <2> DEFINE k == Len(q)
  <2>1. k \in Nat /\ k >= 1 /\ k # 1
    BY <1>2 DEF PathOK
  <2> HIDE DEF k
  <2>2. k > 1
    BY <2>1
  <2> QED BY <2>2 DEF k
<1>4. CASE IsElement(d)
  <2>1. ListPath(q) /\ d.n > 0
    BY <1>4 DEF IsElement, ListPath
  <2>2. Len(q) = 2 /\ Inside(q)
    BY <1>1, <2>1, InsideFacts
  <2> DEFINE u == At(q, 0)
  <2>3. u.path = q /\ u.n = 0 /\ u \in [path : This.fields, n : Nat]
    BY <1>1 DEF At
  <2>4. Up(d) = u
    BY <1>4 DEF Up
  <2> HIDE DEF u, q
  <2>5. Place(u) /\ IsList(u)
    BY <2>1, <2>2, <2>3 DEF Place, IsList, ListPath
  <2>6. Under(d, u)
    BY <2>1, <2>3, <2>5 DEF Under, q
  <2> QED BY <1>4, <2>2, <2>3, <2>4, <2>5, <2>6 DEF u, q
<1>5. CASE ~IsElement(d)
  <2> DEFINE r == Front(q)
             u == At(r, d.n)
  <2>1. r \in This.fields /\ Len(r) = Len(q) - 1 /\ r[1] = q[1]
    BY <1>2, <1>3 DEF PathOK
  <2>2. u.path = r /\ u.n = d.n /\ u \in [path : This.fields, n : Nat]
    BY <1>1, <2>1 DEF At
  <2>3. Up(d) = u
    BY <1>5 DEF Up
  <2>4. d.n > 0 => Inside(q)
    BY DEF Place
  <2>5. d.n = 0 /\ Inside(q) => Len(q) = 2
    BY DEF Place
  <2>6. d.n > 0 => ~ListPath(q)
    BY <1>5 DEF IsElement, ListPath
  <2>7. /\ Len(q) = 2 => (Inside(q) <=> ListPath(q))
        /\ Len(q) > 2 => (Inside(q) <=> Inside(r))
        /\ ListPath(r) => Len(r) = 2 /\ Inside(r)
        /\ Len(r) = 1 => ~Inside(r)
    BY <1>1, <2>1, InsideFacts
  <2> DEFINE k == Len(q)
             j == Len(r)
  <2>8. k \in Nat /\ k > 1 /\ j = k - 1
    BY <1>2, <1>3, <2>1
  <2> HIDE DEF u, r, q, k, j
  <2>9. /\ k = 2 => (Inside(q) <=> ListPath(q))
        /\ k > 2 => (Inside(q) <=> Inside(r))
        /\ ListPath(r) => j = 2 /\ Inside(r)
        /\ j = 1 => ~Inside(r)
        /\ d.n = 0 /\ Inside(q) => k = 2
    BY <2>5, <2>7 DEF k, j
  <2>10. d.n > 0 => Inside(r)
    BY <1>1, <2>4, <2>6, <2>8, <2>9
  <2>11. d.n = 0 /\ Inside(r) => j = 2
    BY <1>1, <2>8, <2>9
  <2>12. ~(d.n = 0 /\ ListPath(r))
    BY <1>1, <2>8, <2>9
  <2>13. Place(u)
    BY <2>2, <2>10, <2>11 DEF Place, j
  <2>14. ~IsList(u)
    BY <2>2, <2>12 DEF IsList, ListPath
  <2>15. Under(d, u)
    BY <1>3, <2>2, <2>14 DEF Under, r, q
  <2> QED BY <1>3, <1>5, <2>1, <2>2, <2>3, <2>13, <2>14, <2>15 DEF u, r, q
<1> QED BY <1>4, <1>5

\* A deferred value is in the group of the object that it is a field of.
LEMMA DeferredFacts ==
  ASSUME Valid(This), NEW d, Place(d), Deferred(d.path)
  PROVE  /\ d \notin Roots /\ ~IsElement(d) /\ ~IsList(d) /\ Counts(d)
         /\ Up(d) = At(Front(d.path), d.n) /\ d \in Postponed(Up(d))
<1> DEFINE q == d.path
<1>1. q \in This.fields /\ d.n \in Nat /\ d = At(q, d.n)
  BY DEF Place, At
<1>2. d \notin Roots
  BY RootFacts
<1>3. Runs("deferrable", q) /\ PathOK(q)
  BY <1>1, PathFacts DEF Deferred
<1>4. ~IsElement(d) /\ ~IsList(d) /\ ~Runs("nullable", q)
  BY <1>3 DEF PathOK, IsElement, IsList, ListPath
<1>5. Counts(d)
  BY <1>4 DEF Counts
<1>6. /\ Up(d) = At(Front(q), d.n) /\ ~IsList(Up(d))
      /\ Len(q) > 1
  BY <1>2, <1>4, UpFacts
<1> DEFINE u == At(Front(q), d.n)
<1>7. u.path = Front(q) /\ u.n = d.n
  BY DEF At
<1>8. d \in Below(u)
  <2> HIDE DEF u, q
  <2>1. q \in {r \in This.fields : ~IsList(u) /\ Len(r) > 1 /\ Front(r) = u.path}
    BY <1>1, <1>6, <1>7 DEF u
  <2> QED BY <1>1, <1>7, <2>1 DEF Below
<1> QED BY <1>2, <1>4, <1>5, <1>6, <1>8 DEF Postponed

\* What is under a value has it above.
LEMMA UnderFacts ==
  ASSUME Valid(This), NEW p, Place(p), NEW d, Place(d), Under(d, p)
  PROVE  d \notin Roots /\ Up(d) = p
<1>0. /\ d.path \in This.fields /\ d.n \in Nat /\ p.path \in This.fields /\ p.n \in Nat
      /\ p = At(p.path, p.n)
  BY DEF Place, At
<1>1. CASE IsList(p)
  <2>1. d.path = p.path /\ d.n > 0 /\ p.n = 0 /\ ListPath(p.path)
    BY <1>1 DEF Under, IsList, ListPath
  <2>2. IsElement(d)
    BY <2>1 DEF IsElement, ListPath
  <2>3. d \notin Roots
    BY <2>2, RootFacts
  <2> QED BY <1>0, <2>1, <2>2, <2>3 DEF Up
<1>2. CASE ~IsList(p)
  <2>1. Len(d.path) > 1 /\ Front(d.path) = p.path /\ d.n = p.n
    BY <1>2 DEF Under
  <2>2. d \notin Roots
    <3>1. ASSUME Len(d.path) = 1 PROVE FALSE
      BY <2>1, <3>1
    <3> QED BY <3>1, RootFacts
  <2>3. ~IsElement(d)
    <3>1. ASSUME IsElement(d) PROVE FALSE
      <4>1. d.n > 0 /\ ListPath(d.path)
        BY <3>1 DEF IsElement, ListPath
      <4>2. Len(d.path) = 2 /\ PathOK(d.path)
        BY <1>0, <4>1, PathFacts DEF PathOK
      <4>3. Len(p.path) = 1
        <5>1. Len(Front(d.path)) = Len(d.path) - 1
          BY <2>1, <4>2 DEF PathOK
        <5>2. Len(p.path) = 2 - 1
          BY ONLY <2>1, <4>2, <5>1
        <5> QED BY ONLY <5>2
      <4>4. ~Inside(p.path)
        BY <1>0, <4>3, InsideFacts
      <4> QED BY <1>0, <2>1, <4>1, <4>4 DEF Place
    <3> QED BY <3>1
  <2> QED BY <1>0, <2>1, <2>2, <2>3 DEF Up
<1> QED BY <1>1, <1>2

\* The fields of an object are places under it.
LEMMA BelowFacts ==
  ASSUME Valid(This), NEW p, Place(p), NEW d \in Below(p)
  PROVE  /\ Place(d) /\ Under(d, p) /\ d \notin Roots /\ Up(d) = p
         /\ ~IsElement(d) /\ ~IsList(p)
<1>1. PICK q \in This.fields :
        ~IsList(p) /\ Len(q) > 1 /\ Front(q) = p.path /\ d = At(q, p.n)
  BY DEF Below
<1>2. d.path = q /\ d.n = p.n /\ p.n \in Nat /\ p.path \in This.fields
  BY <1>1 DEF At, Place
<1>3. d \in [path : This.fields, n : Nat]
  BY <1>1, <1>2 DEF At
<1>4. PathOK(q) /\ PathOK(p.path)
  BY <1>2, PathFacts
<1> DEFINE k == Len(q)
           j == Len(p.path)
<1>5. k \in Nat /\ k > 1 /\ j \in Nat /\ j = k - 1
  <2>1. Len(Front(q)) = Len(q) - 1
    BY <1>1, <1>4 DEF PathOK
  <2>2. k \in Nat /\ k > 1
    BY <1>1, <1>4 DEF PathOK
  <2>3. j = k - 1
    BY <1>1, <2>1
  <2> HIDE DEF k, j
  <2> QED BY <2>2, <2>3
<1>6. /\ k = 2 => (Inside(q) <=> ListPath(q))
      /\ k > 2 => (Inside(q) <=> Inside(p.path))
      /\ ListPath(q) => k = 2
  BY <1>1, InsideFacts
<1>7. j = 1 => ~Inside(p.path)
  BY <1>2, InsideFacts
<1>8. p.n > 0 => Inside(p.path)
  BY DEF Place
<1>9. p.n = 0 /\ Inside(p.path) => j = 2
  BY DEF Place
<1>10. j = 2 => (Inside(p.path) <=> ListPath(p.path))
  BY <1>2, InsideFacts
<1>11. ~(p.n = 0 /\ ListPath(p.path))
  BY <1>1 DEF IsList, ListPath
<1> HIDE DEF k, j
<1>12. p.n > 0 => Inside(q)
  BY <1>2, <1>5, <1>6, <1>7, <1>8
<1>13. p.n = 0 /\ Inside(q) => k = 2
  BY <1>5, <1>6, <1>9, <1>10, <1>11
<1>14. Place(d)
  BY <1>2, <1>3, <1>12, <1>13 DEF Place, k
<1>15. Under(d, p)
  BY <1>1, <1>2 DEF Under
<1>16. d \notin Roots /\ Up(d) = p
  BY <1>14, <1>15, UnderFacts
<1>17. ~IsElement(d)
  <2>1. ~(p.n > 0 /\ ListPath(q))
    BY <1>2, <1>5, <1>6, <1>7, <1>8
  <2> QED BY <1>2, <2>1 DEF IsElement, ListPath
<1> QED BY <1>1, <1>14, <1>15, <1>16, <1>17

\* So are the elements of a list.
LEMMA ElementFacts ==
  ASSUME Valid(This), NEW p, Place(p), IsList(p), NEW i \in Nat \ {0},
         NEW d, d = At(p.path, i)
  PROVE  /\ Place(d) /\ d \notin Roots /\ Up(d) = p
         /\ IsElement(d) /\ ~IsList(d) /\ ~Deferred(d.path)
<1>1. /\ d.path = p.path /\ d.n = i /\ p.path \in This.fields /\ p.n = 0 /\ ListPath(p.path)
      /\ p = At(p.path, 0)
  BY DEF At, IsList, ListPath, Place
<1>2. d \in [path : This.fields, n : Nat]
  BY <1>1 DEF At
<1>3. Inside(p.path) /\ PathOK(p.path)
  BY <1>1, InsideFacts, PathFacts
<1>4. Place(d)
  BY <1>1, <1>2, <1>3 DEF Place
<1>5. IsElement(d) /\ ~IsList(d)
  BY <1>1 DEF IsElement, IsList, ListPath
<1>6. d \notin Roots
  BY <1>4, <1>5, RootFacts
<1>7. ~Deferred(d.path)
  BY <1>1, <1>3 DEF PathOK, Deferred
<1> QED BY <1>1, <1>4, <1>5, <1>6, <1>7 DEF Up

-----------------------------------------------------------------------------
(* Groups. *)

Cuts(q) == {k \in 2..Len(q) : Deferred(SubSeq(q, 1, k))}

LargestOf(T, k) == k \in T /\ \A m \in T : m <= k

LEMMA LargestIs ==
  ASSUME NEW n \in Nat, NEW T, T \subseteq 1..n, T # {}
  PROVE  \E k : LargestOf(T, k)
<1> DEFINE U == {n - k : k \in T}
<1>1. U \subseteq Nat /\ U # {}
  <2>1. \A k \in T : n - k \in Nat
    <3>1. \A k \in 1..n : n - k \in Nat
      OBVIOUS
    <3> QED BY <3>1
  <2> QED BY <2>1
<1>2. PICK m \in U : \A j \in U : m <= j
  <2> HIDE DEF U
  <2> QED BY <1>1, FirstNatural
<1>3. PICK k \in T : m = n - k
  BY <1>2
<1>4. ASSUME NEW j \in T PROVE j <= k
  <2>1. n - j \in U
    OBVIOUS
  <2>2. n - k <= n - j
    BY <1>2, <1>3, <2>1
  <2>3. j \in Nat /\ k \in Nat
    OBVIOUS
  <2> QED BY <2>2, <2>3
<1> QED BY <1>4 DEF LargestOf

\* The cut of a path: where its last deferred field is.
Cut(q) == CHOOSE k : LargestOf(Cuts(q), k)

LEMMA GroupIs ==
  ASSUME NEW d
  PROVE  GroupOf(d) = IF Cuts(d.path) = {} THEN Whole
                      ELSE At(SubSeq(d.path, 1, Cut(d.path) - 1), d.n)
<1> DEFINE T == Cuts(d.path)
<1>1. (CHOOSE k \in T : \A m \in T : m <= k) = (CHOOSE k : LargestOf(T, k))
  <2>1. \A k : (k \in T /\ \A m \in T : m <= k) <=> LargestOf(T, k)
    BY DEF LargestOf
  <2> HIDE DEF T
  <2> QED BY <2>1
<1>2. GroupOf(d) = IF T = {} THEN Whole
                   ELSE At(SubSeq(d.path, 1, (CHOOSE k \in T : \A m \in T : m <= k) - 1), d.n)
  BY Zenon DEF GroupOf, Cuts
<1> QED BY <1>1, <1>2, Zenon DEF Cut

LEMMA GroupFacts ==
  ASSUME Valid(This), NEW d, Place(d)
  PROVE  /\ d \in Roots => GroupOf(d) = Whole
         /\ Deferred(d.path) => GroupOf(d) = Up(d)
         /\ Inline(d) => GroupOf(d) = GroupOf(Up(d))
<1> DEFINE q == d.path
<1>1. q \in This.fields /\ PathOK(q) /\ d.n \in Nat
  BY PathFacts DEF Place
<1>2. q \in Seq(STRING) /\ Len(q) \in Nat
  BY <1>1 DEF PathOK
<1>3. ASSUME d \in Roots PROVE GroupOf(d) = Whole
  <2>1. Len(q) = 1
    BY <1>3, RootFacts
  <2>2. Cuts(q) = {}
    BY <2>1 DEF Cuts
  <2> QED BY <2>2, GroupIs
<1>4. ASSUME Deferred(q) PROVE GroupOf(d) = Up(d)
  <2>1. d \notin Roots /\ ~IsElement(d) /\ Up(d) = At(Front(q), d.n)
    BY <1>4, DeferredFacts
  <2> DEFINE k == Len(q)
  <2>2. k > 1 /\ k \in Nat
    BY <1>2, <2>1, UpFacts
  <2>3. SubSeq(q, 1, k) = q /\ SubSeq(q, 1, k - 1) = Front(q)
    BY <1>2 DEF Front
  <2> HIDE DEF k
  <2>4. LargestOf(Cuts(q), k)
    <3>1. k \in 2..k
      BY <2>2
    <3>2. Cuts(q) = {m \in 2..k : Deferred(SubSeq(q, 1, m))}
      BY DEF Cuts, k
    <3>3. k \in Cuts(q)
      BY <1>4, <2>3, <3>1, <3>2
    <3>4. \A m \in 2..k : m <= k
      OBVIOUS
    <3>5. \A m \in Cuts(q) : m <= k
      BY <3>2, <3>4
    <3> QED BY <3>3, <3>5 DEF LargestOf
  <2>5. ASSUME NEW m, LargestOf(Cuts(q), m) PROVE m = k
    <3>1. m \in Cuts(q) /\ k \in Cuts(q) /\ m <= k /\ k <= m
      BY <2>4, <2>5 DEF LargestOf
    <3>2. m \in Int /\ k \in Int
      BY <3>1 DEF Cuts
    <3> QED BY <3>1, <3>2
  <2>6. Cut(q) = k
    BY <2>4, <2>5 DEF Cut
  <2>7. Cuts(q) # {}
    BY <2>4 DEF LargestOf
  <2> QED BY <2>1, <2>3, <2>6, <2>7, GroupIs
<1>5. ASSUME Inline(d) PROVE GroupOf(d) = GroupOf(Up(d))
  <2>0. d \notin Roots /\ ~Deferred(q)
    BY <1>5 DEF Inline
  <2>1. CASE IsElement(d)
    <3>1. Up(d) = At(q, 0) /\ Len(q) = 2
      BY <2>0, <2>1, UpFacts
    <3>2. SubSeq(q, 1, 2) = q
      BY <1>2, <3>1
    <3>3. Cuts(q) = {}
      <4>1. \A k \in 2..2 : k = 2
        OBVIOUS
      <4>2. Cuts(q) = {k \in 2..2 : Deferred(SubSeq(q, 1, k))}
        BY <3>1 DEF Cuts
      <4> QED BY <2>0, <3>2, <4>1, <4>2
    <3>4. Up(d).path = q
      BY <3>1 DEF At
    <3>5. GroupOf(d) = Whole
      BY <3>3, GroupIs
    <3> DEFINE u == Up(d)
    <3>6. Cuts(u.path) = {}
      BY <3>3, <3>4
    <3> HIDE DEF u
    <3>7. GroupOf(u) = Whole
      BY <3>6, GroupIs
    <3> QED BY <3>5, <3>7 DEF u
  <2>2. CASE ~IsElement(d)
    <3> DEFINE r == Front(q)
               u == Up(d)
               k == Len(q)
    <3>1. u = At(r, d.n) /\ Len(q) > 1 /\ Len(r) = Len(q) - 1
      BY <2>0, <2>2, UpFacts
    <3>2. u.path = r /\ u.n = d.n
      BY <3>1 DEF At
    <3>3. k \in Nat /\ k > 1 /\ Len(r) = k - 1 /\ r = SubSeq(q, 1, k - 1)
      BY <1>2, <3>1 DEF Front
    <3>4. SubSeq(q, 1, k) = q
      BY <1>2
    <3>5. ASSUME NEW m \in 1..(k - 1) PROVE SubSeq(r, 1, m) = SubSeq(q, 1, m)
      BY <1>2, <3>3, <3>5
    <3>6. ASSUME NEW m \in 2..(k - 1) PROVE SubSeq(r, 1, m - 1) = SubSeq(q, 1, m - 1)
      <4>1. m - 1 \in 1..(k - 1)
        BY <3>3
      <4> QED BY <3>5, <4>1
    <3>7. Cuts(r) = Cuts(q)
      <4>1. Cuts(q) = {m \in 2..k : Deferred(SubSeq(q, 1, m))}
        BY DEF Cuts
      <4>2. Cuts(r) = {m \in 2..(k - 1) : Deferred(SubSeq(r, 1, m))}
        BY <3>3 DEF Cuts
      <4> HIDE DEF r, k
      <4>3. \A m \in 2..k : m = k \/ m \in 2..(k - 1)
        BY <3>3
      <4>4. \A m \in 2..(k - 1) : m \in 2..k /\ m \in 1..(k - 1)
        BY <3>3
      <4> QED BY <2>0, <3>4, <3>5, <4>1, <4>2, <4>3, <4>4
    <3> HIDE DEF r, u
    <3>8. GroupOf(u) = IF Cuts(r) = {} THEN Whole ELSE At(SubSeq(r, 1, Cut(r) - 1), d.n)
      BY <3>2, GroupIs
    <3>9. ASSUME Cuts(q) # {} PROVE SubSeq(r, 1, Cut(r) - 1) = SubSeq(q, 1, Cut(q) - 1)
      <4>1. Cuts(r) \subseteq 2..(k - 1)
        <5>1. Cuts(r) \subseteq 2..Len(r)
          BY DEF Cuts
        <5> QED BY <3>3, <5>1
      <4>2. Cut(r) \in Cuts(r)
        <5>1. Cuts(r) \subseteq 1..(k - 1) /\ k - 1 \in Nat
          <6> HIDE DEF k
          <6> QED BY <3>3, <4>1
        <5>2. \E m : LargestOf(Cuts(r), m)
          BY <3>7, <3>9, <5>1, LargestIs
        <5>3. LargestOf(Cuts(r), Cut(r))
          BY <5>2 DEF Cut
        <5> QED BY <5>3 DEF LargestOf
      <4>3. Cut(r) = Cut(q)
        BY <3>7 DEF Cut
      <4> QED BY <3>6, <4>1, <4>2, <4>3
    <3> QED BY <3>7, <3>8, <3>9, GroupIs DEF u
  <2> QED BY <2>1, <2>2
<1> QED BY <1>3, <1>4, <1>5

-----------------------------------------------------------------------------
(* The tree of values. *)

\* How a value stands to the one above it: that one has begun before it, has not
\* ended before it unless it is deferred, and is not left without its null.
Hangs(v, d) ==
  /\ Place(d) /\ v[d] \in {"todo", "open", "ok", "null"}
  /\ v[d] = "todo" => Counts(d) /\ ~IsList(d)
  /\ d \notin Roots => Up(d) \in DOMAIN v /\ v[Up(d)] # "todo"
  /\ Deferred(d.path) => v[Up(d)] = "ok" /\ Postponed(Up(d)) \subseteq DOMAIN v
  /\ Inline(d) => /\ v[d] = "null" /\ Counts(d) => v[Up(d)] # "ok"
                  /\ v[Up(d)] \in {"ok", "null"} => v[d] \in {"ok", "null"}

Tree(v) == \A d \in DOMAIN v : Hangs(v, d)

\* Every null that counts has an error in its own group, and every error has made
\* its field null.
Blamed(v, e) ==
  \A d \in DOMAIN v : v[d] = "null" /\ Counts(d) => \E x \in e : GroupOf(x) = GroupOf(d)

Fallen(v, e) == \A x \in e : x \in DOMAIN v /\ v[x] = "null" /\ Counts(x)

\* A value that was to do ends, or begins, with nothing below it.
LEMMA TurnKeepsTree ==
  ASSUME Valid(This), NEW v, Tree(v), NEW p \in DOMAIN v, v[p] = "todo",
         NEW x \in {"open", "ok", "null"}, NEW w, w = [v EXCEPT ![p] = x]
  PROVE  Tree(w)
<1>1. /\ DOMAIN w = DOMAIN v /\ w[p] = x
      /\ \A d \in DOMAIN v : d # p => w[d] = v[d]
  OBVIOUS
<1>2. ASSUME NEW d \in DOMAIN v, d # p PROVE Hangs(w, d)
  <2>1. Hangs(v, d)
    BY DEF Tree
  <2>2. d \notin Roots => Up(d) # p
    BY <2>1 DEF Hangs
  <2>3. d \notin Roots => w[Up(d)] = v[Up(d)]
    BY <1>1, <2>1, <2>2 DEF Hangs
  <2>4. Deferred(d.path) => d \notin Roots
    BY <2>1, DeferredFacts DEF Hangs
  <2>5. w[d] = v[d]
    BY <1>1, <1>2
  <2> QED BY ONLY <1>1, <2>1, <2>3, <2>4, <2>5 DEF Hangs, Inline
<1>3. Hangs(w, p)
  <2>1. Hangs(v, p)
    BY DEF Tree
  <2>2. p \notin Roots => Up(p) # p
    BY <2>1 DEF Hangs
  <2>3. p \notin Roots => w[Up(p)] = v[Up(p)]
    BY <1>1, <2>1, <2>2 DEF Hangs
  <2>4. Deferred(p.path) => p \notin Roots
    BY <2>1, DeferredFacts DEF Hangs
  <2>5. Inline(p) => v[Up(p)] \notin {"ok", "null"}
    BY <2>1 DEF Hangs
  <2> QED BY ONLY <1>1, <2>1, <2>3, <2>4, <2>5, x \in {"open", "ok", "null"} DEF Hangs, Inline
<1> QED BY <1>1, <1>2, <1>3 DEF Tree

\* The values that come with an object are under it, or under its lists and their
\* elements, and none of them is deferred.
Sprouts(new, p) ==
  \A d \in DOMAIN new :
    /\ Place(d) /\ Inline(d)
    /\ new[d] \in {"todo", "open", "ok", "null"}
    /\ new[d] = "todo" => Counts(d) /\ ~IsList(d)
    /\ new[d] = "null" => ~Counts(d)
    /\ Up(d) = p \/ (Up(d) \in DOMAIN new /\ new[Up(d)] = "open")

LEMMA InPlaceFacts ==
  ASSUME Valid(This), NEW p, Place(p), NEW d \in InPlace(p)
  PROVE  /\ Place(d) /\ Inline(d) /\ Up(d) = p /\ ~IsElement(d)
         /\ Runs("concurrent", d.path) => Counts(d) /\ ~IsList(d)
         /\ Runs("nullable", d.path) => ~Counts(d)
<1>1. d \in Below(p) /\ ~Deferred(d.path)
  BY DEF InPlace
<1>2. Place(d) /\ d \notin Roots /\ Up(d) = p /\ ~IsElement(d)
  BY <1>1, BelowFacts
<1>3. PathOK(d.path)
  BY <1>2, PathFacts DEF Place
<1>4. Runs("concurrent", d.path) => Counts(d) /\ ~IsList(d)
  BY <1>3 DEF PathOK, Counts, IsList, ListPath
<1>5. Runs("nullable", d.path) => ~Counts(d)
  BY <1>2 DEF Counts
<1> QED BY <1>1, <1>2, <1>4, <1>5 DEF Inline

LEMMA OpenedFacts ==
  ASSUME Valid(This), NEW p, Place(p), NEW n \in Nat, NEW absent \in BOOLEAN,
         NEW new, new = Opened(p, n, absent),
         NEW v, Tree(v), p \in DOMAIN v, v[p] = "todo"
  PROVE  Sprouts(new, p) /\ DOMAIN new \cap DOMAIN v = {}
<1> DEFINE own      == InPlace(p)
           lists    == {q \in own : IsList(q)}
           elements == {At(q.path, i) : q \in lists, i \in 1..n}
           all      == own \cup elements \cup UNION {InPlace(e) : e \in elements}
           value(q) == IF q \in lists \cup elements THEN "open"
                       ELSE IF Runs("concurrent", q.path) THEN "todo"
                       ELSE IF absent /\ Runs("nullable", q.path) THEN "null"
                       ELSE "ok"
<1>1. new = [q \in all |-> value(q)]
  BY DEF Opened
<1>2. ASSUME NEW d \in own
      PROVE  /\ Place(d) /\ Inline(d) /\ Up(d) = p
             /\ Runs("concurrent", d.path) => Counts(d) /\ ~IsList(d)
             /\ Runs("nullable", d.path) => ~Counts(d)
  BY InPlaceFacts
<1>3. ASSUME NEW d \in elements
      PROVE  Place(d) /\ Inline(d) /\ Up(d) \in lists /\ ~IsList(d)
  <2>1. PICK q \in lists, i \in 1..n : d = At(q.path, i)
    OBVIOUS
  <2>2. Place(q) /\ IsList(q) /\ i \in Nat \ {0}
    BY <1>2
  <2>3. Place(d) /\ d \notin Roots /\ Up(d) = q /\ ~IsList(d) /\ ~Deferred(d.path)
    BY <2>1, <2>2, ElementFacts
  <2> QED BY <2>1, <2>3 DEF Inline
<1>4. ASSUME NEW d \in all, d \notin own, d \notin elements
      PROVE  /\ Place(d) /\ Inline(d) /\ Up(d) \in elements
             /\ Runs("concurrent", d.path) => Counts(d) /\ ~IsList(d)
             /\ Runs("nullable", d.path) => ~Counts(d)
  <2>1. PICK e \in elements : d \in InPlace(e)
    BY <1>4
  <2>2. Place(e)
    BY <1>3
  <2> QED BY <2>1, <2>2, InPlaceFacts
<1>5. lists \subseteq own /\ own \subseteq all /\ elements \subseteq all
  OBVIOUS
<1>a. \A d \in all : value(d) \in {"todo", "open", "ok", "null"}
  OBVIOUS
<1>b. \A d \in lists \cup elements : value(d) = "open"
  OBVIOUS
<1>c. \A d \in all : /\ value(d) = "todo" => Runs("concurrent", d.path)
                     /\ value(d) = "null" => Runs("nullable", d.path)
                     /\ d \in elements => value(d) = "open"
  OBVIOUS
<1> HIDE DEF own, lists, elements, all, value
<1>6. Sprouts(new, p)
  <2> SUFFICES ASSUME NEW d \in all
               PROVE  /\ Place(d) /\ Inline(d)
                      /\ value(d) \in {"todo", "open", "ok", "null"}
                      /\ value(d) = "todo" => Counts(d) /\ ~IsList(d)
                      /\ value(d) = "null" => ~Counts(d)
                      /\ Up(d) = p \/ (Up(d) \in all /\ value(Up(d)) = "open")
    BY <1>1 DEF Sprouts
  <2>1. CASE d \in own
    BY <1>2, <1>a, <1>c, <2>1
  <2>2. CASE d \in elements
    BY <1>3, <1>5, <1>a, <1>b, <1>c, <2>2
  <2>3. CASE d \notin own /\ d \notin elements
    BY <1>4, <1>5, <1>a, <1>b, <1>c, <2>3
  <2> QED BY <2>1, <2>2, <2>3
<1>7. ASSUME NEW d \in all PROVE d \notin DOMAIN v
  <2>1. ASSUME NEW c \in DOMAIN v, Inline(c) PROVE Up(c) \in DOMAIN v /\ Up(c) # p
    BY <2>1 DEF Tree, Hangs, Inline
  <2>2. \A c \in own : c \notin DOMAIN v
    BY <1>2, <2>1
  <2>3. \A c \in elements : c \notin DOMAIN v
    BY <1>3, <1>5, <2>1, <2>2
  <2>4. \A c \in all : c \notin own /\ c \notin elements => c \notin DOMAIN v
    BY <1>4, <2>1, <2>3
  <2> QED BY <2>2, <2>3, <2>4
<1>8. DOMAIN new = all
  BY <1>1
<1> QED BY <1>6, <1>7, <1>8

\* An object that begins has its values below it.
LEMMA SproutsKeepTree ==
  ASSUME Valid(This), NEW v, Tree(v), NEW p \in DOMAIN v, v[p] = "open",
         NEW new, Sprouts(new, p), DOMAIN new \cap DOMAIN v = {},
         NEW w, w = Adding(new, v)
  PROVE  Tree(w)
<1>a. /\ DOMAIN w = DOMAIN new \cup DOMAIN v
      /\ \A d \in DOMAIN new : w[d] = new[d]
      /\ \A d \in DOMAIN v : d \notin DOMAIN new => w[d] = v[d]
  BY DEF Adding
<1>1. /\ DOMAIN w = DOMAIN new \cup DOMAIN v
      /\ \A d \in DOMAIN new : w[d] = new[d]
      /\ \A d \in DOMAIN v : w[d] = v[d]
  BY <1>a
<1>2. ASSUME NEW d \in DOMAIN v PROVE Hangs(w, d)
  <2>1. Hangs(v, d)
    BY DEF Tree
  <2>2. d \notin Roots => w[Up(d)] = v[Up(d)]
    BY <1>1, <2>1 DEF Hangs
  <2>3. Deferred(d.path) => d \notin Roots
    BY <2>1, DeferredFacts DEF Hangs
  <2>4. w[d] = v[d]
    BY <1>1
  <2> QED BY ONLY <1>1, <2>1, <2>2, <2>3, <2>4 DEF Hangs, Inline
<1>3. ASSUME NEW d \in DOMAIN new PROVE Hangs(w, d)
  <2>1. /\ Place(d) /\ Inline(d)
        /\ new[d] \in {"todo", "open", "ok", "null"}
        /\ new[d] = "todo" => Counts(d) /\ ~IsList(d)
        /\ new[d] = "null" => ~Counts(d)
        /\ Up(d) = p \/ (Up(d) \in DOMAIN new /\ new[Up(d)] = "open")
    BY DEF Sprouts
  <2>2. Up(d) \in DOMAIN w /\ w[Up(d)] = "open" /\ w[d] = new[d]
    BY <1>1, <2>1
  <2>3. d \notin Roots /\ ~Deferred(d.path)
    BY <2>1 DEF Inline
  <2> QED BY ONLY <2>1, <2>2, <2>3 DEF Hangs
<1> QED BY <1>1, <1>2, <1>3 DEF Tree

LEMMA UpDiffers ==
  ASSUME Valid(This), NEW d, Place(d), d \notin Roots
  PROVE  Up(d) # d
<1>1. CASE IsElement(d)
  <2>1. Up(d) = At(d.path, 0) /\ d.n > 0
    BY <1>1, UpFacts DEF IsElement
  <2> QED BY <2>1 DEF At
<1>2. CASE ~IsElement(d)
  <2>1. Up(d) = At(Front(d.path), d.n) /\ Len(Front(d.path)) = Len(d.path) - 1
    BY <1>2, UpFacts
  <2>2. Len(d.path) \in Nat
    BY PathFacts DEF Place, PathOK
  <2>3. Up(d).path = Front(d.path)
    BY <2>1 DEF At
  <2>4. ASSUME Up(d) = d PROVE FALSE
    <3>1. Len(d.path) = Len(d.path) - 1
      BY ONLY <2>1, <2>3, <2>4
    <3> QED BY ONLY <2>2, <3>1
  <2> QED BY <2>4
<1> QED BY <1>1, <1>2

\* An object that ends has its null if it must, and its deferred fields begin.
LEMMA FinishKeepsTree ==
  ASSUME Valid(This), Tree(val), NEW p \in DOMAIN val, val[p] = "open",
         \A q \in Within(p) : Final(q),
         NEW later, later = IF Verdict(p) = "ok" THEN Postponed(p) ELSE {},
         NEW w, w = Adding([q \in later |-> "todo"], [val EXCEPT ![p] = Verdict(p)])
  PROVE  Tree(w) /\ later \cap DOMAIN val = {}
<1> DEFINE x == Verdict(p)
<1>1. Hangs(val, p)
  BY DEF Tree
<1>2. Place(p)
  BY <1>1 DEF Hangs
<1>3. /\ x \in {"ok", "null"}
      /\ x = "null" <=> \E q \in Within(p) : Counts(q) /\ val[q] = "null"
  BY DEF Verdict
<1>4. ASSUME NEW d \in later
      PROVE  /\ Place(d) /\ Deferred(d.path) /\ Up(d) = p /\ x = "ok" /\ later = Postponed(p)
             /\ d \notin DOMAIN val
  <2>1. d \in Postponed(p) /\ x = "ok" /\ later = Postponed(p)
    BY DEF x
  <2>2. d \in Below(p) /\ Deferred(d.path)
    BY <2>1 DEF Postponed
  <2>3. Place(d) /\ Up(d) = p
    BY <1>2, <2>2, BelowFacts
  <2>4. d \notin DOMAIN val
    BY <2>2, <2>3 DEF Tree, Hangs
  <2> QED BY <2>1, <2>2, <2>3, <2>4
<1> HIDE DEF x
<1>5. later \cap DOMAIN val = {}
  BY <1>4
<1>6. /\ DOMAIN w = later \cup DOMAIN val
      /\ \A d \in later : w[d] = "todo"
      /\ \A d \in DOMAIN val : d \notin later => w[d] = IF d = p THEN x ELSE val[d]
  BY DEF Adding, x
<1>7. /\ \A d \in later : w[d] = "todo"
      /\ w[p] = x
      /\ \A d \in DOMAIN val : d # p => w[d] = val[d]
  BY <1>5, <1>6
<1>8. ASSUME NEW d \in DOMAIN val, d \notin Roots, Up(d) = p
      PROVE  d \in Within(p) /\ Final(d)
  <2>1. Place(d)
    BY DEF Tree, Hangs
  <2>2. Under(d, p)
    BY <1>8, <2>1, UpFacts
  <2>3. d \in Within(p)
    BY <2>2 DEF Within, Under
  <2> QED BY <2>3
<1>9. ASSUME NEW d \in DOMAIN val, d # p PROVE Hangs(w, d)
  <2>1. Hangs(val, d)
    BY DEF Tree
  <2>2. Deferred(d.path) => d \notin Roots
    BY <2>1, DeferredFacts DEF Hangs
  <2>3. w[d] = val[d]
    BY <1>7, <1>9
  <2>4. CASE d \in Roots \/ Up(d) # p
    <3>1. d \notin Roots => w[Up(d)] = val[Up(d)] /\ Up(d) \in DOMAIN w
      BY <1>6, <1>7, <2>1, <2>4 DEF Hangs
    <3> QED BY ONLY <1>6, <2>1, <2>2, <2>3, <3>1 DEF Hangs, Inline
  <2>5. CASE d \notin Roots /\ Up(d) = p
    <3>1. d \in Within(p) /\ Final(d)
      BY <1>8, <2>5
    <3>2. ~Deferred(d.path)
      BY <2>1, <2>5 DEF Hangs
    <3>3. val[d] = "null" /\ Counts(d) => x = "null"
      BY <1>3, <3>1
    <3>4. p \in DOMAIN w /\ w[p] # "todo" /\ (x = "null" => w[p] # "ok")
      BY <1>3, <1>6, <1>7
    <3>5. val[d] \in {"ok", "null"}
      BY <3>1 DEF Final
    <3> QED BY ONLY <2>1, <2>3, <2>5, <3>2, <3>3, <3>4, <3>5 DEF Hangs, Inline
  <2> QED BY <2>4, <2>5
<1>10. Hangs(w, p)
  <2>1. p \notin Roots => Up(p) # p
    BY <1>2, UpDiffers
  <2>2. Deferred(p.path) => p \notin Roots
    BY <1>2, DeferredFacts
  <2>3. p \notin Roots => w[Up(p)] = val[Up(p)] /\ Up(p) \in DOMAIN w
    BY <1>1, <1>6, <1>7, <2>1 DEF Hangs
  <2>4. w[p] \in {"ok", "null"}
    BY <1>3, <1>7
  <2>5. Inline(p) => val[Up(p)] \notin {"ok", "null"}
    BY <1>1 DEF Hangs
  <2> QED BY ONLY <1>1, <1>6, <2>2, <2>3, <2>4, <2>5 DEF Hangs, Inline
<1>11. ASSUME NEW d \in later PROVE Hangs(w, d)
  <2>1. /\ Place(d) /\ Deferred(d.path) /\ Up(d) = p /\ x = "ok" /\ later = Postponed(p)
    BY <1>4
  <2>2. Counts(d) /\ ~IsList(d) /\ w[d] = "todo"
    BY <1>7, <2>1, DeferredFacts
  <2>3. p \in DOMAIN w /\ w[p] = "ok" /\ Postponed(p) \subseteq DOMAIN w
    BY <1>6, <1>7, <2>1
  <2> QED BY ONLY <2>1, <2>2, <2>3 DEF Hangs, Inline
<1> QED BY <1>5, <1>6, <1>9, <1>10, <1>11 DEF Tree

-----------------------------------------------------------------------------
(* Nulls and errors. *)

Sound(v, e) == Tree(v) /\ Blamed(v, e) /\ Fallen(v, e)

LEMMA FailKeepsSound ==
  ASSUME Valid(This), NEW v, NEW e, Sound(v, e), NEW p \in DOMAIN v, v[p] = "todo",
         NEW w, w = [v EXCEPT ![p] = "null"]
  PROVE  Sound(w, e \cup {p})
<1>1. Tree(w)
  BY TurnKeepsTree DEF Sound
<1>2. DOMAIN w = DOMAIN v /\ w[p] = "null" /\ \A d \in DOMAIN v : d # p => w[d] = v[d]
  OBVIOUS
<1>3. Counts(p)
  BY DEF Sound, Tree, Hangs
<1>4. Blamed(w, e \cup {p})
  BY <1>2 DEF Sound, Blamed
<1>5. Fallen(w, e \cup {p})
  BY <1>2, <1>3 DEF Sound, Fallen
<1> QED BY <1>1, <1>4, <1>5 DEF Sound

LEMMA TurnKeepsSound ==
  ASSUME Valid(This), NEW v, NEW e, Sound(v, e), NEW p \in DOMAIN v, v[p] = "todo",
         NEW x \in {"open", "ok"}, NEW w, w = [v EXCEPT ![p] = x]
  PROVE  Sound(w, e)
<1>1. Tree(w)
  BY TurnKeepsTree DEF Sound
<1>2. DOMAIN w = DOMAIN v /\ w[p] = x /\ \A d \in DOMAIN v : d # p => w[d] = v[d]
  OBVIOUS
<1>3. Blamed(w, e)
  BY <1>2 DEF Sound, Blamed
<1>4. Fallen(w, e)
  BY <1>2 DEF Sound, Fallen
<1> QED BY <1>1, <1>3, <1>4 DEF Sound

LEMMA SproutsKeepSound ==
  ASSUME Valid(This), NEW v, NEW e, Sound(v, e), NEW p \in DOMAIN v, v[p] = "open",
         NEW new, Sprouts(new, p), DOMAIN new \cap DOMAIN v = {},
         NEW w, w = Adding(new, v)
  PROVE  Sound(w, e)
<1>1. Tree(w)
  BY SproutsKeepTree DEF Sound
<1>2. /\ DOMAIN w = DOMAIN new \cup DOMAIN v
      /\ \A d \in DOMAIN new : w[d] = new[d]
      /\ \A d \in DOMAIN v : d \notin DOMAIN new => w[d] = v[d]
  BY DEF Adding
<1>3. \A d \in DOMAIN v : w[d] = v[d]
  BY <1>2
<1>4. \A d \in DOMAIN new : new[d] = "null" => ~Counts(d)
  BY DEF Sprouts
<1>5. Blamed(w, e)
  BY <1>2, <1>3, <1>4 DEF Sound, Blamed
<1>6. Fallen(w, e)
  BY <1>2, <1>3 DEF Sound, Fallen
<1> QED BY <1>1, <1>5, <1>6 DEF Sound

LEMMA FinishKeepsSound ==
  ASSUME Valid(This), NEW e, Sound(val, e), NEW p \in DOMAIN val, val[p] = "open",
         \A q \in Within(p) : Final(q),
         NEW later, later = IF Verdict(p) = "ok" THEN Postponed(p) ELSE {},
         NEW w, w = Adding([q \in later |-> "todo"], [val EXCEPT ![p] = Verdict(p)])
  PROVE  Sound(w, e)
<1>1. Tree(w) /\ later \cap DOMAIN val = {}
  BY FinishKeepsTree DEF Sound
<1>2. /\ DOMAIN w = later \cup DOMAIN val
      /\ \A d \in later : w[d] = "todo"
      /\ \A d \in DOMAIN val : d \notin later => w[d] = IF d = p THEN Verdict(p) ELSE val[d]
  BY DEF Adding
<1>3. /\ w[p] = Verdict(p)
      /\ \A d \in DOMAIN val : d # p => w[d] = val[d]
  BY <1>1, <1>2
<1>4. ASSUME Verdict(p) = "null" PROVE \E x \in e : GroupOf(x) = GroupOf(p)
  <2>1. PICK q \in Within(p) : Counts(q) /\ val[q] = "null"
    BY <1>4 DEF Verdict
  <2>2. q \in DOMAIN val /\ Under(q, p)
    BY DEF Within, Under
  <2>3. Hangs(val, q) /\ Place(q) /\ Place(p)
    BY <2>2 DEF Sound, Tree, Hangs
  <2>4. q \notin Roots /\ Up(q) = p
    BY <2>2, <2>3, UnderFacts
  <2>5. Inline(q)
    BY <2>3, <2>4 DEF Hangs, Inline
  <2>6. GroupOf(q) = GroupOf(p)
    BY <2>3, <2>4, <2>5, GroupFacts
  <2> QED BY <2>1, <2>2, <2>6 DEF Sound, Blamed
<1>5. Blamed(w, e)
  <2> SUFFICES ASSUME NEW d \in DOMAIN w, w[d] = "null", Counts(d)
               PROVE  \E x \in e : GroupOf(x) = GroupOf(d)
    BY DEF Blamed
  <2>1. d \notin later /\ d \in DOMAIN val
    BY <1>2
  <2>2. CASE d = p
    BY <1>3, <1>4, <2>2
  <2>3. CASE d # p
    BY <1>3, <2>1, <2>3 DEF Sound, Blamed
  <2> QED BY <2>2, <2>3
<1>6. Fallen(w, e)
  BY <1>2, <1>3 DEF Sound, Fallen
<1> QED BY <1>1, <1>5, <1>6 DEF Sound

\* A null is lost on no value that has others below it.
LEMMA UpCounts ==
  ASSUME Valid(This), NEW d, Place(d), d \notin Roots
  PROVE  Counts(Up(d))
<1>1. d.path \in This.fields /\ PathOK(d.path)
  BY PathFacts DEF Place
<1>2. CASE IsElement(d)
  <2>1. Up(d) = At(d.path, 0)
    BY <1>2, UpFacts
  <2>2. ListPath(d.path)
    BY <1>2 DEF IsElement, ListPath
  <2>3. ~Runs("nullable", d.path)
    BY <1>1, <2>2 DEF PathOK
  <2> QED BY <2>1, <2>3 DEF Counts, At
<1>3. CASE ~IsElement(d)
  <2> DEFINE r == Front(d.path)
  <2>1. Up(d) = At(r, d.n) /\ Len(d.path) > 1
    BY <1>3, UpFacts
  <2>2. r \in This.fields
    BY <1>1, <2>1 DEF PathOK
  <2>3. TypeAt(This, r) \in DOMAIN Fields
    BY <1>1 DEF Valid, Selected
  <2>4. ~IsScalar(r)
    BY <2>3 DEF IsScalar, Fields
  <2>5. ~Runs("nullable", r)
    BY <2>2, <2>4, PathFacts DEF PathOK
  <2> QED BY <2>1, <2>5 DEF Counts, At
<1> QED BY <1>2, <1>3

-----------------------------------------------------------------------------
(* The values that a group stands for. *)

Tops(g) == IF g = Whole THEN Roots ELSE Postponed(g)

Ended(x) == x \in {"ok", "null"}

\* A value stands below one of its group's, which is not done before it and does
\* not lose its null.
Stands(v, d, t) ==
  /\ t \in DOMAIN v /\ t \in Tops(GroupOf(d)) /\ GroupOf(t) = GroupOf(d)
  /\ t.path[1] = d.path[1]
  /\ ~Ended(v[d]) => ~Ended(v[t])
  /\ v[d] = "null" /\ Counts(d) => v[t] # "ok"

Height(d) == IF IsElement(d) THEN Len(d.path) + Len(d.path) + 1
             ELSE Len(d.path) + Len(d.path)

LEMMA HeightFacts ==
  ASSUME Valid(This), NEW d, Place(d)
  PROVE  /\ Height(d) \in Nat \ {0}
         /\ d \notin Roots => Height(Up(d)) < Height(d)
<1>1. Len(d.path) \in Nat /\ Len(d.path) >= 1
  BY PathFacts DEF Place, PathOK
<1> DEFINE k == Len(d.path)
<1>2. Height(d) \in {k + k, k + k + 1} /\ k \in Nat /\ k >= 1
  BY <1>1 DEF Height
<1>3. ASSUME d \notin Roots PROVE Height(Up(d)) < Height(d)
  <2> DEFINE u == Up(d)
  <2>1. CASE IsElement(d)
    <3>1. u = At(d.path, 0) /\ IsList(u)
      BY <1>3, <2>1, UpFacts
    <3>2. u.path = d.path /\ ~IsElement(u)
      <4>1. u.n = 0 /\ u.path = d.path
        BY <3>1 DEF At
      <4> HIDE DEF u
      <4> QED BY <4>1 DEF IsElement
    <3> HIDE DEF u
    <3>3. Height(u) = k + k /\ Height(d) = k + k + 1
      BY <2>1, <3>2 DEF Height
    <3> HIDE DEF k
    <3> QED BY <1>2, <3>3 DEF u
  <2>2. CASE ~IsElement(d)
    <3> DEFINE j == Len(u.path)
    <3>1. u = At(Front(d.path), d.n) /\ Len(Front(d.path)) = k - 1
      BY <1>3, <2>2, UpFacts
    <3>2. j = k - 1
      BY <3>1 DEF At
    <3> HIDE DEF u
    <3>3. Height(u) \in {j + j, j + j + 1} /\ Height(d) = k + k
      BY <2>2 DEF Height
    <3> HIDE DEF k, j
    <3> QED BY <1>2, <3>2, <3>3 DEF u
  <2> QED BY <2>1, <2>2
<1> HIDE DEF k
<1>4. Height(d) \in Nat \ {0}
  BY <1>2
<1> QED BY <1>3, <1>4

LEMMA EveryValueStands ==
  ASSUME Valid(This), NEW v, Tree(v), NEW d \in DOMAIN v
  PROVE  \E t : Stands(v, d, t)
<1> DEFINE T == {n \in Nat : \A c \in DOMAIN v : Height(c) <= n => \E t : Stands(v, c, t)}
<1>1. ASSUME NEW c \in DOMAIN v
      PROVE  Hangs(v, c) /\ Place(c) /\ Height(c) \in Nat \ {0}
  <2>1. Hangs(v, c) /\ Place(c)
    BY DEF Tree, Hangs
  <2> QED BY <2>1, HeightFacts
<1>2. 0 \in T
  <2>1. ASSUME NEW c \in DOMAIN v PROVE ~(Height(c) <= 0)
    BY <1>1
  <2> QED BY <2>1
<1>3. ASSUME NEW n \in Nat, n \in T, NEW c \in DOMAIN v, Height(c) <= n + 1
      PROVE  \E t : Stands(v, c, t)
  <2>1. Hangs(v, c) /\ Place(c) /\ Height(c) \in Nat \ {0}
    BY <1>1
  <2>2. CASE c \in Roots
    <3>1. GroupOf(c) = Whole
      BY <2>1, <2>2, GroupFacts
    <3>2. Stands(v, c, c)
      BY <2>2, <3>1 DEF Stands, Tops
    <3> QED BY <3>2
  <2>3. CASE Deferred(c.path)
    <3>1. GroupOf(c) = Up(c) /\ c \in Postponed(Up(c)) /\ c \notin Roots
      BY <2>1, <2>3, GroupFacts, DeferredFacts
    <3>2. Up(c) # Whole
      <4>1. Place(Up(c))
        BY <2>1, <3>1, UpFacts
      <4>2. PathOK(Up(c).path)
        BY <4>1, PathFacts DEF Place
      <4>3. Len(Up(c).path) # 0
        BY <4>2 DEF PathOK
      <4> QED BY <4>3 DEF Whole, At
    <3>3. Stands(v, c, c)
      BY <3>1, <3>2 DEF Stands, Tops
    <3> QED BY <3>3
  <2>4. CASE Inline(c)
    <3>1. c \notin Roots /\ ~Deferred(c.path)
      BY <2>4 DEF Inline
    <3> DEFINE u == Up(c)
    <3>2. Height(u) < Height(c) /\ u \in DOMAIN v /\ Counts(u)
      BY <2>1, <3>1, HeightFacts, UpCounts DEF Hangs
    <3>3. Height(u) <= n
      <4>1. Height(u) \in Nat
        BY <1>1, <3>2
      <4> DEFINE a == Height(u)
                 b == Height(c)
      <4>2. a \in Nat /\ b \in Nat /\ a < b /\ b <= n + 1
        BY <1>3, <2>1, <3>2, <4>1
      <4> HIDE DEF a, b
      <4>3. a <= n
        BY <4>2
      <4> QED BY <4>3 DEF a
    <3>4. PICK t : Stands(v, u, t)
      <4> HIDE DEF u
      <4> QED BY <1>3, <3>2, <3>3
    <3>5. GroupOf(c) = GroupOf(u) /\ u.path[1] = c.path[1]
      BY <2>1, <2>4, <3>1, GroupFacts, UpFacts
    <3>6. /\ v[c] = "null" /\ Counts(c) => v[u] # "ok"
          /\ v[u] \in {"ok", "null"} => v[c] \in {"ok", "null"}
      BY <2>1, <2>4 DEF Hangs
    <3> HIDE DEF u
    <3>7. Stands(v, c, t)
      BY ONLY <3>2, <3>4, <3>5, <3>6 DEF Stands, Ended
    <3> QED BY <3>7
  <2> QED BY <2>2, <2>3, <2>4 DEF Inline
<1>4. ASSUME NEW n \in Nat, n \in T PROVE n + 1 \in T
  <2>1. n + 1 \in Nat
    OBVIOUS
  <2> QED BY <1>3, <1>4, <2>1
<1>5. Height(d) \in T
  <2>1. Nat \subseteq T
    <3> HIDE DEF T
    <3> QED BY <1>2, <1>4, Induction
  <2> QED BY <1>1, <2>1
<1>6. Height(d) <= Height(d)
  BY <1>1
<1> QED BY <1>5, <1>6

-----------------------------------------------------------------------------
(* The groups that have begun. *)

Begun(v) == {p \in DOMAIN v : Postponed(p) \cap DOMAIN v # {}}

LEMMA PostponedFacts ==
  ASSUME Valid(This), NEW p, Place(p), NEW t \in Postponed(p)
  PROVE  /\ Place(t) /\ Deferred(t.path) /\ Counts(t) /\ t \notin Roots
         /\ Up(t) = p /\ GroupOf(t) = p
<1>1. t \in Below(p) /\ Deferred(t.path)
  BY DEF Postponed
<1>2. Place(t) /\ Up(t) = p
  BY <1>1, BelowFacts
<1> QED BY <1>1, <1>2, DeferredFacts, GroupFacts

LEMMA PlacesAreNotWhole ==
  ASSUME Valid(This), NEW p, Place(p)
  PROVE  p # Whole
<1>1. PathOK(p.path)
  BY PathFacts DEF Place
<1>2. Len(p.path) # 0
  BY <1>1 DEF PathOK
<1> QED BY <1>2 DEF Whole, At

LEMMA BegunFacts ==
  ASSUME Valid(This), NEW v, Tree(v), NEW p \in Begun(v)
  PROVE  /\ Place(p) /\ p # Whole /\ p \in DOMAIN v /\ v[p] = "ok"
         /\ Postponed(p) \subseteq DOMAIN v /\ Postponed(p) # {}
<1>1. p \in DOMAIN v /\ Postponed(p) \cap DOMAIN v # {}
  BY DEF Begun
<1>2. Place(p) /\ p # Whole
  BY <1>1, PlacesAreNotWhole DEF Tree, Hangs
<1>3. PICK t \in Postponed(p) : t \in DOMAIN v
  BY <1>1
<1>4. Deferred(t.path) /\ Up(t) = p
  BY <1>2, PostponedFacts
<1>5. v[p] = "ok" /\ Postponed(p) \subseteq DOMAIN v
  BY <1>3, <1>4 DEF Tree, Hangs
<1> QED BY <1>1, <1>2, <1>3, <1>5

\* The group of any value has begun, or is the first response.
LEMMA GroupsHaveBegun ==
  ASSUME Valid(This), NEW v, Tree(v), NEW d \in DOMAIN v
  PROVE  GroupOf(d) \in Begun(v) \cup {Whole}
<1>1. PICK t : Stands(v, d, t)
  BY EveryValueStands
<1>2. t \in DOMAIN v /\ t \in Tops(GroupOf(d)) /\ GroupOf(t) = GroupOf(d)
  BY <1>1 DEF Stands
<1>3. Hangs(v, t) /\ Place(t)
  BY <1>2 DEF Tree, Hangs
<1>4. ASSUME GroupOf(d) # Whole PROVE GroupOf(d) \in Begun(v)
  <2>1. t \in Postponed(GroupOf(d))
    BY <1>2, <1>4 DEF Tops
  <2>2. Deferred(t.path)
    BY <2>1 DEF Postponed
  <2>3. GroupOf(t) = Up(t) /\ t \notin Roots
    BY <1>3, <2>2, GroupFacts, DeferredFacts
  <2>4. Up(t) \in DOMAIN v
    BY <1>3, <2>3 DEF Hangs
  <2> QED BY <1>2, <2>1, <2>3, <2>4 DEF Begun
<1> QED BY <1>4

\* New values that are not deferred begin no group.
LEMMA BegunSame ==
  ASSUME Valid(This), NEW v, Tree(v), NEW w, Tree(w), DOMAIN v \subseteq DOMAIN w,
         \A d \in DOMAIN w : d \notin DOMAIN v => ~Deferred(d.path)
  PROVE  Begun(w) = Begun(v)
<1>1. ASSUME NEW p \in Begun(w) PROVE p \in Begun(v)
  <2>1. Place(p)
    BY BegunFacts
  <2>2. PICK t \in Postponed(p) : t \in DOMAIN w
    BY DEF Begun
  <2>3. Deferred(t.path) /\ Up(t) = p /\ t \notin Roots
    BY <2>1, PostponedFacts
  <2>4. t \in DOMAIN v
    BY <2>2, <2>3
  <2>5. p \in DOMAIN v
    BY <2>3, <2>4 DEF Tree, Hangs
  <2> QED BY <2>2, <2>4, <2>5 DEF Begun
<1>2. ASSUME NEW p \in Begun(v) PROVE p \in Begun(w)
  BY DEF Begun
<1> QED BY <1>1, <1>2

\* Deferred values of one object begin its group.
LEMMA BegunGrows ==
  ASSUME Valid(This), NEW v, Tree(v), NEW w, Tree(w), NEW p \in DOMAIN v, v[p] = "open",
         Postponed(p) # {}, DOMAIN w = Postponed(p) \cup DOMAIN v
  PROVE  Begun(w) = Begun(v) \cup {p} /\ p \notin Begun(v)
<1>1. p \notin Begun(v)
  BY BegunFacts
<1>2. p \in Begun(w)
  BY DEF Begun
<1>3. ASSUME NEW q \in Begun(w), q # p PROVE q \in Begun(v)
  <2>1. Place(q) /\ Place(p)
    BY BegunFacts DEF Tree, Hangs
  <2>2. PICK t \in Postponed(q) : t \in DOMAIN w
    BY DEF Begun
  <2>3. Up(t) = q /\ t \notin Roots
    BY <2>1, PostponedFacts
  <2>4. t \notin Postponed(p)
    BY <1>3, <2>1, <2>3, PostponedFacts
  <2>5. t \in DOMAIN v
    BY <2>2, <2>4
  <2>6. q \in DOMAIN v
    BY <2>3, <2>5 DEF Tree, Hangs
  <2> QED BY <2>2, <2>5, <2>6 DEF Begun
<1>4. ASSUME NEW q \in Begun(v) PROVE q \in Begun(w)
  BY DEF Begun
<1> QED BY <1>1, <1>2, <1>3, <1>4

-----------------------------------------------------------------------------
(* What a step of a field does. *)

\* The value at p goes on; the others stay, and new ones are no roots.
Moves(v, w, p) ==
  /\ p \in DOMAIN v /\ ~Ended(v[p]) /\ w[p] # "todo"
  /\ DOMAIN v \subseteq DOMAIN w
  /\ \A d \in DOMAIN v : d # p => w[d] = v[d]
  /\ \A d \in DOMAIN w : d \notin DOMAIN v =>
       d \notin Roots /\ (Deferred(d.path) => Up(d) = p /\ v[p] = "open")

\* Either no group begins or that of p does, as the counters say.
Counted(v, w, p, more) ==
  \/ more = 0 /\ Begun(w) = Begun(v)
  \/ more = 1 /\ Begun(w) = Begun(v) \cup {p} /\ p \notin Begun(v)

LEMMA FailMoves ==
  ASSUME Valid(This), NEW v, NEW e, Sound(v, e), NEW p \in DOMAIN v, v[p] = "todo",
         NEW w, w = [v EXCEPT ![p] = "null"]
  PROVE  Sound(w, e \cup {p}) /\ Moves(v, w, p) /\ Counted(v, w, p, 0)
<1>1. Sound(w, e \cup {p})
  BY FailKeepsSound
<1>2. DOMAIN w = DOMAIN v /\ w[p] = "null" /\ \A d \in DOMAIN v : d # p => w[d] = v[d]
  OBVIOUS
<1>3. Moves(v, w, p)
  BY <1>2 DEF Moves, Ended
<1>4. Begun(w) = Begun(v)
  BY <1>2 DEF Begun
<1> QED BY <1>1, <1>3, <1>4 DEF Counted

LEMMA ResolveMoves ==
  ASSUME Valid(This), MaxItems \in Nat,
         NEW v, NEW e, Sound(v, e), NEW p \in DOMAIN v, v[p] = "todo",
         NEW new \in Values(p),
         NEW w, w = Adding(new, [v EXCEPT ![p] = IF IsScalar(p.path) THEN "ok" ELSE "open"])
  PROVE  Sound(w, e) /\ Moves(v, w, p) /\ Counted(v, w, p, 0)
<1> DEFINE x == IF IsScalar(p.path) THEN "ok" ELSE "open"
           u == [v EXCEPT ![p] = x]
<1>1. x \in {"open", "ok"}
  OBVIOUS
<1>2. DOMAIN u = DOMAIN v /\ u[p] = x /\ \A d \in DOMAIN v : d # p => u[d] = v[d]
  OBVIOUS
<1>3. Sound(u, e)
  <2> HIDE DEF x
  <2> QED BY <1>1, TurnKeepsSound
<1>4. Place(p) /\ Tree(v)
  BY DEF Sound, Tree, Hangs
<1>5. CASE IsScalar(p.path)
  <2>1. new = <<>>
    BY <1>5 DEF Values
  <2>2. DOMAIN w = DOMAIN u /\ \A d \in DOMAIN u : w[d] = u[d]
    BY <2>1 DEF Adding
  <2>3. w = u
    <3>1. w = [d \in DOMAIN u |-> u[d]] /\ u = [d \in DOMAIN u |-> u[d]]
      BY <2>1 DEF Adding
    <3> QED BY <3>1
  <2>4. Moves(v, w, p)
    <3> HIDE DEF u
    <3> QED BY <1>1, <1>2, <2>3 DEF Moves, Ended
  <2>5. Begun(w) = Begun(v)
    BY <1>2, <2>3 DEF Begun
  <2> QED BY <1>3, <2>3, <2>4, <2>5 DEF Counted
<1>6. CASE ~IsScalar(p.path)
  <2>1. PICK n \in 0..MaxItems, absent \in BOOLEAN : new = Opened(p, n, absent)
    BY <1>6 DEF Values
  <2>2. Sprouts(new, p) /\ DOMAIN new \cap DOMAIN v = {}
    <3>1. n \in Nat
      BY <2>1
    <3> QED BY <1>4, <2>1, <3>1, OpenedFacts
  <2>3. u[p] = "open"
    BY <1>2, <1>6
  <2>4. Sound(w, e)
    <3>1. w = Adding(new, u)
      OBVIOUS
    <3> HIDE DEF u
    <3> QED BY <1>2, <1>3, <2>2, <2>3, <3>1, SproutsKeepSound
  <2>5. /\ DOMAIN w = DOMAIN new \cup DOMAIN u
        /\ \A d \in DOMAIN new : w[d] = new[d]
        /\ \A d \in DOMAIN u : d \notin DOMAIN new => w[d] = u[d]
    BY DEF Adding
  <2>6. \A d \in DOMAIN new : d \notin Roots /\ ~Deferred(d.path)
    BY <2>2 DEF Sprouts, Inline
  <2> HIDE DEF u
  <2>7. \A d \in DOMAIN v : w[d] = u[d]
    BY <1>2, <2>2, <2>5
  <2>8. Moves(v, w, p)
    BY <1>2, <2>3, <2>5, <2>6, <2>7 DEF Moves, Ended
  <2>9. Tree(w)
    BY <2>4 DEF Sound
  <2>10. /\ DOMAIN v \subseteq DOMAIN w
         /\ \A d \in DOMAIN w : d \notin DOMAIN v => ~Deferred(d.path)
    BY <1>2, <2>5, <2>6
  <2>11. Begun(w) = Begun(v)
    BY ONLY <1>4, <2>9, <2>10, Valid(This), BegunSame
  <2> QED BY <2>4, <2>8, <2>11 DEF Counted
<1> QED BY <1>5, <1>6

LEMMA FinishMoves ==
  ASSUME Valid(This), NEW e, Sound(val, e), NEW p \in DOMAIN val, val[p] = "open",
         \A q \in Within(p) : Final(q),
         NEW later, later = IF Verdict(p) = "ok" THEN Postponed(p) ELSE {},
         NEW w, w = Adding([q \in later |-> "todo"], [val EXCEPT ![p] = Verdict(p)])
  PROVE  /\ Sound(w, e) /\ Moves(val, w, p)
         /\ Counted(val, w, p, IF later = {} THEN 0 ELSE 1)
<1>1. Sound(w, e)
  BY FinishKeepsSound
<1>2. Tree(val) /\ Tree(w) /\ Place(p)
  BY <1>1 DEF Sound, Tree, Hangs
<1>3. later \cap DOMAIN val = {}
  BY <1>2, FinishKeepsTree
<1>4. /\ DOMAIN w = later \cup DOMAIN val
      /\ \A d \in DOMAIN val : d \notin later => w[d] = IF d = p THEN Verdict(p) ELSE val[d]
  BY DEF Adding
<1>5. /\ w[p] = Verdict(p)
      /\ \A d \in DOMAIN val : d # p => w[d] = val[d]
  BY <1>3, <1>4
<1>6. Verdict(p) \in {"ok", "null"}
  BY DEF Verdict
<1>7. \A d \in later : d \notin Roots /\ Up(d) = p
  BY <1>2, PostponedFacts
<1>8. Moves(val, w, p)
  BY <1>4, <1>5, <1>6, <1>7 DEF Moves, Ended
<1>9. CASE later = {}
  <2>1. Begun(w) = Begun(val)
    BY <1>4, <1>9 DEF Begun
  <2> QED BY <1>1, <1>8, <1>9, <2>1 DEF Counted
<1>10. CASE later # {}
  <2>1. later = Postponed(p)
    BY <1>10
  <2>2. Begun(w) = Begun(val) \cup {p} /\ p \notin Begun(val)
    BY <1>2, <1>4, <1>10, <2>1, BegunGrows
  <2> QED BY <1>1, <1>8, <1>10, <2>2 DEF Counted
<1> QED BY <1>9, <1>10

LEMMA FieldMoves ==
  ASSUME Valid(This), MaxItems \in Nat, Sound(val, errors), NEW p \in DOMAIN val,
         Fail(p) \/ Resolve(p) \/ Finish(p), deferred \in Int, pending \in Int
  PROVE  /\ Sound(val', errors') /\ Moves(val, val', p)
         /\ \E more \in {0, 1} : /\ deferred' = deferred + more /\ pending' = pending + more
                                 /\ Counted(val, val', p, more)
         /\ UNCHANGED <<op, phase, responses, events>>
<1>1. CASE Fail(p)
  <2>1. /\ val[p] = "todo" /\ val' = [val EXCEPT ![p] = "null"] /\ errors' = errors \cup {p}
        /\ UNCHANGED <<op, phase, deferred, pending, responses, events>>
    BY <1>1 DEF Fail
  <2>2. Sound(val', errors \cup {p}) /\ Moves(val, val', p) /\ Counted(val, val', p, 0)
    BY <2>1, FailMoves
  <2>3. deferred' = deferred + 0 /\ pending' = pending + 0
    BY <2>1
  <2> QED BY <2>1, <2>2, <2>3
<1>2. CASE Resolve(p)
  <2>1. /\ val[p] = "todo"
        /\ UNCHANGED <<op, phase, errors, deferred, pending, responses, events>>
    BY <1>2 DEF Resolve
  <2>2. PICK new \in Values(p) :
          val' = Adding(new, [val EXCEPT ![p] = IF IsScalar(p.path) THEN "ok" ELSE "open"])
    BY <1>2 DEF Resolve
  <2>3. Sound(val', errors) /\ Moves(val, val', p) /\ Counted(val, val', p, 0)
    BY <2>1, <2>2, ResolveMoves
  <2>4. deferred' = deferred + 0 /\ pending' = pending + 0
    BY <2>1
  <2> QED BY <2>1, <2>3, <2>4
<1>3. CASE Finish(p)
  <2> DEFINE later == IF Verdict(p) = "ok" THEN Postponed(p) ELSE {}
             group == IF later = {} THEN 0 ELSE 1
  <2>1. /\ val[p] = "open" /\ \A q \in Within(p) : Final(q)
        /\ val' = Adding([q \in later |-> "todo"], [val EXCEPT ![p] = Verdict(p)])
        /\ deferred' = deferred + group /\ pending' = pending + group
        /\ UNCHANGED <<op, phase, errors, responses, events>>
    BY <1>3, Zenon DEF Finish
  <2>2. group \in {0, 1}
    OBVIOUS
  <2>3. Sound(val', errors) /\ Moves(val, val', p) /\ Counted(val, val', p, group)
    BY <2>1, FinishMoves
  <2> QED BY <2>1, <2>2, <2>3
<1> QED BY <1>1, <1>2, <1>3

-----------------------------------------------------------------------------
(* What stays when the operation does. *)

LEMMA OpStays ==
  ASSUME op' = op
  PROVE  /\ This' = This /\ Roots' = Roots
         /\ \A q : Deferred(q)' <=> Deferred(q)
         /\ \A d : /\ Place(d)' <=> Place(d)
                   /\ Up(d)' = Up(d)
                   /\ Counts(d)' <=> Counts(d)
                   /\ IsList(d)' <=> IsList(d)
                   /\ Postponed(d)' = Postponed(d)
                   /\ Inline(d)' <=> Inline(d)
                   /\ GroupOf(d)' = GroupOf(d)
<1>1. This' = This
  BY DEF This
<1>2. Roots' = Roots
  BY <1>1 DEF Roots, At
<1>3. \A q : NameOf(q)' = NameOf(q) /\ Parent(q)' = Parent(q)
  BY <1>1 DEF NameOf, Parent
<1>4. \A q : /\ Runs("nullable", q)' <=> Runs("nullable", q)
             /\ Runs("deferrable", q)' <=> Runs("deferrable", q)
  BY <1>3 DEF Runs
<1>5. \A q : ListPath(q)' <=> ListPath(q)
  BY <1>3 DEF ListPath
<1>6. \A q : Deferred(q)' <=> Deferred(q)
  BY <1>1, <1>4 DEF Deferred
<1>7. \A d : (IsList(d)' <=> IsList(d)) /\ (IsElement(d)' <=> IsElement(d))
  BY <1>3 DEF IsList, IsElement
<1>8. \A d : Counts(d)' <=> Counts(d)
  BY <1>4, <1>7 DEF Counts
<1>9. \A q : Inside(q)' <=> Inside(q)
  BY <1>5 DEF Inside
<1>10. \A d : Place(d)' <=> Place(d)
  BY <1>1, <1>9 DEF Place
<1>11. \A d : Up(d)' = Up(d)
  BY <1>7 DEF Up, At
<1>12. \A d : Below(d)' = Below(d)
  BY <1>1, <1>7 DEF Below, At
<1>13. \A d : Postponed(d)' = Postponed(d)
  BY <1>6, <1>12 DEF Postponed
<1>14. \A d : Inline(d)' <=> Inline(d)
  BY <1>2, <1>6 DEF Inline
<1>15. \A d : GroupOf(d)' = GroupOf(d)
  BY <1>6 DEF GroupOf, Whole, At
<1> QED BY <1>1, <1>2, <1>6, <1>7, <1>8, <1>10, <1>11, <1>13, <1>14, <1>15

LEMMA SoundStays ==
  ASSUME op' = op
  PROVE  /\ Tree(val)' <=> Tree(val')
         /\ Blamed(val, errors)' <=> Blamed(val', errors')
         /\ Fallen(val, errors)' <=> Fallen(val', errors')
         /\ Sound(val, errors)' <=> Sound(val', errors')
         /\ Begun(val)' = Begun(val')
         /\ \A g : Tops(g)' = Tops(g)
<1>1. \A d : Hangs(val, d)' <=> Hangs(val', d)
  BY OpStays DEF Hangs
<1>2. Tree(val)' <=> Tree(val')
  BY <1>1 DEF Tree
<1>3. Blamed(val, errors)' <=> Blamed(val', errors')
  BY OpStays DEF Blamed
<1>4. Fallen(val, errors)' <=> Fallen(val', errors')
  BY OpStays DEF Fallen
<1>5. Begun(val)' = Begun(val')
  BY OpStays DEF Begun
<1>6. \A g : Tops(g)' = Tops(g)
  BY OpStays DEF Tops, Whole, At
<1> QED BY <1>2, <1>3, <1>4, <1>5, <1>6 DEF Sound

-----------------------------------------------------------------------------
(* The first response, and events. *)

Positions == [path : Seq(STRING), n : Nat]

LEMMA PlacesArePositions ==
  ASSUME Valid(This), NEW d, Place(d)
  PROVE  d \in Positions
<1>1. d \in [path : This.fields, n : Nat] /\ d.path \in Seq(STRING)
  BY PathFacts DEF Place, PathOK
<1> QED BY <1>1 DEF Positions

LEMMA RootsAreSound ==
  ASSUME Valid(This), NEW T, T \subseteq Roots, NEW w, w = [p \in T |-> "todo"]
  PROVE  Sound(w, {}) /\ Begun(w) = {}
<1>1. ASSUME NEW d \in T
      PROVE  /\ Place(d) /\ Counts(d) /\ ~IsList(d) /\ ~Deferred(d.path) /\ d \in Roots
  BY RootsArePlaces, RootFacts
<1>2. DOMAIN w = T /\ \A d \in T : w[d] = "todo"
  OBVIOUS
<1>3. Tree(w)
  BY <1>1, <1>2 DEF Tree, Hangs, Inline
<1>4. Blamed(w, {}) /\ Fallen(w, {})
  BY <1>2 DEF Blamed, Fallen
<1>5. Begun(w) = {}
  BY <1>2, <1>3, BegunFacts
<1> QED BY <1>3, <1>4, <1>5 DEF Sound

LEMMA EventIsSound ==
  ASSUME Valid(This), MaxItems \in Nat, NEW root \in Roots, NEW new \in Values(root),
         NEW w, w = Adding(new, [p \in {root} |-> "open"])
  PROVE  Sound(w, {}) /\ root \in DOMAIN w
<1> DEFINE v == [p \in {root} |-> "todo"]
           u == [v EXCEPT ![root] = IF IsScalar(root.path) THEN "ok" ELSE "open"]
<1>1. Place(root) /\ Len(root.path) = 1
  BY RootsArePlaces, RootFacts
<1>2. ~IsScalar(root.path)
  BY <1>1, PathFacts DEF Place, PathOK
<1>3. u = [p \in {root} |-> "open"]
  BY <1>2
<1>4. root \in DOMAIN v /\ v[root] = "todo" /\ Sound(v, {})
  BY RootsAreSound
<1>5. w = Adding(new, u)
  BY <1>3
<1> HIDE DEF v
<1>6. Sound(w, {}) /\ Moves(v, w, root)
  BY <1>4, <1>5, ResolveMoves
<1> QED BY <1>4, <1>6 DEF Moves

LEMMA OneRoot ==
  ASSUME Valid(This), This.kind = "subscription", NEW root \in Roots
  PROVE  Roots = {root}
<1>1. Len(This.roots) = 1 /\ This.roots \in Seq(STRING)
  BY DEF Valid
<1>2. DOMAIN This.roots = {1}
  BY <1>1
<1> QED BY <1>2 DEF Roots

-----------------------------------------------------------------------------
(* The values of an operation, throughout. *)

Core ==
  /\ op \in DOMAIN Operations /\ deferred \in Int /\ pending \in Int
  /\ phase \in {"new", "running", "streaming", "waiting", "ended"}
  /\ \/ Sound(val, errors)
     \/ phase = "ended" /\ DOMAIN val = {}
  /\ phase = "new" => /\ val = <<>> /\ errors = {} /\ effects = <<>>
                      /\ responses = <<>> /\ deferred = 0 /\ pending = 0
  /\ phase = "waiting" => This.kind = "subscription"
  /\ phase = "streaming" => This.kind # "subscription"
  /\ phase \in {"running", "streaming"} => Roots \subseteq DOMAIN val

LEMMA NothingIsSound == ASSUME Valid(This) PROVE Sound(<<>>, {}) /\ Begun(<<>>) = {}
<1>1. DOMAIN <<>> = {}
  OBVIOUS
<1> QED BY <1>1 DEF Sound, Tree, Blamed, Fallen, Begun

LEMMA InitCore == Init => Core
<1> SUFFICES ASSUME Init PROVE Core
  OBVIOUS
<1>1. Valid(This)
  BY ThisIsValid DEF Init
<1>2. Sound(val, errors)
  BY <1>1, NothingIsSound DEF Init
<1> QED BY <1>2 DEF Init, Core

LEMMA OpIsFixed == ASSUME [Next]_vars PROVE op' = op
BY DEF Next, Refuse, Exec, FieldNext, Fail, Resolve, Finish, ResponseNext, Respond,
       Deliver, Complete, SubscriptionNext, Reject, Subscribe, TakeEvent, StreamCloses,
       TakeEffectLate, vars

LEMMA SoundCore ==
  ASSUME Core, NEW p \in DOMAIN val
  PROVE  Sound(val, errors)
BY DEF Core

LEMMA NextCore ==
  ASSUME Core, [Next]_vars
  PROVE  Core'
<1>1. op \in DOMAIN Operations /\ Valid(This)
  BY ThisIsValid DEF Core
<1>2. op' = op
  BY OpIsFixed
<1>3. /\ This' = This /\ Roots' = Roots
      /\ Sound(val, errors)' <=> Sound(val', errors')
  BY <1>2, OpStays, SoundStays
<1>4. MaxItems \in Nat
  BY OperationsAssumption
<1>5. CASE UNCHANGED vars
  BY <1>3, <1>5 DEF Core, vars
<1>6. CASE Refuse
  BY <1>2, <1>3, <1>6 DEF Core, Refuse
<1>7. CASE Exec
  <2>1. val' = [p \in Roots |-> "todo"] /\ errors' = {}
    BY <1>7 DEF Exec, Core
  <2>2. Sound(val', errors') /\ DOMAIN val' = Roots
    BY <1>1, <2>1, RootsAreSound
  <2> QED BY <1>2, <1>3, <1>7, <2>2 DEF Core, Exec
<1>8. ASSUME NEW p \in DOMAIN val, Fail(p) \/ Resolve(p) \/ Finish(p) PROVE Core'
  <2>1. deferred \in Int /\ pending \in Int /\ Sound(val, errors)
    BY SoundCore DEF Core
  <2>2. /\ Sound(val', errors') /\ Moves(val, val', p)
        /\ \E more \in {0, 1} : deferred' = deferred + more /\ pending' = pending + more
        /\ UNCHANGED <<op, phase, responses, events>>
    BY <1>1, <1>4, <1>8, <2>1, FieldMoves
  <2>3. phase # "new"
    BY DEF Core
  <2>4. Roots \subseteq DOMAIN val => Roots' \subseteq DOMAIN val'
    BY <1>3, <2>2 DEF Moves
  <2>5. deferred' \in Int /\ pending' \in Int
    BY <2>1, <2>2
  <2> QED BY <1>3, <2>2, <2>3, <2>4, <2>5 DEF Core
<1>9. CASE Respond
  BY <1>2, <1>3, <1>9 DEF Core, Respond
<1>10. ASSUME NEW p \in Started, Deliver(p) PROVE Core'
  BY <1>2, <1>3, <1>10 DEF Core, Deliver
<1>11. CASE Complete
  BY <1>2, <1>3, <1>11 DEF Core, Complete
<1>12. CASE Reject
  <2>1. val' = val /\ val = <<>> /\ errors' = Roots /\ phase' = "ended"
    BY <1>12 DEF Reject, Core
  <2>2. DOMAIN val' = {}
    BY <2>1
  <2> QED BY <1>2, <1>3, <1>12, <2>1, <2>2 DEF Core, Reject
<1>13. CASE Subscribe
  BY <1>2, <1>3, <1>13 DEF Core, Subscribe
<1>14. CASE TakeEvent
  <2>1. PICK root \in Roots : \E new \in Values(root) :
          val' = Adding(new, [p \in {root} |-> "open"])
    BY <1>14 DEF TakeEvent
  <2>2. errors' = {} /\ phase' = "running" /\ This.kind = "subscription"
    BY <1>14 DEF TakeEvent, Core
  <2>3. Sound(val', errors') /\ root \in DOMAIN val' /\ Roots = {root}
    BY <1>1, <1>4, <2>1, <2>2, EventIsSound, OneRoot
  <2> QED BY <1>2, <1>3, <1>14, <2>2, <2>3 DEF Core, TakeEvent
<1>15. CASE StreamCloses
  BY <1>2, <1>3, <1>15 DEF Core, StreamCloses
<1>16. ASSUME NEW p \in errors, TakeEffectLate(p) PROVE Core'
  <2>1. phase # "new"
    BY <1>16 DEF Core
  <2> QED BY <1>2, <1>3, <1>16, <2>1 DEF Core, TakeEffectLate
<1> QED BY <1>5, <1>6, <1>7, <1>8, <1>9, <1>10, <1>11, <1>12, <1>13, <1>14, <1>15, <1>16
        DEF Next, FieldNext, ResponseNext, SubscriptionNext

-----------------------------------------------------------------------------
(* Responses. *)

Replies == [group : Positions \cup {Whole}, data : {"null", "data"},
            errors : SUBSET (Positions \cup {Whole}), hasNext : {"none", "yes", "no"}]

\* A group that is due has lost its data exactly if one of its fields has failed.
LEMMA DataIsTrue ==
  ASSUME Valid(This), Sound(val, errors), NEW g, g \in Begun(val) \cup {Whole},
         NEW ps, ps = Tops(g), ps \subseteq DOMAIN val, \A t \in ps : Final(t)
  PROVE  Data(ps) = "null" <=> ErrorsOf(g) # {}
<1>1. Tree(val) /\ Blamed(val, errors) /\ Fallen(val, errors)
  BY DEF Sound
<1>2. ASSUME NEW t \in ps PROVE Counts(t) /\ GroupOf(t) = g
  <2>1. CASE g = Whole
    <3>1. t \in Roots
      BY <2>1 DEF Tops
    <3> QED BY <2>1, <3>1, RootsArePlaces, RootFacts, GroupFacts
  <2>2. CASE g # Whole
    <3>1. Place(g)
      BY <1>1, <2>2, BegunFacts
    <3>2. t \in Postponed(g)
      BY <2>2 DEF Tops
    <3> QED BY <3>1, <3>2, PostponedFacts
  <2> QED BY <2>1, <2>2
<1>3. ASSUME Data(ps) = "null" PROVE ErrorsOf(g) # {}
  <2>1. PICK t \in ps : val[t] = "null"
    BY <1>3 DEF Data
  <2>2. PICK x \in errors : GroupOf(x) = GroupOf(t)
    BY <1>1, <1>2, <2>1 DEF Blamed
  <2> QED BY <1>2, <2>2 DEF ErrorsOf
<1>4. ASSUME ErrorsOf(g) # {} PROVE Data(ps) = "null"
  <2>1. PICK x \in errors : GroupOf(x) = g
    BY <1>4 DEF ErrorsOf
  <2>2. x \in DOMAIN val /\ val[x] = "null" /\ Counts(x)
    BY <1>1 DEF Fallen
  <2>3. PICK t : Stands(val, x, t)
    BY <1>1, <2>2, EveryValueStands
  <2>4. t \in ps /\ val[t] # "ok"
    BY <2>1, <2>2, <2>3 DEF Stands
  <2>5. val[t] = "null"
    BY <2>4 DEF Final
  <2> QED BY <2>4, <2>5 DEF Data
<1> QED BY <1>3, <1>4

Honest(r) == r.data = "null" <=> r.errors # {}

Candid ==
  /\ responses \in Seq(Replies)
  /\ \A i \in DOMAIN responses : Honest(responses[i])

LEMMA AppendCandid ==
  ASSUME NEW s \in Seq(Replies), \A i \in DOMAIN s : Honest(s[i]),
         NEW r \in Replies, Honest(r), NEW t, t = Append(s, r)
  PROVE  t \in Seq(Replies) /\ \A i \in DOMAIN t : Honest(t[i])
<1>1. /\ t \in Seq(Replies) /\ Len(t) = Len(s) + 1 /\ t[Len(s) + 1] = r
      /\ \A i \in 1..Len(s) : t[i] = s[i]
      /\ DOMAIN t = 1..Len(t) /\ DOMAIN s = 1..Len(s) /\ Len(s) \in Nat
  OBVIOUS
<1>2. \A i \in 1..(Len(s) + 1) : i \in 1..Len(s) \/ i = Len(s) + 1
  BY <1>1
<1> QED BY ONLY <1>1, <1>2, Honest(r), \A i \in DOMAIN s : Honest(s[i])

LEMMA ErrorsArePositions ==
  ASSUME Valid(This), Sound(val, errors), NEW g
  PROVE  ErrorsOf(g) \in SUBSET (Positions \cup {Whole})
<1>1. ASSUME NEW x \in errors PROVE x \in Positions
  <2>1. Place(x)
    BY DEF Sound, Fallen, Tree, Hangs
  <2> QED BY <2>1, PlacesArePositions
<1> QED BY <1>1 DEF ErrorsOf

\* The response that Respond appends.
LEMMA RespondHonest ==
  ASSUME Core, Respond
  PROVE  \E r \in Replies : /\ Honest(r) /\ responses' = Append(responses, r)
                            /\ r.group = Whole /\ r.errors = ErrorsOf(Whole)
                            /\ r.hasNext = IF This.kind = "query" THEN HasNext(pending)
                                           ELSE "none"
<1> DEFINE h == IF This.kind = "query" THEN HasNext(pending) ELSE "none"
           r == Response(Whole, Data(Roots), ErrorsOf(Whole), h)
<1>1. Valid(This) /\ Sound(val, errors) /\ Roots \subseteq DOMAIN val
  BY ThisIsValid DEF Core, Respond
<1>2. Roots = Tops(Whole) /\ \A t \in Roots : Final(t)
  BY DEF Tops, Respond, Due
<1>3. Data(Roots) = "null" <=> ErrorsOf(Whole) # {}
  BY <1>1, <1>2, DataIsTrue
<1>4. ErrorsOf(Whole) \in SUBSET (Positions \cup {Whole})
  BY <1>1, ErrorsArePositions
<1>5. Data(Roots) \in {"null", "data"} /\ h \in {"none", "yes", "no"}
  BY DEF Data, HasNext
<1>6. responses' = Append(responses, r)
  BY DEF Respond
<1> HIDE DEF h
<1>7. r \in Replies
  BY <1>4, <1>5 DEF Replies, Response
<1>8. Honest(r) /\ r.group = Whole /\ r.errors = ErrorsOf(Whole) /\ r.hasNext = h
  BY <1>3 DEF Honest, Response
<1> QED BY <1>6, <1>7, <1>8 DEF h

LEMMA DeliverHonest ==
  ASSUME Core, NEW p, Deliver(p)
  PROVE  \E r \in Replies : /\ Honest(r) /\ responses' = Append(responses, r)
                            /\ r.group = p /\ r.errors = ErrorsOf(p)
                            /\ r.hasNext = HasNext(pending - 1)
<1> DEFINE h == HasNext(pending - 1)
           r == Response(p, Data(Postponed(p)), ErrorsOf(p), h)
<1>1. Valid(This) /\ p \in Begun(val)
  BY ThisIsValid DEF Core, Deliver, Started, Begun
<1>2. Sound(val, errors)
  BY <1>1, SoundCore DEF Begun
<1>3. Place(p) /\ p # Whole /\ Postponed(p) \subseteq DOMAIN val
  BY <1>1, <1>2, BegunFacts DEF Sound
<1>4. Postponed(p) = Tops(p) /\ \A t \in Postponed(p) : Final(t)
  BY <1>3 DEF Tops, Deliver, Finished
<1>5. Data(Postponed(p)) = "null" <=> ErrorsOf(p) # {}
  BY <1>1, <1>2, <1>3, <1>4, DataIsTrue
<1>6. ErrorsOf(p) \in SUBSET (Positions \cup {Whole}) /\ p \in Positions
  BY <1>1, <1>2, <1>3, ErrorsArePositions, PlacesArePositions
<1>7. Data(Postponed(p)) \in {"null", "data"} /\ h \in {"none", "yes", "no"}
  BY DEF Data, HasNext
<1>8. responses' = Append(responses, r)
  BY DEF Deliver
<1> HIDE DEF h
<1>9. r \in Replies
  BY <1>6, <1>7 DEF Replies, Response
<1>10. Honest(r) /\ r.group = p /\ r.errors = ErrorsOf(p) /\ r.hasNext = h
  BY <1>5 DEF Honest, Response
<1> QED BY <1>8, <1>9, <1>10 DEF h

LEMMA NextCandid ==
  ASSUME Core, Candid, [Next]_vars
  PROVE  Candid'
<1>1. CASE responses' = responses
  BY <1>1 DEF Candid
<1>2. ASSUME NEW r \in Replies, Honest(r), responses' = Append(responses, r)
      PROVE  Candid'
  BY <1>2, AppendCandid DEF Candid
<1>3. ASSUME NEW r \in Replies, Honest(r), responses' = <<r>>
      PROVE  Candid'
  <2>1. <<r>> \in Seq(Replies) /\ DOMAIN <<r>> = {1} /\ <<r>>[1] = r
    OBVIOUS
  <2> QED BY <1>3, <2>1 DEF Candid
<1>4. CASE Refuse
  <2> DEFINE r == Response(Whole, "null", {Whole}, "none")
  <2>1. r \in Replies /\ Honest(r)
    BY DEF Replies, Response, Honest
  <2>2. responses' = <<r>>
    BY <1>4 DEF Refuse
  <2> QED BY <1>3, <2>1, <2>2
<1>5. CASE Reject
  <2> DEFINE r == Response(Whole, "null", Roots, "none")
  <2>1. Valid(This) /\ This.kind = "subscription"
    BY <1>5, ThisIsValid DEF Core, Reject
  <2>2. Roots # {}
    <3>1. Len(This.roots) = 1 /\ This.roots \in Seq(STRING)
      BY <2>1 DEF Valid
    <3>2. 1 \in DOMAIN This.roots
      BY <3>1
    <3> QED BY <3>2 DEF Roots
  <2>3. Roots \subseteq Positions
    BY <2>1, RootsArePlaces, PlacesArePositions
  <2>4. r \in Replies /\ Honest(r)
    BY <2>2, <2>3 DEF Replies, Response, Honest
  <2>5. responses' = <<r>>
    BY <1>5 DEF Reject
  <2> QED BY <1>3, <2>4, <2>5
<1>6. CASE Respond
  BY <1>2, <1>6, RespondHonest
<1>7. ASSUME NEW p \in Started, Deliver(p) PROVE Candid'
  BY <1>2, <1>7, DeliverHonest
<1>8. CASE \/ UNCHANGED vars \/ Exec \/ FieldNext \/ Complete
           \/ Subscribe \/ TakeEvent \/ StreamCloses
           \/ \E p \in errors : TakeEffectLate(p)
  <2>1. responses' = responses
    BY <1>8 DEF vars, Exec, FieldNext, Fail, Resolve, Finish, Complete, Subscribe,
                TakeEvent, StreamCloses, TakeEffectLate
  <2> QED BY <1>1, <2>1
<1> QED BY <1>4, <1>5, <1>6, <1>7, <1>8 DEF Next, ResponseNext, SubscriptionNext

-----------------------------------------------------------------------------
(* Mutations. *)

RootAt(k) == At(<<This.roots[k]>>, 0)

LEMMA RootAtFacts ==
  ASSUME Valid(This)
  PROVE  /\ Roots = {RootAt(k) : k \in DOMAIN This.roots}
         /\ \A k \in DOMAIN This.roots : RootAt(k).path[1] = This.roots[k]
         /\ \A j, k \in DOMAIN This.roots :
              RootAt(j) = RootAt(k) \/ This.roots[j] = This.roots[k] => j = k
         /\ DOMAIN This.roots = 1..Len(This.roots) /\ Len(This.roots) \in Nat
<1>1. \A k \in DOMAIN This.roots : RootAt(k).path[1] = This.roots[k]
  BY DEF RootAt, At
<1>2. \A j, k \in DOMAIN This.roots : This.roots[j] = This.roots[k] => j = k
  BY DEF Valid, IsInjective
<1>3. This.roots \in Seq(STRING)
  BY DEF Valid
<1>4. \A j, k \in DOMAIN This.roots : RootAt(j) = RootAt(k) => j = k
  BY <1>1, <1>2
<1> QED BY <1>1, <1>2, <1>3, <1>4 DEF Roots, RootAt

\* A root field that has begun has those before it behind it.
InTurn(v) ==
  \A i, j \in DOMAIN This.roots :
    i < j /\ v[RootAt(j)] # "todo" => Ended(v[RootAt(i)])

\* The root fields whose resolver has succeeded.
Carried(v, e) == {k \in DOMAIN This.roots : v[RootAt(k)] # "todo" /\ RootAt(k) \notin e}

\* Effects f are those of the root fields in done, in order, and of some that errors e
\* leave in doubt.
Accounts(e, done, f) ==
  /\ f \in Seq(STRING) /\ IsInjective(f)
  /\ {This.roots[k] : k \in done} \subseteq Range(f)
  /\ Range(f) \subseteq {This.roots[k] : k \in done \cup Doubtful(e)}
  /\ \A a, b \in DOMAIN f : \A j, k \in done :
       f[a] = This.roots[j] /\ f[b] = This.roots[k] /\ j < k => a < b

\* What is carried out, by values v, errors e, effects f and responses rs.
Effective(v, e, f, rs) ==
  This.kind = "mutation" =>
    /\ Roots \subseteq DOMAIN v => InTurn(v) /\ Accounts(e, Carried(v, e), f)
    /\ rs # <<>> => \A r \in Roots : r \in DOMAIN v => Ended(v[r])
    /\ \A i \in DOMAIN rs :
         Whole \notin rs[i].errors =>
           /\ Roots \subseteq DOMAIN v
           /\ \A r \in Roots : r \in rs[i].errors <=> r \in e

\* A field that takes its turn, and one that fails or is carried out.
LEMMA TurnInOrder ==
  ASSUME Valid(This), This.kind = "mutation", NEW k \in DOMAIN This.roots,
         Turn(RootAt(k)), NEW i \in DOMAIN This.roots, i < k
  PROVE  Ended(val[RootAt(i)])
<1>1. RootAt(k) \in Roots /\ RootAt(k).path[1] = This.roots[k]
  BY RootAtFacts
<1>2. ~Runs("concurrent", RootAt(k).path)
  <2>1. Place(RootAt(k)) /\ Len(RootAt(k).path) = 1
    BY <1>1, RootsArePlaces, RootFacts
  <2> QED BY <2>1, PathFacts DEF Place, PathOK
<1>3. ASSUME NEW j \in 1..i PROVE This.roots[j] # This.roots[k]
  <2>1. j \in DOMAIN This.roots /\ j # k
    BY RootAtFacts
  <2> QED BY <2>1, RootAtFacts
<1>4. Final(At(<<This.roots[i]>>, 0))
  BY <1>1, <1>2, <1>3 DEF Turn
<1> QED BY <1>4 DEF Final, Ended, RootAt

LEMMA MoveInTurn ==
  ASSUME Valid(This), This.kind = "mutation", Roots \subseteq DOMAIN val, InTurn(val),
         NEW p, NEW w, Moves(val, w, p), val[p] = "todo" => Turn(p)
  PROVE  InTurn(w)
<1>1. \A k \in DOMAIN This.roots : RootAt(k) \in DOMAIN val
  BY RootAtFacts
<1>2. /\ ~Ended(val[p]) /\ \A d \in DOMAIN val : d # p => w[d] = val[d]
  BY DEF Moves
<1> SUFFICES ASSUME NEW i \in DOMAIN This.roots, NEW j \in DOMAIN This.roots,
                    i < j, w[RootAt(j)] # "todo"
             PROVE  Ended(w[RootAt(i)])
  BY DEF InTurn
<1>3. Ended(val[RootAt(i)])
  <2>1. CASE val[RootAt(j)] # "todo"
    BY <2>1 DEF InTurn
  <2>2. CASE val[RootAt(j)] = "todo"
    <3>1. RootAt(j) = p
      BY <1>1, <1>2, <2>2
    <3> QED BY <2>2, <3>1, TurnInOrder
  <2> QED BY <2>1, <2>2
<1> QED BY <1>1, <1>2, <1>3

\* A step that is not the success of a root field leaves what was carried out.
LEMMA CarriedStays ==
  ASSUME Valid(This), Roots \subseteq DOMAIN val, NEW p, NEW w, Moves(val, w, p),
         NEW f, f = errors \/ (val[p] = "todo" /\ f = errors \cup {p}),
         p \in Roots => val[p] # "todo" \/ f = errors \cup {p}
  PROVE  Carried(w, f) = Carried(val, errors)
<1>1. \A k \in DOMAIN This.roots : RootAt(k) \in Roots /\ RootAt(k) \in DOMAIN val
  BY RootAtFacts
<1>2. /\ w[p] # "todo" /\ \A d \in DOMAIN val : d # p => w[d] = val[d]
  BY DEF Moves
<1>3. ASSUME NEW k \in DOMAIN This.roots
      PROVE  k \in Carried(w, f) <=> k \in Carried(val, errors)
  <2>1. CASE RootAt(k) = p
    BY <1>1, <1>2, <2>1 DEF Carried
  <2>2. CASE RootAt(k) # p
    BY <1>1, <1>2, <2>2 DEF Carried
  <2> QED BY <2>1, <2>2
<1> QED BY <1>3 DEF Carried

\* An effect that is new: of a root field that succeeds, behind all that did before
\* it, or of one whose error hid it (more is empty).
LEMMA AccountsGrow ==
  ASSUME Valid(This), NEW e, NEW e2, e \subseteq e2, NEW f,
         NEW done \in SUBSET DOMAIN This.roots, Accounts(e, done, f),
         NEW k \in DOMAIN This.roots, This.roots[k] \notin Range(f), k \notin done,
         NEW more \in SUBSET {k}, k \in more \cup Doubtful(e2),
         \A j \in done : k \in more => j < k
  PROVE  Accounts(e2, done \cup more, Append(f, This.roots[k]))
<1> DEFINE s == This.roots
           g == Append(f, s[k])
<1>1. s \in Seq(STRING) /\ s[k] \in STRING /\ DOMAIN s \subseteq Int
  BY DEF Valid
<1>2. f \in Seq(STRING)
  BY DEF Accounts
<1>3. /\ g \in Seq(STRING) /\ DOMAIN f = 1..Len(f) /\ DOMAIN g = 1..(Len(f) + 1)
      /\ Len(f) \in Nat /\ g[Len(f) + 1] = s[k]
      /\ \A a \in DOMAIN f : g[a] = f[a]
  BY <1>1, <1>2
<1>4. \A a \in DOMAIN g : a \in Int /\ ((a \in DOMAIN f /\ a < Len(f) + 1) \/ a = Len(f) + 1)
  BY <1>3
<1>5. \A a \in DOMAIN f : a \in DOMAIN g /\ f[a] # s[k]
  BY <1>3 DEF Range
<1>6. Len(f) + 1 \in DOMAIN g
  BY <1>3
<1> HIDE DEF g
<1>7. IsInjective(g)
  BY <1>3, <1>4, <1>5 DEF IsInjective, Accounts
<1>8. Range(g) = Range(f) \cup {s[k]}
  BY <1>3, <1>4, <1>5, <1>6 DEF Range
<1>9. {s[j] : j \in done \cup more} \subseteq Range(g)
  BY <1>8 DEF Accounts
<1>10. Doubtful(e) \subseteq Doubtful(e2)
  BY DEF Doubtful
<1>11. Range(g) \subseteq {s[j] : j \in (done \cup more) \cup Doubtful(e2)}
  BY <1>8, <1>10 DEF Accounts
<1>12. \A i, j \in DOMAIN s : s[i] = s[j] => i = j
  BY RootAtFacts
<1>13. ASSUME NEW a \in DOMAIN g, NEW b \in DOMAIN g,
              NEW i \in done \cup more, NEW j \in done \cup more,
              g[a] = s[i], g[b] = s[j], i < j
       PROVE  a < b
  <2>1. i \in DOMAIN s /\ j \in DOMAIN s /\ i \in Int /\ j \in Int /\ k \in Int
    BY <1>1
  <2>2. CASE a \in DOMAIN f /\ b \in DOMAIN f
    <3>1. f[a] = s[i] /\ f[b] = s[j] /\ i # k /\ j # k
      BY <1>3, <1>5, <1>13, <2>2
    <3> QED BY <1>13, <2>2, <3>1 DEF Accounts
  <2>3. CASE a \in DOMAIN f /\ b = Len(f) + 1
    BY <1>4, <2>3
  <2>4. CASE a = Len(f) + 1
    <3>1. i = k
      BY <1>3, <1>12, <1>13, <2>1, <2>4
    <3>2. i \in more /\ j \in done
      BY <1>13, <2>1, <3>1
    <3>3. j < k
      BY <3>1, <3>2
    <3> QED BY <1>13, <2>1, <3>1, <3>3
  <2> QED BY <1>4, <2>2, <2>3, <2>4
<1>14. Accounts(e2, done \cup more, g)
  BY <1>3, <1>7, <1>9, <1>11, <1>13 DEF Accounts
<1> QED BY <1>14 DEF g

\* A root field that has not begun comes behind all that have, and has no effect yet.
LEMMA NotBegunYet ==
  ASSUME Valid(This), Fallen(val, errors), Roots \subseteq DOMAIN val, InTurn(val),
         Accounts(errors, Carried(val, errors), effects),
         NEW k \in DOMAIN This.roots, val[RootAt(k)] = "todo"
  PROVE  /\ This.roots[k] \notin Range(effects)
         /\ k \notin Carried(val, errors) /\ \A j \in Carried(val, errors) : j < k
<1>1. k \notin Carried(val, errors)
  BY DEF Carried
<1>2. k \notin Doubtful(errors)
  BY DEF Doubtful, RootAt, Fallen
<1>3. This.roots[k] \notin Range(effects)
  <2>1. Carried(val, errors) \cup Doubtful(errors) \subseteq DOMAIN This.roots
    BY DEF Carried, Doubtful
  <2>2. \A j \in DOMAIN This.roots : This.roots[j] = This.roots[k] => j = k
    BY RootAtFacts
  <2> QED BY <1>1, <1>2, <2>1, <2>2 DEF Accounts
<1>4. ASSUME NEW j \in Carried(val, errors), ~(j < k) PROVE FALSE
  <2>1. j \in DOMAIN This.roots /\ j # k /\ val[RootAt(j)] # "todo"
    BY <1>1, <1>4 DEF Carried
  <2>2. k < j
    BY <1>4, <2>1, RootAtFacts
  <2> QED BY <2>1, <2>2 DEF InTurn, Ended
<1> QED BY <1>1, <1>3, <1>4

LEMMA CarriedGrows ==
  ASSUME Valid(This), Fallen(val, errors), Roots \subseteq DOMAIN val,
         NEW k \in DOMAIN This.roots, val[RootAt(k)] = "todo",
         NEW w, Moves(val, w, RootAt(k))
  PROVE  Carried(w, errors) = Carried(val, errors) \cup {k}
<1>1. \A i \in DOMAIN This.roots : RootAt(i) \in DOMAIN val
  BY RootAtFacts
<1>2. /\ w[RootAt(k)] # "todo" /\ \A d \in DOMAIN val : d # RootAt(k) => w[d] = val[d]
  BY DEF Moves
<1>3. RootAt(k) \notin errors
  BY DEF Fallen
<1>4. \A i \in DOMAIN This.roots :
        i \in Carried(w, errors) <=> i \in Carried(val, errors) \/ i = k
  <2> SUFFICES ASSUME NEW i \in DOMAIN This.roots
               PROVE  i \in Carried(w, errors) <=> i \in Carried(val, errors) \/ i = k
    OBVIOUS
  <2>1. CASE i = k
    BY <1>2, <1>3, <2>1 DEF Carried
  <2>2. CASE i # k
    <3>1. RootAt(i) # RootAt(k)
      BY <2>2, RootAtFacts
    <3> QED BY <1>1, <1>2, <2>2, <3>1 DEF Carried
  <2> QED BY <2>1, <2>2
<1> QED BY <1>4 DEF Carried

LEMMA EffectiveStays ==
  ASSUME op' = op
  PROVE  Effective(val, errors, effects, responses)'
           <=> Effective(val', errors', effects', responses')
<1>1. This' = This /\ Roots' = Roots /\ Whole' = Whole
  BY OpStays DEF Whole, At
<1>2. \A k : RootAt(k)' = RootAt(k)
  BY <1>1 DEF RootAt, At
<1>3. InTurn(val)' <=> InTurn(val')
  BY <1>1, <1>2 DEF InTurn
<1>4. Carried(val, errors)' = Carried(val', errors')
  BY <1>1, <1>2 DEF Carried
<1>5. Doubtful(errors)' = Doubtful(errors')
  BY <1>1 DEF Doubtful, At, MayHideEffect, ArgumentsConvert
<1>6. Accounts(errors, Carried(val, errors), effects)'
      <=> Accounts(errors', Carried(val', errors'), effects')
  BY <1>1, <1>4, <1>5 DEF Accounts
<1> QED BY <1>1, <1>3, <1>6 DEF Effective

LEMMA NothingIsCarried ==
  ASSUME Valid(This), NEW v,
         \A k \in DOMAIN This.roots : RootAt(k) \in DOMAIN v => v[RootAt(k)] = "todo"
  PROVE  Effective(v, {}, <<>>, <<>>)
<1> SUFFICES ASSUME Roots \subseteq DOMAIN v
             PROVE  InTurn(v) /\ Accounts({}, Carried(v, {}), <<>>)
  BY DEF Effective
<1>1. \A k \in DOMAIN This.roots : v[RootAt(k)] = "todo"
  BY RootAtFacts
<1>2. Carried(v, {}) = {}
  BY <1>1 DEF Carried
<1>3. <<>> \in Seq(STRING) /\ DOMAIN <<>> = {}
  OBVIOUS
<1>4. IsInjective(<<>>) /\ Range(<<>>) = {}
  BY <1>3 DEF IsInjective, Range
<1>5. Accounts({}, Carried(v, {}), <<>>)
  BY <1>2, <1>3, <1>4 DEF Accounts
<1> QED BY <1>1, <1>5 DEF InTurn

LEMMA FieldEffective ==
  ASSUME Core, Effective(val, errors, effects, responses), NEW p \in DOMAIN val,
         Fail(p) \/ Resolve(p) \/ Finish(p)
  PROVE  Effective(val', errors', effects', responses')
<1>1. /\ Valid(This) /\ MaxItems \in Nat /\ Sound(val, errors)
      /\ deferred \in Int /\ pending \in Int
  BY ThisIsValid, SoundCore, OperationsAssumption DEF Core
<1>2. Moves(val, val', p) /\ responses' = responses
  BY <1>1, FieldMoves
<1>3. Fallen(val, errors)
  BY <1>1 DEF Sound
<1> SUFFICES ASSUME This.kind = "mutation"
             PROVE  Effective(val', errors', effects', responses')
  BY DEF Effective
<1> DEFINE s == This.roots
<1>4. val[p] = "todo" => Turn(p)
  BY DEF Fail, Resolve, Finish
<1>5. /\ DOMAIN val \subseteq DOMAIN val'
      /\ \A d \in DOMAIN val' : d \notin DOMAIN val => d \notin Roots
      /\ \A d \in DOMAIN val : d # p => val'[d] = val[d]
      /\ ~Ended(val[p])
  BY <1>2 DEF Moves
<1>6. ASSUME Roots \subseteq DOMAIN val'
      PROVE  InTurn(val') /\ Accounts(errors', Carried(val', errors'), effects')
  <2>1. Roots \subseteq DOMAIN val
    BY <1>5, <1>6
  <2>2. InTurn(val) /\ Accounts(errors, Carried(val, errors), effects)
    BY <2>1 DEF Effective
  <2>3. InTurn(val')
    BY <1>1, <1>2, <1>4, <2>1, <2>2, MoveInTurn
  <2> DEFINE told == Carried(val, errors)
  <2>4. told \in SUBSET DOMAIN s
    BY DEF Carried
  <2>5. ASSUME val[p] = "todo", NEW k \in DOMAIN s, p = RootAt(k),
               errors \subseteq errors', NEW more \in SUBSET {k},
               k \in more \cup Doubtful(errors')
        PROVE  Accounts(errors', told \cup more, Append(effects, s[k]))
    <3>1. /\ s[k] \notin Range(effects) /\ k \notin told
          /\ \A j \in told : j < k
      BY <1>1, <1>3, <2>1, <2>2, <2>5, NotBegunYet
    <3> HIDE DEF told
    <3> QED BY <1>1, <2>2, <2>4, <2>5, <3>1, AccountsGrow DEF told
  <2>6. CASE Carried(val', errors') = told /\ errors \subseteq errors' /\ effects' = effects
    <3>1. Doubtful(errors) \subseteq Doubtful(errors')
      BY <2>6 DEF Doubtful
    <3> QED BY <2>2, <2>3, <2>6, <3>1 DEF Accounts
  <2>7. CASE Fail(p)
    <3>1. val[p] = "todo" /\ errors' = errors \cup {p}
      BY <2>7 DEF Fail
    <3>2. Carried(val', errors') = told
      BY <1>1, <1>2, <2>1, <3>1, CarriedStays
    <3>3. CASE MayHideEffect(p) /\ effects' = Append(effects, p.path[1])
      <4>1. PICK k \in DOMAIN s : p = RootAt(k)
        BY <1>1, <3>3, RootAtFacts DEF MayHideEffect
      <4>2. p.path[1] = s[k] /\ k \in Doubtful(errors')
        BY <1>1, <3>1, <3>3, <4>1, RootAtFacts DEF Doubtful, RootAt
      <4>3. Accounts(errors', told \cup {}, Append(effects, s[k]))
        BY <2>5, <3>1, <4>1, <4>2
      <4>4. told \cup {} = told
        OBVIOUS
      <4> QED BY <2>3, <3>2, <3>3, <4>2, <4>3, <4>4
    <3>4. CASE effects' = effects
      BY <2>6, <3>1, <3>2, <3>4
    <3> QED BY <2>7, <3>3, <3>4 DEF Fail
  <2>8. CASE Finish(p)
    <3>1. val[p] = "open" /\ errors' = errors /\ effects' = effects
      BY <2>8 DEF Finish
    <3>2. Carried(val', errors') = told
      BY <1>1, <1>2, <2>1, <3>1, CarriedStays
    <3> QED BY <2>6, <3>1, <3>2
  <2>9. CASE Resolve(p) /\ p \notin Roots
    <3>1. errors' = errors /\ effects' = effects
      BY <2>9 DEF Resolve
    <3>2. Carried(val', errors') = told
      BY <1>1, <1>2, <2>1, <2>9, <3>1, CarriedStays
    <3> QED BY <2>6, <3>1, <3>2
  <2>10. CASE Resolve(p) /\ p \in Roots
    <3>1. errors' = errors /\ effects' = Append(effects, p.path[1]) /\ val[p] = "todo"
      BY <2>10 DEF Resolve
    <3>2. PICK k \in DOMAIN s : p = RootAt(k)
      BY <1>1, <2>10, RootAtFacts
    <3>3. p.path[1] = s[k]
      BY <1>1, <3>2, RootAtFacts
    <3>4. Carried(val', errors) = told \cup {k}
      BY <1>1, <1>2, <1>3, <2>1, <3>1, <3>2, CarriedGrows
    <3>5. Accounts(errors', told \cup {k}, Append(effects, s[k]))
      BY <2>5, <3>1, <3>2
    <3> QED BY <2>3, <3>1, <3>3, <3>4, <3>5
  <2> QED BY <2>7, <2>8, <2>9, <2>10
<1>7. ASSUME responses # <<>>
      PROVE  /\ \A r \in Roots : r \in DOMAIN val' => Ended(val'[r])
             /\ \A r \in Roots : r \in errors' <=> r \in errors
  <2>1. \A r \in Roots : r \in DOMAIN val => Ended(val[r])
    BY <1>7 DEF Effective
  <2>2. p \notin Roots
    BY <1>5, <2>1
  <2>3. errors' = errors \/ errors' = errors \cup {p}
    BY DEF Fail, Resolve, Finish
  <2> QED BY <1>5, <2>1, <2>2, <2>3
<1>8. DOMAIN responses # {} => responses # <<>>
  <2>1. DOMAIN <<>> = {}
    OBVIOUS
  <2> QED BY <2>1
<1>9. ASSUME NEW i \in DOMAIN responses, Whole \notin responses[i].errors
      PROVE  /\ Roots \subseteq DOMAIN val'
             /\ \A r \in Roots : r \in responses[i].errors <=> r \in errors'
  BY <1>5, <1>7, <1>8, <1>9 DEF Effective
<1> QED BY <1>2, <1>6, <1>7, <1>9 DEF Effective

LEMMA RespondEffective ==
  ASSUME Core, Candid, Effective(val, errors, effects, responses), Respond,
         This.kind = "mutation"
  PROVE  Effective(val, errors, effects, responses')
<1>1. Valid(This) /\ Roots \subseteq DOMAIN val
  BY ThisIsValid DEF Core, Respond
<1>2. PICK r \in Replies : responses' = Append(responses, r) /\ r.errors = ErrorsOf(Whole)
  BY RespondHonest
<1>3. \A d \in Roots : Ended(val[d]) /\ GroupOf(d) = Whole
  <2>1. ASSUME NEW d \in Roots PROVE Ended(val[d]) /\ GroupOf(d) = Whole
    <3>1. Final(d)
      BY DEF Respond, Due
    <3>2. GroupOf(d) = Whole
      BY <1>1, RootsArePlaces, GroupFacts
    <3> QED BY <3>1, <3>2 DEF Final, Ended
  <2> QED BY <2>1
<1>4. \A k \in DOMAIN This.roots : RootAt(k) \in Roots
  BY <1>1, RootAtFacts
<1>5. \A d \in Roots : d \in r.errors <=> d \in errors
  BY <1>2, <1>3 DEF ErrorsOf
<1>6. InTurn(val) /\ Accounts(errors, Carried(val, errors), effects)
  BY <1>1 DEF Effective
<1>7. /\ DOMAIN responses' = 1..(Len(responses) + 1)
      /\ responses'[Len(responses) + 1] = r
      /\ \A i \in 1..Len(responses) : responses'[i] = responses[i]
      /\ \A i \in 1..(Len(responses) + 1) : i \in 1..Len(responses) \/ i = Len(responses) + 1
      /\ DOMAIN responses = 1..Len(responses)
  BY <1>2 DEF Candid
<1>8. ASSUME NEW i \in DOMAIN responses', Whole \notin responses'[i].errors
      PROVE  \A d \in Roots : d \in responses'[i].errors <=> d \in errors
  <2>1. CASE i \in 1..Len(responses)
    BY <1>7, <1>8, <2>1 DEF Effective
  <2>2. CASE i = Len(responses) + 1
    BY <1>5, <1>7, <2>2
  <2> QED BY <1>7, <2>1, <2>2
<1> QED BY <1>1, <1>3, <1>6, <1>8 DEF Effective

\* A late effect is one that an error has hidden until now.
LEMMA LateEffective ==
  ASSUME Core, Effective(val, errors, effects, responses), NEW p \in errors,
         TakeEffectLate(p)
  PROVE  Effective(val, errors, effects', responses)
<1>1. Valid(This)
  BY ThisIsValid DEF Core
<1>2. /\ This.kind = "mutation" /\ p \in Roots /\ MayHideEffect(p)
      /\ p.path[1] \notin Range(effects) /\ effects' = Append(effects, p.path[1])
  BY DEF TakeEffectLate, MayHideEffect
<1>3. PICK k \in DOMAIN This.roots : p = RootAt(k)
  BY <1>1, <1>2, RootAtFacts
<1>4. p.path[1] = This.roots[k] /\ k \in Doubtful(errors) /\ k \notin Carried(val, errors)
  BY <1>1, <1>2, <1>3, RootAtFacts DEF Doubtful, RootAt, Carried
<1>5. ASSUME Roots \subseteq DOMAIN val
      PROVE  Accounts(errors, Carried(val, errors), effects')
  <2> DEFINE done == Carried(val, errors)
  <2>1. Accounts(errors, done, effects) /\ done \in SUBSET DOMAIN This.roots
    BY <1>2, <1>5 DEF Effective, Carried
  <2>2. done \cup {} = done /\ k \notin {} /\ {} \in SUBSET {k}
    OBVIOUS
  <2> HIDE DEF done
  <2>3. k \notin done
    BY <1>4 DEF done
  <2>4. Accounts(errors, done \cup {}, Append(effects, This.roots[k]))
    BY <1>1, <1>2, <1>4, <2>1, <2>2, <2>3, AccountsGrow
  <2> QED BY <1>2, <1>4, <2>2, <2>4 DEF done
<1> QED BY <1>5 DEF Effective

LEMMA NextEffective ==
  ASSUME Core, Candid, Effective(val, errors, effects, responses), [Next]_vars
  PROVE  Effective(val', errors', effects', responses')
<1>1. Valid(This)
  BY ThisIsValid DEF Core
<1>2. CASE UNCHANGED <<val, errors, effects, responses>>
  BY <1>2
<1>3. CASE Refuse
  <2> DEFINE r == Response(Whole, "null", {Whole}, "none")
  <2>1. /\ responses' = <<r>> /\ val' = <<>> /\ val = <<>>
        /\ errors' = {} /\ errors = {} /\ effects' = effects
    BY <1>3 DEF Refuse, Core
  <2>2. Whole \in r.errors /\ DOMAIN <<r>> = {1} /\ <<r>>[1] = r /\ DOMAIN <<>> = {}
    BY DEF Response
  <2> HIDE DEF r
  <2> QED BY <2>1, <2>2 DEF Effective
<1>4. CASE Exec
  <2>1. val' = [p \in Roots |-> "todo"] /\ errors' = {} /\ effects' = <<>> /\ responses' = <<>>
    BY <1>4 DEF Exec, Core
  <2>2. \A k \in DOMAIN This.roots : val'[RootAt(k)] = "todo"
    BY <1>1, <2>1, RootAtFacts
  <2> QED BY <1>1, <2>1, <2>2, NothingIsCarried
<1>5. ASSUME NEW p \in DOMAIN val, Fail(p) \/ Resolve(p) \/ Finish(p)
      PROVE  Effective(val', errors', effects', responses')
  BY <1>5, FieldEffective
<1>6. CASE Respond
  <2>1. val' = val /\ errors' = errors /\ effects' = effects
    BY <1>6 DEF Respond
  <2> QED BY <1>6, <2>1, RespondEffective DEF Effective
<1>7. ASSUME NEW p \in Started, Deliver(p) PROVE Effective(val', errors', effects', responses')
  BY <1>7 DEF Deliver, Effective
<1>8. CASE Reject \/ TakeEvent
  BY <1>8 DEF Reject, TakeEvent, Effective, Core
<1>9. CASE UNCHANGED vars \/ Complete \/ Subscribe \/ StreamCloses
  BY <1>2, <1>9 DEF vars, Complete, Subscribe, StreamCloses
<1>10. ASSUME NEW p \in errors, TakeEffectLate(p)
       PROVE  Effective(val', errors', effects', responses')
  <2>1. val' = val /\ errors' = errors /\ responses' = responses
    BY <1>10 DEF TakeEffectLate
  <2> QED BY <1>10, <2>1, LateEffective
<1> QED BY <1>3, <1>4, <1>5, <1>6, <1>7, <1>8, <1>9, <1>10
        DEF Next, FieldNext, ResponseNext, SubscriptionNext

-----------------------------------------------------------------------------
(* Results. *)

TruthInv == Core /\ Candid /\ Effective(val, errors, effects, responses)

LEMMA TruthInvariant == Spec => []TruthInv
<1>1. Init => TruthInv
  <2> SUFFICES ASSUME Init PROVE TruthInv
    OBVIOUS
  <2>1. Core /\ Valid(This)
    BY InitCore, ThisIsValid DEF Init
  <2>2. Candid
    <3>1. <<>> \in Seq(Replies) /\ DOMAIN <<>> = {}
      OBVIOUS
    <3> QED BY <3>1 DEF Init, Candid
  <2>3. Effective(val, errors, effects, responses)
    <3>1. DOMAIN <<>> = {}
      OBVIOUS
    <3>2. Effective(<<>>, {}, <<>>, <<>>)
      BY <2>1, <3>1, NothingIsCarried
    <3> QED BY <3>2 DEF Init
  <2> QED BY <2>1, <2>2, <2>3 DEF TruthInv
<1>2. TruthInv /\ [Next]_vars => TruthInv'
  <2> SUFFICES ASSUME TruthInv, [Next]_vars PROVE TruthInv'
    OBVIOUS
  <2>1. Core' /\ Candid'
    BY NextCore, NextCandid DEF TruthInv
  <2>2. op' = op
    BY OpIsFixed
  <2>3. Effective(val, errors, effects, responses)'
    BY <2>2, NextEffective, EffectiveStays DEF TruthInv
  <2> QED BY <2>1, <2>3 DEF TruthInv
<1> QED BY <1>1, <1>2, PTL DEF Spec

\* For every operation: a response has no data exactly if it lists an error, whatever
\* fails and in whichever order; and by the errors of its response a mutation's root
\* fields without an error were carried out, once and in order, over the memory store
\* no others, and over postgres only others whose error may hide an effect (the
\* generated _X and _XFields functions, and ProcessDeferredGroup).
THEOREM ResponsesAreTruthful == Spec => []ResponseTruthful
<1>1. TruthInv => ResponseTruthful
  <2> SUFFICES ASSUME TruthInv, NEW n \in DOMAIN responses
               PROVE  /\ responses[n].data = "null" <=> responses[n].errors # {}
                      /\ This.kind = "mutation" /\ Whole \notin responses[n].errors =>
                           Accounts(responses[n].errors, CarriedOut(responses[n].errors), effects)
    BY DEF ResponseTruthful, Accounts
  <2> DEFINE told == responses[n].errors
  <2>1. told # {} <=> responses[n].data = "null"
    BY DEF TruthInv, Candid, Honest
  <2>2. ASSUME This.kind = "mutation", Whole \notin told
        PROVE  Accounts(told, CarriedOut(told), effects)
    <3>1. Valid(This) /\ DOMAIN <<>> = {}
      BY ThisIsValid DEF TruthInv, Core
    <3>2. Roots \subseteq DOMAIN val /\ \A r \in Roots : r \in told <=> r \in errors
      BY <2>2 DEF TruthInv, Effective
    <3>3. \A r \in Roots : Ended(val[r])
      BY <2>2, <3>1, <3>2 DEF TruthInv, Effective
    <3>4. \A k \in DOMAIN This.roots : RootAt(k) \in Roots
      BY <3>1, RootAtFacts
    <3>5. Carried(val, errors) = CarriedOut(told)
      BY <3>2, <3>3, <3>4 DEF Carried, CarriedOut, Ended, RootAt
    <3>6. Doubtful(errors) = Doubtful(told)
      BY <3>2, <3>4 DEF Doubtful, RootAt
    <3>7. Accounts(errors, Carried(val, errors), effects)
      BY <2>2, <3>2 DEF TruthInv, Effective
    <3> QED BY <3>5, <3>6, <3>7 DEF Accounts
  <2> QED BY <2>1, <2>2
<1> QED BY <1>1, TruthInvariant, PTL

\* For every mutation: a root field's resolver runs only when everything of the first
\* response below the earlier root fields is done (_Mutation's loop over its fields).
THEOREM MutationsRunSerially == Spec => MutationsSerial
<1> DEFINE Serial ==
      This.kind = "mutation" =>
        \A i, j \in DOMAIN This.roots : \A p \in DOMAIN val :
          i < j /\ p = At(<<This.roots[j]>>, 0) /\ val[p] = "todo" /\ val'[p] # "todo" =>
            \A q \in DOMAIN val : q.path[1] = This.roots[i] /\ GroupOf(q) = Whole => Final(q)
<1>1. TruthInv /\ [Next]_vars => Serial
  <2> SUFFICES ASSUME TruthInv, [Next]_vars, This.kind = "mutation",
                      NEW i \in DOMAIN This.roots, NEW j \in DOMAIN This.roots,
                      NEW p \in DOMAIN val, i < j, p = At(<<This.roots[j]>>, 0),
                      val[p] = "todo", val'[p] # "todo",
                      NEW q \in DOMAIN val, q.path[1] = This.roots[i], GroupOf(q) = Whole
               PROVE  Final(q)
    OBVIOUS
  <2>1. Core /\ Valid(This)
    BY ThisIsValid DEF TruthInv, Core
  <2>2. /\ Tree(val) /\ MaxItems \in Nat /\ Sound(val, errors)
        /\ deferred \in Int /\ pending \in Int
    BY <2>1, SoundCore, OperationsAssumption DEF Sound, Core
  <2>3. phase # "new"
    <3>1. DOMAIN <<>> = {}
      OBVIOUS
    <3> QED BY <2>1, <3>1 DEF Core
  <2>4. \E x \in DOMAIN val : Fail(x) \/ Resolve(x) \/ Finish(x)
    <3>1. val' # val
      OBVIOUS
    <3>2. ~TakeEvent
      BY <2>1 DEF TakeEvent, Core
    <3> QED BY <2>3, <3>1, <3>2
            DEF Next, Refuse, Exec, FieldNext, ResponseNext, Respond, Deliver,
                Complete, SubscriptionNext, Reject, Subscribe, StreamCloses,
                TakeEffectLate, vars
  <2>5. PICK x \in DOMAIN val : Fail(x) \/ Resolve(x) \/ Finish(x)
    BY <2>4
  <2>6. Moves(val, val', x)
    BY <2>1, <2>2, <2>5, FieldMoves
  <2>7. x = p
    BY <2>6 DEF Moves
  <2>8. Turn(p)
    BY <2>5, <2>7 DEF Fail, Resolve, Finish
  <2>9. Ended(val[RootAt(i)])
    BY <2>1, <2>8, TurnInOrder DEF RootAt
  <2>10. PICK t : Stands(val, q, t)
    BY <2>1, <2>2, EveryValueStands
  <2>11. t \in Roots /\ t.path[1] = This.roots[i] /\ (~Ended(val[q]) => ~Ended(val[t]))
    BY <2>10 DEF Stands, Tops
  <2>12. t = RootAt(i)
    BY <2>1, <2>11, RootAtFacts
  <2> QED BY <2>9, <2>11, <2>12 DEF Final, Ended
<1>2. TruthInv /\ [Next]_vars => [Serial]_vars
  BY <1>1
<1> QED BY <1>2, TruthInvariant, PTL DEF Spec, MutationsSerial

-----------------------------------------------------------------------------
(* What is announced. *)

DeliveredIn(rs) == {rs[i].group : i \in DOMAIN rs}

\* Announcements of further responses, by values v, phase ph, counters df and pe and
\* responses rs.
Announced(v, ph, df, pe, rs) ==
  This.kind = "query" =>
    /\ IsFiniteSet(Begun(v)) /\ df = Cardinality(Begun(v))
    /\ pe = Cardinality(Begun(v) \ DeliveredIn(rs))
    /\ DeliveredIn(rs) \subseteq Begun(v) \cup {Whole}
    /\ \A g \in DeliveredIn(rs) : \A t \in Tops(g) : t \in DOMAIN v => Ended(v[t])
    /\ ph \in {"new", "running"} => rs = <<>>
    /\ ph \in {"streaming", "ended"} => Whole \in DeliveredIn(rs)
    /\ This.streamed =>
         /\ \A i \in DOMAIN rs : rs[i].hasNext # "yes" => i = Len(rs) /\ pe = 0
         /\ ph = "streaming" /\ rs[Len(rs)].hasNext = "yes" => pe > 0
         /\ ph = "ended" => pe = 0 /\ rs[Len(rs)].hasNext # "yes"

LEMMA AnnouncedStays ==
  ASSUME op' = op
  PROVE  Announced(val, phase, deferred, pending, responses)'
           <=> Announced(val', phase', deferred', pending', responses')
<1>1. This' = This /\ Whole' = Whole
  BY OpStays DEF Whole, At
<1>2. Begun(val)' = Begun(val') /\ \A g : Tops(g)' = Tops(g)
  BY SoundStays
<1>3. DeliveredIn(responses)' = DeliveredIn(responses')
  BY DEF DeliveredIn
<1> QED BY <1>1, <1>2, <1>3 DEF Announced

\* Slice t is s with r behind it.
OneMore(s, r, t) ==
  /\ DeliveredIn(t) = DeliveredIn(s) \cup {r.group}
  /\ Len(t) = Len(s) + 1 /\ Len(s) \in Nat /\ t[Len(t)] = r
  /\ \A i \in DOMAIN t : i = Len(t) \/ (i \in DOMAIN s /\ t[i] = s[i])

LEMMA AppendDelivered ==
  ASSUME NEW s \in Seq(Replies), NEW r \in Replies, NEW t, t = Append(s, r)
  PROVE  OneMore(s, r, t)
<1>1. /\ DOMAIN s = 1..Len(s) /\ Len(s) \in Nat /\ DOMAIN t = 1..(Len(s) + 1)
      /\ Len(t) = Len(s) + 1 /\ t[Len(s) + 1] = r
      /\ \A i \in 1..Len(s) : t[i] = s[i]
  OBVIOUS
<1>2. \A i \in 1..(Len(s) + 1) : i = Len(s) + 1 \/ i \in 1..Len(s)
  BY <1>1
<1>3. Len(s) + 1 \in 1..(Len(s) + 1) /\ \A i \in 1..Len(s) : i \in 1..(Len(s) + 1)
  BY <1>1
<1>4. DeliveredIn(t) = DeliveredIn(s) \cup {r.group}
  BY ONLY <1>1, <1>2, <1>3 DEF DeliveredIn
<1> QED BY ONLY <1>1, <1>2, <1>4 DEF OneMore

LEMMA AllEnded ==
  ASSUME Valid(This), NEW v, Tree(v), NEW D, Begun(v) \cup {Whole} \subseteq D,
         \A g \in D : \A t \in Tops(g) : t \in DOMAIN v => Ended(v[t])
  PROVE  \A d \in DOMAIN v : Ended(v[d])
<1> SUFFICES ASSUME NEW d \in DOMAIN v PROVE Ended(v[d])
  OBVIOUS
<1>1. GroupOf(d) \in D
  BY GroupsHaveBegun
<1>2. PICK t : Stands(v, d, t)
  BY EveryValueStands
<1> QED BY <1>1, <1>2 DEF Stands

LEMMA NothingPending ==
  ASSUME NEW B, NEW D, IsFiniteSet(B), Cardinality(B \ D) = 0
  PROVE  B \subseteq D
<1> DEFINE R == B \ D
<1>1. IsFiniteSet(R)
  <2>1. R \subseteq B
    OBVIOUS
  <2> HIDE DEF R
  <2> QED BY <2>1, FS_Subset
<1>2. R = {}
  <2> HIDE DEF R
  <2>1. Cardinality(R) = 0
    BY DEF R
  <2> QED BY <1>1, <2>1, FS_EmptySet
<1> QED BY <1>2

LEMMA LeftIsNat ==
  ASSUME NEW B, NEW D, IsFiniteSet(B)
  PROVE  Cardinality(B \ D) \in Nat /\ Cardinality(B) \in Nat
<1> DEFINE R == B \ D
<1>1. R \subseteq B
  OBVIOUS
<1> HIDE DEF R
<1>2. IsFiniteSet(R)
  BY <1>1, FS_Subset
<1>3. Cardinality(R) \in Nat /\ Cardinality(B) \in Nat
  BY <1>2, FS_CardinalityType
<1> QED BY <1>3 DEF R

LEMMA FieldAnnounced ==
  ASSUME Core, Announced(val, phase, deferred, pending, responses), NEW p \in DOMAIN val,
         Fail(p) \/ Resolve(p) \/ Finish(p), This.kind = "query"
  PROVE  Announced(val', phase', deferred', pending', responses')
<1> DEFINE B == Begun(val)
           C == Begun(val')
           D == DeliveredIn(responses)
<1>1. /\ Valid(This) /\ MaxItems \in Nat /\ Sound(val, errors) /\ Tree(val)
      /\ deferred \in Int /\ pending \in Int
  BY ThisIsValid, SoundCore, OperationsAssumption DEF Core, Sound
<1>2. /\ Moves(val, val', p) /\ responses' = responses /\ phase' = phase /\ Place(p)
  BY <1>1, FieldMoves DEF Tree, Hangs
<1>3. PICK more \in {0, 1} : /\ deferred' = deferred + more /\ pending' = pending + more
                             /\ Counted(val, val', p, more)
  BY <1>1, FieldMoves
<1>4. /\ IsFiniteSet(B) /\ deferred = Cardinality(B) /\ pending = Cardinality(B \ D)
      /\ D \subseteq B \cup {Whole}
      /\ \A g \in D : \A t \in Tops(g) : t \in DOMAIN val => Ended(val[t])
      /\ phase \in {"new", "running"} => responses = <<>>
      /\ phase \in {"streaming", "ended"} => Whole \in D
      /\ This.streamed =>
           /\ \A i \in DOMAIN responses :
                responses[i].hasNext # "yes" => i = Len(responses) /\ pending = 0
           /\ phase = "streaming" /\ responses[Len(responses)].hasNext = "yes" => pending > 0
           /\ phase = "ended" => pending = 0 /\ responses[Len(responses)].hasNext # "yes"
  BY DEF Announced
<1>5. p # Whole /\ ~Ended(val[p])
  BY <1>1, <1>2, PlacesAreNotWhole DEF Moves
<1>6. ~(Whole \in D /\ pending = 0)
  <2> SUFFICES ASSUME Whole \in D, pending = 0 PROVE FALSE
    OBVIOUS
  <2>1. B \subseteq D
    <3> HIDE DEF B, D
    <3> QED BY <1>4, NothingPending
  <2>2. \A d \in DOMAIN val : Ended(val[d])
    BY <1>1, <1>4, <2>1, AllEnded
  <2> QED BY <1>5, <2>2
<1>7. DOMAIN responses # {} => phase \in {"streaming", "ended"}
  <2>1. DOMAIN <<>> = {}
    OBVIOUS
  <2> QED BY <1>4, <2>1 DEF Core
<1>8. /\ IsFiniteSet(C) /\ deferred' = Cardinality(C) /\ pending' = Cardinality(C \ D)
      /\ B \subseteq C
  <2>1. CASE more = 0 /\ C = B
    BY <1>1, <1>3, <1>4, <2>1
  <2>2. CASE more = 1 /\ C = B \cup {p} /\ p \notin B
    <3> DEFINE R == B \ D
    <3>1. C \ D = R \cup {p} /\ p \notin R
      BY <1>4, <1>5, <2>2
    <3>2. R \subseteq B
      OBVIOUS
    <3> HIDE DEF R, B, C, D
    <3>3. IsFiniteSet(R)
      BY <1>4, <3>2, FS_Subset
    <3>4. IsFiniteSet(R \cup {p}) /\ Cardinality(R \cup {p}) = Cardinality(R) + 1
      BY <3>1, <3>3, FS_AddElement
    <3>5. IsFiniteSet(B \cup {p}) /\ Cardinality(B \cup {p}) = Cardinality(B) + 1
      BY <1>4, <2>2, FS_AddElement
    <3>6. pending = Cardinality(R)
      BY <1>4 DEF R
    <3> QED BY <1>3, <1>4, <2>2, <3>1, <3>4, <3>5, <3>6
  <2> QED BY <1>3, <2>1, <2>2 DEF Counted
<1>9. ASSUME NEW g \in D, NEW t \in Tops(g), t \in DOMAIN val' PROVE Ended(val'[t])
  <2>1. CASE t \in DOMAIN val
    <3>1. Ended(val[t])
      BY <1>4, <2>1
    <3> QED BY <1>2, <1>5, <2>1, <3>1 DEF Moves
  <2>2. CASE t \notin DOMAIN val
    <3>1. t \notin Roots /\ (Deferred(t.path) => Up(t) = p /\ val[p] = "open")
      BY <1>2, <1>9, <2>2 DEF Moves
    <3>2. g # Whole /\ t \in Postponed(g)
      BY <3>1 DEF Tops
    <3>3. g \in B
      BY <1>4, <3>2
    <3>4. Place(g) /\ val[g] = "ok"
      BY <1>1, <3>3, BegunFacts
    <3>5. Deferred(t.path) /\ Up(t) = g
      BY <1>1, <3>2, <3>4, PostponedFacts
    <3> QED BY <3>1, <3>4, <3>5
  <2> QED BY <2>1, <2>2
<1>10. pending \in Nat /\ pending' >= pending
  <2> HIDE DEF B, D
  <2>1. pending \in Nat
    BY <1>4, LeftIsNat
  <2> QED BY <1>3, <2>1
<1> HIDE DEF B, C, D
<1>11. This.streamed =>
         /\ \A i \in DOMAIN responses : responses[i].hasNext = "yes"
         /\ phase = "streaming" /\ responses[Len(responses)].hasNext = "yes" => pending' > 0
         /\ phase # "ended"
  <2>1. This.streamed => \A i \in DOMAIN responses : responses[i].hasNext = "yes"
    BY <1>4, <1>6, <1>7
  <2>2. This.streamed => phase # "ended"
    BY <1>4, <1>6
  <2>3. This.streamed /\ phase = "streaming" /\ responses[Len(responses)].hasNext = "yes"
          => pending' > 0
    <3> SUFFICES ASSUME pending > 0 PROVE pending' > 0
      BY <1>4
    <3> QED BY <1>3, <1>10
  <2> QED BY <2>1, <2>2, <2>3
<1>12. D \subseteq C \cup {Whole}
  BY <1>4, <1>8
<1> QED BY <1>2, <1>4, <1>8, <1>9, <1>11, <1>12 DEF Announced, B, C, D

LEMMA RespondAnnounced ==
  ASSUME Core, Candid, Announced(val, phase, deferred, pending, responses), Respond,
         This.kind = "query"
  PROVE  Announced(val, phase', deferred, pending, responses')
<1> DEFINE B == Begun(val)
<1>1. Valid(This) /\ Tree(val)
  BY ThisIsValid DEF Core, Respond, Sound
<1>2. PICK r \in Replies : /\ responses' = Append(responses, r) /\ r.group = Whole
                           /\ r.hasNext = HasNext(pending)
  BY RespondHonest
<1>3. /\ IsFiniteSet(B) /\ deferred = Cardinality(B)
      /\ pending = Cardinality(B \ DeliveredIn(responses)) /\ responses = <<>>
  BY DEF Announced, Respond
<1>4. DeliveredIn(responses) = {}
  <2>1. DOMAIN <<>> = {}
    OBVIOUS
  <2> QED BY <1>3, <2>1 DEF DeliveredIn
<1>5. /\ DeliveredIn(responses') = {Whole} /\ Len(responses') = 1 /\ responses'[1] = r
      /\ DOMAIN responses' = {1}
  <2>1. responses' = <<r>>
    BY <1>2, <1>3
  <2>2. Len(<<r>>) = 1 /\ <<r>>[1] = r /\ DOMAIN <<r>> = {1}
    OBVIOUS
  <2> QED BY <1>2, <2>1, <2>2 DEF DeliveredIn
<1>6. Whole \notin B
  BY <1>1, BegunFacts
<1>7. pending = Cardinality(B) /\ B \ {Whole} = B
  <2>1. B \ {} = B /\ B \ {Whole} = B
    BY <1>6
  <2> QED BY <1>3, <1>4, <2>1
<1>8. \A t \in Tops(Whole) : Ended(val[t])
  BY DEF Respond, Due, Final, Tops, Ended
<1> HIDE DEF B
<1>9. pending \in Nat
  BY <1>3, <1>7, LeftIsNat
<1>10. /\ r.hasNext # "yes" => pending = 0
       /\ r.hasNext = "yes" => pending > 0
  BY <1>2, <1>3, <1>7, <1>9 DEF HasNext
<1>11. phase' = IF This.streamed THEN "streaming" ELSE "ended"
  BY DEF Respond
<1>12. phase' \notin {"new", "running"} /\ (This.streamed => phase' # "ended")
  BY <1>11
<1>13. This.streamed =>
         /\ \A i \in DOMAIN responses' :
              responses'[i].hasNext # "yes" => i = Len(responses') /\ pending = 0
         /\ responses'[Len(responses')].hasNext = "yes" => pending > 0
  BY <1>5, <1>10
<1>14. pending = Cardinality(B \ DeliveredIn(responses'))
  BY <1>5, <1>7
<1> QED BY ONLY <1>3, <1>5, <1>8, <1>12, <1>13, <1>14 DEF Announced, B

LEMMA DeliverAnnounced ==
  ASSUME Core, Candid, Announced(val, phase, deferred, pending, responses), NEW p, Deliver(p)
  PROVE  Announced(val, phase, deferred, pending - 1, responses')
<1> DEFINE B == Begun(val)
           D == DeliveredIn(responses)
<1>1. This.kind = "query" /\ phase = "streaming" /\ p \in B \ D /\ Finished(p) /\ Valid(This)
  BY ThisIsValid DEF Core, Deliver, Started, Begun, Delivered, DeliveredIn
<1>2. Tree(val)
  BY <1>1, SoundCore DEF Begun, Sound
<1>3. PICK r \in Replies : /\ responses' = Append(responses, r) /\ r.group = p
                           /\ r.hasNext = HasNext(pending - 1)
  BY DeliverHonest
<1>4. /\ IsFiniteSet(B) /\ deferred = Cardinality(B) /\ pending = Cardinality(B \ D)
      /\ D \subseteq B \cup {Whole}
      /\ \A g \in D : \A t \in Tops(g) : t \in DOMAIN val => Ended(val[t])
      /\ Whole \in D
      /\ This.streamed =>
           \A i \in DOMAIN responses :
             responses[i].hasNext # "yes" => i = Len(responses) /\ pending = 0
  BY <1>1 DEF Announced
<1>5. /\ DeliveredIn(responses') = D \cup {p}
      /\ Len(responses') = Len(responses) + 1 /\ Len(responses) \in Nat
      /\ responses'[Len(responses')] = r
      /\ \A i \in DOMAIN responses' :
           i = Len(responses') \/ (i \in DOMAIN responses /\ responses'[i] = responses[i])
  <2>1. responses \in Seq(Replies)
    BY DEF Candid
  <2>2. OneMore(responses, r, responses')
    BY ONLY <1>3, <2>1, r \in Replies, AppendDelivered
  <2> QED BY ONLY <1>3, <2>2 DEF OneMore
<1>6. p # Whole /\ Tops(p) = Postponed(p)
  BY <1>1, <1>2, BegunFacts DEF Tops
<1>7. \A t \in Tops(p) : Ended(val[t])
  BY <1>1, <1>6 DEF Finished, Final, Ended
<1>8. /\ pending \in Nat /\ pending > 0 /\ pending - 1 = Cardinality(B \ (D \cup {p}))
      /\ deferred # 0
  <2> DEFINE R == B \ D
  <2>1. p \in R /\ R \subseteq B /\ R \ {p} = B \ (D \cup {p}) /\ p \in B
    BY <1>1
  <2>2. pending = Cardinality(R)
    BY <1>4
  <2> HIDE DEF R, B, D
  <2>3. IsFiniteSet(R)
    BY <1>4, <2>1, FS_Subset
  <2>4. Cardinality(R \ {p}) = Cardinality(R) - 1
    BY <2>1, <2>3, FS_RemoveElement
  <2>5. Cardinality(R) \in Nat /\ Cardinality(B) \in Nat
    BY <1>4, <2>3, FS_CardinalityType
  <2>6. Cardinality(R) # 0 /\ Cardinality(B) # 0
    BY <1>4, <2>1, <2>3, FS_EmptySet
  <2>7. deferred = Cardinality(B)
    BY <1>4
  <2> DEFINE n == Cardinality(R)
  <2>8. n \in Nat /\ n # 0 /\ Cardinality(R \ {p}) = n - 1 /\ pending = n
    BY <2>2, <2>4, <2>5, <2>6
  <2> HIDE DEF n
  <2>9. pending \in Nat /\ pending > 0 /\ pending - 1 = Cardinality(R \ {p})
    BY ONLY <2>8
  <2> QED BY ONLY <2>1, <2>6, <2>7, <2>9
<1> HIDE DEF B, D
<1>9. /\ r.hasNext # "yes" => pending - 1 = 0
      /\ r.hasNext = "yes" => pending - 1 > 0
  BY <1>3, <1>8 DEF HasNext
<1>10. This.streamed =>
         /\ \A i \in DOMAIN responses' :
              responses'[i].hasNext # "yes" => i = Len(responses') /\ pending - 1 = 0
         /\ responses'[Len(responses')].hasNext = "yes" => pending - 1 > 0
  <2>1. pending # 0
    BY <1>8
  <2> QED BY <1>4, <1>5, <1>9, <2>1
<1>11. /\ pending - 1 = Cardinality(B \ DeliveredIn(responses'))
       /\ DeliveredIn(responses') \subseteq B \cup {Whole}
       /\ Whole \in DeliveredIn(responses')
       /\ \A g \in DeliveredIn(responses') : \A t \in Tops(g) : t \in DOMAIN val => Ended(val[t])
  BY <1>1, <1>4, <1>5, <1>7, <1>8
<1>12. phase \notin {"new", "running", "ended"}
  BY <1>1
<1> QED BY ONLY <1>1, <1>4, <1>10, <1>11, <1>12 DEF Announced, B

LEMMA NextAnnounced ==
  ASSUME Core, Candid, Announced(val, phase, deferred, pending, responses), [Next]_vars
  PROVE  Announced(val', phase', deferred', pending', responses')
<1> SUFFICES ASSUME This.kind = "query"
             PROVE  Announced(val', phase', deferred', pending', responses')
  BY DEF Announced
<1>1. Valid(This)
  BY ThisIsValid DEF Core
<1>2. Cardinality({}) = 0 /\ IsFiniteSet({})
  BY FS_EmptySet
<1>3. CASE UNCHANGED vars
  BY <1>3 DEF vars
<1>4. CASE Refuse
  <2> DEFINE r == Response(Whole, "null", {Whole}, "none")
  <2>1. /\ responses' = <<r>> /\ val' = <<>> /\ phase' = "ended" /\ deferred' = 0 /\ pending' = 0
    BY <1>4 DEF Refuse, Core
  <2>2. r.group = Whole /\ r.hasNext = "none"
    BY DEF Response
  <2>3. DOMAIN <<r>> = {1} /\ <<r>>[1] = r /\ Len(<<r>>) = 1 /\ DOMAIN <<>> = {}
    OBVIOUS
  <2> HIDE DEF r
  <2>4. Begun(val') = {} /\ DeliveredIn(responses') = {Whole}
    BY <1>1, <2>1, <2>2, <2>3, NothingIsSound DEF DeliveredIn
  <2>5. {} \ {Whole} = {}
    OBVIOUS
  <2> QED BY <1>2, <2>1, <2>2, <2>3, <2>4, <2>5 DEF Announced
<1>5. CASE Exec
  <2>1. /\ responses' = <<>> /\ val' = [p \in Roots |-> "todo"] /\ phase' = "running"
        /\ deferred' = 0 /\ pending' = 0
    BY <1>5 DEF Exec, Core
  <2>2. Begun(val') = {} /\ DeliveredIn(responses') = {}
    <3>1. DOMAIN <<>> = {}
      OBVIOUS
    <3>2. DeliveredIn(responses') = {}
      BY <2>1, <3>1 DEF DeliveredIn
    <3> QED BY <1>1, <2>1, <3>2, RootsAreSound
  <2>3. {} \ {} = {} /\ DOMAIN <<>> = {}
    OBVIOUS
  <2> QED BY <1>2, <2>1, <2>2, <2>3 DEF Announced
<1>6. ASSUME NEW p \in DOMAIN val, Fail(p) \/ Resolve(p) \/ Finish(p)
      PROVE  Announced(val', phase', deferred', pending', responses')
  BY <1>6, FieldAnnounced
<1>7. CASE Respond
  <2>1. val' = val /\ deferred' = deferred /\ pending' = pending
    BY <1>7 DEF Respond
  <2> QED BY <1>7, <2>1, RespondAnnounced
<1>8. ASSUME NEW p \in Started, Deliver(p)
      PROVE  Announced(val', phase', deferred', pending', responses')
  <2>1. val' = val /\ deferred' = deferred /\ pending' = pending - 1 /\ phase' = phase
    BY <1>8 DEF Deliver
  <2> QED BY <1>8, <2>1, DeliverAnnounced
<1>9. CASE Complete
  <2>1. /\ val' = val /\ deferred' = deferred /\ pending' = pending /\ responses' = responses
        /\ phase = "streaming" /\ phase' = "ended" /\ pending = 0
    BY <1>9 DEF Complete
  <2> QED BY <2>1 DEF Announced
<1>10. CASE Reject \/ Subscribe \/ TakeEvent \/ StreamCloses
  BY <1>10 DEF Reject, Subscribe, TakeEvent, StreamCloses, Core
<1>11. CASE \E p \in errors : TakeEffectLate(p)
  BY <1>11 DEF TakeEffectLate
<1> QED BY <1>3, <1>4, <1>5, <1>6, <1>7, <1>8, <1>9, <1>10, <1>11
        DEF Next, FieldNext, ResponseNext, SubscriptionNext

HasNextInv == Core /\ Candid /\ Announced(val, phase, deferred, pending, responses)

LEMMA HasNextInvariant == Spec => []HasNextInv
<1>1. Init => HasNextInv
  <2> SUFFICES ASSUME Init PROVE HasNextInv
    OBVIOUS
  <2>1. Core /\ Valid(This)
    BY InitCore, ThisIsValid DEF Init
  <2>2. DOMAIN <<>> = {} /\ <<>> \in Seq(Replies) /\ {} \ {} = {}
    OBVIOUS
  <2>3. Candid
    BY <2>2 DEF Init, Candid
  <2>4. Begun(val) = {} /\ DeliveredIn(responses) = {}
    BY <2>1, <2>2, NothingIsSound DEF Init, DeliveredIn
  <2>5. Cardinality({}) = 0 /\ IsFiniteSet({})
    BY FS_EmptySet
  <2>6. Announced(val, phase, deferred, pending, responses)
    BY <2>2, <2>4, <2>5 DEF Init, Announced
  <2> QED BY <2>1, <2>3, <2>6 DEF HasNextInv
<1>2. HasNextInv /\ [Next]_vars => HasNextInv'
  <2> SUFFICES ASSUME HasNextInv, [Next]_vars PROVE HasNextInv'
    OBVIOUS
  <2>1. Core' /\ Candid'
    BY NextCore, NextCandid DEF HasNextInv
  <2>2. op' = op
    BY OpIsFixed
  <2>3. Announced(val, phase, deferred, pending, responses)'
    BY <2>2, NextAnnounced, AnnouncedStays DEF HasNextInv
  <2> QED BY <2>1, <2>3 DEF HasNextInv
<1> QED BY <1>1, <1>2, PTL DEF Spec

\* For every query: a response that does not announce another is the last, with no
\* group pending, and one that announces another is followed by it, until every group
\* that began was delivered (ec.Deferred, ec.PendingDeferred and the reader of Exec).
THEOREM HasNextIsTrue == Spec => []HasNextTruthful
<1>1. HasNextInv => HasNextTruthful
  <2> SUFFICES ASSUME HasNextInv, This.kind = "query", This.streamed
               PROVE  /\ \A i \in DOMAIN responses :
                           responses[i].hasNext # "yes" => i = Len(responses) /\ pending = 0
                      /\ phase = "ended" /\ responses # <<>> =>
                           /\ Last(responses).hasNext # "yes"
                           /\ Started \subseteq Delivered
                           /\ \A p \in DOMAIN val : Final(p)
    BY DEF HasNextTruthful
  <2>1. /\ \A i \in DOMAIN responses :
             responses[i].hasNext # "yes" => i = Len(responses) /\ pending = 0
        /\ phase = "ended" => pending = 0 /\ responses[Len(responses)].hasNext # "yes"
    BY DEF HasNextInv, Announced
  <2>2. ASSUME phase = "ended"
        PROVE  Started \subseteq Delivered /\ \A p \in DOMAIN val : Final(p)
    <3> DEFINE B == Begun(val)
               D == DeliveredIn(responses)
    <3>1. /\ IsFiniteSet(B) /\ Cardinality(B \ D) = 0 /\ Whole \in D
          /\ \A g \in D : \A t \in Tops(g) : t \in DOMAIN val => Ended(val[t])
      BY <2>2 DEF HasNextInv, Announced
    <3>2. B \subseteq D
      <4> HIDE DEF B, D
      <4> QED BY <3>1, NothingPending
    <3>3. Started \subseteq Delivered
      BY <3>2 DEF Started, Begun, Delivered, DeliveredIn
    <3>4. ASSUME NEW p \in DOMAIN val PROVE Final(p)
      <4>1. Valid(This) /\ Tree(val)
        BY ThisIsValid, SoundCore DEF HasNextInv, Core, Sound
      <4>2. Ended(val[p])
        BY <3>1, <3>2, <4>1, AllEnded
      <4> QED BY <4>2 DEF Ended, Final
    <3> QED BY <3>3, <3>4
  <2> QED BY <2>1, <2>2 DEF Last
<1> QED BY <1>1, HasNextInvariant, PTL

-----------------------------------------------------------------------------
(* No error is lost. *)

\* Refuse lets the operation go on.
Accepted == ~(Complexity(This) > ComplexityLimit)

\* The responses rs of an accepted query are of different groups, and each has all the
\* errors e of its group, those of values v.
Reported(v, e, rs) ==
  This.kind = "query" /\ Accepted =>
    /\ e # {} => DOMAIN v # {}
    /\ \A i, j \in DOMAIN rs : rs[i].group = rs[j].group => i = j
    /\ \A i \in DOMAIN rs : rs[i].errors = {x \in e : GroupOf(x) = rs[i].group}

LEMMA ReportedStays ==
  ASSUME op' = op
  PROVE  Reported(val, errors, responses)' <=> Reported(val', errors', responses')
<1>1. This' = This /\ \A d : GroupOf(d)' = GroupOf(d)
  BY OpStays
<1>2. Accepted' = Accepted
  BY <1>1 DEF Complexity, Accepted
<1> QED BY <1>1, <1>2 DEF Reported

\* A value that is still to do belongs to no group that was delivered.
LEMMA OpenGroupsAreDue ==
  ASSUME Valid(This), Tree(val), Announced(val, phase, deferred, pending, responses),
         This.kind = "query", NEW p \in DOMAIN val, ~Ended(val[p])
  PROVE  GroupOf(p) \notin DeliveredIn(responses)
<1>1. PICK t : Stands(val, p, t)
  BY EveryValueStands
<1>2. t \in Tops(GroupOf(p)) /\ t \in DOMAIN val /\ ~Ended(val[t])
  BY <1>1 DEF Stands
<1> QED BY <1>2 DEF Announced

LEMMA FieldReported ==
  ASSUME HasNextInv, Reported(val, errors, responses), This.kind = "query",
         Accepted, NEW p \in DOMAIN val,
         Fail(p) \/ Resolve(p) \/ Finish(p)
  PROVE  Reported(val', errors', responses')
<1>1. Core /\ Valid(This) /\ Sound(val, errors) /\ Tree(val)
  BY ThisIsValid, SoundCore DEF HasNextInv, Core, Sound
<1>2. MaxItems \in Nat /\ deferred \in Int /\ pending \in Int
  BY <1>1, OperationsAssumption DEF Core
<1>3. Moves(val, val', p)
  BY <1>1, <1>2, FieldMoves
<1>4. p \in DOMAIN val' /\ ~Ended(val[p])
  BY <1>3 DEF Moves
<1>5. GroupOf(p) \notin DeliveredIn(responses)
  BY <1>1, <1>4, OpenGroupsAreDue DEF HasNextInv
<1>6. responses' = responses /\ (errors' = errors \/ errors' = errors \cup {p})
  BY DEF Fail, Resolve, Finish
<1>7. ASSUME NEW i \in DOMAIN responses
      PROVE  responses[i].errors = {x \in errors' : GroupOf(x) = responses[i].group}
  <2>1. GroupOf(p) # responses[i].group
    BY <1>5 DEF DeliveredIn
  <2>2. {x \in errors' : GroupOf(x) = responses[i].group}
          = {x \in errors : GroupOf(x) = responses[i].group}
    BY <1>6, <2>1
  <2> QED BY <2>2 DEF Reported
<1> QED BY <1>4, <1>6, <1>7 DEF Reported

\* A response for a group that had none, with the errors that the group has.
LEMMA OneMoreReported ==
  ASSUME NEW v, NEW e, NEW s \in Seq(Replies), NEW r \in Replies, NEW t,
         Reported(v, e, s), t = Append(s, r), r.group \notin DeliveredIn(s),
         r.errors = {x \in e : GroupOf(x) = r.group}
  PROVE  Reported(v, e, t)
<1>1. /\ DOMAIN s = 1..Len(s) /\ Len(s) \in Nat /\ DOMAIN t = 1..(Len(s) + 1)
      /\ t[Len(s) + 1] = r /\ \A i \in 1..Len(s) : t[i] = s[i]
  OBVIOUS
<1>2. \A i \in DOMAIN t : (i \in DOMAIN s /\ t[i] = s[i]) \/ (i = Len(s) + 1 /\ t[i] = r)
  BY ONLY <1>1
<1>3. \A i \in DOMAIN s : s[i].group # r.group
  BY DEF DeliveredIn
<1> QED BY ONLY <1>2, <1>3, Reported(v, e, s), r.errors = {x \in e : GroupOf(x) = r.group}
        DEF Reported

LEMMA NextReported ==
  ASSUME HasNextInv, Reported(val, errors, responses), [Next]_vars
  PROVE  Reported(val', errors', responses')
<1> SUFFICES ASSUME This.kind = "query", Accepted
             PROVE  Reported(val', errors', responses')
  BY DEF Reported
<1>1. Core /\ Valid(This) /\ responses \in Seq(Replies)
  BY ThisIsValid DEF HasNextInv, Core, Candid
<1>2. ~Refuse
  BY DEF Refuse, Accepted
<1>3. CASE Exec
  <2>1. responses' = <<>> /\ errors' = {}
    BY <1>1, <1>3 DEF Exec, Core
  <2>2. DOMAIN <<>> = {}
    OBVIOUS
  <2> QED BY <2>1, <2>2 DEF Reported
<1>4. ASSUME NEW p \in DOMAIN val, Fail(p) \/ Resolve(p) \/ Finish(p)
      PROVE  Reported(val', errors', responses')
  BY <1>4, FieldReported
<1>5. CASE Respond
  <2>1. PICK r \in Replies : /\ responses' = Append(responses, r)
                             /\ r.group = Whole /\ r.errors = ErrorsOf(Whole)
    BY <1>1, <1>5, RespondHonest
  <2>2. responses = <<>> /\ val' = val /\ errors' = errors
    BY <1>5 DEF Respond, HasNextInv, Announced
  <2>3. DeliveredIn(responses) = {}
    <3>1. DOMAIN <<>> = {}
      OBVIOUS
    <3> QED BY <2>2, <3>1 DEF DeliveredIn
  <2>4. r.errors = {x \in errors : GroupOf(x) = r.group}
    BY <2>1 DEF ErrorsOf
  <2>5. Reported(val, errors, responses')
    BY <1>1, <2>1, <2>3, <2>4, OneMoreReported
  <2> QED BY <2>2, <2>5
<1>6. ASSUME NEW p \in Started, Deliver(p)
      PROVE  Reported(val', errors', responses')
  <2>1. PICK r \in Replies : /\ responses' = Append(responses, r)
                             /\ r.group = p /\ r.errors = ErrorsOf(p)
    BY <1>1, <1>6, DeliverHonest
  <2>2. val' = val /\ errors' = errors /\ p \notin DeliveredIn(responses)
    BY <1>6 DEF Deliver, Delivered, DeliveredIn
  <2>3. r.errors = {x \in errors : GroupOf(x) = r.group}
    BY <2>1 DEF ErrorsOf
  <2>4. Reported(val, errors, responses')
    BY <1>1, <2>1, <2>2, <2>3, OneMoreReported
  <2> QED BY <2>2, <2>4
<1>7. CASE UNCHANGED vars \/ Complete \/ \E p \in errors : TakeEffectLate(p)
  BY <1>7 DEF vars, Complete, TakeEffectLate
<1>8. ~Reject /\ ~Subscribe /\ ~TakeEvent /\ ~StreamCloses
  BY <1>1 DEF Reject, Subscribe, TakeEvent, StreamCloses, Core
<1> QED BY <1>2, <1>3, <1>4, <1>5, <1>6, <1>7, <1>8
        DEF Next, FieldNext, ResponseNext, SubscriptionNext

ReportedInv == HasNextInv /\ Reported(val, errors, responses)

LEMMA ReportedInvariant == Spec => []ReportedInv
<1>1. Init => Reported(val, errors, responses)
  <2>1. DOMAIN <<>> = {}
    OBVIOUS
  <2> QED BY <2>1 DEF Init, Reported
<1>2. HasNextInv /\ Reported(val, errors, responses) /\ [Next]_vars
        => Reported(val, errors, responses)'
  BY NextReported, ReportedStays, OpIsFixed
<1> QED BY <1>1, <1>2, HasNextInvariant, PTL DEF Spec, ReportedInv

\* A response that a client has read stays the whole truth about its part of a query:
\* no field fails later that would have belonged in it, however long other groups run,
\* no part is delivered twice, and at the end every failure was in a response (each
\* deferred group has the errors of its own fields, ec.ProcessDeferredGroup).
EveryErrorReported ==
  This.kind = "query" /\ Accepted =>
    /\ \A i, j \in DOMAIN responses : responses[i].group = responses[j].group => i = j
    /\ \A i \in DOMAIN responses : responses[i].errors = ErrorsOf(responses[i].group)
    /\ This.streamed /\ phase = "ended" =>
         \A x \in errors : \E i \in DOMAIN responses : x \in responses[i].errors

THEOREM NoErrorIsLost == Spec => []EveryErrorReported
<1>1. ReportedInv /\ HasNextTruthful => EveryErrorReported
  <2> SUFFICES ASSUME ReportedInv, HasNextTruthful, This.kind = "query",
                      Accepted
               PROVE  EveryErrorReported
    BY DEF EveryErrorReported
  <2>1. /\ \A i, j \in DOMAIN responses : responses[i].group = responses[j].group => i = j
        /\ \A i \in DOMAIN responses : responses[i].errors = ErrorsOf(responses[i].group)
        /\ errors # {} => DOMAIN val # {}
    BY DEF ReportedInv, Reported, ErrorsOf
  <2>2. ASSUME This.streamed, phase = "ended", NEW x \in errors
        PROVE  \E i \in DOMAIN responses : x \in responses[i].errors
    <3>1. Core /\ Valid(This) /\ Announced(val, phase, deferred, pending, responses)
      BY ThisIsValid DEF ReportedInv, HasNextInv, Core
    <3>2. Sound(val, errors)
      BY <2>1, <2>2, <3>1, SoundCore
    <3>3. x \in DOMAIN val /\ Tree(val)
      BY <3>2 DEF Sound, Fallen
    <3>4. GroupOf(x) \in Begun(val) \cup {Whole}
      BY <3>1, <3>3, GroupsHaveBegun
    <3>5. Whole \in DeliveredIn(responses)
      BY <2>2, <3>1 DEF Announced
    <3>6. responses # <<>>
      <4>1. DOMAIN <<>> = {}
        OBVIOUS
      <4> QED BY <3>5, <4>1 DEF DeliveredIn
    <3>7. Begun(val) \subseteq DeliveredIn(responses)
      BY <2>2, <3>6 DEF HasNextTruthful, Started, Begun, Delivered, DeliveredIn
    <3>8. PICK i \in DOMAIN responses : responses[i].group = GroupOf(x)
      BY <3>4, <3>5, <3>7 DEF DeliveredIn
    <3> QED BY <2>1, <3>8 DEF ErrorsOf
  <2> QED BY <2>1, <2>2 DEF EveryErrorReported
<1> QED BY <1>1, ReportedInvariant, HasNextIsTrue, PTL

-----------------------------------------------------------------------------
(* Nobody waits for himself. *)

\* The fields of an object of a type have types of a smaller rank.
Rank(t) ==
  IF t \in Kinds THEN 4 ELSE IF t \in Pages THEN 3
  ELSE IF t \in {"Post", "Comment"} THEN 2 ELSE IF t = "User" THEN 1 ELSE 0

LEMMA Ranks ==
  /\ Rank("") = 0 /\ Rank("User") = 1 /\ Rank("Post") = 2 /\ Rank("Comment") = 2
  /\ \A t \in Pages : Rank(t) = 3
  /\ \A t \in Kinds : Rank(t) = 4
<1>1. \A t \in Pages : t \notin Kinds
  BY DEF Pages, Kinds
<1>2. "" \notin Kinds /\ "" \notin Pages /\ "User" \notin Kinds /\ "User" \notin Pages
  BY DEF Pages, Kinds
<1>3. \A t \in {"Post", "Comment"} : t \notin Kinds /\ t \notin Pages
  BY DEF Pages, Kinds
<1>4. Rank("") = 0
  BY <1>2 DEF Rank
<1>5. Rank("User") = 1
  BY <1>2 DEF Rank
<1>6. Rank("Post") = 2 /\ Rank("Comment") = 2
  BY <1>3 DEF Rank
<1>7. \A t \in Pages : Rank(t) = 3
  BY <1>1 DEF Rank
<1>8. \A t \in Kinds : Rank(t) = 4
  BY DEF Rank
<1> QED BY <1>4, <1>5, <1>6, <1>7, <1>8

LEMMA RanksFall ==
  ASSUME NEW f, NEW t
  PROVE  /\ t \in Kinds /\ f \in Leaves \cup Pages => Rank(f) < Rank(t)
         /\ t \in Pages /\ f \in Leaves => Rank(f) < Rank(t)
         /\ t \in {"Post", "Comment"} /\ f \in {"", "User"} => Rank(f) < Rank(t)
         /\ t = "User" /\ f = "" => Rank(f) < Rank(t)
<1> DEFINE a == Rank(f)
           b == Rank(t)
<1>1. /\ f \in Pages => a = 3
      /\ f \in {"", "User"} => a = 0 \/ a = 1
      /\ f = "" => a = 0
      /\ f \in Leaves => a = 0 \/ a = 1 \/ a = 2
  BY Ranks, Zenon DEF Leaves
<1>2. /\ t \in Kinds => b = 4
      /\ t \in Pages => b = 3
      /\ t \in {"Post", "Comment"} => b = 2
      /\ t = "User" => b = 1
  BY Ranks, Zenon
<1> HIDE DEF a, b
<1>3. /\ b = 4 /\ (a = 0 \/ a = 1 \/ a = 2 \/ a = 3) => a < b
      /\ b = 3 /\ (a = 0 \/ a = 1 \/ a = 2) => a < b
      /\ b = 2 /\ (a = 0 \/ a = 1) => a < b
      /\ b = 1 /\ a = 0 => a < b
  OBVIOUS
<1>4. t \in Kinds /\ f \in Leaves \cup Pages => a < b
  BY <1>1, <1>2, <1>3, Zenon
<1>5. t \in Pages /\ f \in Leaves => a < b
  BY <1>1, <1>2, <1>3, Zenon
<1>6. t \in {"Post", "Comment"} /\ f \in {"", "User"} => a < b
  BY <1>1, <1>2, <1>3, Zenon
<1>7. t = "User" /\ f = "" => a < b
  BY <1>1, <1>2, <1>3, Zenon
<1> QED BY ONLY <1>4, <1>5, <1>6, <1>7, Zenon DEF a, b

LEMMA RankFalls ==
  ASSUME NEW t \in Types, NEW name \in DOMAIN Fields[t]
  PROVE  /\ Rank(Fields[t][name].of) < Rank(t)
         /\ t \in Kinds => name \notin Infallible
<1> DEFINE f == Fields[t][name].of
<1>1. /\ f \in Leaves \cup Pages
      /\ f \in Pages => t = "query"
  BY SchemaFacts, Zenon DEF Sane
<1>2. Scalar.of = "" /\ Object("User").of = "User"
  BY DEF Scalar, Object
<1>3. /\ t = "Post" => f \in {"", "User"}
      /\ t = "Comment" => f \in {"", "User"}
      /\ t = "User" => f = ""
  <2>1. ASSUME t = "Post"
        PROVE  Fields[t][name] = Scalar \/ Fields[t][name] = Object("User")
    <3>1. /\ Fields[t] = PostFields
          /\ DOMAIN PostFields =
               {"id", "author", "title", "body", "commentsAllowed", "createdAt", "updatedAt"}
      BY <2>1 DEF Fields, PostFields
    <3>2. name \in {"id", "author", "title", "body", "commentsAllowed", "createdAt",
                    "updatedAt"}
      BY <3>1, Zenon
    <3>3. PostFields[name] = Scalar \/ PostFields[name] = Object("User")
      BY <3>2 DEF PostFields
    <3> QED BY <3>1, <3>3, Zenon
  <2>2. ASSUME t = "Comment"
        PROVE  Fields[t][name] = Scalar \/ Fields[t][name] = Object("User")
    <3>1. /\ Fields[t] = CommentFields
          /\ DOMAIN CommentFields =
               {"id", "author", "postID", "parentID", "depth", "body", "createdAt"}
      BY <2>2 DEF Fields, CommentFields
    <3>2. name \in {"id", "author", "postID", "parentID", "depth", "body", "createdAt"}
      BY <3>1, Zenon
    <3>3. CommentFields[name] = Scalar \/ CommentFields[name] = Object("User")
      BY <3>2 DEF CommentFields
    <3> QED BY <3>1, <3>3, Zenon
  <2>3. ASSUME t = "User" PROVE Fields[t][name] = Scalar
    <3>1. Fields[t] = UserFields /\ DOMAIN UserFields = {"id", "username", "createdAt"}
      BY <2>3 DEF Fields, UserFields
    <3>2. name \in {"id", "username", "createdAt"}
      BY <3>1, Zenon
    <3>3. UserFields[name] = Scalar
      BY <3>2 DEF UserFields
    <3> QED BY <3>1, <3>3, Zenon
  <2> QED BY <1>2, <2>1, <2>2, <2>3, Zenon
<1>4. t \in Kinds => name \notin Infallible
  <2>1. ASSUME t = "query" PROVE name \in {"posts", "post", "comments"}
    <3>1. Fields[t] = QueryFields /\ DOMAIN QueryFields = {"posts", "post", "comments"}
      BY <2>1 DEF Fields, QueryFields
    <3> QED BY <3>1, Zenon
  <2>2. ASSUME t = "mutation"
        PROVE  name \in {"createPost", "setCommentsAllowed", "createComment"}
    <3>1. /\ Fields[t] = MutationFields
          /\ DOMAIN MutationFields = {"createPost", "setCommentsAllowed", "createComment"}
      BY <2>2 DEF Fields, MutationFields
    <3> QED BY <3>1, Zenon
  <2>3. ASSUME t = "subscription" PROVE name \in {"commentAdded"}
    <3>1. Fields[t] = SubscriptionFields /\ DOMAIN SubscriptionFields = {"commentAdded"}
      BY <2>3 DEF Fields, SubscriptionFields
    <3> QED BY <3>1, Zenon
  <2> QED BY ONLY <2>1, <2>2, <2>3 DEF Kinds, Infallible
<1> HIDE DEF f
<1>5. t \in Kinds \cup Pages \cup {"Post", "Comment", "User"}
  <2>1. Types = {"User", "Post", "Comment", "PostPage", "CommentPage",
                 "query", "mutation", "subscription"}
    BY DEF Types, Fields
  <2> QED BY ONLY <2>1, t \in Types DEF Kinds, Pages
<1>6. t \in Pages => f \in Leaves
  <2>1. t \in Pages => t # "query"
    BY ONLY DEF Pages
  <2> QED BY <1>1, <2>1, Zenon
<1>7. Rank(f) < Rank(t)
  BY <1>1, <1>3, <1>5, <1>6, RanksFall, Zenon
<1> QED BY ONLY <1>4, <1>7 DEF f

\* What the value at d waits for is nearer to the bottom.
Level(d) == 2 * Rank(TypeAt(This, d.path)) + (IF IsElement(d) THEN 0 ELSE 1)

LEMMA LevelFalls ==
  ASSUME Valid(This), NEW p, Place(p), NEW d, Place(d), Under(d, p)
  PROVE  /\ Level(d) \in Nat /\ Level(p) \in Nat /\ Level(d) < Level(p)
         /\ d \notin Roots
<1> DEFINE a == Rank(TypeAt(This, d.path))
           b == Rank(TypeAt(This, p.path))
<1>1. a \in Nat /\ b \in Nat
  BY DEF Rank
<1>2. /\ Level(d) = 2 * a \/ Level(d) = 2 * a + 1
      /\ Level(p) = 2 * b \/ Level(p) = 2 * b + 1
      /\ IsElement(d) => Level(d) = 2 * a
      /\ ~IsElement(p) => Level(p) = 2 * b + 1
  BY <1>1 DEF Level
<1> HIDE DEF a, b
<1>3. CASE IsList(p)
  <2>1. d.path = p.path /\ d.n > 0 /\ p.n = 0
    BY <1>3 DEF Under, IsList
  <2>2. IsElement(d) /\ ~IsElement(p) /\ a = b
    BY <1>3, <2>1 DEF IsList, IsElement, a, b
  <2>3. d \notin Roots
    BY <2>2, RootFacts
  <2> QED BY <1>1, <1>2, <2>2, <2>3
<1>4. CASE ~IsList(p)
  <2>1. Len(d.path) > 1 /\ Front(d.path) = p.path
    BY <1>4 DEF Under
  <2>2. Parent(d.path) = TypeAt(This, p.path)
    BY <2>1 DEF Parent
  <2>3. d.path \in This.fields
    BY DEF Place
  <2>4. /\ Parent(d.path) \in Types /\ NameOf(d.path) \in DOMAIN Fields[Parent(d.path)]
        /\ TypeAt(This, d.path) = Fields[Parent(d.path)][NameOf(d.path)].of
    <3>1. Selected(This, d.path)
      BY <2>3 DEF Valid
    <3>2. TypeAt(This, d.path) = Fields[Parent(d.path)][NameOf(d.path)].of
      BY <2>3, ParentFacts
    <3> QED BY <3>1, <3>2 DEF Selected, Parent, NameOf, Types
  <2>5. a < b
    BY <2>2, <2>4, RankFalls DEF a, b
  <2>6. Len(d.path) # 1 /\ d \notin Roots
    <3> DEFINE n == Len(d.path)
    <3>1. n > 1
      BY <2>1
    <3> HIDE DEF n
    <3>2. n # 1
      BY <3>1
    <3> QED BY <3>2, RootFacts DEF n
  <2> QED BY <1>1, <1>2, <2>5, <2>6
<1> QED BY <1>3, <1>4

\* The goroutine of a field can take its next step.
MayMove(p) ==
  \/ /\ val[p] = "todo" /\ Turn(p)
     /\ ArgumentsConvert(p) \/ NameOf(p.path) \notin Infallible
  \/ val[p] = "open" /\ \A q \in Within(p) : Final(q)

LEMMA RootMayFail ==
  ASSUME Valid(This), NEW p \in Roots
  PROVE  NameOf(p.path) \notin Infallible
<1>1. p.path \in This.fields /\ Len(p.path) = 1
  BY RootsArePlaces, RootFacts DEF Place
<1>2. Parent(p.path) = This.kind
  BY <1>1, ParentFacts
<1>3. Parent(p.path) \in Types /\ NameOf(p.path) \in DOMAIN Fields[Parent(p.path)]
  BY <1>1 DEF Valid, Selected, Parent, NameOf, Types
<1>4. This.kind \in Kinds
  BY DEF Valid
<1> QED BY <1>2, <1>3, <1>4, RankFalls

\* If anything is still to do, a field can move: the lowest of the values that have
\* begun, or else the first of the root fields that have not.
LEMMA SomeFieldMoves ==
  ASSUME Valid(This), Tree(val), Roots \subseteq DOMAIN val, NEW x \in DOMAIN val, ~Ended(val[x])
  PROVE  \E p \in DOMAIN val : MayMove(p)
<1> DEFINE N == {d \in DOMAIN val : ~Ended(val[d]) /\ ~(d \in Roots /\ val[d] = "todo")}
<1>1. ASSUME NEW d \in DOMAIN val
      PROVE  Place(d) /\ val[d] \in {"todo", "open", "ok", "null"}
  BY DEF Tree, Hangs
<1>2. CASE N # {}
  <2> DEFINE T == {Level(d) : d \in N}
  <2>1. T \subseteq Nat
    <3>1. ASSUME NEW d \in N PROVE Level(d) \in Nat
      <4>1. Rank(TypeAt(This, d.path)) \in Nat
        BY DEF Rank
      <4> QED BY <4>1 DEF Level
    <3> QED BY <3>1
  <2>2. T # {}
    BY <1>2
  <2>3. PICK n \in T : \A m \in T : n <= m
    <3> HIDE DEF T
    <3> QED BY <2>1, <2>2, FirstNatural
  <2>4. PICK p \in N : Level(p) = n
    BY <2>3
  <2>5. \A d \in N : Level(p) <= Level(d)
    BY <2>3, <2>4
  <2>6. p \in DOMAIN val /\ Place(p) /\ val[p] \in {"todo", "open"}
    BY <1>1 DEF Ended
  <2>7. ASSUME val[p] = "todo" PROVE MayMove(p)
    <3>1. p \notin Roots
      BY <2>7
    <3> QED BY <2>7, <3>1 DEF MayMove, Turn, ArgumentsConvert
  <2>8. ASSUME NEW q \in Within(p) PROVE Final(q)
    <3>1. q \in DOMAIN val /\ Under(q, p)
      BY DEF Within, Under
    <3>2. Level(q) \in Nat /\ Level(p) \in Nat /\ Level(q) < Level(p) /\ q \notin Roots
      BY <1>1, <2>6, <3>1, LevelFalls
    <3>3. q \notin N
      <4>1. ~(Level(p) <= Level(q))
        BY <3>2
      <4> HIDE DEF N
      <4> QED BY <2>5, <4>1
    <3> QED BY <3>1, <3>2, <3>3 DEF Ended, Final
  <2> QED BY <2>6, <2>7, <2>8 DEF MayMove
<1>3. CASE N = {}
  <2> DEFINE T == {k \in DOMAIN This.roots : ~Ended(val[RootAt(k)])}
  <2>1. x \in Roots /\ val[x] = "todo"
    BY <1>3
  <2>2. T # {} /\ T \subseteq Nat
    BY <2>1, RootAtFacts
  <2>3. PICK n \in T : \A m \in T : n <= m
    <3> HIDE DEF T
    <3> QED BY <2>2, FirstNatural
  <2> DEFINE p == RootAt(n)
  <2>4. n \in DOMAIN This.roots /\ p \in Roots /\ p \in DOMAIN val /\ ~Ended(val[p])
    BY <2>3, RootAtFacts
  <2>5. val[p] = "todo"
    <3> HIDE DEF p
    <3> QED BY <1>3, <2>4
  <2>6. p.path[1] = This.roots[n]
    BY <2>4, RootAtFacts
  <2>7. ASSUME NEW i \in DOMAIN This.roots, \A j \in 1..i : This.roots[j] # p.path[1]
        PROVE  Final(At(<<This.roots[i]>>, 0))
    <3>1. /\ DOMAIN This.roots = 1..Len(This.roots) /\ Len(This.roots) \in Nat
      BY RootAtFacts
    <3>2. ~(n <= i)
      <4> HIDE DEF p
      <4> QED BY <2>4, <2>6, <2>7, <3>1
    <3>3. i \notin T
      <4> HIDE DEF T
      <4> QED BY <2>3, <3>2
    <3> QED BY <3>3 DEF Ended, Final, RootAt
  <2>8. Turn(p)
    <3> HIDE DEF p
    <3> QED BY <2>7 DEF Turn
  <2>9. NameOf(p.path) \notin Infallible
    <3> HIDE DEF p
    <3> QED BY <2>4, RootMayFail
  <2> HIDE DEF p
  <2> QED BY <2>4, <2>5, <2>8, <2>9 DEF MayMove
<1> QED BY <1>2, <1>3

\* While a response is owed, or deferred results are read, something can move: a
\* field, a group that is done, or the response itself.  Objects that wait for their
\* fields, root fields of a mutation that wait for their turn and a reader that waits
\* for a group never wait in a circle (FieldSet.Dispatch, ec.DeferredResults).
AnswerNeverStuck ==
  phase \in {"running", "streaming"} =>
    \/ \E p \in DOMAIN val : MayMove(p)
    \/ phase = "running" /\ Due
    \/ /\ phase = "streaming"
       /\ This.kind = "query" /\ pending # 0 => \E p \in Started \ Delivered : Finished(p)

THEOREM OperationNeverStuck == Spec => []AnswerNeverStuck
<1>1. HasNextInv => AnswerNeverStuck
  <2> SUFFICES ASSUME HasNextInv, phase \in {"running", "streaming"},
                      ~\E p \in DOMAIN val : MayMove(p)
               PROVE  \/ phase = "running" /\ Due
                      \/ /\ phase = "streaming"
                         /\ This.kind = "query" /\ pending # 0 =>
                              \E p \in Started \ Delivered : Finished(p)
    BY DEF AnswerNeverStuck
  <2>1. /\ Core /\ Valid(This) /\ Announced(val, phase, deferred, pending, responses)
        /\ Roots \subseteq DOMAIN val
    BY ThisIsValid DEF HasNextInv, Core
  <2>2. Tree(val)
    BY <2>1 DEF Core, Sound
  <2>3. \A d \in DOMAIN val : Ended(val[d])
    BY <2>1, <2>2, SomeFieldMoves
  <2>4. Due
    BY <2>1, <2>3 DEF Due, Final, Ended
  <2>5. ASSUME This.kind = "query", pending # 0
        PROVE  \E p \in Started \ Delivered : Finished(p)
    <3> DEFINE R == Begun(val) \ DeliveredIn(responses)
    <3>1. pending = Cardinality(R)
      BY <2>1, <2>5 DEF Announced
    <3>2. R # {}
      <4> HIDE DEF R
      <4> QED BY <2>5, <3>1, FS_EmptySet
    <3>3. PICK p \in R : TRUE
      BY <3>2
    <3>4. p \in Started \ Delivered
      BY <3>3 DEF Begun, Started, DeliveredIn, Delivered
    <3>5. Postponed(p) \subseteq DOMAIN val
      BY <2>1, <2>2, <3>3, BegunFacts
    <3>6. Finished(p)
      BY <2>3, <3>5 DEF Finished, Final, Ended
    <3> QED BY <3>4, <3>6
  <2> QED BY <2>4, <2>5
<1> QED BY <1>1, HasNextInvariant, PTL
=============================================================================
