----------------------------- MODULE ForumStore -----------------------------
(***************************************************************************)
(* What the store interfaces and the service promise a caller: one call is *)
(* one step, which either changes the state of the forum and answers the   *)
(* id, or changes nothing and answers one of the reasons against it.       *)
(*                                                                         *)
(* MemoryStore implements this module.                                     *)
(***************************************************************************)
EXTENDS ForumState

VARIABLE reply      \* [op, err, id] of the last call

vars == <<stateVars, reply>>

Answer(op, err, id) == reply' = [op |-> op, err |-> err, id |-> id]

\* The call is refused with one of the reasons and changes nothing.
Refuse(op, reasons) == /\ \E e \in reasons : Answer(op, e, 0)
                       /\ UNCHANGED stateVars

CreatePost(author, titleOK, bodyOK) ==
  \/ Refuse("CreatePost", PostReasons(titleOK, bodyOK))
  \/ /\ PostReasons(titleOK, bodyOK) = {}
     /\ \E id \in PostIDs, now \in Times : /\ AddPost(id, author, now)
                                           /\ Answer("CreatePost", "none", id)

SetCommentsAllowed(id, user, allowed) ==
  \/ Refuse("SetCommentsAllowed", SwitchReasons(id, user))
  \/ /\ Switch(id, user, allowed)
     /\ Answer("SetCommentsAllowed", "none", id)

CreateComment(bodyOK, post, parent) ==
  \/ Refuse("CreateComment", CommentReasons(bodyOK, post, parent))
  \/ /\ bodyOK
     /\ \E id \in CommentIDs : /\ AddComment(id, post, parent)
                               /\ Answer("CreateComment", "none", id)

Init == StateInit /\ reply = [op |-> "none", err |-> "none", id |-> 0]

Next ==
  \/ \E author \in Users, titleOK, bodyOK \in BOOLEAN :
       CreatePost(author, titleOK, bodyOK)
  \/ \E id \in PostIDs, user \in Users, allowed \in BOOLEAN :
       SetCommentsAllowed(id, user, allowed)
  \/ \E bodyOK \in BOOLEAN, post \in PostIDs, parent \in CommentIDs \cup {Nil} :
       CreateComment(bodyOK, post, parent)

Spec == Init /\ [][Next]_vars
=============================================================================
