------------------------------- MODULE Login -------------------------------
(***************************************************************************)
(* Logging in without a password: AuthService.Login looks the name up and  *)
(* creates the user if there is none, over either store; the handler signs *)
(* a token for what it got.  Between the lookup and the creation another   *)
(* request may have created the same user.                                 *)
(*                                                                         *)
(* The process may be restarted at any time.  The memory store is then     *)
(* empty and counts its ids from 1 again; the signing secret is the        *)
(* configured one, or a new one if none is.  Tokens are kept by clients.   *)
(* (Their expiry is left out: an expired token only stops being valid.)    *)
(***************************************************************************)
EXTENDS Integers, FiniteSets

CONSTANTS Requests, Names,
          MaxIDs, MaxRestarts     \* bounds on the ids handed out and on restarts

ASSUME LoginAssumption == MaxIDs \in Nat /\ MaxRestarts \in Nat

VARIABLES storage,     \* cfg.StorageType: "memory" or "postgres"
          configured,  \* cfg.JWTSecret is not empty
          users,       \* [id -> username]
          nextID,      \* s.nextUserID, or the identity column
          secret,      \* the secret of this process, numbered
          restarts,
          tokens,      \* tokens signed so far
          login        \* [request -> its call and how far it is]

vars == <<storage, configured, users, nextID, secret, restarts, tokens, login>>

NoLogin == [at |-> "idle", name |-> "none", id |-> 0, err |-> "none"]

IDsOf(name) == {id \in DOMAIN users : users[id] = name}

To(r, at) == [login EXCEPT ![r].at = at]

\* The service has the user: the handler goes on to sign a token for it.
Got(r, id) == [login EXCEPT ![r].at = "sign", ![r].id = id]

Refused(r, err) == [login EXCEPT ![r].at = "done", ![r].err = err]

\* A new user for the name of a request.
AddUser(r) ==
  /\ users' = [id \in DOMAIN users \cup {nextID + 1} |->
                 IF id = nextID + 1 THEN login[r].name ELSE users[id]]
  /\ login' = Got(r, nextID + 1)

-----------------------------------------------------------------------------
\* Login begins.  Bound: the ids that open calls may take are counted.
Begin(r, name) ==
  /\ login[r].at = "idle"
  /\ nextID + Cardinality({q \in Requests : login[q].at \in {"find", "create"}}) < MaxIDs
  /\ login' = [login EXCEPT ![r].at = "find", ![r].name = name]
  /\ UNCHANGED <<storage, configured, users, nextID, secret, restarts, tokens>>

\* users.ByUsername.
Find(r) ==
  /\ login[r].at = "find"
  /\ \/ \E id \in IDsOf(login[r].name) : login' = Got(r, id)
     \/ IDsOf(login[r].name) = {} /\ login' = To(r, "create")
  /\ UNCHANGED <<storage, configured, users, nextID, secret, restarts, tokens>>

\* Mutant of CreateInMemory: the map of names is not looked at again.
CreateUnchecked(r) ==
  /\ login[r].at = "create" /\ storage = "memory"
  /\ nextID' = nextID + 1 /\ AddUser(r)
  /\ UNCHANGED <<storage, configured, secret, restarts, tokens>>

\* users.Create of the memory store, under its lock.
CreateInMemory(r) ==
  /\ login[r].at = "create" /\ storage = "memory"
  /\ \/ /\ IDsOf(login[r].name) = {}
        /\ nextID' = nextID + 1 /\ AddUser(r)
     \/ /\ \E id \in IDsOf(login[r].name) : login' = Got(r, id)
        /\ UNCHANGED <<users, nextID>>
  /\ UNCHANGED <<storage, configured, secret, restarts, tokens>>

\* INSERT ... ON CONFLICT DO NOTHING: the identity column advances either way.
InsertUser(r) ==
  /\ login[r].at = "create" /\ storage = "postgres"
  /\ nextID' = nextID + 1
  /\ \/ IDsOf(login[r].name) = {} /\ AddUser(r)
     \/ /\ IDsOf(login[r].name) # {}
        /\ login' = To(r, "again")
        /\ UNCHANGED users
  /\ UNCHANGED <<storage, configured, secret, restarts, tokens>>

\* Mutant of FindAgain: a conflict is answered with the id that was not used.
AnswerOwnID(r) ==
  /\ login[r].at = "again"
  /\ login' = Got(r, nextID)
  /\ UNCHANGED <<storage, configured, users, nextID, secret, restarts, tokens>>

\* GetUserByUsername after the conflict.
FindAgain(r) ==
  /\ login[r].at = "again"
  /\ IF IDsOf(login[r].name) = {} THEN login' = Refused(r, "ErrNoRows")
     ELSE \E id \in IDsOf(login[r].name) : login' = Got(r, id)
  /\ UNCHANGED <<storage, configured, users, nextID, secret, restarts, tokens>>

\* A query of the postgres store fails, or the request is cancelled; an insert
\* may have had its effect.
Fail(r) ==
  /\ storage = "postgres" /\ login[r].at \in {"find", "create", "again"}
  /\ login' = Refused(r, "failed")
  /\ UNCHANGED <<storage, configured, users, nextID, secret, restarts, tokens>>

InsertFails(r) ==
  /\ login[r].at = "create" /\ storage = "postgres" /\ IDsOf(login[r].name) = {}
  /\ nextID' = nextID + 1
  /\ users' = [id \in DOMAIN users \cup {nextID + 1} |->
                 IF id = nextID + 1 THEN login[r].name ELSE users[id]]
  /\ login' = Refused(r, "failed")
  /\ UNCHANGED <<storage, configured, secret, restarts, tokens>>

\* Manager.Sign, and the cookie that carries the token.
Sign(r) ==
  /\ login[r].at = "sign"
  /\ tokens' = tokens \cup {[id |-> login[r].id, name |-> login[r].name,
                             secret |-> secret]}
  /\ login' = To(r, "done")
  /\ UNCHANGED <<storage, configured, users, nextID, secret, restarts>>

Return(r) ==
  /\ login[r].at = "done"
  /\ login' = [login EXCEPT ![r] = NoLogin]
  /\ UNCHANGED <<storage, configured, users, nextID, secret, restarts, tokens>>

\* Manager.Verify, by the secret of this process.
Verifies(t) == t.secret = secret

-----------------------------------------------------------------------------
\* Mutant of NewSecret: the same secret every time.
FixedSecret == secret

\* resolveJWTSecret.
NewSecret == IF configured THEN secret ELSE secret + 1

\* The process ends, with whatever it was doing, and starts again.
Restart ==
  /\ restarts < MaxRestarts
  /\ restarts' = restarts + 1
  /\ secret' = NewSecret
  /\ login' = [r \in Requests |-> NoLogin]
  /\ IF storage = "memory" THEN users' = <<>> /\ nextID' = 0
                           ELSE UNCHANGED <<users, nextID>>
  /\ UNCHANGED <<storage, configured, tokens>>

Init == /\ storage \in {"memory", "postgres"} /\ configured \in BOOLEAN
        /\ users = <<>> /\ nextID = 0
        /\ secret = 0 /\ restarts = 0
        /\ tokens = {} /\ login = [r \in Requests |-> NoLogin]

Next == \/ \E r \in Requests :
             \/ \E name \in Names : Begin(r, name)
             \/ Find(r) \/ CreateInMemory(r) \/ InsertUser(r) \/ FindAgain(r)
             \/ Fail(r) \/ InsertFails(r) \/ Sign(r) \/ Return(r)
        \/ Restart

Spec == Init /\ [][Next]_vars

-----------------------------------------------------------------------------
\* However first logins of a name overlap, a name has one user.
OneUserPerName == \A i, j \in DOMAIN users : users[i] = users[j] => i = j

\* A login ends with the user of its name, whoever created it, or fails with a
\* query: the query after a conflict finds the user that was in the way.
LoginFindsItsUser ==
  \A r \in Requests :
    /\ login[r].err # "ErrNoRows"
    /\ login[r].at = "sign" => /\ login[r].id \in DOMAIN users
                               /\ users[login[r].id] = login[r].name

\* A token that verifies stands for the user that logged in, through restarts,
\* unless the users are lost and the secret is not: a memory store behind a
\* configured secret gives the ids of old tokens to other users.
SessionNamesItsUser ==
  ~(storage = "memory" /\ configured) =>
    \A t \in tokens : Verifies(t) => t.id \in DOMAIN users /\ users[t.id] = t.name
=============================================================================
