---------------------------- MODULE LoginProofs ----------------------------
(***************************************************************************)
(* Proofs about Login for any requests, names and number of restarts.      *)
(***************************************************************************)
EXTENDS Login, TLAPS

-----------------------------------------------------------------------------
(* The inductive invariant. *)

LoginRec == [at : {"idle", "find", "create", "again", "sign", "done"},
             name : Names \cup {"none"}, id : Nat,
             err : {"none", "failed", "ErrNoRows"}]
Token == [id : Nat, name : Names \cup {"none"}, secret : Nat]

\* No id above the counter is in use.
LoginTypeOK ==
  /\ storage \in {"memory", "postgres"} /\ configured \in BOOLEAN
  /\ nextID \in Nat /\ secret \in Nat
  /\ DOMAIN users \subseteq 1..nextID
  /\ users \in [DOMAIN users -> Names \cup {"none"}]
  /\ tokens \in SUBSET Token
  /\ login \in [Requests -> LoginRec]

\* A request whose insert met a conflict will find the user that was in the way:
\* no user is ever removed while the process runs.
ConflictInv == \A r \in Requests : login[r].at = "again" => IDsOf(login[r].name) # {}

\* No token was signed with a secret that is yet to come.
SecretInv == \A t \in tokens : t.secret <= secret

LoginInv == /\ LoginTypeOK /\ OneUserPerName /\ ConflictInv /\ LoginFindsItsUser
            /\ SecretInv /\ SessionNamesItsUser

-----------------------------------------------------------------------------
\* What happens to the users while the process runs: nothing, or one more.
Grown == \A id \in DOMAIN users : id \in DOMAIN users' /\ users'[id] = users[id]

\* A new user has an id of its own.
AddedUser(name) ==
  users' = [id \in DOMAIN users \cup {nextID + 1} |->
              IF id = nextID + 1 THEN name ELSE users[id]]

\* A user that is added under a new id leaves the others as they were.
LEMMA AddedUserFacts ==
  ASSUME LoginTypeOK, NEW name \in Names \cup {"none"},
         AddedUser(name), nextID' = nextID + 1
  PROVE  /\ nextID' \in Nat
         /\ DOMAIN users' \subseteq 1..nextID'
         /\ users' \in [DOMAIN users' -> Names \cup {"none"}]
         /\ Grown
         /\ nextID + 1 \in DOMAIN users' /\ users'[nextID + 1] = name
         /\ OneUserPerName /\ IDsOf(name) = {} => OneUserPerName'
<1>1. nextID + 1 \notin DOMAIN users
  BY DEF LoginTypeOK
<1>2. DOMAIN users' = DOMAIN users \cup {nextID + 1}
  BY DEF AddedUser
<1>3. \A id \in DOMAIN users' :
        users'[id] = IF id = nextID + 1 THEN name ELSE users[id]
  BY DEF AddedUser
<1>4. users'[nextID + 1] = name /\ Grown
  BY <1>1, <1>2, <1>3 DEF Grown
<1>5. OneUserPerName /\ IDsOf(name) = {} => OneUserPerName'
  <2> SUFFICES ASSUME OneUserPerName, IDsOf(name) = {},
                      NEW i \in DOMAIN users', NEW j \in DOMAIN users',
                      users'[i] = users'[j]
               PROVE  i = j
    BY DEF OneUserPerName
  <2>1. \A id \in DOMAIN users : users[id] # name
    BY DEF IDsOf
  <2>2. CASE i = nextID + 1 \/ j = nextID + 1
    BY <1>2, <1>3, <2>1, <2>2
  <2>3. CASE i # nextID + 1 /\ j # nextID + 1
    BY <1>2, <1>3, <2>3 DEF OneUserPerName
  <2> QED BY <2>2, <2>3
<1> QED BY <1>2, <1>3, <1>4, <1>5 DEF LoginTypeOK, AddedUser

\* What is known of the users stays known as they grow.
LEMMA GrownFacts ==
  ASSUME Grown
  PROVE  /\ \A name : IDsOf(name) # {} => IDsOf(name)' # {}
         /\ SessionNamesItsUser /\ UNCHANGED <<storage, configured, secret, tokens>>
              => SessionNamesItsUser'
  BY DEF Grown, IDsOf, SessionNamesItsUser, Verifies

-----------------------------------------------------------------------------
\* The initial state satisfies the invariant.
LEMMA LoginInit == Init => LoginInv
<1> SUFFICES ASSUME Init PROVE LoginInv
  OBVIOUS
<1> USE DEF Init
<1>1. DOMAIN users = {}
  OBVIOUS
<1>2. LoginTypeOK
  <2>1. NoLogin \in LoginRec
    BY DEF NoLogin, LoginRec
  <2> QED BY <1>1, <2>1 DEF LoginTypeOK
<1>3. \A r \in Requests : login[r].at = "idle" /\ login[r].err = "none"
  BY DEF NoLogin
<1>4. ConflictInv /\ LoginFindsItsUser
  BY <1>3 DEF ConflictInv, LoginFindsItsUser
<1> QED
  BY <1>1, <1>2, <1>4 DEF LoginInv, OneUserPerName, SecretInv, SessionNamesItsUser
\* A step of one request, which leaves it with the record rec.
LEMMA RequestStep ==
  ASSUME LoginTypeOK, ConflictInv, LoginFindsItsUser, Grown,
         NEW r \in Requests, NEW rec \in LoginRec,
         login' = [login EXCEPT ![r] = rec],
         rec.err # "ErrNoRows",
         rec.at = "again" => IDsOf(rec.name) # {},
         rec.at = "sign" => rec.id \in DOMAIN users' /\ users'[rec.id] = rec.name
  PROVE  /\ login' \in [Requests -> LoginRec]
         /\ ConflictInv' /\ LoginFindsItsUser'
<1>1. login' \in [Requests -> LoginRec]
  BY DEF LoginTypeOK
<1>2. \A q \in Requests : login'[q] = IF q = r THEN rec ELSE login[q]
  BY DEF LoginTypeOK
<1>3. ConflictInv'
  BY <1>2, GrownFacts DEF ConflictInv
<1>4. LoginFindsItsUser'
  BY <1>2 DEF LoginFindsItsUser, Grown
<1> QED BY <1>1, <1>3, <1>4

\* The records of a request that Login writes.
LEMMA RecordFacts ==
  ASSUME LoginTypeOK, NEW r \in Requests
  PROVE  /\ NoLogin \in LoginRec
         /\ \A at \in {"create", "again", "done"} :
              /\ [login[r] EXCEPT !.at = at] \in LoginRec
              /\ To(r, at) = [login EXCEPT ![r] = [login[r] EXCEPT !.at = at]]
         /\ \A id \in Nat :
              /\ [login[r] EXCEPT !.at = "sign", !.id = id] \in LoginRec
              /\ Got(r, id) = [login EXCEPT ![r] =
                                 [login[r] EXCEPT !.at = "sign", !.id = id]]
         /\ \A err \in {"failed", "ErrNoRows"} :
              /\ [login[r] EXCEPT !.at = "done", !.err = err] \in LoginRec
              /\ Refused(r, err) = [login EXCEPT ![r] =
                                      [login[r] EXCEPT !.at = "done", !.err = err]]
         /\ login[r] \in LoginRec
<1>1. login[r] \in LoginRec
  BY DEF LoginTypeOK
<1>2. NoLogin \in LoginRec
  BY DEF NoLogin, LoginRec
<1>3. ASSUME NEW at \in {"create", "again", "done"}
      PROVE  /\ [login[r] EXCEPT !.at = at] \in LoginRec
             /\ To(r, at) = [login EXCEPT ![r] = [login[r] EXCEPT !.at = at]]
  BY <1>1 DEF LoginRec, To, LoginTypeOK
<1>4. ASSUME NEW id \in Nat
      PROVE  /\ [login[r] EXCEPT !.at = "sign", !.id = id] \in LoginRec
             /\ Got(r, id) = [login EXCEPT ![r] =
                                [login[r] EXCEPT !.at = "sign", !.id = id]]
  BY <1>1 DEF LoginRec, Got, LoginTypeOK
<1>5. ASSUME NEW err \in {"failed", "ErrNoRows"}
      PROVE  /\ [login[r] EXCEPT !.at = "done", !.err = err] \in LoginRec
             /\ Refused(r, err) = [login EXCEPT ![r] =
                                     [login[r] EXCEPT !.at = "done", !.err = err]]
  BY <1>1 DEF LoginRec, Refused, LoginTypeOK
<1> QED BY <1>1, <1>2, <1>3, <1>4, <1>5

\* A step of one request that adds no user and signs no token.
LEMMA QuietStep ==
  ASSUME LoginInv, NEW r \in Requests, NEW rec \in LoginRec,
         login' = [login EXCEPT ![r] = rec],
         UNCHANGED <<storage, configured, users, nextID, secret, tokens>>,
         rec.err # "ErrNoRows",
         rec.at = "again" => IDsOf(rec.name) # {},
         rec.at = "sign" => rec.id \in DOMAIN users /\ users[rec.id] = rec.name
  PROVE  LoginInv'
<1>1. Grown
  BY DEF Grown
<1>2. login' \in [Requests -> LoginRec] /\ ConflictInv' /\ LoginFindsItsUser'
  BY <1>1, RequestStep DEF LoginInv
<1>3. LoginTypeOK'
  BY <1>2 DEF LoginInv, LoginTypeOK
<1>4. OneUserPerName' /\ SecretInv' /\ SessionNamesItsUser'
  BY DEF LoginInv, OneUserPerName, SecretInv, SessionNamesItsUser, Verifies
<1> QED BY <1>2, <1>3, <1>4 DEF LoginInv

\* A step of one request that adds a user for its name, which had none.
LEMMA AddingStep ==
  ASSUME LoginInv, NEW r \in Requests, NEW rec \in LoginRec,
         login' = [login EXCEPT ![r] = rec],
         AddedUser(login[r].name), nextID' = nextID + 1,
         IDsOf(login[r].name) = {},
         UNCHANGED <<storage, configured, secret, tokens>>,
         rec.err # "ErrNoRows", rec.at # "again",
         rec.at = "sign" => rec.id = nextID + 1 /\ rec.name = login[r].name
  PROVE  LoginInv'
<1> DEFINE name == login[r].name
<1>1. name \in Names \cup {"none"}
  BY DEF LoginInv, LoginTypeOK, LoginRec
<1>2. /\ nextID' \in Nat
      /\ DOMAIN users' \subseteq 1..nextID'
      /\ users' \in [DOMAIN users' -> Names \cup {"none"}]
      /\ Grown /\ OneUserPerName'
      /\ nextID + 1 \in DOMAIN users' /\ users'[nextID + 1] = name
  BY <1>1, AddedUserFacts DEF LoginInv
<1>3. login' \in [Requests -> LoginRec] /\ ConflictInv' /\ LoginFindsItsUser'
  BY <1>2, RequestStep DEF LoginInv
<1>4. LoginTypeOK'
  BY <1>2, <1>3 DEF LoginInv, LoginTypeOK
<1>5. SecretInv' /\ SessionNamesItsUser'
  BY <1>2, GrownFacts DEF LoginInv, SecretInv
<1> QED BY <1>2, <1>3, <1>4, <1>5 DEF LoginInv

\* Signing: the token stands for the user that the request has found.
LEMMA SignStep ==
  ASSUME LoginInv, NEW r \in Requests, Sign(r)
  PROVE  LoginInv'
<1> DEFINE t == [id |-> login[r].id, name |-> login[r].name, secret |-> secret]
           rec == [login[r] EXCEPT !.at = "done"]
<1>1. /\ login' = [login EXCEPT ![r] = rec] /\ rec \in LoginRec
      /\ rec.err = login[r].err /\ rec.at = "done"
  <2>1. LoginTypeOK /\ login' = To(r, "done")
    BY DEF Sign, LoginInv
  <2>2. /\ To(r, "done") = [login EXCEPT ![r] = rec]
        /\ rec \in LoginRec /\ login[r] \in LoginRec
    BY <2>1, RecordFacts
  <2>3. rec.err = login[r].err /\ rec.at = "done"
    BY <2>2 DEF LoginRec
  <2> QED BY ONLY <2>1, <2>2, <2>3
<1>2. /\ tokens' = tokens \cup {t} /\ login[r].at = "sign"
      /\ UNCHANGED <<storage, configured, users, nextID, secret>>
  BY DEF Sign
<1>3. login[r].err # "ErrNoRows" /\ login[r].id \in DOMAIN users
      /\ users[login[r].id] = login[r].name
  BY <1>2 DEF LoginInv, LoginFindsItsUser
<1>4. Grown
  BY <1>2 DEF Grown
<1>5. login' \in [Requests -> LoginRec] /\ ConflictInv' /\ LoginFindsItsUser'
  BY <1>1, <1>3, <1>4, RequestStep DEF LoginInv
<1>6. t \in Token /\ t.secret = secret /\ secret \in Nat
  BY RecordFacts DEF LoginInv, LoginTypeOK, LoginRec, Token
<1>7. LoginTypeOK'
  BY <1>2, <1>5, <1>6 DEF LoginInv, LoginTypeOK
<1>8. SecretInv'
  BY <1>2, <1>6 DEF LoginInv, SecretInv
<1>9. OneUserPerName' /\ SessionNamesItsUser'
  BY <1>2, <1>3 DEF LoginInv, OneUserPerName, SessionNamesItsUser, Verifies
<1> QED BY <1>5, <1>7, <1>8, <1>9 DEF LoginInv

\* A restart that loses the users gives the process a secret of its own, unless
\* the secret is configured and the store is the memory.
LEMMA RestartStep ==
  ASSUME LoginInv, Restart
  PROVE  LoginInv'
<1>1. /\ login' = [r \in Requests |-> NoLogin] /\ secret' = NewSecret
      /\ UNCHANGED <<storage, configured, tokens>>
      /\ \/ storage = "memory" /\ users' = <<>> /\ nextID' = 0
         \/ storage = "postgres" /\ UNCHANGED <<users, nextID>>
  BY DEF Restart, LoginInv, LoginTypeOK
<1>2. /\ secret' \in Nat /\ secret \in Nat /\ secret <= secret'
      /\ ~configured => secret' = secret + 1
      /\ configured => secret' = secret
  BY <1>1 DEF NewSecret, LoginInv, LoginTypeOK
<1>3. LoginTypeOK'
  <2>1. NoLogin \in LoginRec
    BY DEF NoLogin, LoginRec
  <2>2. login' \in [Requests -> LoginRec]
    BY <1>1, <2>1
  <2>3. /\ nextID' \in Nat /\ DOMAIN users' \subseteq 1..nextID'
        /\ users' \in [DOMAIN users' -> Names \cup {"none"}]
    <3>1. CASE users' = <<>> /\ nextID' = 0
      <4>1. DOMAIN users' = {}
        BY <3>1
      <4> QED BY <3>1, <4>1
    <3>2. CASE UNCHANGED <<users, nextID>>
      BY <3>2 DEF LoginInv, LoginTypeOK
    <3> QED BY <1>1, <3>1, <3>2
  <2> QED BY <1>1, <1>2, <2>2, <2>3 DEF LoginInv, LoginTypeOK
<1>4. OneUserPerName'
  BY <1>1 DEF LoginInv, OneUserPerName
<1>5. ConflictInv' /\ LoginFindsItsUser'
  BY <1>1 DEF ConflictInv, LoginFindsItsUser, NoLogin
<1>6. SecretInv'
  BY <1>1, <1>2 DEF LoginInv, LoginTypeOK, SecretInv, Token
<1>7. SessionNamesItsUser'
  <2>1. CASE storage = "memory" /\ configured
    BY <1>1, <2>1 DEF SessionNamesItsUser
  <2>2. CASE ~configured
    <3>1. \A t \in tokens : t.secret \in Nat /\ t.secret <= secret
      BY DEF LoginInv, LoginTypeOK, SecretInv, Token
    <3>2. \A t \in tokens' : t.secret # secret'
      BY <1>1, <1>2, <2>2, <3>1
    <3> QED BY <3>2 DEF SessionNamesItsUser, Verifies
  <2>3. CASE storage = "postgres" /\ configured
    BY <1>1, <1>2, <2>3 DEF LoginInv, SessionNamesItsUser, Verifies
  <2> QED BY <2>1, <2>2, <2>3 DEF LoginInv, LoginTypeOK
<1> QED BY <1>3, <1>4, <1>5, <1>6, <1>7 DEF LoginInv

-----------------------------------------------------------------------------
\* Every step preserves the invariant.
LEMMA LoginStep == LoginInv /\ [Next]_vars => LoginInv'
<1> SUFFICES ASSUME LoginInv, [Next]_vars PROVE LoginInv'
  OBVIOUS
<1>inv. LoginTypeOK /\ ConflictInv /\ LoginFindsItsUser
  BY DEF LoginInv
<1>1. ASSUME NEW r \in Requests, NEW name \in Names, Begin(r, name) PROVE LoginInv'
  <2> DEFINE rec == [login[r] EXCEPT !.at = "find", !.name = name]
  <2>1. login[r] \in LoginRec /\ login[r].err # "ErrNoRows"
    BY <1>inv, RecordFacts DEF LoginFindsItsUser
  <2>2. rec \in LoginRec /\ rec.at = "find" /\ rec.err # "ErrNoRows"
    BY <2>1 DEF LoginRec
  <2>3. login' = [login EXCEPT ![r] = rec]
    BY <1>1, <1>inv DEF Begin, LoginTypeOK
  <2>4. UNCHANGED <<storage, configured, users, nextID, secret, tokens>>
    BY <1>1 DEF Begin
  <2> QED BY <2>2, <2>3, <2>4, QuietStep
<1>found. ASSUME NEW r \in Requests, NEW id \in IDsOf(login[r].name), login' = Got(r, id),
             UNCHANGED <<storage, configured, users, nextID, secret, tokens>>
      PROVE  LoginInv'
  <2> DEFINE rec == [login[r] EXCEPT !.at = "sign", !.id = id]
  <2>1. id \in Nat /\ id \in DOMAIN users /\ users[id] = login[r].name
    BY <1>inv DEF IDsOf, LoginTypeOK
  <2>2. login[r] \in LoginRec /\ login[r].err # "ErrNoRows"
    BY <1>inv, RecordFacts DEF LoginFindsItsUser
  <2>3. rec \in LoginRec /\ login' = [login EXCEPT ![r] = rec]
    BY <1>found, <1>inv, <2>1, RecordFacts
  <2>4. rec.at = "sign" /\ rec.id = id /\ rec.name = login[r].name
        /\ rec.err = login[r].err
    BY <2>2 DEF LoginRec
  <2> QED BY <1>found, <2>1, <2>2, <2>3, <2>4, QuietStep
<1>refused. ASSUME NEW r \in Requests, login' = Refused(r, "failed"),
             UNCHANGED <<storage, configured, users, nextID, secret, tokens>>
      PROVE  LoginInv'
  <2> DEFINE rec == [login[r] EXCEPT !.at = "done", !.err = "failed"]
  <2>1. rec \in LoginRec /\ login' = [login EXCEPT ![r] = rec]
    BY <1>refused, <1>inv, RecordFacts
  <2>r. login[r] \in LoginRec
    BY <1>inv, RecordFacts
  <2>2. rec.at = "done" /\ rec.err = "failed"
    BY ONLY <2>r DEF LoginRec
  <2> HIDE DEF rec
  <2>3. rec.err # "ErrNoRows" /\ rec.at # "again" /\ rec.at # "sign"
    BY <2>2
  <2> QED BY ONLY LoginInv, <1>refused, <2>1, <2>3, QuietStep
<1>2. ASSUME NEW r \in Requests, Find(r) PROVE LoginInv'
  <2>1. CASE IDsOf(login[r].name) = {} /\ login' = To(r, "create")
    <3> DEFINE rec == [login[r] EXCEPT !.at = "create"]
    <3>1. login[r] \in LoginRec /\ login[r].err # "ErrNoRows"
      BY <1>inv, RecordFacts DEF LoginFindsItsUser
    <3>2. rec \in LoginRec /\ login' = [login EXCEPT ![r] = rec]
      BY <2>1, <1>inv, RecordFacts
    <3>3. rec.at = "create" /\ rec.err # "ErrNoRows"
      BY <3>1 DEF LoginRec
    <3>4. UNCHANGED <<storage, configured, users, nextID, secret, tokens>>
      BY <1>2 DEF Find
    <3> QED BY <3>2, <3>3, <3>4, QuietStep
  <2> QED BY <1>2, <1>found, <2>1 DEF Find
<1>added. ASSUME NEW r \in Requests, AddUser(r), nextID' = nextID + 1,
             IDsOf(login[r].name) = {},
             UNCHANGED <<storage, configured, secret, tokens>>
      PROVE  LoginInv'
  <2> DEFINE rec == [login[r] EXCEPT !.at = "sign", !.id = nextID + 1]
  <2>1. login[r] \in LoginRec /\ login[r].err # "ErrNoRows" /\ nextID + 1 \in Nat
    BY <1>inv DEF LoginFindsItsUser, LoginTypeOK
  <2>2. rec \in LoginRec /\ login' = [login EXCEPT ![r] = rec]
    BY <1>added, <1>inv, <2>1, RecordFacts DEF AddUser
  <2>3. rec.at = "sign" /\ rec.id = nextID + 1 /\ rec.name = login[r].name
        /\ rec.err # "ErrNoRows"
    BY <2>1 DEF LoginRec
  <2>4. AddedUser(login[r].name)
    BY <1>added DEF AddUser, AddedUser
  <2> QED BY <1>added, <2>2, <2>3, <2>4, AddingStep
<1>3. ASSUME NEW r \in Requests, CreateInMemory(r) PROVE LoginInv'
  BY <1>3, <1>added, <1>found DEF CreateInMemory
<1>4. ASSUME NEW r \in Requests, InsertUser(r) PROVE LoginInv'
  <2>1. CASE IDsOf(login[r].name) # {} /\ login' = To(r, "again") /\ UNCHANGED users
    <3> DEFINE rec == [login[r] EXCEPT !.at = "again"]
    <3>1. login[r] \in LoginRec /\ login[r].err # "ErrNoRows"
      BY <1>inv, RecordFacts DEF LoginFindsItsUser
    <3>2. rec \in LoginRec /\ login' = [login EXCEPT ![r] = rec]
      BY <2>1, <1>inv, RecordFacts
    <3>3. rec.at = "again" /\ rec.name = login[r].name /\ rec.err # "ErrNoRows"
      BY <3>1 DEF LoginRec
    <3>4. Grown
      BY <2>1 DEF Grown
    <3>5. login' \in [Requests -> LoginRec] /\ ConflictInv' /\ LoginFindsItsUser'
      BY <1>inv, <2>1, <3>2, <3>3, <3>4, RequestStep
    <3>6. /\ UNCHANGED <<storage, configured, secret, tokens>>
          /\ nextID' = nextID + 1
      BY <1>4 DEF InsertUser
    <3>7. LoginTypeOK'
      BY <1>inv, <2>1, <3>5, <3>6 DEF LoginTypeOK
    <3>8. OneUserPerName' /\ SecretInv' /\ SessionNamesItsUser'
      BY <2>1, <3>6 DEF LoginInv, OneUserPerName, SecretInv, SessionNamesItsUser, Verifies
    <3> QED BY <3>5, <3>7, <3>8 DEF LoginInv
  <2> QED BY <1>4, <1>added, <2>1 DEF InsertUser
<1>5. ASSUME NEW r \in Requests, FindAgain(r) PROVE LoginInv'
  <2>1. IDsOf(login[r].name) # {}
    BY <1>5, <1>inv DEF FindAgain, ConflictInv
  <2> QED BY <1>5, <1>found, <2>1 DEF FindAgain
<1>6. ASSUME NEW r \in Requests, Fail(r) PROVE LoginInv'
  BY <1>6, <1>refused DEF Fail
<1>7. ASSUME NEW r \in Requests, InsertFails(r) PROVE LoginInv'
  <2> DEFINE rec == [login[r] EXCEPT !.at = "done", !.err = "failed"]
  <2>1. rec \in LoginRec /\ login' = [login EXCEPT ![r] = rec]
    BY <1>7, <1>inv, RecordFacts DEF InsertFails
  <2>r. login[r] \in LoginRec
    BY <1>inv, RecordFacts
  <2>2. rec.at = "done" /\ rec.err = "failed"
    BY ONLY <2>r DEF LoginRec
  <2>3. AddedUser(login[r].name)
    BY <1>7 DEF InsertFails, AddedUser
  <2> HIDE DEF rec
  <2>4. rec.err # "ErrNoRows" /\ rec.at # "again" /\ rec.at # "sign"
    BY <2>2
  <2>5. /\ nextID' = nextID + 1 /\ IDsOf(login[r].name) = {}
        /\ UNCHANGED <<storage, configured, secret, tokens>>
    BY <1>7 DEF InsertFails
  <2> QED BY ONLY LoginInv, r \in Requests, <2>1, <2>3, <2>4, <2>5, AddingStep
<1>8. ASSUME NEW r \in Requests, Return(r) PROVE LoginInv'
  <2>1. NoLogin \in LoginRec /\ NoLogin.at = "idle" /\ NoLogin.err = "none"
    BY DEF NoLogin, LoginRec
  <2> QED BY <1>8, <2>1, QuietStep DEF Return
<1>9. CASE UNCHANGED vars
  <2>1. Grown /\ UNCHANGED <<storage, configured, users, nextID, secret, tokens, login>>
    BY <1>9 DEF vars, Grown
  <2> QED BY <2>1 DEF LoginInv, LoginTypeOK, OneUserPerName, ConflictInv, IDsOf,
                      LoginFindsItsUser, SecretInv, SessionNamesItsUser, Verifies
<1> QED BY <1>1, <1>2, <1>3, <1>4, <1>5, <1>6, <1>7, <1>8, <1>9, SignStep, RestartStep
        DEF Next

\* The invariant holds throughout every behaviour.
LEMMA LoginInvariant == Spec => []LoginInv
  BY LoginInit, LoginStep, PTL DEF Spec

\* First logins of one name that overlap, over either store, through failing
\* inserts and restarts: a name never has two users.
THEOREM NameHasOneUser == Spec => []OneUserPerName
<1>1. LoginInv => OneUserPerName
  BY DEF LoginInv
<1> QED BY <1>1, LoginInvariant, PTL

\* Every login that succeeds has the user of its name, and the query after a
\* conflict never comes back empty.
THEOREM LoginGetsItsUser == Spec => []LoginFindsItsUser
<1>1. LoginInv => LoginFindsItsUser
  BY DEF LoginInv
<1> QED BY <1>1, LoginInvariant, PTL

\* A token that verifies stands for the user that logged in, after any number of
\* restarts, except for a memory store behind a configured secret.
THEOREM SessionStaysTrue == Spec => []SessionNamesItsUser
<1>1. LoginInv => SessionNamesItsUser
  BY DEF LoginInv
<1> QED BY <1>1, LoginInvariant, PTL
=============================================================================
