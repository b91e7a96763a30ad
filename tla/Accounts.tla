------------------------------ MODULE Accounts ------------------------------
(***************************************************************************)
(* http/http_conn.cpp:476-547 and initmysql_result: registration and       *)
(* login.  The accounts are in a table of the database and in the map      *)
(* users, which is loaded from the table when the server starts.  m_lock   *)
(* makes the INSERT and the change of the map one step, but the map is     *)
(* looked up without it, also when a registration looks for the name.      *)
(*                                                                         *)
(* The lookup that runs while another worker changes the map is a data     *)
(* race; the model lets it see the map before or after the change.         *)
(***************************************************************************)
EXTENDS Locker, Sequences, FiniteSets

CONSTANTS
  Workers, Names, Passwords,
  None,             \* no password: the map has no such name
  NoJob,
  MaxRequests,      \* bound: how many requests are made
  MaxRestarts,      \* bound: how often the server is started again
  MayFail           \* may an INSERT fail?

ASSUME AccountsAssumption ==
  /\ IsFiniteSet(Workers) /\ Nobody \notin Workers
  /\ None \notin Passwords
  /\ MaxRequests \in Nat /\ MaxRestarts \in Nat /\ MayFail \in BOOLEAN
  /\ NoJob \notin Names \X Passwords

VARIABLES
  users,            \* the map, from names to passwords
  table,            \* the rows of the table user
  m_lock,
  pc, job,          \* of each worker: where it is, the name and the password
  res,              \* what its mysql_query returned: TRUE if it failed
  confirmed,        \* the accounts whose owner was sent /log.html
  failed,           \* the accounts whose INSERT failed since the server started
  raced,            \* the names that two workers registered at a time
  requests, restarts

memory == <<users, m_lock, pc, job, res>>
ghosts == <<confirmed, failed, raced>>
bounds == <<requests, restarts>>
vars   == <<memory, table, ghosts, bounds>>

Accts == Names \X Passwords

Rows(name) == {i \in 1..Len(table) : table[i][1] = name}

Init ==
  /\ users = [n \in Names |-> None]
  /\ table = << >>
  /\ m_lock = Nobody
  /\ pc = [w \in Workers |-> "idle"]
  /\ job = [w \in Workers |-> NoJob]
  /\ res = [w \in Workers |-> FALSE]
  /\ confirmed = {} /\ failed = {} /\ raced = {}
  /\ requests = 0 /\ restarts = 0

GoTo(w, from, to) == pc[w] = from /\ pc' = [pc EXCEPT ![w] = to]

Name(w)     == job[w][1]
Password(w) == job[w][2]

-----------------------------------------------------------------------------
(***************************************************************************)
(* Requests: /3... registers an account, /2... logs in.                    *)
(***************************************************************************)
Begin(w, acct, label) ==
  /\ requests < MaxRequests
  /\ requests' = requests + 1
  /\ GoTo(w, "idle", label)
  /\ job' = [job EXCEPT ![w] = acct]
  /\ UNCHANGED <<users, table, m_lock, res, ghosts, restarts>>

Done(w, from) ==
  /\ GoTo(w, from, "idle")
  /\ job' = [job EXCEPT ![w] = NoJob]
  /\ res' = [res EXCEPT ![w] = FALSE]
  /\ UNCHANGED bounds

\* The name is taken: /registerError.html.
Refuse(w) ==
  /\ Done(w, "find")
  /\ users[Name(w)] # None
  /\ UNCHANGED <<users, table, m_lock, ghosts>>

Registering(name) ==
  {w \in Workers : pc[w] \in {"lock", "query", "insert"} /\ Name(w) = name}

FindFree(w) ==
  /\ GoTo(w, "find", "lock")
  /\ users[Name(w)] = None
  /\ raced' = raced \cup (IF Registering(Name(w)) = {} THEN {} ELSE {Name(w)})
  /\ UNCHANGED <<users, table, m_lock, job, res, confirmed, failed, bounds>>

\* Slip: the account is put into the map before the row is inserted.
Lock_MapFirst(w) ==
  /\ GoTo(w, "lock", "query")
  /\ MutexLock(m_lock, w)
  /\ users' = IF users[Name(w)] = None
              THEN [users EXCEPT ![Name(w)] = Password(w)] ELSE users
  /\ UNCHANGED <<table, job, res, ghosts, bounds>>

Lock(w) ==
  /\ GoTo(w, "lock", "query")
  /\ MutexLock(m_lock, w)
  /\ UNCHANGED <<users, table, job, res, ghosts, bounds>>

\* Slip: the values are in the wrong order.
Query_Swapped(w) ==
  /\ GoTo(w, "query", "insert")
  /\ table' = Append(table, <<Password(w), Name(w)>>)
  /\ res' = [res EXCEPT ![w] = FALSE]
  /\ UNCHANGED <<users, m_lock, job, ghosts, bounds>>

Query(w) ==
  /\ GoTo(w, "query", "insert")
  /\ table' = Append(table, job[w])
  /\ res' = [res EXCEPT ![w] = FALSE]
  /\ UNCHANGED <<users, m_lock, job, ghosts, bounds>>

\* The INSERT fails: the table stays as it is.
QueryFails(w) ==
  /\ MayFail
  /\ GoTo(w, "query", "insert")
  /\ res' = [res EXCEPT ![w] = TRUE]
  /\ failed' = failed \cup {job[w]}
  /\ UNCHANGED <<users, table, m_lock, job, confirmed, raced, bounds>>

\* Slip: the map is left as it is.
Insert_TableOnly(w) ==
  /\ GoTo(w, "insert", "answer")
  /\ MutexUnlock(m_lock)
  /\ UNCHANGED <<users, table, job, res, ghosts, bounds>>

\* users.insert keeps an entry that is there, and is called whatever the
\* database said.
Insert(w) ==
  /\ GoTo(w, "insert", "answer")
  /\ users' = IF users[Name(w)] = None
              THEN [users EXCEPT ![Name(w)] = Password(w)] ELSE users
  /\ MutexUnlock(m_lock)
  /\ UNCHANGED <<table, job, res, ghosts, bounds>>

\* /log.html if the row was inserted, else /registerError.html.
Answer(w) ==
  /\ Done(w, "answer")
  /\ confirmed' = IF res[w] THEN confirmed ELSE confirmed \cup {job[w]}
  /\ UNCHANGED <<users, table, m_lock, failed, raced>>

\* A login: /welcome.html or /logError.html.
LogsIn(acct) == users[acct[1]] = acct[2]

Login(w) ==
  /\ Done(w, "login")
  /\ UNCHANGED <<users, table, m_lock, ghosts>>

-----------------------------------------------------------------------------
(***************************************************************************)
(* The server stops at any point and is started again: initmysql_result    *)
(* reads all rows, and of several rows with a name the one that is read    *)
(* last stays.  The SELECT asks for no order.                              *)
(***************************************************************************)
Loaded(name) ==
  IF Rows(name) = {} THEN {None} ELSE {table[i][2] : i \in Rows(name)}

Restart ==
  /\ restarts < MaxRestarts
  /\ restarts' = restarts + 1
  /\ users' \in {u \in [Names -> Passwords \cup {None}] :
                   \A n \in Names : u[n] \in Loaded(n)}
  /\ m_lock' = Nobody
  /\ pc' = [w \in Workers |-> "idle"]
  /\ job' = [w \in Workers |-> NoJob]
  /\ res' = [w \in Workers |-> FALSE]
  /\ failed' = {}
  /\ UNCHANGED <<table, confirmed, raced, requests>>

-----------------------------------------------------------------------------
Request(w) ==
  \E acct \in Accts : Begin(w, acct, "find") \/ Begin(w, acct, "login")

Step(w) ==
  \/ Refuse(w) \/ FindFree(w) \/ Lock(w) \/ Query(w) \/ QueryFails(w)
  \/ Insert(w) \/ Answer(w) \/ Login(w)

Next == (\E w \in Workers : Request(w) \/ Step(w)) \/ Restart

Spec == Init /\ [][Next]_vars

-----------------------------------------------------------------------------
\* One password or none for a name in the map, whole rows in the table.
TypeOK ==
  /\ users \in [Names -> Passwords \cup {None}]
  /\ table \in Seq(Accts)
  /\ m_lock \in Workers \cup {Nobody}
  /\ pc \in [Workers -> {"idle", "find", "lock", "query", "insert", "answer",
                         "login"}]
  /\ job \in [Workers -> Accts \cup {NoJob}]
  /\ res \in [Workers -> BOOLEAN]
  /\ confirmed \subseteq Accts /\ failed \subseteq Accts
  /\ raced \subseteq Names
  /\ requests \in 0..MaxRequests /\ restarts \in 0..MaxRestarts

\* A name has one row, unless two workers registered it at a time: the lookup
\* without the lock finds every account of the table that matters, after
\* failed INSERTs and restarts too.
OneRowPerName ==
  \A n \in Names \ raced : Cardinality(Rows(n)) <= 1

\* Who was told that the registration is done can log in from then on, after
\* any number of restarts, unless two workers registered the name at a time.
ConfirmedLogsIn == \A a \in confirmed : a[1] \notin raced => LogsIn(a)

\* Whoever can log in has a row with the name and the password in the table:
\* no account is in the map ahead of its row, and of several rows the map has
\* one.  The exception is the fault of line 525, which puts an account into
\* the map although its own INSERT failed; it has no other password for it
\* than that one, and the account is gone when the server is started again.
LoginIsBacked ==
  \A a \in Accts : LogsIn(a) =>
    a \in failed \/ \E i \in 1..Len(table) : table[i] = a

-----------------------------------------------------------------------------
(***************************************************************************)
(* What the documentation says and the code does not do                    *)
(***************************************************************************)

\* CGImysql/README.md:13: registration is safe with several threads.  A name
\* has one account.
RegistersOnce ==
  \A a, b \in confirmed : a[1] = b[1] => a = b

=============================================================================
