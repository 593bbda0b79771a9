------------------------------- MODULE Accounts -------------------------------
(***************************************************************************)
(* The accounts behind do_request(): the map users in memory, the table    *)
(* user of the database, and the workers that register accounts and log    *)
(* clients in.  The map is searched without m_lock and changed with it     *)
(* (http_conn.cpp:317-341); init_mysql() fills it when the server starts.  *)
(***************************************************************************)
EXTENDS Integers

CONSTANTS
    Workers,
    Names,
    Passwords,    \* as lines 312-313 read them: what the client sent and, since
                  \* the copy is not terminated, what the stack holds behind it
    MaxRequests,  \* bound on the requests
    MaxCrashes,   \* bound on the restarts of the server
    Empty,        \* the password of an entry that a search has made
    None

ASSUME AccountsAssumption ==
    /\ Empty \notin Passwords /\ None \notin Passwords \cup {Empty}
    /\ None \notin Workers \cup {"log", "registerError", "welcome", "logError"}
    /\ {MaxRequests, MaxCrashes} \subseteq Nat

VARIABLES
    unique,   \* whether the table has a unique key on the names; the schema is
              \* not in the repository
    table,    \* the rows of the table, each <<name, password>>
    users,    \* the map: the password of each name, None for no entry
    m_lock,   \* the worker that holds it, or None
    pc,       \* where each worker is in do_request()
    job,      \* its request: registration or log-in, name and password
    page,     \* the page it has decided on
    told,     \* the registrations that have been answered with success
    failed,   \* the names for which an INSERT has failed though the table would have
              \* taken the row, since the server was started
    damaged,  \* a race has put an entry with no password into the map
    asked, crashes

vars == <<unique, table, users, m_lock, pc, job, page, told, failed, damaged,
          asked, crashes>>

Ops     == {"register", "login"}
NoJob   == [op |-> None, name |-> None, password |-> None]
Jobs    == [op : Ops, name : Names, password : Passwords]
Pages   == {"log", "registerError", "welcome", "logError"}
Holding == {"query", "insert", "inserting", "unlock"}

Goto(w, l)    == pc' = [pc EXCEPT ![w] = l]
Decide(w, pg) == page' = [page EXCEPT ![w] = pg]

-----------------------------------------------------------------------------
(* The map.                                                                 *)

\* What the map is filled with from rows: the row read last counts.
Loaded(rows) ==
    {u \in [Names -> Passwords \cup {None}] :
        \A n \in Names : IF u[n] = None THEN \A r \in rows : r[1] # n
                                        ELSE <<n, u[n]>> \in rows}

\* Who is in the middle of an insertion: meanwhile a search may miss any entry, and
\* the new entry may or may not be found.
Inserting == {w \in Workers : pc[w] = "inserting"}
MayHit(n)  == users[n] # None \/ \E v \in Inserting : job[v].name = n
MayMiss(n) == users[n] = None \/ Inserting # {}

-----------------------------------------------------------------------------
(* do_request().                                                            *)

\* A worker comes to lines 297-313 with a name and a password.
Begin(w, j) ==
    /\ pc[w] = "idle" /\ asked < MaxRequests
    /\ asked' = asked + 1
    /\ Goto(w, "find")
    /\ job' = [job EXCEPT ![w] = j]
    /\ UNCHANGED <<unique, table, users, m_lock, page, told, failed, damaged, crashes>>

Found(w) ==
    /\ MayHit(job[w].name)
    /\ IF job[w].op = "register" THEN Goto(w, "answer") /\ Decide(w, "registerError")
       ELSE Goto(w, "compare") /\ UNCHANGED page

Missed(w) ==
    /\ MayMiss(job[w].name)
    /\ IF job[w].op = "register" THEN Goto(w, "lock") /\ UNCHANGED page
       ELSE Goto(w, "answer") /\ Decide(w, "logError")

Find(w) ==
    /\ pc[w] = "find"
    /\ Found(w) \/ Missed(w)
    /\ UNCHANGED <<unique, table, users, m_lock, job, told, failed, damaged,
                   asked, crashes>>

\* Fault: no lock.
LockNothing(w) ==
    /\ pc[w] = "lock"
    /\ m_lock' = w
    /\ Goto(w, "query")
    /\ UNCHANGED <<unique, table, users, job, page, told, failed, damaged, asked, crashes>>

Lock(w) ==
    /\ pc[w] = "lock" /\ m_lock = None
    /\ m_lock' = w
    /\ Goto(w, "query")
    /\ UNCHANGED <<unique, table, users, job, page, told, failed, damaged, asked, crashes>>

Outcome(w, ok) == Decide(w, IF ok THEN "log" ELSE "registerError")

\* mysql_query() with the INSERT: the table takes the row, or does not because of its
\* key or for a reason of the database's own.
Taken(r) == ~unique \/ \A q \in table : q[1] # r[1]

Query(w) ==
    /\ pc[w] = "query"
    /\ LET row == <<job[w].name, job[w].password>>
       IN  \/ Taken(row) /\ table' = table \cup {row} /\ Outcome(w, TRUE) /\ UNCHANGED failed
           \/ /\ Outcome(w, FALSE) /\ UNCHANGED table
              /\ failed' = failed \cup (IF Taken(row) THEN {job[w].name} ELSE {})
    /\ Goto(w, "insert")
    /\ UNCHANGED <<unique, users, m_lock, job, told, damaged, asked, crashes>>

\* Fault: users[name] = password.
InsertOverwrites(w) ==
    /\ pc[w] = "insert"
    /\ Goto(w, "inserting")
    /\ UNCHANGED <<unique, table, users, m_lock, job, page, told, failed, damaged,
                   asked, crashes>>

\* users.insert() begins, and ends: an entry that is there already stays.
Insert(w) ==
    /\ pc[w] = "insert"
    /\ Goto(w, IF users[job[w].name] = None THEN "inserting" ELSE "unlock")
    /\ UNCHANGED <<unique, table, users, m_lock, job, page, told, failed, damaged,
                   asked, crashes>>

Inserted(w) ==
    /\ pc[w] = "inserting"
    /\ users' = [users EXCEPT ![job[w].name] = job[w].password]
    /\ Goto(w, "unlock")
    /\ UNCHANGED <<unique, table, m_lock, job, page, told, failed, damaged,
                   asked, crashes>>

\* Fault: a failed registration leaves before unlock().
UnlockIfRegistered(w) ==
    /\ pc[w] = "unlock"
    /\ m_lock' = IF page[w] = "log" THEN None ELSE m_lock
    /\ Goto(w, "answer")
    /\ UNCHANGED <<unique, table, users, job, page, told, failed, damaged, asked, crashes>>

Unlock(w) ==
    /\ pc[w] = "unlock"
    /\ m_lock' = None
    /\ Goto(w, "answer")
    /\ UNCHANGED <<unique, table, users, job, page, told, failed, damaged, asked, crashes>>

\* Fault: the name is all that counts.
LookupNameOnly(w, ok) == ok = (users[job[w].name] # None) /\ UNCHANGED <<users, damaged>>

\* users[name] == password: operator[] searches again, and when it misses the entry
\* it makes one, which may or may not come before the entry that is there.
Lookup(w, ok) ==
    LET n == job[w].name
    IN  \/ users[n] # None /\ ok = (users[n] = job[w].password) /\ UNCHANGED <<users, damaged>>
        \/ /\ \E v \in Inserting : job[v].name = n /\ ok = (job[v].password = job[w].password)
           /\ UNCHANGED <<users, damaged>>
        \/ /\ Inserting # {} /\ ~ok
           /\ users' \in {users, [users EXCEPT ![n] = Empty]}
           /\ damaged' = TRUE

Compare(w) ==
    /\ pc[w] = "compare"
    /\ \E ok \in BOOLEAN : Lookup(w, ok) /\ Decide(w, IF ok THEN "welcome" ELSE "logError")
    /\ Goto(w, "answer")
    /\ UNCHANGED <<unique, table, m_lock, job, told, failed, asked, crashes>>

\* The rest of process(): the page is sent.
Answer(w) ==
    /\ pc[w] = "answer"
    /\ IF page[w] = "log"
       THEN told' = told \cup {<<job[w].name, job[w].password>>}
       ELSE UNCHANGED told
    /\ Goto(w, "idle")
    /\ job' = [job EXCEPT ![w] = NoJob]
    /\ page' = [page EXCEPT ![w] = None]
    /\ UNCHANGED <<unique, table, users, m_lock, failed, damaged, asked, crashes>>

-----------------------------------------------------------------------------
\* Fault: the map starts empty.
init_mysqlNothing == users' = [n \in Names |-> None]

init_mysql == users' \in Loaded(table)

\* The server stops, at any point, and is started again.
Restart ==
    /\ crashes < MaxCrashes
    /\ crashes' = crashes + 1
    /\ init_mysql
    /\ m_lock' = None
    /\ pc' = [w \in Workers |-> "idle"]
    /\ job' = [w \in Workers |-> NoJob]
    /\ page' = [w \in Workers |-> None]
    /\ failed' = {} /\ damaged' = FALSE
    /\ UNCHANGED <<unique, table, told, asked>>

Init ==
    /\ unique \in BOOLEAN
    /\ table = {}
    /\ users = [n \in Names |-> None]
    /\ m_lock = None
    /\ pc = [w \in Workers |-> "idle"]
    /\ job = [w \in Workers |-> NoJob]
    /\ page = [w \in Workers |-> None]
    /\ told = {}
    /\ failed = {} /\ damaged = FALSE
    /\ asked = 0 /\ crashes = 0

Step(w) == Find(w) \/ Lock(w) \/ Query(w) \/ Insert(w) \/ Inserted(w) \/ Unlock(w)
           \/ Compare(w) \/ Answer(w)

Next == \/ \E w \in Workers : Step(w) \/ \E j \in Jobs : Begin(w, j)
        \/ Restart

Spec == Init /\ [][Next]_vars

\* A worker with a request gets the processor, and the lock when it is free for good.
FairSpec == Spec /\ \A w \in Workers : WF_vars(Step(w))

-----------------------------------------------------------------------------
\* Types; m_lock is held by the worker that is between lock() and unlock(), and a
\* request is in hand, with a page, as far as do_request() has come with it.
TypeOK ==
    /\ unique \in BOOLEAN /\ failed \in SUBSET Names /\ damaged \in BOOLEAN
    /\ table \in SUBSET (Names \X Passwords)
    /\ users \in [Names -> Passwords \cup {None, Empty}]
    /\ m_lock \in Workers \cup {None}
    /\ pc \in [Workers -> {"idle", "find", "compare", "lock", "answer"} \cup Holding]
    /\ job \in [Workers -> Jobs \cup {NoJob}]
    /\ page \in [Workers -> Pages \cup {None}]
    /\ told \in SUBSET (Names \X Passwords)
    /\ asked \in 0..MaxRequests /\ crashes \in 0..MaxCrashes
    /\ \A w \in Workers :
          /\ pc[w] \in Holding <=> m_lock = w
          /\ pc[w] = "idle" <=> job[w] = NoJob
          /\ pc[w] \in {"compare"} => job[w].op = "login"
          /\ pc[w] \in Holding \cup {"lock"} => job[w].op = "register"

\* "注册成功跳转到log.html": a registration that was answered with success has its row, whatever else happens.
\* With a unique key it is also what the map knows of the name, now and after every
\* restart; unless an INSERT of the name failed for another reason than the key, since
\* when the map holds the password of that one until the next restart, or a search
\* has put an entry into the map.
Remembered ==
    /\ told \subseteq table
    /\ unique /\ ~damaged =>
          \A r \in told : r[1] \notin failed => users[r[1]] = r[2]

\* While nobody is at a registration, every row has its name in the map, and a password
\* in the map is that of a row, except for a name whose INSERT failed: the code puts it
\* into the map all the same.  With a unique key, and if no search has put an entry
\* into the map, the entry of any other name is that of its row.
Agree ==
    (\A w \in Workers : pc[w] \notin Holding) =>
        /\ \A r \in table : users[r[1]] # None
        /\ \A n \in Names, t \in Passwords :
              users[n] = t => <<n, t>> \in table \/ n \in failed
        /\ unique /\ ~damaged =>
              \A r \in table : r[1] \notin failed => users[r[1]] = r[2]

\* "进行登录校验,验证成功跳转到welcome.html": a client is welcomed only with the password
\* that is on record, as long as no search has put an entry into the map.
WelcomeIsRight ==
    ~damaged => \A w \in Workers :
        page[w] = "welcome" =>
            \/ users[job[w].name] = job[w].password
            \/ \E v \in Inserting : job[v].name = job[w].name /\ job[v].password = job[w].password

\* Every request gets its page, unless the server stops first.
Answered == \A w \in Workers : pc[w] # "idle" ~> pc[w] = "idle"
=============================================================================
