----------------------------- MODULE AdminUsers -----------------------------
(***************************************************************************)
(* The console accounts: the user handlers of internal/handler/admin.go,   *)
(* Login of internal/service/admin.go, and the seeding of the first        *)
(* account in internal/database/database.go.                               *)
(*                                                                         *)
(* Login and UpdateUser load a row, spend a while on a password hash, and  *)
(* write every column of the row back with db.Save; a request that commits *)
(* to the same row in between is overwritten.  A deleted account keeps its *)
(* row, and its row keeps its name in the unique index.                    *)
(***************************************************************************)
EXTENDS Integers, Functions

CONSTANTS
    Requests,   \* goroutines of console requests
    UserIds,    \* primary keys; a bound on the accounts ever made
    Names,
    SeedName,   \* admin.username
    Passwords,  \* what a hash verifies
    Blank,      \* the password field of an update left empty
    NoRow       \* no row (yet) under an id

UserRow == [name : Names, password : Passwords, enabled : BOOLEAN,
            deleted : BOOLEAN]

ASSUME UsersAssumption ==
    /\ SeedName \in Names
    /\ Passwords # {} /\ Blank \notin Passwords
    /\ NoRow \notin UserRow \cup UserIds

VARIABLES
    users,   \* the table, by primary key
    pc,      \* where each request is
    id,      \* the row it loaded: its key ...
    loaded,  \* ... and its columns then
    stale,   \* history: requests whose row was written since they loaded it
    process  \* "down", "up", or "fatal" when the start-up failed for good

vars == <<users, pc, id, loaded, stale, process>>

TypeOK ==
    /\ users \in [UserIds -> UserRow \cup {NoRow}]
    /\ pc \in [Requests -> {"idle", "login", "update"}]
    /\ id \in [Requests -> UserIds \cup {NoRow}]
    /\ loaded \in [Requests -> UserRow \cup {NoRow}]
    /\ stale \in SUBSET Requests
    /\ process \in {"down", "up", "fatal"}

Init ==
    /\ users = [u \in UserIds |-> NoRow]
    /\ pc = [r \in Requests |-> "idle"]
    /\ id = [r \in Requests |-> NoRow]
    /\ loaded = [r \in Requests |-> NoRow]
    /\ stale = {}
    /\ process = "down"

----------------------------------------------------------------------------
(* The table *)

Live(row) == row # NoRow /\ ~row.deleted

\* The unique index on users.username covers deleted rows as well.
NameFree(name, u) ==
    \A v \in UserIds \ {u} : users[v] # NoRow => users[v].name # name

\* db.Create writes the default, true, for an `enabled` of false.
Inserted(row) == [row EXCEPT !.enabled = TRUE]

\* db.Save: update every column of the live row, else upsert by primary key.
Saved(old, row) == IF Live(old) THEN row ELSE Inserted(row)

\* Row u is written: whoever else has loaded it holds an old copy.
Write(u, row) ==
    /\ users' = [users EXCEPT ![u] = row]
    /\ stale' = stale \cup {r \in Requests : id[r] = u}

----------------------------------------------------------------------------
(* The handlers *)

Begin(r, u, what) ==
    /\ pc' = [pc EXCEPT ![r] = what]
    /\ id' = [id EXCEPT ![r] = u]
    /\ loaded' = [loaded EXCEPT ![r] = users[u]]
    /\ UNCHANGED <<users, stale, process>>

Finish(r) ==
    /\ pc' = [pc EXCEPT ![r] = "idle"]
    /\ id' = [id EXCEPT ![r] = NoRow]
    /\ loaded' = [loaded EXCEPT ![r] = NoRow]

\* First by name among enabled accounts, then the password: a wrong one ends
\* the request with 401 and no change.
LoginLoad(r, u, password) ==
    /\ pc[r] = "idle"
    /\ Live(users[u]) /\ users[u].enabled
    /\ users[u].password = password
    /\ Begin(r, u, "login")

\* Save(&user) with the time of the login; its error is ignored.
LoginSave(r) ==
    /\ pc[r] = "login"
    /\ NameFree(loaded[r].name, id[r])
    /\ users' = [users EXCEPT ![id[r]] = Saved(@, loaded[r])]
    /\ stale' = (stale \cup {s \in Requests : id[s] = id[r]}) \ {r}
    /\ Finish(r)
    /\ UNCHANGED process

UpdateLoadAny(r, u) ==    \* mutant: db.Unscoped().First
    /\ pc[r] = "idle"
    /\ users[u] # NoRow
    /\ Begin(r, u, "update")

UpdateLoad(r, u) ==
    /\ pc[r] = "idle"
    /\ Live(users[u])
    /\ Begin(r, u, "update")

UpdatedVerbatim(row, name, enabled, password) ==    \* mutant: no test for blank
    [row EXCEPT !.name = name, !.enabled = enabled, !.password = password]

UpdatedDefault(row, name, enabled, password) ==    \* mutant: blank is a default
    [row EXCEPT !.name = name, !.enabled = enabled,
                !.password = IF password = Blank THEN CHOOSE p \in Passwords : TRUE
                                                 ELSE password]

\* The loaded row with the fields of the request; a blank password leaves the
\* loaded hash in it.
Updated(row, name, enabled, password) ==
    [row EXCEPT !.name = name, !.enabled = enabled,
                !.password = IF password = Blank THEN @ ELSE password]

UpdateSave(r, name, enabled, password) ==
    /\ pc[r] = "update"
    /\ NameFree(name, id[r])
    /\ users' = [users EXCEPT ![id[r]] =
                    Saved(@, Updated(loaded[r], name, enabled, password))]
    /\ stale' = (stale \cup {s \in Requests : id[s] = id[r]}) \ {r}
    /\ Finish(r)
    /\ UNCHANGED process

\* The body does not bind, or the write of either Save fails.
NotSaved(r) ==
    /\ pc[r] # "idle"
    /\ stale' = stale \ {r}
    /\ Finish(r)
    /\ UNCHANGED <<users, process>>

CreateUser(r, u, name, enabled, password) ==
    /\ pc[r] = "idle"
    /\ users[u] = NoRow
    /\ NameFree(name, u)
    /\ Write(u, Inserted([name |-> name, password |-> password,
                          enabled |-> enabled, deleted |-> FALSE]))
    /\ UNCHANGED <<pc, id, loaded, process>>

DeleteUser(r, u) ==
    /\ pc[r] = "idle"
    /\ Live(users[u])
    /\ Write(u, [users[u] EXCEPT !.deleted = TRUE])
    /\ UNCHANGED <<pc, id, loaded, process>>

----------------------------------------------------------------------------
(* The process *)

Crash ==
    /\ process = "up"
    /\ process' = "down"
    /\ pc' = [r \in Requests |-> "idle"]
    /\ id' = [r \in Requests |-> NoRow]
    /\ loaded' = [r \in Requests |-> NoRow]
    /\ stale' = {}
    /\ UNCHANGED users

\* seedAdmin counts the live accounts; main stops when it returns an error.
StartSeeded ==
    /\ process = "down"
    /\ \E u \in UserIds : Live(users[u])
    /\ process' = "up"
    /\ UNCHANGED <<users, pc, id, loaded, stale>>

StartSeeding(password) ==
    /\ process = "down"
    /\ \A u \in UserIds : ~Live(users[u])
    /\ \E u \in UserIds :
         /\ users[u] = NoRow
         /\ IF NameFree(SeedName, u)
              THEN /\ process' = "up"
                   /\ Write(u, [name |-> SeedName, password |-> password,
                                enabled |-> TRUE, deleted |-> FALSE])
              ELSE process' = "fatal" /\ UNCHANGED <<users, stale>>
    /\ UNCHANGED <<pc, id, loaded>>

RequestStep(r) ==
    \/ \E u \in UserIds :
         \/ \E password \in Passwords : LoginLoad(r, u, password)
         \/ UpdateLoad(r, u)
         \/ \E name \in Names, enabled \in BOOLEAN, password \in Passwords :
              CreateUser(r, u, name, enabled, password)
         \/ DeleteUser(r, u)
    \/ LoginSave(r)
    \/ \E name \in Names, enabled \in BOOLEAN, password \in Passwords \cup {Blank} :
         UpdateSave(r, name, enabled, password)
    \/ NotSaved(r)

Next ==
    \/ process = "up" /\ \E r \in Requests : RequestStep(r)
    \/ Crash
    \/ StartSeeded
    \/ \E password \in Passwords : StartSeeding(password)

Spec == Init /\ [][Next]_vars

----------------------------------------------------------------------------

\* A login records its time and changes no column of any account, and an update
\* with a blank password keeps the password, unless another request wrote the
\* row between the First and the Save of this one: full-row writes lose nothing
\* except to an overlap (service/admin.go:22-35, handler/admin.go:155-188).
LostOnlyToOverlap ==
    [][\A r \in Requests \ stale :
         /\ LoginSave(r) => users' = users
         /\ \A name \in Names, enabled \in BOOLEAN :
              UpdateSave(r, name, enabled, Blank)
              => users'[id[r]].password = users[id[r]].password]_vars

\* A deleted account stays as it was deleted, its password and its name with it,
\* unless a request still holds the row from before the delete: only then does
\* a Save, which upserts, bring it back.
RevivedOnlyByOverlap ==
    [][\A u \in UserIds :
         users[u] # NoRow /\ users[u].deleted /\ users'[u] # users[u]
         => \E r \in stale : id[r] = u]_vars

\* configs/config.yaml:46 says that the configured account is made on the first
\* start only, not when the table has users already: a later start should not
\* fail for trying to make it again.
StartsAgain == process # "fatal"

=============================================================================
