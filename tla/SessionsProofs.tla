--------------------------- MODULE SessionsProofs ---------------------------
(***************************************************************************)
(* Proofs about AdminUsers and Sessions, for every set of requests,        *)
(* accounts, names and passwords and every length of a day.                *)
(*                                                                         *)
(* LoadedIsCurrent ties the row a request holds to the table: unless       *)
(* another request has written that row since, it is the row.  What a Save *)
(* may lose or revive follows from it.  Tokens restrict what the console   *)
(* does, so this holds with them too; Fading says of each token how long   *)
(* its account can have been out of use, and is inductive with the         *)
(* invariant of the accounts.                                              *)
(***************************************************************************)
EXTENDS Sessions, TLAPS

\* An idle request holds no row and is never stale; a running one holds a copy
\* of a row that was live when it was loaded.
Holding ==
    \A r \in Requests :
        \/ pc[r] = "idle" /\ id[r] = NoRow /\ r \notin stale
        \/ /\ pc[r] # "idle"
           /\ id[r] \in UserIds /\ loaded[r] \in UserRow /\ ~loaded[r].deleted

\* A request holds the present row unless another one has written it since.
LoadedIsCurrent ==
    \A r \in Requests :
        pc[r] # "idle" /\ r \notin stale => users[id[r]] = loaded[r]

Inv == TypeOK /\ Holding /\ LoadedIsCurrent

\* What a request writes back is a row, whichever way Save writes it.
LEMMA SavedIsRow ==
    ASSUME NEW old, NEW row \in UserRow
    PROVE  Saved(old, row) \in UserRow
  BY DEF Saved, Inserted, UserRow

LEMMA UpdatedIsRow ==
    ASSUME NEW row \in UserRow, NEW name \in Names, NEW enabled \in BOOLEAN,
           NEW password \in Passwords \cup {Blank}
    PROVE  /\ Updated(row, name, enabled, password) \in UserRow
           /\ Updated(row, name, enabled, password).deleted = row.deleted
  BY UsersAssumption DEF Updated, UserRow

LEMMA InitInv == Init => Inv
  BY DEF Init, Inv, TypeOK, Holding, LoadedIsCurrent

LEMMA BeginKeepsInv ==
    ASSUME Inv, NEW r \in Requests, NEW u \in UserIds,
           NEW what \in {"login", "update"},
           pc[r] = "idle", Live(users[u]), Begin(r, u, what)
    PROVE  Inv'
  <1>1. users[u] \in UserRow /\ ~users[u].deleted
    BY DEF Inv, TypeOK, Live
  <1>2. r \notin stale
    BY DEF Inv, Holding
  <1>3. TypeOK'
    BY <1>1 DEF Inv, TypeOK, Begin
  <1>4. Holding'
    BY <1>1 DEF Inv, TypeOK, Holding, Begin
  <1>5. LoadedIsCurrent'
    BY DEF Inv, TypeOK, LoadedIsCurrent, Begin
  <1> QED BY <1>3, <1>4, <1>5 DEF Inv

LEMMA SaveKeepsInv ==
    ASSUME Inv, NEW r \in Requests, pc[r] # "idle",
           NEW row \in UserRow,
           users' = [users EXCEPT ![id[r]] = row],
           stale' = (stale \cup {s \in Requests : id[s] = id[r]}) \ {r},
           Finish(r), process' = process
    PROVE  Inv'
  <1>1. TypeOK'
    BY DEF Inv, TypeOK, Finish
  <1>2. Holding'
    BY UsersAssumption DEF Inv, TypeOK, Holding, Finish
  <1>3. LoadedIsCurrent'
    BY DEF Inv, TypeOK, Holding, LoadedIsCurrent, Finish
  <1> QED BY <1>1, <1>2, <1>3 DEF Inv

LEMMA WriteKeepsInv ==
    ASSUME Inv, NEW u \in UserIds, NEW row \in UserRow, Write(u, row),
           UNCHANGED <<pc, id, loaded>>, process' \in {"down", "up", "fatal"}
    PROVE  Inv'
  <1>1. TypeOK'
    BY DEF Inv, TypeOK, Write
  <1>2. Holding'
    BY UsersAssumption DEF Inv, TypeOK, Holding, Write
  <1>3. LoadedIsCurrent'
    BY DEF Inv, TypeOK, Holding, LoadedIsCurrent, Write
  <1> QED BY <1>1, <1>2, <1>3 DEF Inv

LEMMA NextInv == Inv /\ [Next]_vars => Inv'
  <1> SUFFICES ASSUME Inv, [Next]_vars PROVE Inv'
    OBVIOUS
  <1> USE DEF Inv
  <1>1. ASSUME NEW r \in Requests, NEW u \in UserIds, NEW password \in Passwords,
               LoginLoad(r, u, password)
        PROVE  Inv'
    BY <1>1, BeginKeepsInv DEF LoginLoad
  <1>2. ASSUME NEW r \in Requests, NEW u \in UserIds, UpdateLoad(r, u)
        PROVE  Inv'
    BY <1>2, BeginKeepsInv DEF UpdateLoad
  <1>3. ASSUME NEW r \in Requests, NEW u \in UserIds, NEW name \in Names,
               NEW enabled \in BOOLEAN, NEW password \in Passwords,
               CreateUser(r, u, name, enabled, password)
        PROVE  Inv'
    <2> DEFINE row == Inserted([name |-> name, password |-> password,
                                enabled |-> enabled, deleted |-> FALSE])
    <2>1. row \in UserRow
      BY DEF Inserted, UserRow
    <2>2. Write(u, row) /\ UNCHANGED <<pc, id, loaded, process>>
      BY <1>3 DEF CreateUser
    <2>3. process' \in {"down", "up", "fatal"}
      BY <2>2 DEF TypeOK
    <2> HIDE DEF row
    <2> QED BY <2>1, <2>2, <2>3, WriteKeepsInv
  <1>4. ASSUME NEW r \in Requests, NEW u \in UserIds, DeleteUser(r, u)
        PROVE  Inv'
    <2>1. [users[u] EXCEPT !.deleted = TRUE] \in UserRow
      BY <1>4 DEF DeleteUser, Live, TypeOK, UserRow
    <2>2. process' \in {"down", "up", "fatal"}
      BY <1>4 DEF DeleteUser, TypeOK
    <2> QED BY <1>4, <2>1, <2>2, WriteKeepsInv DEF DeleteUser
  <1>5. ASSUME NEW r \in Requests, LoginSave(r) PROVE Inv'
    <2>1. id[r] \in UserIds /\ loaded[r] \in UserRow /\ pc[r] # "idle"
      BY <1>5 DEF LoginSave, Holding
    <2>2. users' = [users EXCEPT ![id[r]] = Saved(users[id[r]], loaded[r])]
      BY <1>5 DEF LoginSave
    <2> QED BY <1>5, <2>1, <2>2, SavedIsRow, SaveKeepsInv DEF LoginSave
  <1>6. ASSUME NEW r \in Requests, NEW name \in Names, NEW enabled \in BOOLEAN,
               NEW password \in Passwords \cup {Blank},
               UpdateSave(r, name, enabled, password)
        PROVE  Inv'
    <2> DEFINE row == Saved(users[id[r]], Updated(loaded[r], name, enabled, password))
    <2>1. loaded[r] \in UserRow /\ pc[r] # "idle"
      BY <1>6 DEF UpdateSave, Holding
    <2>2. row \in UserRow
      BY <2>1, UpdatedIsRow, SavedIsRow
    <2>3. users' = [users EXCEPT ![id[r]] = row]
      BY <1>6 DEF UpdateSave
    <2> HIDE DEF row
    <2> QED BY <1>6, <2>1, <2>2, <2>3, SaveKeepsInv DEF UpdateSave
  <1>7. ASSUME NEW r \in Requests, NotSaved(r) PROVE Inv'
    <2>1. TypeOK'
      BY <1>7 DEF NotSaved, Finish, TypeOK
    <2>2. Holding'
      BY <1>7 DEF NotSaved, Finish, TypeOK, Holding
    <2>3. LoadedIsCurrent'
      BY <1>7 DEF NotSaved, Finish, TypeOK, LoadedIsCurrent
    <2> QED BY <2>1, <2>2, <2>3
  <1>8. CASE Crash
    BY <1>8 DEF Crash, TypeOK, Holding, LoadedIsCurrent
  <1>9. CASE StartSeeded
    BY <1>9 DEF StartSeeded, TypeOK, Holding, LoadedIsCurrent
  <1>10. ASSUME NEW password \in Passwords, StartSeeding(password) PROVE Inv'
    <2> DEFINE row == [name |-> SeedName, password |-> password,
                       enabled |-> TRUE, deleted |-> FALSE]
    <2>1. row \in UserRow
      BY UsersAssumption DEF UserRow
    <2>2. UNCHANGED <<pc, id, loaded>> /\ process' \in {"up", "fatal"}
      BY <1>10 DEF StartSeeding
    <2>3. \/ \E u \in UserIds : Write(u, row)
          \/ UNCHANGED <<users, stale>>
      BY <1>10 DEF StartSeeding
    <2>4. CASE UNCHANGED <<users, stale>>
      BY <2>2, <2>4 DEF TypeOK, Holding, LoadedIsCurrent
    <2> HIDE DEF row
    <2> QED BY <2>1, <2>2, <2>3, <2>4, WriteKeepsInv
  <1>11. CASE UNCHANGED vars
    BY <1>11 DEF vars, TypeOK, Holding, LoadedIsCurrent
  <1> QED
    BY <1>1, <1>2, <1>3, <1>4, <1>5, <1>6, <1>7, <1>8, <1>9, <1>10, <1>11
    DEF Next, RequestStep

\* Every variable keeps its type (database.go, admin.go).
THEOREM TypeCorrect == Spec => []TypeOK
  <1>1. Inv => TypeOK
    BY DEF Inv
  <1> QED BY InitInv, NextInv, <1>1, PTL DEF Spec

\* A Save of a request that no other one has overtaken loses nothing: a login
\* leaves every account as it was, an update without a password keeps the
\* password (service/admin.go:22-35, handler/admin.go:155-188).
THEOREM OnlyOverlapLoses == Spec => LostOnlyToOverlap
  <1> DEFINE Keeps ==
        \A r \in Requests \ stale :
          /\ LoginSave(r) => users' = users
          /\ \A name \in Names, enabled \in BOOLEAN :
               UpdateSave(r, name, enabled, Blank)
               => users'[id[r]].password = users[id[r]].password
  <1>1. ASSUME Inv PROVE Keeps
    <2> SUFFICES ASSUME NEW r \in Requests \ stale PROVE
          /\ LoginSave(r) => users' = users
          /\ \A name \in Names, enabled \in BOOLEAN :
               UpdateSave(r, name, enabled, Blank)
               => users'[id[r]].password = users[id[r]].password
      OBVIOUS
    <2>1. ASSUME pc[r] # "idle"
          PROVE  /\ users[id[r]] = loaded[r] /\ id[r] \in UserIds
                 /\ loaded[r] \in UserRow /\ Live(users[id[r]])
      BY <1>1, <2>1, UsersAssumption DEF Inv, Holding, LoadedIsCurrent, Live
    <2>2. LoginSave(r) => users' = users
      BY <1>1, <2>1 DEF LoginSave, Saved, Inv, TypeOK
    <2>3. ASSUME NEW name \in Names, NEW enabled \in BOOLEAN,
                 UpdateSave(r, name, enabled, Blank)
          PROVE  users'[id[r]].password = users[id[r]].password
      <3>1. users' = [users EXCEPT ![id[r]] = Updated(loaded[r], name, enabled, Blank)]
        BY <2>1, <2>3 DEF UpdateSave, Saved
      <3>2. Updated(loaded[r], name, enabled, Blank).password = loaded[r].password
        BY <2>1, <2>3 DEF Updated, UpdateSave, UserRow
      <3> QED BY <1>1, <2>1, <2>3, <3>1, <3>2 DEF UpdateSave, Inv, TypeOK
    <2> QED BY <2>2, <2>3
  <1>2. Inv => [Keeps]_vars
    BY <1>1
  <1> HIDE DEF Keeps
  <1>3. Spec => [][Keeps]_vars
    BY InitInv, NextInv, <1>2, PTL DEF Spec
  <1> QED BY <1>3 DEF LostOnlyToOverlap, Keeps

\* A deleted account changes only by the Save of a request that loaded it
\* before the delete (handler/admin.go:155-197).
THEOREM OnlyOverlapRevives == Spec => RevivedOnlyByOverlap
  <1> DEFINE Revives ==
        \A u \in UserIds :
          users[u] # NoRow /\ users[u].deleted /\ users'[u] # users[u]
          => \E r \in stale : id[r] = u
  <1>1. ASSUME Inv, Next PROVE Revives
    <2> SUFFICES ASSUME NEW u \in UserIds,
                        users[u] # NoRow, users[u].deleted, users'[u] # users[u]
                 PROVE  \E r \in stale : id[r] = u
      OBVIOUS
    <2>1. ASSUME NEW r \in Requests, pc[r] # "idle", id[r] = u
          PROVE  r \in stale
      BY <1>1, <2>1 DEF Inv, Holding, LoadedIsCurrent
    <2>2. ASSUME NEW r \in Requests, RequestStep(r) PROVE \E s \in stale : id[s] = u
      <3>1. CASE LoginSave(r)
        BY <1>1, <2>1, <3>1 DEF LoginSave, Inv, TypeOK
      <3>2. CASE \E name \in Names, enabled \in BOOLEAN,
                    password \in Passwords \cup {Blank} :
                    UpdateSave(r, name, enabled, password)
        BY <1>1, <2>1, <3>2 DEF UpdateSave, Inv, TypeOK
      <3>3. CASE \E v \in UserIds : DeleteUser(r, v)
        BY <1>1, <3>3 DEF DeleteUser, Live, Write, Inv, TypeOK
      <3>4. CASE \E v \in UserIds, name \in Names, enabled \in BOOLEAN,
                    password \in Passwords :
                    CreateUser(r, v, name, enabled, password)
        BY <1>1, <3>4 DEF CreateUser, Write, Inv, TypeOK
      <3>5. CASE users' = users
        BY <3>5
      <3> QED
        BY <2>2, <3>1, <3>2, <3>3, <3>4, <3>5
        DEF RequestStep, LoginLoad, UpdateLoad, NotSaved, Begin
    <2>3. CASE Crash \/ StartSeeded
      BY <2>3 DEF Crash, StartSeeded
    <2>4. CASE \E password \in Passwords : StartSeeding(password)
      BY <1>1, <2>4 DEF StartSeeding, Write, Inv, TypeOK
    <2> QED BY <1>1, <2>2, <2>3, <2>4 DEF Next
  <1>2. Inv /\ [Next]_vars => [Revives]_vars
    BY <1>1
  <1> HIDE DEF Revives
  <1>3. Spec => [][Revives]_vars
    BY InitInv, NextInv, <1>2, PTL DEF Spec
  <1> QED BY <1>3 DEF RevivedOnlyByOverlap, Revives

----------------------------------------------------------------------------
(* Sessions *)

\* A login that runs has loaded an enabled account.
LoginsLoadEnabled ==
    \A r \in Requests : pc[r] = "login" => loaded[r].enabled

\* No token outlasts one issued now; and one that was issued for the account as
\* it was then outlasts its account by a day at most.
Fading ==
    \A t \in tokens :
        /\ t.expires <= now + Day
        /\ \/ t.overtaken
           \/ Usable(users[t.user])
           \/ t.expires <= ended[t.user] + Day

SInv == STypeOK /\ Inv /\ LoginsLoadEnabled /\ Fading

LEMMA SessionsStep == [SNext]_svars => [Next]_vars
  <1> SUFFICES ASSUME [SNext]_svars PROVE [Next]_vars
    OBVIOUS
  <1>1. ASSUME process = "up", NEW r \in Requests,
               LoginEnds(r) \/ Enter(r) \/ GoOn(r)
        PROVE  Next
    <2>1. RequestStep(r)
      BY <1>1 DEF LoginEnds, Enter, GoOn, RequestStep
    <2> QED BY <1>1, <2>1 DEF Next
  <1>2. CASE ProcessStep
    BY <1>2 DEF ProcessStep, Next
  <1>3. CASE Tick \/ UNCHANGED svars
    BY <1>3 DEF Tick, svars
  <1> QED BY <1>1, <1>2, <1>3 DEF SNext

\* With tokens in front of its handlers the console still behaves as AdminUsers
\* says, so that OnlyOverlapLoses and OnlyOverlapRevives hold of it.
THEOREM SessionsKeepAccounts == SSpec => Spec
  BY SessionsStep, PTL DEF SSpec, Spec, SInit

LEMMA InitSInv == SInit => SInv
  BY InitInv, SessionsAssumption
  DEF SInit, SInv, STypeOK, Init, Inv, LoginsLoadEnabled, Fading

\* Who is in a login has begun it with LoginLoad or was in it before.
LEMMA NextLoginsLoadEnabled ==
    ASSUME Inv, LoginsLoadEnabled, [Next]_vars
    PROVE  LoginsLoadEnabled'
  <1> USE DEF LoginsLoadEnabled, Inv, TypeOK
  <1>1. ASSUME NEW r \in Requests, RequestStep(r) PROVE LoginsLoadEnabled'
    BY <1>1 DEF RequestStep, LoginLoad, LoginSave, UpdateLoad, UpdateSave,
                NotSaved, CreateUser, DeleteUser, Begin, Finish
  <1>2. CASE UNCHANGED vars
    BY <1>2 DEF vars
  <1>3. CASE Crash \/ StartSeeded \/ \E password \in Passwords : StartSeeding(password)
    BY <1>3 DEF Crash, StartSeeded, StartSeeding
  <1> QED BY <1>1, <1>2, <1>3 DEF Next

\* A login that no other request has overtaken leaves its account usable.
LEMMA LoginLeavesUsable ==
    ASSUME SInv, NEW r \in Requests, LoginEnds(r), r \notin stale
    PROVE  /\ id[r] \in UserIds
           /\ Usable(users'[id[r]])
  <1> USE DEF SInv, Inv
  <1>1. /\ id[r] \in UserIds /\ users[id[r]] = loaded[r]
        /\ loaded[r] \in UserRow /\ Usable(loaded[r])
    BY UsersAssumption
    DEF LoginEnds, Holding, LoadedIsCurrent, LoginsLoadEnabled, Usable, Live
  <1>2. CASE LoginSave(r)
    BY <1>1, <1>2 DEF LoginSave, Saved, Usable, TypeOK
  <1>3. CASE NotSaved(r)
    BY <1>1, <1>3 DEF NotSaved
  <1> QED BY <1>1, <1>2, <1>3 DEF LoginEnds

\* An account that a step makes unusable ends now, when no token of it can be
\* good for more than a day; of any other one the end stays what it was.
LEMMA OldTokensFade ==
    ASSUME SInv, NoteEnded, NEW t \in tokens
    PROVE  /\ t.expires <= now' + Day
           /\ \/ t.overtaken
              \/ Usable(users'[t.user])
              \/ t.expires <= ended'[t.user] + Day
  <1>1. /\ t.user \in UserIds /\ t.expires \in Nat
        /\ now \in Nat /\ now' = now
        /\ ended[t.user] \in Nat
    BY SessionsAssumption DEF SInv, STypeOK, Token, NoteEnded
  <1>2. ended'[t.user] = IF Usable(users[t.user]) /\ ~Usable(users'[t.user])
                         THEN now ELSE ended[t.user]
    BY <1>1 DEF NoteEnded
  <1>3. t.expires <= now + Day
    BY DEF SInv, Fading
  <1>4. t.overtaken \/ Usable(users[t.user]) \/ t.expires <= ended[t.user] + Day
    BY DEF SInv, Fading
  <1> QED BY <1>1, <1>2, <1>3, <1>4

\* Only the end of a login adds a token.
LEMMA NextTokens ==
    ASSUME SInv, NoteEnded,
           \/ ProcessStep
           \/ \E r \in Requests : LoginEnds(r) \/ Enter(r) \/ GoOn(r)
    PROVE  tokens' \subseteq Token /\ Fading'
  <1>1. CASE UNCHANGED tokens
    BY <1>1, OldTokensFade DEF Fading, SInv, STypeOK
  <1>2. ASSUME NEW r \in Requests, LoginEnds(r)
        PROVE  tokens' \subseteq Token /\ Fading'
    <2> DEFINE new == [user |-> id[r], expires |-> now + Day,
                       overtaken |-> r \in stale]
    <2>1. tokens' = tokens \cup {new}
      BY <1>2 DEF LoginEnds, IssueToken
    <2>2. id[r] \in UserIds /\ now \in Nat /\ now' = now
      BY <1>2, SessionsAssumption
      DEF LoginEnds, SInv, STypeOK, Inv, Holding, NoteEnded
    <2>3. new \in Token
      BY <2>2, SessionsAssumption DEF Token
    <2>4. new.overtaken \/ Usable(users'[new.user])
      BY <1>2, LoginLeavesUsable
    <2>5. new.expires <= now' + Day
      BY <2>2, SessionsAssumption
    <2> HIDE DEF new
    <2> QED BY <2>1, <2>3, <2>4, <2>5, OldTokensFade DEF Fading, SInv, STypeOK
  <1> QED BY <1>1, <1>2 DEF Enter, GoOn, ProcessStep

LEMMA NextSInv == SInv /\ [SNext]_svars => SInv'
  <1> SUFFICES ASSUME SInv, [SNext]_svars PROVE SInv'
    OBVIOUS
  <1>1. Inv' /\ LoginsLoadEnabled'
    BY SessionsStep, NextInv, NextLoginsLoadEnabled DEF SInv
  <1>2. CASE /\ \/ ProcessStep
                \/ \E r \in Requests : LoginEnds(r) \/ Enter(r) \/ GoOn(r)
             /\ NoteEnded
    <2>1. now' \in 0..LastTime /\ ended' \in [UserIds -> 0..LastTime]
      BY <1>2 DEF NoteEnded, SInv, STypeOK
    <2> QED BY <1>1, <1>2, <2>1, NextTokens DEF SInv, STypeOK, Inv
  <1>3. CASE Tick
    <2>1. now' = now + 1 /\ now' \in 0..LastTime /\ UNCHANGED <<vars, tokens, ended>>
      BY <1>3, SessionsAssumption DEF Tick, SInv, STypeOK
    <2>2. Fading'
      <3> SUFFICES ASSUME NEW t \in tokens
                   PROVE  /\ t.expires <= now' + Day
                          /\ \/ t.overtaken
                             \/ Usable(users[t.user])
                             \/ t.expires <= ended[t.user] + Day
        BY <2>1 DEF Fading, vars, Usable, Live
      <3>1. t.expires \in Nat /\ now \in Nat /\ t.expires <= now + Day
        BY SessionsAssumption DEF SInv, STypeOK, Token, Fading
      <3>2. t.expires <= now' + Day
        BY <2>1, <3>1, SessionsAssumption
      <3> QED BY <3>2 DEF SInv, Fading
    <2> QED BY <1>1, <2>1, <2>2 DEF SInv, STypeOK, Inv
  <1>4. CASE UNCHANGED svars
    BY <1>1, <1>4 DEF svars, SInv, STypeOK, Fading, Usable, Live, vars, Inv
  <1> QED BY <1>2, <1>3, <1>4 DEF SNext

\* Types of accounts and tokens.
THEOREM SessionTypes == SSpec => []STypeOK
  <1>1. SInv => STypeOK
    BY DEF SInv
  <1> QED BY InitSInv, NextSInv, <1>1, PTL DEF SSpec

\* For any number of accounts, requests and tokens: more than a day after an
\* account was deleted or disabled, only a token of an overtaken login gets in.
THEOREM TokensFade == SSpec => []AuthorityFades
  <1>1. SInv => AuthorityFades
    <2> SUFFICES ASSUME SInv, NEW t \in tokens, Accepted(t),
                        ~Usable(users[t.user]), ~t.overtaken
                 PROVE  now <= ended[t.user] + Day
      BY DEF AuthorityFades
    <2>1. /\ now \in Nat /\ t.expires \in Nat /\ now <= t.expires
          /\ t.user \in UserIds /\ ended[t.user] \in Nat
      BY SessionsAssumption DEF Accepted, SInv, STypeOK, Token
    <2>2. t.expires <= ended[t.user] + Day
      BY DEF SInv, Fading
    <2> QED BY <2>1, <2>2, SessionsAssumption
  <1> QED BY InitSInv, NextSInv, <1>1, PTL DEF SSpec

=============================================================================
