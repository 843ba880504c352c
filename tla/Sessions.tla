------------------------------ MODULE Sessions ------------------------------
(***************************************************************************)
(* Console sessions: the tokens of internal/service/auth.go, checked by    *)
(* internal/middleware/auth.go in front of the account handlers.           *)
(*                                                                         *)
(* A token names an account and the time it expires, signed with a secret  *)
(* from the configuration, so that it survives a restart.  It is checked   *)
(* when a request arrives and by nothing but signature and expiry: the     *)
(* account is not looked at again.                                         *)
(***************************************************************************)
EXTENDS AdminUsers, FiniteSets

CONSTANTS
    Day,       \* how long a token lasts, 24 hours
    LastTime,  \* bound on the clock
    MaxTokens  \* bound on the tokens issued

ASSUME SessionsAssumption == Day \in Nat /\ LastTime \in Nat

VARIABLES
    now,      \* time.Now().Unix()
    tokens,   \* the tokens ever issued
    ended     \* history: when each account last ceased to be usable, at first 0

svars == <<vars, now, tokens, ended>>

\* overtaken: another request had written the row since the login loaded it.
Token == [user : UserIds, expires : Nat, overtaken : BOOLEAN]

STypeOK ==
    /\ TypeOK
    /\ now \in 0..LastTime
    /\ tokens \subseteq Token
    /\ ended \in [UserIds -> 0..LastTime]

SInit ==
    /\ Init
    /\ now = 0
    /\ tokens = {}
    /\ ended = [u \in UserIds |-> 0]

----------------------------------------------------------------------------

\* An account that Login lets in.
Usable(row) == Live(row) /\ row.enabled

AcceptedForEver(t) == TRUE    \* mutant: Expires is not compared

\* ParseToken rejects what expires before the present second.
Accepted(t) == t.expires >= now

\* AdminAuth, in front of every handler but Login.
AdminAuth == \E t \in tokens : Accepted(t)

IssueToken(r) ==
    /\ Cardinality(tokens) < MaxTokens
    /\ tokens' = tokens \cup {[user |-> id[r], expires |-> now + Day,
                               overtaken |-> r \in stale]}

\* Login issues a token also when its Save has failed.
LoginEnds(r) ==
    /\ pc[r] = "login"
    /\ LoginSave(r) \/ NotSaved(r)
    /\ IssueToken(r)

\* A request of the console comes in with a token.
Enter(r) ==
    /\ AdminAuth
    /\ \E u \in UserIds :
         \/ UpdateLoad(r, u)
         \/ DeleteUser(r, u)
         \/ \E name \in Names, enabled \in BOOLEAN, password \in Passwords :
              CreateUser(r, u, name, enabled, password)
    /\ UNCHANGED tokens

\* No token is checked again after that, nor before a login.
GoOn(r) ==
    /\ \/ pc[r] = "update" /\ NotSaved(r)
       \/ \E name \in Names, enabled \in BOOLEAN, password \in Passwords \cup {Blank} :
            UpdateSave(r, name, enabled, password)
       \/ \E u \in UserIds, password \in Passwords : LoginLoad(r, u, password)
    /\ UNCHANGED tokens

ProcessStep ==
    /\ Crash \/ StartSeeded \/ (\E password \in Passwords : StartSeeding(password))
    /\ UNCHANGED tokens

Tick ==
    /\ now < LastTime
    /\ now' = now + 1
    /\ UNCHANGED <<vars, tokens, ended>>

\* The accounts that a step makes unusable cease to be so now.
NoteEnded ==
    /\ ended' = [u \in UserIds |->
                    IF Usable(users[u]) /\ ~Usable(users'[u]) THEN now
                                                             ELSE ended[u]]
    /\ UNCHANGED now

SNext ==
    \/ /\ \/ process = "up" /\ \E r \in Requests : LoginEnds(r) \/ Enter(r) \/ GoOn(r)
          \/ ProcessStep
       /\ NoteEnded
    \/ Tick

SSpec == SInit /\ [][SNext]_svars

----------------------------------------------------------------------------

\* Deleting or disabling an account ends what it may do within a day, although
\* no token is ever revoked: whoever still gets in more than a day after the
\* account ceased to be usable got the token from a login whose row another
\* request had written meanwhile (middleware/auth.go:18-24,
\* service/admin.go:22-35).
AuthorityFades ==
    \A t \in tokens :
        Accepted(t) /\ ~Usable(users[t.user]) /\ ~t.overtaken
        => now <= ended[t.user] + Day

=============================================================================
