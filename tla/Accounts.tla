------------------------------- MODULE Accounts -------------------------------
(***************************************************************************)
(* The table of users: AuthService (internal/services/auth), its handlers  *)
(* (internal/handlers/auth) and the administrator's CreateUser, UpdateUser *)
(* and DeleteUser (internal/handlers/admin/admin_handler.go).              *)
(*                                                                         *)
(* No operation runs in a transaction.  Each is a sequence of queries that *)
(* checks first and writes later, and every query is a step here, so that  *)
(* requests interleave between them.  Two kinds of write differ: most set  *)
(* some columns of the row with an id, whatever the row is by then;        *)
(* UserRepository.Update saves all the columns of a row read before.  The  *)
(* table has one constraint: no two rows with a password share a cedula.   *)
(*                                                                         *)
(* Refusals, failed queries and panics end a request (Fails).  Left out:   *)
(* names, address and telephone, which only Registro checks; the metadata  *)
(* of the civil registry; the ends of links (1 h) and of sessions (24 h),  *)
(* which take operations away.  The quota is in Quotes.                    *)
(***************************************************************************)
EXTENDS Integers, FiniteSets

CONSTANTS
    Cedulas,    \* as they are stored: one per spelling
    Plain,      \* those that ValidateCedula leaves, of digits only
    Emails, Passwords,
    None,       \* NULL, or the empty string
    Requests,   \* goroutines that serve requests, one after another
    MaxUsers,   \* bound: rows ever created
    MaxTokens,  \* bound: recovery links ever mailed
    MaxBegun    \* bound: requests of more than one query ever begun

ASSUME NoneAssumption == None \notin Cedulas \union Emails \union Passwords \union Int
ASSUME PlainAssumption == Plain \subseteq Cedulas
ASSUME BoundsAssumption == MaxUsers \in Nat /\ MaxTokens \in Nat /\ MaxBegun \in Nat

Ids == 1 .. MaxUsers
Tokens == 1 .. MaxTokens

VARIABLES
    users,      \* the table: users[i] is the row with id i, or NoUser
    nextId,     \* the sequence of users.id
    mailed,     \* recovery links mailed; the last one is the newest
    sessions,   \* ids of the accounts that have been given a session
    req,        \* req[p]: what request p is about and its next step
    begun,      \* requests begun, which MaxBegun bounds
    \* history variables
    blind,      \* requests that may have missed a write: of a row, a cedula or an
                \* e-mail they are about since they began, or of what a failed
                \* lookup did not find
    disturbed,  \* rows that a blind request has written
    unchecked,  \* accounts that hold an e-mail no request has checked
    meant,      \* the table, had each operation only set what it is about
    spent,      \* links with which a password has been set
    unclear,    \* spent links whose clearing failed
    again       \* <<t, i>>: link t has set the password of row i twice, not at once
table == <<users, nextId>>
ghosts == <<blind, disturbed, unchecked, meant>>
links == <<spent, unclear, again>>
vars == <<table, mailed, sessions, req, begun, ghosts, links>>

User == [cedula : Cedulas, email : Emails \union {None},
         password : Passwords \union {None}, activo : BOOLEAN,
         token : Tokens \union {None}]
NoUser == [cedula |-> None, email |-> None, password |-> None, activo |-> FALSE,
           token |-> None]
Row == User \union {NoUser}

Exists(i) == i \in Ids /\ users[i] # NoUser
HasPassword(u) == u.password # None
IsAccount(i) == Exists(i) /\ HasPassword(users[i])

-----------------------------------------------------------------------------
\* The queries of UserRepository.

\* First: the row with the least id.
Least(S) == {i \in S : \A j \in S : i <= j}
First(S) == IF Least(S) = {} THEN None ELSE CHOOSE i \in Least(S) : TRUE

FindByCedula(c) == First({i \in Ids : users[i].cedula = c})
FindByCedulaWithPassword(c) == First({i \in Ids : users[i].cedula = c /\ IsAccount(i)})
FindByEmail(e) == First({i \in Ids : users[i].email = e /\ IsAccount(i)})
ExistsByEmailWithPassword(e) == \E i \in Ids : users[i].email = e /\ IsAccount(i)
FindByResetToken(t) == First({i \in Ids : users[i].token = t})

\* idx_users_cedula_unique.
Conflicts(i, u) ==
    /\ HasPassword(u)
    /\ \E j \in Ids \ {i} : IsAccount(j) /\ users[j].cedula = u.cedula

-----------------------------------------------------------------------------
\* Requests.  An idle one may begin any operation; its first query is part of
\* the step that begins it.

Idle == [step |-> "idle", cedula |-> None, email |-> None, password |-> None,
         id |-> None, row |-> NoUser, token |-> None]

InProgress(p) == req[p].step # "idle"

\* Some lookups take an error for "not found" and go on: missed says that this
\* is how request p goes on.
Reads(p, missed) ==
    /\ blind' = IF missed THEN blind \union {p} ELSE blind
    /\ UNCHANGED <<table, mailed, sessions, disturbed, unchecked, meant, links>>

Begins(p, r, missed) ==
    /\ ~InProgress(p)
    /\ begun < MaxBegun /\ begun' = begun + 1
    /\ req' = [req EXCEPT ![p] = r]
    /\ Reads(p, missed)

Continues(p, step, missed) ==
    /\ req' = [req EXCEPT ![p].step = step] /\ UNCHANGED begun
    /\ Reads(p, missed)

\* What request q is about has to do with the row u of id i.
About(q, i, u) ==
    \/ req[q].id = i
    \/ req[q].cedula = u.cedula /\ u.cedula # None
    \/ req[q].email = u.email /\ u.email # None

\* Request p writes u as the row of id i, where its operation is about making
\* it m, and goes on with its next step, or is done.  A row that a blind
\* request has written is followed no further.
Write(p, i, u, m, next) ==
    /\ ~Conflicts(i, u)
    /\ users' = [users EXCEPT ![i] = u]
    /\ disturbed' = IF p \in blind THEN disturbed \union {i} ELSE disturbed
    /\ meant' = IF i \in disturbed' THEN meant ELSE [meant EXCEPT ![i] = m]
    /\ req' = [req EXCEPT ![p] = next] /\ UNCHANGED begun
    /\ blind' = {q \in Requests :
                    /\ req'[q].step # "idle"
                    /\ \/ q \in blind
                       \/ q # p /\ users[i] # u /\ About(q, i, u)}

\* A request that ends without writing.
Ends(p) ==
    /\ req' = [req EXCEPT ![p] = Idle]
    /\ blind' = blind \ {p}
    /\ UNCHANGED <<table, mailed, sessions, begun, disturbed, unchecked, meant>>

\* Insert: the row gets a new id, and the default of a column that is not set:
\* gorm takes FALSE for not set, and the default of activo is true.
Inserted(u) == [u EXCEPT !.activo = TRUE]

Insert(p, u) ==
    /\ nextId \in Ids
    /\ Write(p, nextId, Inserted(u), Inserted(u), Idle)
    /\ nextId' = nextId + 1

\* Save: all the columns, by id; the row is inserted when it is gone.
Save(p, i, u, m) ==
    /\ Write(p, i, IF Exists(i) THEN u ELSE Inserted(u), m, Idle)
    /\ UNCHANGED nextId

-----------------------------------------------------------------------------
\* VerificarCedula, which changes nothing: what it answers about cedula c when
\* the civil registry answers registry.
Registry == {"valid", "unknown", "offline"}

VerificarCedula(c, registry) ==
    LET i == FindByCedula(c) IN
    [existe |-> i # None,
     tienePassword |-> i # None /\ HasPassword(users[i]),
     error |-> i = None /\ registry = "unknown"]

\* Login, with a cedula of digits only: an account spelt otherwise is not found.
Login(i, pw) ==
    /\ users[i].cedula \in Plain
    /\ i = FindByCedulaWithPassword(users[i].cedula) /\ Exists(i)
    /\ users[i].activo
    /\ users[i].password = pw
    /\ sessions' = sessions \union {i}
    /\ UNCHANGED <<table, mailed, req, begun, ghosts, links>>

-----------------------------------------------------------------------------
\* Registro.

RegistroBegins(p, c, e, pw) ==
    /\ FindByCedulaWithPassword(c) = None
    /\ Begins(p, [Idle EXCEPT !.step = "registro_email", !.cedula = c, !.email = e,
                              !.password = pw], FALSE)

RegistroEmail(p) ==
    /\ req[p].step = "registro_email"
    /\ ~ExistsByEmailWithPassword(req[p].email)
    /\ Continues(p, "registro_find", FALSE)

\* Mutant: a row without password is not looked for.
RegistroNew(p) ==
    /\ req[p].step = "registro_find"
    /\ Continues(p, "registro_create", FALSE)

\* After the civil registry: a row without password is taken over; when there
\* is none, or the lookup fails, a row is created.
RegistroFind(p) ==
    LET i == FindByCedula(req[p].cedula)
        takes == i # None /\ ~HasPassword(users[i]) IN
    /\ req[p].step = "registro_find"
    /\ \/ /\ takes
          /\ req' = [req EXCEPT ![p] = [@ EXCEPT !.step = "registro_save", !.id = i,
                                                 !.row = users[i]]]
          /\ UNCHANGED begun
          /\ Reads(p, FALSE)
       \/ Continues(p, "registro_create", takes)

\* Mutant: the row stays as inactive as it was.
RegisteredInactive(u, r) == [u EXCEPT !.email = r.email, !.password = r.password]

Registered(u, r) ==
    [u EXCEPT !.email = r.email, !.password = r.password, !.activo = TRUE]

RegistroSave(p) ==
    LET r == req[p] IN
    /\ r.step = "registro_save"
    /\ Save(p, r.id, Registered(r.row, r),
            [meant[r.id] EXCEPT !.email = r.email, !.password = r.password,
                                !.activo = TRUE])
    /\ sessions' = sessions \union {r.id}
    /\ UNCHANGED <<mailed, unchecked, links>>

RegistroCreate(p) ==
    /\ req[p].step = "registro_create"
    /\ Insert(p, Registered([NoUser EXCEPT !.cedula = req[p].cedula], req[p]))
    /\ sessions' = sessions \union {nextId}
    /\ UNCHANGED <<mailed, unchecked, links>>

-----------------------------------------------------------------------------
\* EstablecerPassword, for a row without password; the e-mail may be left out.

EstablecerBegins(p, c, e, pw) ==
    LET i == FindByCedula(c) IN
    /\ i # None /\ ~HasPassword(users[i])
    /\ Begins(p, [Idle EXCEPT !.step = IF e = None THEN "establecer_set"
                                       ELSE "establecer_email",
                              !.cedula = c, !.email = e, !.password = pw, !.id = i],
              FALSE)

\* Mutant: the e-mail is not looked up.
EstablecerUnchecked(p) ==
    /\ req[p].step = "establecer_email"
    /\ Continues(p, "establecer_set", FALSE)

EstablecerEmail(p) ==
    /\ req[p].step = "establecer_email"
    /\ Continues(p, "establecer_set", FindByEmail(req[p].email) \notin {None, req[p].id})

\* SetPassword: the columns of the row with the id, if there is one.
WithPassword(u, r) ==
    [u EXCEPT !.password = r.password, !.activo = TRUE,
              !.email = IF r.email = None THEN @ ELSE r.email]

EstablecerSet(p) ==
    LET r == req[p]
        i == r.id IN
    /\ r.step = "establecer_set"
    /\ Exists(i)
    /\ Write(p, i, WithPassword(users[i], r), WithPassword(meant[i], r), Idle)
    /\ sessions' = sessions \union {i}
    /\ unchecked' = IF r.email = None THEN unchecked \union {i} ELSE unchecked
    /\ UNCHANGED <<nextId, mailed, links>>

-----------------------------------------------------------------------------
\* UpdateProfile, with a session.

PerfilBegins(p, i, e) ==
    /\ i \in sessions
    /\ Begins(p, [Idle EXCEPT !.step = "perfil_update", !.email = e, !.id = i],
              FindByEmail(e) \notin {None, i})

PerfilUpdate(p) ==
    LET r == req[p]
        i == r.id IN
    /\ r.step = "perfil_update"
    /\ Exists(i)
    /\ Write(p, i, [users[i] EXCEPT !.email = r.email],
             [meant[i] EXCEPT !.email = r.email], Idle)
    /\ UNCHANGED <<nextId, mailed, sessions, unchecked, links>>

-----------------------------------------------------------------------------
\* SolicitarRecuperacion: a new link each time, for an account with an e-mail.

RecuperarBegins(p, c) ==
    LET i == FindByCedulaWithPassword(c) IN
    /\ i # None /\ users[i].email # None
    /\ Begins(p, [Idle EXCEPT !.step = "recuperar_set", !.id = i], FALSE)

RecuperarSet(p) ==
    LET i == req[p].id
        t == mailed + 1 IN
    /\ req[p].step = "recuperar_set"
    /\ Exists(i)
    /\ t \in Tokens
    /\ Write(p, i, [users[i] EXCEPT !.token = t], [meant[i] EXCEPT !.token = t], Idle)
    /\ mailed' = t
    /\ UNCHANGED <<nextId, sessions, unchecked, links>>

-----------------------------------------------------------------------------
\* ResetPassword: find the link, set the password, clear the link.

ResetBegins(p, t, pw) ==
    LET i == FindByResetToken(t) IN
    /\ i # None
    /\ Begins(p, [Idle EXCEPT !.step = "reset_set", !.password = pw, !.id = i,
                              !.token = t], FALSE)

Clearing(t) == \E q \in Requests : req[q].step = "reset_clear" /\ req[q].token = t

ResetSet(p) ==
    LET r == req[p]
        i == r.id IN
    /\ r.step = "reset_set"
    /\ Exists(i)
    /\ Write(p, i, [users[i] EXCEPT !.password = r.password],
             [meant[i] EXCEPT !.password = r.password], [r EXCEPT !.step = "reset_clear"])
    /\ again' = IF r.token \in spent /\ p \notin blind /\ ~Clearing(r.token)
                THEN again \union {<<r.token, i>>} ELSE again
    /\ spent' = spent \union {r.token}
    /\ UNCHANGED <<nextId, mailed, sessions, unchecked, unclear>>

\* ClearPasswordResetToken, whatever link the row has by now.  It is the link
\* of this request that is meant.
Unlinked(u, t) == [u EXCEPT !.token = IF @ = t THEN None ELSE @]

\* Mutant: the link is left to expire.
ResetForgotten(p) ==
    LET r == req[p]
        i == r.id IN
    /\ r.step = "reset_clear"
    /\ Exists(i)
    /\ Write(p, i, users[i], meant[i], Idle)
    /\ UNCHANGED <<nextId, mailed, sessions, unchecked, links>>

ResetClear(p) ==
    LET r == req[p]
        i == r.id IN
    /\ r.step = "reset_clear"
    /\ Exists(i)
    /\ Write(p, i, [users[i] EXCEPT !.token = None], Unlinked(meant[i], r.token), Idle)
    /\ UNCHANGED <<nextId, mailed, sessions, unchecked, links>>

-----------------------------------------------------------------------------
\* CambiarPassword, with a session and the current password.

CambiarBegins(p, i, pw, new) ==
    /\ i \in sessions /\ Exists(i)
    /\ users[i].password = pw
    /\ Begins(p, [Idle EXCEPT !.step = "cambiar_set", !.password = new, !.id = i], FALSE)

CambiarSet(p) ==
    LET r == req[p]
        i == r.id IN
    /\ r.step = "cambiar_set"
    /\ Exists(i)
    /\ Write(p, i, [users[i] EXCEPT !.password = r.password],
             [meant[i] EXCEPT !.password = r.password], Idle)
    /\ UNCHANGED <<nextId, mailed, sessions, unchecked, links>>

-----------------------------------------------------------------------------
\* The administrator's CreateUser, UpdateUser and DeleteUser.  A cedula is
\* stored as he spells it.

CreateUserBegins(p, c, e, pw) ==
    Begins(p, [Idle EXCEPT !.step = "create_user", !.cedula = c, !.email = e,
                           !.password = pw],
           FindByCedula(c) # None)

CreateUser(p) ==
    LET r == req[p] IN
    /\ r.step = "create_user"
    /\ Insert(p, [NoUser EXCEPT !.cedula = r.cedula, !.email = r.email,
                                !.password = r.password])
    /\ unchecked' = unchecked \union {nextId}
    /\ UNCHANGED <<mailed, sessions, links>>

UpdateUserBegins(p, i) ==
    /\ Exists(i)
    /\ Begins(p, [Idle EXCEPT !.step = "update_user", !.id = i, !.row = users[i]], FALSE)

\* What the administrator's form changes in a row.
Edits(u) ==
    {[u EXCEPT !.email = e] : e \in Emails}
        \union {[u EXCEPT !.password = pw] : pw \in Passwords}
        \union {[u EXCEPT !.activo = a] : a \in BOOLEAN}

EditedAs(u, old, new) ==
    [f \in DOMAIN u |-> IF new[f] # old[f] THEN new[f] ELSE u[f]]

UpdateUser(p) ==
    LET r == req[p] IN
    /\ r.step = "update_user"
    /\ \E new \in Edits(r.row) :
        /\ Save(p, r.id, new, EditedAs(meant[r.id], r.row, new))
        /\ unchecked' = IF new.email # r.row.email \/ ~HasPassword(r.row)
                        THEN unchecked \union {r.id} ELSE unchecked
    /\ UNCHANGED <<mailed, sessions, links>>

DeleteUser(p, i) ==
    /\ ~InProgress(p)
    /\ Exists(i)
    /\ Write(p, i, NoUser, NoUser, Idle)
    /\ UNCHANGED <<nextId, mailed, sessions, unchecked, links>>

-----------------------------------------------------------------------------
\* A request is refused, one of its queries fails, the row it updates is gone,
\* or the server restarts.
Fails(p) ==
    /\ InProgress(p)
    /\ Ends(p)
    /\ unclear' = IF req[p].step = "reset_clear"
                  THEN unclear \union {req[p].token} ELSE unclear
    /\ UNCHANGED <<spent, again>>

\* The table before: cedulas in digits and none twice, no e-mail of two
\* accounts, no links.
CleanTables ==
    {t \in [Ids -> {NoUser} \union
                   {u \in User : u.cedula \in Plain /\ u.token = None /\ u.activo}] :
        \A i, j \in Ids :
            /\ t[j] # NoUser /\ i < j => t[i] # NoUser
            /\ t[i] # NoUser /\ t[j] # NoUser /\ i # j =>
                /\ t[i].cedula # t[j].cedula
                /\ t[i].email # t[j].email \/ ~HasPassword(t[i]) \/ ~HasPassword(t[j])}

Init ==
    /\ users \in CleanTables
    /\ nextId = Cardinality({i \in Ids : users[i] # NoUser}) + 1
    /\ mailed = 0 /\ begun = 0
    /\ sessions = {}
    /\ req = [p \in Requests |-> Idle]
    /\ blind = {} /\ disturbed = {} /\ unchecked = {}
    /\ meant = users
    /\ spent = {} /\ unclear = {} /\ again = {}

Registro(p) ==
    \/ \E c \in Plain, e \in Emails, pw \in Passwords : RegistroBegins(p, c, e, pw)
    \/ RegistroEmail(p) \/ RegistroFind(p) \/ RegistroSave(p) \/ RegistroCreate(p)

EstablecerPassword(p) ==
    \/ \E c \in Plain, e \in Emails \union {None}, pw \in Passwords :
            EstablecerBegins(p, c, e, pw)
    \/ EstablecerEmail(p) \/ EstablecerSet(p)

UpdateProfile(p) ==
    \/ \E i \in Ids, e \in Emails : PerfilBegins(p, i, e)
    \/ PerfilUpdate(p)

SolicitarRecuperacion(p) ==
    \/ \E c \in Plain : RecuperarBegins(p, c)
    \/ RecuperarSet(p)

ResetPassword(p) ==
    \/ \E t \in Tokens, pw \in Passwords : ResetBegins(p, t, pw)
    \/ ResetSet(p) \/ ResetClear(p)

CambiarPassword(p) ==
    \/ \E i \in Ids, pw, new \in Passwords : CambiarBegins(p, i, pw, new)
    \/ CambiarSet(p)

Administrator(p) ==
    \/ \E c \in Cedulas, e \in Emails \union {None}, pw \in Passwords \union {None} :
            CreateUserBegins(p, c, e, pw)
    \/ CreateUser(p)
    \/ \E i \in Ids : UpdateUserBegins(p, i) \/ DeleteUser(p, i)
    \/ UpdateUser(p)

Next ==
    \/ \E i \in Ids, pw \in Passwords : Login(i, pw)
    \/ \E p \in Requests :
        \/ Registro(p) \/ EstablecerPassword(p) \/ UpdateProfile(p)
        \/ SolicitarRecuperacion(p) \/ ResetPassword(p) \/ CambiarPassword(p)
        \/ Administrator(p)
        \/ Fails(p)

Spec == Init /\ [][Next]_vars

-----------------------------------------------------------------------------
Steps == {"idle", "registro_email", "registro_find", "registro_save", "registro_create",
          "establecer_email", "establecer_set", "perfil_update", "recuperar_set",
          "reset_set", "reset_clear", "cambiar_set", "create_user", "update_user"}

Request == [step : Steps, cedula : Cedulas \union {None}, email : Emails \union {None},
            password : Passwords \union {None}, id : Ids \union {None}, row : Row,
            token : Tokens \union {None}]

\* Every variable has its type.
TypeOK ==
    /\ users \in [Ids -> Row] /\ meant \in [Ids -> Row]
    /\ nextId \in Nat \ {0} /\ mailed \in Nat /\ begun \in Nat
    /\ sessions \subseteq Ids
    /\ req \in [Requests -> Request]
    /\ blind \subseteq Requests
    /\ disturbed \subseteq Ids /\ unchecked \subseteq Ids
    /\ spent \subseteq Tokens /\ unclear \subseteq Tokens /\ again \subseteq Tokens \X Ids

\* A cedula has one account at most, however registrations, takeovers and the
\* administrator's saves overlap.
OneAccountPerCedula ==
    \A i, j \in Ids : IsAccount(i) /\ IsAccount(j) /\ users[i].cedula = users[j].cedula
                        => i = j

\* VerificarCedula, from which the page chooses between logging in, setting a
\* password and registering, knows every account whose cedula is spelt in digits
\* only: a row without password hides it only if one of the rows of that cedula
\* was written by a blind request.
AccountRecognised ==
    \A i \in Ids : IsAccount(i) /\ users[i].cedula \in Plain =>
        \/ \A registry \in Registry :
                VerificarCedula(users[i].cedula, registry).tienePassword
        \/ \E j \in disturbed : users[j].cedula = users[i].cedula

\* Two accounts share an e-mail only if a blind request has written one of them
\* or if nobody checked it: the administrator's forms do not, nor does setting
\* a password when the e-mail is left as the administrator wrote it.
EmailsDistinct ==
    \A i, j \in Ids :
        /\ IsAccount(i) /\ IsAccount(j) /\ i # j
        /\ users[i].email = users[j].email /\ users[i].email # None
        => {i, j} \intersect (disturbed \union unchecked) # {}

\* Nobody's last word is lost: every row is what the operations, each setting
\* only what it is about, have made of it, and a deleted row stays deleted,
\* but for rows that a blind request has written.
LastWordStands ==
    \A i \in Ids : i \in disturbed \/ users[i] = meant[i]

\* A recovery link sets one password, unless two requests used it at once, its
\* clearing failed, or a blind request has written the row.
LinkWorksOnce ==
    \A a \in again : a[1] \in unclear \/ a[2] \in disturbed
=============================================================================
