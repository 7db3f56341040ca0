---------------------------- MODULE Accounts_proofs ----------------------------
(***************************************************************************)
(* Proofs about Accounts, for any number of rows, requests and links.      *)
(***************************************************************************)
EXTENDS Accounts, FiniteSetTheorems, WellFoundedInduction, TLAPS

USE NoneAssumption, BoundsAssumption DEF Ids, Tokens

\* First finds one of the rows, or none.
LEMMA FirstFinds ==
    ASSUME NEW S \in SUBSET Ids
    PROVE  First(S) \in S \union {None}
    BY DEF First, Least

\* What the finders return.
LEMMA Finders ==
    ASSUME NEW c, NEW e, NEW t
    PROVE  /\ FindByCedula(c) \in Ids \union {None}
           /\ FindByCedula(c) # None => users[FindByCedula(c)].cedula = c
           /\ FindByCedulaWithPassword(c) \in Ids \union {None}
           /\ FindByCedulaWithPassword(c) # None =>
                /\ IsAccount(FindByCedulaWithPassword(c))
                /\ users[FindByCedulaWithPassword(c)].cedula = c
           /\ FindByResetToken(t) \in Ids \union {None}
           /\ FindByResetToken(t) # None => users[FindByResetToken(t)].token = t
<1> DEFINE A == {i \in Ids : users[i].cedula = c}
           B == {i \in Ids : users[i].cedula = c /\ IsAccount(i)}
           T == {i \in Ids : users[i].token = t}
<1>1. First(A) \in A \union {None} /\ First(B) \in B \union {None}
        /\ First(T) \in T \union {None}
    BY FirstFinds
<1> QED
    BY <1>1 DEF FindByCedula, FindByCedulaWithPassword, FindByResetToken

\* Setting columns of a row that is there leaves it a row.
LEMMA SetColumns ==
    ASSUME NEW u \in User, NEW e \in Emails \union {None},
           NEW pw \in Passwords \union {None}, NEW a \in BOOLEAN,
           NEW t \in Tokens \union {None}
    PROVE  /\ [u EXCEPT !.email = e] \in User
           /\ [u EXCEPT !.password = pw] \in User
           /\ [u EXCEPT !.activo = a] \in User
           /\ [u EXCEPT !.token = t] \in User
           /\ [u EXCEPT !.email = e, !.password = pw, !.activo = a] \in User
    BY DEF User

LEMMA IdleType == Idle \in Request /\ NoUser \in Row /\ Idle.step = "idle"
    BY DEF Idle, Request, Steps, Row, NoUser

\* A row that exists is a user, and NoUser is none.
LEMMA ExistsUser ==
    ASSUME TypeOK, NEW i, Exists(i)
    PROVE  i \in Ids /\ users[i] \in User
    BY DEF TypeOK, Exists, Row

-----------------------------------------------------------------------------
(***************************************************************************)
(* The inductive invariant.  A row that no blind request has written is     *)
(* what was meant; the row a request has read, and the link it was found   *)
(* by, are still those of the table, unless the request is blind.           *)
(***************************************************************************)
Reading == {"registro_save", "update_user"}
Linked == {"reset_set", "reset_clear"}
Creating == {"registro_email", "registro_find", "registro_create", "create_user"}

RowRead(p) ==
    req[p].step \in Reading =>
        /\ req[p].id \in Ids /\ req[p].row \in User
        /\ p \in blind \/ users[req[p].id] = req[p].row

LinkFound(p) ==
    req[p].step \in Linked =>
        /\ req[p].token \in Tokens
        /\ p \in blind \/ users[req[p].id].token = req[p].token

CedulaGiven(p) ==
    req[p].step \in Creating => req[p].cedula \in Cedulas

RequestsInv == \A p \in Requests : RowRead(p) /\ LinkFound(p) /\ CedulaGiven(p)

IInv == TypeOK /\ LastWordStands /\ RequestsInv

\* A write of a row that means that row, unless it is blind, preserves the
\* invariant.
LEMMA WriteRows ==
    ASSUME IInv, NEW p \in Requests, NEW i \in Ids, NEW u \in Row, NEW m,
           NEW next \in Request, Write(p, i, u, m, next),
           p \notin blind /\ i \notin disturbed => m = u,
           next = Idle \/ (next.step = "reset_clear" /\ next.id = i /\ next.token \in Tokens
                            /\ (p \in blind \/ u.token = next.token))
    PROVE  /\ users' \in [Ids -> Row] /\ meant' \in [Ids -> Row]
           /\ req' \in [Requests -> Request]
           /\ blind' \subseteq Requests /\ disturbed' \subseteq Ids
           /\ begun' \in Nat
           /\ LastWordStands'
           /\ RequestsInv'
<1>1. /\ users' \in [Ids -> Row] /\ req' \in [Requests -> Request]
      /\ blind' \subseteq Requests /\ disturbed' \subseteq Ids
      /\ begun' \in Nat
    BY DEF IInv, TypeOK, Write
<1>2. i \in disturbed' \/ (m = u /\ m \in Row)
    BY DEF Write
<1>3. meant' \in [Ids -> Row]
    BY <1>2 DEF IInv, TypeOK, Write
<1>4. LastWordStands'
    BY <1>2 DEF IInv, TypeOK, Write, LastWordStands
<1>5. ASSUME NEW q \in Requests, q # p
      PROVE  RowRead(q)' /\ LinkFound(q)' /\ CedulaGiven(q)'
    <2>1. req'[q] = req[q]
        BY <1>5 DEF IInv, TypeOK, Write
    <2>2. req[q].step \in Reading \union Linked /\ q \notin blind'
            => q \notin blind /\ users'[req[q].id] = users[req[q].id]
        BY <2>1, <1>5 DEF IInv, TypeOK, Write, About, Reading, Linked
    <2> QED
        BY <2>1, <2>2 DEF IInv, RequestsInv, RowRead, LinkFound, CedulaGiven, Reading, Linked
<1>6. RowRead(p)' /\ LinkFound(p)' /\ CedulaGiven(p)'
    <2>1. req'[p] = next /\ users'[i] = u
        BY DEF IInv, TypeOK, Write
    <2>2. p \in blind /\ next.step # "idle" => p \in blind'
        BY <2>1 DEF Write
    <2> QED
        BY <2>1, <2>2, IdleType DEF RowRead, LinkFound, CedulaGiven, Reading, Linked, Creating
<1> QED
    BY <1>1, <1>3, <1>4, <1>5, <1>6 DEF RequestsInv

\* The other writes change the sets of ids and links only, within their types.
LEMMA WriteInv ==
    ASSUME IInv, NEW p \in Requests, NEW i \in Ids, NEW u \in Row, NEW m,
           NEW next \in Request, Write(p, i, u, m, next),
           p \notin blind /\ i \notin disturbed => m = u,
           next = Idle \/ (next.step = "reset_clear" /\ next.id = i /\ next.token \in Tokens
                            /\ (p \in blind \/ u.token = next.token)),
           nextId' \in Nat \ {0}, mailed' \in Nat,
           sessions' \subseteq Ids, unchecked' \subseteq Ids,
           spent' \subseteq Tokens, unclear' \subseteq Tokens, again' \subseteq Tokens \X Ids
    PROVE  IInv'
<1>1. /\ users' \in [Ids -> Row] /\ meant' \in [Ids -> Row]
      /\ req' \in [Requests -> Request]
      /\ blind' \subseteq Requests /\ disturbed' \subseteq Ids
      /\ begun' \in Nat
      /\ LastWordStands'
      /\ RequestsInv'
    BY WriteRows
<1> QED
    BY <1>1 DEF IInv, TypeOK

-----------------------------------------------------------------------------
\* A request that begins has read what it says.
LEMMA BeginsInv ==
    ASSUME IInv, NEW p \in Requests, NEW r \in Request, NEW missed, Begins(p, r, missed),
           r.step \in Reading => r.id \in Ids /\ r.row \in User /\ users[r.id] = r.row,
           r.step \in Linked => r.token \in Tokens /\ users[r.id].token = r.token,
           r.step \in Creating => r.cedula \in Cedulas
    PROVE  IInv'
<1>1. TypeOK' /\ LastWordStands'
    BY DEF IInv, TypeOK, LastWordStands, Begins, Reads, table, links
<1>2. ASSUME NEW q \in Requests PROVE RowRead(q)' /\ LinkFound(q)' /\ CedulaGiven(q)'
    <2>1. users' = users /\ blind \subseteq blind' /\ req' = [req EXCEPT ![p] = r]
        BY DEF Begins, Reads, table
    <2>2. CASE q = p
        BY <2>1, <2>2 DEF IInv, TypeOK, RowRead, LinkFound, CedulaGiven
    <2>3. CASE q # p
        BY <2>1, <2>3 DEF IInv, RequestsInv, TypeOK, RowRead, LinkFound, CedulaGiven
    <2> QED
        BY <2>2, <2>3
<1> QED
    BY <1>1, <1>2 DEF IInv, RequestsInv

\* A request that goes on without writing keeps what it is about.
LEMMA ContinuesInv ==
    ASSUME IInv, NEW p \in Requests, NEW step \in Steps, NEW missed, Continues(p, step, missed),
           req[p].step \in Creating \/ step \notin Creating,
           step \notin Reading \union Linked
    PROVE  IInv'
<1>1. req[p] \in Request
    BY DEF IInv, TypeOK
<1>2. [req[p] EXCEPT !.step = step] \in Request
    BY <1>1 DEF Request
<1>3. req' = [req EXCEPT ![p] = [req[p] EXCEPT !.step = step]]
    BY DEF Continues
<1>4. TypeOK' /\ LastWordStands'
    BY <1>2, <1>3 DEF IInv, TypeOK, LastWordStands, Continues, Reads, table, links
<1>5. ASSUME NEW q \in Requests PROVE RowRead(q)' /\ LinkFound(q)' /\ CedulaGiven(q)'
    <2>1. users' = users /\ blind \subseteq blind'
        BY DEF Continues, Reads, table
    <2>2. CASE q = p
        <3>1. req'[q].step = step /\ req'[q].cedula = req[q].cedula
            BY <1>1, <1>3, <2>2 DEF IInv, TypeOK, Request
        <3> QED
            BY <2>1, <2>2, <3>1 DEF IInv, RequestsInv, RowRead, LinkFound, CedulaGiven
    <2>3. CASE q # p
        BY <1>3, <2>1, <2>3 DEF IInv, RequestsInv, TypeOK, RowRead, LinkFound, CedulaGiven
    <2> QED
        BY <2>2, <2>3
<1> QED
    BY <1>4, <1>5 DEF IInv, RequestsInv

-----------------------------------------------------------------------------
\* Each operation preserves the invariant.

\* A step that leaves the table and the requests alone.
LEMMA QuietInv ==
    ASSUME IInv, UNCHANGED <<table, mailed, req, begun, ghosts, links>>,
           sessions' \subseteq Ids
    PROVE  IInv'
    BY DEF IInv, TypeOK, LastWordStands, RequestsInv, RowRead, LinkFound, CedulaGiven,
           table, ghosts, links

LEMMA LoginInv ==
    ASSUME IInv, NEW i \in Ids, NEW pw \in Passwords, Login(i, pw)
    PROVE  IInv'
    BY QuietInv DEF Login, IInv, TypeOK

LEMMA FailsInv ==
    ASSUME IInv, NEW p \in Requests, Fails(p)
    PROVE  IInv'
<1>1. TypeOK' /\ LastWordStands'
    <2>1. CASE req[p].step = "reset_clear"
        <3>1. req[p].token \in Tokens
            BY <2>1 DEF IInv, RequestsInv, LinkFound, Linked
        <3> QED
            BY <2>1, <3>1, IdleType DEF IInv, TypeOK, LastWordStands, Fails, Ends, table
    <2>2. CASE req[p].step # "reset_clear"
        BY <2>2, IdleType DEF IInv, TypeOK, LastWordStands, Fails, Ends, table
    <2> QED
        BY <2>1, <2>2
<1>2. ASSUME NEW q \in Requests PROVE RowRead(q)' /\ LinkFound(q)' /\ CedulaGiven(q)'
    <2>1. users' = users /\ blind' = blind \ {p} /\ req' = [req EXCEPT ![p] = Idle]
        BY DEF Fails, Ends, table
    <2>2. CASE q = p
        BY <2>1, <2>2, IdleType DEF IInv, TypeOK, RowRead, LinkFound, CedulaGiven,
                                    Reading, Linked, Creating
    <2>3. CASE q # p
        BY <2>1, <2>3 DEF IInv, RequestsInv, TypeOK, RowRead, LinkFound, CedulaGiven
    <2> QED
        BY <2>2, <2>3
<1> QED
    BY <1>1, <1>2 DEF IInv, RequestsInv

LEMMA RegistroInv ==
    ASSUME IInv, NEW p \in Requests, Registro(p)
    PROVE  IInv'
<1>1. ASSUME NEW c \in Cedulas, NEW e \in Emails, NEW pw \in Passwords,
             RegistroBegins(p, c, e, pw)
      PROVE  IInv'
    <2> DEFINE r == [Idle EXCEPT !.step = "registro_email", !.cedula = c, !.email = e,
                                 !.password = pw]
    <2>1. r \in Request /\ r.step = "registro_email" /\ r.cedula = c
        BY DEF Idle, Request, Steps, Row
    <2>2. Begins(p, r, FALSE)
        BY <1>1 DEF RegistroBegins
    <2> HIDE DEF r
    <2> QED
        BY <2>1, <2>2, BeginsInv DEF Reading, Linked
<1>2. CASE RegistroEmail(p)
    BY <1>2, ContinuesInv DEF RegistroEmail, Steps, Creating, Reading, Linked
<1>3. CASE RegistroFind(p)
    <2> DEFINE i == FindByCedula(req[p].cedula)
               takes == i # None /\ ~HasPassword(users[i])
               r == [req[p] EXCEPT !.step = "registro_save", !.id = i, !.row = users[i]]
    <2>1. req[p] \in Request /\ req[p].step = "registro_find" /\ req[p].cedula \in Cedulas
        BY <1>3 DEF IInv, TypeOK, RequestsInv, CedulaGiven, Creating, RegistroFind
    <2>2. i \in Ids \union {None} /\ (i # None => users[i].cedula = req[p].cedula)
        BY Finders
    <2>3. i # None => users[i] \in User
        BY <2>1, <2>2 DEF IInv, TypeOK, Row, NoUser
    <2>4. CASE takes /\ req' = [req EXCEPT ![p] = r] /\ UNCHANGED begun /\ Reads(p, FALSE)
        <3>1. r \in Request /\ r.step = "registro_save" /\ r.id = i /\ r.row = users[i]
            BY <2>1, <2>2, <2>3, <2>4 DEF Request, Steps, Row
        <3>2. req' = [req EXCEPT ![p] = r] /\ UNCHANGED <<begun, table, mailed, sessions,
                                                         ghosts, links>>
            BY <2>4 DEF Reads, ghosts
        <3> HIDE DEF r
        <3> QED
            BY <2>2, <2>3, <2>4, <3>1, <3>2
               DEF IInv, TypeOK, LastWordStands, RequestsInv, RowRead, LinkFound,
                   CedulaGiven, Reading, Linked, Creating, table, ghosts, links
    <2>5. CASE Continues(p, "registro_create", takes)
        <3> HIDE DEF takes
        <3> QED
            BY <2>1, <2>5, ContinuesInv DEF Steps, Creating, Reading, Linked
    <2>6. \/ takes /\ req' = [req EXCEPT ![p] = r] /\ UNCHANGED begun /\ Reads(p, FALSE)
          \/ Continues(p, "registro_create", takes)
        BY <1>3 DEF RegistroFind
    <2> QED
        BY <2>4, <2>5, <2>6
<1>4. CASE RegistroSave(p)
    <2> DEFINE r == req[p]
               u == Registered(r.row, r)
               w == IF Exists(r.id) THEN u ELSE Inserted(u)
               v == [meant[r.id] EXCEPT !.email = r.email, !.password = r.password,
                                        !.activo = TRUE]
    <2>1. r \in Request /\ r.id \in Ids /\ r.row \in User
            /\ (p \in blind \/ users[r.id] = r.row)
        BY <1>4 DEF IInv, TypeOK, RequestsInv, RowRead, Reading, RegistroSave
    <2>2. u \in User
        BY <2>1, SetColumns DEF Registered, Request
    <2>3. w \in Row
        BY <2>2, SetColumns DEF Inserted, Row
    <2>4. p \notin blind /\ r.id \notin disturbed => v = w
        <3>1. SUFFICES ASSUME p \notin blind, r.id \notin disturbed PROVE v = w
            OBVIOUS
        <3>2. meant[r.id] = r.row /\ users[r.id] = r.row
            BY <2>1, <3>1 DEF IInv, LastWordStands
        <3>3. Exists(r.id)
            BY <2>1, <3>2 DEF Exists, User, NoUser
        <3> QED
            BY <3>2, <3>3 DEF Registered
    <2>5. Write(p, r.id, w, v, Idle) /\ sessions' = sessions \union {r.id}
            /\ UNCHANGED <<nextId, mailed, unchecked, links>>
        BY <1>4 DEF RegistroSave, Save
    <2> HIDE DEF r, w, v
    <2> QED
        BY <2>1, <2>3, <2>4, <2>5, WriteInv, IdleType DEF IInv, TypeOK, links
<1>5. CASE RegistroCreate(p)
    <2> DEFINE u == Inserted(Registered([NoUser EXCEPT !.cedula = req[p].cedula], req[p]))
    <2>1. req[p] \in Request /\ req[p].cedula \in Cedulas
        BY <1>5 DEF IInv, TypeOK, RequestsInv, CedulaGiven, Creating, RegistroCreate
    <2>2. u \in Row
        BY <2>1 DEF Inserted, Registered, NoUser, Row, User, Request
    <2>3. Write(p, nextId, u, u, Idle) /\ nextId \in Ids /\ nextId' = nextId + 1
            /\ sessions' = sessions \union {nextId} /\ UNCHANGED <<mailed, unchecked, links>>
        BY <1>5 DEF RegistroCreate, Insert
    <2>4. nextId' \in Nat \ {0} /\ sessions' \subseteq Ids /\ mailed' \in Nat
            /\ unchecked' \subseteq Ids /\ spent' \subseteq Tokens /\ unclear' \subseteq Tokens
            /\ again' \subseteq Tokens \X Ids
        BY <2>3 DEF IInv, TypeOK, links
    <2> HIDE DEF u
    <2> QED
        BY <2>2, <2>3, <2>4, WriteInv, IdleType
<1> QED
    BY PlainAssumption, <1>1, <1>2, <1>3, <1>4, <1>5 DEF Registro

LEMMA EstablecerInv ==
    ASSUME IInv, NEW p \in Requests, EstablecerPassword(p)
    PROVE  IInv'
<1>1. ASSUME NEW c \in Cedulas, NEW e \in Emails \union {None}, NEW pw \in Passwords,
             EstablecerBegins(p, c, e, pw)
      PROVE  IInv'
    <2> DEFINE i == FindByCedula(c)
               r == [Idle EXCEPT !.step = IF e = None THEN "establecer_set"
                                          ELSE "establecer_email",
                                 !.cedula = c, !.email = e, !.password = pw, !.id = i]
    <2>1. i \in Ids /\ Begins(p, r, FALSE)
        BY <1>1, Finders DEF EstablecerBegins
    <2>2. r \in Request /\ r.step \in {"establecer_set", "establecer_email"}
        BY <2>1 DEF Idle, Request, Steps, Row
    <2> HIDE DEF r
    <2> QED
        BY <2>1, <2>2, BeginsInv DEF Reading, Linked, Creating
<1>2. CASE EstablecerEmail(p)
    BY <1>2, ContinuesInv DEF EstablecerEmail, Steps, Creating, Reading, Linked
<1>3. CASE EstablecerSet(p)
    <2> DEFINE r == req[p]
               u == WithPassword(users[r.id], r)
               v == WithPassword(meant[r.id], r)
    <2>1. r \in Request /\ r.id \in Ids /\ users[r.id] \in User
        BY <1>3, ExistsUser DEF EstablecerSet, IInv, TypeOK
    <2>2. u \in Row
        BY <2>1 DEF WithPassword, User, Request, Row
    <2>3. r.id \notin disturbed => v = u
        BY <2>1 DEF IInv, LastWordStands
    <2>4. Write(p, r.id, u, v, Idle) /\ UNCHANGED <<nextId, mailed, links>>
            /\ sessions' = sessions \union {r.id}
            /\ unchecked' = IF r.email = None THEN unchecked \union {r.id} ELSE unchecked
        BY <1>3 DEF EstablecerSet
    <2>5. sessions' \subseteq Ids /\ unchecked' \subseteq Ids
        BY <2>1, <2>4 DEF IInv, TypeOK
    <2> HIDE DEF r, u, v
    <2> QED
        BY <2>1, <2>2, <2>3, <2>4, <2>5, WriteInv, IdleType DEF IInv, TypeOK, links
<1> QED
    BY PlainAssumption, <1>1, <1>2, <1>3 DEF EstablecerPassword

\* A write of columns of the row with the id, in the table and in what is
\* meant, after which the request is done.
LEMMA ColumnsInv ==
    ASSUME IInv, NEW p \in Requests, NEW i \in Ids, NEW u \in Row, NEW m,
           Write(p, i, u, m, Idle), i \notin disturbed => m = u,
           UNCHANGED <<nextId, sessions, unchecked, links>>, mailed' \in Nat
    PROVE  IInv'
<1>1. nextId' \in Nat \ {0} /\ sessions' \subseteq Ids /\ unchecked' \subseteq Ids
        /\ spent' \subseteq Tokens /\ unclear' \subseteq Tokens
        /\ again' \subseteq Tokens \X Ids
    BY DEF IInv, TypeOK, links
<1> QED
    BY <1>1, WriteInv, IdleType

LEMMA PerfilInv ==
    ASSUME IInv, NEW p \in Requests, UpdateProfile(p)
    PROVE  IInv'
<1>1. ASSUME NEW i \in Ids, NEW e \in Emails, PerfilBegins(p, i, e)
      PROVE  IInv'
    <2> DEFINE r == [Idle EXCEPT !.step = "perfil_update", !.email = e, !.id = i]
    <2>1. r \in Request /\ r.step = "perfil_update"
            /\ Begins(p, r, FindByEmail(e) \notin {None, i})
        BY <1>1 DEF Idle, Request, Steps, Row, PerfilBegins
    <2> HIDE DEF r
    <2> QED
        BY <2>1, BeginsInv DEF Reading, Linked, Creating
<1>2. CASE PerfilUpdate(p)
    <2> DEFINE i == req[p].id
               u == [users[i] EXCEPT !.email = req[p].email]
               v == [meant[i] EXCEPT !.email = req[p].email]
    <2>1. i \in Ids /\ users[i] \in User /\ req[p] \in Request
        BY <1>2, ExistsUser DEF PerfilUpdate, IInv, TypeOK
    <2>2. u \in Row
        BY <2>1, SetColumns DEF Request, Row
    <2>3. i \notin disturbed => v = u
        BY <2>1 DEF IInv, LastWordStands
    <2>4. Write(p, i, u, v, Idle) /\ UNCHANGED <<nextId, mailed, sessions, unchecked, links>>
        BY <1>2 DEF PerfilUpdate
    <2> HIDE DEF i, u, v
    <2> QED
        BY <2>1, <2>2, <2>3, <2>4, ColumnsInv DEF IInv, TypeOK
<1> QED
    BY <1>1, <1>2 DEF UpdateProfile

LEMMA RecuperarInv ==
    ASSUME IInv, NEW p \in Requests, SolicitarRecuperacion(p)
    PROVE  IInv'
<1>1. ASSUME NEW c \in Cedulas, RecuperarBegins(p, c)
      PROVE  IInv'
    <2> DEFINE r == [Idle EXCEPT !.step = "recuperar_set",
                                 !.id = FindByCedulaWithPassword(c)]
    <2>1. FindByCedulaWithPassword(c) \in Ids
        BY <1>1, Finders DEF RecuperarBegins
    <2>2. r \in Request /\ r.step = "recuperar_set" /\ Begins(p, r, FALSE)
        BY <1>1, <2>1 DEF Idle, Request, Steps, Row, RecuperarBegins
    <2> HIDE DEF r
    <2> QED
        BY <2>2, BeginsInv DEF Reading, Linked, Creating
<1>2. CASE RecuperarSet(p)
    <2> DEFINE i == req[p].id
               t == mailed + 1
               u == [users[i] EXCEPT !.token = t]
               v == [meant[i] EXCEPT !.token = t]
    <2>1. i \in Ids /\ users[i] \in User
        BY <1>2, ExistsUser DEF RecuperarSet, IInv
    <2>2. t \in Tokens /\ Write(p, i, u, v, Idle) /\ mailed' = t
            /\ UNCHANGED <<nextId, sessions, unchecked, links>>
        BY <1>2 DEF RecuperarSet
    <2>3. u \in Row
        BY <2>1, <2>2, SetColumns DEF Row
    <2>4. i \notin disturbed => v = u
        BY <2>1 DEF IInv, LastWordStands
    <2>5. mailed' \in Nat
        BY <2>2 DEF IInv, TypeOK
    <2> HIDE DEF i, t, u, v
    <2> QED
        BY <2>1, <2>2, <2>3, <2>4, <2>5, ColumnsInv
<1> QED
    BY PlainAssumption, <1>1, <1>2 DEF SolicitarRecuperacion

LEMMA ResetInv ==
    ASSUME IInv, NEW p \in Requests, ResetPassword(p)
    PROVE  IInv'
<1>1. ASSUME NEW t \in Tokens, NEW pw \in Passwords, ResetBegins(p, t, pw)
      PROVE  IInv'
    <2> DEFINE i == FindByResetToken(t)
               r == [Idle EXCEPT !.step = "reset_set", !.password = pw, !.id = i,
                                 !.token = t]
    <2>1. i \in Ids /\ users[i].token = t
        BY <1>1, Finders DEF ResetBegins
    <2>2. r \in Request /\ r.step = "reset_set" /\ r.id = i /\ r.token = t
        BY <2>1 DEF Idle, Request, Steps, Row
    <2>3. Begins(p, r, FALSE)
        BY <1>1 DEF ResetBegins
    <2> HIDE DEF r, i
    <2> QED
        BY <2>1, <2>2, <2>3, BeginsInv DEF Reading, Creating
<1>2. CASE ResetSet(p)
    <2> DEFINE r == req[p]
               i == r.id
               u == [users[i] EXCEPT !.password = r.password]
               v == [meant[i] EXCEPT !.password = r.password]
               next == [r EXCEPT !.step = "reset_clear"]
    <2>1. r \in Request /\ r.token \in Tokens
            /\ (p \in blind \/ users[i].token = r.token)
        BY <1>2 DEF ResetSet, IInv, TypeOK, RequestsInv, LinkFound, Linked
    <2>2. i \in Ids /\ users[i] \in User
        BY <1>2, ExistsUser DEF ResetSet, IInv
    <2>3. u \in Row /\ u.token = users[i].token
        <3>1. r.password \in Passwords \union {None}
            BY <2>1 DEF Request
        <3>2. u \in User
            BY <2>2, <3>1, SetColumns
        <3>3. u.token = users[i].token
            BY <2>2 DEF User
        <3> QED
            BY <3>2, <3>3 DEF Row
    <2>4. next \in Request /\ next.step = "reset_clear" /\ next.id = i
            /\ next.token = r.token
        BY <2>1 DEF Request, Steps
    <2>5. i \notin disturbed => v = u
        BY <2>2 DEF IInv, LastWordStands
    <2>6. Write(p, i, u, v, next) /\ spent' = spent \union {r.token}
            /\ UNCHANGED <<nextId, mailed, sessions, unchecked, unclear>>
            /\ again' \in {again \union {<<r.token, i>>}, again}
        BY <1>2 DEF ResetSet
    <2>7. spent' \subseteq Tokens /\ again' \subseteq Tokens \X Ids
        BY <2>1, <2>2, <2>6 DEF IInv, TypeOK
    <2>8. nextId' \in Nat \ {0} /\ mailed' \in Nat /\ sessions' \subseteq Ids
            /\ unchecked' \subseteq Ids /\ unclear' \subseteq Tokens
        BY <2>6 DEF IInv, TypeOK
    <2> HIDE DEF r, i, u, v, next
    <2> QED
        BY <2>1, <2>2, <2>3, <2>4, <2>5, <2>6, <2>7, <2>8, WriteInv, IdleType
<1>3. CASE ResetClear(p)
    <2> DEFINE r == req[p]
               i == r.id
               u == [users[i] EXCEPT !.token = None]
               v == Unlinked(meant[i], r.token)
    <2>1. r.token \in Tokens /\ (p \in blind \/ users[i].token = r.token)
        BY <1>3 DEF ResetClear, IInv, RequestsInv, LinkFound, Linked
    <2>2. i \in Ids /\ users[i] \in User
        BY <1>3, ExistsUser DEF ResetClear, IInv
    <2>3. u \in Row
        BY <2>2, SetColumns DEF Row
    <2>4. p \notin blind /\ i \notin disturbed => v = u
        BY <2>1, <2>2 DEF IInv, LastWordStands, Unlinked
    <2>5. Write(p, i, u, v, Idle) /\ UNCHANGED <<nextId, mailed, sessions, unchecked, links>>
        BY <1>3 DEF ResetClear
    <2>6. nextId' \in Nat \ {0} /\ mailed' \in Nat /\ sessions' \subseteq Ids
            /\ unchecked' \subseteq Ids /\ unclear' \subseteq Tokens
            /\ spent' \subseteq Tokens /\ again' \subseteq Tokens \X Ids
        BY <2>5 DEF IInv, TypeOK, links
    <2> HIDE DEF r, i, u, v
    <2> QED
        BY <2>2, <2>3, <2>4, <2>5, <2>6, WriteInv, IdleType
<1> QED
    BY <1>1, <1>2, <1>3 DEF ResetPassword

LEMMA CambiarInv ==
    ASSUME IInv, NEW p \in Requests, CambiarPassword(p)
    PROVE  IInv'
<1>1. ASSUME NEW i \in Ids, NEW pw \in Passwords, NEW new \in Passwords,
             CambiarBegins(p, i, pw, new)
      PROVE  IInv'
    <2> DEFINE r == [Idle EXCEPT !.step = "cambiar_set", !.password = new, !.id = i]
    <2>1. r \in Request /\ r.step = "cambiar_set" /\ Begins(p, r, FALSE)
        BY <1>1 DEF Idle, Request, Steps, Row, CambiarBegins
    <2> HIDE DEF r
    <2> QED
        BY <2>1, BeginsInv DEF Reading, Linked, Creating
<1>2. CASE CambiarSet(p)
    <2> DEFINE i == req[p].id
               u == [users[i] EXCEPT !.password = req[p].password]
               v == [meant[i] EXCEPT !.password = req[p].password]
    <2>1. i \in Ids /\ users[i] \in User /\ req[p] \in Request
        BY <1>2, ExistsUser DEF CambiarSet, IInv, TypeOK
    <2>2. u \in Row
        BY <2>1, SetColumns DEF Request, Row
    <2>3. i \notin disturbed => v = u
        BY <2>1 DEF IInv, LastWordStands
    <2>4. Write(p, i, u, v, Idle) /\ UNCHANGED <<nextId, mailed, sessions, unchecked, links>>
        BY <1>2 DEF CambiarSet
    <2> HIDE DEF i, u, v
    <2> QED
        BY <2>1, <2>2, <2>3, <2>4, ColumnsInv DEF IInv, TypeOK
<1> QED
    BY <1>1, <1>2 DEF CambiarPassword

\* What the administrator's form makes of a row, and what it means.
LEMMA EditsType ==
    ASSUME NEW u \in User, NEW new \in Edits(u)
    PROVE  new \in User /\ EditedAs(u, u, new) = new
<1>1. new \in User
    <2>1. CASE new \in {[u EXCEPT !.email = e] : e \in Emails}
        BY <2>1, SetColumns
    <2>2. CASE new \in {[u EXCEPT !.password = pw] : pw \in Passwords}
        BY <2>2, SetColumns
    <2>3. CASE new \in {[u EXCEPT !.activo = a] : a \in BOOLEAN}
        BY <2>3, SetColumns
    <2> QED
        BY <2>1, <2>2, <2>3 DEF Edits
<1>2. EditedAs(u, u, new) = new
    BY <1>1 DEF EditedAs, User
<1> QED
    BY <1>1, <1>2

LEMMA AdministratorInv ==
    ASSUME IInv, NEW p \in Requests, Administrator(p)
    PROVE  IInv'
<1>1. ASSUME NEW c \in Cedulas, NEW e \in Emails \union {None},
             NEW pw \in Passwords \union {None}, CreateUserBegins(p, c, e, pw)
      PROVE  IInv'
    <2> DEFINE r == [Idle EXCEPT !.step = "create_user", !.cedula = c, !.email = e,
                                 !.password = pw]
    <2>1. r \in Request /\ r.step = "create_user" /\ r.cedula = c
            /\ Begins(p, r, FindByCedula(c) # None)
        BY <1>1 DEF Idle, Request, Steps, Row, CreateUserBegins
    <2> HIDE DEF r
    <2> QED
        BY <2>1, BeginsInv DEF Reading, Linked
<1>2. CASE CreateUser(p)
    <2> DEFINE r == req[p]
               u == Inserted([NoUser EXCEPT !.cedula = r.cedula, !.email = r.email,
                                            !.password = r.password])
    <2>1. r \in Request /\ r.cedula \in Cedulas
        BY <1>2 DEF IInv, TypeOK, RequestsInv, CedulaGiven, Creating, CreateUser
    <2>2. u \in Row
        BY <2>1 DEF Inserted, NoUser, Row, User, Request
    <2>3. Write(p, nextId, u, u, Idle) /\ nextId \in Ids /\ nextId' = nextId + 1
            /\ unchecked' = unchecked \union {nextId}
            /\ UNCHANGED <<mailed, sessions, links>>
        BY <1>2 DEF CreateUser, Insert
    <2>4. nextId' \in Nat \ {0} /\ sessions' \subseteq Ids /\ mailed' \in Nat
            /\ unchecked' \subseteq Ids /\ spent' \subseteq Tokens /\ unclear' \subseteq Tokens
            /\ again' \subseteq Tokens \X Ids
        BY <2>3 DEF IInv, TypeOK, links
    <2> HIDE DEF r, u
    <2> QED
        BY <2>2, <2>3, <2>4, WriteInv, IdleType
<1>3. ASSUME NEW i \in Ids, UpdateUserBegins(p, i)
      PROVE  IInv'
    <2> DEFINE r == [Idle EXCEPT !.step = "update_user", !.id = i, !.row = users[i]]
    <2>1. users[i] \in User
        BY <1>3, ExistsUser DEF UpdateUserBegins, IInv
    <2>2. r \in Request /\ r.step = "update_user" /\ r.id = i /\ r.row = users[i]
        BY <2>1 DEF Idle, Request, Steps, Row
    <2>3. Begins(p, r, FALSE)
        BY <1>3 DEF UpdateUserBegins
    <2> HIDE DEF r
    <2> QED
        BY <2>1, <2>2, <2>3, BeginsInv DEF Linked, Creating
<1>4. ASSUME NEW i \in Ids, DeleteUser(p, i)
      PROVE  IInv'
    <2>1. Write(p, i, NoUser, NoUser, Idle)
            /\ UNCHANGED <<nextId, mailed, sessions, unchecked, links>>
        BY <1>4 DEF DeleteUser
    <2>2. NoUser \in Row /\ mailed' \in Nat
        BY <2>1, IdleType DEF IInv, TypeOK
    <2> QED
        BY <2>1, <2>2, ColumnsInv
<1>5. CASE UpdateUser(p)
    <2> DEFINE r == req[p]
    <2>1. r.id \in Ids /\ r.row \in User /\ (p \in blind \/ users[r.id] = r.row)
        BY <1>5 DEF IInv, RequestsInv, RowRead, Reading, UpdateUser
    <2>2. PICK new \in Edits(r.row) :
            /\ Save(p, r.id, new, EditedAs(meant[r.id], r.row, new))
            /\ unchecked' \in {unchecked \union {r.id}, unchecked}
        BY <1>5 DEF UpdateUser
    <2> DEFINE w == IF Exists(r.id) THEN new ELSE Inserted(new)
               v == EditedAs(meant[r.id], r.row, new)
    <2>3. new \in User /\ EditedAs(r.row, r.row, new) = new
        BY <2>1, EditsType
    <2>4. w \in Row
        BY <2>3, SetColumns DEF Inserted, Row
    <2>5. p \notin blind /\ r.id \notin disturbed => v = w
        <3>1. SUFFICES ASSUME p \notin blind, r.id \notin disturbed PROVE v = w
            OBVIOUS
        <3>2. meant[r.id] = r.row /\ users[r.id] = r.row
            BY <2>1, <3>1 DEF IInv, LastWordStands
        <3>3. Exists(r.id)
            BY <2>1, <3>2 DEF Exists, User, NoUser
        <3> QED
            BY <2>3, <3>2, <3>3
    <2>6. Write(p, r.id, w, v, Idle) /\ UNCHANGED nextId
        BY <2>2 DEF Save
    <2>7. UNCHANGED <<mailed, sessions, links>>
        BY <1>5 DEF UpdateUser
    <2>8. nextId' \in Nat \ {0} /\ sessions' \subseteq Ids /\ mailed' \in Nat
            /\ unchecked' \subseteq Ids /\ spent' \subseteq Tokens /\ unclear' \subseteq Tokens
            /\ again' \subseteq Tokens \X Ids
        BY <2>1, <2>2, <2>6, <2>7 DEF IInv, TypeOK, links
    <2> HIDE DEF r, w, v
    <2> QED
        BY <2>1, <2>4, <2>5, <2>6, <2>8, WriteInv, IdleType
<1> QED
    BY <1>1, <1>2, <1>3, <1>4, <1>5 DEF Administrator

-----------------------------------------------------------------------------
LEMMA InitInv == Init => IInv
<1> SUFFICES ASSUME Init PROVE IInv
    OBVIOUS
<1>1. users \in [Ids -> Row] /\ meant = users
    BY DEF Init, CleanTables, Row
<1>2. nextId \in Nat \ {0}
    <2>1. IsFiniteSet({i \in Ids : users[i] # NoUser})
        <3>1. IsFiniteSet(1 .. MaxUsers)
            BY FS_Interval
        <3>2. {i \in Ids : users[i] # NoUser} \in SUBSET (1 .. MaxUsers)
            OBVIOUS
        <3> QED
            BY <3>1, <3>2, FS_Subset
    <2> QED
        BY <2>1, FS_CardinalityType DEF Init
<1>3. TypeOK
    BY <1>1, <1>2, IdleType DEF Init, TypeOK
<1> QED
    BY <1>1, <1>3, IdleType DEF IInv, LastWordStands, RequestsInv, RowRead, LinkFound,
                                CedulaGiven, Reading, Linked, Creating, Init

LEMMA NextInv == IInv /\ [Next]_vars => IInv'
<1> SUFFICES ASSUME IInv, [Next]_vars PROVE IInv'
    OBVIOUS
<1>1. CASE UNCHANGED vars
    BY <1>1, QuietInv DEF vars, IInv, TypeOK, links, ghosts, table
<1>2. ASSUME NEW i \in Ids, NEW pw \in Passwords, Login(i, pw) PROVE IInv'
    BY <1>2, LoginInv
<1>3. ASSUME NEW p \in Requests,
             \/ Registro(p) \/ EstablecerPassword(p) \/ UpdateProfile(p)
             \/ SolicitarRecuperacion(p) \/ ResetPassword(p) \/ CambiarPassword(p)
             \/ Administrator(p) \/ Fails(p)
      PROVE  IInv'
    BY <1>3, RegistroInv, EstablecerInv, PerfilInv, RecuperarInv, ResetInv, CambiarInv,
       AdministratorInv, FailsInv
<1> QED
    BY <1>1, <1>2, <1>3 DEF Next

LEMMA Invariance == Spec => []IInv
    BY InitInv, NextInv, PTL DEF Spec

(***************************************************************************)
(* The types of Accounts.                                                  *)
(***************************************************************************)
THEOREM AccountsTypes == Spec => []TypeOK
<1>1. IInv => TypeOK
    BY DEF IInv
<1> QED
    BY <1>1, Invariance, PTL

(***************************************************************************)
(* Only a request that was overtaken by another can lose what another has  *)
(* written, bring back a deleted row or clear a link it did not use.       *)
(***************************************************************************)
THEOREM LastWordsStand == Spec => []LastWordStands
<1>1. IInv => LastWordStands
    BY DEF IInv
<1> QED
    BY <1>1, Invariance, PTL

-----------------------------------------------------------------------------
(***************************************************************************)
(* Every step leaves the table alone or writes one row that does not       *)
(* conflict with another.                                                  *)
(***************************************************************************)
LEMMA RowByRow ==
    ASSUME IInv, [Next]_vars
    PROVE  \/ UNCHANGED users
           \/ \E i \in Ids, u \in Row :
                ~Conflicts(i, u) /\ users' = [users EXCEPT ![i] = u]
<1> DEFINE Quiet == UNCHANGED users
           Wrote == \E i \in Ids : \E u : ~Conflicts(i, u) /\ users' = [users EXCEPT ![i] = u]
<1>1. Quiet \/ Wrote
    <2>1. CASE UNCHANGED vars
        BY <2>1 DEF vars, table
    <2>2. ASSUME NEW i \in Ids, NEW pw \in Passwords, Login(i, pw) PROVE Quiet
        BY <2>2 DEF Login, table
    <2>3. ASSUME NEW p \in Requests, Registro(p) PROVE Quiet \/ Wrote
        <3>1. CASE RegistroSave(p)
            <4>1. req[p].id \in Ids
                BY <3>1 DEF IInv, RequestsInv, RowRead, Reading, RegistroSave
            <4> QED
                BY <3>1, <4>1 DEF RegistroSave, Save, Write
        <3>2. CASE RegistroCreate(p)
            BY <3>2 DEF RegistroCreate, Insert, Write
        <3> QED
            BY <2>3, <3>1, <3>2 DEF Registro, RegistroBegins, RegistroEmail, RegistroFind,
                                    Begins, Continues, Reads, table
    <2>4. ASSUME NEW p \in Requests, EstablecerPassword(p) PROVE Quiet \/ Wrote
        BY <2>4 DEF EstablecerPassword, EstablecerBegins, EstablecerEmail, EstablecerSet,
                    Begins, Continues, Reads, Write, Exists, table
    <2>5. ASSUME NEW p \in Requests, UpdateProfile(p) \/ SolicitarRecuperacion(p)
          PROVE  Quiet \/ Wrote
        BY <2>5 DEF UpdateProfile, PerfilBegins, PerfilUpdate, SolicitarRecuperacion,
                    RecuperarBegins, RecuperarSet, Begins, Reads, Write, Exists, table
    <2>6. ASSUME NEW p \in Requests, ResetPassword(p) \/ CambiarPassword(p)
          PROVE  Quiet \/ Wrote
        BY <2>6 DEF ResetPassword, ResetBegins, ResetSet, ResetClear, CambiarPassword,
                    CambiarBegins, CambiarSet, Begins, Reads, Write, Exists, table
    <2>7. ASSUME NEW p \in Requests, Administrator(p) PROVE Quiet \/ Wrote
        <3>1. CASE UpdateUser(p)
            <4>1. req[p].id \in Ids
                BY <3>1 DEF IInv, RequestsInv, RowRead, Reading, UpdateUser
            <4> QED
                BY <3>1, <4>1 DEF UpdateUser, Save, Write
        <3>2. CASE CreateUser(p)
            BY <3>2 DEF CreateUser, Insert, Write
        <3>3. ASSUME NEW i \in Ids, DeleteUser(p, i) PROVE Wrote
            BY <3>3 DEF DeleteUser, Write
        <3> QED
            BY <2>7, <3>1, <3>2, <3>3 DEF Administrator, CreateUserBegins,
                                          UpdateUserBegins, Begins, Reads, table
    <2>8. ASSUME NEW p \in Requests, Fails(p) PROVE Quiet
        BY <2>8 DEF Fails, Ends, table
    <2> QED
        BY <2>1, <2>2, <2>3, <2>4, <2>5, <2>6, <2>7, <2>8 DEF Next
<1>2. users \in [Ids -> Row] /\ users' \in [Ids -> Row]
    BY NextInv DEF IInv, TypeOK
<1>3. ASSUME NEW i \in Ids, NEW u, users' = [users EXCEPT ![i] = u] PROVE u \in Row
    BY <1>2, <1>3
<1> QED
    BY <1>1, <1>3

(***************************************************************************)
(* The index keeps accounts apart, whatever requests do at once.           *)
(***************************************************************************)
THEOREM CedulasHaveOneAccount == Spec => []OneAccountPerCedula
<1>1. Init => OneAccountPerCedula
    BY DEF Init, CleanTables, OneAccountPerCedula, IsAccount, Exists
<1>2. IInv /\ OneAccountPerCedula /\ [Next]_vars => OneAccountPerCedula'
    <2> SUFFICES ASSUME IInv, OneAccountPerCedula, [Next]_vars PROVE OneAccountPerCedula'
        OBVIOUS
    <2>1. CASE UNCHANGED users
        BY <2>1 DEF OneAccountPerCedula, IsAccount, Exists
    <2>2. ASSUME NEW k \in Ids, NEW u \in Row, ~Conflicts(k, u),
                 users' = [users EXCEPT ![k] = u]
          PROVE  OneAccountPerCedula'
        <3>1. users' \in [Ids -> Row] /\ users \in [Ids -> Row]
            BY NextInv DEF IInv, TypeOK
        <3>2. users'[k] = u /\ \A j \in Ids \ {k} : users'[j] = users[j]
            BY <2>2, <3>1
        <3> QED
            BY <2>2, <3>2 DEF OneAccountPerCedula, Conflicts, IsAccount, Exists
    <2> QED
        BY <2>1, <2>2, RowByRow
<1> QED
    BY <1>1, <1>2, Invariance, PTL DEF Spec

-----------------------------------------------------------------------------
(***************************************************************************)
(* E-mails.  What a request has checked stays so unless it becomes blind:   *)
(* nobody else has the e-mail it is about to write, and the row whose link *)
(* or password it is about to set is an account.                           *)
(***************************************************************************)
Bad == disturbed \union unchecked

Registering == {"registro_find", "registro_save", "registro_create"}
Checking == {"registro_email", "establecer_email"}
Giving == Registering \union Checking
            \union {"establecer_set", "reset_set", "cambiar_set"}
Promising(p) ==
    \/ req[p].step = "perfil_update"
    \/ req[p].step = "establecer_set" /\ req[p].email # None

Free(e) == \A j \in Ids : IsAccount(j) => users[j].email # e
FreeBut(e, i) ==
    \A j \in Ids : IsAccount(j) /\ users[j].email = e /\ j # i => {i, j} \intersect Bad # {}

EmailChecked(p) ==
    /\ req[p].step \in Checking => req[p].email # None
    /\ req[p].step \in Giving => req[p].password # None
    /\ p \notin blind =>
        /\ req[p].step \in Registering => Free(req[p].email) /\ req[p].email # None
        /\ Promising(p) => FreeBut(req[p].email, req[p].id) /\ req[p].email # None

OfAccount(p) ==
    p \notin blind /\ req[p].step \in {"recuperar_set", "reset_set", "cambiar_set"}
        => IsAccount(req[p].id) \/ req[p].id \in disturbed

LinkedAccounts ==
    \A i \in Ids : i \notin disturbed /\ users[i].token # None => HasPassword(users[i])

EmailInv ==
    /\ EmailsDistinct /\ LinkedAccounts
    /\ \A p \in Requests : EmailChecked(p) /\ OfAccount(p)

\* Ids that are not empty have a least one, which First finds.
LEMMA FirstMisses ==
    ASSUME NEW S \in SUBSET Ids, First(S) = None
    PROVE  S = {}
<1> SUFFICES ASSUME S # {} PROVE FALSE
    OBVIOUS
<1> DEFINE R == OpToRel(<, Nat)
<1>1. IsWellFoundedOn(R, Nat)
    BY NatLessThanWellFounded
<1>2. \A x, y \in Nat : <<x, y>> \in R <=> x < y
    BY DEF OpToRel
<1> HIDE DEF R
<1>3. S \subseteq Nat
    OBVIOUS
<1>4. PICK x \in S : \A y \in S : ~(<<y, x>> \in R)
    BY <1>1, <1>3, WFMin
<1>5. ASSUME NEW y \in S PROVE x <= y
    <2>1. x \in Nat /\ y \in Nat
        BY <1>3
    <2>2. ~(y < x)
        BY <1>2, <1>4, <2>1
    <2> QED
        BY <2>1, <2>2
<1>6. x \in Least(S)
    BY <1>5 DEF Least
<1>7. First(S) \in Least(S)
    BY <1>6 DEF First
<1>8. None \notin S
    <2>1. None \notin Int /\ \A y \in S : y \in Int
        BY <1>3
    <2> QED
        BY <2>1
<1> QED
    BY <1>7, <1>8 DEF Least

LEMMA EmailFound ==
    ASSUME NEW e, NEW i, FindByEmail(e) \in {None, i}, EmailsDistinct, e # None
    PROVE  FreeBut(e, i)
<1> DEFINE S == {j \in Ids : users[j].email = e /\ IsAccount(j)}
<1>1. FindByEmail(e) = First(S)
    BY DEF FindByEmail
<1> HIDE DEF FindByEmail
<1>2. CASE First(S) = None
    <2>1. S = {}
        BY <1>2, FirstMisses
    <2> QED
        BY <2>1 DEF FreeBut
<1>3. CASE First(S) = i /\ i # None
    <2>1. i \in S
        BY <1>3, FirstFinds
    <2> QED
        BY <2>1 DEF FreeBut, EmailsDistinct, Bad
<1> QED
    BY <1>1, <1>2, <1>3

\* A write preserves it, when the row is bad, or no account, or has the e-mail
\* it had as an account, or an e-mail that is free.
LEMMA WriteEmails ==
    ASSUME IInv, EmailInv, NEW p \in Requests, NEW i \in Ids, NEW u \in Row, NEW m,
           NEW next, Write(p, i, u, m, next), next.step \in {"idle", "reset_clear"},
           unchecked \subseteq unchecked',
           \/ i \in disturbed' \union unchecked'
           \/ ~HasPassword(u)
           \/ IsAccount(i) /\ users[i].email = u.email
           \/ FreeBut(u.email, i),
           i \in disturbed' \/ u.token = None \/ HasPassword(u)
    PROVE  EmailInv'
<1>1. /\ users' = [users EXCEPT ![i] = u] /\ users \in [Ids -> Row]
      /\ req' = [req EXCEPT ![p] = next] /\ req \in [Requests -> Request]
      /\ disturbed \subseteq disturbed'
    BY DEF Write, IInv, TypeOK
<1>2. users'[i] = u /\ \A j \in Ids \ {i} : users'[j] = users[j]
    BY <1>1
<1>3. \A j \in Ids \ {i} : IsAccount(j)' <=> IsAccount(j)
    BY <1>2 DEF IsAccount, Exists
<1>4. Bad \subseteq Bad'
    BY <1>1 DEF Bad
<1>5. EmailsDistinct'
    <2>1. ASSUME NEW j \in Ids \ {i}, IsAccount(i)', IsAccount(j)',
                 users'[j].email = u.email, u.email # None, {i, j} \intersect Bad' = {}
          PROVE  FALSE
        <3>1. IsAccount(j) /\ users[j].email = u.email /\ HasPassword(u)
            BY <1>2, <1>3, <2>1 DEF IsAccount
        <3>2. CASE IsAccount(i) /\ users[i].email = u.email
            BY <1>4, <2>1, <3>1, <3>2 DEF EmailInv, EmailsDistinct, Bad
        <3>3. CASE FreeBut(u.email, i)
            BY <1>4, <2>1, <3>1, <3>3 DEF FreeBut
        <3> QED
            BY <2>1, <3>1, <3>2, <3>3 DEF Bad
    <2>2. ASSUME NEW j \in Ids \ {i}, NEW k \in Ids \ {i}, IsAccount(j)', IsAccount(k)',
                 j # k, users'[j].email = users'[k].email, users'[j].email # None
          PROVE  {j, k} \intersect Bad' # {}
        BY <1>2, <1>3, <1>4, <2>2 DEF EmailInv, EmailsDistinct, Bad
    <2> QED
        BY <1>2, <2>1, <2>2 DEF EmailsDistinct, Bad
<1>6. LinkedAccounts'
    BY <1>1, <1>2 DEF EmailInv, LinkedAccounts
<1>7. ASSUME NEW q \in Requests PROVE EmailChecked(q)' /\ OfAccount(q)'
    <2>1. CASE q = p
        <3>1. req'[q] = next
            BY <1>1, <2>1
        <3> QED
            BY <3>1 DEF EmailChecked, OfAccount, Registering, Promising, Checking, Giving
    <2>2. CASE q # p
        <3>1. req'[q] = req[q]
            BY <1>1, <2>2
        <3>2. SUFFICES ASSUME q \notin blind', req[q].step # "idle"
                       PROVE  EmailChecked(q)' /\ OfAccount(q)'
            BY <3>1 DEF EmailInv, EmailChecked, OfAccount, Registering, Promising
        <3>3. q \notin blind /\ (users[i] = u \/ ~About(q, i, u))
            BY <2>2, <3>1, <3>2 DEF Write
        <3>4. CASE users[i] = u
            <4>1. users' = users
                BY <1>1, <3>4
            <4> QED
                BY <1>1, <1>4, <3>1, <3>3, <4>1
                   DEF EmailInv, EmailChecked, OfAccount, Promising, Free, FreeBut, IsAccount,
                       Exists
        <3>5. CASE ~About(q, i, u)
            <4>1. req[q].id # i /\ (u.email # None => req[q].email # u.email)
                BY <3>5 DEF About
            <4>2. EmailChecked(q)'
                BY <1>2, <1>3, <1>4, <3>1, <3>3, <4>1
                   DEF EmailInv, EmailChecked, Promising, Free, FreeBut
            <4>3. OfAccount(q)'
                <5>1. IsAccount(req[q].id) => IsAccount(req[q].id)'
                    <6>1. CASE req[q].id \in Ids
                        BY <1>3, <3>1, <4>1, <6>1
                    <6>2. CASE req[q].id \notin Ids
                        BY <6>2 DEF IsAccount, Exists
                    <6> QED
                        BY <6>1, <6>2
                <5> QED
                    BY <1>1, <3>1, <3>3, <5>1 DEF EmailInv, OfAccount
            <4> QED
                BY <4>2, <4>3
        <3> QED
            BY <3>3, <3>4, <3>5
    <2> QED
        BY <2>1, <2>2
<1> QED
    BY <1>5, <1>6, <1>7 DEF EmailInv

\* A step that leaves the table alone preserves it when what it says of the
\* request that takes the step holds.
LEMMA QuietEmails ==
    ASSUME IInv, EmailInv, NEW p \in Requests, NEW r, req' = [req EXCEPT ![p] = r],
           UNCHANGED <<users, disturbed, unchecked>>, blind \ {p} \subseteq blind',
           EmailChecked(p)' /\ OfAccount(p)'
    PROVE  EmailInv'
<1>1. ASSUME NEW q \in Requests, q # p PROVE EmailChecked(q)' /\ OfAccount(q)'
    <2>1. req'[q] = req[q] /\ (q \in blind => q \in blind')
        BY <1>1 DEF IInv, TypeOK
    <2> QED
        BY <2>1 DEF EmailInv, EmailChecked, OfAccount, Promising, Free, FreeBut, Bad,
                    IsAccount, Exists
<1>2. EmailsDistinct' /\ LinkedAccounts'
    BY DEF EmailInv, EmailsDistinct, LinkedAccounts, IsAccount, Exists
<1> QED
    BY <1>1, <1>2 DEF EmailInv

LEMMA BeginsEmails ==
    ASSUME IInv, EmailInv, NEW p \in Requests, NEW r, NEW missed, Begins(p, r, missed),
           r.step \notin Registering,
           r.step \in Checking => r.email # None,
           r.step \in Giving => r.password # None,
           r.step = "perfil_update" => missed \/ FreeBut(r.email, r.id),
           r.step = "perfil_update" => r.email # None,
           r.step = "establecer_set" => r.email = None,
           r.step \in {"recuperar_set", "reset_set", "cambiar_set"}
                => IsAccount(r.id) \/ r.id \in disturbed
    PROVE  EmailInv'
<1>1. req' = [req EXCEPT ![p] = r] /\ UNCHANGED <<users, disturbed, unchecked>>
        /\ blind \subseteq blind' /\ (missed => p \in blind')
    BY DEF Begins, Reads, table
<1>2. req'[p] = r
    BY <1>1 DEF IInv, TypeOK
<1>3. EmailChecked(p)'
    BY <1>1, <1>2 DEF EmailChecked, Promising, FreeBut, IsAccount, Exists, Bad
<1>4. OfAccount(p)'
    BY <1>1, <1>2 DEF OfAccount, IsAccount, Exists
<1> QED
    BY <1>1, <1>3, <1>4, QuietEmails

\* A request that goes on after its check.
LEMMA ContinuesEmails ==
    ASSUME IInv, EmailInv, NEW p \in Requests, NEW step, NEW missed,
           Continues(p, step, missed),
           step \in {"registro_find", "establecer_set"},
           req[p].step \in Checking,
           step = "registro_find" => Free(req[p].email),
           step = "establecer_set" => missed \/ FreeBut(req[p].email, req[p].id)
    PROVE  EmailInv'
<1> DEFINE r == [req[p] EXCEPT !.step = step]
<1>1. req' = [req EXCEPT ![p] = r] /\ UNCHANGED <<users, disturbed, unchecked>>
        /\ blind \subseteq blind' /\ (missed => p \in blind')
    BY DEF Continues, Reads, table
<1>2. req'[p] = r
    BY <1>1 DEF IInv, TypeOK
<1>3. r.step = step /\ r.email = req[p].email /\ r.id = req[p].id
        /\ r.password = req[p].password
    BY DEF IInv, TypeOK, Request
<1>4. req[p].email # None /\ req[p].password # None
    BY DEF EmailInv, EmailChecked, Giving
<1> HIDE DEF r
<1>5. EmailChecked(p)'
    BY <1>1, <1>2, <1>3, <1>4
       DEF EmailChecked, Checking, Registering, Promising, Free, FreeBut, IsAccount, Exists, Bad
<1>6. OfAccount(p)'
    BY <1>2, <1>3 DEF OfAccount
<1> QED
    BY <1>1, <1>5, <1>6, QuietEmails

LEMMA RegistroEmails ==
    ASSUME IInv, EmailInv, NEW p \in Requests, Registro(p)
    PROVE  EmailInv'
<1>1. ASSUME NEW c \in Cedulas, NEW e \in Emails, NEW pw \in Passwords,
             RegistroBegins(p, c, e, pw)
      PROVE  EmailInv'
    <2> DEFINE r == [Idle EXCEPT !.step = "registro_email", !.cedula = c, !.email = e,
                                 !.password = pw]
    <2>1. Begins(p, r, FALSE) /\ r.step = "registro_email" /\ r.email # None /\ r.password # None
        BY <1>1 DEF RegistroBegins, Idle
    <2> HIDE DEF r
    <2> QED
        BY <2>1, BeginsEmails DEF Registering, Checking
<1>2. CASE RegistroEmail(p)
    <2>1. Free(req[p].email) /\ Continues(p, "registro_find", FALSE)
            /\ req[p].step = "registro_email"
        BY <1>2 DEF RegistroEmail, ExistsByEmailWithPassword, Free
    <2> QED
        BY <2>1, ContinuesEmails DEF Checking
<1>3. CASE RegistroFind(p)
    <2>1. PICK r : /\ req' = [req EXCEPT ![p] = r] /\ r.email = req[p].email
                   /\ r.step \in {"registro_save", "registro_create"}
                   /\ r.password = req[p].password
        <3> DEFINE i == FindByCedula(req[p].cedula)
                   takes == [req[p] EXCEPT !.step = "registro_save", !.id = i,
                                           !.row = users[i]]
                   creates == [req[p] EXCEPT !.step = "registro_create"]
        <3>1. ASSUME NEW r \in {takes, creates}
              PROVE  /\ r.email = req[p].email /\ r.password = req[p].password
                     /\ r.step \in {"registro_save", "registro_create"}
            BY DEF IInv, TypeOK, Request
        <3>2. req' = [req EXCEPT ![p] = takes] \/ req' = [req EXCEPT ![p] = creates]
            BY <1>3 DEF RegistroFind, Continues
        <3> HIDE DEF takes, creates
        <3> QED
            BY <3>1, <3>2
    <2>2. req'[p] = r /\ UNCHANGED <<users, disturbed, unchecked>> /\ blind \subseteq blind'
            /\ req[p].step = "registro_find"
        BY <1>3, <2>1 DEF RegistroFind, Continues, Reads, IInv, TypeOK, table
    <2>3. EmailChecked(p)' /\ OfAccount(p)'
        BY <2>1, <2>2 DEF EmailInv, EmailChecked, OfAccount, Checking, Registering, Promising,
                          Giving, Free, IsAccount, Exists
    <2> QED
        BY <2>1, <2>2, <2>3, QuietEmails
<1>4. CASE RegistroSave(p)
    <2> DEFINE r == req[p]
               u == Registered(r.row, r)
               w == IF Exists(r.id) THEN u ELSE Inserted(u)
    <2>1. r \in Request /\ r.id \in Ids /\ r.row \in User /\ r.step = "registro_save"
        BY <1>4 DEF IInv, TypeOK, RequestsInv, RowRead, Reading, RegistroSave
    <2>2. w \in Row /\ w.email = r.email
        BY <2>1 DEF Registered, Inserted, User, Request, Row
    <2>3. PICK m : Write(p, r.id, w, m, Idle)
        BY <1>4 DEF RegistroSave, Save
    <2>4. r.id \in disturbed' \/ FreeBut(w.email, r.id)
        BY <2>1, <2>2, <2>3
           DEF Write, EmailInv, EmailChecked, Registering, Free, FreeBut
    <2>5. w.password = r.password /\ UNCHANGED unchecked
        BY <1>4, <2>1 DEF Registered, Inserted, User, RegistroSave
    <2>6. r.password # None
        BY <2>1 DEF EmailInv, EmailChecked, Giving, Registering
    <2> HIDE DEF r, w
    <2> QED
        BY <2>1, <2>2, <2>3, <2>4, <2>5, <2>6, WriteEmails, IdleType DEF HasPassword
<1>5. CASE RegistroCreate(p)
    <2> DEFINE r == req[p]
               u == Inserted(Registered([NoUser EXCEPT !.cedula = r.cedula], r))
    <2>1. r \in Request /\ r.cedula \in Cedulas /\ r.step = "registro_create"
        BY <1>5 DEF IInv, TypeOK, RequestsInv, CedulaGiven, Creating, RegistroCreate
    <2>2. u \in Row /\ u.email = r.email /\ u.token = None
        BY <2>1 DEF Inserted, Registered, NoUser, Row, User, Request
    <2>3. Write(p, nextId, u, u, Idle) /\ nextId \in Ids /\ UNCHANGED unchecked
        BY <1>5 DEF RegistroCreate, Insert
    <2>4. nextId \in disturbed' \/ FreeBut(u.email, nextId)
        BY <2>1, <2>2, <2>3
           DEF Write, EmailInv, EmailChecked, Registering, Free, FreeBut
    <2> HIDE DEF r, u
    <2> QED
        BY <2>2, <2>3, <2>4, WriteEmails, IdleType
<1> QED
    BY PlainAssumption, <1>1, <1>2, <1>3, <1>4, <1>5 DEF Registro

LEMMA EstablecerEmails ==
    ASSUME IInv, EmailInv, NEW p \in Requests, EstablecerPassword(p)
    PROVE  EmailInv'
<1>1. ASSUME NEW c \in Cedulas, NEW e \in Emails \union {None}, NEW pw \in Passwords,
             EstablecerBegins(p, c, e, pw)
      PROVE  EmailInv'
    <2> DEFINE r == [Idle EXCEPT !.step = IF e = None THEN "establecer_set"
                                          ELSE "establecer_email",
                                 !.cedula = c, !.email = e, !.password = pw,
                                 !.id = FindByCedula(c)]
    <2>1. Begins(p, r, FALSE) /\ r.email = e /\ r.password = pw /\ pw # None
            /\ r.step = IF e = None THEN "establecer_set" ELSE "establecer_email"
        BY <1>1 DEF EstablecerBegins, Idle
    <2> HIDE DEF r
    <2> QED
        BY <2>1, BeginsEmails DEF Registering, Checking
<1>2. CASE EstablecerEmail(p)
    <2> DEFINE missed == FindByEmail(req[p].email) \notin {None, req[p].id}
    <2>1. EmailsDistinct /\ req[p].email # None /\ req[p].step = "establecer_email"
        BY <1>2 DEF EstablecerEmail, EmailInv, EmailChecked, Checking
    <2>2. missed \/ FreeBut(req[p].email, req[p].id)
        BY <2>1, EmailFound
    <2>3. Continues(p, "establecer_set", missed)
        BY <1>2 DEF EstablecerEmail
    <2> HIDE DEF missed
    <2> QED
        BY <2>1, <2>2, <2>3, ContinuesEmails DEF Checking
<1>3. CASE EstablecerSet(p)
    <2> DEFINE r == req[p]
               i == r.id
               u == WithPassword(users[i], r)
    <2>1. r \in Request /\ i \in Ids /\ users[i] \in User
        BY <1>3, ExistsUser DEF IInv, TypeOK, EstablecerSet
    <2>2. r.password # None /\ r.step = "establecer_set"
        BY <1>3 DEF EmailInv, EmailChecked, Giving, EstablecerSet
    <2>3. /\ u \in Row /\ u.password = r.password
          /\ r.email # None => u.email = r.email
        BY <2>1 DEF WithPassword, Request, User, Row
    <2>4. PICK m : Write(p, i, u, m, Idle)
        BY <1>3 DEF EstablecerSet
    <2>5. unchecked' = IF r.email = None THEN unchecked \union {i} ELSE unchecked
        BY <1>3 DEF EstablecerSet
    <2>6. i \in disturbed' \union unchecked' \/ FreeBut(u.email, i)
        BY <2>2, <2>3, <2>4, <2>5 DEF Write, EmailInv, EmailChecked, Promising
    <2> HIDE DEF r, i, u
    <2> QED
        BY <2>1, <2>2, <2>3, <2>4, <2>5, <2>6, WriteEmails, IdleType DEF HasPassword
<1> QED
    BY PlainAssumption, <1>1, <1>2, <1>3 DEF EstablecerPassword

LEMMA PerfilEmails ==
    ASSUME IInv, EmailInv, NEW p \in Requests, UpdateProfile(p)
    PROVE  EmailInv'
<1>1. ASSUME NEW i \in Ids, NEW e \in Emails, PerfilBegins(p, i, e) PROVE EmailInv'
    <2> DEFINE r == [Idle EXCEPT !.step = "perfil_update", !.email = e, !.id = i]
               missed == FindByEmail(e) \notin {None, i}
    <2>1. Begins(p, r, missed) /\ r.step = "perfil_update" /\ r.email = e /\ r.id = i
        BY <1>1 DEF PerfilBegins, Idle
    <2>2. e # None /\ EmailsDistinct
        BY DEF EmailInv
    <2>3. missed \/ FreeBut(e, i)
        BY <2>2, EmailFound
    <2> HIDE DEF r, missed
    <2> QED
        BY <2>1, <2>2, <2>3, BeginsEmails DEF Registering, Checking, Giving
<1>2. CASE PerfilUpdate(p)
    <2> DEFINE i == req[p].id
               u == [users[i] EXCEPT !.email = req[p].email]
    <2>1. req[p] \in Request /\ i \in Ids /\ users[i] \in User
        BY <1>2, ExistsUser DEF IInv, TypeOK, PerfilUpdate
    <2>2. /\ u \in Row /\ u.email = req[p].email
          /\ u.password = users[i].password /\ u.token = users[i].token
        BY <2>1 DEF Request, User, Row
    <2>3. PICK m : Write(p, i, u, m, Idle)
        BY <1>2 DEF PerfilUpdate
    <2>4. i \in disturbed' \/ FreeBut(u.email, i)
        BY <1>2, <2>2, <2>3 DEF Write, EmailInv, EmailChecked, Promising, PerfilUpdate
    <2>5. i \in disturbed' \/ u.token = None \/ HasPassword(u)
        BY <2>1, <2>2, <2>3 DEF Write, EmailInv, LinkedAccounts, HasPassword
    <2>6. UNCHANGED unchecked
        BY <1>2 DEF PerfilUpdate
    <2> HIDE DEF i, u
    <2> QED
        BY <2>1, <2>2, <2>3, <2>4, <2>5, <2>6, WriteEmails, IdleType
<1> QED
    BY <1>1, <1>2 DEF UpdateProfile

LEMMA RecuperarEmails ==
    ASSUME IInv, EmailInv, NEW p \in Requests, SolicitarRecuperacion(p)
    PROVE  EmailInv'
<1>1. ASSUME NEW c \in Cedulas, RecuperarBegins(p, c) PROVE EmailInv'
    <2> DEFINE i == FindByCedulaWithPassword(c)
               r == [Idle EXCEPT !.step = "recuperar_set", !.id = i]
    <2>1. Begins(p, r, FALSE) /\ r.step = "recuperar_set" /\ r.id = i /\ IsAccount(i)
        BY <1>1, Finders DEF RecuperarBegins, Idle
    <2> HIDE DEF r, i
    <2> QED
        BY <2>1, BeginsEmails DEF Registering, Checking, Giving
<1>2. CASE RecuperarSet(p)
    <2> DEFINE i == req[p].id
               u == [users[i] EXCEPT !.token = mailed + 1]
    <2>1. i \in Ids /\ users[i] \in User
        BY <1>2, ExistsUser DEF IInv, TypeOK, RecuperarSet
    <2>2. /\ u \in Row /\ u.email = users[i].email
          /\ u.password = users[i].password
        BY <1>2, <2>1 DEF RecuperarSet, User, Row
    <2>3. PICK m : Write(p, i, u, m, Idle)
        BY <1>2 DEF RecuperarSet
    <2>4. IsAccount(i) \/ i \in disturbed'
        BY <1>2, <2>3 DEF Write, EmailInv, OfAccount, RecuperarSet
    <2>5. UNCHANGED unchecked
        BY <1>2 DEF RecuperarSet
    <2>6. i \in disturbed' \/ HasPassword(u)
        BY <2>2, <2>4 DEF IsAccount, HasPassword
    <2> HIDE DEF i, u
    <2> QED
        BY <2>1, <2>2, <2>3, <2>4, <2>5, <2>6, WriteEmails, IdleType
<1> QED
    BY PlainAssumption, <1>1, <1>2 DEF SolicitarRecuperacion

LEMMA ResetEmails ==
    ASSUME IInv, EmailInv, NEW p \in Requests, ResetPassword(p)
    PROVE  EmailInv'
<1>1. ASSUME NEW t \in Tokens, NEW pw \in Passwords, ResetBegins(p, t, pw)
      PROVE  EmailInv'
    <2> DEFINE i == FindByResetToken(t)
               r == [Idle EXCEPT !.step = "reset_set", !.password = pw, !.id = i,
                                 !.token = t]
    <2>1. Begins(p, r, FALSE) /\ r.step = "reset_set" /\ r.id = i /\ r.password # None
        BY <1>1 DEF ResetBegins, Idle
    <2>2. i \in Ids /\ users[i].token = t /\ t # None
        BY <1>1, Finders DEF ResetBegins
    <2>3. IsAccount(i) \/ i \in disturbed
        BY <2>2 DEF EmailInv, LinkedAccounts, IsAccount, Exists, NoUser
    <2> HIDE DEF r, i
    <2> QED
        BY <2>1, <2>3, BeginsEmails DEF Registering, Checking, Giving
<1>2. CASE ResetSet(p)
    <2> DEFINE i == req[p].id
               u == [users[i] EXCEPT !.password = req[p].password]
               next == [req[p] EXCEPT !.step = "reset_clear"]
    <2>1. i \in Ids /\ users[i] \in User /\ req[p] \in Request
            /\ req[p].password # None
        BY <1>2, ExistsUser DEF IInv, TypeOK, ResetSet, EmailInv, EmailChecked, Giving
    <2>2. /\ u \in Row /\ u.email = users[i].email
          /\ u.password = req[p].password /\ next.step = "reset_clear"
        BY <1>2, <2>1 DEF ResetSet, User, Row, Request
    <2>3. PICK m : Write(p, i, u, m, next)
        BY <1>2 DEF ResetSet
    <2>4. IsAccount(i) \/ i \in disturbed'
        BY <1>2, <2>3 DEF Write, EmailInv, OfAccount, ResetSet
    <2>5. UNCHANGED unchecked
        BY <1>2 DEF ResetSet
    <2>6. HasPassword(u)
        BY <2>1, <2>2 DEF HasPassword
    <2>7. i \in Ids /\ u \in Row /\ u.email = users[i].email /\ next.step = "reset_clear"
        BY <2>1, <2>2
    <2> HIDE DEF i, u, next
    <2> QED
        BY <2>3, <2>4, <2>5, <2>6, <2>7, WriteEmails
<1>3. CASE ResetClear(p)
    <2> DEFINE i == req[p].id
               u == [users[i] EXCEPT !.token = None]
    <2>1. i \in Ids /\ users[i] \in User /\ Exists(i)
        BY <1>3, ExistsUser DEF IInv, TypeOK, ResetClear
    <2>2. /\ u \in Row /\ u.email = users[i].email
          /\ u.password = users[i].password /\ u.token = None
        BY <1>3, <2>1 DEF ResetClear, User, Row
    <2>3. PICK m : Write(p, i, u, m, Idle)
        BY <1>3 DEF ResetClear
    <2>4. UNCHANGED unchecked
        BY <1>3 DEF ResetClear
    <2>5. IsAccount(i) \/ ~HasPassword(u)
        BY <2>1, <2>2 DEF IsAccount, HasPassword
    <2> HIDE DEF i, u
    <2> QED
        BY <2>1, <2>2, <2>3, <2>4, <2>5, WriteEmails, IdleType
<1> QED
    BY <1>1, <1>2, <1>3 DEF ResetPassword

LEMMA CambiarEmails ==
    ASSUME IInv, EmailInv, NEW p \in Requests, CambiarPassword(p)
    PROVE  EmailInv'
<1>1. ASSUME NEW i \in Ids, NEW pw \in Passwords, NEW new \in Passwords,
             CambiarBegins(p, i, pw, new)
      PROVE  EmailInv'
    <2> DEFINE r == [Idle EXCEPT !.step = "cambiar_set", !.password = new, !.id = i]
    <2>1. Begins(p, r, FALSE) /\ r.step = "cambiar_set" /\ r.id = i /\ r.password # None
        BY <1>1 DEF CambiarBegins, Idle
    <2>2. IsAccount(i)
        BY <1>1 DEF CambiarBegins, IsAccount, HasPassword
    <2> HIDE DEF r
    <2> QED
        BY <2>1, <2>2, BeginsEmails DEF Registering, Checking, Giving
<1>2. CASE CambiarSet(p)
    <2> DEFINE i == req[p].id
               u == [users[i] EXCEPT !.password = req[p].password]
    <2>1. i \in Ids /\ users[i] \in User /\ req[p] \in Request
            /\ req[p].password # None
        BY <1>2, ExistsUser DEF IInv, TypeOK, CambiarSet, EmailInv, EmailChecked, Giving
    <2>2. /\ u \in Row /\ u.email = users[i].email
          /\ u.password = req[p].password
        BY <1>2, <2>1 DEF CambiarSet, User, Row, Request
    <2>3. PICK m : Write(p, i, u, m, Idle)
        BY <1>2 DEF CambiarSet
    <2>4. IsAccount(i) \/ i \in disturbed'
        BY <1>2, <2>3 DEF Write, EmailInv, OfAccount, CambiarSet
    <2>5. UNCHANGED unchecked
        BY <1>2 DEF CambiarSet
    <2>6. HasPassword(u)
        BY <2>1, <2>2 DEF HasPassword
    <2>7. i \in Ids /\ u \in Row /\ u.email = users[i].email
        BY <2>1, <2>2
    <2> HIDE DEF i, u
    <2> QED
        BY <2>3, <2>4, <2>5, <2>6, <2>7, WriteEmails, IdleType
<1> QED
    BY <1>1, <1>2 DEF CambiarPassword

LEMMA AdministratorEmails ==
    ASSUME IInv, EmailInv, NEW p \in Requests, Administrator(p)
    PROVE  EmailInv'
<1>1. ASSUME NEW c \in Cedulas, NEW e \in Emails \union {None},
             NEW pw \in Passwords \union {None}, CreateUserBegins(p, c, e, pw)
      PROVE  EmailInv'
    BY <1>1, BeginsEmails DEF CreateUserBegins, Idle, Registering, Checking, Giving
<1>2. CASE CreateUser(p)
    <2> DEFINE r == req[p]
               u == Inserted([NoUser EXCEPT !.cedula = r.cedula, !.email = r.email,
                                            !.password = r.password])
    <2>1. r \in Request /\ r.cedula \in Cedulas
        BY <1>2 DEF IInv, TypeOK, RequestsInv, CedulaGiven, Creating, CreateUser
    <2>2. u \in Row /\ u.token = None
        BY <2>1 DEF Inserted, NoUser, Row, User, Request
    <2>3. Write(p, nextId, u, u, Idle) /\ nextId \in Ids
            /\ unchecked' = unchecked \union {nextId}
        BY <1>2 DEF CreateUser, Insert
    <2>4. unchecked \subseteq unchecked' /\ nextId \in disturbed' \union unchecked'
        BY <2>3
    <2> HIDE DEF r, u
    <2> QED
        BY <2>2, <2>3, <2>4, WriteEmails, IdleType
<1>3. ASSUME NEW i \in Ids, UpdateUserBegins(p, i) PROVE EmailInv'
    BY <1>3, BeginsEmails DEF UpdateUserBegins, Idle, Registering, Checking, Giving
<1>4. ASSUME NEW i \in Ids, DeleteUser(p, i) PROVE EmailInv'
    <2>1. Write(p, i, NoUser, NoUser, Idle) /\ UNCHANGED unchecked
        BY <1>4 DEF DeleteUser
    <2>2. ~HasPassword(NoUser) /\ NoUser.token = None
        BY DEF HasPassword, NoUser
    <2> QED
        BY <2>1, <2>2, WriteEmails, IdleType
<1>5. CASE UpdateUser(p)
    <2> DEFINE r == req[p]
               i == r.id
    <2>1. r \in Request /\ i \in Ids /\ r.row \in User
            /\ (p \in blind \/ users[i] = r.row)
        BY <1>5 DEF IInv, TypeOK, RequestsInv, RowRead, Reading, UpdateUser
    <2>2. PICK new \in Edits(r.row) :
            /\ Save(p, i, new, EditedAs(meant[i], r.row, new))
            /\ unchecked' = IF new.email # r.row.email \/ ~HasPassword(r.row)
                            THEN unchecked \union {i} ELSE unchecked
        BY <1>5 DEF UpdateUser
    <2> DEFINE w == IF Exists(i) THEN new ELSE Inserted(new)
    <2>3. Write(p, i, w, EditedAs(meant[i], r.row, new), Idle)
        BY <2>2 DEF Save
    <2>4. new \in User
        BY <2>1, EditsType
    <2>5. w \in Row /\ w.email = new.email /\ w.password = new.password
            /\ w.token = new.token
        BY <2>4 DEF Inserted, User, Row
    <2>6. new.token = r.row.token /\ (HasPassword(r.row) => HasPassword(new))
        BY <2>1 DEF Edits, User, HasPassword
    <2>7. p \in blind => i \in disturbed'
        BY <2>3 DEF Write
    <2>8. disturbed \subseteq disturbed'
        BY <2>3 DEF Write
    <2>9. i \in disturbed' \/ w.token = None \/ HasPassword(w)
        BY <2>1, <2>5, <2>6, <2>7, <2>8 DEF EmailInv, LinkedAccounts, HasPassword
    <2>10. \/ i \in disturbed' \union unchecked'
           \/ IsAccount(i) /\ users[i].email = w.email
        <3>1. CASE p \in blind
            BY <2>7, <3>1
        <3>2. CASE users[i] = r.row
            <4>1. r.row # NoUser
                BY <2>1 DEF User, NoUser
            <4> QED
                BY <2>1, <2>2, <2>5, <3>2, <4>1 DEF IsAccount, Exists
        <3> QED
            BY <2>1, <3>1, <3>2
    <2>11. unchecked \subseteq unchecked'
        BY <2>2
    <2> HIDE DEF r, i, w
    <2> QED
        BY <2>1, <2>3, <2>5, <2>9, <2>10, <2>11, WriteEmails, IdleType
<1> QED
    BY <1>1, <1>2, <1>3, <1>4, <1>5 DEF Administrator

LEMMA FailsEmails ==
    ASSUME IInv, EmailInv, NEW p \in Requests, Fails(p)
    PROVE  EmailInv'
<1>1. req' = [req EXCEPT ![p] = Idle] /\ UNCHANGED <<users, disturbed, unchecked>>
        /\ blind \ {p} \subseteq blind'
    BY DEF Fails, Ends, table
<1>2. req'[p].step = "idle"
    BY <1>1, IdleType DEF IInv, TypeOK
<1>3. EmailChecked(p)' /\ OfAccount(p)'
    BY <1>2 DEF EmailChecked, OfAccount, Checking, Registering, Giving, Promising
<1> QED
    BY <1>1, <1>3, QuietEmails

(***************************************************************************)
(* Two accounts share an e-mail only where it was not checked or where a   *)
(* blind request has written one of them, for any number of e-mails.        *)
(***************************************************************************)
THEOREM EmailsStayDistinct == Spec => []EmailsDistinct
<1>1. Init => EmailInv
    <2> SUFFICES ASSUME Init PROVE EmailInv
        OBVIOUS
    <2>1. users \in CleanTables /\ req = [p \in Requests |-> Idle]
        BY DEF Init
    <2>2. EmailsDistinct
        BY <2>1 DEF CleanTables, EmailsDistinct, IsAccount, Exists
    <2>3. LinkedAccounts
        BY <2>1 DEF CleanTables, LinkedAccounts, NoUser
    <2>4. ASSUME NEW p \in Requests PROVE EmailChecked(p) /\ OfAccount(p)
        BY <2>1, IdleType DEF EmailChecked, OfAccount, Checking, Registering, Giving, Promising
    <2> QED
        BY <2>2, <2>3, <2>4 DEF EmailInv
<1>2. IInv /\ EmailInv /\ [Next]_vars => EmailInv'
    <2> SUFFICES ASSUME IInv, EmailInv, [Next]_vars PROVE EmailInv'
        OBVIOUS
    <2>1. ASSUME UNCHANGED <<users, req, disturbed, unchecked, blind>> PROVE EmailInv'
        BY <2>1 DEF EmailInv, EmailsDistinct, LinkedAccounts, EmailChecked, OfAccount,
                    Promising, Free, FreeBut, Bad, IsAccount, Exists
    <2>2. ASSUME NEW i \in Ids, NEW pw \in Passwords, Login(i, pw) PROVE EmailInv'
        BY <2>1, <2>2 DEF Login, table, ghosts
    <2>3. ASSUME UNCHANGED vars PROVE EmailInv'
        BY <2>1, <2>3 DEF vars, table, ghosts
    <2> QED
        BY <2>2, <2>3, RegistroEmails, EstablecerEmails, PerfilEmails, RecuperarEmails,
           ResetEmails, CambiarEmails, AdministratorEmails, FailsEmails DEF Next
<1>3. EmailInv => EmailsDistinct
    BY DEF EmailInv
<1> QED
    BY <1>1, <1>2, <1>3, Invariance, PTL DEF Spec

-----------------------------------------------------------------------------
(***************************************************************************)
(* What a step can do, as far as cedulas and links go: a request looks     *)
(* something up and goes on (Moves), or writes one row (Writes), or        *)
(* neither.                                                                *)
(***************************************************************************)
NewRow == {"registro_create", "create_user"}

\* What a request has just looked up, r being what it goes on with.
LookedUp(p, r) ==
    /\ r.step # "reset_clear"
    /\ r.step \in Reading => r.id \in Ids /\ r.row = users[r.id]
    /\ r.step = "reset_set" => r.id \in Ids /\ users[r.id].token = r.token
    /\ r.step = "registro_email" => FindByCedulaWithPassword(r.cedula) = None
    /\ r.step = "registro_find" => req[p].step = "registro_email" /\ r.cedula = req[p].cedula
    /\ r.step \in NewRow =>
        \/ p \in blind'
        \/ FindByCedula(r.cedula) = None
        \/ /\ req[p].step = "registro_find" /\ r.cedula = req[p].cedula
           /\ FindByCedula(r.cedula) # None
           /\ HasPassword(users[FindByCedula(r.cedula)])

Moves(p, r) ==
    /\ UNCHANGED <<users, disturbed, mailed, spent, again>>
    /\ req' = [req EXCEPT ![p] = r]
    /\ unclear' = IF req[p].step = "reset_clear" THEN unclear \union {req[p].token} ELSE unclear
    /\ blind \ {p} \subseteq blind'
    /\ r.step = "idle" \/ (blind \subseteq blind' /\ LookedUp(p, r))

Writes(p, i, u, next) ==
    /\ users' = [users EXCEPT ![i] = u] /\ req' = [req EXCEPT ![p] = next]
    /\ disturbed' = IF p \in blind THEN disturbed \union {i} ELSE disturbed
    /\ \A q \in Requests \ {p} :
        q \notin blind' /\ req[q].step # "idle" => q \notin blind /\ (users[i] = u \/ ~About(q, i, u))
    /\ \/ u = NoUser
       \/ i \in disturbed'
       \/ Exists(i) /\ u.cedula = users[i].cedula
       \/ req[p].step \in NewRow /\ u.cedula = req[p].cedula
    /\ \/ u.token = None /\ mailed' = mailed
       \/ u.token = users[i].token /\ mailed' = mailed
       \/ /\ req[p].step \in Reading /\ req[p].id = i /\ mailed' = mailed
          /\ u.token = req[p].row.token /\ (p \notin blind => u.token = users[i].token)
       \/ u.token = mailed + 1 /\ mailed' = mailed + 1 /\ u.token \in Tokens
    /\ \/ next = Idle /\ req[p].step # "reset_clear" /\ UNCHANGED links
       \/ /\ next = Idle /\ req[p].step = "reset_clear" /\ req[p].id = i
          /\ u.token = None /\ UNCHANGED links
       \/ /\ req[p].step = "reset_set" /\ req[p].id = i /\ mailed' = mailed
          /\ next = [req[p] EXCEPT !.step = "reset_clear"]
          /\ spent' = spent \union {req[p].token} /\ unclear' = unclear
          /\ again' = IF req[p].token \in spent /\ p \notin blind /\ ~Clearing(req[p].token)
                      THEN again \union {<<req[p].token, i>>} ELSE again

Quiet == UNCHANGED <<users, req, blind, disturbed, mailed, spent, unclear, again>>

Does(p) ==
    \/ \E r \in Request : Moves(p, r)
    \/ \E i \in Ids, u \in Row, next \in Request : Writes(p, i, u, next)

LEMMA BeginsMoves ==
    ASSUME IInv, NEW p \in Requests, NEW r \in Request, NEW missed, Begins(p, r, missed),
           r.step \notin {"reset_clear", "registro_find"},
           r.step \in Reading => r.id \in Ids /\ r.row = users[r.id],
           r.step = "reset_set" => r.id \in Ids /\ users[r.id].token = r.token,
           r.step = "registro_email" => FindByCedulaWithPassword(r.cedula) = None,
           r.step \in NewRow => missed \/ FindByCedula(r.cedula) = None
    PROVE  Does(p)
<1>1. blind \subseteq blind' /\ (missed => p \in blind')
    BY DEF Begins, Reads
<1>2. LookedUp(p, r)
    BY <1>1 DEF LookedUp
<1>3. Moves(p, r)
    BY <1>1, <1>2 DEF Moves, Begins, Reads, InProgress, table, links
<1> QED
    BY <1>3 DEF Does

LEMMA WriteWrites ==
    ASSUME IInv, NEW p \in Requests, NEW i \in Ids, NEW u \in Row, NEW m, NEW next \in Request,
           Write(p, i, u, m, next),
           \/ u = NoUser
           \/ i \in disturbed'
           \/ Exists(i) /\ u.cedula = users[i].cedula
           \/ req[p].step \in NewRow /\ u.cedula = req[p].cedula,
           \/ u.token = None /\ mailed' = mailed
           \/ u.token = users[i].token /\ mailed' = mailed
           \/ /\ req[p].step \in Reading /\ req[p].id = i /\ mailed' = mailed
              /\ u.token = req[p].row.token /\ (p \notin blind => u.token = users[i].token)
           \/ u.token = mailed + 1 /\ mailed' = mailed + 1 /\ u.token \in Tokens,
           \/ next = Idle /\ req[p].step # "reset_clear" /\ UNCHANGED links
           \/ /\ next = Idle /\ req[p].step = "reset_clear" /\ req[p].id = i
              /\ u.token = None /\ UNCHANGED links
           \/ /\ req[p].step = "reset_set" /\ req[p].id = i /\ mailed' = mailed
              /\ next = [req[p] EXCEPT !.step = "reset_clear"]
              /\ spent' = spent \union {req[p].token} /\ unclear' = unclear
              /\ again' = IF req[p].token \in spent /\ p \notin blind /\ ~Clearing(req[p].token)
                          THEN again \union {<<req[p].token, i>>} ELSE again
    PROVE  Does(p)
<1>1. /\ users' = [users EXCEPT ![i] = u] /\ req' = [req EXCEPT ![p] = next]
      /\ disturbed' = IF p \in blind THEN disturbed \union {i} ELSE disturbed
    BY DEF Write
<1>2. ASSUME NEW q \in Requests \ {p}, q \notin blind', req[q].step # "idle"
      PROVE  q \notin blind /\ (users[i] = u \/ ~About(q, i, u))
    <2>1. req'[q] = req[q]
        BY <1>1, <1>2 DEF IInv, TypeOK
    <2> QED
        BY <1>2, <2>1 DEF Write
<1>3. Writes(p, i, u, next)
    BY <1>1, <1>2 DEF Writes
<1> QED
    BY <1>3 DEF Does

\* Setting columns of a row, but for its cedula and its link.
LEMMA ColumnsDo ==
    ASSUME IInv, NEW p \in Requests, NEW i, Exists(i), NEW u \in User, NEW m,
           Write(p, i, u, m, Idle), u.cedula = users[i].cedula, u.token = users[i].token,
           mailed' = mailed, req[p].step # "reset_clear", UNCHANGED links
    PROVE  Does(p)
<1>1. i \in Ids /\ u \in Row
    BY ExistsUser DEF IInv, Row
<1> QED
    BY <1>1, WriteWrites, IdleType

LEMMA RegistroDoes ==
    ASSUME IInv, NEW p \in Requests, Registro(p)
    PROVE  Does(p)
<1>0. req[p] \in Request
    BY DEF IInv, TypeOK
<1>1. ASSUME NEW c \in Cedulas, NEW e \in Emails, NEW pw \in Passwords,
             RegistroBegins(p, c, e, pw)
      PROVE  Does(p)
    <2> DEFINE r == [Idle EXCEPT !.step = "registro_email", !.cedula = c, !.email = e,
                                 !.password = pw]
    <2>1. r \in Request /\ r.step = "registro_email" /\ r.cedula = c
        BY DEF Idle, Request, Steps, Row
    <2>2. Begins(p, r, FALSE) /\ FindByCedulaWithPassword(c) = None
        BY <1>1 DEF RegistroBegins
    <2> HIDE DEF r
    <2> QED
        BY <2>1, <2>2, BeginsMoves DEF Reading, NewRow
<1>2. CASE RegistroEmail(p)
    <2> DEFINE r == [req[p] EXCEPT !.step = "registro_find"]
    <2>1. r \in Request /\ r.step = "registro_find" /\ r.cedula = req[p].cedula
        BY <1>0 DEF Request, Steps
    <2>2. req' = [req EXCEPT ![p] = r] /\ Reads(p, FALSE) /\ req[p].step = "registro_email"
        BY <1>2 DEF RegistroEmail, Continues
    <2> HIDE DEF r
    <2>3. Moves(p, r)
        BY <2>1, <2>2 DEF Moves, Reads, LookedUp, Reading, NewRow, table, links
    <2> QED
        BY <2>1, <2>3 DEF Does
<1>3. CASE RegistroFind(p)
    <2> DEFINE i == FindByCedula(req[p].cedula)
               found == i # None /\ ~HasPassword(users[i])
               takes == [req[p] EXCEPT !.step = "registro_save", !.id = i, !.row = users[i]]
               creates == [req[p] EXCEPT !.step = "registro_create"]
    <2>1. req[p].step = "registro_find" /\ i \in Ids \union {None}
        BY <1>3, Finders DEF RegistroFind
    <2>2. CASE found /\ req' = [req EXCEPT ![p] = takes] /\ Reads(p, FALSE)
        <3>1. i \in Ids /\ users[i] \in Row
            BY <2>1, <2>2 DEF IInv, TypeOK
        <3>2. takes \in Request /\ takes.step = "registro_save" /\ takes.id = i
                /\ takes.row = users[i]
            BY <1>0, <3>1 DEF Request, Steps
        <3>3. req' = [req EXCEPT ![p] = takes] /\ Reads(p, FALSE)
            BY <2>2
        <3> HIDE DEF takes, i
        <3>4. Moves(p, takes)
            BY <2>1, <3>1, <3>2, <3>3 DEF Moves, Reads, LookedUp, Reading, NewRow, table, links
        <3> QED
            BY <3>2, <3>4 DEF Does
    <2>3. CASE Continues(p, "registro_create", found)
        <3>1. creates \in Request /\ creates.step = "registro_create"
                /\ creates.cedula = req[p].cedula
            BY <1>0 DEF Request, Steps
        <3>2. req' = [req EXCEPT ![p] = creates] /\ Reads(p, found)
            BY <2>3 DEF Continues
        <3>3. p \in blind' \/ i = None \/ (i # None /\ HasPassword(users[i]))
            BY <3>2 DEF Reads
        <3>4. blind \subseteq blind'
            BY <3>2 DEF Reads
        <3>5. UNCHANGED <<users, disturbed, mailed, spent, unclear, again>>
            BY <3>2 DEF Reads, table, links
        <3> HIDE DEF creates
        <3>6. LookedUp(p, creates)
            BY <2>1, <3>1, <3>3 DEF LookedUp, Reading, NewRow
        <3>7. Moves(p, creates)
            BY <2>1, <3>1, <3>2, <3>4, <3>5, <3>6 DEF Moves
        <3> QED
            BY <3>1, <3>7 DEF Does
    <2> QED
        BY <1>3, <2>2, <2>3 DEF RegistroFind
<1>4. CASE RegistroSave(p)
    <2> DEFINE r == req[p]
               u == Registered(r.row, r)
               w == IF Exists(r.id) THEN u ELSE Inserted(u)
    <2>1. r \in Request /\ r.id \in Ids /\ r.row \in User /\ r.step = "registro_save"
            /\ (p \in blind \/ users[r.id] = r.row)
        BY <1>4 DEF IInv, TypeOK, RequestsInv, RowRead, Reading, RegistroSave
    <2>2. u \in User /\ u.cedula = r.row.cedula /\ u.token = r.row.token
        BY <2>1 DEF Registered, User, Request
    <2>3. w \in Row /\ w.cedula = r.row.cedula /\ w.token = r.row.token
        BY <2>2 DEF Inserted, User, Row
    <2>4. PICK m : Write(p, r.id, w, m, Idle)
        BY <1>4 DEF RegistroSave, Save
    <2>5. UNCHANGED <<mailed, links>>
        BY <1>4 DEF RegistroSave
    <2>6. r.id \in disturbed' \/ (Exists(r.id) /\ w.cedula = users[r.id].cedula)
        <3>1. CASE p \in blind
            BY <2>4, <3>1 DEF Write
        <3>2. CASE p \notin blind
            BY <2>1, <2>3, <3>2 DEF Exists, User, NoUser
        <3> QED
            BY <3>1, <3>2
    <2>7. p \notin blind => w.token = users[r.id].token
        BY <2>1, <2>3
    <2> HIDE DEF w
    <2> QED
        BY <2>1, <2>3, <2>4, <2>5, <2>6, <2>7, WriteWrites, IdleType DEF Reading
<1>5. CASE RegistroCreate(p)
    <2> DEFINE r == req[p]
               u == Inserted(Registered([NoUser EXCEPT !.cedula = r.cedula], r))
    <2>1. r \in Request /\ r.cedula \in Cedulas /\ r.step = "registro_create"
        BY <1>5 DEF IInv, TypeOK, RequestsInv, CedulaGiven, Creating, RegistroCreate
    <2>2. u \in Row /\ u.cedula = r.cedula /\ u.token = None
        BY <2>1 DEF Inserted, Registered, NoUser, Row, User, Request
    <2>3. Write(p, nextId, u, u, Idle) /\ nextId \in Ids /\ UNCHANGED <<mailed, links>>
        BY <1>5 DEF RegistroCreate, Insert
    <2> HIDE DEF u
    <2> QED
        BY <2>1, <2>2, <2>3, WriteWrites, IdleType DEF NewRow
<1> QED
    BY PlainAssumption, <1>1, <1>2, <1>3, <1>4, <1>5 DEF Registro

LEMMA EstablecerDoes ==
    ASSUME IInv, NEW p \in Requests, EstablecerPassword(p) \/ UpdateProfile(p)
    PROVE  Does(p)
<1>0. req[p] \in Request
    BY DEF IInv, TypeOK
<1>1. ASSUME NEW c \in Cedulas, NEW e \in Emails \union {None}, NEW pw \in Passwords,
             EstablecerBegins(p, c, e, pw)
      PROVE  Does(p)
    <2> DEFINE r == [Idle EXCEPT !.step = IF e = None THEN "establecer_set"
                                          ELSE "establecer_email",
                                 !.cedula = c, !.email = e, !.password = pw,
                                 !.id = FindByCedula(c)]
    <2>1. Begins(p, r, FALSE) /\ FindByCedula(c) \in Ids
        BY <1>1, Finders DEF EstablecerBegins
    <2>2. r \in Request /\ r.step \in {"establecer_set", "establecer_email"}
        BY <2>1 DEF Idle, Request, Steps, Row
    <2> HIDE DEF r
    <2> QED
        BY <2>1, <2>2, BeginsMoves DEF Reading, NewRow
<1>2. CASE EstablecerEmail(p)
    <2> DEFINE r == [req[p] EXCEPT !.step = "establecer_set"]
               missed == FindByEmail(req[p].email) \notin {None, req[p].id}
    <2>1. r \in Request /\ r.step = "establecer_set"
        BY <1>0 DEF Request, Steps
    <2>2. req' = [req EXCEPT ![p] = r] /\ Reads(p, missed) /\ req[p].step = "establecer_email"
        BY <1>2 DEF EstablecerEmail, Continues
    <2> HIDE DEF r, missed
    <2>3. Moves(p, r)
        BY <2>1, <2>2 DEF Moves, Reads, LookedUp, Reading, NewRow, table, links
    <2> QED
        BY <2>1, <2>3 DEF Does
<1>3. CASE EstablecerSet(p)
    <2> DEFINE r == req[p]
               i == r.id
               u == WithPassword(users[i], r)
    <2>1. Exists(i) /\ users[i] \in User /\ r.step = "establecer_set"
        BY <1>3, ExistsUser DEF IInv, EstablecerSet
    <2>2. u \in User /\ u.cedula = users[i].cedula /\ u.token = users[i].token
        BY <1>0, <2>1 DEF WithPassword, Request, User
    <2>3. PICK m : Write(p, i, u, m, Idle)
        BY <1>3 DEF EstablecerSet
    <2>4. UNCHANGED <<mailed, links>>
        BY <1>3 DEF EstablecerSet
    <2> HIDE DEF u
    <2> QED
        BY <2>1, <2>2, <2>3, <2>4, ColumnsDo
<1>4. ASSUME NEW i \in Ids, NEW e \in Emails, PerfilBegins(p, i, e) PROVE Does(p)
    <2> DEFINE r == [Idle EXCEPT !.step = "perfil_update", !.email = e, !.id = i]
    <2>1. r \in Request /\ r.step = "perfil_update"
            /\ Begins(p, r, FindByEmail(e) \notin {None, i})
        BY <1>4 DEF Idle, Request, Steps, Row, PerfilBegins
    <2> HIDE DEF r
    <2> QED
        BY <2>1, BeginsMoves DEF Reading, NewRow
<1>5. CASE PerfilUpdate(p)
    <2> DEFINE i == req[p].id
               u == [users[i] EXCEPT !.email = req[p].email]
    <2>1. Exists(i) /\ users[i] \in User /\ req[p].step = "perfil_update"
        BY <1>5, ExistsUser DEF IInv, PerfilUpdate
    <2>2. u \in User /\ u.cedula = users[i].cedula /\ u.token = users[i].token
        BY <1>0, <2>1 DEF Request, User
    <2>3. PICK m : Write(p, i, u, m, Idle)
        BY <1>5 DEF PerfilUpdate
    <2>4. UNCHANGED <<mailed, links>>
        BY <1>5 DEF PerfilUpdate
    <2> HIDE DEF u
    <2> QED
        BY <2>1, <2>2, <2>3, <2>4, ColumnsDo
<1> QED
    BY PlainAssumption, <1>1, <1>2, <1>3, <1>4, <1>5 DEF EstablecerPassword, UpdateProfile

LEMMA RecuperarDoes ==
    ASSUME IInv, NEW p \in Requests, SolicitarRecuperacion(p)
    PROVE  Does(p)
<1>0. req[p] \in Request
    BY DEF IInv, TypeOK
<1>1. ASSUME NEW c \in Cedulas, RecuperarBegins(p, c) PROVE Does(p)
    <2> DEFINE r == [Idle EXCEPT !.step = "recuperar_set", !.id = FindByCedulaWithPassword(c)]
    <2>1. Begins(p, r, FALSE) /\ FindByCedulaWithPassword(c) \in Ids
        BY <1>1, Finders DEF RecuperarBegins
    <2>2. r \in Request /\ r.step = "recuperar_set"
        BY <2>1 DEF Idle, Request, Steps, Row
    <2> HIDE DEF r
    <2> QED
        BY <2>1, <2>2, BeginsMoves DEF Reading, NewRow
<1>2. CASE RecuperarSet(p)
    <2> DEFINE i == req[p].id
               t == mailed + 1
               u == [users[i] EXCEPT !.token = t]
    <2>1. Exists(i) /\ i \in Ids /\ users[i] \in User /\ req[p].step = "recuperar_set"
        BY <1>2, ExistsUser DEF IInv, RecuperarSet
    <2>2. t \in Tokens /\ mailed' = t /\ UNCHANGED links
        BY <1>2 DEF RecuperarSet
    <2>3. u \in Row /\ u.cedula = users[i].cedula /\ u.token = t
        BY <2>1, <2>2 DEF User, Row
    <2>4. PICK m : Write(p, i, u, m, Idle)
        BY <1>2 DEF RecuperarSet
    <2> HIDE DEF u
    <2> QED
        BY <2>1, <2>2, <2>3, <2>4, WriteWrites, IdleType
<1> QED
    BY PlainAssumption, <1>1, <1>2 DEF SolicitarRecuperacion

LEMMA ResetDoes ==
    ASSUME IInv, NEW p \in Requests, ResetPassword(p)
    PROVE  Does(p)
<1>0. req[p] \in Request
    BY DEF IInv, TypeOK
<1>1. ASSUME NEW t \in Tokens, NEW pw \in Passwords, ResetBegins(p, t, pw) PROVE Does(p)
    <2> DEFINE i == FindByResetToken(t)
               r == [Idle EXCEPT !.step = "reset_set", !.password = pw, !.id = i, !.token = t]
    <2>1. Begins(p, r, FALSE) /\ i \in Ids /\ users[i].token = t
        BY <1>1, Finders DEF ResetBegins
    <2>2. r \in Request /\ r.step = "reset_set" /\ r.id = i /\ r.token = t
        BY <2>1 DEF Idle, Request, Steps, Row
    <2> HIDE DEF r, i
    <2> QED
        BY <2>1, <2>2, BeginsMoves DEF Reading, NewRow
<1>2. CASE ResetSet(p)
    <2> DEFINE r == req[p]
               i == r.id
               u == [users[i] EXCEPT !.password = r.password]
               next == [r EXCEPT !.step = "reset_clear"]
    <2>1. Exists(i) /\ i \in Ids /\ users[i] \in User /\ r.step = "reset_set"
        BY <1>2, ExistsUser DEF IInv, ResetSet
    <2>2. u \in Row /\ u.cedula = users[i].cedula /\ u.token = users[i].token
        BY <1>0, <2>1 DEF User, Row, Request
    <2>3. next \in Request
        BY <1>0 DEF Request, Steps
    <2>4. PICK m : Write(p, i, u, m, next)
        BY <1>2 DEF ResetSet
    <2>5. /\ mailed' = mailed /\ unclear' = unclear
          /\ spent' = spent \union {r.token}
          /\ again' = IF r.token \in spent /\ p \notin blind /\ ~Clearing(r.token)
                      THEN again \union {<<r.token, i>>} ELSE again
        BY <1>2 DEF ResetSet
    <2>6. next = [req[p] EXCEPT !.step = "reset_clear"]
        OBVIOUS
    <2> HIDE DEF u, next
    <2> QED
        BY <2>1, <2>2, <2>3, <2>4, <2>5, <2>6, WriteWrites
<1>3. CASE ResetClear(p)
    <2> DEFINE i == req[p].id
               u == [users[i] EXCEPT !.token = None]
    <2>1. Exists(i) /\ i \in Ids /\ users[i] \in User /\ req[p].step = "reset_clear"
        BY <1>3, ExistsUser DEF IInv, ResetClear
    <2>2. mailed' = mailed /\ UNCHANGED links
        BY <1>3 DEF ResetClear
    <2>3. u \in Row /\ u.cedula = users[i].cedula /\ u.token = None
        BY <2>1 DEF User, Row
    <2>4. PICK m : Write(p, i, u, m, Idle)
        BY <1>3 DEF ResetClear
    <2> HIDE DEF u
    <2> QED
        BY <2>1, <2>2, <2>3, <2>4, WriteWrites, IdleType
<1> QED
    BY <1>1, <1>2, <1>3 DEF ResetPassword

LEMMA CambiarDoes ==
    ASSUME IInv, NEW p \in Requests, CambiarPassword(p)
    PROVE  Does(p)
<1>0. req[p] \in Request
    BY DEF IInv, TypeOK
<1>1. ASSUME NEW i \in Ids, NEW pw \in Passwords, NEW new \in Passwords,
             CambiarBegins(p, i, pw, new)
      PROVE  Does(p)
    <2> DEFINE r == [Idle EXCEPT !.step = "cambiar_set", !.password = new, !.id = i]
    <2>1. r \in Request /\ r.step = "cambiar_set" /\ Begins(p, r, FALSE)
        BY <1>1 DEF Idle, Request, Steps, Row, CambiarBegins
    <2> HIDE DEF r
    <2> QED
        BY <2>1, BeginsMoves DEF Reading, NewRow
<1>2. CASE CambiarSet(p)
    <2> DEFINE i == req[p].id
               u == [users[i] EXCEPT !.password = req[p].password]
    <2>1. Exists(i) /\ users[i] \in User /\ req[p].step = "cambiar_set"
        BY <1>2, ExistsUser DEF IInv, CambiarSet
    <2>2. u \in User /\ u.cedula = users[i].cedula /\ u.token = users[i].token
        BY <1>0, <2>1 DEF Request, User
    <2>3. PICK m : Write(p, i, u, m, Idle)
        BY <1>2 DEF CambiarSet
    <2>4. mailed' = mailed /\ UNCHANGED links
        BY <1>2 DEF CambiarSet
    <2> HIDE DEF u
    <2> QED
        BY <2>1, <2>2, <2>3, <2>4, ColumnsDo
<1> QED
    BY <1>1, <1>2 DEF CambiarPassword

LEMMA AdministratorDoes ==
    ASSUME IInv, NEW p \in Requests, Administrator(p)
    PROVE  Does(p)
<1>0. req[p] \in Request
    BY DEF IInv, TypeOK
<1>1. ASSUME NEW c \in Cedulas, NEW e \in Emails \union {None},
             NEW pw \in Passwords \union {None}, CreateUserBegins(p, c, e, pw)
      PROVE  Does(p)
    <2> DEFINE r == [Idle EXCEPT !.step = "create_user", !.cedula = c, !.email = e,
                                 !.password = pw]
               missed == FindByCedula(c) # None
    <2>1. r \in Request /\ r.step = "create_user" /\ r.cedula = c
        BY DEF Idle, Request, Steps, Row
    <2>2. Begins(p, r, missed) /\ (missed \/ FindByCedula(r.cedula) = None)
        BY <1>1, <2>1 DEF CreateUserBegins
    <2> HIDE DEF r, missed
    <2> QED
        BY <2>1, <2>2, BeginsMoves DEF Reading, NewRow
<1>2. CASE CreateUser(p)
    <2> DEFINE r == req[p]
               u == Inserted([NoUser EXCEPT !.cedula = r.cedula, !.email = r.email,
                                            !.password = r.password])
    <2>1. r.cedula \in Cedulas /\ r.step = "create_user"
        BY <1>2 DEF IInv, RequestsInv, CedulaGiven, Creating, CreateUser
    <2>2. u \in Row /\ u.cedula = r.cedula /\ u.token = None
        BY <1>0, <2>1 DEF Inserted, NoUser, Row, User, Request
    <2>3. Write(p, nextId, u, u, Idle) /\ nextId \in Ids /\ UNCHANGED <<mailed, links>>
        BY <1>2 DEF CreateUser, Insert
    <2> HIDE DEF u
    <2> QED
        BY <2>1, <2>2, <2>3, WriteWrites, IdleType DEF NewRow
<1>3. ASSUME NEW i \in Ids, UpdateUserBegins(p, i) PROVE Does(p)
    <2> DEFINE r == [Idle EXCEPT !.step = "update_user", !.id = i, !.row = users[i]]
    <2>1. users[i] \in Row
        BY DEF IInv, TypeOK
    <2>2. r \in Request /\ r.step = "update_user" /\ r.id = i /\ r.row = users[i]
        BY <2>1 DEF Idle, Request, Steps
    <2>3. Begins(p, r, FALSE)
        BY <1>3 DEF UpdateUserBegins
    <2> HIDE DEF r
    <2> QED
        BY <2>2, <2>3, BeginsMoves DEF Reading, NewRow
<1>4. ASSUME NEW i \in Ids, DeleteUser(p, i) PROVE Does(p)
    <2>1. NoUser.token = None
        BY DEF NoUser
    <2>2. Write(p, i, NoUser, NoUser, Idle) /\ mailed' = mailed /\ UNCHANGED links
            /\ req[p].step # "reset_clear"
        BY <1>4 DEF DeleteUser, InProgress
    <2> QED
        BY <2>1, <2>2, WriteWrites, IdleType
<1>5. CASE UpdateUser(p)
    <2> DEFINE r == req[p]
    <2>1. r.id \in Ids /\ r.row \in User /\ r.step = "update_user"
            /\ (p \in blind \/ users[r.id] = r.row)
        BY <1>5 DEF IInv, TypeOK, RequestsInv, RowRead, Reading, UpdateUser
    <2>2. PICK new \in Edits(r.row) : Save(p, r.id, new, EditedAs(meant[r.id], r.row, new))
        BY <1>5 DEF UpdateUser
    <2> DEFINE w == IF Exists(r.id) THEN new ELSE Inserted(new)
    <2>3. new \in User /\ new.cedula = r.row.cedula /\ new.token = r.row.token
        BY <2>1, <2>2 DEF Edits, User
    <2>4. w \in Row /\ w.cedula = r.row.cedula /\ w.token = r.row.token
        BY <2>3 DEF Inserted, User, Row
    <2>5. PICK m : Write(p, r.id, w, m, Idle)
        BY <2>2 DEF Save
    <2>6. UNCHANGED <<mailed, links>>
        BY <1>5 DEF UpdateUser
    <2>7. r.id \in disturbed' \/ (Exists(r.id) /\ w.cedula = users[r.id].cedula)
        <3>1. CASE p \in blind
            BY <2>5, <3>1 DEF Write
        <3>2. CASE p \notin blind
            BY <2>1, <2>4, <3>2 DEF Exists, User, NoUser
        <3> QED
            BY <3>1, <3>2
    <2>8. p \notin blind => w.token = users[r.id].token
        BY <2>1, <2>4
    <2> HIDE DEF w
    <2> QED
        BY <2>1, <2>4, <2>5, <2>6, <2>7, <2>8, WriteWrites, IdleType DEF Reading
<1> QED
    BY <1>1, <1>2, <1>3, <1>4, <1>5 DEF Administrator

LEMMA FailsDoes ==
    ASSUME IInv, NEW p \in Requests, Fails(p)
    PROVE  Does(p)
<1>1. Moves(p, Idle)
    BY IdleType DEF Fails, Ends, Moves, table
<1> QED
    BY <1>1, IdleType DEF Does

LEMMA Shapes ==
    ASSUME IInv, [Next]_vars
    PROVE  Quiet \/ \E p \in Requests : Does(p)
<1>1. ASSUME NEW i \in Ids, NEW pw \in Passwords, Login(i, pw) PROVE Quiet
    BY <1>1 DEF Login, Quiet, table, ghosts, links
<1>2. UNCHANGED vars => Quiet
    BY DEF vars, Quiet, table, ghosts, links
<1> QED
    BY <1>1, <1>2, RegistroDoes, EstablecerDoes, RecuperarDoes, ResetDoes, CambiarDoes,
       AdministratorDoes, FailsDoes DEF Next

-----------------------------------------------------------------------------
(***************************************************************************)
(* A cedula has one row, but for rows that a blind request has written: a  *)
(* request about to register a cedula knows that it has no account, and    *)
(* one about to insert a row that it has none, unless it is blind.          *)
(***************************************************************************)
NoAccountOf(c) == \A i \in Ids : users[i].cedula = c => ~IsAccount(i)
NoRowOf(c) == \A i \in Ids : users[i].cedula # c

CedulasDistinct ==
    \A i, j \in Ids :
        Exists(i) /\ Exists(j) /\ i # j /\ users[i].cedula = users[j].cedula
            => {i, j} \intersect disturbed # {}

CedulaChecked(p) ==
    p \notin blind =>
        /\ req[p].step \in {"registro_email", "registro_find"} => NoAccountOf(req[p].cedula)
        /\ req[p].step \in NewRow => NoRowOf(req[p].cedula)

CedulaInv == CedulasDistinct /\ \A p \in Requests : CedulaChecked(p)

LEMMA Misses ==
    ASSUME NEW c
    PROVE  /\ FindByCedulaWithPassword(c) = None => NoAccountOf(c)
           /\ FindByCedula(c) = None => NoRowOf(c)
<1> DEFINE A == {i \in Ids : users[i].cedula = c}
           B == {i \in Ids : users[i].cedula = c /\ IsAccount(i)}
<1>1. First(A) = None => A = {}
    BY FirstMisses
<1>2. First(B) = None => B = {}
    BY FirstMisses
<1> QED
    BY <1>1, <1>2 DEF FindByCedula, FindByCedulaWithPassword, NoAccountOf, NoRowOf

LEMMA QuietCedulas ==
    ASSUME CedulaInv, Quiet
    PROVE  CedulaInv'
    BY DEF CedulaInv, Quiet, CedulasDistinct, CedulaChecked, NoAccountOf, NoRowOf, IsAccount,
           Exists

LEMMA MovesCedulas ==
    ASSUME IInv, CedulaInv, NEW p \in Requests, NEW r \in Request, Moves(p, r)
    PROVE  CedulaInv'
<1>1. /\ req' = [req EXCEPT ![p] = r] /\ users' = users /\ disturbed' = disturbed
      /\ blind \ {p} \subseteq blind' /\ req'[p] = r
      /\ r.step = "idle" \/ (blind \subseteq blind' /\ LookedUp(p, r))
    BY DEF Moves, IInv, TypeOK
<1>2. \A c : (NoAccountOf(c)' <=> NoAccountOf(c)) /\ (NoRowOf(c)' <=> NoRowOf(c))
    BY <1>1 DEF NoAccountOf, NoRowOf, IsAccount, Exists
<1>3. CedulasDistinct'
    BY <1>1 DEF CedulaInv, CedulasDistinct, Exists
<1>4. ASSUME NEW q \in Requests, q # p PROVE CedulaChecked(q)'
    <2>1. req'[q] = req[q] /\ (q \in blind => q \in blind')
        BY <1>1, <1>4 DEF IInv, TypeOK
    <2> QED
        BY <1>2, <2>1 DEF CedulaInv, CedulaChecked
<1>5. CedulaChecked(p)'
    <2> SUFFICES ASSUME p \notin blind', r.step # "idle" PROVE CedulaChecked(p)'
        BY <1>1 DEF CedulaChecked, NewRow
    <2>1. p \notin blind /\ LookedUp(p, r)
        BY <1>1
    <2>2. CASE r.step = "registro_email"
        <3>1. NoAccountOf(r.cedula)
            BY <2>1, <2>2, Misses DEF LookedUp
        <3> QED
            BY <1>1, <1>2, <2>2, <3>1 DEF CedulaChecked, NewRow
    <2>3. CASE r.step = "registro_find"
        <3>1. NoAccountOf(r.cedula)
            BY <2>1, <2>3 DEF LookedUp, CedulaInv, CedulaChecked
        <3> QED
            BY <1>1, <1>2, <2>3, <3>1 DEF CedulaChecked, NewRow
    <2>4. CASE r.step \in NewRow
        <3>1. CASE FindByCedula(r.cedula) = None
            <4>1. NoRowOf(r.cedula)
                BY <3>1, Misses
            <4> QED
                BY <1>1, <1>2, <2>4, <4>1 DEF CedulaChecked, NewRow
        <3>2. ASSUME req[p].step = "registro_find", r.cedula = req[p].cedula,
                     FindByCedula(r.cedula) # None, HasPassword(users[FindByCedula(r.cedula)])
              PROVE  FALSE
            <4> DEFINE i == FindByCedula(r.cedula)
            <4>1. i \in Ids /\ users[i].cedula = r.cedula
                BY <3>2, Finders
            <4>2. IsAccount(i)
                BY <3>2, <4>1 DEF IsAccount, Exists, HasPassword, NoUser
            <4>3. NoAccountOf(r.cedula)
                BY <2>1, <3>2 DEF CedulaInv, CedulaChecked
            <4> QED
                BY <4>1, <4>2, <4>3 DEF NoAccountOf
        <3> QED
            BY <2>1, <2>4, <3>1, <3>2 DEF LookedUp
    <2> QED
        BY <1>1, <2>2, <2>3, <2>4 DEF CedulaChecked
<1> QED
    BY <1>3, <1>4, <1>5 DEF CedulaInv

LEMMA WritesCedulas ==
    ASSUME IInv, CedulaInv, NEW p \in Requests, NEW i \in Ids, NEW u \in Row,
           NEW next \in Request, Writes(p, i, u, next)
    PROVE  CedulaInv'
<1>1. /\ users' = [users EXCEPT ![i] = u] /\ users'[i] = u
      /\ \A j \in Ids \ {i} : users'[j] = users[j]
      /\ req' = [req EXCEPT ![p] = next] /\ req'[p] = next
      /\ disturbed \subseteq disturbed' /\ (p \in blind => i \in disturbed')
    BY DEF Writes, IInv, TypeOK
<1>2. \A j \in Ids \ {i} : (IsAccount(j)' <=> IsAccount(j)) /\ (Exists(j)' <=> Exists(j))
    BY <1>1 DEF IsAccount, Exists
<1>3. \/ u = NoUser
      \/ i \in disturbed'
      \/ Exists(i) /\ u.cedula = users[i].cedula
      \/ NoRowOf(u.cedula)
    BY <1>1 DEF Writes, CedulaInv, CedulaChecked
<1>4. CedulasDistinct'
    <2>1. ASSUME NEW j \in Ids \ {i}, Exists(i)', Exists(j)', u.cedula = users'[j].cedula
          PROVE  {i, j} \intersect disturbed' # {}
        <3>1. u # NoUser /\ Exists(j) /\ u.cedula = users[j].cedula
            BY <1>1, <1>2, <2>1 DEF Exists
        <3> QED
            BY <1>1, <1>3, <3>1 DEF NoRowOf, CedulaInv, CedulasDistinct
    <2>2. ASSUME NEW j \in Ids \ {i}, NEW k \in Ids \ {i}, Exists(j)', Exists(k)', j # k,
                 users'[j].cedula = users'[k].cedula
          PROVE  {j, k} \intersect disturbed' # {}
        BY <1>1, <1>2, <2>2 DEF CedulaInv, CedulasDistinct
    <2> QED
        BY <1>1, <2>1, <2>2 DEF CedulasDistinct
<1>5. ASSUME NEW q \in Requests PROVE CedulaChecked(q)'
    <2>1. CASE q = p
        <3>1. next.step \in {"idle", "reset_clear"}
            BY IdleType DEF Writes, IInv, TypeOK, Request
        <3> QED
            BY <1>1, <2>1, <3>1 DEF CedulaChecked, NewRow
    <2>2. CASE q # p
        <3>1. req'[q] = req[q]
            BY <1>1, <2>2 DEF IInv, TypeOK
        <3>2. SUFFICES ASSUME q \notin blind', req[q].step # "idle",
                              req[q].step \in Creating
                       PROVE  CedulaChecked(q)'
            BY <3>1 DEF CedulaChecked, Creating, NewRow
        <3>3. q \notin blind /\ (users[i] = u \/ ~About(q, i, u))
            BY <2>2, <3>2 DEF Writes
        <3>4. CASE users[i] = u
            <4>1. users' = users
                BY <1>1, <3>4 DEF IInv, TypeOK
            <4> QED
                BY <3>1, <3>3, <4>1
                   DEF CedulaInv, CedulaChecked, NoAccountOf, NoRowOf, IsAccount, Exists
        <3>5. CASE ~About(q, i, u)
            <4>1. req[q].cedula # u.cedula
                BY <3>2, <3>5 DEF About, IInv, RequestsInv, CedulaGiven
            <4>2. NoAccountOf(req[q].cedula) => NoAccountOf(req[q].cedula)'
                BY <1>1, <1>2, <3>1, <4>1 DEF NoAccountOf
            <4>3. NoRowOf(req[q].cedula) => NoRowOf(req[q].cedula)'
                BY <1>1, <3>1, <4>1 DEF NoRowOf
            <4> QED
                BY <3>1, <3>3, <4>2, <4>3 DEF CedulaInv, CedulaChecked
        <3> QED
            BY <3>3, <3>4, <3>5
    <2> QED
        BY <2>1, <2>2
<1> QED
    BY <1>4, <1>5 DEF CedulaInv

LEMMA Recognised == IInv /\ CedulaInv => AccountRecognised
<1> SUFFICES ASSUME IInv, CedulaInv, NEW i \in Ids, IsAccount(i),
                    ~\E j \in disturbed : users[j].cedula = users[i].cedula,
                    NEW registry \in Registry
             PROVE  VerificarCedula(users[i].cedula, registry).tienePassword
    BY DEF AccountRecognised
<1> DEFINE c == users[i].cedula
           k == FindByCedula(c)
<1>1. users[i] \in User /\ c \in Cedulas /\ HasPassword(users[i])
    BY DEF IsAccount, Exists, IInv, TypeOK, Row, User
<1>2. k # None
    BY Misses DEF NoRowOf
<1>3. k \in Ids /\ users[k].cedula = c
    BY <1>2, Finders
<1>4. Exists(k) /\ Exists(i)
    BY <1>1, <1>3 DEF Exists, NoUser, IsAccount
<1>5. k = i
    BY <1>3, <1>4 DEF CedulaInv, CedulasDistinct
<1> HIDE DEF k
<1>6. VerificarCedula(c, registry).tienePassword <=> (k # None /\ HasPassword(users[k]))
    BY DEF VerificarCedula, k
<1> QED
    BY <1>1, <1>2, <1>5, <1>6

(***************************************************************************)
(* VerificarCedula knows every account, but for a cedula one of whose rows *)
(* a blind request has written, for any number of rows and requests.        *)
(***************************************************************************)
THEOREM AccountsAreRecognised == Spec => []AccountRecognised
<1>1. Init => CedulaInv
    <2> SUFFICES ASSUME Init PROVE CedulaInv
        OBVIOUS
    <2>1. users \in CleanTables /\ req = [p \in Requests |-> Idle]
        BY DEF Init
    <2>2. CedulasDistinct
        BY <2>1 DEF CleanTables, CedulasDistinct, Exists
    <2>3. ASSUME NEW p \in Requests PROVE CedulaChecked(p)
        BY <2>1, IdleType DEF CedulaChecked, NewRow
    <2> QED
        BY <2>2, <2>3 DEF CedulaInv
<1>2. IInv /\ CedulaInv /\ [Next]_vars => CedulaInv'
    BY Shapes, QuietCedulas, MovesCedulas, WritesCedulas DEF Does
<1> QED
    BY <1>1, <1>2, Recognised, Invariance, PTL DEF Spec

-----------------------------------------------------------------------------
(***************************************************************************)
(* A link is the link of one row: in the table, in the row a request has   *)
(* read, or in the hands of a request that was let in by it.  One that has *)
(* set a password is about to be cleared, or no row has it any more, but   *)
(* for rows that a blind request has written.                               *)
(***************************************************************************)
HeldBy(r, t, i) ==
    /\ r.id = i
    /\ \/ r.step \in Reading /\ r.row.token = t
       \/ r.step \in Linked /\ r.token = t

TokenAt(t, i) == users[i].token = t \/ \E p \in Requests : HeldBy(req[p], t, i)

OneRowPerLink ==
    \A t \in Tokens, i, j \in Ids : TokenAt(t, i) /\ TokenAt(t, j) => i = j

LinksMailed ==
    /\ \A t \in Tokens, i \in Ids : TokenAt(t, i) => t <= mailed
    /\ \A t \in spent : t <= mailed

LinkRow == \A p \in Requests : req[p].step \in Linked => req[p].id \in Ids

ClearingNow(p, t) == req[p].step = "reset_clear" /\ req[p].token = t

SpentCleared ==
    \A t \in spent \ unclear :
        \/ \E p \in Requests : ClearingNow(p, t)
        \/ \A i \in Ids : users[i].token = t => i \in disturbed

LinkInv == LinkWorksOnce /\ OneRowPerLink /\ LinksMailed /\ LinkRow /\ SpentCleared

LEMMA QuietLinks ==
    ASSUME LinkInv, Quiet
    PROVE  LinkInv'
    BY DEF LinkInv, Quiet, LinkWorksOnce, OneRowPerLink, LinksMailed, LinkRow, SpentCleared,
           TokenAt, HeldBy, ClearingNow

\* The links that are somewhere after a step that adds none.
LEMMA FewerLinks ==
    ASSUME OneRowPerLink, LinksMailed, mailed' = mailed, spent' = spent,
           \A t \in Tokens, i \in Ids : TokenAt(t, i)' => TokenAt(t, i)
    PROVE  OneRowPerLink' /\ LinksMailed'
    BY DEF OneRowPerLink, LinksMailed

LEMMA MovesLinks ==
    ASSUME IInv, LinkInv, NEW p \in Requests, NEW r \in Request, Moves(p, r)
    PROVE  LinkInv'
<1>1. /\ req' = [req EXCEPT ![p] = r] /\ req'[p] = r
      /\ UNCHANGED <<users, disturbed, mailed, spent, again>>
      /\ unclear \subseteq unclear'
      /\ r.step = "idle" \/ LookedUp(p, r)
    BY DEF Moves, IInv, TypeOK
<1>2. \A q \in Requests \ {p} : req'[q] = req[q]
    BY <1>1 DEF IInv, TypeOK
<1>3. ASSUME NEW t \in Tokens, NEW i \in Ids, HeldBy(r, t, i) PROVE users[i].token = t
    BY <1>1, <1>3 DEF HeldBy, LookedUp, Reading, Linked
<1>4. ASSUME NEW t \in Tokens, NEW i \in Ids, TokenAt(t, i)' PROVE TokenAt(t, i)
    <2>1. CASE users'[i].token = t
        BY <1>1, <2>1 DEF TokenAt
    <2>2. ASSUME NEW q \in Requests, HeldBy(req'[q], t, i) PROVE TokenAt(t, i)
        BY <1>1, <1>2, <1>3, <2>2 DEF TokenAt
    <2> QED
        BY <1>4, <2>1, <2>2 DEF TokenAt, HeldBy
<1>5. OneRowPerLink' /\ LinksMailed'
    BY <1>1, <1>4, FewerLinks DEF LinkInv
<1>6. LinkRow'
    BY <1>1, <1>2 DEF LinkInv, LinkRow, LookedUp, Linked
<1>7. LinkWorksOnce'
    BY <1>1 DEF LinkInv, LinkWorksOnce
<1>8. SpentCleared'
    <2> SUFFICES ASSUME NEW t \in spent, t \notin unclear'
                 PROVE  \/ \E q \in Requests : ClearingNow(q, t)'
                        \/ \A i \in Ids : users[i].token = t => i \in disturbed
        BY <1>1 DEF SpentCleared
    <2>1. \/ \E q \in Requests : ClearingNow(q, t)
          \/ \A i \in Ids : users[i].token = t => i \in disturbed
        BY <1>1 DEF LinkInv, SpentCleared
    <2>2. ~ClearingNow(p, t)
        BY DEF Moves, ClearingNow
    <2>3. ASSUME NEW q \in Requests, ClearingNow(q, t) PROVE ClearingNow(q, t)'
        BY <1>2, <2>2, <2>3 DEF ClearingNow
    <2> QED
        BY <2>1, <2>3
<1> QED
    BY <1>5, <1>6, <1>7, <1>8 DEF LinkInv

LEMMA WritesLinks ==
    ASSUME IInv, LinkInv, NEW p \in Requests, NEW i \in Ids, NEW u \in Row,
           NEW next \in Request, Writes(p, i, u, next)
    PROVE  LinkInv'
<1> DEFINE Cleared == next = Idle /\ req[p].step = "reset_clear" /\ req[p].id = i
                        /\ u.token = None /\ UNCHANGED links
           Other == next = Idle /\ req[p].step # "reset_clear" /\ UNCHANGED links
           Sets == /\ req[p].step = "reset_set" /\ req[p].id = i /\ mailed' = mailed
                   /\ next = [req[p] EXCEPT !.step = "reset_clear"]
                   /\ spent' = spent \union {req[p].token} /\ unclear' = unclear
                   /\ again' = IF req[p].token \in spent /\ p \notin blind
                                    /\ ~Clearing(req[p].token)
                               THEN again \union {<<req[p].token, i>>} ELSE again
           Fresh == u.token = mailed + 1 /\ mailed' = mailed + 1 /\ u.token \in Tokens
<1>1. /\ users' = [users EXCEPT ![i] = u] /\ users'[i] = u
      /\ \A j \in Ids \ {i} : users'[j] = users[j]
      /\ req' = [req EXCEPT ![p] = next] /\ req'[p] = next
      /\ \A q \in Requests \ {p} : req'[q] = req[q]
      /\ disturbed \subseteq disturbed' /\ (p \in blind => i \in disturbed')
    BY DEF Writes, IInv, TypeOK
<1>2. Other \/ Cleared \/ Sets
    BY DEF Writes
<1>3. \/ u.token = None /\ mailed' = mailed
      \/ u.token = users[i].token /\ mailed' = mailed
      \/ /\ req[p].step \in Reading /\ req[p].id = i /\ mailed' = mailed
         /\ u.token = req[p].row.token /\ (p \notin blind => u.token = users[i].token)
      \/ Fresh
    BY DEF Writes
<1>4. Sets => req[p].token \in Tokens /\ (p \in blind \/ users[i].token = req[p].token)
    BY DEF IInv, RequestsInv, LinkFound, Linked
\* What request p holds after the step it held before.
<1>5. ASSUME NEW t \in Tokens, NEW j \in Ids, HeldBy(next, t, j) PROVE HeldBy(req[p], t, j)
    <2>1. CASE next = Idle
        BY <1>5, <2>1, IdleType DEF HeldBy, Reading, Linked
    <2>2. CASE Sets
        <3>1. next.id = req[p].id /\ next.token = req[p].token /\ next.step = "reset_clear"
            BY <2>2 DEF IInv, TypeOK, Request
        <3> QED
            BY <1>5, <2>2, <3>1 DEF HeldBy, Reading, Linked
    <2> QED
        BY <1>2, <2>1, <2>2
\* A link that is at a row after the step was there before, or is the new one.
<1>6. ASSUME NEW t \in Tokens, NEW j \in Ids, TokenAt(t, j)'
      PROVE  TokenAt(t, j) \/ (Fresh /\ j = i /\ t = mailed + 1)
    <2>1. CASE users'[j].token = t
        <3>1. CASE j # i
            BY <1>1, <2>1, <3>1 DEF TokenAt
        <3>2. CASE j = i
            <4>1. t = u.token /\ t # None
                BY <1>1, <2>1, <3>2
            <4> QED
                BY <1>3, <3>2, <4>1 DEF TokenAt, HeldBy
        <3> QED
            BY <3>1, <3>2
    <2>2. ASSUME NEW q \in Requests, HeldBy(req'[q], t, j) PROVE TokenAt(t, j)
        BY <1>1, <1>5, <2>2 DEF TokenAt
    <2> QED
        BY <1>6, <2>1, <2>2 DEF TokenAt, HeldBy
<1>7. mailed \in Nat /\ mailed' \in Nat /\ mailed <= mailed'
        /\ (Fresh => mailed' = mailed + 1)
    BY <1>3 DEF IInv, TypeOK
<1>8. LinksMailed'
    <2>1. ASSUME NEW t \in Tokens, NEW j \in Ids, TokenAt(t, j)' PROVE t <= mailed'
        BY <1>6, <1>7, <2>1 DEF LinkInv, LinksMailed
    <2>2. ASSUME NEW t \in spent' PROVE t <= mailed'
        <3>1. CASE t \in spent
            BY <1>7, <3>1 DEF LinkInv, LinksMailed, IInv, TypeOK
        <3>2. CASE t \notin spent
            <4>1. Sets /\ t = req[p].token
                BY <1>2, <2>2, <3>2 DEF links
            <4>2. TokenAt(t, i) /\ t \in Tokens
                BY <1>4, <4>1 DEF TokenAt, HeldBy, Linked
            <4> QED
                BY <1>7, <4>2 DEF LinkInv, LinksMailed
        <3> QED
            BY <3>1, <3>2
    <2> QED
        BY <2>1, <2>2 DEF LinksMailed
<1>9. OneRowPerLink'
    <2> SUFFICES ASSUME NEW t \in Tokens, NEW j \in Ids, NEW k \in Ids,
                        TokenAt(t, j)', TokenAt(t, k)'
                 PROVE  j = k
        BY DEF OneRowPerLink
    <2>1. CASE TokenAt(t, j) /\ TokenAt(t, k)
        BY <2>1 DEF LinkInv, OneRowPerLink
    <2>2. CASE t = mailed + 1
        <3>1. ~TokenAt(t, j) /\ ~TokenAt(t, k)
            BY <1>7, <2>2 DEF LinkInv, LinksMailed
        <3> QED
            BY <1>6, <3>1
    <2> QED
        BY <1>6, <2>1, <2>2
<1>10. LinkRow'
    <2>1. ASSUME NEW q \in Requests, req'[q].step \in Linked PROVE req'[q].id \in Ids
        <3>1. CASE q # p
            BY <1>1, <2>1, <3>1 DEF LinkInv, LinkRow
        <3>2. CASE q = p
            BY <1>1, <1>2, <2>1, <3>2, IdleType DEF Linked, IInv, TypeOK, Request
        <3> QED
            BY <3>1, <3>2
    <2> QED
        BY <2>1 DEF LinkRow
<1>11. LinkWorksOnce'
    <2>1. CASE again' = again
        <3>1. unclear' = unclear
            BY <1>2 DEF links
        <3> QED
            BY <1>1, <2>1, <3>1 DEF LinkInv, LinkWorksOnce
    <2>2. CASE again' # again
        <3>1. /\ Sets /\ again' = again \union {<<req[p].token, i>>}
              /\ req[p].token \in spent /\ p \notin blind /\ ~Clearing(req[p].token)
            BY <1>2, <2>2 DEF links
        <3>2. req[p].token \in unclear \/ i \in disturbed
            <4>1. users[i].token = req[p].token
                BY <1>4, <3>1
            <4>2. ~\E q \in Requests : ClearingNow(q, req[p].token)
                BY <3>1 DEF Clearing, ClearingNow
            <4> QED
                BY <3>1, <4>1, <4>2 DEF LinkInv, SpentCleared
        <3> QED
            BY <1>1, <3>1, <3>2 DEF LinkInv, LinkWorksOnce
    <2> QED
        BY <2>1, <2>2
<1>12. SpentCleared'
    <2> SUFFICES ASSUME NEW t \in spent', t \notin unclear'
                 PROVE  \/ \E q \in Requests : ClearingNow(q, t)'
                        \/ \A j \in Ids : users'[j].token = t => j \in disturbed'
        BY DEF SpentCleared
    <2>1. unclear' = unclear
        BY <1>2 DEF links
    <2>2. CASE Sets /\ t = req[p].token
        <3>1. next.token = t /\ next.step = "reset_clear"
            BY <2>2 DEF IInv, TypeOK, Request
        <3>2. ClearingNow(p, t)'
            BY <1>1, <3>1 DEF ClearingNow
        <3> QED
            BY <3>2
    <2>3. CASE Cleared /\ t = req[p].token
        <3>1. t \in Tokens /\ TokenAt(t, i)
            BY <2>3 DEF TokenAt, HeldBy, Linked, IInv, RequestsInv, LinkFound
        <3>2. ASSUME NEW j \in Ids, users'[j].token = t PROVE FALSE
            <4>1. j # i
                BY <1>1, <2>3, <3>1, <3>2
            <4>2. TokenAt(t, j)
                BY <1>1, <3>2, <4>1 DEF TokenAt
            <4> QED
                BY <3>1, <4>1, <4>2 DEF LinkInv, OneRowPerLink
        <3> QED
            BY <3>2
    <2>4. CASE ~(Sets /\ t = req[p].token) /\ ~(Cleared /\ t = req[p].token)
        <3>1. t \in spent /\ ~ClearingNow(p, t)
            BY <1>2, <2>4 DEF links, ClearingNow
        <3>2. ASSUME NEW q \in Requests, ClearingNow(q, t) PROVE ClearingNow(q, t)'
            BY <1>1, <3>1, <3>2 DEF ClearingNow
        <3>3. ASSUME \A j \in Ids : users[j].token = t => j \in disturbed,
                     NEW j \in Ids, users'[j].token = t
              PROVE  j \in disturbed'
            <4>1. CASE j # i
                BY <1>1, <3>3, <4>1
            <4>2. CASE j = i
                <5>1. u.token = t /\ t # None /\ t <= mailed
                    BY <1>1, <3>1, <3>3, <4>2 DEF LinkInv, LinksMailed, IInv, TypeOK
                <5>2. p \in blind \/ users[i].token = t
                    BY <1>3, <1>7, <5>1 DEF IInv, TypeOK
                <5> QED
                    BY <1>1, <3>3, <4>2, <5>2
            <4> QED
                BY <4>1, <4>2
        <3> QED
            BY <2>1, <3>1, <3>2, <3>3 DEF LinkInv, SpentCleared
    <2> QED
        BY <2>2, <2>3, <2>4
<1> QED
    BY <1>8, <1>9, <1>10, <1>11, <1>12 DEF LinkInv

(***************************************************************************)
(* A recovery link sets one password, but for links used by two requests   *)
(* at once, links whose clearing failed and rows that a blind request has  *)
(* written, for any number of links, rows and requests.                     *)
(***************************************************************************)
THEOREM LinksWorkOnce == Spec => []LinkWorksOnce
<1>1. Init => LinkInv
    <2> SUFFICES ASSUME Init PROVE LinkInv
        OBVIOUS
    <2>1. /\ users \in CleanTables /\ req = [p \in Requests |-> Idle]
          /\ spent = {} /\ again = {}
        BY DEF Init
    <2>2. \A i \in Ids : users[i].token = None
        BY <2>1 DEF CleanTables, NoUser
    <2>3. \A t \in Tokens, i \in Ids : ~TokenAt(t, i)
        BY <2>1, <2>2, IdleType DEF TokenAt, HeldBy, Reading, Linked
    <2> QED
        BY <2>1, <2>3, IdleType
           DEF LinkInv, LinkWorksOnce, OneRowPerLink, LinksMailed, LinkRow, SpentCleared, Linked
<1>2. IInv /\ LinkInv /\ [Next]_vars => LinkInv'
    BY Shapes, QuietLinks, MovesLinks, WritesLinks DEF Does
<1>3. LinkInv => LinkWorksOnce
    BY DEF LinkInv
<1> QED
    BY <1>1, <1>2, <1>3, Invariance, PTL DEF Spec

=============================================================================
