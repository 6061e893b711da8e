----------------------------- MODULE StoresProofs -----------------------------
(***************************************************************************)
(* Theorems about the stores, for any accounts, users and organisations.   *)
(* A handler writes its files one after another and may die between two,   *)
(* so each inductive invariant says more than the property: that what a    *)
(* call has still to write is as good as what the files hold, after each   *)
(* of its writes.                                                          *)
(*                                                                         *)
(* Accounts: each file is written once, and what a write relies on is in   *)
(* the files or in a write before it.  Ledgers: a field and its archive    *)
(* hold its entries before and after every write, and whatever a death     *)
(* leaves doubled is paid by that death.  Organisations: a ledger that is  *)
(* written adds up, from wherever its writer has read it.                  *)
(***************************************************************************)
EXTENDS MCStores, DataLemmas

Row == [file: Files, data: Users \cup Resets \cup StateRows \cup Links]

Ids == Providers \X Subjects
Linked(l) == {x \in Ids : l.byId[x] # Nobody}

\* The two directions of the links l agree.
Agree(l) ==
  \A p \in Providers, e \in Emails :
    l.byEmail[<<p, e>>] # Nobody => l.byId[<<p, l.byEmail[<<p, e>>]>>] = e

\* The account of e is there before the i-th of the writes ws.
There(ws, e, i) ==
  \/ users[e] # Nobody
  \/ \E j \in 1..(i - 1) : ws[j].file = "users" /\ ws[j].data[e] # Nobody

\* What a write takes over and what it relies on.
KeepsAccounts(d) == \A e \in Emails : users[e] # Nobody => d[e] # Nobody
KeepsOwners(l) == \A x \in Ids : links.byId[x] # Nobody => l.byId[x] = links.byId[x]
NamesAccounts(ws, i) ==
  \A x \in Ids : ws[i].data.byId[x] # Nobody => There(ws, ws[i].data.byId[x], i)

OncePerFile(ws) == \A i, j \in 1..Len(ws) : ws[i].file = ws[j].file => i = j

UsersWrite(ws, i) == ws[i].file = "users" => KeepsAccounts(ws[i].data)
LinksWrite(ws, i) ==
  ws[i].file = "links" =>
    Agree(ws[i].data) /\ KeepsOwners(ws[i].data) /\ NamesAccounts(ws, i)

Typed(w) == w.file \in Files /\ w.data \in Data[w.file]

Plan(ws) ==
  /\ ws \in Seq(Row)
  /\ \A i \in 1..Len(ws) : Typed(ws[i])
  /\ OncePerFile(ws)
  /\ \A i \in 1..Len(ws) : UsersWrite(ws, i) /\ LinksWrite(ws, i)

IInv == TypeOK /\ LinksAgree /\ LinkedAccountsExist /\ Plan(todo)

-----------------------------------------------------------------------------
(* Lists of writes *)

\* What is typed is a row of the lists.
LEMMA TypedRows == \A w : Typed(w) /\ w = [file |-> w.file, data |-> w.data] => w \in Row
  BY DEF Typed, Data, Row, Files

-----------------------------------------------------------------------------
LEMMA InvInit == Init => IInv
  <1> SUFFICES ASSUME Init PROVE IInv
    OBVIOUS
  <1>1. todo \in Seq(Row) /\ Len(todo) = 0 /\ DOMAIN todo = {}
    BY DEF Init
  <1>2. TypeOK
    BY <1>1, AccountsAssumption DEF Init, TypeOK, Users, Resets, StateRows, Links
  <1>3. LinksAgree /\ LinkedAccountsExist
    BY DEF Init, LinksAgree, LinkedAccountsExist, Providers
  <1>4. QED
    BY <1>1, <1>2, <1>3 DEF IInv, Plan, OncePerFile

\* What is planned stays planned while no account and no link is written.
LEMMA PlanStays ==
  ASSUME NEW ws, Plan(ws), UNCHANGED <<users, links>>, todo' = ws
  PROVE  Plan(todo)'
  <1>1. Plan(ws)'
    BY DEF Plan, Typed, OncePerFile, UsersWrite, LinksWrite, KeepsAccounts, KeepsOwners,
           NamesAccounts, There, Agree
  <1>2. QED
    BY <1>1

\* A handler whose list of writes is planned keeps the invariant.
LEMMA HandlerStep ==
  ASSUME IInv, NEW reads, NEW planned, Handler(reads, planned), Plan(planned)
  PROVE  IInv'
  <1>1. todo' = planned /\ UNCHANGED <<users, resets, states, links, expired, torn>>
    BY DEF Handler
  <1>2. Plan(todo)'
    BY <1>1, PlanStays
  <1>3. TypeOK'
    BY <1>1, LenProperties DEF IInv, TypeOK, Plan, Typed
  <1>4. LinksAgree' /\ LinkedAccountsExist'
    BY <1>1 DEF IInv, LinksAgree, LinkedAccountsExist
  <1>5. QED
    BY <1>2, <1>3, <1>4 DEF IInv

\* The links with one more.
Linking(p, id, e) == [links EXCEPT !.byId[<<p, id>>] = e, !.byEmail[<<p, e>>] = id]

\* A link of an account that is there and owns the provider account, or takes a
\* free one, keeps the directions in agreement and every owner.
LEMMA LinkFacts ==
  ASSUME TypeOK, LinksAgree, NEW p \in Providers, NEW id \in Subjects, NEW e \in Emails,
         links.byId[<<p, id>>] \in {Nobody, e}
  PROVE  /\ Linking(p, id, e) \in Links
         /\ Agree(Linking(p, id, e)) /\ KeepsOwners(Linking(p, id, e))
         /\ \A x \in Ids :
              Linking(p, id, e).byId[x] = IF x = <<p, id>> THEN e ELSE links.byId[x]
  <1> DEFINE l == Linking(p, id, e)
  <1>1. links \in Links
    BY DEF TypeOK
  <1>2. /\ l.byId = [links.byId EXCEPT ![<<p, id>>] = e]
        /\ l.byEmail = [links.byEmail EXCEPT ![<<p, e>>] = id]
    BY <1>1 DEF Links, Linking
  <1>3. /\ \A x \in Ids : l.byId[x] = IF x = <<p, id>> THEN e ELSE links.byId[x]
        /\ \A x \in Providers \X Emails : l.byEmail[x] = IF x = <<p, e>> THEN id ELSE links.byEmail[x]
    BY <1>1, <1>2 DEF Links, Ids
  <1>4. l \in Links
    BY <1>1 DEF Links, Linking
  <1>5. ASSUME NEW q \in Providers, NEW f \in Emails, l.byEmail[<<q, f>>] # Nobody
        PROVE  l.byId[<<q, l.byEmail[<<q, f>>]>>] = f
    <2> DEFINE was == links.byEmail[<<q, f>>]
    <2>1. CASE <<q, f>> = <<p, e>>
      BY <1>3, <2>1 DEF Ids
    <2>2. CASE <<q, f>> # <<p, e>>
      <3>1. l.byEmail[<<q, f>>] = was /\ was # Nobody /\ was \in Subjects
        BY <1>1, <1>3, <1>5, <2>2 DEF Links
      <3>2. links.byId[<<q, was>>] = f /\ <<q, was>> \in Ids
        BY <3>1 DEF LinksAgree, Ids
      <3>3. <<q, was>> # <<p, id>>
        BY <2>2, <3>2, AccountsAssumption
      <3>4. QED
        BY <1>3, <3>1, <3>2, <3>3
    <2>3. QED
      BY <2>1, <2>2
  <1>6. KeepsOwners(l)
    BY <1>3 DEF KeepsOwners
  <1> HIDE DEF l
  <1>7. Agree(l)
    BY <1>5 DEF Agree
  <1>8. QED
    BY <1>3, <1>4, <1>6, <1>7 DEF l

-----------------------------------------------------------------------------
(* The lists the handlers plan. *)

\* A write of resets or of states relies on nothing and is relied on by nothing.
LEMMA PlainPlan ==
  ASSUME NEW d, NEW file \in {"resets", "states"}, d \in Data[file]
  PROVE  Plan(Saved(file, d))
  <1> DEFINE w == [file |-> file, data |-> d]
  <1>1. w \in Row /\ Typed(w)
    BY DEF Typed, Files, Data, Row
  <1>2. /\ Saved(file, d) = <<w>> /\ <<w>> \in Seq(Row) /\ Len(<<w>>) = 1
        /\ \A i \in 1..1 : <<w>>[i] = w
    BY <1>1 DEF Saved
  <1>3. QED
    BY <1>1, <1>2 DEF Plan, OncePerFile, UsersWrite, LinksWrite

LEMMA UsersPlan ==
  ASSUME NEW d \in Users, KeepsAccounts(d)
  PROVE  Plan(Saved("users", d))
  <1> DEFINE w == [file |-> "users", data |-> d]
  <1>1. w \in Row /\ Typed(w)
    BY DEF Typed, Files, Data, Row
  <1>2. /\ Saved("users", d) = <<w>> /\ <<w>> \in Seq(Row) /\ Len(<<w>>) = 1
        /\ \A i \in 1..1 : <<w>>[i] = w
    BY <1>1 DEF Saved
  <1>3. QED
    BY <1>1, <1>2 DEF Plan, OncePerFile, UsersWrite, LinksWrite

\* The links written after a write of another file, and perhaps after users.
LEMMA LinksPlan ==
  ASSUME NEW l \in Links, Agree(l), KeepsOwners(l),
         \A x \in Ids : l.byId[x] # Nobody => users[l.byId[x]] # Nobody,
         NEW s \in StateRows
  PROVE  Plan(Saved("states", s) \o Saved("links", l))
  <1> DEFINE v == [file |-> "states", data |-> s]
             w == [file |-> "links", data |-> l]
  <1>1. v \in Row /\ Typed(v) /\ w \in Row /\ Typed(w)
    BY DEF Typed, Files, Data, Row
  <1>2. Saved("states", s) \o Saved("links", l) = <<v, w>>
    BY OneAndOne DEF Saved
  <1>3. <<v, w>> \in Seq(Row) /\ Len(<<v, w>>) = 2
    BY <1>1
  <1>4. v.file = "states" /\ w.file = "links" /\ w.data = l
    OBVIOUS
  <1> HIDE DEF v, w
  <1>5. <<v, w>>[1] = v /\ <<v, w>>[2] = w
    OBVIOUS
  <1> DEFINE ws == <<v, w>>
  <1>6. /\ ws \in Seq(Row) /\ Len(ws) = 2 /\ ws[1] = v /\ ws[2] = w
        /\ \A i \in 1..2 : i = 1 \/ i = 2
    BY <1>3, <1>5
  <1> HIDE DEF ws
  <1>7. NamesAccounts(ws, 2)
    BY <1>4, <1>6 DEF NamesAccounts, There
  <1>8. \A i \in 1..2 : UsersWrite(ws, i) /\ LinksWrite(ws, i)
    BY <1>4, <1>6, <1>7 DEF UsersWrite, LinksWrite
  <1>9. OncePerFile(ws)
    BY <1>4, <1>6 DEF OncePerFile
  <1>10. Plan(ws)
    BY <1>1, <1>6, <1>8, <1>9 DEF Plan
  <1>11. QED
    BY <1>2, <1>10 DEF ws

LEMMA AccountAndLinksPlan ==
  ASSUME NEW d \in Users, KeepsAccounts(d),
         NEW l \in Links, Agree(l), KeepsOwners(l),
         \A x \in Ids : l.byId[x] # Nobody => d[l.byId[x]] # Nobody,
         NEW s \in StateRows
  PROVE  Plan(Saved("states", s) \o (Saved("users", d) \o Saved("links", l)))
  <1> DEFINE v == [file |-> "states", data |-> s]
             u == [file |-> "users", data |-> d]
             w == [file |-> "links", data |-> l]
  <1>1. v \in Row /\ Typed(v) /\ u \in Row /\ Typed(u) /\ w \in Row /\ Typed(w)
    BY DEF Typed, Files, Data, Row
  <1>2. Saved("states", s) \o (Saved("users", d) \o Saved("links", l)) = <<v, u, w>>
    BY OneAndOne, OneAndTwo DEF Saved
  <1>3. <<v, u, w>> \in Seq(Row) /\ Len(<<v, u, w>>) = 3
    BY <1>1
  <1>4. /\ v.file = "states" /\ u.file = "users" /\ u.data = d
        /\ w.file = "links" /\ w.data = l
    OBVIOUS
  <1> HIDE DEF v, u, w
  <1>5. <<v, u, w>>[1] = v /\ <<v, u, w>>[2] = u /\ <<v, u, w>>[3] = w
    OBVIOUS
  <1> DEFINE ws == <<v, u, w>>
  <1>6. /\ ws \in Seq(Row) /\ Len(ws) = 3 /\ ws[1] = v /\ ws[2] = u /\ ws[3] = w
        /\ \A i \in 1..3 : i = 1 \/ i = 2 \/ i = 3
    BY <1>3, <1>5
  <1> HIDE DEF ws
  <1>7. NamesAccounts(ws, 3)
    BY <1>4, <1>6 DEF NamesAccounts, There
  <1>8. \A i \in 1..3 : UsersWrite(ws, i) /\ LinksWrite(ws, i)
    BY <1>4, <1>6, <1>7 DEF UsersWrite, LinksWrite
  <1>9. OncePerFile(ws)
    BY <1>4, <1>6 DEF OncePerFile
  <1>10. Plan(ws)
    BY <1>1, <1>6, <1>8, <1>9 DEF Plan
  <1>11. QED
    BY <1>2, <1>10 DEF ws

\* A reset sets the password before it spends the token.
LEMMA ResetPlan ==
  ASSUME NEW d \in Users, KeepsAccounts(d), NEW r \in Resets
  PROVE  Plan(Saved("users", d) \o Saved("resets", r))
  <1> DEFINE v == [file |-> "users", data |-> d]
             w == [file |-> "resets", data |-> r]
  <1>1. v \in Row /\ Typed(v) /\ w \in Row /\ Typed(w)
    BY DEF Typed, Files, Data, Row
  <1>2. Saved("users", d) \o Saved("resets", r) = <<v, w>>
    BY OneAndOne DEF Saved
  <1>3. <<v, w>> \in Seq(Row) /\ Len(<<v, w>>) = 2
    BY <1>1
  <1>4. v.file = "users" /\ v.data = d /\ w.file = "resets"
    OBVIOUS
  <1> HIDE DEF v, w
  <1>5. <<v, w>>[1] = v /\ <<v, w>>[2] = w
    OBVIOUS
  <1> DEFINE ws == <<v, w>>
  <1>6. /\ ws \in Seq(Row) /\ Len(ws) = 2 /\ ws[1] = v /\ ws[2] = w
        /\ \A i \in 1..2 : i = 1 \/ i = 2
    BY <1>3, <1>5
  <1> HIDE DEF ws
  <1>7. \A i \in 1..2 : UsersWrite(ws, i) /\ LinksWrite(ws, i)
    BY <1>4, <1>6 DEF UsersWrite, LinksWrite
  <1>8. OncePerFile(ws)
    BY <1>4, <1>6 DEF OncePerFile
  <1>9. Plan(ws)
    BY <1>1, <1>6, <1>7, <1>8 DEF Plan
  <1>10. QED
    BY <1>2, <1>9 DEF ws

-----------------------------------------------------------------------------
(* The steps *)

LEMMA SignUpStep == ASSUME IInv, NEW e \in Emails, SignUp(e) PROVE IInv'
  <1> DEFINE d == [users EXCEPT ![e] = "signup"]
  <1>1. d \in Users /\ KeepsAccounts(d)
    BY DEF IInv, TypeOK, Users, Passwords, KeepsAccounts, SignUp
  <1>2. Plan(Saved("users", d))
    BY <1>1, UsersPlan
  <1>3. QED
    BY <1>2, HandlerStep DEF SignUp

LEMMA RequestResetStep ==
  ASSUME IInv, NEW t \in Tokens, NEW e \in Emails, RequestReset(t, e)
  PROVE  IInv'
  <1> DEFINE r == [resets EXCEPT !.owner[t] = e]
  <1>1. r \in Data["resets"]
    BY DEF IInv, TypeOK, Resets, Data
  <1>2. Plan(Saved("resets", r))
    BY <1>1, PlainPlan
  <1>3. QED
    BY <1>2, HandlerStep DEF RequestReset

LEMMA ConfirmResetStep == ASSUME IInv, NEW t \in Tokens, ConfirmReset(t) PROVE IInv'
  <1> DEFINE e == resets.owner[t]
             d == [users EXCEPT ![e] = t]
             r == [resets EXCEPT !.used = @ \cup {t}]
  <1>1. e \in Emails /\ users[e] # Nobody
    BY DEF IInv, TypeOK, Resets, ConfirmReset
  <1>2. d \in Users /\ r \in Resets
    BY <1>1 DEF IInv, TypeOK, Users, Resets, Passwords
  <1>3. KeepsAccounts(d)
    BY <1>1, AccountsAssumption DEF KeepsAccounts, IInv, TypeOK, Users
  <1>4. Plan(Saved("users", d) \o Saved("resets", r))
    BY <1>2, <1>3, ResetPlan
  <1>5. QED
    BY <1>4, HandlerStep DEF ConfirmReset

LEMMA StartOAuthStep ==
  ASSUME IInv, NEW s \in States, NEW owner \in Emails \cup {Login}, StartOAuth(s, owner)
  PROVE  IInv'
  <1> DEFINE r == [states EXCEPT !.owner[s] = owner]
  <1>1. r \in Data["states"]
    BY DEF IInv, TypeOK, StateRows, Data
  <1>2. Plan(Saved("states", r))
    BY <1>1, PlainPlan
  <1>3. QED
    BY <1>2, HandlerStep DEF StartOAuth

\* The OAuth states with s used.
Spent(s) == [states EXCEPT !.used = @ \cup {s}]

LEMMA SpentFacts ==
  ASSUME TypeOK, NEW s \in States
  PROVE  /\ Spent(s) \in StateRows
         /\ Plan(SpendFirst(s, <<>>))
  <1>1. Spent(s) \in StateRows
    BY DEF TypeOK, StateRows, Spent
  <1>2. Plan(Saved("states", Spent(s)))
    BY <1>1, PlainPlan DEF Data
  <1>3. SpendFirst(s, <<>>) = Saved("states", Spent(s))
    BY OneAndNone DEF SpendFirst, Saved, Spent
  <1>4. QED
    BY <1>1, <1>2, <1>3

\* The links with one more name accounts that are there.
LEMMA NamedAccounts ==
  ASSUME TypeOK, LinksAgree, LinkedAccountsExist,
         NEW p \in Providers, NEW id \in Subjects, NEW e \in Emails,
         links.byId[<<p, id>>] \in {Nobody, e},
         NEW d \in Users, KeepsAccounts(d), d[e] # Nobody
  PROVE  /\ Linking(p, id, e) \in Links /\ Agree(Linking(p, id, e)) /\ KeepsOwners(Linking(p, id, e))
         /\ \A x \in Ids : Linking(p, id, e).byId[x] # Nobody => d[Linking(p, id, e).byId[x]] # Nobody
  <1> DEFINE l == Linking(p, id, e)
  <1>1. /\ l \in Links /\ Agree(l) /\ KeepsOwners(l)
        /\ \A x \in Ids : l.byId[x] = IF x = <<p, id>> THEN e ELSE links.byId[x]
    BY LinkFacts
  <1>2. \A x \in Ids : links.byId[x] \in Emails \cup {Nobody}
    BY DEF TypeOK, Links, Ids
  <1>3. \A x \in Ids : links.byId[x] # Nobody => users[links.byId[x]] # Nobody
    BY DEF LinkedAccountsExist, Ids
  <1> HIDE DEF l
  <1>4. ASSUME NEW x \in Ids, l.byId[x] # Nobody
        PROVE  d[l.byId[x]] # Nobody
    <2>1. CASE x = <<p, id>>
      BY <1>1, <2>1
    <2>2. CASE x # <<p, id>>
      BY <1>1, <1>2, <1>3, <1>4, <2>2 DEF KeepsAccounts
    <2>3. QED
      BY <2>1, <2>2
  <1>5. QED
    BY <1>1, <1>4 DEF l

LEMMA LinkCallbackStep ==
  ASSUME IInv, NEW p \in Providers, NEW s \in States, NEW id \in Subjects,
         LinkCallback(p, s, id)
  PROVE  IInv'
  <1> DEFINE owner == states.owner[s]
             l == Linking(p, id, owner)
  <1>1. owner \in Emails
    BY DEF IInv, TypeOK, StateRows, LinkCallback, Acceptable
  <1>2. CASE MayLink(p, id, owner)
             /\ Handler({"states", "links", "users"}, SpendFirst(s, Link(p, id, owner)))
    <2>1. users \in Users /\ KeepsAccounts(users) /\ users[owner] # Nobody
      BY <1>2 DEF IInv, TypeOK, KeepsAccounts, MayLink
    <2>2. links.byId[<<p, id>>] \in {Nobody, owner}
      BY <1>2 DEF MayLink
    <2>3. /\ l \in Links /\ Agree(l) /\ KeepsOwners(l)
          /\ \A x \in Ids : l.byId[x] # Nobody => users[l.byId[x]] # Nobody
      BY <1>1, <2>1, <2>2, NamedAccounts DEF IInv
    <2>4. Spent(s) \in StateRows
      BY SpentFacts DEF IInv
    <2> HIDE DEF l
    <2>5. Plan(Saved("states", Spent(s)) \o Saved("links", l))
      BY <2>3, <2>4, LinksPlan
    <2>6. SpendFirst(s, Link(p, id, owner)) = Saved("states", Spent(s)) \o Saved("links", l)
      BY DEF SpendFirst, Spent, Link, Linking, l
    <2>7. Plan(SpendFirst(s, Link(p, id, owner)))
      BY <2>5, <2>6
    <2>8. QED
      BY <1>2, <2>7, HandlerStep
  <1>3. CASE Handler({"states"}, SpendFirst(s, <<>>))
    BY <1>3, SpentFacts, HandlerStep DEF IInv
  <1>4. QED
    BY <1>2, <1>3 DEF LinkCallback

LEMMA LoginCallbackStep ==
  ASSUME IInv, NEW p \in Providers, NEW s \in States, NEW id \in Subjects, NEW e \in Emails,
         LoginCallback(p, s, id, e)
  PROVE  IInv'
  <1> DEFINE l == Linking("google", id, e)
             planned == SpendFirst(s, FirstSignIn(id, e))
  <1>1. CASE p = "google" /\ links.byId[<<p, id>>] = Nobody
             /\ Handler({"states", "links", "users"}, planned)
    <2>1. links.byId[<<"google", id>>] \in {Nobody, e} /\ "google" \in Providers
      BY <1>1 DEF Providers
    <2>2. Spent(s) \in StateRows
      BY SpentFacts DEF IInv
    <2>3. CASE users[e] = Nobody
      <3> DEFINE d == [users EXCEPT ![e] = Passwordless]
      <3>1. d \in Users /\ KeepsAccounts(d) /\ d[e] # Nobody
        BY <2>3, AccountsAssumption DEF IInv, TypeOK, Users, Passwords, Passwordless, KeepsAccounts
      <3>2. /\ l \in Links /\ Agree(l) /\ KeepsOwners(l)
            /\ \A x \in Ids : l.byId[x] # Nobody => d[l.byId[x]] # Nobody
        BY <2>1, <3>1, NamedAccounts DEF IInv
      <3>3. planned = Saved("states", Spent(s)) \o (Saved("users", d) \o Saved("links", l))
        BY <2>3 DEF SpendFirst, Spent, FirstSignIn, AccountFirst, Link, Linking
      <3> HIDE DEF l, d, planned
      <3>4. Plan(Saved("states", Spent(s)) \o (Saved("users", d) \o Saved("links", l)))
        BY <2>2, <3>1, <3>2, AccountAndLinksPlan
      <3>5. Plan(planned)
        BY <3>3, <3>4
      <3>6. QED
        BY <1>1, <3>5, HandlerStep
    <2>4. CASE users[e] # Nobody
      <3>1. users \in Users /\ KeepsAccounts(users)
        BY DEF IInv, TypeOK, KeepsAccounts
      <3>2. /\ l \in Links /\ Agree(l) /\ KeepsOwners(l)
            /\ \A x \in Ids : l.byId[x] # Nobody => users[l.byId[x]] # Nobody
        BY <2>1, <2>4, <3>1, NamedAccounts DEF IInv
      <3>3. <<>> \o Saved("links", l) = Saved("links", l)
        BY OneAndNone DEF Saved
      <3>4. planned = Saved("states", Spent(s)) \o Saved("links", l)
        BY <2>4, <3>3 DEF SpendFirst, Spent, FirstSignIn, AccountFirst, Link, Linking
      <3> HIDE DEF l, planned
      <3>5. Plan(Saved("states", Spent(s)) \o Saved("links", l))
        BY <2>2, <3>2, LinksPlan
      <3>6. Plan(planned)
        BY <3>4, <3>5
      <3>7. QED
        BY <1>1, <3>6, HandlerStep
    <2>5. QED
      BY <2>3, <2>4
  <1>2. CASE Handler({"states"}, SpendFirst(s, <<>>))
    BY <1>2, SpentFacts, HandlerStep DEF IInv
  <1>3. QED
    BY <1>1, <1>2 DEF LoginCallback

LEMMA ExpireStep == ASSUME IInv, NEW x \in Tokens \cup States, Expire(x) PROVE IInv'
  <1>1. UNCHANGED <<users, resets, states, links, todo, torn>> /\ expired' = expired \cup {x}
    BY DEF Expire
  <1>2. Plan(todo)'
    BY <1>1, PlanStays DEF IInv
  <1>3. QED
    BY <1>1, <1>2 DEF IInv, TypeOK, LinksAgree, LinkedAccountsExist

LEMMA CrashStep == ASSUME IInv, Crash PROVE IInv'
  <1>1. /\ UNCHANGED <<users, resets, states, links, expired>> /\ todo' = <<>>
        /\ todo # <<>> /\ torn' \in {torn, torn \cup {Head(todo).file}}
    BY DEF Crash
  <1>2. todo' \in Seq(Row) /\ Len(todo') = 0 /\ DOMAIN todo' = {}
    BY <1>1
  <1>3. Plan(todo)'
    BY <1>2 DEF Plan, OncePerFile
  <1>4. Head(todo).file \in Files
    <2>1. todo \in Seq(Row) /\ todo # <<>>
      BY <1>1 DEF IInv, Plan
    <2>2. Head(todo) \in Row
      BY <2>1, HeadTailProperties
    <2>3. QED
      BY <2>2 DEF Row
  <1>5. TypeOK'
    BY <1>1, <1>2, <1>4 DEF IInv, TypeOK
  <1>6. LinksAgree' /\ LinkedAccountsExist'
    BY <1>1 DEF IInv, LinksAgree, LinkedAccountsExist
  <1>7. QED
    BY <1>3, <1>5, <1>6 DEF IInv

\* The write that is next, and the writes that stay.
LEMMA WriteFacts ==
  ASSUME IInv, Write
  PROVE  /\ Len(todo) \in Nat \ {0} /\ Head(todo) = todo[1] /\ Typed(todo[1])
         /\ todo' = Tail(todo) /\ todo' \in Seq(Row) /\ Len(todo') = Len(todo) - 1
         /\ \A i \in 1..Len(todo') :
              /\ todo'[i] = todo[i + 1] /\ i + 1 \in 1..Len(todo)
              /\ todo'[i].file # todo[1].file
  <1>1. todo # <<>> /\ todo \in Seq(Row) /\ todo' = Tail(todo) /\ OncePerFile(todo)
    BY DEF Write, IInv, Plan
  <1>2. Len(todo) \in Nat \ {0} /\ Head(todo) = todo[1]
    BY <1>1, EmptySeq
  <1>3. /\ todo' \in Seq(Row) /\ Len(todo') = Len(todo) - 1
        /\ \A i \in 1..Len(todo') : todo'[i] = todo[i + 1]
    BY <1>1, HeadTailProperties
  <1>4. 1 \in 1..Len(todo) /\ \A i \in 1..Len(todo') : i + 1 \in 1..Len(todo) /\ i + 1 # 1
    BY <1>2, <1>3
  <1>5. QED
    BY <1>1, <1>2, <1>3, <1>4 DEF OncePerFile, IInv, Plan

\* What is there before a write is there before it when one write has been done.
LEMMA ThereStays ==
  ASSUME IInv, Write, NEW i \in 1..Len(todo'), NEW e \in Emails, There(todo, e, i + 1)
  PROVE  There(todo, e, i)'
  <1>1. /\ users' = IF todo[1].file = "users" THEN todo[1].data ELSE users
        /\ Len(todo) \in Nat \ {0} /\ Len(todo') = Len(todo) - 1
        /\ \A j \in 1..Len(todo') : todo'[j] = todo[j + 1]
    BY WriteFacts DEF Write
  <1>2. 1 \in 1..Len(todo) /\ UsersWrite(todo, 1)
    BY <1>1 DEF IInv, Plan
  <1>3. CASE users[e] # Nobody
    BY <1>1, <1>2, <1>3 DEF UsersWrite, KeepsAccounts, There
  <1>4. CASE \E j \in 1..((i + 1) - 1) : todo[j].file = "users" /\ todo[j].data[e] # Nobody
    <2>1. PICK j \in 1..((i + 1) - 1) : todo[j].file = "users" /\ todo[j].data[e] # Nobody
      BY <1>4
    <2>2. CASE j = 1
      BY <1>1, <2>1, <2>2 DEF There
    <2>3. CASE j # 1
      <3> DEFINE k == j - 1
      <3>1. k \in 1..(i - 1) /\ k \in 1..Len(todo') /\ k + 1 = j
        BY <1>1, <2>3
      <3> HIDE DEF k
      <3>2. todo'[k] = todo[j]
        BY <1>1, <3>1
      <3>3. QED
        BY <2>1, <3>1, <3>2 DEF There
    <2>4. QED
      BY <2>2, <2>3
  <1>5. QED
    BY <1>3, <1>4 DEF There

LEMMA WritePlan == ASSUME IInv, Write PROVE Plan(todo)'
  <1>1. /\ users' = IF todo[1].file = "users" THEN todo[1].data ELSE users
        /\ links' = IF todo[1].file = "links" THEN todo[1].data ELSE links
        /\ Len(todo) \in Nat \ {0} /\ Len(todo') = Len(todo) - 1
    BY WriteFacts DEF Write
  <1>2. todo' \in Seq(Row) /\ \A i \in 1..Len(todo') : Typed(todo'[i])
    BY WriteFacts DEF IInv, Plan
  <1>3. OncePerFile(todo)'
    <2>1. ASSUME NEW i \in 1..Len(todo'), NEW j \in 1..Len(todo'), todo'[i].file = todo'[j].file
          PROVE  i = j
      <3>1. /\ todo'[i] = todo[i + 1] /\ i + 1 \in 1..Len(todo)
            /\ todo'[j] = todo[j + 1] /\ j + 1 \in 1..Len(todo)
        BY WriteFacts
      <3>2. i + 1 = j + 1
        BY <2>1, <3>1 DEF IInv, Plan, OncePerFile
      <3>3. QED
        BY <1>1, <3>2
    <2>2. QED
      BY <2>1 DEF OncePerFile
  <1>4. ASSUME NEW i \in 1..Len(todo') PROVE (UsersWrite(todo, i) /\ LinksWrite(todo, i))'
    <2>1. /\ todo'[i] = todo[i + 1] /\ i + 1 \in 1..Len(todo)
          /\ todo'[i].file # todo[1].file /\ Typed(todo[i + 1])
      BY WriteFacts DEF IInv, Plan
    <2>2. UsersWrite(todo, i + 1) /\ LinksWrite(todo, i + 1)
      BY <2>1 DEF IInv, Plan
    <2>3. UsersWrite(todo, i)'
      BY <1>1, <2>1, <2>2 DEF UsersWrite, KeepsAccounts
    <2>4. ASSUME todo'[i].file = "links" PROVE LinksWrite(todo, i)'
      <3>1. links' = links
        BY <1>1, <2>1, <2>4
      <3>2. Agree(todo[i + 1].data) /\ KeepsOwners(todo[i + 1].data) /\ NamesAccounts(todo, i + 1)
        BY <2>1, <2>2, <2>4 DEF LinksWrite
      <3>3. todo[i + 1].data \in Links
        BY <2>1, <2>4 DEF Typed, Data
      <3>4. (Agree(todo[i].data) /\ KeepsOwners(todo[i].data))'
        BY <2>1, <3>1, <3>2 DEF Agree, KeepsOwners
      <3>5. ASSUME NEW x \in Ids, todo'[i].data.byId[x] # Nobody
            PROVE  There(todo, todo[i].data.byId[x], i)'
        <4>1. PICK e \in Emails : e = todo[i + 1].data.byId[x]
          BY <2>1, <3>3, <3>5 DEF Links, Ids
        <4>2. There(todo, e, i + 1)
          BY <2>1, <3>2, <3>5, <4>1 DEF NamesAccounts
        <4>3. There(todo, e, i)'
          BY <4>2, ThereStays
        <4>4. e = todo'[i].data.byId[x]
          BY <2>1, <4>1
        <4>5. QED
          BY <4>3, <4>4
      <3>6. NamesAccounts(todo, i)'
        BY <3>5 DEF NamesAccounts
      <3>7. QED
        BY <3>4, <3>6 DEF LinksWrite
    <2>5. QED
      BY <2>3, <2>4 DEF LinksWrite
  <1>5. QED
    BY <1>2, <1>3, <1>4 DEF Plan, Typed

LEMMA WriteStep == ASSUME IInv, Write PROVE IInv'
  <1>1. /\ users' = IF todo[1].file = "users" THEN todo[1].data ELSE users
        /\ resets' = IF todo[1].file = "resets" THEN todo[1].data ELSE resets
        /\ states' = IF todo[1].file = "states" THEN todo[1].data ELSE states
        /\ links' = IF todo[1].file = "links" THEN todo[1].data ELSE links
        /\ expired' = expired /\ torn' = torn
        /\ Typed(todo[1]) /\ 1 \in 1..Len(todo)
    BY WriteFacts DEF Write
  <1>2. UsersWrite(todo, 1) /\ LinksWrite(todo, 1)
    BY <1>1 DEF IInv, Plan
  <1>3. Plan(todo)'
    BY WritePlan
  <1>4. TypeOK'
    <2>1. users' \in Users /\ resets' \in Resets /\ states' \in StateRows /\ links' \in Links
      BY <1>1 DEF IInv, TypeOK, Typed, Data
    <2>2. \A i \in DOMAIN todo' : todo'[i].file \in Files /\ todo'[i].data \in Data[todo'[i].file]
      BY <1>3, LenProperties DEF Plan, Typed
    <2>3. QED
      BY <1>1, <2>1, <2>2 DEF IInv, TypeOK
  <1>5. LinksAgree'
    BY <1>1, <1>2 DEF IInv, LinksAgree, LinksWrite, Agree
  <1>6. LinkedAccountsExist'
    <2>1. ASSUME NEW p \in Providers, NEW id \in Subjects, links'.byId[<<p, id>>] # Nobody
          PROVE  users'[links'.byId[<<p, id>>]] # Nobody
      <3>1. CASE todo[1].file = "links"
        <4>1. There(todo, links'.byId[<<p, id>>], 1)
          BY <1>1, <1>2, <2>1, <3>1 DEF LinksWrite, NamesAccounts, Ids
        <4>2. users[links'.byId[<<p, id>>]] # Nobody
          BY <4>1 DEF There
        <4>3. QED
          BY <1>1, <3>1, <4>2
      <3>2. CASE todo[1].file # "links"
        <4>1. links' = links /\ users[links.byId[<<p, id>>]] # Nobody
          BY <1>1, <2>1, <3>2 DEF IInv, LinkedAccountsExist
        <4>2. links.byId[<<p, id>>] \in Emails
          BY <2>1, <4>1 DEF IInv, TypeOK, Links
        <4>3. QED
          BY <1>1, <1>2, <4>1, <4>2 DEF UsersWrite, KeepsAccounts
      <3>3. QED
        BY <3>1, <3>2
    <2>2. QED
      BY <2>1 DEF LinkedAccountsExist
  <1>7. QED
    BY <1>3, <1>4, <1>5, <1>6 DEF IInv

LEMMA InvStep == IInv /\ [Next]_vars => IInv'
  <1> SUFFICES ASSUME IInv, [Next]_vars PROVE IInv'
    OBVIOUS
  <1>1. CASE \E e \in Emails : SignUp(e) \/ \E t \in Tokens : RequestReset(t, e)
    BY <1>1, SignUpStep, RequestResetStep
  <1>2. CASE \E t \in Tokens : ConfirmReset(t)
    BY <1>2, ConfirmResetStep
  <1>3. CASE \E s \in States, owner \in Emails \cup {Login} : StartOAuth(s, owner)
    BY <1>3, StartOAuthStep
  <1>4. CASE \E p \in Providers, s \in States, id \in Subjects :
               LinkCallback(p, s, id) \/ \E e \in Emails : LoginCallback(p, s, id, e)
    BY <1>4, LinkCallbackStep, LoginCallbackStep
  <1>5. CASE \E x \in Tokens \cup States : Expire(x)
    BY <1>5, ExpireStep
  <1>6. CASE Write
    BY <1>6, WriteStep
  <1>7. CASE Crash
    BY <1>7, CrashStep
  <1>8. CASE UNCHANGED vars
    <2>1. UNCHANGED <<users, resets, states, links, expired, todo, torn>>
      BY <1>8 DEF vars
    <2>2. Plan(todo)'
      BY <2>1, PlanStays DEF IInv
    <2>3. QED
      BY <2>1, <2>2 DEF IInv, TypeOK, LinksAgree, LinkedAccountsExist
  <1>9. QED
    BY <1>1, <1>2, <1>3, <1>4, <1>5, <1>6, <1>7, <1>8 DEF Next

\* Every state of a behaviour is of the inductive invariant.
THEOREM Invariance == Spec => []IInv
  <1>1. QED
    BY InvInit, InvStep, PTL DEF Spec

\* The four files and the list of writes keep their types.
THEOREM TypeCorrectness == Spec => []TypeOK
  <1>1. IInv => TypeOK
    BY DEF IInv
  <1>2. QED
    BY <1>1, Invariance, PTL

\* The two directions of a link agree, whatever callbacks ran and wherever the
\* process died.
THEOREM LinksStayInAgreement == Spec => []LinksAgree
  <1>1. IInv => LinksAgree
    BY DEF IInv
  <1>2. QED
    BY <1>1, Invariance, PTL

\* No crash leaves a link of an account that was not saved.
THEOREM LinksNameAccounts == Spec => []LinkedAccountsExist
  <1>1. IInv => LinkedAccountsExist
    BY DEF IInv
  <1>2. QED
    BY <1>1, Invariance, PTL

\* Only a write of the links changes them, and that write was planned on the
\* links it replaces.
LEMMA OwnersStep ==
  IInv /\ [Next]_vars =>
    [\A x \in Providers \X Subjects : links.byId[x] # Nobody => links'.byId[x] = links.byId[x]]_vars
  <1> SUFFICES ASSUME IInv, [Next]_vars
               PROVE  \A x \in Providers \X Subjects :
                        links.byId[x] # Nobody => links'.byId[x] = links.byId[x]
    OBVIOUS
  <1>1. CASE Write
    <2>1. links' = IF todo[1].file = "links" THEN todo[1].data ELSE links
      BY <1>1, WriteFacts DEF Write
    <2>2. 1 \in 1..Len(todo)
      BY <1>1, WriteFacts
    <2>3. LinksWrite(todo, 1)
      BY <2>2 DEF IInv, Plan
    <2>4. QED
      BY <2>1, <2>3 DEF LinksWrite, KeepsOwners, Ids
  <1>2. CASE ~Write
    <2>1. links' = links
      BY <1>2 DEF Next, SignUp, RequestReset, ConfirmReset, StartOAuth, LinkCallback, LoginCallback,
                  Handler, Expire, Crash, vars
    <2>2. QED
      BY <2>1
  <1>3. QED
    BY <1>1, <1>2

\* A provider account once linked stays with its owner.
THEOREM OwnersAreKept == Spec => OwnersKept
  <1>1. QED
    BY Invariance, OwnersStep, PTL DEF Spec, OwnersKept

-----------------------------------------------------------------------------
(* One link per OAuth state.  A links write is paid for by the states used  *)
(* in the file or in a write before it.                                    *)

Paid(ws, n, i) ==
  \/ n <= Cardinality(states.used)
  \/ \E j \in 1..(i - 1) : ws[j].file = "states" /\ n <= Cardinality(ws[j].data.used)

StatesWrite(ws, i) == ws[i].file = "states" => states.used \subseteq ws[i].data.used
PaidWrite(ws, i) == ws[i].file = "links" => Paid(ws, Cardinality(Linked(ws[i].data)), i)
Budget(ws) == \A i \in 1..Len(ws) : StatesWrite(ws, i) /\ PaidWrite(ws, i)

BudgetInv == OneLinkPerState /\ Budget(todo)

Finite == IsFiniteSet(Subjects) /\ IsFiniteSet(States)

\* Only finitely many provider accounts and states are counted.
LEMMA Counted ==
  ASSUME Finite
  PROVE  /\ \A l : IsFiniteSet(Linked(l)) /\ Cardinality(Linked(l)) \in Nat
         /\ \A S \in SUBSET States : IsFiniteSet(S) /\ Cardinality(S) \in Nat
  <1>1. IsFiniteSet(Providers)
    <2>1. IsFiniteSet({}) /\ Providers = ({} \cup {"github"}) \cup {"google"}
      BY FS_EmptySet DEF Providers
    <2>2. IsFiniteSet({} \cup {"github"})
      BY <2>1, FS_AddElement
    <2>3. IsFiniteSet(({} \cup {"github"}) \cup {"google"})
      BY <2>2, FS_AddElement
    <2>4. QED
      BY <2>1, <2>3
  <1>2. IsFiniteSet(Ids)
    BY <1>1, FS_Product DEF Ids, Finite
  <1>3. \A l : Linked(l) \subseteq Ids
    BY DEF Linked
  <1>4. QED
    BY <1>2, <1>3, FS_Subset, FS_CardinalityType DEF Finite

LEMMA OneLinkIsLinked == OneLinkPerState <=> Cardinality(Linked(links)) <= Cardinality(states.used)
  BY DEF OneLinkPerState, Linked, Ids

\* One more link, and one more state used.
LEMMA LinkIsPaid ==
  ASSUME Finite, TypeOK, OneLinkPerState, NEW s \in States, s \notin states.used,
         NEW p \in Providers, NEW id \in Subjects, NEW e \in Emails
  PROVE  /\ Cardinality(Linked(Linking(p, id, e))) <= Cardinality(Spent(s).used)
         /\ states.used \subseteq Spent(s).used
  <1> DEFINE l == Linking(p, id, e)
             more == Linked(links) \cup {<<p, id>>}
  <1>1. Spent(s).used = states.used \cup {s} /\ states.used \in SUBSET States
    BY DEF TypeOK, StateRows, Spent
  <1>2. Cardinality(Spent(s).used) = Cardinality(states.used) + 1
    BY <1>1, Counted, FS_AddElement
  <1>3. l.byId = [links.byId EXCEPT ![<<p, id>>] = e]
    BY DEF TypeOK, Links, Linking
  <1>4. \A x \in Ids : x # <<p, id>> => l.byId[x] = links.byId[x]
    BY <1>3 DEF TypeOK, Links, Ids
  <1> HIDE DEF l
  <1>5. Linked(l) \subseteq more
    BY <1>4 DEF Linked
  <1>6. IsFiniteSet(more) /\ Cardinality(more) <= Cardinality(Linked(links)) + 1
    <2>1. IsFiniteSet(Linked(links)) /\ Cardinality(Linked(links)) \in Nat
      BY Counted
    <2> DEFINE S == Linked(links)
    <2> HIDE DEF S
    <2>2. /\ IsFiniteSet(S \cup {<<p, id>>})
          /\ Cardinality(S \cup {<<p, id>>}) = IF <<p, id>> \in S THEN Cardinality(S) ELSE Cardinality(S) + 1
      BY <2>1, FS_AddElement DEF S
    <2>3. QED
      BY <2>1, <2>2 DEF S
  <1>7. Cardinality(Linked(l)) <= Cardinality(more)
    BY <1>5, <1>6, FS_Subset
  <1>8. Cardinality(Linked(l)) \in Nat /\ Cardinality(more) \in Nat
        /\ Cardinality(Linked(links)) \in Nat /\ Cardinality(states.used) \in Nat
    BY <1>1, <1>6, Counted, FS_CardinalityType
  <1>9. Cardinality(Linked(links)) <= Cardinality(states.used)
    BY OneLinkIsLinked
  <1>10. QED
    BY <1>1, <1>2, <1>6, <1>7, <1>8, <1>9 DEF l

\* A list whose first write is of the states and whose last is of links, if any.
LEMMA BudgetOfOne ==
  ASSUME NEW file \in Files, NEW d, file # "links",
         file = "states" => states.used \subseteq d.used
  PROVE  Budget(Saved(file, d))
  <1> DEFINE w == [file |-> file, data |-> d]
             ws == <<w>>
  <1>1. ws[1] = w /\ Len(ws) = 1 /\ w.file = file /\ w.data = d
    OBVIOUS
  <1> HIDE DEF w, ws
  <1>2. Budget(ws)
    BY <1>1 DEF Budget, StatesWrite, PaidWrite
  <1>3. QED
    BY <1>2 DEF Saved, w, ws

LEMMA BudgetOfReset ==
  ASSUME NEW d, NEW r
  PROVE  Budget(Saved("users", d) \o Saved("resets", r))
  <1> DEFINE v == [file |-> "users", data |-> d]
             w == [file |-> "resets", data |-> r]
             ws == <<v, w>>
  <1>1. Saved("users", d) \o Saved("resets", r) = ws
    BY OneAndOne DEF Saved
  <1>2. ws[1] = v /\ ws[2] = w /\ Len(ws) = 2 /\ v.file = "users" /\ w.file = "resets"
    OBVIOUS
  <1> HIDE DEF v, w, ws
  <1>3. Budget(ws)
    BY <1>2 DEF Budget, StatesWrite, PaidWrite
  <1>4. QED
    BY <1>1, <1>3

LEMMA BudgetOfLink ==
  ASSUME NEW r, NEW l, states.used \subseteq r.used,
         Cardinality(Linked(l)) <= Cardinality(r.used)
  PROVE  /\ Budget(Saved("states", r) \o Saved("links", l))
         /\ \A d : Budget(Saved("states", r) \o (Saved("users", d) \o Saved("links", l)))
  <1> DEFINE v == [file |-> "states", data |-> r]
             w == [file |-> "links", data |-> l]
             ws == <<v, w>>
  <1>1. Saved("states", r) \o Saved("links", l) = ws
    BY OneAndOne DEF Saved
  <1>2. /\ ws[1] = v /\ ws[2] = w /\ Len(ws) = 2
        /\ v.file = "states" /\ v.data = r /\ w.file = "links" /\ w.data = l
    OBVIOUS
  <1>3. ASSUME NEW d
        PROVE  Budget(Saved("states", r) \o (Saved("users", d) \o Saved("links", l)))
    <2> DEFINE u == [file |-> "users", data |-> d]
               us == <<v, u, w>>
    <2>1. Saved("states", r) \o (Saved("users", d) \o Saved("links", l)) = us
      BY OneAndOne, OneAndTwo DEF Saved
    <2>2. us[1] = v /\ us[2] = u /\ us[3] = w /\ Len(us) = 3 /\ u.file = "users"
      OBVIOUS
    <2> HIDE DEF v, w, ws, u, us
    <2>3. Paid(us, Cardinality(Linked(l)), 3)
      BY <1>2, <2>2 DEF Paid
    <2>4. Budget(us)
      BY <1>2, <2>2, <2>3 DEF Budget, StatesWrite, PaidWrite
    <2>5. QED
      BY <2>1, <2>4
  <1> HIDE DEF v, w, ws
  <1>4. Paid(ws, Cardinality(Linked(l)), 2)
    BY <1>2 DEF Paid
  <1>5. Budget(ws)
    BY <1>2, <1>4 DEF Budget, StatesWrite, PaidWrite
  <1>6. QED
    BY <1>1, <1>3, <1>5

\* Handlers change no file: it is enough that their list keeps the budget.
LEMMA BudgetStays ==
  ASSUME BudgetInv, NEW ws, Budget(ws), UNCHANGED <<states, links>>, todo' = ws
  PROVE  BudgetInv'
  <1>1. Budget(ws)'
    BY DEF Budget, StatesWrite, PaidWrite, Paid, Linked
  <1>2. Budget(todo)'
    BY <1>1
  <1>3. OneLinkPerState'
    BY DEF BudgetInv, OneLinkPerState
  <1>4. QED
    BY <1>2, <1>3 DEF BudgetInv

LEMMA BudgetInit == ASSUME Finite PROVE Init => BudgetInv
  <1> SUFFICES ASSUME Init PROVE BudgetInv
    OBVIOUS
  <1>1. Linked(links) = {} /\ states.used = {} /\ Len(todo) = 0
    BY DEF Init, Linked, Ids
  <1>2. Cardinality(Linked(links)) <= Cardinality(states.used)
    BY <1>1, FS_EmptySet
  <1>3. QED
    BY <1>1, <1>2, OneLinkIsLinked DEF BudgetInv, Budget

LEMMA BudgetPlainSteps ==
  ASSUME Finite, IInv, BudgetInv,
         \/ \E e \in Emails : SignUp(e) \/ \E t \in Tokens : RequestReset(t, e)
         \/ \E t \in Tokens : ConfirmReset(t)
         \/ \E s \in States, owner \in Emails \cup {Login} : StartOAuth(s, owner)
  PROVE  BudgetInv'
  <1>1. ASSUME NEW e \in Emails, SignUp(e) PROVE BudgetInv'
    <2>1. Budget(Saved("users", [users EXCEPT ![e] = "signup"]))
      BY BudgetOfOne DEF Files
    <2>2. QED
      BY <1>1, <2>1, BudgetStays DEF SignUp, Handler
  <1>2. ASSUME NEW e \in Emails, NEW t \in Tokens, RequestReset(t, e) PROVE BudgetInv'
    <2>1. Budget(Saved("resets", [resets EXCEPT !.owner[t] = e]))
      BY BudgetOfOne DEF Files
    <2>2. QED
      BY <1>2, <2>1, BudgetStays DEF RequestReset, Handler
  <1>3. ASSUME NEW t \in Tokens, ConfirmReset(t) PROVE BudgetInv'
    <2>1. Budget(Saved("users", [users EXCEPT ![resets.owner[t]] = t])
                   \o Saved("resets", [resets EXCEPT !.used = @ \cup {t}]))
      BY BudgetOfReset
    <2>2. QED
      BY <1>3, <2>1, BudgetStays DEF ConfirmReset, Handler
  <1>4. ASSUME NEW s \in States, NEW owner \in Emails \cup {Login}, StartOAuth(s, owner)
        PROVE  BudgetInv'
    <2> DEFINE r == [states EXCEPT !.owner[s] = owner]
    <2>1. states.used \subseteq r.used
      BY DEF IInv, TypeOK, StateRows
    <2>2. Budget(Saved("states", r))
      BY <2>1, BudgetOfOne DEF Files
    <2>3. QED
      BY <1>4, <2>2, BudgetStays DEF StartOAuth, Handler
  <1>5. QED
    BY <1>1, <1>2, <1>3, <1>4

LEMMA BudgetCallbackSteps ==
  ASSUME Finite, IInv, BudgetInv, NEW p \in Providers, NEW s \in States, NEW id \in Subjects,
         LinkCallback(p, s, id) \/ \E e \in Emails : LoginCallback(p, s, id, e)
  PROVE  BudgetInv'
  <1>1. s \notin states.used /\ UNCHANGED <<states, links>>
    BY DEF LinkCallback, LoginCallback, Acceptable, Handler
  <1>2. Budget(SpendFirst(s, <<>>))
    <2>1. states.used \subseteq Spent(s).used
      BY DEF IInv, TypeOK, StateRows, Spent
    <2>2. Budget(Saved("states", Spent(s)))
      BY <2>1, BudgetOfOne DEF Files
    <2>3. SpendFirst(s, <<>>) = Saved("states", Spent(s))
      BY OneAndNone DEF SpendFirst, Saved, Spent
    <2>4. QED
      BY <2>2, <2>3
  <1>3. ASSUME NEW q \in Providers, NEW e \in Emails
        PROVE  /\ Budget(Saved("states", Spent(s)) \o Saved("links", Linking(q, id, e)))
               /\ \A d : Budget(Saved("states", Spent(s))
                                  \o (Saved("users", d) \o Saved("links", Linking(q, id, e))))
    <2>1. /\ Cardinality(Linked(Linking(q, id, e))) <= Cardinality(Spent(s).used)
          /\ states.used \subseteq Spent(s).used
      BY <1>1, LinkIsPaid DEF IInv, BudgetInv
    <2>2. QED
      BY <2>1, BudgetOfLink
  <1>4. CASE LinkCallback(p, s, id)
    <2> DEFINE owner == states.owner[s]
    <2>1. owner \in Emails
      BY <1>4 DEF IInv, TypeOK, StateRows, LinkCallback, Acceptable
    <2>2. SpendFirst(s, Link(p, id, owner))
            = Saved("states", Spent(s)) \o Saved("links", Linking(p, id, owner))
      BY DEF SpendFirst, Spent, Link, Linking
    <2>3. Budget(SpendFirst(s, Link(p, id, owner)))
      BY <1>3, <2>1, <2>2
    <2>4. todo' \in {SpendFirst(s, Link(p, id, owner)), SpendFirst(s, <<>>)}
      BY <1>4 DEF LinkCallback, Handler
    <2>5. QED
      BY <1>1, <1>2, <2>3, <2>4, BudgetStays
  <1>5. ASSUME NEW e \in Emails, LoginCallback(p, s, id, e) PROVE BudgetInv'
    <2> DEFINE l == Linking("google", id, e)
               planned == SpendFirst(s, FirstSignIn(id, e))
    <2>1. "google" \in Providers
      BY DEF Providers
    <2>2. <<>> \o Saved("links", l) = Saved("links", l)
      BY OneAndNone DEF Saved
    <2>3. \/ planned = Saved("states", Spent(s)) \o Saved("links", l)
          \/ \E d : planned = Saved("states", Spent(s)) \o (Saved("users", d) \o Saved("links", l))
      BY <2>2 DEF SpendFirst, Spent, FirstSignIn, AccountFirst, Link, Linking
    <2>4. todo' \in {planned, SpendFirst(s, <<>>)}
      BY <1>5 DEF LoginCallback, Handler
    <2> HIDE DEF planned
    <2>5. Budget(planned)
      BY <1>3, <2>1, <2>3
    <2>6. QED
      BY <1>1, <1>2, <2>4, <2>5, BudgetStays
  <1>6. QED
    BY <1>4, <1>5

\* What a write was paid by stays when the write before it is done.
LEMMA PaidStays ==
  ASSUME Finite, IInv, BudgetInv, Write, NEW i \in 1..Len(todo'), NEW n \in Nat,
         Paid(todo, n, i + 1)
  PROVE  Paid(todo, n, i)'
  <1>1. /\ states' = IF todo[1].file = "states" THEN todo[1].data ELSE states
        /\ Len(todo) \in Nat \ {0} /\ Len(todo') = Len(todo) - 1
        /\ \A j \in 1..Len(todo') : todo'[j] = todo[j + 1]
    BY WriteFacts DEF Write
  <1>2. Cardinality(states.used) <= Cardinality(states'.used)
        /\ Cardinality(states.used) \in Nat /\ Cardinality(states'.used) \in Nat
    <2>1. 1 \in 1..Len(todo)
      BY <1>1
    <2>2. StatesWrite(todo, 1)
      BY <2>1 DEF BudgetInv, Budget
    <2>3. states.used \subseteq states'.used
      BY <1>1, <2>2 DEF StatesWrite
    <2>4. states.used \in SUBSET States /\ states'.used \in SUBSET States
      BY WriteStep DEF IInv, TypeOK, StateRows
    <2>5. IsFiniteSet(states'.used) /\ Cardinality(states.used) \in Nat /\ Cardinality(states'.used) \in Nat
      BY <2>4, Counted
    <2>6. QED
      BY <2>3, <2>5, FS_Subset
  <1>3. CASE n <= Cardinality(states.used)
    BY <1>2, <1>3 DEF Paid
  <1>4. CASE \E j \in 1..((i + 1) - 1) :
               todo[j].file = "states" /\ n <= Cardinality(todo[j].data.used)
    <2>1. PICK j \in 1..((i + 1) - 1) :
             todo[j].file = "states" /\ n <= Cardinality(todo[j].data.used)
      BY <1>4
    <2>2. CASE j = 1
      BY <1>1, <2>1, <2>2 DEF Paid
    <2>3. CASE j # 1
      <3> DEFINE k == j - 1
      <3>1. k \in 1..(i - 1) /\ k \in 1..Len(todo') /\ k + 1 = j
        BY <1>1, <2>3
      <3> HIDE DEF k
      <3>2. todo'[k] = todo[j]
        BY <1>1, <3>1
      <3>3. QED
        BY <2>1, <3>1, <3>2 DEF Paid
    <2>4. QED
      BY <2>2, <2>3
  <1>5. QED
    BY <1>3, <1>4 DEF Paid

LEMMA BudgetWriteStep == ASSUME Finite, IInv, BudgetInv, Write PROVE BudgetInv'
  <1>1. /\ states' = IF todo[1].file = "states" THEN todo[1].data ELSE states
        /\ links' = IF todo[1].file = "links" THEN todo[1].data ELSE links
        /\ 1 \in 1..Len(todo)
    BY WriteFacts DEF Write
  <1>2. StatesWrite(todo, 1) /\ PaidWrite(todo, 1)
    BY <1>1 DEF BudgetInv, Budget
  <1>3. Cardinality(Linked(links')) <= Cardinality(states'.used)
    <2>1. CASE todo[1].file = "links"
      BY <1>1, <1>2, <2>1 DEF PaidWrite, Paid
    <2>2. CASE todo[1].file # "links"
      <3>1. Cardinality(Linked(links)) <= Cardinality(states.used) /\ links' = links
        BY <1>1, <2>2, OneLinkIsLinked DEF BudgetInv
      <3>2. states.used \subseteq states'.used
        BY <1>1, <1>2 DEF StatesWrite
      <3>3. states.used \in SUBSET States /\ states'.used \in SUBSET States
        BY WriteStep DEF IInv, TypeOK, StateRows
      <3>4. IsFiniteSet(states'.used) /\ Cardinality(states.used) \in Nat /\ Cardinality(states'.used) \in Nat
            /\ Cardinality(Linked(links)) \in Nat
        BY <3>3, Counted
      <3>5. Cardinality(states.used) <= Cardinality(states'.used)
        BY <3>2, <3>4, FS_Subset
      <3>6. QED
        BY <3>1, <3>4, <3>5
    <2>3. QED
      BY <2>1, <2>2
  <1>4. OneLinkPerState'
    BY <1>3 DEF OneLinkPerState, Linked, Ids
  <1>5. ASSUME NEW i \in 1..Len(todo') PROVE (StatesWrite(todo, i) /\ PaidWrite(todo, i))'
    <2>1. todo'[i] = todo[i + 1] /\ i + 1 \in 1..Len(todo) /\ todo'[i].file # todo[1].file
      BY WriteFacts
    <2>2. StatesWrite(todo, i + 1) /\ PaidWrite(todo, i + 1)
      BY <2>1 DEF BudgetInv, Budget
    <2>3. StatesWrite(todo, i)'
      BY <1>1, <2>1, <2>2 DEF StatesWrite
    <2>4. PaidWrite(todo, i)'
      <3>1. ASSUME todo'[i].file = "links"
            PROVE  Paid(todo, Cardinality(Linked(todo[i].data)), i)'
        <4>1. PICK n \in Nat : n = Cardinality(Linked(todo[i + 1].data))
          BY Counted
        <4>2. Paid(todo, n, i + 1)
          BY <2>1, <2>2, <3>1, <4>1 DEF PaidWrite
        <4>3. Paid(todo, n, i)'
          BY <4>2, PaidStays
        <4>4. n = Cardinality(Linked(todo'[i].data))
          BY <2>1, <4>1
        <4>5. QED
          BY <4>3, <4>4
      <3>2. QED
        BY <3>1 DEF PaidWrite
    <2>5. QED
      BY <2>3, <2>4
  <1>6. QED
    BY <1>4, <1>5 DEF BudgetInv, Budget

LEMMA BudgetStep == ASSUME Finite PROVE IInv /\ BudgetInv /\ [Next]_vars => BudgetInv'
  <1> SUFFICES ASSUME IInv, BudgetInv, [Next]_vars PROVE BudgetInv'
    OBVIOUS
  <1>1. CASE \/ \E e \in Emails : SignUp(e) \/ \E t \in Tokens : RequestReset(t, e)
             \/ \E t \in Tokens : ConfirmReset(t)
             \/ \E s \in States, owner \in Emails \cup {Login} : StartOAuth(s, owner)
    BY <1>1, BudgetPlainSteps
  <1>2. CASE \E p \in Providers, s \in States, id \in Subjects :
               LinkCallback(p, s, id) \/ \E e \in Emails : LoginCallback(p, s, id, e)
    BY <1>2, BudgetCallbackSteps
  <1>3. CASE Write
    BY <1>3, BudgetWriteStep
  <1>4. CASE Crash
    <2>1. UNCHANGED <<states, links>> /\ todo' = <<>> /\ Len(<<>>) = 0
      BY <1>4 DEF Crash
    <2>2. Budget(<<>>)
      BY DEF Budget
    <2>3. QED
      BY <2>1, <2>2, BudgetStays
  <1>5. CASE UNCHANGED vars \/ \E x \in Tokens \cup States : Expire(x)
    <2>1. UNCHANGED <<states, links, todo>>
      BY <1>5 DEF vars, Expire
    <2>2. QED
      BY <2>1, BudgetStays DEF BudgetInv
  <1>6. QED
    BY <1>1, <1>2, <1>3, <1>4, <1>5 DEF Next

\* A callback sent twice, or again after a crash, links nothing twice: of finitely
\* many provider accounts and states, no more are linked than states are used.
THEOREM StatesPayForLinks == ASSUME Finite PROVE Spec => []OneLinkPerState
  <1>1. Init => BudgetInv
    BY BudgetInit
  <1>2. IInv /\ BudgetInv /\ [Next]_vars => BudgetInv'
    BY BudgetStep
  <1>3. BudgetInv => OneLinkPerState
    BY DEF BudgetInv
  <1>4. QED
    BY <1>1, <1>2, <1>3, Invariance, PTL DEF Spec

-----------------------------------------------------------------------------
(* The ledger of a user *)

LiveOf(l) == IF l = Absent THEN <<>> ELSE l

\* The list l and the archive d of a field hold its n entries, of which the first
\* that left the list may already be archived; an archive has what it has twice for
\* one of the e times a call ended early.
FieldGood(l, d, n, e) ==
  LET gone == n - Len(LiveOf(l))
  IN  /\ l = Absent => n = 0
      /\ Len(LiveOf(l)) <= RollingWindow
      /\ gone \in Nat
      /\ \A i \in 1..Len(LiveOf(l)) : LiveOf(l)[i] = gone + i
      /\ \A i \in 1..Len(d) : d[i] \in 1..n /\ d[i] <= gone + 1
      /\ Ascending(d)
      /\ \A v \in 1..gone : \E i \in 1..Len(d) : d[i] = v
      /\ Len(d) + Len(LiveOf(l)) <= n + e

LEMMA FieldBegins == \A e \in Nat : FieldGood(Absent, <<>>, 0, e) /\ FieldGood(<<>>, <<>>, 0, e)
  <1>1. LiveOf(Absent) = <<>> /\ LiveOf(<<>>) = <<>>
    BY DEF LiveOf
  <1>2. QED
    BY <1>1, UserLedgerAssumption DEF FieldGood, Ascending

\* A list that is not full takes one more.
LEMMA FieldAppend ==
  ASSUME NEW l \in Seq(Nat), NEW d \in Seq(Nat), NEW n \in Nat, NEW e \in Nat,
         FieldGood(l, d, n, e), Len(l) < RollingWindow
  PROVE  Append(l, n + 1) \in Seq(Nat) /\ FieldGood(Append(l, n + 1), d, n + 1, e)
  <1> DEFINE m == Append(l, n + 1)
  <1>1. /\ Len(l) \in Nat /\ Len(d) \in Nat /\ RollingWindow \in Nat
        /\ \A i \in 1..Len(l) : l[i] \in Nat
        /\ \A i \in 1..Len(d) : d[i] \in Nat
    BY LenProperties, ElementOfSeq, UserLedgerAssumption
  <1>2. /\ m \in Seq(Nat) /\ Len(m) = Len(l) + 1 /\ m[Len(l) + 1] = n + 1
        /\ \A i \in 1..Len(l) : m[i] = l[i]
    BY AppendProperties
  <1> HIDE DEF m
  <1>3. LiveOf(l) = l /\ LiveOf(m) = m
    BY <1>2, AbsentAssumption DEF LiveOf
  <1>4. /\ n - Len(l) \in Nat
        /\ \A i \in 1..Len(l) : l[i] = (n - Len(l)) + i
        /\ \A i \in 1..Len(d) : d[i] \in 1..n /\ d[i] <= (n - Len(l)) + 1
        /\ Ascending(d)
        /\ \A v \in 1..(n - Len(l)) : \E i \in 1..Len(d) : d[i] = v
        /\ Len(d) + Len(l) <= n + e
    BY <1>3 DEF FieldGood
  <1>5. (n + 1) - Len(m) = n - Len(l)
    BY <1>1, <1>2
  <1>6. \A i \in 1..Len(m) : m[i] = (n - Len(l)) + i
    <2>1. \A i \in 1..(Len(l) + 1) : i = Len(l) + 1 \/ i \in 1..Len(l)
      BY <1>1
    <2>2. (n - Len(l)) + (Len(l) + 1) = n + 1
      BY <1>1
    <2>3. QED
      BY <1>2, <1>4, <2>1, <2>2
  <1>7. \A i \in 1..Len(d) : d[i] \in 1..(n + 1)
    BY <1>1, <1>4
  <1>8. Len(m) <= RollingWindow /\ Len(d) + Len(m) <= (n + 1) + e
    BY <1>1, <1>2, <1>4
  <1>9. m # Absent
    BY <1>2, AbsentAssumption
  <1>10. FieldGood(m, d, n + 1, e)
    BY <1>3, <1>4, <1>5, <1>6, <1>7, <1>8, <1>9 DEF FieldGood
  <1>11. QED
    BY <1>2, <1>10 DEF m

\* The first entry of a full list is archived, whether the list is then replaced or
\* the process dies.
LEMMA FieldArchive ==
  ASSUME NEW l \in Seq(Nat), NEW d \in Seq(Nat), NEW n \in Nat, NEW e \in Nat,
         FieldGood(l, d, n, e), Len(l) = RollingWindow
  PROVE  LET left == SubSeq(Append(l, n + 1), 2, Len(l) + 1)
             more == Append(d, l[1])
         IN  /\ left \in Seq(Nat) /\ more \in Seq(Nat)
             /\ FieldGood(l, more, n, e + 1)
             /\ FieldGood(left, more, n + 1, e)
  <1> DEFINE m == Append(l, n + 1)
             left == SubSeq(m, 2, Len(l) + 1)
             more == Append(d, l[1])
             gone == n - Len(l)
  <1>1. /\ Len(l) \in Nat \ {0} /\ Len(d) \in Nat /\ RollingWindow \in Nat
        /\ \A i \in 1..Len(l) : l[i] \in Nat
        /\ \A i \in 1..Len(d) : d[i] \in Nat
    BY LenProperties, ElementOfSeq, UserLedgerAssumption
  <1>2. /\ m \in Seq(Nat) /\ Len(m) = Len(l) + 1 /\ m[Len(l) + 1] = n + 1
        /\ \A i \in 1..Len(l) : m[i] = l[i]
    BY AppendProperties
  <1> HIDE DEF m
  <1>3. /\ left \in Seq(Nat) /\ Len(left) = Len(l)
        /\ \A i \in 1..Len(l) : left[i] = m[i + 1]
    <2>1. \A i \in 2..(Len(l) + 1) : m[i] \in Nat
      BY <1>1, <1>2, ElementOfSeq
    <2>2. /\ left \in Seq(Nat)
          /\ Len(left) = IF 2 <= Len(l) + 1 THEN (Len(l) + 1) - 2 + 1 ELSE 0
          /\ \A i \in 1..((Len(l) + 1) - 2 + 1) : left[i] = m[2 + i - 1]
      BY <1>1, <1>2, <2>1, SubSeqProperties
    <2>3. Len(left) = Len(l) /\ (Len(l) + 1) - 2 + 1 = Len(l)
      BY <1>1, <2>2
    <2>4. \A i \in 1..Len(l) : 2 + i - 1 = i + 1
      OBVIOUS
    <2> HIDE DEF left
    <2>5. QED
      BY <2>2, <2>3, <2>4
  <1>4. /\ more \in Seq(Nat) /\ Len(more) = Len(d) + 1 /\ more[Len(d) + 1] = l[1]
        /\ \A i \in 1..Len(d) : more[i] = d[i]
    BY <1>1, AppendProperties
  <1> HIDE DEF left, more
  <1>5. LiveOf(l) = l /\ LiveOf(left) = left /\ left # Absent /\ l # Absent
    BY <1>3, AbsentAssumption DEF LiveOf
  <1>6. /\ gone \in Nat
        /\ \A i \in 1..Len(l) : l[i] = gone + i
        /\ \A i \in 1..Len(d) : d[i] \in 1..n /\ d[i] <= gone + 1
        /\ Ascending(d)
        /\ \A v \in 1..gone : \E i \in 1..Len(d) : d[i] = v
        /\ Len(d) + Len(l) <= n + e
    BY <1>5 DEF FieldGood
  <1>7. l[1] = gone + 1 /\ gone + 1 \in 1..n /\ (n + 1) - Len(left) = gone + 1
    <2>1. 1 \in 1..Len(l)
      BY <1>1
    <2>2. l[1] = gone + 1
      BY <1>6, <2>1
    <2> DEFINE k == Len(l)
    <2>3. k \in Nat \ {0} /\ gone = n - k /\ Len(left) = k /\ gone \in Nat
      BY <1>1, <1>3, <1>6
    <2> HIDE DEF k, gone
    <2>4. gone + 1 \in 1..n /\ (n + 1) - k = gone + 1
      BY <2>3
    <2>5. QED
      BY <2>2, <2>3, <2>4
  <1>8. \A i \in 1..Len(more) : i \in 1..Len(d) \/ (i = Len(d) + 1 /\ more[i] = gone + 1)
    BY <1>1, <1>4, <1>7
  <1>9. \A i \in 1..Len(more) : more[i] \in 1..n /\ more[i] <= gone + 1
    <2> SUFFICES ASSUME NEW i \in 1..Len(more) PROVE more[i] \in 1..n /\ more[i] <= gone + 1
      OBVIOUS
    <2>1. CASE i \in 1..Len(d)
      BY <1>4, <1>6, <2>1
    <2>2. CASE more[i] = gone + 1
      BY <1>6, <1>7, <2>2
    <2>3. QED
      BY <1>8, <2>1, <2>2
  <1>10. Ascending(more)
    <2> SUFFICES ASSUME NEW i \in 2..Len(more) PROVE more[i - 1] <= more[i]
      BY DEF Ascending
    <2>1. CASE i \in 2..Len(d)
      <3>1. i \in 1..Len(d) /\ i - 1 \in 1..Len(d) /\ d[i - 1] <= d[i]
        BY <1>6, <2>1 DEF Ascending
      <3>2. QED
        BY <1>4, <3>1
    <2>2. CASE i = Len(d) + 1
      <3>1. i - 1 \in 1..Len(more) /\ more[i] = gone + 1
        BY <1>1, <1>4, <1>7, <2>2
      <3>2. QED
        BY <1>9, <3>1
    <2>3. i \in 2..Len(d) \/ i = Len(d) + 1
      BY <1>1, <1>4
    <2>4. QED
      BY <2>1, <2>2, <2>3
  <1>11. \A v \in 1..(gone + 1) : \E i \in 1..Len(more) : more[i] = v
    <2> SUFFICES ASSUME NEW v \in 1..(gone + 1) PROVE \E i \in 1..Len(more) : more[i] = v
      OBVIOUS
    <2>1. CASE v = gone + 1
      <3>1. Len(d) + 1 \in 1..Len(more)
        BY <1>1, <1>4
      <3>2. QED
        BY <1>4, <1>7, <2>1, <3>1
    <2>2. CASE v \in 1..gone
      <3>1. PICK i \in 1..Len(d) : d[i] = v
        BY <1>6, <2>2
      <3>2. i \in 1..Len(more)
        BY <1>1, <1>4
      <3>3. QED
        BY <1>4, <3>1, <3>2
    <2>3. QED
      BY <1>6, <2>1, <2>2
  <1>12. Len(more) + Len(l) <= n + (e + 1) /\ Len(more) + Len(left) <= (n + 1) + e
    BY <1>1, <1>3, <1>4, <1>6
  <1>13. FieldGood(l, more, n, e + 1)
    <2>1. \A v \in 1..gone : \E i \in 1..Len(more) : more[i] = v
      <3>1. \A v \in 1..gone : v \in 1..(gone + 1)
        BY <1>6
      <3>2. QED
        BY <1>11, <3>1
    <2>2. Len(l) <= RollingWindow
      BY <1>1
    <2>3. QED
      BY <1>5, <1>6, <1>9, <1>10, <1>12, <2>1, <2>2 DEF FieldGood
  <1>14. FieldGood(left, more, n + 1, e)
    <2>1. \A i \in 1..Len(left) : left[i] = (gone + 1) + i
      <3> SUFFICES ASSUME NEW i \in 1..Len(l) PROVE left[i] = (gone + 1) + i
        BY <1>3
      <3>1. left[i] = m[i + 1]
        BY <1>3
      <3>2. CASE i = Len(l)
        BY <1>1, <1>2, <3>1, <3>2
      <3>3. CASE i # Len(l)
        <4>1. i + 1 \in 1..Len(l)
          BY <1>1, <3>3
        <4>2. m[i + 1] = l[i + 1] /\ l[i + 1] = gone + (i + 1)
          BY <1>2, <1>6, <4>1
        <4>3. QED
          BY <1>6, <3>1, <4>2
      <3>4. QED
        BY <3>2, <3>3
    <2>2. \A i \in 1..Len(more) : more[i] \in 1..(n + 1) /\ more[i] <= (gone + 1) + 1
      <3> SUFFICES ASSUME NEW i \in 1..Len(more)
                   PROVE  more[i] \in 1..(n + 1) /\ more[i] <= (gone + 1) + 1
        OBVIOUS
      <3>1. more[i] \in 1..n /\ more[i] <= gone + 1
        BY <1>9
      <3>2. QED
        BY <1>6, <3>1
    <2>3. gone + 1 \in Nat /\ Len(left) <= RollingWindow
      BY <1>1, <1>3, <1>6
    <2>4. QED
      BY <1>5, <1>7, <1>10, <1>11, <1>12, <2>1, <2>2, <2>3 DEF FieldGood
  <1>15. QED
    BY <1>3, <1>4, <1>13, <1>14 DEF left, more, m

\* A call more that ended early is allowed for.
LEMMA FieldWeaker ==
  ASSUME NEW l \in Seq(Nat) \cup {Absent}, NEW d \in Seq(Nat), NEW n \in Nat,
         NEW e \in Nat, NEW x \in Nat, e <= x, FieldGood(l, d, n, e)
  PROVE  FieldGood(l, d, n, x)
  <1>1. LiveOf(l) \in Seq(Nat)
    BY DEF LiveOf
  <1>2. Len(d) \in Nat /\ Len(LiveOf(l)) \in Nat
    BY <1>1, LenProperties
  <1>3. Len(d) + Len(LiveOf(l)) <= n + x
    BY <1>2 DEF FieldGood
  <1>4. QED
    BY <1>3 DEF FieldGood

-----------------------------------------------------------------------------
Past == [recorded: [LedgerUsers -> [Fields -> Nat]], chosen: [LedgerUsers -> Settings],
         deaths: 0..MaxDeaths]

ListOf(r, f) == IF r = Absent THEN Absent ELSE r.lists[f]

\* The ledger r and the archives d of a user hold the entries and the setting c.
UserGood(r, d, n, c, e) ==
  /\ \A f \in Fields : FieldGood(ListOf(r, f), d[f], n[f], e)
  /\ c = IF r = Absent THEN Default ELSE r.inventory

LedgersGood(l, d, p, x) ==
  /\ l \in [LedgerUsers -> Ledger \cup {Absent}]
  /\ d \in [LedgerUsers -> [Fields -> Seq(Nat)]]
  /\ p \in Past
  /\ \A u \in LedgerUsers : UserGood(l[u], d[u], p.recorded[u], p.chosen[u], p.deaths + x)

\* The files once w is done.
InLedger(w, l) == IF w.file = "ledger" THEN [l EXCEPT ![w.user] = w.data] ELSE l
InDeep(w, d) == IF w.file = "deep" THEN [d EXCEPT ![w.user] = w.data] ELSE d

\* A call has at most two writes to do, and the files are good before each and after
\* the last: whatever is lost, it can be done again.
LedgerInv ==
  /\ template \in SUBSET Fields
  /\ LedgersGood(ledger, deep, past, IF writes = <<>> THEN 0 ELSE 1)
  /\ \/ writes = <<>>
     \/ LET w == writes[1]
        IN  /\ writes = <<w>>
            /\ w.file \in {"ledger", "deep"}
            /\ LedgersGood(InLedger(w, ledger), InDeep(w, deep), w.then, 0)
     \/ LET v == writes[1]
            w == writes[2]
        IN  /\ writes = <<v, w>>
            /\ v.file \in {"ledger", "deep"} /\ w.file \in {"ledger", "deep"}
            /\ LedgersGood(InLedger(v, ledger), InDeep(v, deep), v.then, 1)
            /\ LedgersGood(InLedger(w, InLedger(v, ledger)), InDeep(w, InDeep(v, deep)), w.then, 0)

LEMMA ListTypes ==
  ASSUME NEW r \in Ledger \cup {Absent}, NEW f \in Fields
  PROVE  ListOf(r, f) \in Seq(Nat) \cup {Absent}
  BY DEF ListOf, Ledger

LEMMA UserWeaker ==
  ASSUME NEW r \in Ledger \cup {Absent}, NEW d \in [Fields -> Seq(Nat)], NEW n \in [Fields -> Nat],
         NEW c, NEW e \in Nat, NEW x \in Nat, e <= x, UserGood(r, d, n, c, e)
  PROVE  UserGood(r, d, n, c, x)
  <1>1. ASSUME NEW f \in Fields PROVE FieldGood(ListOf(r, f), d[f], n[f], x)
    <2>1. ListOf(r, f) \in Seq(Nat) \cup {Absent} /\ FieldGood(ListOf(r, f), d[f], n[f], e)
      BY ListTypes DEF UserGood
    <2>2. d[f] \in Seq(Nat) /\ n[f] \in Nat
      OBVIOUS
    <2>3. QED
      BY <2>1, <2>2, FieldWeaker
  <1>2. QED
    BY <1>1 DEF UserGood

\* What is done for one user leaves the others as they are.
LEMMA OneUserChanges ==
  ASSUME NEW l, NEW d, NEW p, NEW x \in Nat, LedgersGood(l, d, p, x),
         NEW u \in LedgerUsers, NEW r \in Ledger, NEW dv \in [Fields -> Seq(Nat)],
         NEW q \in Past, q.deaths = p.deaths,
         \A v \in LedgerUsers \ {u} : q.recorded[v] = p.recorded[v] /\ q.chosen[v] = p.chosen[v],
         NEW y \in Nat, x <= y,
         UserGood(r, dv, q.recorded[u], q.chosen[u], p.deaths + y)
  PROVE  LedgersGood([l EXCEPT ![u] = r], [d EXCEPT ![u] = dv], q, y)
  <1> DEFINE m == [l EXCEPT ![u] = r]
             b == [d EXCEPT ![u] = dv]
  <1>1. /\ l \in [LedgerUsers -> Ledger \cup {Absent}]
        /\ d \in [LedgerUsers -> [Fields -> Seq(Nat)]]
        /\ p \in Past /\ p.deaths \in Nat
        /\ \A v \in LedgerUsers : UserGood(l[v], d[v], p.recorded[v], p.chosen[v], p.deaths + x)
    BY UserLedgerAssumption DEF LedgersGood, Past
  <1>2. /\ m \in [LedgerUsers -> Ledger \cup {Absent}] /\ m[u] = r
        /\ b \in [LedgerUsers -> [Fields -> Seq(Nat)]] /\ b[u] = dv
        /\ \A v \in LedgerUsers \ {u} : m[v] = l[v] /\ b[v] = d[v]
    BY <1>1
  <1> HIDE DEF m, b
  <1>3. ASSUME NEW v \in LedgerUsers
        PROVE  UserGood(m[v], b[v], q.recorded[v], q.chosen[v], q.deaths + y)
    <2>1. CASE v = u
      BY <1>2, <2>1
    <2>2. CASE v # u
      <3>1. /\ l[v] \in Ledger \cup {Absent} /\ d[v] \in [Fields -> Seq(Nat)]
            /\ p.recorded[v] \in [Fields -> Nat]
        BY <1>1 DEF Past
      <3>2. p.deaths + x \in Nat /\ p.deaths + y \in Nat /\ p.deaths + x <= p.deaths + y
        BY <1>1
      <3>3. UserGood(l[v], d[v], p.recorded[v], p.chosen[v], p.deaths + y)
        BY <1>1, <3>1, <3>2, UserWeaker
      <3>4. QED
        BY <1>2, <2>2, <3>3
    <2>3. QED
      BY <2>1, <2>2
  <1>4. LedgersGood(m, b, q, y)
    BY <1>2, <1>3 DEF LedgersGood
  <1>5. QED
    BY <1>4 DEF m, b

LEMMA LedgersWeaker ==
  ASSUME NEW l, NEW d, NEW p, NEW x \in Nat, NEW y \in Nat, x <= y, LedgersGood(l, d, p, x)
  PROVE  LedgersGood(l, d, p, y)
  <1>1. ASSUME NEW v \in LedgerUsers
        PROVE  UserGood(l[v], d[v], p.recorded[v], p.chosen[v], p.deaths + y)
    <2>1. /\ l[v] \in Ledger \cup {Absent} /\ d[v] \in [Fields -> Seq(Nat)]
          /\ p.recorded[v] \in [Fields -> Nat] /\ p.deaths \in Nat
          /\ UserGood(l[v], d[v], p.recorded[v], p.chosen[v], p.deaths + x)
      BY UserLedgerAssumption DEF LedgersGood, Past
    <2>2. p.deaths + x \in Nat /\ p.deaths + y \in Nat /\ p.deaths + x <= p.deaths + y
      BY <2>1
    <2>3. QED
      BY <2>1, <2>2, UserWeaker
  <1>2. QED
    BY <1>1 DEF LedgersGood

-----------------------------------------------------------------------------
(* Calls on the ledger of a user *)

LEMMA OneWrite ==
  ASSUME LedgerInv, NEW w, Call(<<w>>), w.file \in {"ledger", "deep"},
         LedgersGood(InLedger(w, ledger), InDeep(w, deep), w.then, 0)
  PROVE  LedgerInv'
  <1>1. /\ writes = <<>> /\ writes' = <<w>>
        /\ template' = template /\ ledger' = ledger /\ deep' = deep /\ past' = past
    BY DEF Call
  <1>2. LedgersGood(ledger, deep, past, 1)
    BY <1>1, LedgersWeaker DEF LedgerInv
  <1>3. writes' # <<>> /\ writes'[1] = w
    BY <1>1
  <1>4. QED
    BY <1>1, <1>2, <1>3 DEF LedgerInv, LedgersGood, InLedger, InDeep

LEMMA TwoWrites ==
  ASSUME LedgerInv, NEW v, NEW w, Call(<<v, w>>),
         v.file \in {"ledger", "deep"}, w.file \in {"ledger", "deep"},
         LedgersGood(InLedger(v, ledger), InDeep(v, deep), v.then, 1),
         LedgersGood(InLedger(w, InLedger(v, ledger)), InDeep(w, InDeep(v, deep)), w.then, 0)
  PROVE  LedgerInv'
  <1>1. /\ writes = <<>> /\ writes' = <<v, w>>
        /\ template' = template /\ ledger' = ledger /\ deep' = deep /\ past' = past
    BY DEF Call
  <1>2. LedgersGood(ledger, deep, past, 1)
    BY <1>1, LedgersWeaker DEF LedgerInv
  <1>3. writes' # <<>> /\ writes'[1] = v /\ writes'[2] = w
    BY <1>1
  <1>4. QED
    BY <1>1, <1>2, <1>3 DEF LedgerInv, LedgersGood, InLedger, InDeep

LEMMA NoWrite ==
  ASSUME LedgerInv, Call(<<>>) PROVE LedgerInv'
  BY DEF LedgerInv, Call, LedgersGood

\* Between calls what a user has is good, and so is what a call reads.
LEMMA ReadFacts ==
  ASSUME LedgerInv, writes = <<>>, NEW u \in LedgerUsers
  PROVE  /\ LedgersGood(ledger, deep, past, 0)
         /\ past \in Past /\ past.deaths \in Nat
         /\ deep[u] \in [Fields -> Seq(Nat)] /\ past.recorded[u] \in [Fields -> Nat]
         /\ ledger \in [LedgerUsers -> Ledger \cup {Absent}]
         /\ deep \in [LedgerUsers -> [Fields -> Seq(Nat)]]
         /\ Fresh \in Ledger /\ ReadLedger(u) \in Ledger
         /\ UserGood(ledger[u], deep[u], past.recorded[u], past.chosen[u], past.deaths)
         /\ UserGood(ReadLedger(u), deep[u], past.recorded[u], past.chosen[u], past.deaths)
         /\ ledger[u] = Absent => past.recorded[u] = [f \in Fields |-> 0]
  <1>1. LedgersGood(ledger, deep, past, 0)
    BY DEF LedgerInv
  <1>2. /\ past \in Past /\ past.deaths \in Nat
        /\ ledger \in [LedgerUsers -> Ledger \cup {Absent}]
        /\ deep \in [LedgerUsers -> [Fields -> Seq(Nat)]]
        /\ deep[u] \in [Fields -> Seq(Nat)] /\ past.recorded[u] \in [Fields -> Nat]
    BY <1>1, UserLedgerAssumption DEF LedgersGood, Past
  <1>3. UserGood(ledger[u], deep[u], past.recorded[u], past.chosen[u], past.deaths)
    <2>1. past.deaths + 0 = past.deaths
      BY <1>2
    <2>2. QED
      BY <1>1, <2>1 DEF LedgersGood
  <1>4. Fresh \in Ledger
    <2>1. <<>> \in Seq(Nat)
      BY EmptySeq
    <2>2. QED
      BY <2>1, UserLedgerAssumption DEF Fresh, Ledger
  <1>5. Fresh # Absent /\ Fresh.inventory = Default
    BY <1>4, AbsentAssumption DEF Fresh
  <1>6. ASSUME ledger[u] = Absent
        PROVE  /\ past.recorded[u] = [f \in Fields |-> 0]
               /\ UserGood(Fresh, deep[u], past.recorded[u], past.chosen[u], past.deaths)
    <2>1. ASSUME NEW f \in Fields
          PROVE  /\ past.recorded[u][f] = 0
                 /\ FieldGood(ListOf(Fresh, f), deep[u][f], past.recorded[u][f], past.deaths)
      <3>1. FieldGood(Absent, deep[u][f], past.recorded[u][f], past.deaths)
        BY <1>3, <1>6 DEF UserGood, ListOf
      <3>2. past.recorded[u][f] = 0
        BY <3>1 DEF FieldGood
      <3>3. ListOf(Fresh, f) \in {Absent, <<>>}
        BY <1>5 DEF ListOf, Fresh
      <3>4. LiveOf(Absent) = LiveOf(<<>>)
        BY DEF LiveOf
      <3>5. QED
        BY <3>1, <3>2, <3>3, <3>4 DEF FieldGood
    <2>2. past.chosen[u] = Default
      BY <1>3, <1>6 DEF UserGood
    <2>3. QED
      BY <1>2, <1>5, <2>1, <2>2 DEF UserGood
  <1>7. ReadLedger(u) \in Ledger
    BY <1>2, <1>4 DEF ReadLedger
  <1>8. UserGood(ReadLedger(u), deep[u], past.recorded[u], past.chosen[u], past.deaths)
    BY <1>3, <1>6 DEF ReadLedger
  <1>9. QED
    BY <1>1, <1>2, <1>3, <1>4, <1>6, <1>7, <1>8

\* A write that replaces the ledger of u alone, or the archive, and brings about q.
LEMMA LedgerReplaced ==
  ASSUME NEW l, NEW d, NEW p, LedgersGood(l, d, p, 0), NEW u \in LedgerUsers, NEW r \in Ledger,
         NEW q \in Past, q.deaths = p.deaths,
         \A v \in LedgerUsers \ {u} : q.recorded[v] = p.recorded[v] /\ q.chosen[v] = p.chosen[v],
         UserGood(r, d[u], q.recorded[u], q.chosen[u], p.deaths)
  PROVE  LET w == Replace("ledger", u, r, q)
         IN  /\ w.file = "ledger" /\ w.then = q
             /\ InLedger(w, l) = [l EXCEPT ![u] = r] /\ InDeep(w, d) = d
             /\ LedgersGood(InLedger(w, l), InDeep(w, d), q, 0)
  <1> DEFINE w == Replace("ledger", u, r, q)
  <1>1. /\ w.file = "ledger" /\ w.then = q
        /\ InLedger(w, l) = [l EXCEPT ![u] = r] /\ InDeep(w, d) = d
    BY DEF Replace, InLedger, InDeep
  <1>2. d[u] \in [Fields -> Seq(Nat)] /\ [d EXCEPT ![u] = d[u]] = d /\ p.deaths + 0 = p.deaths
    BY UserLedgerAssumption DEF LedgersGood, Past
  <1>3. LedgersGood([l EXCEPT ![u] = r], d, q, 0)
    BY <1>2, OneUserChanges
  <1>4. QED
    BY <1>1, <1>3

LEMMA EnsureStep ==
  ASSUME LedgerInv, NEW u \in LedgerUsers, EnsureLedger(u)
  PROVE  LedgerInv'
  <1> DEFINE filled == IF ledger[u] = Absent THEN Fresh ELSE Backfill(ledger[u])
             w == Replace("ledger", u, filled, past)
  <1>1. writes = <<>> /\ (Call(<<>>) \/ Call(<<w>>))
    BY DEF EnsureLedger, Call
  <1>2. LedgersGood(ledger, deep, past, 0) /\ past \in Past
    BY <1>1, ReadFacts
  <1>3. /\ filled \in Ledger
        /\ UserGood(filled, deep[u], past.recorded[u], past.chosen[u], past.deaths)
    <2>1. CASE ledger[u] = Absent
      BY <1>1, <2>1, ReadFacts DEF ReadLedger
    <2>2. CASE ledger[u] # Absent
      <3> DEFINE r == ledger[u]
      <3>1. /\ r \in Ledger /\ Fresh \in Ledger
            /\ UserGood(r, deep[u], past.recorded[u], past.chosen[u], past.deaths)
        BY <1>1, <2>2, ReadFacts
      <3>2. filled = Backfill(r)
        BY <2>2
      <3> HIDE DEF r
      <3>3. /\ filled \in Ledger /\ filled.inventory = r.inventory
            /\ \A f \in Fields : filled.lists[f] = IF r.lists[f] = Absent THEN Fresh.lists[f]
                                                    ELSE r.lists[f]
        <4> DEFINE ls == [f \in Fields |-> IF r.lists[f] = Absent THEN Fresh.lists[f] ELSE r.lists[f]]
        <4> HIDE DEF filled
        <4>1. filled = [r EXCEPT !.lists = ls]
          BY <3>2 DEF Backfill
        <4>2. /\ r.lists \in [Fields -> Seq(Nat) \cup {Absent}]
              /\ Fresh.lists \in [Fields -> Seq(Nat) \cup {Absent}]
              /\ r = [lists |-> r.lists, inventory |-> r.inventory] /\ r.inventory \in Settings
          BY <3>1 DEF Ledger
        <4>3. ls \in [Fields -> Seq(Nat) \cup {Absent}]
          BY <4>2
        <4> HIDE DEF ls
        <4>4. filled = [lists |-> ls, inventory |-> r.inventory]
          BY <4>1, <4>2
        <4>5. filled \in Ledger /\ filled.inventory = r.inventory /\ filled.lists = ls
          BY <4>2, <4>3, <4>4 DEF Ledger
        <4>6. QED
          BY <4>5 DEF ls
      <3>4. filled # Absent /\ r # Absent
        BY <3>1, <3>3, AbsentAssumption
      <3> HIDE DEF filled
      <3>5. ASSUME NEW f \in Fields
            PROVE  FieldGood(ListOf(filled, f), deep[u][f], past.recorded[u][f], past.deaths)
        <4>1. FieldGood(r.lists[f], deep[u][f], past.recorded[u][f], past.deaths)
          BY <3>1, <3>4 DEF UserGood, ListOf
        <4>2. CASE r.lists[f] # Absent
          BY <3>3, <3>4, <4>1, <4>2 DEF ListOf
        <4>3. CASE r.lists[f] = Absent
          <5>1. ListOf(filled, f) \in {Absent, <<>>}
            BY <3>3, <3>4, <4>3 DEF ListOf, Fresh
          <5>2. LiveOf(Absent) = LiveOf(<<>>)
            BY DEF LiveOf
          <5>3. QED
            BY <4>1, <4>3, <5>1, <5>2 DEF FieldGood
        <4>4. QED
          BY <4>2, <4>3
      <3>6. QED
        BY <3>1, <3>3, <3>4, <3>5 DEF UserGood
    <2>3. QED
      BY <2>1, <2>2
  <1> HIDE DEF filled
  <1>4. w.file = "ledger" /\ w.then = past /\ LedgersGood(InLedger(w, ledger), InDeep(w, deep), past, 0)
    BY <1>2, <1>3, LedgerReplaced
  <1> HIDE DEF w
  <1>5. QED
    BY <1>1, <1>4, NoWrite, OneWrite

\* A call that makes the ledger if it is missing and then replaces it by r.
LEMMA CreateAndReplace ==
  ASSUME LedgerInv, NEW u \in LedgerUsers, NEW r \in Ledger,
         NEW q \in Past, q.deaths = past.deaths,
         \A v \in LedgerUsers \ {u} : q.recorded[v] = past.recorded[v] /\ q.chosen[v] = past.chosen[v],
         UserGood(r, deep[u], q.recorded[u], q.chosen[u], past.deaths),
         Call(Creation(u) \o <<Replace("ledger", u, r, q)>>)
  PROVE  LedgerInv'
  <1> DEFINE w == Replace("ledger", u, r, q)
             v == Replace("ledger", u, Fresh, past)
  <1>1. writes = <<>>
    BY DEF Call
  <1>2. /\ LedgersGood(ledger, deep, past, 0) /\ past \in Past /\ Fresh \in Ledger
        /\ ledger \in [LedgerUsers -> Ledger \cup {Absent}]
    BY <1>1, ReadFacts
  <1>3. /\ w.file = "ledger" /\ w.then = q /\ InLedger(w, ledger) = [ledger EXCEPT ![u] = r]
        /\ InDeep(w, deep) = deep /\ LedgersGood(InLedger(w, ledger), InDeep(w, deep), q, 0)
    BY <1>2, LedgerReplaced
  <1>4. CASE ledger[u] # Absent
    <2>1. Call(<<w>>)
      BY <1>4, OneAndNone DEF Creation
    <2> HIDE DEF w
    <2>2. QED
      BY <1>3, <2>1, OneWrite
  <1>5. CASE ledger[u] = Absent
    <2>1. Call(<<v, w>>)
      BY <1>5, OneAndOne DEF Creation
    <2>2. UserGood(Fresh, deep[u], past.recorded[u], past.chosen[u], past.deaths)
      BY <1>1, <1>5, ReadFacts DEF ReadLedger
    <2>3. /\ v.file = "ledger" /\ v.then = past /\ InLedger(v, ledger) = [ledger EXCEPT ![u] = Fresh]
          /\ InDeep(v, deep) = deep /\ LedgersGood(InLedger(v, ledger), InDeep(v, deep), past, 0)
      BY <1>2, <2>2, LedgerReplaced
    <2>4. InLedger(w, InLedger(v, ledger)) = [ledger EXCEPT ![u] = r] /\ InDeep(w, InDeep(v, deep)) = deep
      BY <1>2, <2>3 DEF InLedger, InDeep, Replace
    <2> HIDE DEF v, w
    <2>5. LedgersGood(InLedger(v, ledger), InDeep(v, deep), v.then, 1)
      BY <2>3, LedgersWeaker
    <2>6. QED
      BY <1>3, <2>1, <2>3, <2>4, <2>5, TwoWrites
  <1>6. QED
    BY <1>4, <1>5

LEMMA SetIndicatorStep ==
  ASSUME LedgerInv, NEW u \in LedgerUsers, NEW v \in Settings, SetIndicator(u, v)
  PROVE  LedgerInv'
  <1> DEFINE r == ReadLedger(u)
             s == [r EXCEPT !.inventory = v]
             q == [past EXCEPT !.chosen[u] = v]
  <1>1. writes = <<>>
    BY DEF SetIndicator, Call
  <1>2. /\ past \in Past /\ r \in Ledger
        /\ UserGood(r, deep[u], past.recorded[u], past.chosen[u], past.deaths)
    BY <1>1, ReadFacts
  <1>3. /\ q \in Past /\ q.deaths = past.deaths /\ q.recorded = past.recorded /\ q.chosen[u] = v
        /\ \A x \in LedgerUsers \ {u} : q.chosen[x] = past.chosen[x]
    BY <1>2 DEF Past
  <1>4. Call(Creation(u) \o <<Replace("ledger", u, s, q)>>)
    BY DEF SetIndicator
  <1> HIDE DEF r, q
  <1>5. s \in Ledger /\ s.lists = r.lists /\ s.inventory = v
    BY <1>2 DEF Ledger
  <1>6. s # Absent /\ r # Absent
    BY <1>2, <1>5, AbsentAssumption
  <1> HIDE DEF s
  <1>7. UserGood(s, deep[u], q.recorded[u], q.chosen[u], past.deaths)
    BY <1>2, <1>3, <1>5, <1>6 DEF UserGood, ListOf
  <1>8. QED
    BY <1>3, <1>4, <1>5, <1>7, CreateAndReplace

\* A call that adds to the archive of a user and then replaces the ledger by r.
LEMMA ArchiveAndReplace ==
  ASSUME LedgerInv, NEW u \in LedgerUsers, ledger[u] \in Ledger, NEW r \in Ledger,
         NEW dv \in [Fields -> Seq(Nat)], NEW q \in Past, q.deaths = past.deaths,
         \A v \in LedgerUsers \ {u} : q.recorded[v] = past.recorded[v] /\ q.chosen[v] = past.chosen[v],
         UserGood(ledger[u], dv, past.recorded[u], past.chosen[u], past.deaths + 1),
         UserGood(r, dv, q.recorded[u], q.chosen[u], past.deaths),
         Call(<<Replace("deep", u, dv, past), Replace("ledger", u, r, q)>>)
  PROVE  LedgerInv'
  <1> DEFINE v == Replace("deep", u, dv, past)
             w == Replace("ledger", u, r, q)
             d == [deep EXCEPT ![u] = dv]
             l == [ledger EXCEPT ![u] = r]
             now == [ledger EXCEPT ![u] = ledger[u]]
  <1>1. writes = <<>>
    BY DEF Call
  <1>2. /\ LedgersGood(ledger, deep, past, 0) /\ past \in Past /\ past.deaths \in Nat
        /\ ledger \in [LedgerUsers -> Ledger \cup {Absent}]
    BY <1>1, ReadFacts
  <1>3. /\ v.file = "deep" /\ v.then = past /\ w.file = "ledger" /\ w.then = q
        /\ InLedger(v, ledger) = ledger /\ InDeep(v, deep) = d
        /\ InLedger(w, ledger) = l /\ InDeep(w, d) = d
    BY DEF Replace, InLedger, InDeep
  <1>4. past.deaths + 0 = past.deaths /\ now = ledger
    BY <1>2
  <1>5. LedgersGood(l, d, q, 0)
    <2>1. UserGood(r, dv, q.recorded[u], q.chosen[u], past.deaths + 0)
      BY <1>4
    <2>2. 0 \in Nat /\ 0 <= 0
      OBVIOUS
    <2>3. LedgersGood([ledger EXCEPT ![u] = r], [deep EXCEPT ![u] = dv], q, 0)
      BY <1>2, <2>1, <2>2, OneUserChanges, Zenon
    <2>4. QED
      BY <2>3
  <1>6. LedgersGood(now, d, past, 1)
    <2>1. 0 \in Nat /\ 1 \in Nat /\ 0 <= 1
      OBVIOUS
    <2>2. LedgersGood([ledger EXCEPT ![u] = ledger[u]], [deep EXCEPT ![u] = dv], past, 1)
      BY <1>2, <2>1, OneUserChanges, Zenon
    <2>3. QED
      BY <2>2
  <1>7. Call(<<v, w>>)
    OBVIOUS
  <1> HIDE DEF v, w, d, l, now
  <1>8. QED
    BY <1>3, <1>4, <1>5, <1>6, <1>7, TwoWrites

\* The ledger r with the list x for the field f.
WithList(r, f, x) == [r EXCEPT !.lists[f] = x]

LEMMA WithListFacts ==
  ASSUME NEW r \in Ledger, NEW f \in Fields, NEW x \in Seq(Nat)
  PROVE  /\ WithList(r, f, x) \in Ledger /\ WithList(r, f, x) # Absent
         /\ WithList(r, f, x).inventory = r.inventory
         /\ ListOf(WithList(r, f, x), f) = x
         /\ \A g \in Fields \ {f} : ListOf(WithList(r, f, x), g) = ListOf(r, g)
  <1> DEFINE t == WithList(r, f, x)
  <1>1. /\ t \in Ledger /\ t.inventory = r.inventory /\ t.lists[f] = x
        /\ \A g \in Fields \ {f} : t.lists[g] = r.lists[g]
    BY DEF WithList, Ledger
  <1> HIDE DEF t
  <1>2. t # Absent /\ r # Absent
    BY <1>1, AbsentAssumption
  <1>3. QED
    BY <1>1, <1>2 DEF ListOf, t

\* The other fields of a user stay good.
LEMMA OneFieldChanges ==
  ASSUME NEW r \in Ledger, NEW d \in [Fields -> Seq(Nat)], NEW n \in [Fields -> Nat], NEW c,
         NEW e \in Nat, UserGood(r, d, n, c, e),
         NEW f \in Fields, NEW x \in Seq(Nat), NEW y \in Seq(Nat), NEW m \in Nat,
         FieldGood(x, y, m, e)
  PROVE  UserGood(WithList(r, f, x), [d EXCEPT ![f] = y], [n EXCEPT ![f] = m], c, e)
  <1> DEFINE t == WithList(r, f, x)
  <1>1. /\ t # Absent /\ t.inventory = r.inventory /\ ListOf(t, f) = x
        /\ \A g \in Fields \ {f} : ListOf(t, g) = ListOf(r, g)
    BY WithListFacts
  <1>2. r # Absent
    BY AbsentAssumption
  <1> HIDE DEF t
  <1>3. c = t.inventory
    BY <1>1, <1>2 DEF UserGood
  <1>4. ASSUME NEW g \in Fields
        PROVE  FieldGood(ListOf(t, g), [d EXCEPT ![f] = y][g], [n EXCEPT ![f] = m][g], e)
    BY <1>1 DEF UserGood
  <1>5. UserGood(t, [d EXCEPT ![f] = y], [n EXCEPT ![f] = m], c, e)
    BY <1>1, <1>3, <1>4 DEF UserGood
  <1>6. QED
    BY <1>5 DEF t

\* What an append reads, and what it has recorded at its end.
Recorded(u, f) == [past EXCEPT !.recorded[u][f] = past.recorded[u][f] + 1]

LEMMA AppendFacts ==
  ASSUME LedgerInv, NEW u \in LedgerUsers, NEW f \in Fields, AppendEntry(u, f)
  PROVE  LET r == ReadLedger(u)
             l == r.lists[f]
             n == past.recorded[u][f]
             grown == Append(l, n + 1)
             left == SubSeq(grown, Excess(grown) + 1, Len(grown))
             q == Recorded(u, f)
         IN  /\ writes = <<>>
             /\ Call(Creation(u) \o ArchiveFirst(Archived(u, f, grown),
                                                 Replace("ledger", u, WithList(r, f, left), q)))
             /\ l \in Seq(Nat) /\ n \in Nat /\ past.deaths \in Nat
             /\ Len(l) \in Nat /\ Len(l) <= RollingWindow
             /\ grown \in Seq(Nat) /\ Len(grown) = Len(l) + 1
             /\ FieldGood(l, deep[u][f], n, past.deaths)
             /\ q \in Past /\ q.deaths = past.deaths /\ q.chosen = past.chosen
             /\ q.recorded[u] = [past.recorded[u] EXCEPT ![f] = n + 1]
             /\ \A x \in LedgerUsers \ {u} : q.recorded[x] = past.recorded[x]
             /\ ledger[u] = Absent => n = 0
  <1> DEFINE r == ReadLedger(u)
             n == past.recorded[u][f]
             l == r.lists[f]
             grown == Append(l, n + 1)
             q == Recorded(u, f)
  <1>1. /\ writes = <<>> /\ l # Absent
        /\ Call(Creation(u) \o
                ArchiveFirst(Archived(u, f, grown),
                             Replace("ledger", u,
                                     WithList(r, f, SubSeq(grown, Excess(grown) + 1, Len(grown))), q)))
    BY DEF AppendEntry, Call, WithList, Recorded
  <1>2. /\ past \in Past /\ past.deaths \in Nat
        /\ past.recorded[u] \in [Fields -> Nat]
        /\ r \in Ledger
        /\ UserGood(r, deep[u], past.recorded[u], past.chosen[u], past.deaths)
        /\ ledger[u] = Absent => n = 0
    BY <1>1, ReadFacts
  <1>3. n \in Nat
    BY <1>2
  <1>4. l \in Seq(Nat) /\ r # Absent
    BY <1>1, <1>2, AbsentAssumption DEF Ledger
  <1>5. FieldGood(l, deep[u][f], n, past.deaths)
    BY <1>2, <1>4 DEF UserGood, ListOf
  <1>6. /\ q \in Past /\ q.deaths = past.deaths /\ q.chosen = past.chosen
        /\ q.recorded[u] = [past.recorded[u] EXCEPT ![f] = n + 1]
        /\ \A x \in LedgerUsers \ {u} : q.recorded[x] = past.recorded[x]
    <2> DEFINE more == [past.recorded[u] EXCEPT ![f] = n + 1]
               all == [past.recorded EXCEPT ![u] = more]
    <2> HIDE DEF r, l, grown
    <2>1. /\ past.recorded \in [LedgerUsers -> [Fields -> Nat]]
          /\ past.chosen \in [LedgerUsers -> Settings] /\ past.deaths \in 0..MaxDeaths
          /\ past = [recorded |-> past.recorded, chosen |-> past.chosen, deaths |-> past.deaths]
      BY <1>2 DEF Past
    <2>2. more \in [Fields -> Nat]
      BY <1>2, <1>3
    <2>3. q = [past EXCEPT !.recorded = all]
      BY DEF Recorded
    <2> HIDE DEF more, q
    <2>4. all \in [LedgerUsers -> [Fields -> Nat]] /\ all[u] = more
          /\ \A x \in LedgerUsers \ {u} : all[x] = past.recorded[x]
      BY <2>1, <2>2
    <2> HIDE DEF all
    <2>5. q = [recorded |-> all, chosen |-> past.chosen, deaths |-> past.deaths]
      BY <2>1, <2>3
    <2>6. q \in Past /\ q.deaths = past.deaths /\ q.chosen = past.chosen /\ q.recorded = all
      BY <2>1, <2>4, <2>5 DEF Past
    <2>7. QED
      BY <2>4, <2>6 DEF more
  <1>7. /\ Len(l) \in Nat /\ grown \in Seq(Nat) /\ Len(grown) = Len(l) + 1 /\ Len(l) <= RollingWindow
    <2> HIDE DEF l, n
    <2>1. Len(l) <= RollingWindow
      BY <1>4, <1>5, AbsentAssumption DEF FieldGood, LiveOf
    <2>2. QED
      BY <1>3, <1>4, <2>1, LenProperties, AppendProperties
  <1>8. QED
    BY <1>1, <1>2, <1>3, <1>4, <1>5, <1>6, <1>7

\* While the window has room the entry is added to the list.
LEMMA AppendInWindow ==
  ASSUME LedgerInv, NEW u \in LedgerUsers, NEW f \in Fields, AppendEntry(u, f),
         Len(ReadLedger(u).lists[f]) < RollingWindow
  PROVE  LedgerInv'
  <1> DEFINE r == ReadLedger(u)
             l == r.lists[f]
             n == past.recorded[u][f]
             grown == Append(l, n + 1)
             left == SubSeq(grown, Excess(grown) + 1, Len(grown))
             q == Recorded(u, f)
  <1>1. /\ writes = <<>>
        /\ Call(Creation(u) \o ArchiveFirst(Archived(u, f, grown),
                                            Replace("ledger", u, WithList(r, f, left), q)))
        /\ l \in Seq(Nat) /\ n \in Nat /\ past.deaths \in Nat
        /\ Len(l) \in Nat /\ grown \in Seq(Nat) /\ Len(grown) = Len(l) + 1
        /\ FieldGood(l, deep[u][f], n, past.deaths)
    BY AppendFacts
  <1>2. /\ q \in Past /\ q.deaths = past.deaths /\ q.chosen = past.chosen
        /\ q.recorded[u] = [past.recorded[u] EXCEPT ![f] = n + 1]
        /\ \A x \in LedgerUsers \ {u} : q.recorded[x] = past.recorded[x]
    BY AppendFacts
  <1>3. /\ r \in Ledger /\ deep[u] \in [Fields -> Seq(Nat)] /\ past.recorded[u] \in [Fields -> Nat]
        /\ UserGood(r, deep[u], past.recorded[u], past.chosen[u], past.deaths)
    BY <1>1, ReadFacts
  <1>4. deep[u][f] \in Seq(Nat) /\ [deep[u] EXCEPT ![f] = deep[u][f]] = deep[u] /\ Len(l) < RollingWindow
    BY <1>3
  <1> HIDE DEF r, l, n, q
  <1>5. FieldGood(grown, deep[u][f], n + 1, past.deaths)
    BY <1>1, <1>4, FieldAppend
  <1> HIDE DEF grown
  <1>6. Excess(grown) = 0
    <2>1. RollingWindow \in Nat /\ ~(Len(grown) > RollingWindow)
      BY <1>1, <1>4, UserLedgerAssumption
    <2>2. QED
      BY <2>1 DEF Excess
  <1>7. left = grown
    BY <1>1, <1>6, SubSeqFull
  <1>8. Archived(u, f, grown) = <<>>
    BY <1>6 DEF Archived
  <1>9. Call(Creation(u) \o <<Replace("ledger", u, WithList(r, f, grown), q)>>)
    <2> HIDE DEF left
    <2>1. Call(Creation(u) \o Append(<<>>, Replace("ledger", u, WithList(r, f, grown), q)))
      BY <1>1, <1>7, <1>8 DEF ArchiveFirst
    <2>2. QED
      BY <2>1, AppendToFew
  <1>10. n + 1 \in Nat
    BY <1>1
  <1>11. UserGood(WithList(r, f, grown), deep[u], q.recorded[u], q.chosen[u], past.deaths)
    <2>1. UserGood(WithList(r, f, grown), [deep[u] EXCEPT ![f] = deep[u][f]],
                   [past.recorded[u] EXCEPT ![f] = n + 1], past.chosen[u], past.deaths)
      BY <1>1, <1>3, <1>4, <1>5, <1>10, OneFieldChanges
    <2>2. QED
      BY <1>2, <1>4, <2>1
  <1>12. WithList(r, f, grown) \in Ledger
    BY <1>1, <1>3, WithListFacts
  <1>13. QED
    BY <1>2, <1>9, <1>11, <1>12, CreateAndReplace

\* When it is full the first entry goes to the archive before.
LEMMA AppendAndArchive ==
  ASSUME LedgerInv, NEW u \in LedgerUsers, NEW f \in Fields, AppendEntry(u, f),
         Len(ReadLedger(u).lists[f]) = RollingWindow
  PROVE  LedgerInv'
  <1> DEFINE r == ReadLedger(u)
             l == r.lists[f]
             n == past.recorded[u][f]
             grown == Append(l, n + 1)
             left == SubSeq(grown, Excess(grown) + 1, Len(grown))
             q == Recorded(u, f)
             more == Append(deep[u][f], l[1])
             dv == [deep[u] EXCEPT ![f] = more]
             v == Replace("deep", u, dv, past)
             w == Replace("ledger", u, WithList(r, f, left), q)
  <1>1. /\ writes = <<>>
        /\ Call(Creation(u) \o ArchiveFirst(Archived(u, f, grown), w))
        /\ l \in Seq(Nat) /\ n \in Nat /\ past.deaths \in Nat
        /\ Len(l) \in Nat /\ grown \in Seq(Nat) /\ Len(grown) = Len(l) + 1
        /\ FieldGood(l, deep[u][f], n, past.deaths)
        /\ ledger[u] = Absent => n = 0
    BY AppendFacts
  <1>2. /\ q \in Past /\ q.deaths = past.deaths /\ q.chosen = past.chosen
        /\ q.recorded[u] = [past.recorded[u] EXCEPT ![f] = n + 1]
        /\ \A x \in LedgerUsers \ {u} : q.recorded[x] = past.recorded[x]
    BY AppendFacts
  <1>3. /\ r \in Ledger /\ deep[u] \in [Fields -> Seq(Nat)] /\ past.recorded[u] \in [Fields -> Nat]
        /\ UserGood(r, deep[u], past.recorded[u], past.chosen[u], past.deaths)
    BY <1>1, ReadFacts
  <1>4. deep[u][f] \in Seq(Nat) /\ Len(l) = RollingWindow /\ RollingWindow \in Nat \ {0}
    BY <1>3, UserLedgerAssumption
  <1>5. Creation(u) = <<>> /\ r = ledger[u]
    <2> HIDE DEF l, n
    <2>1. n - Len(l) \in Nat
      BY <1>1, AbsentAssumption DEF FieldGood, LiveOf
    <2>2. n # 0
      BY <1>1, <1>4, <2>1
    <2>3. ledger[u] # Absent
      BY <1>1, <2>2
    <2>4. QED
      BY <2>3 DEF Creation, ReadLedger
  <1> HIDE DEF r, n, q
  <1>6. l[1] \in Nat /\ grown[1] = l[1] /\ Len(grown) > 0
    <2>1. 1 \in 1..Len(l)
      BY <1>4
    <2> HIDE DEF l
    <2>2. QED
      BY <1>1, <2>1, AppendProperties, ElementOfSeq
  <1> HIDE DEF l
  <1>7. /\ SubSeq(grown, 2, Len(l) + 1) \in Seq(Nat) /\ more \in Seq(Nat)
        /\ FieldGood(l, more, n, past.deaths + 1)
        /\ FieldGood(SubSeq(grown, 2, Len(l) + 1), more, n + 1, past.deaths)
    BY <1>1, <1>4, FieldArchive
  <1>8. deep[u][f] \o <<l[1]>> = more
    BY <1>4, <1>6, AppendIsConcat
  <1> HIDE DEF grown, more
  <1>9. Excess(grown) = 1
    <2>1. RollingWindow \in Nat /\ Len(grown) > RollingWindow /\ Len(grown) - RollingWindow = 1
      BY <1>1, <1>4
    <2>2. QED
      BY <2>1 DEF Excess
  <1>10. left = SubSeq(grown, 2, Len(l) + 1)
    BY <1>1, <1>9
  <1>11. Archived(u, f, grown) = <<v>>
    <2> DEFINE s == Archived(u, f, grown)
               d(i) == [deep[u] EXCEPT ![f] = @ \o SubSeq(grown, 1, i)]
    <2>1. s = [i \in 1..1 |-> Replace("deep", u, d(i), past)]
      BY <1>9 DEF Archived
    <2>2. SubSeq(grown, 1, 1) = <<l[1]>>
      BY <1>1, <1>6, FirstOnly
    <2>3. d(1) = dv
      BY <1>8, <2>2
    <2> HIDE DEF d, dv
    <2>4. s[1] = v
      BY <2>1, <2>3
    <2>5. s = [i \in 1..1 |-> s[i]]
      BY <2>1
    <2> HIDE DEF s, v
    <2>6. s = <<s[1]>>
      BY <2>5, ListOfOne
    <2>7. QED
      BY <2>4, <2>6 DEF s
  <1>12. Call(<<v, w>>)
    <2> HIDE DEF v, w
    <2>1. Call(<<>> \o Append(<<v>>, w))
      BY <1>1, <1>5, <1>11 DEF ArchiveFirst
    <2>2. QED
      BY <2>1, AppendToFew
  <1>13. dv \in [Fields -> Seq(Nat)] /\ n + 1 \in Nat /\ past.deaths + 1 \in Nat
    <2>1. dv \in [Fields -> Seq(Nat)]
      BY <1>3, <1>7
    <2>2. n + 1 \in Nat
      BY <1>1, <1>3
    <2>3. past.deaths + 1 \in Nat
      BY <1>1
    <2>4. QED
      BY <2>1, <2>2, <2>3
  <1> HIDE DEF left
  <1>14. left \in Seq(Nat) /\ WithList(r, f, left) \in Ledger
    BY <1>3, <1>7, <1>10, WithListFacts
  <1>15. UserGood(WithList(r, f, left), dv, q.recorded[u], q.chosen[u], past.deaths)
    <2>1. FieldGood(left, more, n + 1, past.deaths)
      BY <1>7, <1>10
    <2>2. UserGood(WithList(r, f, left), [deep[u] EXCEPT ![f] = more],
                   [past.recorded[u] EXCEPT ![f] = n + 1], past.chosen[u], past.deaths)
      BY <1>1, <1>3, <1>7, <1>13, <1>14, <2>1, OneFieldChanges
    <2>3. QED
      BY <1>2, <2>2
  <1>16. UserGood(r, dv, past.recorded[u], past.chosen[u], past.deaths + 1)
    <2> DEFINE e == past.deaths + 1
    <2>1. UserGood(r, deep[u], past.recorded[u], past.chosen[u], e)
      <3>1. r \in Ledger \cup {Absent} /\ past.deaths <= e /\ e \in Nat
        BY <1>1, <1>3
      <3> HIDE DEF e
      <3>2. QED
        BY <1>1, <1>3, <3>1, UserWeaker
    <2>2. /\ r # Absent /\ ListOf(r, f) = l
          /\ dv[f] = more /\ \A g \in Fields \ {f} : dv[g] = deep[u][g]
      BY <1>3, AbsentAssumption DEF ListOf, l
    <2>3. FieldGood(l, more, past.recorded[u][f], e)
      BY <1>7 DEF n
    <2> HIDE DEF e, dv
    <2>4. \A g \in Fields : FieldGood(ListOf(r, g), dv[g], past.recorded[u][g], e)
      BY <2>1, <2>2, <2>3 DEF UserGood
    <2>5. UserGood(r, dv, past.recorded[u], past.chosen[u], e)
      BY <2>1, <2>4 DEF UserGood
    <2>6. QED
      BY <2>5 DEF e
  <1>17. Call(<<Replace("deep", u, dv, past), Replace("ledger", u, WithList(r, f, left), q)>>)
    BY <1>12
  <1>18. ledger[u] \in Ledger /\ UserGood(ledger[u], dv, past.recorded[u], past.chosen[u], past.deaths + 1)
    BY <1>3, <1>5, <1>16
  <1> HIDE DEF dv, v, w
  <1> DEFINE new == WithList(r, f, left)
  <1>19. /\ ledger[u] \in Ledger /\ new \in Ledger /\ dv \in [Fields -> Seq(Nat)]
         /\ q \in Past /\ q.deaths = past.deaths
         /\ \A x \in LedgerUsers \ {u} : q.recorded[x] = past.recorded[x] /\ q.chosen[x] = past.chosen[x]
         /\ UserGood(ledger[u], dv, past.recorded[u], past.chosen[u], past.deaths + 1)
         /\ UserGood(new, dv, q.recorded[u], q.chosen[u], past.deaths)
         /\ Call(<<Replace("deep", u, dv, past), Replace("ledger", u, new, q)>>)
    BY <1>2, <1>13, <1>14, <1>15, <1>17, <1>18
  <1> HIDE DEF new
  <1>20. QED
    BY <1>19, ArchiveAndReplace

LEMMA AppendStep ==
  ASSUME LedgerInv, NEW u \in LedgerUsers, NEW f \in Fields, AppendEntry(u, f)
  PROVE  LedgerInv'
  <1> DEFINE l == ReadLedger(u).lists[f]
  <1>1. Len(l) \in Nat /\ Len(l) <= RollingWindow
    BY AppendFacts
  <1> HIDE DEF l
  <1>2. Len(l) < RollingWindow \/ Len(l) = RollingWindow
    BY <1>1, UserLedgerAssumption
  <1>3. QED
    BY <1>2, AppendInWindow, AppendAndArchive DEF l

LEMMA PendingWrites ==
  ASSUME LedgerInv, writes # <<>>
  PROVE  \/ \E w : /\ writes = <<w>> /\ w.file \in {"ledger", "deep"}
                   /\ LedgersGood(InLedger(w, ledger), InDeep(w, deep), w.then, 0)
         \/ \E v, w : /\ writes = <<v, w>>
                      /\ v.file \in {"ledger", "deep"} /\ w.file \in {"ledger", "deep"}
                      /\ LedgersGood(InLedger(v, ledger), InDeep(v, deep), v.then, 1)
                      /\ LedgersGood(InLedger(w, InLedger(v, ledger)), InDeep(w, InDeep(v, deep)),
                                     w.then, 0)
  BY Zenon DEF LedgerInv

LEMMA ReplaceStep == ASSUME LedgerInv, ReplaceFile PROVE LedgerInv'
  <1>1. writes # <<>> /\ template' = template /\ template \in SUBSET Fields
    BY DEF ReplaceFile, LedgerInv
  <1>2. ASSUME NEW w, writes = <<w>>, w.file \in {"ledger", "deep"},
               LedgersGood(InLedger(w, ledger), InDeep(w, deep), w.then, 0)
        PROVE  LedgerInv'
    <2>1. Head(writes) = w /\ Tail(writes) = <<>>
      BY <1>2, HeadsOfFew
    <2>2. /\ ledger' = InLedger(w, ledger) /\ deep' = InDeep(w, deep) /\ past' = w.then
          /\ writes' = <<>>
      BY <2>1 DEF ReplaceFile, InLedger, InDeep
    <2>3. LedgersGood(ledger, deep, past, 0)'
      BY <1>2, <2>2 DEF LedgersGood
    <2>4. QED
      BY <1>1, <2>2, <2>3 DEF LedgerInv
  <1>3. ASSUME NEW v, NEW w, writes = <<v, w>>,
               v.file \in {"ledger", "deep"}, w.file \in {"ledger", "deep"},
               LedgersGood(InLedger(v, ledger), InDeep(v, deep), v.then, 1),
               LedgersGood(InLedger(w, InLedger(v, ledger)), InDeep(w, InDeep(v, deep)), w.then, 0)
        PROVE  LedgerInv'
    <2> DEFINE l == InLedger(v, ledger)
               d == InDeep(v, deep)
               m == InLedger(w, l)
               b == InDeep(w, d)
    <2>1. Head(writes) = v /\ Tail(writes) = <<w>>
      BY <1>3, HeadsOfFew
    <2>2. /\ ledger' = l /\ deep' = d /\ past' = v.then /\ writes' = <<w>>
      BY <2>1 DEF ReplaceFile, InLedger, InDeep
    <2>3. writes'[1] = w /\ writes' # <<>> /\ writes' = <<writes'[1]>>
      BY <2>2
    <2>4. LedgersGood(ledger, deep, past, 1)'
      <3> HIDE DEF l, d
      <3>1. LedgersGood(l, d, v.then, 1)
        BY <1>3 DEF l, d
      <3>2. QED
        BY <2>2, <3>1 DEF LedgersGood
    <2>5. LedgersGood(InLedger(w, ledger), InDeep(w, deep), w.then, 0)'
      <3>1. LedgersGood(m, b, w.then, 0)
        BY <1>3
      <3>2. InLedger(w, ledger)' = m /\ InDeep(w, deep)' = b
        BY <2>2 DEF InLedger, InDeep
      <3> HIDE DEF m, b
      <3>3. QED
        BY <3>1, <3>2 DEF LedgersGood
    <2> HIDE DEF l, d, m, b
    <2>6. QED
      BY <1>1, <1>3, <2>3, <2>4, <2>5 DEF LedgerInv
  <1>4. QED
    BY <1>1, <1>2, <1>3, PendingWrites

\* A call that ended early is one that its double entries are allowed for.
LEMMA DieStep == ASSUME LedgerInv, Die PROVE LedgerInv'
  <1>1. /\ LedgersGood(ledger, deep, past, 1) /\ past.deaths < MaxDeaths
        /\ writes' = <<>> /\ past' = [past EXCEPT !.deaths = @ + 1]
        /\ template' = template /\ ledger' = ledger /\ deep' = deep
    BY DEF LedgerInv, Die
  <1>2. past \in Past /\ MaxDeaths \in Nat
    BY <1>1, UserLedgerAssumption DEF LedgersGood
  <1>3. /\ past' \in Past /\ past'.deaths = past.deaths + 1 /\ past.deaths \in Nat
        /\ past'.recorded = past.recorded /\ past'.chosen = past.chosen
    BY <1>1, <1>2 DEF Past
  <1>4. past'.deaths + 0 = past.deaths + 1
    BY <1>3
  <1>5. LedgersGood(ledger, deep, past, 0)'
    BY <1>1, <1>3, <1>4 DEF LedgersGood
  <1>6. template \in SUBSET Fields
    BY DEF LedgerInv
  <1>7. QED
    BY <1>1, <1>5, <1>6 DEF LedgerInv

LEMMA LedgerStart == LedgerInit => LedgerInv
  <1> SUFFICES ASSUME LedgerInit PROVE LedgerInv
    OBVIOUS
  <1>1. <<>> \in Seq(Nat)
    BY EmptySeq
  <1>2. /\ ledger \in [LedgerUsers -> Ledger \cup {Absent}]
        /\ deep \in [LedgerUsers -> [Fields -> Seq(Nat)]]
        /\ past \in Past /\ past.deaths = 0 /\ 0 + 0 = 0 /\ 0 \in Nat
    BY <1>1, UserLedgerAssumption DEF LedgerInit, Past
  <1>3. ASSUME NEW u \in LedgerUsers
        PROVE  UserGood(ledger[u], deep[u], past.recorded[u], past.chosen[u], 0)
    <2>1. /\ ledger[u] = Absent /\ past.chosen[u] = Default
          /\ \A f \in Fields : deep[u][f] = <<>> /\ past.recorded[u][f] = 0
      BY DEF LedgerInit
    <2>2. QED
      BY <1>2, <2>1, FieldBegins DEF UserGood, ListOf
  <1>4. LedgersGood(ledger, deep, past, 0)
    BY <1>2, <1>3 DEF LedgersGood
  <1>5. QED
    BY <1>4, UserLedgerAssumption DEF LedgerInit, LedgerInv

LEMMA LedgerStep == LedgerInv /\ [LedgerNext]_ledgerVars => LedgerInv'
  <1> SUFFICES ASSUME LedgerInv, [LedgerNext]_ledgerVars PROVE LedgerInv'
    OBVIOUS
  <1>1. ASSUME NEW u \in LedgerUsers, EnsureLedger(u) PROVE LedgerInv'
    BY <1>1, EnsureStep
  <1>2. ASSUME NEW u \in LedgerUsers, NEW f \in Fields, AppendEntry(u, f) PROVE LedgerInv'
    BY <1>2, AppendStep
  <1>3. ASSUME NEW u \in LedgerUsers, NEW v \in Settings, SetIndicator(u, v) PROVE LedgerInv'
    BY <1>3, SetIndicatorStep
  <1>4. CASE UpdateTemplate
    BY <1>4 DEF UpdateTemplate, LedgerInv, LedgersGood
  <1>5. CASE ReplaceFile
    BY <1>5, ReplaceStep
  <1>6. CASE Die
    BY <1>6, DieStep
  <1>7. CASE UNCHANGED ledgerVars
    BY <1>7 DEF ledgerVars, LedgerInv, LedgersGood, InLedger, InDeep
  <1>8. QED
    BY <1>1, <1>2, <1>3, <1>4, <1>5, <1>6, <1>7 DEF LedgerNext

LEMMA LedgerInvTypes == LedgerInv => LedgerTypeOK
  <1> SUFFICES ASSUME LedgerInv PROVE LedgerTypeOK
    OBVIOUS
  <1>1. \A i \in DOMAIN writes : writes[i].file \in {"ledger", "deep"}
    <2>1. CASE writes = <<>>
      BY <2>1
    <2>2. CASE writes = <<writes[1]>> /\ writes[1].file \in {"ledger", "deep"}
      <3>1. DOMAIN writes = {1}
        BY <2>2
      <3>2. QED
        BY <2>2, <3>1
    <2>3. CASE /\ writes = <<writes[1], writes[2]>>
               /\ writes[1].file \in {"ledger", "deep"} /\ writes[2].file \in {"ledger", "deep"}
      <3>1. DOMAIN writes = {1, 2}
        BY <2>3
      <3>2. QED
        BY <2>3, <3>1
    <2>4. QED
      BY <2>1, <2>2, <2>3 DEF LedgerInv
  <1>2. QED
    BY <1>1 DEF LedgerInv, LedgersGood, LedgerTypeOK, Past

\* What the archive and the list of a field hold, put together.
LEMMA FieldTells ==
  ASSUME NEW l \in Seq(Nat) \cup {Absent}, NEW d \in Seq(Nat), NEW n \in Nat, NEW e \in Nat,
         FieldGood(l, d, n, e)
  PROVE  LET all == d \o LiveOf(l)
         IN  /\ Len(LiveOf(l)) <= RollingWindow
             /\ Ascending(all) /\ Range(all) = 1..n /\ Len(all) <= n + e
  <1> DEFINE live == LiveOf(l)
             all == d \o live
             gone == n - Len(live)
  <1>1. live \in Seq(Nat)
    BY DEF LiveOf
  <1>2. /\ Len(live) <= RollingWindow /\ gone \in Nat
        /\ \A i \in 1..Len(live) : live[i] = gone + i
        /\ \A i \in 1..Len(d) : d[i] \in 1..n /\ d[i] <= gone + 1
        /\ Ascending(d)
        /\ \A v \in 1..gone : \E i \in 1..Len(d) : d[i] = v
        /\ Len(d) + Len(live) <= n + e
    BY DEF FieldGood
  <1> HIDE DEF live
  <1>3. /\ Len(d) \in Nat /\ Len(live) \in Nat /\ DOMAIN all = 1..Len(all)
        /\ Len(all) = Len(d) + Len(live)
        /\ \A i \in 1..(Len(d) + Len(live)) : all[i] = IF i <= Len(d) THEN d[i] ELSE live[i - Len(d)]
    BY <1>1, LenProperties, ConcatProperties
  <1> HIDE DEF all
  <1>4. ASSUME NEW i \in 1..Len(all), i > Len(d) PROVE all[i] = gone + (i - Len(d))
    <2>1. i - Len(d) \in 1..Len(live) /\ ~(i <= Len(d))
      BY <1>3, <1>4
    <2>2. all[i] = live[i - Len(d)]
      BY <1>3, <2>1
    <2>3. QED
      BY <1>2, <2>1, <2>2
  <1>5. ASSUME NEW i \in 1..Len(all), i <= Len(d) PROVE i \in 1..Len(d) /\ all[i] = d[i]
    BY <1>3, <1>5
  <1>6. Ascending(all)
    <2> SUFFICES ASSUME NEW i \in 2..Len(all) PROVE all[i - 1] <= all[i]
      BY DEF Ascending
    <2>1. i \in 1..Len(all) /\ i - 1 \in 1..Len(all)
      BY <1>3
    <2>2. CASE i <= Len(d)
      <3>1. i \in 2..Len(d) /\ i - 1 <= Len(d)
        BY <1>3, <2>2
      <3>2. d[i - 1] <= d[i]
        BY <1>2, <3>1 DEF Ascending
      <3>3. QED
        BY <1>5, <2>1, <2>2, <3>1, <3>2
    <2>3. CASE i > Len(d)
      <3>1. all[i] = gone + (i - Len(d))
        BY <1>4, <2>1, <2>3
      <3>2. CASE i - 1 <= Len(d)
        <4>1. all[i - 1] = d[i - 1] /\ i - 1 \in 1..Len(d)
          BY <1>5, <2>1, <3>2
        <4>2. i = Len(d) + 1
          BY <1>3, <2>3, <3>2
        <4>3. d[i - 1] <= gone + 1 /\ all[i] = gone + 1
          BY <1>2, <1>3, <3>1, <4>1, <4>2
        <4>4. QED
          BY <4>1, <4>3
      <3>3. CASE i - 1 > Len(d)
        <4>1. all[i - 1] = gone + ((i - 1) - Len(d))
          BY <1>4, <2>1, <3>3
        <4>2. QED
          BY <1>2, <1>3, <3>1, <4>1
      <3>4. QED
        BY <1>3, <3>2, <3>3
    <2>4. QED
      BY <1>3, <2>2, <2>3
  <1>7. Range(all) \subseteq 1..n
    <2> SUFFICES ASSUME NEW i \in 1..Len(all) PROVE all[i] \in 1..n
      BY <1>3 DEF Range
    <2>1. CASE i <= Len(d)
      BY <1>2, <1>5, <2>1
    <2>2. CASE i > Len(d)
      <3>1. all[i] = gone + (i - Len(d))
        BY <1>4, <2>2
      <3>2. i - Len(d) \in 1..Len(live)
        BY <1>3, <2>2
      <3>3. QED
        BY <1>2, <1>3, <3>1, <3>2
    <2>3. QED
      BY <1>3, <2>1, <2>2
  <1>8. ASSUME NEW v \in 1..n PROVE v \in Range(all)
    <2>1. CASE v <= gone
      <3>1. v \in 1..gone
        BY <1>2, <2>1
      <3>2. PICK i \in 1..Len(d) : d[i] = v
        BY <1>2, <3>1
      <3>3. i \in 1..Len(all) /\ i <= Len(d)
        BY <1>3
      <3>4. all[i] = v
        BY <1>5, <3>2, <3>3
      <3>5. QED
        BY <1>3, <3>3, <3>4 DEF Range
    <2>2. CASE v > gone
      <3> DEFINE i == Len(d) + (v - gone)
      <3>1. i \in 1..Len(all) /\ i > Len(d) /\ gone + (i - Len(d)) = v
        BY <1>2, <1>3, <2>2
      <3> HIDE DEF i
      <3>2. all[i] = v
        BY <1>4, <3>1
      <3>3. QED
        BY <1>3, <3>1, <3>2 DEF Range
    <2>3. QED
      BY <1>2, <2>1, <2>2
  <1>9. Len(all) <= n + e
    BY <1>2, <1>3
  <1>10. QED
    BY <1>2, <1>6, <1>7, <1>8, <1>9 DEF live, all

LEMMA LedgerInvHolds == LedgerInv => NothingForgotten
  <1> SUFFICES ASSUME LedgerInv PROVE NothingForgotten
    OBVIOUS
  <1> DEFINE x == IF writes = <<>> THEN 0 ELSE 1
  <1>1. LedgersGood(ledger, deep, past, x) /\ x \in Nat
    BY DEF LedgerInv
  <1> HIDE DEF x
  <1>2. ASSUME NEW u \in LedgerUsers
        PROVE  UserGood(ledger[u], deep[u], past.recorded[u], past.chosen[u], past.deaths + x)
    BY <1>1 DEF LedgersGood
  <1>3. ASSUME NEW u \in LedgerUsers, NEW f \in Fields
        PROVE  /\ Len(Live(u, f)) <= RollingWindow
               /\ Ascending(Kept(u, f))
               /\ Range(Kept(u, f)) = 1..past.recorded[u][f]
               /\ Len(Kept(u, f)) <= past.recorded[u][f] + past.deaths + x
    <2> DEFINE l == ListOf(ledger[u], f)
               d == deep[u][f]
               n == past.recorded[u][f]
               e == past.deaths + x
    <2>1. /\ ledger[u] \in Ledger \cup {Absent} /\ d \in Seq(Nat) /\ n \in Nat /\ e \in Nat
          /\ past.deaths \in Nat
      BY <1>1, UserLedgerAssumption DEF LedgersGood, Past
    <2>2. l \in Seq(Nat) \cup {Absent} /\ FieldGood(l, d, n, e)
      BY <1>2, <2>1, ListTypes DEF UserGood
    <2>3. Live(u, f) = LiveOf(l) /\ Kept(u, f) = d \o LiveOf(l)
      BY DEF Live, Kept, LiveOf, ListOf
    <2> HIDE DEF l, d, n
    <2>4. /\ Len(LiveOf(l)) <= RollingWindow
          /\ Ascending(d \o LiveOf(l)) /\ Range(d \o LiveOf(l)) = 1..n /\ Len(d \o LiveOf(l)) <= n + e
      <3> HIDE DEF e
      <3> QED
        BY <2>1, <2>2, FieldTells
    <2>5. n + e = n + past.deaths + x
      BY <1>1, <2>1
    <2>6. QED
      BY <2>3, <2>4, <2>5 DEF n
  <1>4. ASSUME NEW u \in LedgerUsers, ledger[u] # Absent
        PROVE  ledger[u].inventory = past.chosen[u]
    BY <1>2, <1>4 DEF UserGood
  <1>5. QED
    BY <1>3, <1>4 DEF NothingForgotten, x

\* Whenever the process dies, the archive and the ledger of a user hold every entry
\* that was recorded, in order, and no other.
THEOREM NothingIsForgotten == LedgerSpec => []NothingForgotten
  <1>1. QED
    BY LedgerStart, LedgerStep, LedgerInvHolds, PTL DEF LedgerSpec

-----------------------------------------------------------------------------
(* The ledger of an organisation *)

Taken == [sessions: [LedgerOrgs -> Nat], lost: [LedgerOrgs -> Nat], rows: [Seats -> Nat]]

SeatsOf(row) == {p \in Seats : row.active[p] # NoFile}

\* What is written in the ledger of an organisation adds up.
RowGood(row) ==
  /\ Cardinality(SeatsOf(row)) <= row.max_seats
  /\ SumFunctionOnSet(row.active, SeatsOf(row)) <= row.consumed
  /\ row.consumed <= Allocated

OrgGood(row, x, t) ==
  IF row = NoFile THEN t.sessions[x] = 0 /\ t.lost[x] = 0
  ELSE RowGood(row) /\ row.consumed + t.lost[x] = t.sessions[x]

RowsOf(log) == IF log = NoFile THEN 0 ELSE log.rows

OrgsGood(o, s, t) ==
  /\ o \in [LedgerOrgs -> OrgRow \cup {NoFile}]
  /\ s \in [Seats -> SeatLog \cup {NoFile}]
  /\ t \in Taken
  /\ \A x \in LedgerOrgs : OrgGood(o[x], x, t)
  /\ \A p \in Seats : t.rows[p] = RowsOf(s[p])

\* The files once w is done.
InOrg(w, o) == IF w.file = "org" THEN [o EXCEPT ![w.of] = w.data] ELSE o
InSeat(w, s) == IF w.file = "seat" THEN [s EXCEPT ![w.of] = w.data] ELSE s

\* Ledgers and logs are good before and after each of the writes a call has to do,
\* and a copy somebody read is good by itself, whatever has happened since.
OrgInv ==
  /\ OrgsGood(org, seatLog, taken)
  /\ copy \in Copy \cup {NoFile} /\ (copy # NoFile => RowGood(copy.data))
  /\ \/ steps = <<>>
     \/ LET w == steps[1]
        IN  /\ steps = <<w>>
            /\ w.file \in {"org", "seat"}
            /\ OrgsGood(InOrg(w, org), InSeat(w, seatLog), w.then)
     \/ LET v == steps[1]
            w == steps[2]
        IN  /\ steps = <<v, w>>
            /\ v.file \in {"org", "seat"} /\ w.file \in {"org", "seat"}
            /\ OrgsGood(InOrg(v, org), InSeat(v, seatLog), v.then)
            /\ OrgsGood(InOrg(w, InOrg(v, org)), InSeat(w, InSeat(v, seatLog)), w.then)

\* A copy that is still to be written back shows what had been taken when it was read,
\* but for what was lost before, and nothing is lost as long as it is there.
Shows(c, t) == c.data.consumed + t.lost[c.key] = c.at /\ c.at <= t.sessions[c.key]
CopyInv ==
  copy # NoFile => Shows(copy, taken) /\ \A i \in DOMAIN steps : Shows(copy, steps[i].then)

LEMMA SeatsFinite ==
  ASSUME NEW row
  PROVE  IsFiniteSet(SeatsOf(row)) /\ Cardinality(SeatsOf(row)) \in Nat
  <1>1. SeatsOf(row) \subseteq Seats /\ IsFiniteSet(Seats)
    BY OrgLedgerAssumption DEF SeatsOf
  <1>2. IsFiniteSet(SeatsOf(row))
    BY <1>1, FS_Subset
  <1>3. QED
    BY <1>2, FS_CardinalityType

\* The ledger of an organisation that begins.
LEMMA FreshRowGood == FreshOrg \in OrgRow /\ FreshOrg # NoFile /\ FreshOrg.consumed = 0 /\ RowGood(FreshOrg)
  <1> DEFINE f == FreshOrg
  <1>1. /\ f \in OrgRow /\ f.consumed = 0 /\ f.max_seats = MaxSeatsOfOrg
        /\ \A p \in Seats : f.active[p] = NoFile
    BY OrgLedgerAssumption DEF FreshOrg, OrgRow
  <1> HIDE DEF f
  <1>2. SeatsOf(f) = {}
    BY <1>1 DEF SeatsOf
  <1>3. Cardinality({}) = 0 /\ IsFiniteSet({})
    BY FS_EmptySet
  <1>4. SumFunctionOnSet(f.active, {}) = 0
    BY <1>3, SumStep
  <1>5. f # NoFile
    BY <1>1, NoFileAssumption
  <1>6. RowGood(f)
    BY <1>1, <1>2, <1>3, <1>4, OrgLedgerAssumption DEF RowGood
  <1>7. QED
    BY <1>1, <1>5, <1>6 DEF f

\* A seat more, with no sessions yet.
LEMMA SeatMore ==
  ASSUME NEW row \in OrgRow, RowGood(row), NEW p \in Seats, p \notin SeatsOf(row),
         Cardinality(SeatsOf(row)) < row.max_seats
  PROVE  LET new == [row EXCEPT !.active[p] = 0]
         IN  new \in OrgRow /\ RowGood(new) /\ new.consumed = row.consumed
  <1> DEFINE new == [row EXCEPT !.active[p] = 0]
             S == SeatsOf(row)
             T == SeatsOf(new)
  <1>1. /\ new \in OrgRow /\ new.consumed = row.consumed /\ new.max_seats = row.max_seats
        /\ new.active[p] = 0 /\ \A x \in Seats \ {p} : new.active[x] = row.active[x]
    BY DEF OrgRow
  <1>2. row.max_seats \in Nat /\ row.consumed \in Nat /\ row.active \in [Seats -> Nat \cup {NoFile}]
    BY DEF OrgRow
  <1> HIDE DEF new
  <1>3. T = S \cup {p} /\ p \notin S
    BY <1>1, NoFileAssumption DEF SeatsOf
  <1>4. IsFiniteSet(S) /\ Cardinality(S) \in Nat /\ IsFiniteSet(T)
    BY SeatsFinite
  <1>5. Cardinality(T) = Cardinality(S) + 1
    BY <1>3, <1>4, FS_AddElement
  <1>6. \A x \in T : new.active[x] \in Nat
    BY <1>1, <1>2, <1>3 DEF SeatsOf
  <1>7. T \ {p} = S /\ p \in T
    BY <1>3
  <1>8. /\ SumFunctionOnSet(new.active, S) \in Nat
        /\ SumFunctionOnSet(new.active, T) = new.active[p] + SumFunctionOnSet(new.active, S)
    <2> DEFINE f == new.active
    <2> HIDE DEF f, T
    <2>1. /\ SumFunctionOnSet(f, T \ {p}) \in Nat
          /\ SumFunctionOnSet(f, T) = f[p] + SumFunctionOnSet(f, T \ {p})
      <3>1. \A x \in T : f[x] \in Nat
        BY <1>6 DEF f
      <3>2. QED
        BY <1>4, <1>7, <3>1, SumOfMember
    <2>2. QED
      BY <1>7, <2>1 DEF f
  <1>9. SumFunctionOnSet(new.active, S) = SumFunctionOnSet(row.active, S)
    <2>1. \A x \in S : new.active[x] = row.active[x]
      BY <1>1, <1>3 DEF SeatsOf
    <2>2. QED
      BY <1>4, <2>1, SumOfSame
  <1> DEFINE sum == SumFunctionOnSet(row.active, S)
             n == Cardinality(S)
  <1>10. sum <= row.consumed /\ row.consumed <= Allocated /\ n < row.max_seats
    BY DEF RowGood
  <1>11. SumFunctionOnSet(new.active, T) = 0 + sum /\ sum \in Nat
    BY <1>1, <1>8, <1>9
  <1>12. Cardinality(T) = n + 1 /\ n \in Nat
    BY <1>4, <1>5
  <1> HIDE DEF sum, n
  <1>13. SumFunctionOnSet(new.active, T) <= new.consumed /\ Cardinality(T) <= new.max_seats
    BY <1>1, <1>2, <1>10, <1>11, <1>12
  <1>14. RowGood(new)
    BY <1>1, <1>10, <1>13 DEF RowGood
  <1>15. QED
    BY <1>1, <1>14 DEF new

\* A session more, of somebody with a seat or without.
LEMMA SessionMore ==
  ASSUME NEW row \in OrgRow, RowGood(row), NEW p \in Seats, row.consumed < Allocated
  PROVE  LET new == [row EXCEPT !.consumed = @ + 1,
                                !.active[p] = IF @ = NoFile THEN NoFile ELSE @ + 1]
         IN  new \in OrgRow /\ RowGood(new) /\ new.consumed = row.consumed + 1
  <1> DEFINE new == [row EXCEPT !.consumed = @ + 1,
                                !.active[p] = IF @ = NoFile THEN NoFile ELSE @ + 1]
             S == SeatsOf(row)
             T == SeatsOf(new)
  <1>1. row.max_seats \in Nat /\ row.consumed \in Nat /\ row.active \in [Seats -> Nat \cup {NoFile}]
    BY DEF OrgRow
  <1>2. /\ new \in OrgRow /\ new.consumed = row.consumed + 1 /\ new.max_seats = row.max_seats
        /\ new.active[p] = IF row.active[p] = NoFile THEN NoFile ELSE row.active[p] + 1
        /\ \A x \in Seats \ {p} : new.active[x] = row.active[x]
    <2> DEFINE c == IF row.active[p] = NoFile THEN NoFile ELSE row.active[p] + 1
               a == [row.active EXCEPT ![p] = c]
    <2>1. c \in Nat \cup {NoFile}
      BY <1>1
    <2>2. row = [active |-> row.active, max_seats |-> row.max_seats, consumed |-> row.consumed]
      BY DEF OrgRow
    <2>3. new = [[row EXCEPT !.consumed = row.consumed + 1] EXCEPT !.active = a]
      OBVIOUS
    <2> HIDE DEF c, new
    <2>4. a \in [Seats -> Nat \cup {NoFile}] /\ a[p] = c /\ \A x \in Seats \ {p} : a[x] = row.active[x]
      BY <1>1, <2>1
    <2> HIDE DEF a
    <2>5. new = [active |-> a, max_seats |-> row.max_seats, consumed |-> row.consumed + 1]
      BY <2>2, <2>3
    <2>6. row.consumed + 1 \in Nat
      BY <1>1
    <2>7. QED
      BY <1>1, <2>4, <2>5, <2>6 DEF OrgRow, c
  <1> HIDE DEF new
  <1>3. T = S
    BY <1>1, <1>2, NoFileAssumption DEF SeatsOf
  <1>4. IsFiniteSet(S) /\ \A x \in S : row.active[x] \in Nat
    BY <1>1, SeatsFinite DEF SeatsOf
  <1> DEFINE sum == SumFunctionOnSet(row.active, S)
             more == SumFunctionOnSet(new.active, S)
  <1>5. sum \in Nat /\ (more = sum \/ more = sum + 1)
    <2>1. sum \in Nat
      BY <1>4, SumIsNat
    <2>2. CASE p \in S
      <3>1. new.active[p] = row.active[p] + 1 /\ \A x \in S \ {p} : new.active[x] = row.active[x]
        BY <1>2, <2>2 DEF SeatsOf
      <3>2. more = sum + 1
        BY <1>4, <2>2, <3>1, SumWithOneMore
      <3>3. QED
        BY <2>1, <3>2
    <2>3. CASE p \notin S
      <3>1. \A x \in S : new.active[x] = row.active[x]
        BY <1>2, <2>3 DEF SeatsOf
      <3>2. more = sum
        BY <1>4, <3>1, SumOfSame
      <3>3. QED
        BY <2>1, <3>2
    <2>4. QED
      BY <2>2, <2>3
  <1>6. /\ sum <= row.consumed /\ Cardinality(S) <= row.max_seats /\ Allocated \in Nat
    BY OrgLedgerAssumption DEF RowGood
  <1> HIDE DEF sum, more
  <1>7. more <= new.consumed /\ new.consumed <= Allocated
    BY <1>1, <1>2, <1>5, <1>6
  <1>8. RowGood(new)
    BY <1>2, <1>3, <1>6, <1>7 DEF RowGood, more
  <1>9. QED
    BY <1>2, <1>8 DEF new

-----------------------------------------------------------------------------
(* Calls on the ledger of an organisation *)

LEMMA OrgOneWrite ==
  ASSUME OrgInv, NEW w, OrgCall(<<w>>), w.file \in {"org", "seat"},
         OrgsGood(InOrg(w, org), InSeat(w, seatLog), w.then)
  PROVE  OrgInv'
  <1>1. /\ steps' = <<w>> /\ org' = org /\ seatLog' = seatLog /\ copy' = copy /\ taken' = taken
    BY DEF OrgCall
  <1>2. steps'[1] = w
    BY <1>1
  <1>3. OrgsGood(InOrg(w, org), InSeat(w, seatLog), w.then)'
    BY <1>1 DEF OrgsGood, OrgGood, RowsOf, InOrg, InSeat
  <1>4. OrgsGood(org, seatLog, taken)'
    <2>1. OrgsGood(org, seatLog, taken)
      BY DEF OrgInv
    <2>2. QED
      BY <1>1, <2>1 DEF OrgsGood, OrgGood, RowsOf
  <1>5. QED
    BY <1>1, <1>2, <1>3, <1>4 DEF OrgInv, RowGood

LEMMA OrgTwoWrites ==
  ASSUME OrgInv, NEW v, NEW w, OrgCall(<<v, w>>),
         v.file \in {"org", "seat"}, w.file \in {"org", "seat"},
         OrgsGood(InOrg(v, org), InSeat(v, seatLog), v.then),
         OrgsGood(InOrg(w, InOrg(v, org)), InSeat(w, InSeat(v, seatLog)), w.then)
  PROVE  OrgInv'
  <1>1. /\ steps' = <<v, w>> /\ org' = org /\ seatLog' = seatLog /\ copy' = copy /\ taken' = taken
    BY DEF OrgCall
  <1>2. steps'[1] = v /\ steps'[2] = w
    BY <1>1
  <1>3. /\ OrgsGood(InOrg(v, org), InSeat(v, seatLog), v.then)'
        /\ OrgsGood(InOrg(w, InOrg(v, org)), InSeat(w, InSeat(v, seatLog)), w.then)'
    BY <1>1 DEF OrgsGood, OrgGood, RowsOf, InOrg, InSeat
  <1>4. OrgsGood(org, seatLog, taken)'
    <2>1. OrgsGood(org, seatLog, taken)
      BY DEF OrgInv
    <2>2. QED
      BY <1>1, <2>1 DEF OrgsGood, OrgGood, RowsOf
  <1>5. QED
    BY <1>1, <1>2, <1>3, <1>4 DEF OrgInv, RowGood

LEMMA OrgNoWrite ==
  ASSUME OrgInv, OrgCall(<<>>) PROVE OrgInv'
  BY DEF OrgInv, OrgCall, OrgsGood, OrgGood, RowsOf, RowGood

\* A write that replaces the ledger of x by the row r.
LEMMA OrgReplaced ==
  ASSUME NEW o, NEW s, NEW t, OrgsGood(o, s, t), NEW x \in LedgerOrgs, NEW r \in OrgRow, RowGood(r),
         NEW q \in Taken, q.rows = t.rows,
         \A y \in LedgerOrgs \ {x} : q.sessions[y] = t.sessions[y] /\ q.lost[y] = t.lost[y],
         r.consumed + q.lost[x] = q.sessions[x]
  PROVE  LET w == Put("org", x, r, q)
         IN  /\ w.file = "org" /\ w.then = q
             /\ InOrg(w, o) = [o EXCEPT ![x] = r] /\ InSeat(w, s) = s
             /\ OrgsGood(InOrg(w, o), InSeat(w, s), q)
  <1> DEFINE w == Put("org", x, r, q)
             m == [o EXCEPT ![x] = r]
  <1>1. w.file = "org" /\ w.then = q /\ InOrg(w, o) = m /\ InSeat(w, s) = s
    BY DEF Put, InOrg, InSeat
  <1>2. /\ o \in [LedgerOrgs -> OrgRow \cup {NoFile}]
        /\ s \in [Seats -> SeatLog \cup {NoFile}] /\ \A p \in Seats : t.rows[p] = RowsOf(s[p])
        /\ \A y \in LedgerOrgs : OrgGood(o[y], y, t)
    BY DEF OrgsGood
  <1>3. /\ m \in [LedgerOrgs -> OrgRow \cup {NoFile}] /\ m[x] = r /\ r # NoFile
        /\ \A y \in LedgerOrgs \ {x} : m[y] = o[y]
    BY <1>2, NoFileAssumption
  <1> HIDE DEF m
  <1>4. ASSUME NEW y \in LedgerOrgs PROVE OrgGood(m[y], y, q)
    <2>1. CASE y = x
      BY <1>3, <2>1 DEF OrgGood
    <2>2. CASE y # x
      BY <1>2, <1>3, <2>2 DEF OrgGood
    <2>3. QED
      BY <2>1, <2>2
  <1>5. OrgsGood(m, s, q)
    BY <1>2, <1>3, <1>4 DEF OrgsGood
  <1>6. QED
    BY <1>1, <1>5 DEF m

\* A write that replaces the log of p.
LEMMA SeatReplaced ==
  ASSUME NEW o, NEW s, NEW t, OrgsGood(o, s, t), NEW p \in Seats, NEW log \in SeatLog,
         NEW q \in Taken, q.sessions = t.sessions, q.lost = t.lost,
         \A y \in Seats \ {p} : q.rows[y] = t.rows[y], q.rows[p] = log.rows
  PROVE  LET w == Put("seat", p, log, q)
         IN  /\ w.file = "seat" /\ w.then = q
             /\ InOrg(w, o) = o
             /\ OrgsGood(InOrg(w, o), InSeat(w, s), q)
  <1> DEFINE w == Put("seat", p, log, q)
             m == [s EXCEPT ![p] = log]
  <1>1. w.file = "seat" /\ w.then = q /\ InOrg(w, o) = o /\ InSeat(w, s) = m
    BY DEF Put, InOrg, InSeat
  <1>2. /\ o \in [LedgerOrgs -> OrgRow \cup {NoFile}]
        /\ s \in [Seats -> SeatLog \cup {NoFile}] /\ \A y \in Seats : t.rows[y] = RowsOf(s[y])
        /\ \A x \in LedgerOrgs : OrgGood(o[x], x, q)
    BY DEF OrgsGood, OrgGood
  <1>3. /\ m \in [Seats -> SeatLog \cup {NoFile}] /\ m[p] = log /\ log # NoFile
        /\ \A y \in Seats \ {p} : m[y] = s[y]
    BY <1>2, NoFileAssumption
  <1> HIDE DEF m
  <1>4. ASSUME NEW y \in Seats PROVE q.rows[y] = RowsOf(m[y])
    BY <1>2, <1>3 DEF RowsOf
  <1>5. OrgsGood(o, m, q)
    BY <1>2, <1>3, <1>4 DEF OrgsGood
  <1>6. QED
    BY <1>1, <1>5

LEMMA OrgFacts ==
  ASSUME OrgInv
  PROVE  /\ OrgsGood(org, seatLog, taken) /\ taken \in Taken
         /\ \A x \in LedgerOrgs : org[x] \in OrgRow \cup {NoFile} /\ OrgGood(org[x], x, taken)
         /\ \A p \in Seats : seatLog[p] \in SeatLog \cup {NoFile} /\ taken.rows[p] = RowsOf(seatLog[p])
  BY DEF OrgInv, OrgsGood

LEMMA EnsureOrgStep ==
  ASSUME OrgInv, NEW o \in LedgerOrgs, EnsureOrgLedger(o)
  PROVE  OrgInv'
  <1> DEFINE w == Put("org", o, FreshOrg, taken)
  <1>1. CASE org[o] # NoFile
    BY <1>1, OrgNoWrite DEF EnsureOrgLedger
  <1>2. CASE org[o] = NoFile
    <2>1. OrgCall(<<w>>)
      BY <1>2 DEF EnsureOrgLedger
    <2>2. /\ FreshOrg.consumed + taken.lost[o] = taken.sessions[o]
          /\ taken \in Taken /\ OrgsGood(org, seatLog, taken)
      BY <1>2, FreshRowGood, OrgFacts DEF OrgGood, FreshOrg
    <2>3. w.file = "org" /\ OrgsGood(InOrg(w, org), InSeat(w, seatLog), w.then)
      <3> DEFINE f == FreshOrg
                 t == taken
      <3>1. /\ f \in OrgRow /\ RowGood(f) /\ f.consumed + t.lost[o] = t.sessions[o]
            /\ OrgsGood(org, seatLog, t) /\ t \in Taken
            /\ t.rows = t.rows
            /\ \A y \in LedgerOrgs \ {o} : t.sessions[y] = t.sessions[y] /\ t.lost[y] = t.lost[y]
        BY <2>2, FreshRowGood
      <3>2. w = Put("org", o, f, t)
        OBVIOUS
      <3> HIDE DEF f, t, w
      <3>3. QED
        BY <3>1, <3>2, OrgReplaced
    <2> HIDE DEF w
    <2>4. QED
      BY <2>1, <2>3, OrgOneWrite
  <1>3. QED
    BY <1>1, <1>2

LEMMA RegisterStep ==
  ASSUME OrgInv, NEW o \in LedgerOrgs, NEW p \in Seats, RegisterOperator(o, p)
  PROVE  OrgInv'
  <1> DEFINE new == [org[o] EXCEPT !.active[p] = 0]
             log == [org_token |-> o, rows |-> 0]
             v == Put("org", o, new, taken)
             w == Put("seat", p, log, taken)
             head == IF p \in Registered(o) THEN <<>> ELSE <<v>>
             tail == IF seatLog[p] = NoFile THEN <<w>> ELSE <<>>
  <1>1. /\ org[o] # NoFile /\ Cardinality(Registered(o)) < org[o].max_seats
        /\ OrgCall(head \o tail)
    BY DEF RegisterOperator, Provision
  <1>2. /\ OrgsGood(org, seatLog, taken) /\ taken \in Taken
        /\ org[o] \in OrgRow /\ RowGood(org[o])
        /\ org[o].consumed + taken.lost[o] = taken.sessions[o]
        /\ taken.rows[p] = RowsOf(seatLog[p])
    BY <1>1, OrgFacts DEF OrgGood
  <1>3. Registered(o) = SeatsOf(org[o])
    BY DEF Registered, SeatsOf
  <1>4. ASSUME p \notin Registered(o)
        PROVE  /\ v.file = "org" /\ v.then = taken /\ InSeat(v, seatLog) = seatLog
               /\ OrgsGood(InOrg(v, org), InSeat(v, seatLog), taken)
    <2>1. new \in OrgRow /\ RowGood(new) /\ new.consumed = org[o].consumed
      <3> DEFINE row == org[o]
      <3> HIDE DEF row
      <3>1. /\ row \in OrgRow /\ RowGood(row) /\ p \notin SeatsOf(row)
            /\ Cardinality(SeatsOf(row)) < row.max_seats
        BY <1>1, <1>2, <1>3, <1>4 DEF row
      <3>2. QED
        BY <3>1, SeatMore DEF row
    <2>2. new.consumed + taken.lost[o] = taken.sessions[o]
      BY <1>2, <2>1
    <2> HIDE DEF new
    <2>3. QED
      BY <1>2, <2>1, <2>2, OrgReplaced
  <1>5. ASSUME seatLog[p] = NoFile, NEW m, OrgsGood(m, seatLog, taken)
        PROVE  /\ w.file = "seat" /\ w.then = taken /\ InOrg(w, m) = m
               /\ OrgsGood(InOrg(w, m), InSeat(w, seatLog), taken)
    <2>1. log \in SeatLog /\ taken.rows[p] = log.rows
      BY <1>2, <1>5 DEF SeatLog, RowsOf
    <2> HIDE DEF log
    <2>2. QED
      BY <1>2, <1>5, <2>1, SeatReplaced
  <1> HIDE DEF v, w
  <1>6. CASE p \in Registered(o) /\ seatLog[p] # NoFile
    <2>1. OrgCall(<<>> \o <<>>)
      BY <1>1, <1>6
    <2>2. <<>> \o <<>> = <<>>
      BY ConcatEmptySeq, EmptySeq
    <2>3. QED
      BY <2>1, <2>2, OrgNoWrite
  <1>7. CASE p \in Registered(o) /\ seatLog[p] = NoFile
    <2>1. OrgCall(<<>> \o <<w>>)
      BY <1>1, <1>7
    <2>2. OrgCall(<<w>>)
      BY <2>1, OneAndNone
    <2>3. QED
      BY <1>2, <1>5, <1>7, <2>2, OrgOneWrite
  <1>8. CASE p \notin Registered(o) /\ seatLog[p] # NoFile
    <2>1. OrgCall(<<v>> \o <<>>)
      BY <1>1, <1>8
    <2>2. OrgCall(<<v>>)
      BY <2>1, OneAndNone
    <2>3. QED
      BY <1>4, <1>8, <2>2, OrgOneWrite
  <1>9. CASE p \notin Registered(o) /\ seatLog[p] = NoFile
    <2>1. OrgCall(<<v>> \o <<w>>)
      BY <1>1, <1>9
    <2>2. OrgCall(<<v, w>>)
      BY <2>1, OneAndOne
    <2> DEFINE m == InOrg(v, org)
    <2>3. v.file = "org" /\ OrgsGood(m, seatLog, taken) /\ InSeat(v, seatLog) = seatLog /\ v.then = taken
      BY <1>4, <1>9
    <2> HIDE DEF m
    <2>4. w.file = "seat" /\ w.then = taken /\ OrgsGood(InOrg(w, m), InSeat(w, seatLog), taken)
      BY <1>5, <1>9, <2>3
    <2>5. QED
      BY <2>2, <2>3, <2>4, OrgTwoWrites DEF m
  <1>10. QED
    BY <1>6, <1>7, <1>8, <1>9

LEMMA ConsumeStep ==
  ASSUME OrgInv, NEW o \in LedgerOrgs, NEW p \in Seats, ConsumeOrgSession(o, p)
  PROVE  OrgInv'
  <1> DEFINE row == org[o]
             new == [row EXCEPT !.consumed = @ + 1,
                                !.active[p] = IF @ = NoFile THEN NoFile ELSE @ + 1]
             q == [taken EXCEPT !.sessions[o] = @ + 1]
             w == Put("org", o, new, q)
  <1>1. row # NoFile /\ row.consumed < Allocated /\ OrgCall(<<w>>)
    BY DEF ConsumeOrgSession, SessionsLeft
  <1>2. /\ OrgsGood(org, seatLog, taken) /\ taken \in Taken
        /\ row \in OrgRow /\ RowGood(row)
        /\ row.consumed + taken.lost[o] = taken.sessions[o]
    <2>1. OrgGood(row, o, taken) /\ row \in OrgRow
      BY <1>1, OrgFacts
    <2>2. QED
      BY <1>1, <2>1, OrgFacts DEF OrgGood
  <1> HIDE DEF row
  <1>3. new \in OrgRow /\ RowGood(new) /\ new.consumed = row.consumed + 1
    BY <1>1, <1>2, SessionMore
  <1>4. /\ q \in Taken /\ q.rows = taken.rows /\ q.lost = taken.lost
        /\ q.sessions[o] = taken.sessions[o] + 1
        /\ \A y \in LedgerOrgs \ {o} : q.sessions[y] = taken.sessions[y]
    BY <1>2 DEF Taken
  <1>5. new.consumed + q.lost[o] = q.sessions[o]
    <2>1. {row.consumed, taken.lost[o], taken.sessions[o]} \subseteq Nat
      BY <1>2 DEF Taken, OrgRow
    <2>2. QED
      BY <1>2, <1>3, <1>4, <2>1
  <1> HIDE DEF new, q
  <1>6. w.file = "org" /\ OrgsGood(InOrg(w, org), InSeat(w, seatLog), w.then)
    BY <1>2, <1>3, <1>4, <1>5, OrgReplaced
  <1> HIDE DEF w
  <1>7. QED
    BY <1>1, <1>6, OrgOneWrite

\* What is written back was read before: it is good, and shows what is taken less what
\* has been taken since.
LEMMA WriteBackStep == ASSUME OrgInv, CopyInv, WriteOrgLedger PROVE OrgInv'
  <1> DEFINE o == copy.key
             q == [taken EXCEPT !.lost[o] = @ + taken.sessions[o] - copy.at]
             w == Put("org", o, copy.data, q)
  <1>1. /\ copy # NoFile /\ steps' = <<w>> /\ copy' = NoFile
        /\ org' = org /\ seatLog' = seatLog /\ taken' = taken
    BY DEF WriteOrgLedger
  <1>2. /\ OrgsGood(org, seatLog, taken) /\ taken \in Taken
        /\ o \in LedgerOrgs /\ copy.data \in OrgRow /\ RowGood(copy.data)
        /\ copy.data.consumed + taken.lost[o] = copy.at /\ copy.at <= taken.sessions[o]
        /\ {copy.data.consumed, copy.at, taken.lost[o], taken.sessions[o]} \subseteq Nat
    BY <1>1, OrgFacts DEF OrgInv, Copy, CopyInv, Shows, Taken, OrgRow
  <1>3. /\ q \in Taken /\ q.rows = taken.rows /\ q.sessions = taken.sessions
        /\ \A y \in LedgerOrgs \ {o} : q.lost[y] = taken.lost[y]
        /\ copy.data.consumed + q.lost[o] = q.sessions[o]
    <2>1. PICK n \in Nat : n = taken.lost[o] + taken.sessions[o] - copy.at
      BY <1>2
    <2>2. q = [taken EXCEPT !.lost = [taken.lost EXCEPT ![o] = n]]
      BY <1>2, <2>1 DEF Taken
    <2>3. [taken.lost EXCEPT ![o] = n] \in [LedgerOrgs -> Nat]
      BY <1>2, <2>1 DEF Taken
    <2>4. q \in Taken /\ q.rows = taken.rows /\ q.sessions = taken.sessions
          /\ q.lost = [taken.lost EXCEPT ![o] = n]
      BY <1>2, <2>2, <2>3 DEF Taken
    <2>5. q.lost[o] = n /\ \A y \in LedgerOrgs \ {o} : q.lost[y] = taken.lost[y]
      BY <1>2, <2>4 DEF Taken
    <2> HIDE DEF q, o
    <2>6. QED
      BY <1>2, <2>1, <2>4, <2>5
  <1> HIDE DEF q, o
  <1>4. w.file = "org" /\ OrgsGood(InOrg(w, org), InSeat(w, seatLog), w.then)
    BY <1>2, <1>3, OrgReplaced
  <1> HIDE DEF w
  <1>5. PICK z : z = w
    OBVIOUS
  <1>6. z.file = "org" /\ steps' = <<z>> /\ steps'[1] = z
    BY <1>1, <1>4, <1>5
  <1>7. OrgsGood(InOrg(z, org), InSeat(z, seatLog), z.then)'
    <2> DEFINE m == InOrg(z, org)
               b == InSeat(z, seatLog)
    <2>1. m' = m /\ b' = b
      BY <1>1 DEF InOrg, InSeat
    <2>2. OrgsGood(m, b, z.then)
      BY <1>4, <1>5
    <2> HIDE DEF m, b
    <2>3. OrgsGood(m, b, z.then)'
      BY <2>1, <2>2 DEF OrgsGood, OrgGood, RowsOf
    <2>4. QED
      BY <2>3 DEF m, b
  <1>8. OrgsGood(org, seatLog, taken)'
    BY <1>1, <1>2 DEF OrgsGood, OrgGood, RowsOf
  <1>9. QED
    BY <1>1, <1>6, <1>7, <1>8 DEF OrgInv

LEMMA ReadStep ==
  ASSUME OrgInv, NEW o \in LedgerOrgs, ReadForWriting(o)
  PROVE  OrgInv'
  <1>1. /\ steps = <<>> /\ steps' = <<>> /\ org[o] # NoFile /\ copy' = [key |-> o, data |-> org[o], at |-> taken.sessions[o]]
        /\ org' = org /\ seatLog' = seatLog /\ taken' = taken
    BY DEF ReadForWriting
  <1>2. OrgsGood(org, seatLog, taken) /\ org[o] \in OrgRow /\ RowGood(org[o])
    BY <1>1, OrgFacts DEF OrgGood
  <1>3. copy' \in Copy /\ copy'.data = org[o]
    BY <1>1, <1>2, OrgFacts DEF Copy, Taken
  <1>4. (copy \in Copy \cup {NoFile} /\ (copy # NoFile => RowGood(copy.data)))'
    BY <1>2, <1>3 DEF RowGood
  <1>5. OrgsGood(org, seatLog, taken)'
    BY <1>1, <1>2 DEF OrgsGood, OrgGood, RowsOf
  <1>6. QED
    BY <1>1, <1>4, <1>5 DEF OrgInv

LEMMA RowStep ==
  ASSUME OrgInv, NEW p \in Seats, AppendSeatRow(p)
  PROVE  OrgInv'
  <1> DEFINE log == IF seatLog[p] = NoFile THEN [org_token |-> NoFile, rows |-> 0] ELSE seatLog[p]
             new == [log EXCEPT !.rows = @ + 1]
             q == [taken EXCEPT !.rows[p] = @ + 1]
             w == Put("seat", p, new, q)
  <1>1. OrgCall(<<w>>)
    BY DEF AppendSeatRow
  <1>2. /\ OrgsGood(org, seatLog, taken) /\ taken \in Taken
        /\ seatLog[p] \in SeatLog \cup {NoFile} /\ taken.rows[p] = RowsOf(seatLog[p])
    BY OrgFacts
  <1>3. log \in SeatLog /\ log.rows = taken.rows[p]
    BY <1>2 DEF SeatLog, RowsOf
  <1> HIDE DEF log
  <1>4. new \in SeatLog /\ new.rows = taken.rows[p] + 1
    BY <1>3 DEF SeatLog
  <1>5. /\ q \in Taken /\ q.sessions = taken.sessions /\ q.lost = taken.lost
        /\ q.rows[p] = taken.rows[p] + 1 /\ \A y \in Seats \ {p} : q.rows[y] = taken.rows[y]
    BY <1>2 DEF Taken
  <1> HIDE DEF new, q
  <1>6. w.file = "seat" /\ OrgsGood(InOrg(w, org), InSeat(w, seatLog), w.then)
    BY <1>2, <1>4, <1>5, SeatReplaced
  <1> HIDE DEF w
  <1>7. QED
    BY <1>1, <1>6, OrgOneWrite

LEMMA PendingSteps ==
  ASSUME OrgInv, steps # <<>>
  PROVE  \/ \E w : /\ steps = <<w>> /\ w.file \in {"org", "seat"}
                   /\ OrgsGood(InOrg(w, org), InSeat(w, seatLog), w.then)
         \/ \E v, w : /\ steps = <<v, w>> /\ v.file \in {"org", "seat"} /\ w.file \in {"org", "seat"}
                      /\ OrgsGood(InOrg(v, org), InSeat(v, seatLog), v.then)
                      /\ OrgsGood(InOrg(w, InOrg(v, org)), InSeat(w, InSeat(v, seatLog)), w.then)
  BY Zenon DEF OrgInv

LEMMA PutStep == ASSUME OrgInv, PutFile PROVE OrgInv'
  <1>1. steps # <<>> /\ copy' = copy /\ copy \in Copy \cup {NoFile} /\ (copy # NoFile => RowGood(copy.data))
    BY DEF PutFile, OrgInv
  <1>2. (copy \in Copy \cup {NoFile} /\ (copy # NoFile => RowGood(copy.data)))'
    BY <1>1 DEF RowGood
  <1>3. ASSUME NEW w, steps = <<w>>, w.file \in {"org", "seat"},
               OrgsGood(InOrg(w, org), InSeat(w, seatLog), w.then)
        PROVE  OrgInv'
    <2>1. Head(steps) = w /\ Tail(steps) = <<>>
      BY <1>3, HeadsOfFew
    <2>2. /\ org' = InOrg(w, org) /\ seatLog' = InSeat(w, seatLog) /\ taken' = w.then
          /\ steps' = <<>>
      BY <2>1 DEF PutFile, InOrg, InSeat
    <2>3. OrgsGood(org, seatLog, taken)'
      BY <1>3, <2>2 DEF OrgsGood, OrgGood, RowsOf
    <2>4. QED
      BY <1>2, <2>2, <2>3 DEF OrgInv
  <1>4. ASSUME NEW v, NEW w, steps = <<v, w>>,
               v.file \in {"org", "seat"}, w.file \in {"org", "seat"},
               OrgsGood(InOrg(v, org), InSeat(v, seatLog), v.then),
               OrgsGood(InOrg(w, InOrg(v, org)), InSeat(w, InSeat(v, seatLog)), w.then)
        PROVE  OrgInv'
    <2> DEFINE o == InOrg(v, org)
               s == InSeat(v, seatLog)
               m == InOrg(w, o)
               b == InSeat(w, s)
    <2>1. Head(steps) = v /\ Tail(steps) = <<w>>
      BY <1>4, HeadsOfFew
    <2>2. /\ org' = o /\ seatLog' = s /\ taken' = v.then /\ steps' = <<w>>
      BY <2>1 DEF PutFile, InOrg, InSeat
    <2>3. steps'[1] = w /\ steps' = <<steps'[1]>>
      BY <2>2
    <2>4. OrgsGood(org, seatLog, taken)'
      <3>1. OrgsGood(o, s, v.then)
        BY <1>4
      <3> HIDE DEF o, s
      <3>2. QED
        BY <2>2, <3>1 DEF OrgsGood, OrgGood, RowsOf
    <2>5. OrgsGood(InOrg(w, org), InSeat(w, seatLog), w.then)'
      <3>1. OrgsGood(m, b, w.then)
        BY <1>4
      <3>2. InOrg(w, org)' = m /\ InSeat(w, seatLog)' = b
        BY <2>2 DEF InOrg, InSeat
      <3> HIDE DEF m, b
      <3>3. QED
        BY <3>1, <3>2 DEF OrgsGood, OrgGood, RowsOf
    <2> HIDE DEF o, s, m, b
    <2>6. QED
      BY <1>2, <1>4, <2>3, <2>4, <2>5 DEF OrgInv
  <1>5. QED
    BY <1>1, <1>3, <1>4, PendingSteps

LEMMA OrgDieStep == ASSUME OrgInv, OrgDie PROVE OrgInv'
  <1>1. OrgsGood(org, seatLog, taken)
    BY DEF OrgInv
  <1>2. OrgsGood(org, seatLog, taken)'
    BY <1>1 DEF OrgDie, OrgsGood, OrgGood, RowsOf
  <1>3. QED
    BY <1>2 DEF OrgInv, OrgDie

\* Every call takes only more, and loses nothing.
LEMMA CallKeepsCopy ==
  ASSUME OrgInv, CopyInv, NEW list, OrgCall(list),
         \A i \in DOMAIN list :
           /\ list[i].then.lost = taken.lost /\ list[i].then.sessions \in [LedgerOrgs -> Nat]
           /\ \A x \in LedgerOrgs : taken.sessions[x] <= list[i].then.sessions[x]
  PROVE  CopyInv'
  <1>1. copy' = copy /\ taken' = taken /\ steps' = list
    BY DEF OrgCall
  <1> SUFFICES ASSUME copy # NoFile
               PROVE  Shows(copy, taken) /\ \A i \in DOMAIN list : Shows(copy, list[i].then)
    BY <1>1 DEF CopyInv, Shows
  <1>2. /\ Shows(copy, taken) /\ copy.key \in LedgerOrgs /\ copy.at \in Nat
        /\ taken.sessions[copy.key] \in Nat
    BY OrgFacts DEF CopyInv, OrgInv, Copy, Taken
  <1>3. ASSUME NEW i \in DOMAIN list PROVE Shows(copy, list[i].then)
    <2>1. /\ list[i].then.lost = taken.lost /\ list[i].then.sessions[copy.key] \in Nat
          /\ taken.sessions[copy.key] <= list[i].then.sessions[copy.key]
      BY <1>2
    <2>2. QED
      BY <1>2, <2>1 DEF Shows
  <1>4. QED
    BY <1>2, <1>3

LEMMA CopyStep == ASSUME OrgInv, CopyInv, [OrgNext]_orgVars PROVE CopyInv'
  <1>1. taken \in Taken /\ \A x \in LedgerOrgs : taken.sessions[x] \in Nat
    BY OrgFacts DEF Taken
  <1>2. ASSUME NEW list, OrgCall(list), \A i \in DOMAIN list : list[i].then = taken PROVE CopyInv'
    <2>1. taken.sessions \in [LedgerOrgs -> Nat] /\ \A x \in LedgerOrgs : taken.sessions[x] <= taken.sessions[x]
      BY <1>1 DEF Taken
    <2>2. QED
      BY <1>2, <2>1, CallKeepsCopy
  <1>3. ASSUME NEW o \in LedgerOrgs, EnsureOrgLedger(o) PROVE CopyInv'
    BY <1>2, <1>3 DEF EnsureOrgLedger, Put
  <1>4. ASSUME NEW o \in LedgerOrgs, NEW p \in Seats, RegisterOperator(o, p) PROVE CopyInv'
    <2> DEFINE v == Put("org", o, [org[o] EXCEPT !.active[p] = 0], taken)
               w == Put("seat", p, [org_token |-> o, rows |-> 0], taken)
               W == {v, w}
               head == IF p \in Registered(o) THEN <<>> ELSE <<v>>
               tail == IF seatLog[p] = NoFile THEN <<w>> ELSE <<>>
               list == head \o tail
    <2>2. OrgCall(list)
      BY <1>4 DEF RegisterOperator, Provision
    <2>3. \A x \in W : x.then = taken
      BY DEF Put
    <2> HIDE DEF v, w
    <2>0. <<>> \in Seq(W) /\ <<v>> \in Seq(W) /\ <<w>> \in Seq(W)
      OBVIOUS
    <2>1. head \in Seq(W) /\ tail \in Seq(W)
      <3> HIDE DEF W
      <3>1. QED
        BY <2>0
    <2> HIDE DEF W, head, tail
    <2>4. list \in Seq(W)
      BY <2>1, ConcatProperties
    <2> HIDE DEF list
    <2>5. \A i \in DOMAIN list : list[i] \in W
      BY <2>4
    <2>6. QED
      BY <1>2, <2>2, <2>3, <2>5
  <1>5. ASSUME NEW o \in LedgerOrgs, NEW p \in Seats, ConsumeOrgSession(o, p) PROVE CopyInv'
    <2> DEFINE q == [taken EXCEPT !.sessions[o] = @ + 1]
    <2>1. PICK row : OrgCall(<<Put("org", o, row, q)>>)
      BY <1>5 DEF ConsumeOrgSession
    <2>2. /\ q.lost = taken.lost /\ q.sessions \in [LedgerOrgs -> Nat]
          /\ \A x \in LedgerOrgs : taken.sessions[x] <= q.sessions[x]
      BY <1>1 DEF Taken
    <2> HIDE DEF q
    <2> DEFINE list == <<Put("org", o, row, q)>>
    <2>3. \A i \in DOMAIN list : list[i].then = q
      BY DEF Put
    <2> HIDE DEF list
    <2>4. OrgCall(list)
      BY <2>1 DEF list
    <2>5. QED
      BY <2>2, <2>3, <2>4, CallKeepsCopy
  <1>6. ASSUME NEW p \in Seats, AppendSeatRow(p) PROVE CopyInv'
    <2> DEFINE q == [taken EXCEPT !.rows[p] = @ + 1]
    <2>1. PICK log : OrgCall(<<Put("seat", p, log, q)>>)
      BY <1>6 DEF AppendSeatRow
    <2>2. /\ q.lost = taken.lost /\ q.sessions \in [LedgerOrgs -> Nat]
          /\ \A x \in LedgerOrgs : taken.sessions[x] <= q.sessions[x]
      BY <1>1 DEF Taken
    <2> HIDE DEF q
    <2> DEFINE list == <<Put("seat", p, log, q)>>
    <2>3. \A i \in DOMAIN list : list[i].then = q
      BY DEF Put
    <2> HIDE DEF list
    <2>4. OrgCall(list)
      BY <2>1 DEF list
    <2>5. QED
      BY <2>2, <2>3, <2>4, CallKeepsCopy
  <1>7. ASSUME NEW o \in LedgerOrgs, ReadForWriting(o) PROVE CopyInv'
    <2>1. /\ steps' = <<>> /\ taken' = taken /\ org[o] # NoFile
          /\ copy' = [key |-> o, data |-> org[o], at |-> taken.sessions[o]]
      BY <1>7 DEF ReadForWriting
    <2>2. org[o].consumed + taken.lost[o] = taken.sessions[o]
      BY <2>1, OrgFacts DEF OrgGood
    <2>3. QED
      BY <1>1, <2>1, <2>2 DEF CopyInv, Shows
  <1>8. CASE WriteOrgLedger
    BY <1>8 DEF WriteOrgLedger, CopyInv
  <1>9. CASE PutFile
    <2>1. steps # <<>> /\ copy' = copy /\ taken' = Head(steps).then /\ steps' = Tail(steps)
      BY <1>9 DEF PutFile
    <2>2. CASE copy = NoFile
      BY <2>1, <2>2 DEF CopyInv
    <2>3. ASSUME NEW w, steps = <<w>>, copy # NoFile PROVE CopyInv'
      <3>1. taken' = w.then /\ steps' = <<>>
        BY <2>1, <2>3, HeadsOfFew
      <3>2. Shows(copy, w.then)
        BY <2>3 DEF CopyInv
      <3>3. QED
        BY <2>1, <3>1, <3>2 DEF CopyInv, Shows
    <2>4. ASSUME NEW v, NEW w, steps = <<v, w>>, copy # NoFile PROVE CopyInv'
      <3>1. taken' = v.then /\ steps' = <<w>>
        BY <2>1, <2>4, HeadsOfFew
      <3>2. Shows(copy, v.then) /\ Shows(copy, w.then)
        BY <2>4 DEF CopyInv
      <3>3. \A i \in DOMAIN steps' : steps'[i] = w
        BY <3>1
      <3>4. QED
        BY <2>1, <3>1, <3>2, <3>3 DEF CopyInv, Shows
    <2>5. QED
      BY <2>1, <2>2, <2>3, <2>4, PendingSteps
  <1>10. CASE OrgDie
    BY <1>10 DEF OrgDie, CopyInv
  <1>11. CASE UNCHANGED orgVars
    BY <1>11 DEF orgVars, CopyInv, Shows
  <1>12. QED
    BY <1>3, <1>4, <1>5, <1>6, <1>7, <1>8, <1>9, <1>10, <1>11 DEF OrgNext

LEMMA OrgStart == OrgInit => OrgInv /\ CopyInv
  <1> SUFFICES ASSUME OrgInit PROVE OrgInv /\ CopyInv
    OBVIOUS
  <1>1. /\ org \in [LedgerOrgs -> OrgRow \cup {NoFile}]
        /\ seatLog \in [Seats -> SeatLog \cup {NoFile}]
        /\ taken \in Taken /\ copy = NoFile /\ steps = <<>>
    BY DEF OrgInit, Taken
  <1>2. \A x \in LedgerOrgs : OrgGood(org[x], x, taken)
    BY DEF OrgInit, OrgGood
  <1>3. \A p \in Seats : taken.rows[p] = RowsOf(seatLog[p])
    BY DEF OrgInit, RowsOf
  <1>4. QED
    BY <1>1, <1>2, <1>3 DEF OrgInv, OrgsGood, CopyInv

LEMMA OrgStep == OrgInv /\ CopyInv /\ [OrgNext]_orgVars => OrgInv' /\ CopyInv'
  <1> SUFFICES ASSUME OrgInv, CopyInv, [OrgNext]_orgVars PROVE OrgInv'
    BY CopyStep
  <1>1. ASSUME NEW o \in LedgerOrgs, EnsureOrgLedger(o) PROVE OrgInv'
    BY <1>1, EnsureOrgStep
  <1>2. ASSUME NEW o \in LedgerOrgs, ReadForWriting(o) PROVE OrgInv'
    BY <1>2, ReadStep
  <1>3. ASSUME NEW o \in LedgerOrgs, NEW p \in Seats, RegisterOperator(o, p) PROVE OrgInv'
    BY <1>3, RegisterStep
  <1>4. ASSUME NEW o \in LedgerOrgs, NEW p \in Seats, ConsumeOrgSession(o, p) PROVE OrgInv'
    BY <1>4, ConsumeStep
  <1>5. CASE WriteOrgLedger
    BY <1>5, WriteBackStep
  <1>6. ASSUME NEW p \in Seats, AppendSeatRow(p) PROVE OrgInv'
    BY <1>6, RowStep
  <1>7. CASE PutFile
    BY <1>7, PutStep
  <1>8. CASE OrgDie
    BY <1>8, OrgDieStep
  <1>9. CASE UNCHANGED orgVars
    <2>1. /\ org' = org /\ seatLog' = seatLog /\ taken' = taken
          /\ copy' = copy /\ steps' = steps
      BY <1>9 DEF orgVars
    <2>2. QED
      BY <2>1 DEF OrgInv
  <1>10. QED
    BY <1>1, <1>2, <1>3, <1>4, <1>5, <1>6, <1>7, <1>8, <1>9 DEF OrgNext

LEMMA OrgInvTypes == OrgInv => OrgTypeOK
  <1> SUFFICES ASSUME OrgInv PROVE OrgTypeOK
    OBVIOUS
  <1>1. \A i \in DOMAIN steps : steps[i].file \in {"org", "seat"}
    <2>1. CASE steps = <<>>
      BY <2>1
    <2>2. CASE steps = <<steps[1]>> /\ steps[1].file \in {"org", "seat"}
      <3>1. DOMAIN steps = {1}
        BY <2>2
      <3>2. QED
        BY <2>2, <3>1
    <2>3. CASE /\ steps = <<steps[1], steps[2]>>
               /\ steps[1].file \in {"org", "seat"} /\ steps[2].file \in {"org", "seat"}
      <3>1. DOMAIN steps = {1, 2}
        BY <2>3
      <3>2. QED
        BY <2>3, <3>1
    <2>4. QED
      BY <2>1, <2>2, <2>3 DEF OrgInv
  <1>2. QED
    BY <1>1 DEF OrgInv, OrgsGood, OrgTypeOK

\* No ledger shows more seats and sessions than the organisation bought, its seats no
\* more than it, and it shows all that were taken but those taken between the reading
\* and the writing of somebody who writes it back from outside.
THEOREM OrgLedgersAddUp == OrgSpec => []OrgAddsUp
  <1>1. OrgInv => OrgAddsUp
    <2> SUFFICES ASSUME OrgInv PROVE OrgAddsUp
      OBVIOUS
    <2>1. ASSUME NEW o \in LedgerOrgs, org[o] # NoFile
          PROVE  /\ Cardinality(Registered(o)) <= org[o].max_seats
                 /\ SumFunctionOnSet(org[o].active, Registered(o)) <= org[o].consumed
                 /\ org[o].consumed <= Allocated
                 /\ org[o].consumed + taken.lost[o] = taken.sessions[o]
      <3>1. Registered(o) = SeatsOf(org[o])
        BY DEF Registered, SeatsOf
      <3>2. QED
        BY <2>1, <3>1, OrgFacts DEF OrgGood, RowGood
    <2>2. \A p \in Seats : taken.rows[p] = IF seatLog[p] = NoFile THEN 0 ELSE seatLog[p].rows
      BY OrgFacts DEF RowsOf
    <2>3. QED
      BY <2>1, <2>2 DEF OrgAddsUp
  <1>2. QED
    BY <1>1, OrgStart, OrgStep, PTL DEF OrgSpec

-----------------------------------------------------------------------------
(* The stores side by side *)

StoresInv == IInv /\ LedgerInv /\ OrgInv /\ CopyInv

LEMMA StoresStart == StoresInit => StoresInv
  BY InvInit, LedgerStart, OrgStart DEF StoresInit, StoresInv

LEMMA StoresStep == StoresInv /\ [StoresNext]_allVars => StoresInv'
  <1> SUFFICES ASSUME StoresInv, [StoresNext]_allVars PROVE StoresInv'
    OBVIOUS
  <1>1. [Next]_vars /\ [LedgerNext]_ledgerVars /\ [OrgNext]_orgVars
    BY DEF StoresNext, allVars
  <1>2. QED
    BY <1>1, InvStep, LedgerStep, OrgStep DEF StoresInv

\* No step of a handler, no write and no death puts into a store what is not of its
\* type: accounts and links, the ledgers of users, of organisations and their seats.
THEOREM StoresKeepTheirTypes == StoresSpec => []StoresTypeOK
  <1>1. StoresInv => StoresTypeOK
    BY LedgerInvTypes, OrgInvTypes DEF StoresInv, StoresTypeOK, IInv
  <1>2. QED
    BY <1>1, StoresStart, StoresStep, PTL DEF StoresSpec
=============================================================================
