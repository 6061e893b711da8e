------------------------------- MODULE Accounts -------------------------------
(***************************************************************************)
(* Accounts, password resets and OAuth sign-in over four JSON files.  A    *)
(* handler reads the files it needs, works out what it will write, and     *)
(* writes file after file; it does not await, so no other handler comes in *)
(* between.  _save_json writes in place: when the process dies, the writes *)
(* still to do are lost and the file being written may be left torn, and   *)
(* every handler that reads a torn file fails from then on.                *)
(***************************************************************************)
EXTENDS Integers, Sequences, FiniteSets

CONSTANTS
  Emails,     \* lower-cased addresses
  Subjects,   \* ids the providers give to their accounts
  Tokens,     \* reset tokens, each drawn once
  States,     \* OAuth states, each drawn once
  MayCrash,   \* BOOLEAN: whether the process may die
  Nobody,     \* no address, no subject, not issued
  Login       \* what a state of mode "login" has for an owner

Providers == {"github", "google"}

ASSUME AccountsAssumption ==
  /\ Nobody \notin Emails \cup Subjects \cup Tokens \cup {"signup", "empty"}
  /\ Login \notin Emails /\ Login # Nobody
  /\ MayCrash \in BOOLEAN

VARIABLES
  users,    \* address |-> where its password comes from, Nobody without account
  resets,   \* reset tokens: the address of each, and those used
  states,   \* OAuth states: the owner of each, and those used
  links,    \* provider accounts linked to addresses, in both directions
  expired,  \* tokens and states whose time is over
  todo,     \* the writes the running handler still has to do
  torn      \* the files a crash left unreadable

vars == <<users, resets, states, links, expired, todo, torn>>

\* create_oauth_user stores the empty hash no password matches.
Passwordless == "empty"

\* A password is told apart by what set it: signup or a reset token.
Passwords == Tokens \cup {"signup", "empty"}

Users == [Emails -> Passwords \cup {Nobody}]
Resets == [owner: [Tokens -> Emails \cup {Nobody}], used: SUBSET Tokens]
StateRows == [owner: [States -> Emails \cup {Login, Nobody}], used: SUBSET States]
Links == [byId: [Providers \X Subjects -> Emails \cup {Nobody}],
          byEmail: [Providers \X Emails -> Subjects \cup {Nobody}]]

Files == {"users", "resets", "states", "links"}
Saved(file, content) == <<[file |-> file, data |-> content]>>

Init ==
  /\ users = [e \in Emails |-> Nobody]
  /\ resets = [owner |-> [t \in Tokens |-> Nobody], used |-> {}]
  /\ states = [owner |-> [s \in States |-> Nobody], used |-> {}]
  /\ links = [byId |-> [x \in Providers \X Subjects |-> Nobody],
              byEmail |-> [x \in Providers \X Emails |-> Nobody]]
  /\ expired = {}
  /\ todo = <<>>
  /\ torn = {}

\* A handler starts when none is running, with the files it can read.
Handler(reads, writes) ==
  /\ todo = <<>>
  /\ reads \cap torn = {}
  /\ todo' = writes
  /\ UNCHANGED <<users, resets, states, links, expired, torn>>

-----------------------------------------------------------------------------
SignUp(e) ==
  /\ users[e] = Nobody
  /\ Handler({"users"}, Saved("users", [users EXCEPT ![e] = "signup"]))

RequestReset(t, e) ==
  /\ users[e] # Nobody
  /\ resets.owner[t] = Nobody
  /\ Handler({"users", "resets"}, Saved("resets", [resets EXCEPT !.owner[t] = e]))

\* Tokens that are unknown, used or expired are refused.
ConfirmReset(t) ==
  LET e == resets.owner[t]
  IN  /\ e # Nobody
      /\ t \notin resets.used \cup expired
      /\ users[e] # Nobody
      /\ Handler({"users", "resets"},
                 Saved("users", [users EXCEPT ![e] = t])
                   \o Saved("resets", [resets EXCEPT !.used = @ \cup {t}]))

\* A state to link an account needs the owner's access token, which is checked
\* by its signature only.
StartOAuth(s, owner) ==
  /\ owner \in {Login} \cup {e \in Emails : users[e] # Nobody}
  /\ states.owner[s] = Nobody
  /\ Handler({"states"}, Saved("states", [states EXCEPT !.owner[s] = owner]))

-----------------------------------------------------------------------------
(* The callbacks.  Both providers consume the state first, whatever follows. *)

Acceptable(s) == states.owner[s] # Nobody /\ s \notin states.used \cup expired

\* Regression: the values of the two directions are swapped.
LinkSwapped(p, id, e) ==
  Saved("links", [links EXCEPT !.byId[<<p, id>>] = id, !.byEmail[<<p, e>>] = e])
Link(p, id, e) ==
  Saved("links", [links EXCEPT !.byId[<<p, id>>] = e, !.byEmail[<<p, e>>] = id])

\* Regression: the state is marked used when all is done.
SpendLast(s, writes) == writes \o Saved("states", [states EXCEPT !.used = @ \cup {s}])
SpendFirst(s, writes) == Saved("states", [states EXCEPT !.used = @ \cup {s}]) \o writes

\* Regression: a link takes the provider account over from its owner.
TakesOver(p, id, owner) == users[owner] # Nobody
MayLink(p, id, owner) == users[owner] # Nobody /\ links.byId[<<p, id>>] \in {Nobody, owner}

\* Mode "link": a provider account of another owner is refused with 409.
LinkCallback(p, s, id) ==
  LET owner == states.owner[s]
  IN  /\ Acceptable(s)
      /\ owner # Login
      /\ \/ /\ MayLink(p, id, owner)
            /\ Handler({"states", "links", "users"}, SpendFirst(s, Link(p, id, owner)))
         \/ /\ ~MayLink(p, id, owner) \/ {"links", "users"} \cap torn # {}
            /\ Handler({"states"}, SpendFirst(s, <<>>))

\* Regression: the link is saved before the account it names.
LinkFirst(account, link) == link \o account
AccountFirst(account, link) == account \o link

\* Google knows a verified address: a first sign-in links it to the account of
\* that address, which is made when there is none.
FirstSignIn(id, e) ==
  AccountFirst(IF users[e] = Nobody THEN Saved("users", [users EXCEPT ![e] = Passwordless]) ELSE <<>>,
               Link("google", id, e))

\* Mode "login": a linked provider account signs its owner in, which writes
\* nothing; one that is not linked is refused by GitHub and linked by Google.
LoginCallback(p, s, id, e) ==
  /\ Acceptable(s)
  /\ states.owner[s] = Login
  /\ \/ /\ p = "google" /\ links.byId[<<p, id>>] = Nobody
        /\ Handler({"states", "links", "users"}, SpendFirst(s, FirstSignIn(id, e)))
     \/ /\ p = "github" \/ links.byId[<<p, id>>] # Nobody \/ {"links", "users"} \cap torn # {}
        /\ Handler({"states"}, SpendFirst(s, <<>>))

-----------------------------------------------------------------------------
\* The next write of the running handler.
Write ==
  /\ todo # <<>>
  /\ LET w == Head(todo)
     IN  /\ users' = IF w.file = "users" THEN w.data ELSE users
         /\ resets' = IF w.file = "resets" THEN w.data ELSE resets
         /\ states' = IF w.file = "states" THEN w.data ELSE states
         /\ links' = IF w.file = "links" THEN w.data ELSE links
  /\ todo' = Tail(todo)
  /\ UNCHANGED <<expired, torn>>

Expire(x) ==
  /\ x \notin expired
  /\ expired' = expired \cup {x}
  /\ UNCHANGED <<users, resets, states, links, todo, torn>>

\* The process dies, perhaps in the middle of the next write.  Between handlers
\* it has nothing to lose.
Crash ==
  /\ MayCrash
  /\ todo # <<>>
  /\ todo' = <<>>
  /\ torn' \in {torn, torn \cup {Head(todo).file}}
  /\ UNCHANGED <<users, resets, states, links, expired>>

Next ==
  \/ \E e \in Emails :
       \/ SignUp(e)
       \/ \E t \in Tokens : RequestReset(t, e)
  \/ \E t \in Tokens : ConfirmReset(t)
  \/ \E s \in States, owner \in Emails \cup {Login} : StartOAuth(s, owner)
  \/ \E p \in Providers, s \in States, id \in Subjects :
       \/ LinkCallback(p, s, id)
       \/ \E e \in Emails : LoginCallback(p, s, id, e)
  \/ \E x \in Tokens \cup States : Expire(x)
  \/ Write \/ Crash

Spec == Init /\ [][Next]_vars

-----------------------------------------------------------------------------
(* Properties *)

Data == [users |-> Users, resets |-> Resets, states |-> StateRows, links |-> Links]

TypeOK ==
  /\ users \in Users /\ resets \in Resets /\ states \in StateRows /\ links \in Links
  /\ expired \subseteq Tokens \cup States
  /\ \A i \in DOMAIN todo : todo[i].file \in Files /\ todo[i].data \in Data[todo[i].file]
  /\ torn \subseteq Files

\* The two directions of a link agree: what an address is linked to is linked to
\* that address, after links, repeated first sign-ins and crashes.
LinksAgree ==
  \A p \in Providers, e \in Emails :
    LET id == links.byEmail[<<p, e>>]
    IN  id # Nobody => links.byId[<<p, id>>] = e

\* A link never names an account that does not exist, although account and link
\* are two files and the process may die between the two writes.
LinkedAccountsExist ==
  \A p \in Providers, id \in Subjects :
    links.byId[<<p, id>>] # Nobody => users[links.byId[<<p, id>>]] # Nobody

\* A provider account once linked stays with its owner.
OwnersKept ==
  [][\A x \in Providers \X Subjects :
       links.byId[x] # Nobody => links'.byId[x] = links.byId[x]]_vars

\* Every link has used up an OAuth state of its own: a callback sent twice, or
\* again after a crash, never links a second provider account with one state.
OneLinkPerState ==
  Cardinality({x \in Providers \X Subjects : links.byId[x] # Nobody}) <= Cardinality(states.used)

\* "Reset tokens enforce ... one-time use": between handlers, the token that set
\* the password of an account is used up.
ResetTokenSpent ==
  todo = <<>> => \A e \in Emails : users[e] \in Tokens => users[e] \in resets.used
=============================================================================
