------------------------------ MODULE Accounts ------------------------------
(***************************************************************************)
(* Accounts and how one signs in to them: registration and sign-in with an *)
(* e-mail address and a password, sign-in with Google, which creates the   *)
(* account, links Google to one that has the address, or brings its        *)
(* profile up to date, and what the user does to the profile and the       *)
(* account afterwards.                                                     *)
(*                                                                         *)
(* Each step is one awaited call with the code up to the next.  Addresses  *)
(* are compared in lower case and never change in an account, so an        *)
(* account is known by its address; the index on email is what keeps       *)
(* another from being created.  The names and the avatar are one name.     *)
(***************************************************************************)
CONSTANTS
    Slot,       \* slots for requests
    Email,
    Sub,        \* identities of Google
    Name,
    NoEmail,    \* Google vouches for no address
    NoSub,
    NoName,
    NoAccount

Row == [provider : {"EMAIL", "GOOGLE"}, sub : Sub \cup {NoSub}, password : BOOLEAN,
        name : Name \cup {NoName}, deleted : BOOLEAN]

ASSUME NamesAssumption == /\ NoEmail \notin Email /\ NoSub \notin Sub /\ NoName \notin Name
                          /\ NoAccount \notin Row

VARIABLES
    accounts,   \* the row of each address
    addresses,  \* the address that Google vouches for, of each identity
    step,       \* the call a request issues next
    request,    \* what it asks for
    account,    \* the account it has found
    read,       \* the row it has read
    moved,      \* history: addresses that an identity has left or taken over
    underWay,   \* history: requests that had found an account when it was deactivated
    stale       \* history: requests whose account got another name since they read it

asking == <<step, request, account, read>>
accountHistory == <<moved, underWay, stale>>
accountVars == <<accounts, addresses, asking, accountHistory>>

Kind == {"none", "register", "login", "google", "edit", "delete"}
Step == {"idle", "register.find", "login.find", "verify", "google.find", "user.find",
         "create", "update", "write", "tokens"}
Asking == [kind : Kind, email : Email \cup {NoEmail}, sub : Sub \cup {NoSub},
            name : Name \cup {NoName}]
NoAsking == [kind |-> "none", email |-> NoEmail, sub |-> NoSub, name |-> NoName]

Distinct(a) == \A g, k \in Sub : a[g] = a[k] => g = k \/ a[g] = NoEmail

AccountsInit ==
    /\ accounts = [e \in Email |-> NoAccount]
    /\ addresses \in {a \in [Sub -> Email \cup {NoEmail}] : Distinct(a)}
    /\ step = [h \in Slot |-> "idle"]
    /\ request = [h \in Slot |-> NoAsking]
    /\ account = [h \in Slot |-> NoEmail]
    /\ read = [h \in Slot |-> NoAccount]
    /\ moved = {}
    /\ underWay = {}
    /\ stale = {}

-----------------------------------------------------------------------------
Proceed(h, label) == step' = [step EXCEPT ![h] = label]

Ask(h, kind, e, g, n, label) ==
    /\ step[h] = "idle"
    /\ Proceed(h, label)
    /\ request' = [request EXCEPT ![h] = [kind |-> kind, email |-> e, sub |-> g, name |-> n]]
    /\ UNCHANGED <<accounts, addresses, account, read, accountHistory>>

\* The answer, or the error: the requests in catches were under way, those in
\* stales have read a name that is no more.
FinishWith(h, catches, stales) ==
    /\ Proceed(h, "idle")
    /\ request' = [request EXCEPT ![h] = NoAsking]
    /\ account' = [account EXCEPT ![h] = NoEmail]
    /\ read' = [read EXCEPT ![h] = NoAccount]
    /\ underWay' = (underWay \cup catches) \ {h}
    /\ stale' = (stale \cup stales) \ {h}

Finish(h) == FinishWith(h, {}, {})

GoOn(h, label) == Proceed(h, label) /\ UNCHANGED <<request, account, read, underWay, stale>>

Exists(e) == accounts[e] # NoAccount

Found(h, e, label) == /\ Proceed(h, label)
                      /\ account' = [account EXCEPT ![h] = e]
                      /\ UNCHANGED <<request, underWay, stale>>

\* Others that go on with what they have read of this account.
Readers(h, e) == {k \in Slot \ {h} : account[k] = e /\ step[k] = "update"}

-----------------------------------------------------------------------------
(* register and login                                                      *)

Register(h, e, n) ==
    Ask(h, "register", e, NoSub, n, "register.find")

FindForRegister(h) ==
    /\ step[h] = "register.find"
    /\ IF Exists(request[h].email) THEN Finish(h) ELSE GoOn(h, "create")
    /\ UNCHANGED <<accounts, addresses, moved>>

NewRow(ask) == [provider |-> IF ask.kind = "google" THEN "GOOGLE" ELSE "EMAIL",
                sub |-> ask.sub, password |-> ask.kind = "register",
                name |-> ask.name, deleted |-> FALSE]

\* After the password was hashed, or from googleLogin; an account created
\* meanwhile is an error of the index on email, which nothing catches.
CreateAccount(h) ==
    /\ step[h] = "create"
    /\ LET e == request[h].email
       IN  \/ /\ ~Exists(e)
              /\ accounts' = [accounts EXCEPT ![e] = NewRow(request[h])]
              /\ Proceed(h, "tokens")
              /\ account' = [account EXCEPT ![h] = e]
              /\ UNCHANGED <<request, read, underWay, stale>>
           \/ Exists(e) /\ Finish(h) /\ UNCHANGED accounts
    /\ UNCHANGED <<addresses, moved>>

LoginRequest(h, e) ==
    Ask(h, "login", e, NoSub, NoName, "login.find")

MaySignIn(row) == ~row.deleted

\* The password is right or wrong.
FindForLogin(h) ==
    /\ step[h] = "login.find"
    /\ LET e == request[h].email
       IN  \/ /\ Exists(e)
              /\ accounts[e].password
              /\ MaySignIn(accounts[e])
              /\ Found(h, e, "tokens")
              /\ UNCHANGED read
           \/ Finish(h)
    /\ UNCHANGED <<accounts, addresses, moved>>

-----------------------------------------------------------------------------
(* googleLogin                                                             *)

GoogleLogin(h, g, n) ==
    Ask(h, "google", NoEmail, g, n, "verify")

\* verifyAccessToken: Google names the identity and a verified address.
VerifyAccessToken(h) ==
    /\ step[h] = "verify"
    /\ LET e == addresses[request[h].sub]
       IN  IF e = NoEmail THEN Finish(h)
           ELSE /\ Proceed(h, "google.find")
                /\ request' = [request EXCEPT ![h].email = e]
                /\ UNCHANGED <<account, read, underWay, stale>>
    /\ UNCHANGED <<accounts, addresses, moved>>

FoundAndRead(h, e) == Found(h, e, "update") /\ read' = [read EXCEPT ![h] = accounts[e]]

\* By the identity or by the address: where both find an account, which one is
\* read is the database's choice.
Candidates(ask) == {e \in Email :
    /\ Exists(e)
    /\ \/ accounts[e].provider = "GOOGLE" /\ accounts[e].sub = ask.sub
       \/ e = ask.email}

\* Mutant: a deactivated account is updated and signed in to.
FindByGoogleAny(h) ==
    /\ step[h] = "google.find"
    /\ \/ Candidates(request[h]) = {} /\ GoOn(h, "create")
       \/ \E e \in Candidates(request[h]) : FoundAndRead(h, e)
    /\ UNCHANGED <<accounts, addresses, moved>>

FindByGoogle(h) ==
    /\ step[h] = "google.find"
    /\ \/ Candidates(request[h]) = {} /\ GoOn(h, "create")
       \/ \E e \in Candidates(request[h]) :
              IF MaySignIn(accounts[e]) THEN FoundAndRead(h, e) ELSE Finish(h)
    /\ UNCHANGED <<accounts, addresses, moved>>

\* Mutant: the name that Google leaves out is cleared.
NameOfGoogleOnly(ask, was) == ask.name

\* What Google leaves out is written back as it was read.
NameOfGoogle(ask, was) == IF ask.name = NoName THEN was.name ELSE ask.name

\* Mutant: the account becomes Google's and does not say whose.
LinkAnonymous(row, ask, was) ==
    IF was.provider = "GOOGLE" THEN row ELSE [row EXCEPT !.provider = "GOOGLE"]

\* Which provider it has was read before.
Link(row, ask, was) ==
    IF was.provider = "GOOGLE" THEN row
    ELSE [row EXCEPT !.provider = "GOOGLE", !.sub = ask.sub]

UpdateFromGoogle(h) ==
    /\ step[h] = "update"
    /\ LET e == account[h]
           name == NameOfGoogle(request[h], read[h])
       IN  /\ accounts' = [accounts EXCEPT
                  ![e] = [Link(@, request[h], read[h]) EXCEPT !.name = name]]
           /\ stale' = stale \cup (IF name = accounts[e].name THEN {} ELSE Readers(h, e))
    /\ Proceed(h, "tokens")
    /\ read' = [read EXCEPT ![h] = NoAccount]
    /\ UNCHANGED <<addresses, request, account, moved, underWay>>

\* generateTokens, and the answer.
HandOutTokens(h) == /\ step[h] = "tokens"
                    /\ Finish(h)
                    /\ UNCHANGED <<accounts, addresses, moved>>

-----------------------------------------------------------------------------
(* The profile                                                             *)

\* An edit can clear the name with a null; one that leaves it out writes none.
EditProfile(h, e, n) ==
    /\ Exists(e)
    /\ Ask(h, "edit", e, NoSub, n, "user.find")

DeleteAccount(h, e) ==
    /\ Exists(e)
    /\ Ask(h, "delete", e, NoSub, NoName, "user.find")

FindUser(h) ==
    /\ step[h] = "user.find"
    /\ LET e == request[h].email
       IN  IF accounts[e].deleted THEN Finish(h) ELSE Found(h, e, "write") /\ UNCHANGED read
    /\ UNCHANGED <<accounts, addresses, moved>>

WriteProfile(h) ==
    /\ step[h] = "write" /\ request[h].kind = "edit"
    /\ LET e == account[h]
       IN  /\ accounts' = [accounts EXCEPT ![e].name = request[h].name]
           /\ FinishWith(h, {}, IF request[h].name = accounts[e].name THEN {}
                                ELSE Readers(h, e))
    /\ UNCHANGED <<addresses, moved>>

WriteDeleted(h) ==
    /\ step[h] = "write" /\ request[h].kind = "delete"
    /\ accounts' = [accounts EXCEPT ![account[h]].deleted = TRUE]
    /\ FinishWith(h, {k \in Slot : account[k] = account[h]}, {})
    /\ UNCHANGED <<addresses, moved>>

-----------------------------------------------------------------------------
\* A call throws, or the process stops.
FailRequest(h) == /\ step[h] # "idle"
                  /\ Finish(h)
                  /\ UNCHANGED <<accounts, addresses, moved>>

\* At Google: an identity gets another address, or loses it.  Bound: none moves
\* any more once every address has.
MoveAddress(g, e) ==
    /\ moved # Email
    /\ addresses[g] # e
    /\ addresses' = [addresses EXCEPT ![g] = e]
    /\ Distinct(addresses')
    /\ moved' = moved \cup ({addresses[g], e} \ {NoEmail})
    /\ UNCHANGED <<accounts, asking, underWay, stale>>

AccountsNext ==
    \/ \E h \in Slot :
           \/ \E e \in Email :
                  \/ LoginRequest(h, e) \/ DeleteAccount(h, e)
                  \/ \E n \in Name \cup {NoName} : Register(h, e, n) \/ EditProfile(h, e, n)
           \/ \E g \in Sub, n \in Name \cup {NoName} : GoogleLogin(h, g, n)
           \/ FindForRegister(h) \/ CreateAccount(h) \/ FindForLogin(h)
           \/ VerifyAccessToken(h) \/ FindByGoogle(h) \/ UpdateFromGoogle(h)
           \/ HandOutTokens(h)
           \/ FindUser(h) \/ WriteProfile(h) \/ WriteDeleted(h)
           \/ FailRequest(h)
    \/ \E g \in Sub, e \in Email \cup {NoEmail} : MoveAddress(g, e)

AccountsSpec == AccountsInit /\ [][AccountsNext]_accountVars

-----------------------------------------------------------------------------
AccountsTypeOK ==
    /\ accounts \in [Email -> Row \cup {NoAccount}]
    /\ addresses \in [Sub -> Email \cup {NoEmail}]
    /\ step \in [Slot -> Step]
    /\ request \in [Slot -> Asking]
    /\ account \in [Slot -> Email \cup {NoEmail}]
    /\ read \in [Slot -> Row \cup {NoAccount}]
    /\ moved \subseteq Email
    /\ underWay \subseteq Slot
    /\ stale \subseteq Slot

Linked(e, g) == Exists(e) /\ accounts[e].provider = "GOOGLE" /\ accounts[e].sub = g

\* Who signs in with Google gets the account that is linked to this identity,
\* and no other account is linked to it, whatever else signs in or registers
\* meanwhile, unless an address of one of the accounts has changed hands at
\* Google: the address finds an account as well as the identity does.
IdentityKeepsItsAccount ==
    /\ \A h \in Slot :
           step[h] = "tokens" /\ request[h].kind = "google" /\ account[h] \notin moved =>
               Linked(account[h], request[h].sub)
    /\ \A g \in Sub, e, f \in Email \ moved : Linked(e, g) /\ Linked(f, g) => e = f

\* Nobody gets tokens for a deactivated account, but for a request that had
\* found the account when it was deactivated.
DeactivatedStaysOut == \A h \in Slot :
    step[h] = "tokens" /\ accounts[account[h]].deleted => h \in underWay

\* The name of an account becomes one that a request says, is cleared by an edit of
\* the user only, and is otherwise left alone by signing in, unless the name changed
\* between the read and the write of a sign-in whose Google profile has none.
NameSaid ==
    [][\A e \in Email : Exists(e) /\ accounts'[e].name # accounts[e].name =>
           \E h \in Slot :
               /\ account[h] = e
               /\ step[h] \in {"update", "write"}
               /\ \/ /\ request[h].name = accounts'[e].name
                     /\ request[h].kind = "edit" \/ request[h].name # NoName
                  \/ h \in stale]_accountVars
=============================================================================
