--------------------------- MODULE AccountsProofs ---------------------------
(***************************************************************************)
(* Proofs about Accounts: who signs in to which account, for any number of *)
(* addresses, identities and requests at a time.                           *)
(*                                                                         *)
(* The argument: whatever a request or a row believes about an identity, it *)
(* has from Google.  As long as the address has not changed hands, what     *)
(* Google says of an identity is one address and of an address one          *)
(* identity, so that all that believe something of either agree.            *)
(***************************************************************************)
EXTENDS Accounts, TLAPS

Held == {"update", "write", "tokens"}

\* A request has found an account as long as it goes on with one; accounts are
\* never removed.
AskingFits == \A h \in Slot :
    /\ account[h] # NoEmail <=> step[h] \in Held
    /\ account[h] # NoEmail => Exists(account[h])
    /\ step[h] \in {"register.find", "login.find", "google.find", "user.find", "create"} =>
           request[h].email \in Email
    /\ step[h] = "user.find" => Exists(request[h].email)
    /\ step[h] \in {"verify", "google.find", "update"} => request[h].kind = "google"
    /\ step[h] = "register.find" => request[h].kind = "register"
    /\ step[h] = "login.find" => request[h].kind = "login"
    /\ step[h] = "user.find" => request[h].kind \in {"edit", "delete"}
    /\ step[h] = "create" => request[h].kind \in {"register", "google"}
    /\ request[h].kind = "google" => request[h].sub \in Sub
    /\ step[h] = "update" => /\ Exists(account[h])
                             /\ read[h] \in Row

\* Whoever goes on with a deactivated account was under way.
Caught == \A h \in Slot : step[h] \in Held /\ accounts[account[h]].deleted => h \in underWay

\* Google vouches for this, or did before the address changed hands.
Vouched(e, g) == e \in moved \/ addresses[g] = e

RowsVouched == \A e \in Email : Exists(e) /\ accounts[e].provider = "GOOGLE" =>
    accounts[e].sub \in Sub /\ Vouched(e, accounts[e].sub)

RequestsVouched == \A h \in Slot : request[h].kind = "google" =>
    /\ step[h] \in {"google.find", "create"} => Vouched(request[h].email, request[h].sub)
    /\ step[h] \in Held => Vouched(account[h], request[h].sub)
    /\ step[h] = "update" /\ read[h].provider = "GOOGLE" =>
           accounts[account[h]].provider = "GOOGLE"
    /\ step[h] = "tokens" => accounts[account[h]].provider = "GOOGLE"

\* Who has read the name of an account knows it, or is known to be stale.
NamesKnown == \A h \in Slot : step[h] = "update" /\ h \notin stale =>
    read[h].name = accounts[account[h]].name

IInv == /\ AccountsTypeOK /\ Distinct(addresses) /\ AskingFits /\ Caught
        /\ RowsVouched /\ RequestsVouched /\ NamesKnown

LEMMA InitIInv == AccountsInit => IInv
BY NamesAssumption DEF AccountsInit, IInv, AccountsTypeOK, AskingFits, Caught, RowsVouched,
   RequestsVouched, NamesKnown, Step, Asking, NoAsking, Kind, Held, Exists

-----------------------------------------------------------------------------
(* Rows                                                                    *)

LEMMA NewRowTyped ==
    ASSUME NEW ask \in Asking
    PROVE  /\ NewRow(ask) \in Row
           /\ ~NewRow(ask).deleted
           /\ NewRow(ask).provider = "GOOGLE" <=> ask.kind = "google"
           /\ NewRow(ask).sub = ask.sub
BY DEF NewRow, Row, Asking

LEMMA NamedTyped ==
    ASSUME NEW row \in Row, NEW name \in Name \cup {NoName}
    PROVE  LET to == [row EXCEPT !.name = name]
           IN  /\ to \in Row
               /\ to.deleted = row.deleted /\ to.provider = row.provider
               /\ to.sub = row.sub /\ to.name = name
BY DEF Row

LEMMA DeletedTyped ==
    ASSUME NEW row \in Row
    PROVE  LET to == [row EXCEPT !.deleted = TRUE]
           IN  /\ to \in Row
               /\ to.provider = row.provider /\ to.sub = row.sub /\ to.name = row.name
BY DEF Row

\* What googleLogin writes into a row.
LEMMA LinkTyped ==
    ASSUME NEW row \in Row, NEW was \in Row, NEW ask \in Asking,
           was.provider = "GOOGLE" => row.provider = "GOOGLE"
    PROVE  /\ Link(row, ask, was) \in Row
           /\ Link(row, ask, was).deleted = row.deleted
           /\ Link(row, ask, was).name = row.name
           /\ Link(row, ask, was).provider = "GOOGLE"
           /\ \/ Link(row, ask, was).sub = row.sub /\ row.provider = "GOOGLE"
              \/ Link(row, ask, was).sub = ask.sub
BY DEF Link, Row, Asking

\* A row that is there is a row, and so is what a request has read.
LEMMA RowsAre == ASSUME IInv, NEW e \in Email, Exists(e) PROVE accounts[e] \in Row
BY DEF IInv, AccountsTypeOK, Exists

\* The account that a request goes on with.
LEMMA HeldIs ==
    ASSUME IInv, NEW h \in Slot, step[h] \in Held
    PROVE  account[h] \in Email /\ Exists(account[h]) /\ accounts[account[h]] \in Row
BY RowsAre DEF IInv, AccountsTypeOK, AskingFits

-----------------------------------------------------------------------------
\* Each write of a row: what it is written to.
Written(e, row) == /\ e \in Email
                   /\ row \in Row
                   /\ accounts' = [accounts EXCEPT ![e] = row]

LEMMA CreateWrites ==
    ASSUME IInv, NEW h \in Slot, CreateAccount(h), ~Exists(request[h].email)
    PROVE  Written(request[h].email, NewRow(request[h]))
BY NewRowTyped DEF IInv, AccountsTypeOK, AskingFits, CreateAccount, Written

LEMMA GoogleWrites ==
    ASSUME IInv, NEW h \in Slot, UpdateFromGoogle(h)
    PROVE  \E row :
               /\ Written(account[h], row)
               /\ row.deleted = accounts[account[h]].deleted
               /\ row.provider = "GOOGLE"
               /\ \/ /\ row.sub = accounts[account[h]].sub
                     /\ accounts[account[h]].provider = "GOOGLE"
                  \/ row.sub = request[h].sub
               /\ row.name = NameOfGoogle(request[h], read[h])
               /\ row.name \in Name \cup {NoName}
<1> DEFINE was == accounts[account[h]]
           linked == Link(was, request[h], read[h])
           name == NameOfGoogle(request[h], read[h])
<1>1. /\ account[h] \in Email /\ was \in Row
      /\ read[h] \in Row /\ request[h] \in Asking /\ request[h].kind = "google"
  BY HeldIs DEF UpdateFromGoogle, IInv, AccountsTypeOK, AskingFits, Held
<1>2. read[h].provider = "GOOGLE" => was.provider = "GOOGLE"
  BY <1>1 DEF UpdateFromGoogle, IInv, RequestsVouched
<1>3. name \in Name \cup {NoName}
  BY <1>1 DEF NameOfGoogle, Row, Asking
<1>4. accounts' = [accounts EXCEPT ![account[h]] = [linked EXCEPT !.name = name]]
  BY DEF UpdateFromGoogle
<1> HIDE DEF linked, name
<1>5. /\ linked \in Row /\ linked.deleted = was.deleted /\ linked.provider = "GOOGLE"
      /\ \/ linked.sub = was.sub /\ was.provider = "GOOGLE"
         \/ linked.sub = request[h].sub
  BY <1>1, <1>2, LinkTyped DEF linked
<1> HIDE DEF was
<1>6. LET to == [linked EXCEPT !.name = name]
      IN  /\ to \in Row /\ to.deleted = was.deleted /\ to.provider = "GOOGLE"
          /\ \/ to.sub = was.sub /\ was.provider = "GOOGLE"
             \/ to.sub = request[h].sub
          /\ to.name = name
  BY <1>3, <1>5, NamedTyped
<1>7. QED
  BY <1>1, <1>3, <1>4, <1>6 DEF Written, was, name

LEMMA ProfileWrites ==
    ASSUME IInv, NEW h \in Slot, WriteProfile(h)
    PROVE  \E row :
               /\ Written(account[h], row)
               /\ row.deleted = accounts[account[h]].deleted
               /\ row.provider = accounts[account[h]].provider
               /\ row.sub = accounts[account[h]].sub
               /\ row.name = request[h].name
<1>1. accounts[account[h]] \in Row /\ account[h] \in Email
  BY HeldIs DEF WriteProfile, Held, IInv, AskingFits
<1>2. accounts' = [accounts EXCEPT
                       ![account[h]] = [accounts[account[h]] EXCEPT !.name = request[h].name]]
  BY DEF WriteProfile
<1>3. request[h].name \in Name \cup {NoName}
  BY DEF IInv, AccountsTypeOK, Asking
<1> DEFINE to == [accounts[account[h]] EXCEPT !.name = request[h].name]
<1>4. /\ to \in Row /\ to.deleted = accounts[account[h]].deleted
      /\ to.provider = accounts[account[h]].provider
      /\ to.sub = accounts[account[h]].sub /\ to.name = request[h].name
  BY <1>1, <1>3, NamedTyped
<1>5. QED
  BY <1>1, <1>2, <1>4 DEF Written

LEMMA DeletionWrites ==
    ASSUME IInv, NEW h \in Slot, WriteDeleted(h)
    PROVE  \E row :
               /\ Written(account[h], row)
               /\ row.provider = accounts[account[h]].provider
               /\ row.sub = accounts[account[h]].sub
               /\ row.name = accounts[account[h]].name
<1>1. accounts[account[h]] \in Row /\ account[h] \in Email
  BY HeldIs DEF WriteDeleted, Held
<1>2. accounts' = [accounts EXCEPT
                       ![account[h]] = [accounts[account[h]] EXCEPT !.deleted = TRUE]]
  BY DEF WriteDeleted
<1>3. QED
  BY <1>1, <1>2, DeletedTyped DEF Written

\* A step writes no row, or one that is there or was not there before.
RowsStay == /\ accounts' \in [Email -> Row \cup {NoAccount}]
            /\ \A e \in Email : Exists(e) => Exists(e)'

LEMMA NextRows == IInv /\ [AccountsNext]_accountVars => RowsStay
<1> SUFFICES ASSUME IInv, [AccountsNext]_accountVars PROVE RowsStay
  OBVIOUS
<1> USE NamesAssumption DEF RowsStay
<1>1. CASE UNCHANGED accounts
  BY <1>1 DEF IInv, AccountsTypeOK, Exists
<1>2. ASSUME NEW h \in Slot, CreateAccount(h) PROVE RowsStay
  <2>1. CASE ~Exists(request[h].email)
    BY <1>2, <2>1, CreateWrites DEF IInv, AccountsTypeOK, Written, Exists
  <2>2. CASE UNCHANGED accounts
    BY <1>1, <2>2
  <2>3. QED
    BY <1>2, <2>1, <2>2 DEF CreateAccount
<1>3. ASSUME NEW h \in Slot, UpdateFromGoogle(h) PROVE RowsStay
  BY <1>3, GoogleWrites DEF IInv, AccountsTypeOK, Written, Exists
<1>4. ASSUME NEW h \in Slot, WriteProfile(h) PROVE RowsStay
  BY <1>4, ProfileWrites DEF IInv, AccountsTypeOK, Written, Exists
<1>5. ASSUME NEW h \in Slot, WriteDeleted(h) PROVE RowsStay
  BY <1>5, DeletionWrites DEF IInv, AccountsTypeOK, Written, Exists
<1>6. QED
  BY <1>1, <1>2, <1>3, <1>4, <1>5 DEF AccountsNext, accountVars, asking, Ask, Register,
     LoginRequest, GoogleLogin,
     EditProfile, DeleteAccount, FindForRegister, FindForLogin, VerifyAccessToken, FindByGoogle,
     HandOutTokens, FindUser, FailRequest, MoveAddress

\* Who finishes has no account, whatever it adds to the histories.
LEMMA FinishKeeps ==
    ASSUME IInv, RowsStay, NEW h \in Slot, NEW catches \in SUBSET Slot,
    NEW stales \in SUBSET Slot,
           FinishWith(h, catches, stales), UNCHANGED <<addresses, moved>>
    PROVE  AccountsTypeOK' /\ AskingFits'
<1> USE NamesAssumption DEF FinishWith, Proceed, IInv, AccountsTypeOK
<1>1. AccountsTypeOK'
  BY DEF RowsStay, Step, Asking, NoAsking, Kind
<1>2. AskingFits'
  BY DEF RowsStay, AskingFits, NoAsking, Held, Exists
<1>3. QED
  BY <1>1, <1>2

\* Requests go on as their kind says.
LEMMA NextAskingFits == IInv /\ [AccountsNext]_accountVars => AccountsTypeOK' /\ AskingFits'
<1> SUFFICES ASSUME IInv, [AccountsNext]_accountVars PROVE AccountsTypeOK' /\ AskingFits'
  OBVIOUS
<1> USE NamesAssumption
<1>0. RowsStay
  BY NextRows
<1> USE <1>0
<1>1. ASSUME NEW h \in Slot, NEW e \in Email, NEW n \in Name \cup {NoName}, Register(h, e, n)
      PROVE  AccountsTypeOK' /\ AskingFits'
  BY <1>1 DEF Register, Ask, accountHistory, IInv, AccountsTypeOK, AskingFits, RowsStay, Held,
     Proceed, Step, Asking, GoOn, Found, FoundAndRead, Exists, Kind
<1>2. ASSUME NEW h \in Slot, NEW e \in Email, LoginRequest(h, e)
      PROVE  AccountsTypeOK' /\ AskingFits'
  BY <1>2 DEF LoginRequest, Ask, accountHistory, IInv, AccountsTypeOK, AskingFits, RowsStay,
     Held, Proceed, Step, Asking, GoOn, Found, FoundAndRead, Exists, Kind
<1>3. ASSUME NEW h \in Slot, NEW g \in Sub, NEW n \in Name \cup {NoName}, GoogleLogin(h, g, n)
      PROVE  AccountsTypeOK' /\ AskingFits'
  BY <1>3 DEF GoogleLogin, Ask, accountHistory, IInv, AccountsTypeOK, AskingFits, RowsStay,
     Held, Proceed, Step, Asking, GoOn, Found, FoundAndRead, Exists, Kind
<1>4. ASSUME NEW h \in Slot, NEW e \in Email, NEW n \in Name \cup {NoName}, EditProfile(h, e, n)
      PROVE  AccountsTypeOK' /\ AskingFits'
  BY <1>4 DEF EditProfile, Ask, accountHistory, IInv, AccountsTypeOK, AskingFits, RowsStay,
     Held, Proceed, Step, Asking, GoOn, Found, FoundAndRead, Exists, Kind
<1>5. ASSUME NEW h \in Slot, NEW e \in Email, DeleteAccount(h, e)
      PROVE  AccountsTypeOK' /\ AskingFits'
  BY <1>5 DEF DeleteAccount, Ask, accountHistory, IInv, AccountsTypeOK, AskingFits, RowsStay,
     Held, Proceed, Step, Asking, GoOn, Found, FoundAndRead, Exists, Kind
<1>6. ASSUME NEW h \in Slot, FindForRegister(h)
      PROVE  AccountsTypeOK' /\ AskingFits'
  <2>1. CASE Finish(h)
    BY <1>6, <2>1, FinishKeeps DEF FindForRegister, Finish
  <2>2. CASE ~Exists(request[h].email) /\ GoOn(h, "create")
    BY <1>6, <2>2 DEF FindForRegister, IInv, AccountsTypeOK, AskingFits, RowsStay, Held,
       Proceed, Step, Asking, GoOn, Found, FoundAndRead, Exists
  <2>3. QED
    BY <1>6, <2>1, <2>2 DEF FindForRegister
<1>7. ASSUME NEW h \in Slot, CreateAccount(h)
      PROVE  AccountsTypeOK' /\ AskingFits'
  <2>1. CASE Finish(h)
    BY <1>7, <2>1, FinishKeeps DEF CreateAccount, Finish
  <2>2. CASE ~Finish(h)
    <3>1. ~Exists(request[h].email)
      BY <1>7, <2>2 DEF CreateAccount
    <3>2. Written(request[h].email, NewRow(request[h]))
      BY <1>7, <3>1, CreateWrites
    <3>3. accounts'[request[h].email] # NoAccount
      BY <3>2, NewRowTyped DEF Written, Exists, IInv, AccountsTypeOK
    <3>4. /\ Proceed(h, "tokens")
          /\ account' = [account EXCEPT ![h] = request[h].email]
          /\ UNCHANGED <<addresses, moved, request, read, underWay, stale>>
      BY <1>7, <2>2 DEF CreateAccount
    <3>5. request[h].email \in Email
      BY <3>2 DEF Written
    <3>6. AccountsTypeOK'
      BY <3>4, <3>5 DEF IInv, AccountsTypeOK, RowsStay, Proceed, Step
    <3>7. AskingFits'
      BY <1>7, <3>3, <3>4, <3>5 DEF IInv, AccountsTypeOK, AskingFits, RowsStay, Proceed, Held,
         Exists
    <3>8. QED
      BY <3>6, <3>7
  <2>3. QED
    BY <2>1, <2>2
<1>8. ASSUME NEW h \in Slot, FindForLogin(h)
      PROVE  AccountsTypeOK' /\ AskingFits'
  <2>1. CASE Finish(h)
    BY <1>8, <2>1, FinishKeeps DEF FindForLogin, Finish
  <2>2. CASE Exists(request[h].email) /\ Found(h, request[h].email, "tokens") /\ UNCHANGED read
    BY <1>8, <2>2 DEF FindForLogin, IInv, AccountsTypeOK, AskingFits, RowsStay, Held, Proceed,
       Step, Asking, GoOn, Found, FoundAndRead, Exists
  <2>3. QED
    BY <1>8, <2>1, <2>2 DEF FindForLogin
<1>9. ASSUME NEW h \in Slot, VerifyAccessToken(h)
      PROVE  AccountsTypeOK' /\ AskingFits'
  <2>1. CASE Finish(h)
    BY <1>9, <2>1, FinishKeeps DEF VerifyAccessToken, Finish
  <2>2. CASE ~Finish(h)
    <3>1. /\ addresses[request[h].sub] # NoEmail
          /\ Proceed(h, "google.find")
          /\ request' = [request EXCEPT ![h].email = addresses[request[h].sub]]
          /\ UNCHANGED <<accounts, addresses, moved, account, read, underWay, stale>>
      BY <1>9, <2>2 DEF VerifyAccessToken
    <3>2. /\ addresses[request[h].sub] \in Email
          /\ request[h].kind = "google" /\ account[h] = NoEmail
      BY <1>9, <3>1 DEF VerifyAccessToken, IInv, AccountsTypeOK, AskingFits, Held
    <3>3. AccountsTypeOK'
      BY <3>1, <3>2 DEF IInv, AccountsTypeOK, RowsStay, Proceed, Step, Asking
    <3>4. AskingFits'
      BY <1>9, <3>1, <3>2 DEF IInv, AccountsTypeOK, AskingFits, Proceed, Held, Exists, Asking
    <3>5. QED
      BY <3>3, <3>4
  <2>3. QED
    BY <2>1, <2>2
<1>10. ASSUME NEW h \in Slot, FindByGoogle(h)
      PROVE  AccountsTypeOK' /\ AskingFits'
  <2>1. CASE Finish(h)
    BY <1>10, <2>1, FinishKeeps DEF FindByGoogle, Finish
  <2>2. CASE GoOn(h, "create")
    BY <1>10, <2>2 DEF FindByGoogle, IInv, AccountsTypeOK, AskingFits, RowsStay, Held, Proceed,
       Step, Asking, GoOn, Found, FoundAndRead, Exists
  <2>3. ASSUME NEW e \in Email, Exists(e), FoundAndRead(h, e)
        PROVE  AccountsTypeOK' /\ AskingFits'
    <3>1. accounts[e] \in Row
      BY <2>3, RowsAre
    <3>2. /\ step[h] = "google.find" /\ UNCHANGED <<accounts, addresses, moved>>
      BY <1>10 DEF FindByGoogle
    <3>3. AccountsTypeOK'
      BY <2>3, <3>1, <3>2 DEF IInv, AccountsTypeOK, Proceed, Step, Found, FoundAndRead
    <3>4. AskingFits'
      BY <2>3, <3>1, <3>2 DEF IInv, AccountsTypeOK, AskingFits, Proceed, Held, Exists, Found,
         FoundAndRead
    <3>5. QED
      BY <3>3, <3>4
  <2>4. QED
    BY <1>10, <2>1, <2>2, <2>3 DEF FindByGoogle, Candidates
<1>11. ASSUME NEW h \in Slot, UpdateFromGoogle(h)
      PROVE  AccountsTypeOK' /\ AskingFits'
  <2>1. /\ Proceed(h, "tokens") /\ read' = [read EXCEPT ![h] = NoAccount]
        /\ stale' \in SUBSET Slot
        /\ UNCHANGED <<addresses, request, account, moved, underWay>>
    BY <1>11 DEF UpdateFromGoogle, IInv, AccountsTypeOK, Readers
  <2>2. AccountsTypeOK'
    BY <2>1 DEF IInv, AccountsTypeOK, RowsStay, Proceed, Step
  <2>3. AskingFits'
    BY <1>11, <2>1 DEF IInv, AccountsTypeOK, AskingFits, RowsStay, Proceed, Held, Exists,
       UpdateFromGoogle
  <2>4. QED
    BY <2>2, <2>3
<1>12. ASSUME NEW h \in Slot, HandOutTokens(h)
      PROVE  AccountsTypeOK' /\ AskingFits'
  BY <1>12, FinishKeeps DEF HandOutTokens, Finish
<1>13. ASSUME NEW h \in Slot, FindUser(h)
      PROVE  AccountsTypeOK' /\ AskingFits'
  <2>1. CASE Finish(h)
    BY <1>13, <2>1, FinishKeeps DEF FindUser, Finish
  <2>2. CASE Found(h, request[h].email, "write") /\ UNCHANGED read
    BY <1>13, <2>2 DEF FindUser, IInv, AccountsTypeOK, AskingFits, RowsStay, Held, Proceed,
       Step, Asking, GoOn, Found, FoundAndRead, Exists
  <2>3. QED
    BY <1>13, <2>1, <2>2 DEF FindUser
<1>14. ASSUME NEW h \in Slot, WriteProfile(h)
      PROVE  AccountsTypeOK' /\ AskingFits'
  <2>1. PICK stales \in SUBSET Slot : FinishWith(h, {}, stales)
    BY <1>14 DEF WriteProfile, Readers
  <2>2. QED
    BY <1>14, <2>1, FinishKeeps DEF WriteProfile
<1>15. ASSUME NEW h \in Slot, WriteDeleted(h)
      PROVE  AccountsTypeOK' /\ AskingFits'
  <2>1. PICK catches \in SUBSET Slot : FinishWith(h, catches, {})
    BY <1>15 DEF WriteDeleted
  <2>2. QED
    BY <1>15, <2>1, FinishKeeps DEF WriteDeleted
<1>16. ASSUME NEW h \in Slot, FailRequest(h)
      PROVE  AccountsTypeOK' /\ AskingFits'
  BY <1>16, FinishKeeps DEF FailRequest, Finish
<1>17. ASSUME NEW g \in Sub, NEW e \in Email \cup {NoEmail}, MoveAddress(g, e)
      PROVE  AccountsTypeOK' /\ AskingFits'
  BY <1>17 DEF MoveAddress, asking, IInv, AccountsTypeOK, AskingFits, RowsStay, Held, Proceed,
     Step, Asking, GoOn, Found, FoundAndRead, Exists
<1>18. CASE UNCHANGED accountVars
  BY <1>18 DEF accountVars, asking, accountHistory, IInv, AccountsTypeOK, AskingFits, RowsStay,
     Held, Proceed, Step, Asking, GoOn, Found, FoundAndRead, Exists
<1>19. QED
  BY <1>1, <1>2, <1>3, <1>4, <1>5, <1>6, <1>7, <1>8, <1>9, <1>10, <1>11, <1>12, <1>13, <1>14,
     <1>15, <1>16, <1>17, <1>18 DEF AccountsNext

-----------------------------------------------------------------------------
(* Who goes on with a deactivated account                                  *)

LEMMA CreateIsNew ==
    ASSUME IInv, NEW h \in Slot, CreateAccount(h), ~Finish(h)
    PROVE  LET e == request[h].email
           IN  /\ e \in Email /\ ~Exists(e)
               /\ accounts' = [accounts EXCEPT ![e] = NewRow(request[h])]
               /\ accounts'[e] = NewRow(request[h])
               /\ \A k \in Slot : account[k] # e
               /\ step' = [step EXCEPT ![h] = "tokens"]
               /\ account' = [account EXCEPT ![h] = e]
               /\ UNCHANGED <<addresses, moved, request, read, underWay, stale>>
<1>1. ~Exists(request[h].email)
  BY DEF CreateAccount
<1>2. Written(request[h].email, NewRow(request[h]))
  BY <1>1, CreateWrites
<1>3. \A k \in Slot : account[k] # request[h].email
  BY <1>1, <1>2, NamesAssumption DEF IInv, AskingFits, Written
<1>4. /\ step' = [step EXCEPT ![h] = "tokens"]
      /\ account' = [account EXCEPT ![h] = request[h].email]
      /\ UNCHANGED <<addresses, moved, request, read, underWay, stale>>
  BY DEF CreateAccount, Proceed
<1>5. QED
  BY <1>1, <1>2, <1>3, <1>4 DEF Written, IInv, AccountsTypeOK

\* Who finds a deactivated account does not go on; who has found one is caught.
LEMMA NextCaught == IInv /\ [AccountsNext]_accountVars => Caught'
<1> SUFFICES ASSUME IInv, [AccountsNext]_accountVars PROVE Caught'
  OBVIOUS
<1> USE NamesAssumption
<1>1. ASSUME NEW h \in Slot, NEW e \in Email, NEW n \in Name \cup {NoName}, Register(h, e, n)
      PROVE  Caught'
  BY <1>1 DEF Register, Ask, accountHistory, IInv, AccountsTypeOK, Caught, Held, Proceed, GoOn,
     Found, FoundAndRead, FinishWith, Finish, MaySignIn
<1>2. ASSUME NEW h \in Slot, NEW e \in Email, LoginRequest(h, e)
      PROVE  Caught'
  BY <1>2 DEF LoginRequest, Ask, accountHistory, IInv, AccountsTypeOK, Caught, Held, Proceed,
     GoOn, Found, FoundAndRead, FinishWith, Finish, MaySignIn
<1>3. ASSUME NEW h \in Slot, NEW g \in Sub, NEW n \in Name \cup {NoName}, GoogleLogin(h, g, n)
      PROVE  Caught'
  BY <1>3 DEF GoogleLogin, Ask, accountHistory, IInv, AccountsTypeOK, Caught, Held, Proceed,
     GoOn, Found, FoundAndRead, FinishWith, Finish, MaySignIn
<1>4. ASSUME NEW h \in Slot, NEW e \in Email, NEW n \in Name \cup {NoName}, EditProfile(h, e, n)
      PROVE  Caught'
  BY <1>4 DEF EditProfile, Ask, accountHistory, IInv, AccountsTypeOK, Caught, Held, Proceed,
     GoOn, Found, FoundAndRead, FinishWith, Finish, MaySignIn
<1>5. ASSUME NEW h \in Slot, NEW e \in Email, DeleteAccount(h, e)
      PROVE  Caught'
  BY <1>5 DEF DeleteAccount, Ask, accountHistory, IInv, AccountsTypeOK, Caught, Held, Proceed,
     GoOn, Found, FoundAndRead, FinishWith, Finish, MaySignIn
<1>6. ASSUME NEW h \in Slot, FindForRegister(h)
      PROVE  Caught'
  BY <1>6 DEF FindForRegister, asking, IInv, AccountsTypeOK, Caught, Held, Proceed, GoOn,
     Found, FoundAndRead, FinishWith, Finish, MaySignIn
<1>7. ASSUME NEW h \in Slot, CreateAccount(h)
      PROVE  Caught'
  <2>1. CASE Finish(h)
    BY <1>7, <2>1 DEF CreateAccount, Finish, FinishWith, Proceed, Caught, Held, IInv,
       AccountsTypeOK
  <2>2. CASE ~Finish(h)
    <3>1. ~NewRow(request[h]).deleted
      BY NewRowTyped DEF IInv, AccountsTypeOK
    <3>2. QED
      BY <1>7, <2>2, <3>1, CreateIsNew DEF Caught, IInv, AccountsTypeOK, AskingFits, Held
  <2>3. QED
    BY <2>1, <2>2
<1>8. ASSUME NEW h \in Slot, FindForLogin(h)
      PROVE  Caught'
  BY <1>8 DEF FindForLogin, asking, IInv, AccountsTypeOK, Caught, Held, Proceed, GoOn, Found,
     FoundAndRead, FinishWith, Finish, MaySignIn
<1>9. ASSUME NEW h \in Slot, VerifyAccessToken(h)
      PROVE  Caught'
  BY <1>9 DEF VerifyAccessToken, asking, IInv, AccountsTypeOK, Caught, Held, Proceed, GoOn,
     Found, FoundAndRead, FinishWith, Finish, MaySignIn
<1>10. ASSUME NEW h \in Slot, FindByGoogle(h)
      PROVE  Caught'
  BY <1>10 DEF FindByGoogle, asking, IInv, AccountsTypeOK, Caught, Held, Proceed, GoOn, Found,
     FoundAndRead, FinishWith, Finish, MaySignIn
<1>11. ASSUME NEW h \in Slot, UpdateFromGoogle(h)
      PROVE  Caught'
  <2>1. PICK row : Written(account[h], row) /\ row.deleted = accounts[account[h]].deleted
    BY <1>11, GoogleWrites
  <2>2. /\ step[h] = "update"
        /\ UNCHANGED <<account, underWay>>
        /\ step' = [step EXCEPT ![h] = "tokens"]
    BY <1>11 DEF UpdateFromGoogle, Proceed
  <2>3. QED
    BY <2>1, <2>2 DEF Caught, IInv, AccountsTypeOK, Written, Held
<1>12. ASSUME NEW h \in Slot, HandOutTokens(h)
      PROVE  Caught'
  BY <1>12 DEF HandOutTokens, asking, IInv, AccountsTypeOK, Caught, Held, Proceed, GoOn, Found,
     FoundAndRead, FinishWith, Finish, MaySignIn
<1>13. ASSUME NEW h \in Slot, FindUser(h)
      PROVE  Caught'
  BY <1>13 DEF FindUser, asking, IInv, AccountsTypeOK, Caught, Held, Proceed, GoOn, Found,
     FoundAndRead, FinishWith, Finish, MaySignIn
<1>14. ASSUME NEW h \in Slot, WriteProfile(h)
      PROVE  Caught'
  <2>1. PICK row : Written(account[h], row) /\ row.deleted = accounts[account[h]].deleted
    BY <1>14, ProfileWrites
  <2>2. /\ \/ account' = account
           \/ account' = [account EXCEPT ![h] = NoEmail] /\ step'[h] \notin Held
        /\ underWay \subseteq underWay' \cup {h}
        /\ \A k \in Slot \ {h} : step'[k] = step[k]
        /\ step[h] \in Held /\ (step'[h] \in Held => underWay' = underWay)
    BY <1>14 DEF WriteProfile, FinishWith, Proceed, Held, IInv, AccountsTypeOK
  <2>3. QED
    BY <2>1, <2>2 DEF Caught, IInv, AccountsTypeOK, Written, Held
<1>15. ASSUME NEW h \in Slot, WriteDeleted(h)
      PROVE  Caught'
  <2>1. PICK row : Written(account[h], row)
    BY <1>15, DeletionWrites
  <2>2. /\ \A k \in Slot \ {h} : /\ step'[k] = step[k] /\ account'[k] = account[k]
                                 /\ k \in underWay \/ account[k] = account[h] => k \in underWay'
        /\ step'[h] \notin Held
    BY <1>15 DEF WriteDeleted, FinishWith, Proceed, Held, IInv, AccountsTypeOK
  <2>3. QED
    BY <2>1, <2>2 DEF Caught, IInv, AccountsTypeOK, Written, Held
<1>16. ASSUME NEW h \in Slot, FailRequest(h)
      PROVE  Caught'
  BY <1>16 DEF FailRequest, asking, IInv, AccountsTypeOK, Caught, Held, Proceed, GoOn, Found,
     FoundAndRead, FinishWith, Finish, MaySignIn
<1>17. ASSUME NEW g \in Sub, NEW e \in Email \cup {NoEmail}, MoveAddress(g, e)
      PROVE  Caught'
  BY <1>17 DEF MoveAddress, asking, IInv, AccountsTypeOK, Caught, Held, Proceed, GoOn, Found,
     FoundAndRead, FinishWith, Finish, MaySignIn
<1>18. CASE UNCHANGED accountVars
  BY <1>18 DEF accountVars, asking, accountHistory, IInv, AccountsTypeOK, Caught, Held,
     Proceed, GoOn, Found, FoundAndRead, FinishWith, Finish, MaySignIn
<1>19. QED
  BY <1>1, <1>2, <1>3, <1>4, <1>5, <1>6, <1>7, <1>8, <1>9, <1>10, <1>11, <1>12, <1>13, <1>14,
     <1>15, <1>16, <1>17, <1>18 DEF AccountsNext

-----------------------------------------------------------------------------
(* What Google vouches for                                                 *)

\* It does, or the address has changed hands.
LEMMA VouchedStays ==
    ASSUME IInv, [AccountsNext]_accountVars, NEW e \in Email, NEW g \in Sub, Vouched(e, g)
    PROVE  Vouched(e, g)'
<1> USE NamesAssumption
<1>1. CASE UNCHANGED <<addresses, moved>>
  BY <1>1 DEF Vouched
<1>2. ASSUME NEW k \in Sub, NEW f \in Email \cup {NoEmail}, MoveAddress(k, f)
      PROVE  Vouched(e, g)'
  BY <1>2 DEF MoveAddress, Vouched, IInv, AccountsTypeOK
<1>3. QED
  BY <1>1, <1>2 DEF AccountsNext, accountVars, accountHistory, asking, Ask, Register,
     LoginRequest, GoogleLogin, EditProfile, DeleteAccount, FindForRegister, CreateAccount,
     FindForLogin, VerifyAccessToken, FindByGoogle, UpdateFromGoogle, HandOutTokens, FindUser,
     WriteProfile, WriteDeleted, FailRequest

LEMMA NextDistinct == IInv /\ [AccountsNext]_accountVars => Distinct(addresses')
<1> SUFFICES ASSUME IInv, [AccountsNext]_accountVars PROVE Distinct(addresses')
  OBVIOUS
<1>1. CASE UNCHANGED addresses
  BY <1>1 DEF IInv
<1>2. ASSUME NEW g \in Sub, NEW e \in Email \cup {NoEmail}, MoveAddress(g, e)
      PROVE  Distinct(addresses')
  BY <1>2 DEF MoveAddress
<1>3. QED
  BY <1>1, <1>2 DEF AccountsNext, accountVars, accountHistory, asking, Ask, Register,
     LoginRequest, GoogleLogin, EditProfile, DeleteAccount, FindForRegister, CreateAccount,
     FindForLogin, VerifyAccessToken, FindByGoogle, UpdateFromGoogle, HandOutTokens, FindUser,
     WriteProfile, WriteDeleted, FailRequest

LEMMA NextRowsVouched == IInv /\ [AccountsNext]_accountVars => RowsVouched'
<1> SUFFICES ASSUME IInv, [AccountsNext]_accountVars PROVE RowsVouched'
  OBVIOUS
<1> DEFINE Backed(e, row) ==
        row.provider = "GOOGLE" => row.sub \in Sub /\ Vouched(e, row.sub)
<1>0. \A e \in Email : Exists(e) => Backed(e, accounts[e])
  BY DEF IInv, RowsVouched
<1>1. SUFFICES \A e \in Email : accounts'[e] # NoAccount => Backed(e, accounts'[e])
  BY VouchedStays DEF RowsVouched, Exists
<1>2. CASE UNCHANGED accounts
  BY <1>0, <1>2 DEF Exists
<1>3. ASSUME NEW e, NEW row, Written(e, row), Backed(e, row)
      PROVE  \A f \in Email : accounts'[f] # NoAccount => Backed(f, accounts'[f])
  <2>1. \A f \in Email : accounts'[f] = IF f = e THEN row ELSE accounts[f]
    BY <1>3 DEF Written, IInv, AccountsTypeOK
  <2>2. QED
    BY <1>0, <1>3, <2>1 DEF Exists
<1>4. ASSUME NEW h \in Slot, CreateAccount(h)
      PROVE  \A f \in Email : accounts'[f] # NoAccount => Backed(f, accounts'[f])
  <2>1. CASE ~Exists(request[h].email)
    <3>1. /\ NewRow(request[h]).provider = "GOOGLE" <=> request[h].kind = "google"
          /\ NewRow(request[h]).sub = request[h].sub
      BY NewRowTyped DEF IInv, AccountsTypeOK
    <3>2. Backed(request[h].email, NewRow(request[h]))
      BY <1>4, <3>1 DEF CreateAccount, IInv, AskingFits, RequestsVouched
    <3>3. QED
      BY <1>3, <1>4, <2>1, <3>2, CreateWrites
  <2>2. CASE UNCHANGED accounts
    BY <1>2, <2>2
  <2>3. QED
    BY <1>4, <2>1, <2>2 DEF CreateAccount
<1>5. ASSUME NEW h \in Slot, UpdateFromGoogle(h)
      PROVE  \A f \in Email : accounts'[f] # NoAccount => Backed(f, accounts'[f])
  <2>1. PICK row :
            /\ Written(account[h], row)
            /\ \/ row.sub = accounts[account[h]].sub /\ accounts[account[h]].provider = "GOOGLE"
               \/ row.sub = request[h].sub
    BY <1>5, GoogleWrites
  <2>2. /\ account[h] \in Email /\ Exists(account[h])
        /\ request[h].sub \in Sub /\ Vouched(account[h], request[h].sub)
    BY <1>5, HeldIs DEF UpdateFromGoogle, Held, IInv, AskingFits, RequestsVouched
  <2>3. Backed(account[h], row)
    BY <1>0, <2>1, <2>2
  <2>4. QED
    BY <1>3, <2>1, <2>3
<1>6. ASSUME NEW h \in Slot, WriteProfile(h) \/ WriteDeleted(h)
      PROVE  \A f \in Email : accounts'[f] # NoAccount => Backed(f, accounts'[f])
  <2>1. PICK row : /\ Written(account[h], row)
                   /\ row.provider = accounts[account[h]].provider
                   /\ row.sub = accounts[account[h]].sub
    BY <1>6, ProfileWrites, DeletionWrites
  <2>2. account[h] \in Email /\ Exists(account[h])
    BY <1>6, HeldIs DEF WriteProfile, WriteDeleted, Held
  <2>3. Backed(account[h], row)
    BY <1>0, <2>1, <2>2
  <2>4. QED
    BY <1>3, <2>1, <2>3
<1>7. QED
  BY <1>2, <1>4, <1>5, <1>6 DEF AccountsNext, accountVars, asking, Ask, Register, LoginRequest,
     GoogleLogin,
     EditProfile, DeleteAccount, FindForRegister, FindForLogin, VerifyAccessToken, FindByGoogle,
     HandOutTokens, FindUser, FailRequest, MoveAddress

\* An account is Google's for good, whichever step is taken, and has the name
\* it had, unless those who have read another are stale.
LEMMA ProvidersStay ==
    ASSUME IInv, [AccountsNext]_accountVars, NEW e \in Email, Exists(e),
           accounts[e].provider = "GOOGLE"
    PROVE  accounts'[e].provider = "GOOGLE"
<1>1. CASE UNCHANGED accounts
  BY <1>1
<1>2. ASSUME NEW h \in Slot, CreateAccount(h)
      PROVE  accounts'[e].provider = "GOOGLE"
  <2>1. CASE ~Exists(request[h].email)
    BY <1>2, <2>1, CreateWrites DEF Written, IInv, AccountsTypeOK
  <2>2. CASE Exists(request[h].email)
    BY <1>2, <2>2 DEF CreateAccount
  <2>3. QED
    BY <2>1, <2>2
<1>3. ASSUME NEW h \in Slot, UpdateFromGoogle(h) \/ WriteProfile(h) \/ WriteDeleted(h)
      PROVE  accounts'[e].provider = "GOOGLE"
  <2>1. PICK row : /\ Written(account[h], row)
                   /\ row.provider \in {"GOOGLE", accounts[account[h]].provider}
    BY <1>3, GoogleWrites, ProfileWrites, DeletionWrites
  <2>2. QED
    BY <2>1 DEF Written, IInv, AccountsTypeOK
<1>4. QED
  BY <1>1, <1>2, <1>3 DEF AccountsNext, accountVars, asking, Ask, Register, LoginRequest,
     GoogleLogin,
     EditProfile, DeleteAccount, FindForRegister, FindForLogin, VerifyAccessToken, FindByGoogle,
     HandOutTokens, FindUser, FailRequest, MoveAddress

-----------------------------------------------------------------------------
(* What requests believe                                                   *)

\* Google vouches for what the requests that sign in with it go on with.
LEMMA NextRequestsVouched == IInv /\ [AccountsNext]_accountVars => RequestsVouched'
<1> SUFFICES ASSUME IInv, [AccountsNext]_accountVars PROVE RequestsVouched'
  OBVIOUS
<1> USE NamesAssumption
<1> DEFINE Others(h) == \A k \in Slot \ {h} :
              /\ step'[k] = step[k] /\ request'[k] = request[k]
              /\ account'[k] = account[k] /\ read'[k] = read[k]
<1> DEFINE OK(k) ==
        request[k].kind = "google" =>
            /\ step[k] \in {"google.find", "create"} => Vouched(request[k].email, request[k].sub)
            /\ step[k] \in Held => Vouched(account[k], request[k].sub)
            /\ step[k] = "update" /\ read[k].provider = "GOOGLE" =>
                   accounts[account[k]].provider = "GOOGLE"
            /\ step[k] = "tokens" => accounts[account[k]].provider = "GOOGLE"
<1>0. \A k \in Slot : /\ step'[k] = step[k] /\ request'[k] = request[k]
                      /\ account'[k] = account[k] /\ read'[k] = read[k]
                      => OK(k)'
  <2>1. TAKE k \in Slot
  <2>2. HAVE /\ step'[k] = step[k] /\ request'[k] = request[k]
             /\ account'[k] = account[k] /\ read'[k] = read[k]
  <2>3. OK(k)
    BY DEF IInv, RequestsVouched
  <2>4. CASE request[k].kind = "google"
    <3>1. request[k].sub \in Sub
      BY <2>4 DEF IInv, AskingFits
    <3>2. step[k] \in {"google.find", "create"} => request[k].email \in Email
      BY DEF IInv, AskingFits
    <3>3. step[k] \in Held => account[k] \in Email /\ Exists(account[k])
      BY HeldIs
    <3>4. step[k] \in {"google.find", "create"} => Vouched(request[k].email, request[k].sub)'
      BY <2>2, <2>3, <2>4, <3>1, <3>2, VouchedStays DEF Vouched
    <3>5. step[k] \in Held => Vouched(account[k], request[k].sub)'
      BY <2>2, <2>3, <2>4, <3>1, <3>3, VouchedStays DEF Vouched
    <3>6. step[k] \in Held /\ accounts[account[k]].provider = "GOOGLE" =>
              accounts'[account[k]].provider = "GOOGLE"
      BY <3>3, ProvidersStay
    <3>7. QED
      BY <2>2, <2>3, <2>4, <3>4, <3>5, <3>6 DEF Held
  <2>5. CASE request[k].kind # "google"
    BY <2>2, <2>5
  <2>6. QED
    BY <2>4, <2>5
<1>1. ASSUME NEW h \in Slot, NEW e \in Email, NEW n \in Name \cup {NoName}, Register(h, e, n)
      PROVE  \A k \in Slot : OK(k)'
  <2>1. Others(h) /\ step'[h] \in {"register.find", "login.find", "verify", "user.find"}
    BY <1>1 DEF Register, Ask, Proceed, IInv, AccountsTypeOK
  <2>2. OK(h)'
    BY <2>1 DEF Held
  <2>3. QED
    BY <1>0, <2>1, <2>2
<1>2. ASSUME NEW h \in Slot, NEW e \in Email, LoginRequest(h, e)
      PROVE  \A k \in Slot : OK(k)'
  <2>1. Others(h) /\ step'[h] \in {"register.find", "login.find", "verify", "user.find"}
    BY <1>2 DEF LoginRequest, Ask, Proceed, IInv, AccountsTypeOK
  <2>2. OK(h)'
    BY <2>1 DEF Held
  <2>3. QED
    BY <1>0, <2>1, <2>2
<1>3. ASSUME NEW h \in Slot, NEW g \in Sub, NEW n \in Name \cup {NoName}, GoogleLogin(h, g, n)
      PROVE  \A k \in Slot : OK(k)'
  <2>1. Others(h) /\ step'[h] \in {"register.find", "login.find", "verify", "user.find"}
    BY <1>3 DEF GoogleLogin, Ask, Proceed, IInv, AccountsTypeOK
  <2>2. OK(h)'
    BY <2>1 DEF Held
  <2>3. QED
    BY <1>0, <2>1, <2>2
<1>4. ASSUME NEW h \in Slot, NEW e \in Email, NEW n \in Name \cup {NoName}, EditProfile(h, e, n)
      PROVE  \A k \in Slot : OK(k)'
  <2>1. Others(h) /\ step'[h] \in {"register.find", "login.find", "verify", "user.find"}
    BY <1>4 DEF EditProfile, Ask, Proceed, IInv, AccountsTypeOK
  <2>2. OK(h)'
    BY <2>1 DEF Held
  <2>3. QED
    BY <1>0, <2>1, <2>2
<1>5. ASSUME NEW h \in Slot, NEW e \in Email, DeleteAccount(h, e)
      PROVE  \A k \in Slot : OK(k)'
  <2>1. Others(h) /\ step'[h] \in {"register.find", "login.find", "verify", "user.find"}
    BY <1>5 DEF DeleteAccount, Ask, Proceed, IInv, AccountsTypeOK
  <2>2. OK(h)'
    BY <2>1 DEF Held
  <2>3. QED
    BY <1>0, <2>1, <2>2
<1>6. ASSUME NEW h \in Slot, FindForRegister(h)
      PROVE  \A k \in Slot : OK(k)'
  <2>1. CASE Finish(h)
    <3>1. Others(h) /\ step'[h] = "idle"
      BY <2>1 DEF Finish, FinishWith, Proceed, IInv, AccountsTypeOK
    <3>2. OK(h)'
      BY <3>1 DEF Held
    <3>3. QED
      BY <1>0, <3>1, <3>2
  <2>2. CASE GoOn(h, "create")
    <3>1. Others(h)
      BY <1>6, <2>2 DEF FindForRegister, GoOn, Found, Proceed, IInv, AccountsTypeOK
    <3>2. OK(h)'
      BY <1>6, <2>2 DEF FindForRegister, GoOn, Found, Proceed, Held, IInv, AccountsTypeOK,
         AskingFits, RequestsVouched
    <3>3. QED
      BY <1>0, <3>1, <3>2
  <2>3. QED
    BY <1>6, <2>1, <2>2 DEF FindForRegister
<1>7. ASSUME NEW h \in Slot, CreateAccount(h)
      PROVE  \A k \in Slot : OK(k)'
  <2>1. CASE Finish(h)
    <3>1. Others(h) /\ step'[h] = "idle"
      BY <2>1 DEF Finish, FinishWith, Proceed, IInv, AccountsTypeOK
    <3>2. OK(h)'
      BY <3>1 DEF Held
    <3>3. QED
      BY <1>0, <3>1, <3>2
  <2>2. CASE ~Finish(h)
    <3>1. Others(h) /\ step'[h] = "tokens" /\ account'[h] = request[h].email /\ request' = request
      BY <1>7, <2>2, CreateIsNew DEF IInv, AccountsTypeOK
    <3>2. request[h].kind = "google" =>
              Vouched(request[h].email,
              request[h].sub) /\ NewRow(request[h]).provider = "GOOGLE"
      BY <1>7, NewRowTyped DEF CreateAccount, IInv, AccountsTypeOK, RequestsVouched
    <3>3. accounts'[request[h].email] = NewRow(request[h]) /\ UNCHANGED <<addresses, moved>>
      BY <1>7, <2>2, CreateIsNew
    <3>4. OK(h)'
      BY <3>1, <3>2, <3>3 DEF Vouched
    <3>5. QED
      BY <1>0, <3>1, <3>4
  <2>3. QED
    BY <2>1, <2>2
<1>8. ASSUME NEW h \in Slot, FindForLogin(h)
      PROVE  \A k \in Slot : OK(k)'
  <2>1. CASE Finish(h)
    <3>1. Others(h) /\ step'[h] = "idle"
      BY <2>1 DEF Finish, FinishWith, Proceed, IInv, AccountsTypeOK
    <3>2. OK(h)'
      BY <3>1 DEF Held
    <3>3. QED
      BY <1>0, <3>1, <3>2
  <2>2. CASE Found(h, request[h].email, "tokens") /\ UNCHANGED read
    <3>1. Others(h)
      BY <1>8, <2>2 DEF FindForLogin, GoOn, Found, Proceed, IInv, AccountsTypeOK
    <3>2. OK(h)'
      BY <1>8, <2>2 DEF FindForLogin, GoOn, Found, Proceed, Held, IInv, AccountsTypeOK,
         AskingFits, RequestsVouched
    <3>3. QED
      BY <1>0, <3>1, <3>2
  <2>3. QED
    BY <1>8, <2>1, <2>2 DEF FindForLogin
<1>9. ASSUME NEW h \in Slot, VerifyAccessToken(h)
      PROVE  \A k \in Slot : OK(k)'
  <2>1. CASE Finish(h)
    <3>1. Others(h) /\ step'[h] = "idle"
      BY <2>1 DEF Finish, FinishWith, Proceed, IInv, AccountsTypeOK
    <3>2. OK(h)'
      BY <3>1 DEF Held
    <3>3. QED
      BY <1>0, <3>1, <3>2
  <2>2. CASE ~Finish(h)
    <3>1. /\ step' = [step EXCEPT ![h] = "google.find"]
          /\ request' = [request EXCEPT ![h].email = addresses[request[h].sub]]
          /\ UNCHANGED <<addresses, moved, account, read>>
      BY <1>9, <2>2 DEF VerifyAccessToken, Proceed
    <3>2. Others(h)
      BY <3>1 DEF IInv, AccountsTypeOK
    <3>3. /\ request'[h].email = addresses[request[h].sub] /\ request'[h].sub = request[h].sub
          /\ step'[h] = "google.find"
      BY <3>1 DEF IInv, AccountsTypeOK, Asking
    <3>4. OK(h)'
      BY <3>1, <3>3 DEF Vouched, Held
    <3>5. QED
      BY <1>0, <3>2, <3>4
  <2>3. QED
    BY <2>1, <2>2
<1>10. ASSUME NEW h \in Slot, FindByGoogle(h)
      PROVE  \A k \in Slot : OK(k)'
  <2>1. CASE Finish(h)
    <3>1. Others(h) /\ step'[h] = "idle"
      BY <2>1 DEF Finish, FinishWith, Proceed, IInv, AccountsTypeOK
    <3>2. OK(h)'
      BY <3>1 DEF Held
    <3>3. QED
      BY <1>0, <3>1, <3>2
  <2>2. CASE GoOn(h, "create")
    <3>1. /\ step' = [step EXCEPT ![h] = "create"]
          /\ UNCHANGED <<addresses, moved, account, read, request>>
      BY <1>10, <2>2 DEF FindByGoogle, GoOn, Proceed
    <3>2. Others(h)
      BY <3>1 DEF IInv, AccountsTypeOK
    <3>3. OK(h)'
      BY <1>10, <3>1 DEF FindByGoogle, Vouched, Held, IInv, AccountsTypeOK, RequestsVouched
    <3>4. QED
      BY <1>0, <3>2, <3>3
  <2>3. ASSUME NEW e \in Candidates(request[h]), FoundAndRead(h, e)
        PROVE  \A k \in Slot : OK(k)'
    <3>1. /\ step' = [step EXCEPT ![h] = "update"]
          /\ account' = [account EXCEPT ![h] = e]
          /\ read' = [read EXCEPT ![h] = accounts[e]]
          /\ UNCHANGED <<accounts, addresses, moved, request>>
      BY <1>10, <2>3 DEF FindByGoogle, FoundAndRead, Found, Proceed
    <3>2. Others(h)
      BY <3>1 DEF IInv, AccountsTypeOK
    <3>3. Vouched(e, request[h].sub)
      BY <1>10, <2>3 DEF FindByGoogle, Candidates, IInv, AskingFits, RowsVouched,
         RequestsVouched
    <3>4. OK(h)'
      BY <3>1, <3>3 DEF Vouched, Held, IInv, AccountsTypeOK
    <3>5. QED
      BY <1>0, <3>2, <3>4
  <2>4. QED
    BY <1>10, <2>1, <2>2, <2>3 DEF FindByGoogle
<1>11. ASSUME NEW h \in Slot, UpdateFromGoogle(h)
      PROVE  \A k \in Slot : OK(k)'
  <2>1. PICK row : Written(account[h], row) /\ row.provider = "GOOGLE"
    BY <1>11, GoogleWrites
  <2>2. /\ step[h] = "update" /\ step' = [step EXCEPT ![h] = "tokens"]
        /\ read' = [read EXCEPT ![h] = NoAccount]
        /\ UNCHANGED <<addresses, moved, request, account>>
    BY <1>11 DEF UpdateFromGoogle, Proceed
  <2>3. Others(h)
    BY <2>2 DEF IInv, AccountsTypeOK
  <2>4. accounts'[account[h]] = row
    BY <2>1 DEF Written, IInv, AccountsTypeOK
  <2>5. OK(h)'
    BY <2>1, <2>2, <2>4 DEF Vouched, Held, IInv, AccountsTypeOK, RequestsVouched
  <2>6. QED
    BY <1>0, <2>3, <2>5
<1>12. ASSUME NEW h \in Slot, HandOutTokens(h)
      PROVE  \A k \in Slot : OK(k)'
  <2>1. Others(h) /\ step'[h] = "idle"
    BY <1>12 DEF HandOutTokens, Finish, FinishWith, Proceed, IInv, AccountsTypeOK
  <2>2. OK(h)'
    BY <2>1 DEF Held
  <2>3. QED
    BY <1>0, <2>1, <2>2
<1>13. ASSUME NEW h \in Slot, FindUser(h)
      PROVE  \A k \in Slot : OK(k)'
  <2>1. CASE Finish(h)
    <3>1. Others(h) /\ step'[h] = "idle"
      BY <2>1 DEF Finish, FinishWith, Proceed, IInv, AccountsTypeOK
    <3>2. OK(h)'
      BY <3>1 DEF Held
    <3>3. QED
      BY <1>0, <3>1, <3>2
  <2>2. CASE Found(h, request[h].email, "write") /\ UNCHANGED read
    <3>1. Others(h)
      BY <1>13, <2>2 DEF FindUser, GoOn, Found, Proceed, IInv, AccountsTypeOK
    <3>2. OK(h)'
      BY <1>13, <2>2 DEF FindUser, GoOn, Found, Proceed, Held, IInv, AccountsTypeOK,
         AskingFits, RequestsVouched
    <3>3. QED
      BY <1>0, <3>1, <3>2
  <2>3. QED
    BY <1>13, <2>1, <2>2 DEF FindUser
<1>14. ASSUME NEW h \in Slot, WriteProfile(h)
      PROVE  \A k \in Slot : OK(k)'
  <2>1. Others(h) /\ step'[h] = "idle"
    BY <1>14 DEF WriteProfile, Finish, FinishWith, Proceed, IInv, AccountsTypeOK
  <2>2. OK(h)'
    BY <2>1 DEF Held
  <2>3. QED
    BY <1>0, <2>1, <2>2
<1>15. ASSUME NEW h \in Slot, WriteDeleted(h)
      PROVE  \A k \in Slot : OK(k)'
  <2>1. Others(h) /\ step'[h] = "idle"
    BY <1>15 DEF WriteDeleted, Finish, FinishWith, Proceed, IInv, AccountsTypeOK
  <2>2. OK(h)'
    BY <2>1 DEF Held
  <2>3. QED
    BY <1>0, <2>1, <2>2
<1>16. ASSUME NEW h \in Slot, FailRequest(h)
      PROVE  \A k \in Slot : OK(k)'
  <2>1. Others(h) /\ step'[h] = "idle"
    BY <1>16 DEF FailRequest, Finish, FinishWith, Proceed, IInv, AccountsTypeOK
  <2>2. OK(h)'
    BY <2>1 DEF Held
  <2>3. QED
    BY <1>0, <2>1, <2>2
<1>17. ASSUME NEW g \in Sub, NEW e \in Email \cup {NoEmail}, MoveAddress(g, e)
      PROVE  \A k \in Slot : OK(k)'
  BY <1>0, <1>17 DEF MoveAddress, asking
<1>18. CASE UNCHANGED accountVars
  BY <1>0, <1>18 DEF accountVars, asking, RequestsVouched
<1>19. QED
  BY <1>1, <1>2, <1>3, <1>4, <1>5, <1>6, <1>7, <1>8, <1>9, <1>10, <1>11, <1>12, <1>13, <1>14,
     <1>15, <1>16, <1>17, <1>18 DEF AccountsNext, RequestsVouched

\* Who has read a name that is no more is stale.
LEMMA NamingKeeps ==
    ASSUME IInv, NEW h \in Slot, NEW e \in Email, NEW row, Written(e, row),
           \A k \in Slot \ {h} : UNCHANGED <<step[k], account[k], read[k]>>,
           step'[h] # "update",
           \/ row.name = accounts[e].name
           \/ \A k \in Slot \ {h} : account[k] = e /\ step[k] = "update" => k \in stale',
           \A k \in Slot \ {h} : k \in stale => k \in stale'
    PROVE  NamesKnown'
BY DEF IInv, AccountsTypeOK, NamesKnown, Written

\* The name that a sign-in has read is the name there is, or the sign-in is stale.
LEMMA NextNamesKnown == IInv /\ [AccountsNext]_accountVars => NamesKnown'
<1> SUFFICES ASSUME IInv, [AccountsNext]_accountVars PROVE NamesKnown'
  OBVIOUS
<1> USE NamesAssumption
<1>1. ASSUME NEW h \in Slot, NEW e \in Email, NEW n \in Name \cup {NoName}, Register(h, e, n)
      PROVE  NamesKnown'
  BY <1>1 DEF Register, Ask, accountHistory, IInv, AccountsTypeOK, NamesKnown, Proceed, GoOn,
     Found, FoundAndRead, FinishWith, Finish
<1>2. ASSUME NEW h \in Slot, NEW e \in Email, LoginRequest(h, e)
      PROVE  NamesKnown'
  BY <1>2 DEF LoginRequest, Ask, accountHistory, IInv, AccountsTypeOK, NamesKnown, Proceed,
     GoOn, Found, FoundAndRead, FinishWith, Finish
<1>3. ASSUME NEW h \in Slot, NEW g \in Sub, NEW n \in Name \cup {NoName}, GoogleLogin(h, g, n)
      PROVE  NamesKnown'
  BY <1>3 DEF GoogleLogin, Ask, accountHistory, IInv, AccountsTypeOK, NamesKnown, Proceed,
     GoOn, Found, FoundAndRead, FinishWith, Finish
<1>4. ASSUME NEW h \in Slot, NEW e \in Email, NEW n \in Name \cup {NoName}, EditProfile(h, e, n)
      PROVE  NamesKnown'
  BY <1>4 DEF EditProfile, Ask, accountHistory, IInv, AccountsTypeOK, NamesKnown, Proceed,
     GoOn, Found, FoundAndRead, FinishWith, Finish
<1>5. ASSUME NEW h \in Slot, NEW e \in Email, DeleteAccount(h, e)
      PROVE  NamesKnown'
  BY <1>5 DEF DeleteAccount, Ask, accountHistory, IInv, AccountsTypeOK, NamesKnown, Proceed,
     GoOn, Found, FoundAndRead, FinishWith, Finish
<1>6. ASSUME NEW h \in Slot, FindForRegister(h)
      PROVE  NamesKnown'
  BY <1>6 DEF FindForRegister, asking, IInv, AccountsTypeOK, NamesKnown, Proceed, GoOn, Found,
     FoundAndRead, FinishWith, Finish
<1>7. ASSUME NEW h \in Slot, CreateAccount(h)
      PROVE  NamesKnown'
  <2>1. CASE Finish(h)
    BY <1>7, <2>1 DEF CreateAccount, Finish, FinishWith, Proceed, NamesKnown, IInv,
       AccountsTypeOK
  <2>2. CASE ~Finish(h)
    <3>1. LET e == request[h].email
          IN  /\ accounts' = [accounts EXCEPT ![e] = NewRow(request[h])]
              /\ \A k \in Slot : account[k] # e
              /\ step' = [step EXCEPT ![h] = "tokens"]
              /\ account' = [account EXCEPT ![h] = e]
              /\ UNCHANGED <<read, stale>>
      BY <1>7, <2>2, CreateIsNew
    <3>2. \A k \in Slot : step'[k] = "update" =>
              /\ step[k] = "update" /\ account'[k] = account[k] /\ read'[k] = read[k]
              /\ account[k] \in Email /\ accounts'[account[k]] = accounts[account[k]]
      BY <3>1, HeldIs DEF IInv, AccountsTypeOK, Held
    <3>3. QED
      BY <3>1, <3>2 DEF IInv, NamesKnown
  <2>3. QED
    BY <2>1, <2>2
<1>8. ASSUME NEW h \in Slot, FindForLogin(h)
      PROVE  NamesKnown'
  BY <1>8 DEF FindForLogin, asking, IInv, AccountsTypeOK, NamesKnown, Proceed, GoOn, Found,
     FoundAndRead, FinishWith, Finish
<1>9. ASSUME NEW h \in Slot, VerifyAccessToken(h)
      PROVE  NamesKnown'
  BY <1>9 DEF VerifyAccessToken, asking, IInv, AccountsTypeOK, NamesKnown, Proceed, GoOn,
     Found, FoundAndRead, FinishWith, Finish
<1>10. ASSUME NEW h \in Slot, FindByGoogle(h)
      PROVE  NamesKnown'
  BY <1>10 DEF FindByGoogle, asking, IInv, AccountsTypeOK, NamesKnown, Proceed, GoOn, Found,
     FoundAndRead, FinishWith, Finish
<1>11. ASSUME NEW h \in Slot, UpdateFromGoogle(h)
      PROVE  NamesKnown'
  <2>1. PICK row : /\ Written(account[h], row)
                   /\ row.name = NameOfGoogle(request[h], read[h])
    BY <1>11, GoogleWrites
  <2>2. /\ step' = [step EXCEPT ![h] = "tokens"] /\ read' = [read EXCEPT ![h] = NoAccount]
        /\ account' = account
        /\ stale' = stale \cup (IF row.name = accounts[account[h]].name THEN {}
                               ELSE Readers(h, account[h]))
    BY <1>11, <2>1 DEF UpdateFromGoogle, Proceed
  <2>3. /\ \A k \in Slot \ {h} : UNCHANGED <<step[k], account[k], read[k]>>
        /\ step'[h] # "update"
    BY <2>2 DEF IInv, AccountsTypeOK
  <2>4. /\ row.name = accounts[account[h]].name
           \/ \A k \in Slot \ {h} : account[k] = account[h] /\ step[k] = "update" => k \in stale'
        /\ \A k \in Slot \ {h} : k \in stale => k \in stale'
    BY <2>2 DEF Readers
  <2>5. account[h] \in Email
    BY <2>1 DEF Written
  <2>6. QED
    BY <2>1, <2>3, <2>4, <2>5, NamingKeeps
<1>12. ASSUME NEW h \in Slot, HandOutTokens(h)
      PROVE  NamesKnown'
  BY <1>12 DEF HandOutTokens, asking, IInv, AccountsTypeOK, NamesKnown, Proceed, GoOn, Found,
     FoundAndRead, FinishWith, Finish
<1>13. ASSUME NEW h \in Slot, FindUser(h)
      PROVE  NamesKnown'
  BY <1>13 DEF FindUser, asking, IInv, AccountsTypeOK, NamesKnown, Proceed, GoOn, Found,
     FoundAndRead, FinishWith, Finish
<1>14. ASSUME NEW h \in Slot, WriteProfile(h)
      PROVE  NamesKnown'
  <2>1. PICK row : Written(account[h], row) /\ row.name = request[h].name
    BY <1>14, ProfileWrites
  <2>2. FinishWith(h, {}, IF row.name = accounts[account[h]].name THEN {}
                          ELSE Readers(h, account[h]))
    BY <1>14, <2>1 DEF WriteProfile
  <2>3. /\ \A k \in Slot \ {h} : UNCHANGED <<step[k], account[k], read[k]>>
        /\ step'[h] # "update"
    BY <2>2 DEF FinishWith, Proceed, IInv, AccountsTypeOK
  <2>4. /\ row.name = accounts[account[h]].name
           \/ \A k \in Slot \ {h} : account[k] = account[h] /\ step[k] = "update" => k \in stale'
        /\ \A k \in Slot \ {h} : k \in stale => k \in stale'
    BY <2>2 DEF FinishWith, Readers
  <2>5. account[h] \in Email
    BY <2>1 DEF Written
  <2>6. QED
    BY <2>1, <2>3, <2>4, <2>5, NamingKeeps
<1>15. ASSUME NEW h \in Slot, WriteDeleted(h)
      PROVE  NamesKnown'
  <2>1. PICK row : Written(account[h], row) /\ row.name = accounts[account[h]].name
    BY <1>15, DeletionWrites
  <2>2. /\ \A k \in Slot \ {h} : UNCHANGED <<step[k], account[k], read[k]>>
        /\ step'[h] # "update"
        /\ \A k \in Slot \ {h} : k \in stale => k \in stale'
    BY <1>15 DEF WriteDeleted, FinishWith, Proceed, IInv, AccountsTypeOK
  <2>3. account[h] \in Email
    BY <2>1 DEF Written
  <2>4. QED
    BY <2>1, <2>2, <2>3, NamingKeeps
<1>16. ASSUME NEW h \in Slot, FailRequest(h)
      PROVE  NamesKnown'
  BY <1>16 DEF FailRequest, asking, IInv, AccountsTypeOK, NamesKnown, Proceed, GoOn, Found,
     FoundAndRead, FinishWith, Finish
<1>17. ASSUME NEW g \in Sub, NEW e \in Email \cup {NoEmail}, MoveAddress(g, e)
      PROVE  NamesKnown'
  BY <1>17 DEF MoveAddress, asking, IInv, AccountsTypeOK, NamesKnown, Proceed, GoOn, Found,
     FoundAndRead, FinishWith, Finish
<1>18. CASE UNCHANGED accountVars
  BY <1>18 DEF accountVars, asking, accountHistory, IInv, AccountsTypeOK, NamesKnown, Proceed,
     GoOn, Found, FoundAndRead, FinishWith, Finish
<1>19. QED
  BY <1>1, <1>2, <1>3, <1>4, <1>5, <1>6, <1>7, <1>8, <1>9, <1>10, <1>11, <1>12, <1>13, <1>14,
     <1>15, <1>16, <1>17, <1>18 DEF AccountsNext

-----------------------------------------------------------------------------
LEMMA NextIInv == IInv /\ [AccountsNext]_accountVars => IInv'
BY NextAskingFits, NextCaught, NextDistinct, NextRowsVouched, NextRequestsVouched,
   NextNamesKnown DEF IInv

LEMMA Invariance == AccountsSpec => []IInv
BY InitIInv, NextIInv, PTL DEF AccountsSpec

\* Every row, request and history stays what it is declared to be, in particular
\* what a sign-in reads from a row that another writes.
THEOREM AccountsTyped == AccountsSpec => []AccountsTypeOK
BY Invariance, PTL DEF IInv

\* A deactivated account hands out tokens to nobody who had not found it before,
\* with any number of sign-ins at a time.
THEOREM DeactivatedStayOut == AccountsSpec => []DeactivatedStaysOut
<1>1. IInv => DeactivatedStaysOut
  BY DEF IInv, Caught, DeactivatedStaysOut, Held
<1>2. QED
  BY <1>1, Invariance, PTL

\* A sign-in with Google ends in the account that is linked to the identity, and
\* only one is, as long as no address changes hands at Google: of all addresses
\* and identities.
THEOREM IdentityKept == AccountsSpec => []IdentityKeepsItsAccount
<1>1. ASSUME IInv PROVE IdentityKeepsItsAccount
  <2>1. ASSUME NEW h \in Slot, step[h] = "tokens", request[h].kind = "google",
               account[h] \notin moved
        PROVE  Linked(account[h], request[h].sub)
    <3>1. /\ account[h] \in Email /\ Exists(account[h])
          /\ accounts[account[h]].provider = "GOOGLE"
          /\ Vouched(account[h], request[h].sub) /\ request[h].sub \in Sub
      BY <1>1, <2>1, HeldIs DEF Held, IInv, RequestsVouched, AskingFits
    <3>2. /\ accounts[account[h]].sub \in Sub
          /\ Vouched(account[h], accounts[account[h]].sub)
      BY <1>1, <3>1 DEF IInv, RowsVouched
    <3>3. accounts[account[h]].sub = request[h].sub
      BY <1>1, <2>1, <3>1, <3>2, NamesAssumption DEF Vouched, Distinct, IInv
    <3>4. QED
      BY <3>1, <3>3 DEF Linked
  <2>2. ASSUME NEW g \in Sub, NEW e \in Email \ moved, NEW f \in Email \ moved,
               Linked(e, g), Linked(f, g)
        PROVE  e = f
    BY <1>1, <2>2 DEF Linked, IInv, RowsVouched, Vouched
  <2>3. QED
    BY <2>1, <2>2 DEF IdentityKeepsItsAccount
<1>2. QED
  BY <1>1, Invariance, PTL

\* No step gives an account a name nobody says, or clears it but for an edit that
\* does, whatever signs in and is edited at the same time, but for a stale sign-in.
THEOREM NamesAreSaid == AccountsSpec => NameSaid
<1> DEFINE Said == \A e \in Email : Exists(e) /\ accounts'[e].name # accounts[e].name =>
           \E h \in Slot :
               /\ account[h] = e
               /\ step[h] \in {"update", "write"}
               /\ \/ /\ request[h].name = accounts'[e].name
                     /\ request[h].kind = "edit" \/ request[h].name # NoName
                  \/ h \in stale
<1>1. ASSUME IInv, [AccountsNext]_accountVars PROVE Said
  <2>1. CASE UNCHANGED accounts
    BY <2>1
  <2>2. ASSUME NEW h \in Slot, CreateAccount(h) PROVE Said
    <3>1. CASE ~Exists(request[h].email)
      BY <1>1, <2>2, <3>1, CreateWrites DEF Written, IInv, AccountsTypeOK
    <3>2. CASE UNCHANGED accounts
      BY <2>1, <3>2
    <3>3. QED
      BY <2>2, <3>1, <3>2 DEF CreateAccount
  <2>3. ASSUME NEW h \in Slot, UpdateFromGoogle(h) PROVE Said
    <3>1. PICK row : /\ Written(account[h], row)
                     /\ row.name = NameOfGoogle(request[h], read[h])
      BY <1>1, <2>3, GoogleWrites
    <3>2. step[h] = "update" /\ (h \in stale \/ read[h].name = accounts[account[h]].name)
      BY <1>1, <2>3 DEF UpdateFromGoogle, IInv, NamesKnown
    <3>3. request[h].name \in Name \cup {NoName}
      BY <1>1 DEF IInv, AccountsTypeOK, Asking
    <3>4. \A e \in Email : accounts'[e] = IF e = account[h] THEN row ELSE accounts[e]
      BY <1>1, <3>1 DEF Written, IInv, AccountsTypeOK
    <3>5. QED
      BY <3>1, <3>2, <3>3, <3>4 DEF NameOfGoogle
  <2>4. ASSUME NEW h \in Slot, WriteProfile(h) PROVE Said
    <3>1. PICK row : Written(account[h], row) /\ row.name = request[h].name
      BY <1>1, <2>4, ProfileWrites
    <3>2. step[h] = "write" /\ request[h].kind = "edit"
      BY <2>4 DEF WriteProfile
    <3>3. QED
      BY <1>1, <3>1, <3>2 DEF Written, IInv, AccountsTypeOK
  <2>5. ASSUME NEW h \in Slot, WriteDeleted(h) PROVE Said
    <3>1. PICK row : Written(account[h], row) /\ row.name = accounts[account[h]].name
      BY <1>1, <2>5, DeletionWrites
    <3>2. QED
      BY <1>1, <3>1 DEF Written, IInv, AccountsTypeOK
  <2>6. QED
    BY <1>1, <2>1, <2>2, <2>3, <2>4, <2>5 DEF AccountsNext, accountVars, asking, Ask, Register,
       LoginRequest, GoogleLogin,
     EditProfile, DeleteAccount, FindForRegister, FindForLogin, VerifyAccessToken, FindByGoogle,
     HandOutTokens, FindUser, FailRequest, MoveAddress
<1>2. IInv /\ [AccountsNext]_accountVars => [Said]_accountVars
  BY <1>1
<1>3. QED
  BY <1>2, Invariance, PTL DEF AccountsSpec, NameSaid
=============================================================================
