------------------------- MODULE RefreshTokensProofs -------------------------
(***************************************************************************)
(* What an exchange of a refresh token guarantees in spite of running      *)
(* without a transaction, for any number of users and of requests.         *)
(*                                                                         *)
(* The argument: a request that is about to create a token has itself seen *)
(* its old token revoked, and no step makes a revoked token live again; it *)
(* has also seen its user active, so if the user is deactivated by now it  *)
(* was under way when that happened.  When requests come one at a time, an *)
(* exchange moreover still finds at its end what it read at its beginning: *)
(* nothing has been created from its token, and its user's tokens have not *)
(* been revoked.                                                           *)
(***************************************************************************)
EXTENDS RefreshTokens, TLAPS

Issuing == {"login.issue", "rotate.revoke", "rotate.issue"}
Exchanging == {"rotate.find", "rotate.revokeAll", "rotate.delete",
               "rotate.revoke", "rotate.issue"}

\* A request creates its token in its last step.
IssuedLast == \A r \in Request :
    pc[r] \in {"new"} \cup InFlight => state[r] = "none"

\* What is exchanged is a token that was handed out, to the same user.
ParentIssued == \A r \in Request : parent[r] # NoToken =>
    state[parent[r]] # "none" /\ owner[parent[r]] = owner[r]

ParentPresented == \A r \in Request :
    /\ pc[r] \in Exchanging => parent[r] # NoToken
    /\ pc[r] \in {"new", "login.read", "login.issue"} => parent[r] = NoToken

UsedBeforeIssue == \A r \in Request : pc[r] = "rotate.issue" =>
    state[parent[r]] \in {"revoked", "deleted"}

\* A request past the check of its user either serves an active user or was
\* under way when the user was deactivated.
IssuingCaught == \A r \in Request :
    pc[r] \in Issuing /\ owner[r] \in deactivated => r \in caught

IInv == /\ TypeOK /\ IssuedLast /\ ParentIssued /\ ParentPresented
        /\ UsedBeforeIssue /\ IssuingCaught
        /\ ParentSpent /\ LateTokensWereUnderWay

USE DEF IInv, TypeOK, IssuedLast, ParentIssued, ParentPresented,
        UsedBeforeIssue, IssuingCaught, ParentSpent, LateTokensWereUnderWay,
        Comes, InFlight, Issuing, Exchanging, rows, history, Goto, Issued, Stored

LEMMA InitIInv == Init => IInv
BY RequestAssumption DEF Init

LEMMA NextIInv == IInv /\ [Next]_vars => IInv'
<1> SUFFICES ASSUME IInv, [Next]_vars PROVE IInv'
  OBVIOUS
<1> USE RequestAssumption
<1>1. ASSUME NEW r \in Request, Login(r)
      PROVE  IInv'
  BY <1>1 DEF Login
<1>2. ASSUME NEW r \in Request, NEW token \in Request, Rotate(r, token)
      PROVE  IInv'
  BY <1>2 DEF Rotate
<1>3. ASSUME NEW r \in Request, ReadUser(r)
      PROVE  IInv'
  BY <1>3 DEF ReadUser
<1>4. ASSUME NEW r \in Request, IssueAtLogin(r) \/ IssueNext(r)
      PROVE  IInv'
  <2>1. TypeOK' /\ IssuedLast' /\ ParentPresented'
    BY <1>4 DEF IssueAtLogin, IssueNext, Issue
  <2>2. r \notin {parent[q] : q \in Request}
    BY <1>4 DEF IssueAtLogin, IssueNext
  <2>3. UsedBeforeIssue' /\ IssuingCaught' /\ ParentSpent' /\ ParentIssued'
    BY <1>4, <2>2 DEF IssueAtLogin, IssueNext, Issue
  <2>4. LateTokensWereUnderWay'
    BY <1>4 DEF IssueAtLogin, IssueNext, Issue
  <2>5. QED
    BY <2>1, <2>3, <2>4
<1>5. ASSUME NEW r \in Request, FindToken(r)
      PROVE  IInv'
  BY <1>5 DEF FindToken, AfterFind
<1>6. ASSUME NEW r \in Request, RevokeAllOnReuse(r)
      PROVE  IInv'
  BY <1>6 DEF RevokeAllOnReuse, Revoke, Live, TokensOf
<1>7. ASSUME NEW r \in Request, DeleteExpired(r)
      PROVE  IInv'
  BY <1>7 DEF DeleteExpired
<1>8. ASSUME NEW r \in Request, RevokeUsed(r)
      PROVE  IInv'
  BY <1>8 DEF RevokeUsed
<1>9. ASSUME NEW r \in Request, RevokeFails(r) \/ Fail(r)
      PROVE  IInv'
  BY <1>9 DEF RevokeFails, Fail
<1>10. ASSUME NEW token \in Request, LogoutOne(token) \/ Expire(token)
       PROVE  IInv'
  <2>1. CASE LogoutOne(token)
    BY <2>1 DEF LogoutOne, Revoke, Live
  <2>2. CASE Expire(token)
    BY <2>2 DEF Expire
  <2>3. QED
    BY <1>10, <2>1, <2>2
<1>11. ASSUME NEW u \in User, LogoutAll(u)
       PROVE  IInv'
  BY <1>11 DEF LogoutAll, Revoke, Live, TokensOf
<1>12. ASSUME NEW u \in User, SoftDelete(u)
       PROVE  IInv'
  BY <1>12 DEF SoftDelete, TokensOf
<1>13. CASE CleanUp
  BY <1>13 DEF CleanUp, Removable
<1>14. CASE UNCHANGED vars
  BY <1>14 DEF vars
<1>15. QED
  BY <1>1, <1>2, <1>3, <1>4, <1>5, <1>6, <1>7, <1>8, <1>9, <1>10, <1>11,
     <1>12, <1>13, <1>14 DEF Next, Arrive, Continue

LEMMA InductiveInvariant == Spec => []IInv
BY InitIInv, NextIInv, PTL DEF Spec

\* Every variable of RefreshTokens keeps its type.
THEOREM TokensTyped == Spec => []TypeOK
<1>1. IInv => TypeOK
  BY DEF IInv
<1>2. QED
  BY <1>1, InductiveInvariant, PTL

\* However many exchanges race, the token that was exchanged is dead as soon
\* as the one it was exchanged for exists.
THEOREM ExchangeSpends == Spec => []ParentSpent
<1>1. IInv => ParentSpent
  BY DEF IInv
<1>2. QED
  BY <1>1, InductiveInvariant, PTL

\* No request that starts after an account is deactivated creates a token.
THEOREM DeactivationHolds == Spec => []LateTokensWereUnderWay
<1>1. IInv => LateTokensWereUnderWay
  BY DEF IInv
<1>2. QED
  BY <1>1, InductiveInvariant, PTL

-----------------------------------------------------------------------------
(* Requests that come one at a time                                        *)

Exchanged(r) == \E q \in Issued : parent[q] = parent[r]

OneUnderWay == \A q, r \in Request :
    pc[q] \in InFlight /\ pc[r] \in InFlight => q = r

\* What an exchange has read about its token and its user is still so.
ReadIsCurrent == \A r \in Request : pc[r] \in {"rotate.revoke", "rotate.issue"} =>
    ~Exchanged(r) /\ owner[r] \notin withdrawn

InTurn == ~overlapped => /\ OneUnderWay /\ ReadIsCurrent
                         /\ TokenUsedOnce /\ NoSessionAfterRevokeAll

USE DEF InTurn, OneUnderWay, ReadIsCurrent, Exchanged, TokenUsedOnce,
        NoSessionAfterRevokeAll, Live, TokensOf

LEMMA InitInTurn == Init => InTurn
BY DEF Init

LEMMA NextInTurn == IInv /\ InTurn /\ [Next]_vars => InTurn'
<1> SUFFICES ASSUME IInv, InTurn, [Next]_vars, ~overlapped' PROVE InTurn'
  OBVIOUS
<1> USE RequestAssumption
<1>0. ~overlapped
  BY DEF Next, vars, Arrive, Continue, Login, Rotate, ReadUser, IssueAtLogin,
         FindToken, RevokeAllOnReuse, DeleteExpired, RevokeUsed, RevokeFails,
         IssueNext, Fail, LogoutOne, LogoutAll, SoftDelete, Expire, CleanUp
<1>a. ASSUME Comes
      PROVE  \A q \in Request : pc[q] \notin InFlight
  BY <1>a, Zenon DEF Comes
<1>1. ASSUME NEW r \in Request, Login(r)
      PROVE  InTurn'
  <2>1. \A q \in Request : pc[q] \notin InFlight
    BY <1>1, <1>a DEF Login
  <2>2. QED
    BY <1>0, <1>1, <2>1 DEF Login
<1>2. ASSUME NEW r \in Request, NEW token \in Request, Rotate(r, token)
      PROVE  InTurn'
  <2>1. \A q \in Request : pc[q] \notin InFlight
    BY <1>2, <1>a DEF Rotate
  <2>2. state[r] = "none" /\ r # token /\ r \notin {parent[q] : q \in Request}
    BY <1>2 DEF Rotate
  <2>3. TokenUsedOnce' /\ NoSessionAfterRevokeAll'
    BY <1>0, <1>2, <2>2 DEF Rotate
  <2>4. OneUnderWay' /\ ReadIsCurrent'
    BY <1>2, <2>1 DEF Rotate
  <2>5. QED
    BY <2>3, <2>4
<1>3. ASSUME NEW r \in Request, ReadUser(r)
      PROVE  InTurn'
  BY <1>0, <1>3 DEF ReadUser
<1>4. ASSUME NEW r \in Request, IssueAtLogin(r)
      PROVE  InTurn'
  BY <1>0, <1>4 DEF IssueAtLogin, Issue
<1>5. ASSUME NEW r \in Request, IssueNext(r)
      PROVE  InTurn'
  <2>1. /\ \A q \in Request : q # r => pc[q] \notin InFlight
        /\ OneUnderWay' /\ ReadIsCurrent'
    BY <1>0, <1>5 DEF IssueNext, Issue
  <2>2. TokenUsedOnce'
    BY <1>0, <1>5 DEF IssueNext, Issue
  <2>3. NoSessionAfterRevokeAll'
    BY <1>0, <1>5 DEF IssueNext, Issue
  <2>4. QED
    BY <2>1, <2>2, <2>3
<1>6. ASSUME NEW r \in Request, FindToken(r)
      PROVE  InTurn'
  BY <1>0, <1>6 DEF FindToken, AfterFind
<1>7. ASSUME NEW r \in Request, RevokeAllOnReuse(r)
      PROVE  InTurn'
  BY <1>0, <1>7 DEF RevokeAllOnReuse, Revoke
<1>8. ASSUME NEW r \in Request, DeleteExpired(r)
      PROVE  InTurn'
  BY <1>0, <1>8 DEF DeleteExpired
<1>9. ASSUME NEW r \in Request, RevokeUsed(r)
      PROVE  InTurn'
  BY <1>0, <1>9 DEF RevokeUsed
<1>10. ASSUME NEW r \in Request, RevokeFails(r) \/ Fail(r)
       PROVE  InTurn'
  BY <1>0, <1>10 DEF RevokeFails, Fail
<1>11. ASSUME NEW token \in Request, LogoutOne(token)
       PROVE  InTurn'
  BY <1>0, <1>11 DEF LogoutOne, Revoke
<1>12. ASSUME NEW token \in Request, Expire(token)
       PROVE  InTurn'
  BY <1>0, <1>12 DEF Expire
<1>13. ASSUME NEW u \in User, LogoutAll(u)
       PROVE  InTurn'
  <2>1. \A q \in Request : pc[q] \notin InFlight
    BY <1>13, <1>a DEF LogoutAll
  <2>2. OneUnderWay' /\ ReadIsCurrent'
    BY <1>13, <2>1 DEF LogoutAll
  <2>3. TokenUsedOnce'
    BY <1>0, <1>13 DEF LogoutAll, Revoke
  <2>4. NoSessionAfterRevokeAll'
    BY <1>0, <1>13 DEF LogoutAll, Revoke
  <2>5. QED
    BY <2>2, <2>3, <2>4
<1>14. ASSUME NEW u \in User, SoftDelete(u)
       PROVE  InTurn'
  BY <1>0, <1>14 DEF SoftDelete
<1>15. CASE CleanUp
  BY <1>0, <1>15 DEF CleanUp, Removable
<1>16. CASE UNCHANGED vars
  BY <1>0, <1>16 DEF vars
<1>17. QED
  BY <1>1, <1>2, <1>3, <1>4, <1>5, <1>6, <1>7, <1>8, <1>9, <1>10, <1>11,
     <1>12, <1>13, <1>14, <1>15, <1>16 DEF Next, Arrive, Continue

LEMMA InTurnHolds == Spec => []InTurn
BY InitInTurn, NextInTurn, InductiveInvariant, PTL DEF Spec

\* Served one request at a time, with any call failing and the clean-up at any
\* moment, the service never exchanges a token twice.
THEOREM ExchangedOnceInTurn == Spec => []UsedOnceInTurn
<1>1. InTurn => UsedOnceInTurn
  BY DEF UsedOnceInTurn
<1>2. QED
  BY <1>1, InTurnHolds, PTL

\* Served one request at a time, revoking all the tokens of a user holds until
\* the user signs in.
THEOREM RevocationHoldsInTurn == Spec => []SessionsEndInTurn
<1>1. InTurn => SessionsEndInTurn
  BY DEF SessionsEndInTurn
<1>2. QED
  BY <1>1, InTurnHolds, PTL
=============================================================================
