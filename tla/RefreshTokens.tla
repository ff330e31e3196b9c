---------------------------- MODULE RefreshTokens ----------------------------
(***************************************************************************)
(* The sessions of the users: rows of refresh_tokens, each presented once  *)
(* by its client to be exchanged for the next.  TokenService reads a row,  *)
(* decides, revokes it and creates the next one in separate awaited calls  *)
(* without a transaction, while sign-ins, other exchanges, logouts, the    *)
(* deactivation of the account and the nightly clean-up go on.             *)
(*                                                                         *)
(* A request is a member of Request and runs once.  Tokens are random, so  *)
(* the request that creates a token stands for it.  Each step is one call  *)
(* with the code up to the next.  Any token that was handed out can be     *)
(* presented, including one presented before or since deleted.             *)
(***************************************************************************)
EXTENDS FiniteSets

CONSTANTS
    User,
    Request,      \* sign-ins and exchanges
    NoToken       \* a sign-in presents no token

ASSUME RequestAssumption == NoToken \notin Request /\ IsFiniteSet(Request)

VARIABLES
    state,        \* of the token a request creates: its row, if any
    expired,      \* tokens past their expiresAt
    owner,        \* the user a request is served for
    parent,       \* the token a request presents
    pc,           \* the call a request issues next
    deactivated,  \* users with deletedAt set
    caught,       \* history: requests under way when their user was deactivated
    late,         \* history: tokens created for a deactivated user
    withdrawn,    \* history: users whose tokens were all revoked and who have
                  \* not signed in since
    overlapped    \* history: a request has come while another was under way

rows == <<state, expired, owner, parent>>
history == <<caught, late, withdrawn>>
vars == <<rows, pc, deactivated, history, overlapped>>

InFlight == {"login.read", "login.issue", "rotate.find", "rotate.revokeAll",
             "rotate.delete", "rotate.revoke", "rotate.issue"}

TypeOK ==
    /\ state \in [Request -> {"none", "live", "revoked", "deleted"}]
    /\ expired \subseteq Request
    /\ owner \in [Request -> User]
    /\ parent \in [Request -> Request \cup {NoToken}]
    /\ pc \in [Request -> {"new", "done"} \cup InFlight]
    /\ deactivated \subseteq User
    /\ caught \subseteq Request
    /\ late \subseteq Request
    /\ withdrawn \subseteq User
    /\ overlapped \in BOOLEAN

Init ==
    /\ state = [r \in Request |-> "none"]
    /\ expired = {}
    /\ owner \in [Request -> User]
    /\ parent = [r \in Request |-> NoToken]
    /\ pc = [r \in Request |-> "new"]
    /\ deactivated = {}
    /\ caught = {}
    /\ late = {}
    /\ withdrawn = {}
    /\ overlapped = FALSE

-----------------------------------------------------------------------------
Goto(r, label) == pc' = [pc EXCEPT ![r] = label]

\* A request comes, perhaps while others are under way.
Comes == overlapped' = (overlapped \/ \E q \in Request : pc[q] \in InFlight)

Issued == {r \in Request : state[r] # "none"}
Stored == {r \in Request : state[r] \in {"live", "revoked"}}
TokensOf(u) == {r \in Request : owner[r] = u}

Live(S) == {r \in S : state[r] = "live"}

\* updateMany: the tokens of S that are not revoked yet get a revokedAt.
Revoke(S) == [r \in Request |-> IF r \in Live(S) THEN "revoked" ELSE state[r]]

\* generateTokens
Issue(r) == /\ state' = [state EXCEPT ![r] = "live"]
            /\ late' = IF owner[r] \in deactivated THEN late \cup {r} ELSE late
            /\ Goto(r, "done")

-----------------------------------------------------------------------------
(* login, googleLogin: the user is read, then a token is created           *)

Login(r) == /\ pc[r] = "new"
            /\ Comes
            /\ Goto(r, "login.read")
            /\ UNCHANGED <<rows, deactivated, history>>

ReadUser(r) ==
    /\ pc[r] = "login.read"
    /\ Goto(r, IF owner[r] \in deactivated THEN "done" ELSE "login.issue")
    /\ UNCHANGED <<rows, deactivated, history, overlapped>>

IssueAtLogin(r) == /\ pc[r] = "login.issue"
                   /\ Issue(r)
                   /\ withdrawn' = withdrawn \ {owner[r]}
                   /\ UNCHANGED <<expired, owner, parent, deactivated,
                                  caught, overlapped>>

-----------------------------------------------------------------------------
(* rotateRefreshToken                                                      *)

Rotate(r, token) ==
    /\ pc[r] = "new"
    /\ Comes
    /\ token \in Issued
    /\ parent' = [parent EXCEPT ![r] = token]
    /\ owner' = [owner EXCEPT ![r] = owner[token]]
    /\ Goto(r, "rotate.find")
    /\ UNCHANGED <<state, expired, deactivated, history>>

\* Mutants: the user's deactivation, or the token's revocation, is overlooked.
AfterFindOfAnyUser(token) ==
    CASE token \notin Stored             -> "done"
      [] state[token] = "revoked"        -> "rotate.revokeAll"
      [] token \in expired               -> "rotate.delete"
      [] OTHER                           -> "rotate.revoke"
AfterFindOfUsed(token) ==
    CASE token \notin Stored             -> "done"
      [] token \in expired               -> "rotate.delete"
      [] owner[token] \in deactivated    -> "done"
      [] OTHER                           -> "rotate.revoke"

\* What the row that was found leads to, in the order of the checks.
AfterFind(token) ==
    CASE token \notin Stored             -> "done"
      [] state[token] = "revoked"        -> "rotate.revokeAll"
      [] token \in expired               -> "rotate.delete"
      [] owner[token] \in deactivated    -> "done"
      [] OTHER                           -> "rotate.revoke"

FindToken(r) == /\ pc[r] = "rotate.find"
                /\ Goto(r, AfterFind(parent[r]))
                /\ UNCHANGED <<rows, deactivated, history, overlapped>>

\* Mutant: only the token that was presented is revoked.
RevokeOnlyReused(r) ==
    /\ pc[r] = "rotate.revokeAll"
    /\ state' = Revoke({parent[r]})
    /\ withdrawn' = withdrawn \cup {owner[r]}
    /\ Goto(r, "done")
    /\ UNCHANGED <<expired, owner, parent, deactivated, caught, late,
                   overlapped>>

\* A token presented a second time ends every session of its user.
RevokeAllOnReuse(r) ==
    /\ pc[r] = "rotate.revokeAll"
    /\ state' = Revoke(TokensOf(owner[r]))
    /\ withdrawn' = withdrawn \cup {owner[r]}
    /\ Goto(r, "done")
    /\ UNCHANGED <<expired, owner, parent, deactivated, caught, late,
                   overlapped>>

\* The delete throws when the clean-up was faster; the answer is an error
\* either way.
DeleteExpired(r) ==
    /\ pc[r] = "rotate.delete"
    /\ state' = [state EXCEPT ![parent[r]] = "deleted"]
    /\ Goto(r, "done")
    /\ UNCHANGED <<expired, owner, parent, deactivated, history, overlapped>>

\* Mutant: the old token is left live.
RevokeUsedForgotten(r) == /\ pc[r] = "rotate.revoke"
                          /\ parent[r] \in Stored
                          /\ Goto(r, "rotate.issue")
                          /\ UNCHANGED <<rows, deactivated, history,
                                         overlapped>>

\* Revoked by its id alone: whether it is still live is not asked again.
RevokeUsed(r) == /\ pc[r] = "rotate.revoke"
                 /\ parent[r] \in Stored
                 /\ state' = [state EXCEPT ![parent[r]] = "revoked"]
                 /\ Goto(r, "rotate.issue")
                 /\ UNCHANGED <<expired, owner, parent, deactivated, history,
                                overlapped>>

\* The update throws: the clean-up has deleted the row.
RevokeFails(r) == /\ pc[r] = "rotate.revoke"
                  /\ parent[r] \notin Stored
                  /\ Goto(r, "done")
                  /\ UNCHANGED <<rows, deactivated, history, overlapped>>

IssueNext(r) == /\ pc[r] = "rotate.issue"
                /\ Issue(r)
                /\ UNCHANGED <<expired, owner, parent, deactivated, caught,
                               withdrawn, overlapped>>

\* A call throws or the process stops: the client gets no token, and one that
\* was revoked stays so.
Fail(r) == /\ pc[r] \in InFlight
           /\ Goto(r, "done")
           /\ UNCHANGED <<rows, deactivated, history, overlapped>>

-----------------------------------------------------------------------------
(* Logout and deactivation, requests of one call each, and the clean-up    *)

LogoutOne(token) == /\ Comes
                    /\ state[token] = "live"
                    /\ state' = Revoke({token})
                    /\ UNCHANGED <<expired, owner, parent, pc, deactivated,
                                   history>>

LogoutAll(u) == /\ Comes
                /\ Live(TokensOf(u)) # {}
                /\ state' = Revoke(TokensOf(u))
                /\ withdrawn' = withdrawn \cup {u}
                /\ UNCHANGED <<expired, owner, parent, pc, deactivated,
                               caught, late>>

\* softDelete leaves the tokens of the user as they are.
SoftDelete(u) ==
    /\ Comes
    /\ u \notin deactivated
    /\ deactivated' = deactivated \cup {u}
    /\ caught' = caught \cup {r \in TokensOf(u) : pc[r] \in InFlight}
    /\ UNCHANGED <<rows, pc, late, withdrawn>>

Expire(token) == /\ token \in Stored \ expired
                 /\ expired' = expired \cup {token}
                 /\ UNCHANGED <<state, owner, parent, pc, deactivated,
                                history, overlapped>>

\* cleanupExpiredTokens
Removable == {r \in Stored : r \in expired \/ state[r] = "revoked"}

CleanUp ==
    /\ Removable # {}
    /\ state' = [r \in Request |-> IF r \in Removable THEN "deleted" ELSE state[r]]
    /\ UNCHANGED <<expired, owner, parent, pc, deactivated, history,
                   overlapped>>

-----------------------------------------------------------------------------
Arrive(r) == Login(r) \/ \E token \in Request : Rotate(r, token)

Continue(r) == \/ ReadUser(r) \/ IssueAtLogin(r)
               \/ FindToken(r) \/ RevokeAllOnReuse(r) \/ DeleteExpired(r)
               \/ RevokeUsed(r) \/ RevokeFails(r) \/ IssueNext(r)

Next == \/ \E r \in Request : Arrive(r) \/ Continue(r) \/ Fail(r)
        \/ \E token \in Request : LogoutOne(token) \/ Expire(token)
        \/ \E u \in User : LogoutAll(u) \/ SoftDelete(u)
        \/ CleanUp

Spec == Init /\ [][Next]_vars

-----------------------------------------------------------------------------
(* What holds however the requests interleave                              *)

\* A client that holds a token got by an exchange cannot use the token it
\* exchanged any more: the old one is revoked or deleted before the new one
\* exists, and nothing brings it back.
ParentSpent == \A r \in Issued :
    parent[r] # NoToken => state[parent[r]] \in {"revoked", "deleted"}

\* Deactivating an account leaves its tokens in the table, and yet they buy
\* nothing: a token created for a deactivated user was created by a request
\* that was already under way at the deactivation.
LateTokensWereUnderWay == late \subseteq caught

-----------------------------------------------------------------------------
(* What the comments of the service say, which requests served one at a    *)
(* time guarantee and concurrent ones do not                               *)

\* Exchanging a token uses it up: no two tokens come from the same one.
TokenUsedOnce == \A q, r \in Issued :
    parent[q] = parent[r] /\ parent[q] # NoToken => q = r

\* Once all the tokens of a user are revoked, by a logout from all devices or
\* because one was presented twice, the user has no session until signing in.
NoSessionAfterRevokeAll == \A u \in withdrawn : Live(TokensOf(u)) = {}

\* As long as no request has come while another was under way, whatever has
\* failed half-way, expired or been cleaned up meanwhile, a token is exchanged
\* once...
UsedOnceInTurn == ~overlapped => TokenUsedOnce

\* ... and revoking all the tokens of a user leaves no session behind.
SessionsEndInTurn == ~overlapped => NoSessionAfterRevokeAll
=============================================================================
