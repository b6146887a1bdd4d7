--------------------------------- MODULE Accounts ---------------------------------
(***************************************************************************)
(* Signing in and being invited: AuthService and OrganizationsService, and *)
(* between them and a browser the web server, which keeps the refresh      *)
(* token in a cookie, renews it when the API answers 401, and sends the    *)
(* renewed one along with its answer.                                      *)
(*                                                                         *)
(* A refresh token is used up by the renewal that it pays for.  Two        *)
(* requests of one page both take it from the same cookie, and their       *)
(* answers arrive in any order.                                            *)
(***************************************************************************)
EXTENDS PlatformTables

AccountSteps == {"idle", "createUser", "createToken", "findMembership", "createMembership",
                 "createReset", "setPassword", "acceptInvitations", "markUsed", "revokeAll",
                 "createOrganization", "createAccount"}
WebSteps == {"idle", "forward", "findSession", "revoke", "issue", "respond", "logout", "clear"}
MembershipStatuses == {"NONE", "INVITED", "ACTIVE", "DEACTIVATED"}

(* Why a Session row has its revokedAt, or why it counts as expired.       *)
Ends == {"no", "rotated", "loggedOut", "revoked", "reset", "expired"}

IdleAccount == [at |-> "idle", user |-> Nobody, organization |-> Nothing, token |-> 0,
                known |-> FALSE]

(* cookie is the refresh token that came with the request, issued the one  *)
(* that the answer will bring; a token is the number of its session.       *)
IdleWeb == [at |-> "idle", route |-> "none", user |-> Nobody, cookie |-> 0, issued |-> 0]

AccountsTypeOK ==
    /\ passwords \in [Users -> {"none", "unusable", "set"}]
    /\ resetTokens \in [Users -> SUBSET Nat]
    /\ tokensIssued \in Nat
    /\ organizations \in SUBSET Organizations
    /\ members \in [Organizations \X Users -> MembershipStatuses]
    /\ joined \in SUBSET (Organizations \X Users)
    /\ sessionRows \in Seq([user : Users, ended : Ends])
    /\ browser \in [cookie : Nat, lost : BOOLEAN]
    /\ accounting \in [Requests -> [at : AccountSteps, user : Users \cup {Nobody},
                                    organization : Organizations \cup {Nothing},
                                    token : Nat, known : BOOLEAN]]
    /\ web \in [WebRequests -> [at : WebSteps,
                                route : {"none", "login", "proxy", "refresh", "logout"},
                                user : Users \cup {Nobody}, cookie : Nat, issued : Nat]]

AccountsInit ==
    /\ passwords = [u \in Users |-> IF u \in scenario.registered THEN "set" ELSE "none"]
    /\ resetTokens = [u \in Users |-> {}]
    /\ tokensIssued = 0
    /\ organizations = scenario.organizations
    /\ members = [m \in Organizations \X Users |-> "NONE"]
    /\ joined = {}
    /\ sessionRows = <<>>
    /\ browser = [cookie |-> 0, lost |-> FALSE]
    /\ accounting = [p \in Requests |-> IdleAccount]
    /\ web = [w \in WebRequests |-> IdleWeb]

-----------------------------------------------------------------------------
(* OrganizationsService and the users' part of AuthService.                *)
ElsewhereFromUsers ==
    UNCHANGED <<scenario, browser, web, jobVars, reminderVars, trackVars>>

BeginAccount(p, call, request) ==
    /\ Called(call) /\ p \in scenario.requests
    /\ accounting[p] = IdleAccount
    /\ accounting' = [accounting EXCEPT ![p] = request]
    /\ UNCHANGED <<userTables, sessionRows>>
    /\ ElsewhereFromUsers

AccountGoto(p, step) == accounting' = [accounting EXCEPT ![p].at = step]
AccountEnds(p) == accounting' = [accounting EXCEPT ![p] = IdleAccount]

NewToken(u) ==
    /\ tokensIssued' = tokensIssued + 1
    /\ resetTokens' = [resetTokens EXCEPT ![u] = @ \cup {tokensIssued + 1}]

(* inviteMember: a user without an account gets one, and a token to set a  *)
(* password with; the membership comes last.                               *)
InviteMember(p, o, u) ==
    /\ o \in organizations
    /\ tokensIssued < MaxTokens
    /\ BeginAccount(p, "inviteMember",
           [IdleAccount EXCEPT !.at = IF passwords[u] = "none" THEN "createUser"
                                      ELSE "findMembership",
                               !.user = u, !.organization = o])

CreateUser(p) ==
    LET u == accounting[p].user IN
    /\ accounting[p].at = "createUser"
    /\ IF passwords[u] = "none"
       THEN passwords' = [passwords EXCEPT ![u] = "unusable"] /\ AccountGoto(p, "createToken")
       ELSE AccountEnds(p) /\ UNCHANGED passwords
    /\ UNCHANGED <<resetTokens, tokensIssued, organizations, members, joined, sessionRows>>
    /\ ElsewhereFromUsers

CreateToken(p) ==
    /\ accounting[p].at = "createToken"
    /\ NewToken(accounting[p].user)
    /\ AccountGoto(p, "findMembership")
    /\ UNCHANGED <<passwords, organizations, members, joined, sessionRows>>
    /\ ElsewhereFromUsers

Membership(p) == <<accounting[p].organization, accounting[p].user>>

FindMembership(p) ==
    /\ accounting[p].at = "findMembership"
    /\ IF members[Membership(p)] = "NONE" THEN AccountGoto(p, "createMembership")
       ELSE AccountEnds(p)
    /\ UNCHANGED <<userTables, sessionRows>>
    /\ ElsewhereFromUsers

(* The unique index keeps the first of two.                                *)
CreateMembership(p) ==
    /\ accounting[p].at = "createMembership"
    /\ members' = [members EXCEPT ![Membership(p)] = IF @ = "NONE" THEN "INVITED" ELSE @]
    /\ AccountEnds(p)
    /\ UNCHANGED <<passwords, resetTokens, tokensIssued, organizations, joined, sessionRows>>
    /\ ElsewhereFromUsers

(* updateMembershipStatus: an administrator's word, which accepts nothing. *)
UpdateMembershipStatus(o, u, new) ==
    /\ Called("updateMembership")
    /\ members[<<o, u>>] # "NONE"
    /\ members' = [members EXCEPT ![<<o, u>>] = new]
    /\ UNCHANGED <<passwords, resetTokens, tokensIssued, organizations, joined,
                   sessionRows, accounting>>
    /\ ElsewhereFromUsers

(* create: whether the owner has an account is read before the transaction.*)
CreateOrganization(p, o, u) ==
    /\ tokensIssued < MaxTokens
    /\ BeginAccount(p, "createOrganization",
           [IdleAccount EXCEPT !.at = "createOrganization", !.user = u, !.organization = o,
                               !.known = passwords[u] # "none"])

(* The transaction: a slug that is taken, or an owner who has got an       *)
(* account meanwhile, undoes all of it.                                    *)
CommitOrganization(p) ==
    LET o == accounting[p].organization
        u == accounting[p].user
    IN
    /\ accounting[p].at = "createOrganization"
    /\ IF o \in organizations \/ (~accounting[p].known /\ passwords[u] # "none")
       THEN UNCHANGED userTables
       ELSE /\ organizations' = organizations \cup {o}
            /\ members' = [members EXCEPT ![<<o, u>>] = "ACTIVE"]
            /\ IF accounting[p].known THEN UNCHANGED <<passwords, resetTokens, tokensIssued>>
               ELSE passwords' = [passwords EXCEPT ![u] = "unusable"] /\ NewToken(u)
            /\ UNCHANGED joined
    /\ AccountEnds(p)
    /\ UNCHANGED sessionRows
    /\ ElsewhereFromUsers

(* register.                                                               *)
Register(p, u) ==
    /\ passwords[u] = "none"
    /\ BeginAccount(p, "register", [IdleAccount EXCEPT !.at = "createAccount", !.user = u])

CreateAccount(p) ==
    /\ accounting[p].at = "createAccount"
    /\ passwords' = [passwords EXCEPT ![accounting[p].user] = IF @ = "none" THEN "set" ELSE @]
    /\ AccountEnds(p)
    /\ UNCHANGED <<resetTokens, tokensIssued, organizations, members, joined, sessionRows>>
    /\ ElsewhereFromUsers

(* requestPasswordReset.                                                   *)
RequestPasswordReset(p, u) ==
    /\ passwords[u] # "none"
    /\ tokensIssued < MaxTokens
    /\ BeginAccount(p, "passwordReset", [IdleAccount EXCEPT !.at = "createReset", !.user = u])

CreateReset(p) ==
    /\ accounting[p].at = "createReset"
    /\ NewToken(accounting[p].user)
    /\ AccountEnds(p)
    /\ UNCHANGED <<passwords, organizations, members, joined, sessionRows>>
    /\ ElsewhereFromUsers

(* confirmPasswordReset, which is also how an invitation is accepted: the  *)
(* password, the memberships, the token and the sessions, one by one.      *)
ConfirmPasswordReset(p, u, token) ==
    /\ token \in resetTokens[u]
    /\ BeginAccount(p, "confirm",
           [IdleAccount EXCEPT !.at = "setPassword", !.user = u, !.token = token])

(* Mutant: the invitations are accepted first.                             *)
SetPasswordLater(p) ==
    /\ accounting[p].at = "setPassword"
    /\ members' = [m \in Organizations \X Users |->
                     IF m[2] = accounting[p].user /\ members[m] = "INVITED" THEN "ACTIVE"
                     ELSE members[m]]
    /\ joined' = joined \cup {m \in Organizations \X Users :
                                m[2] = accounting[p].user /\ members[m] = "INVITED"}
    /\ AccountGoto(p, "acceptInvitations")
    /\ UNCHANGED <<passwords, resetTokens, tokensIssued, organizations, sessionRows>>
    /\ ElsewhereFromUsers

SetPassword(p) ==
    /\ accounting[p].at = "setPassword"
    /\ passwords' = [passwords EXCEPT ![accounting[p].user] = "set"]
    /\ AccountGoto(p, "acceptInvitations")
    /\ UNCHANGED <<resetTokens, tokensIssued, organizations, members, joined, sessionRows>>
    /\ ElsewhereFromUsers

Invited(u) == {m \in Organizations \X Users : m[2] = u /\ members[m] = "INVITED"}

AcceptInvitations(p) ==
    LET accepted == Invited(accounting[p].user) IN
    /\ accounting[p].at = "acceptInvitations"
    /\ members' = [m \in Organizations \X Users |-> IF m \in accepted THEN "ACTIVE" ELSE members[m]]
    /\ joined' = joined \cup accepted
    /\ AccountGoto(p, "markUsed")
    /\ UNCHANGED <<passwords, resetTokens, tokensIssued, organizations, sessionRows>>
    /\ ElsewhereFromUsers

MarkUsed(p) ==
    /\ accounting[p].at = "markUsed"
    /\ resetTokens' = [resetTokens EXCEPT ![accounting[p].user] = @ \ {accounting[p].token}]
    /\ AccountGoto(p, "revokeAll")
    /\ UNCHANGED <<passwords, tokensIssued, organizations, members, joined, sessionRows>>
    /\ ElsewhereFromUsers

(* What ends a session first is what its row says.                         *)
Ended(row, why) == IF row.ended = "no" THEN [row EXCEPT !.ended = why] ELSE row

RevokeAll(p) ==
    /\ accounting[p].at = "revokeAll"
    /\ sessionRows' = [s \in DOMAIN sessionRows |->
                          IF sessionRows[s].user = accounting[p].user
                          THEN Ended(sessionRows[s], "reset") ELSE sessionRows[s]]
    /\ AccountEnds(p)
    /\ UNCHANGED userTables
    /\ ElsewhereFromUsers

(* revokeSession, of the list that the user sees; a session that expires.  *)
EndSession(s, call, why) ==
    /\ Called(call)
    /\ sessionRows[s].ended = "no"
    /\ sessionRows' = [sessionRows EXCEPT ![s].ended = why]
    /\ UNCHANGED <<userTables, accounting>>
    /\ ElsewhereFromUsers

TokenExpires(u, token) ==
    /\ Called("tokenExpires")
    /\ resetTokens' = [resetTokens EXCEPT ![u] = @ \ {token}]
    /\ UNCHANGED <<passwords, tokensIssued, organizations, members, joined, sessionRows, accounting>>
    /\ ElsewhereFromUsers

AbortAccount(p) ==
    /\ Called("abort")
    /\ accounting[p] # IdleAccount
    /\ AccountEnds(p)
    /\ UNCHANGED <<userTables, sessionRows>>
    /\ ElsewhereFromUsers

-----------------------------------------------------------------------------
(* The web server's routes and what they call.                             *)
ElsewhereFromWeb ==
    UNCHANGED <<scenario, userTables, accounting, jobVars, reminderVars, trackVars>>

WebUnderWay == {w \in WebRequests : web[w] # IdleWeb}

BeginWeb(w, route, request) ==
    /\ Called(route)
    /\ web[w] = IdleWeb
    /\ Len(sessionRows) + Cardinality(WebUnderWay) < scenario.sessions
    /\ web' = [web EXCEPT ![w] = request]
    /\ UNCHANGED <<sessionRows, browser>>
    /\ ElsewhereFromWeb

WebGoto(w, step) == web' = [web EXCEPT ![w].at = step]
WebEnds(w) == web' = [web EXCEPT ![w] = IdleWeb]

(* login has compared the password.                                        *)
Login(w, u) ==
    /\ passwords[u] = "set"
    /\ BeginWeb(w, "login", [IdleWeb EXCEPT !.at = "issue", !.route = "login", !.user = u])

(* A call through the proxy, a client that renews its token, a logout: all *)
(* take the cookie that the browser has now.                               *)
CallProxy(w) ==
    BeginWeb(w, "proxy", [IdleWeb EXCEPT !.at = "forward", !.route = "proxy",
                                         !.cookie = browser.cookie])

CallRefresh(w) ==
    /\ browser.cookie # 0
    /\ BeginWeb(w, "refresh", [IdleWeb EXCEPT !.at = "findSession", !.route = "refresh",
                                              !.cookie = browser.cookie])

CallLogout(w) ==
    BeginWeb(w, "logout",
        [IdleWeb EXCEPT !.at = IF browser.cookie = 0 THEN "clear" ELSE "logout",
                        !.route = "logout", !.cookie = browser.cookie])

(* proxyRequest: the API answers, or it answers 401 for an access token    *)
(* that has expired.                                                       *)
Forward(w) ==
    /\ web[w].at = "forward"
    /\ \/ WebEnds(w)
       \/ web[w].cookie # 0 /\ WebGoto(w, "findSession")
    /\ UNCHANGED <<sessionRows, browser>>
    /\ ElsewhereFromWeb

(* A refused renewal: the proxy passes the 401 on and touches no cookie,   *)
(* the refresh route clears them.                                          *)
FindSession(w) ==
    /\ web[w].at = "findSession"
    /\ IF sessionRows[web[w].cookie].ended = "no"
       THEN web' = [web EXCEPT ![w].at = "revoke", ![w].user = sessionRows[web[w].cookie].user]
       ELSE IF web[w].route = "refresh" THEN WebGoto(w, "clear") ELSE WebEnds(w)
    /\ UNCHANGED <<sessionRows, browser>>
    /\ ElsewhereFromWeb

RevokeUsed(w) ==
    /\ web[w].at = "revoke"
    /\ sessionRows' = [sessionRows EXCEPT ![web[w].cookie] = Ended(@, "rotated")]
    /\ WebGoto(w, "issue")
    /\ UNCHANGED browser
    /\ ElsewhereFromWeb

IssueSession(w) ==
    /\ web[w].at = "issue"
    /\ sessionRows' = Append(sessionRows, [user |-> web[w].user, ended |-> "no"])
    /\ web' = [web EXCEPT ![w].at = "respond", ![w].issued = Len(sessionRows) + 1]
    /\ UNCHANGED browser
    /\ ElsewhereFromWeb

(* Mutant: the proxy sends the new cookies only if the retried call went   *)
(* well.                                                                   *)
RespondIfWell(w) ==
    /\ web[w].at = "respond"
    /\ \/ browser' = [cookie |-> web[w].issued, lost |-> FALSE]
       \/ web[w].route = "proxy" /\ UNCHANGED browser
    /\ WebEnds(w)
    /\ UNCHANGED sessionRows
    /\ ElsewhereFromWeb

(* The answer reaches the browser, with the new cookies, whatever the      *)
(* retried call said.                                                      *)
Respond(w) ==
    /\ web[w].at = "respond"
    /\ browser' = [cookie |-> web[w].issued, lost |-> FALSE]
    /\ WebEnds(w)
    /\ UNCHANGED sessionRows
    /\ ElsewhereFromWeb

Logout(w) ==
    /\ web[w].at = "logout"
    /\ sessionRows' = [sessionRows EXCEPT ![web[w].cookie] = Ended(@, "loggedOut")]
    /\ WebGoto(w, "clear")
    /\ UNCHANGED browser
    /\ ElsewhereFromWeb

(* A deletion names no Domain: where COOKIE_DOMAIN is set, the browser has *)
(* no such cookie to delete and keeps the one it has.                      *)
ClearCookies(w) ==
    /\ web[w].at = "clear"
    /\ browser' = IF Called("cookieDomain") THEN [browser EXCEPT !.lost = TRUE]
                  ELSE [cookie |-> 0, lost |-> FALSE]
    /\ WebEnds(w)
    /\ UNCHANGED sessionRows
    /\ ElsewhereFromWeb

(* The API cannot be reached, or fails: logout clears the cookies all the  *)
(* same, and refresh because of it.  Otherwise a server restarts or the    *)
(* answer is lost, and with it the new cookie: browser.lost remembers that.*)
ClearsOnFailure(w) ==
    \/ web[w].at = "logout"
    \/ web[w].route = "refresh" /\ web[w].at \in {"findSession", "revoke", "issue"}

AbortWeb(w) ==
    /\ Called("abort")
    /\ web[w] # IdleWeb
    /\ IF ClearsOnFailure(w) THEN WebGoto(w, "clear") /\ UNCHANGED browser
       ELSE /\ WebEnds(w)
            /\ browser' = [browser EXCEPT !.lost = @ \/ web[w].at \in {"issue", "respond", "clear"}]
    /\ UNCHANGED sessionRows
    /\ ElsewhereFromWeb

BeginAccounting(p) ==
    \E u \in Users :
       \/ \E o \in Organizations : InviteMember(p, o, u) \/ CreateOrganization(p, o, u)
       \/ Register(p, u) \/ RequestPasswordReset(p, u)
       \/ \E token \in resetTokens[u] : ConfirmPasswordReset(p, u, token)

ContinueAccount(p) ==
    \/ CreateUser(p) \/ CreateToken(p) \/ FindMembership(p) \/ CreateMembership(p)
    \/ CommitOrganization(p) \/ CreateAccount(p) \/ CreateReset(p)
    \/ SetPassword(p) \/ AcceptInvitations(p) \/ MarkUsed(p) \/ RevokeAll(p)

ContinueWeb(w) ==
    \/ Forward(w) \/ FindSession(w) \/ RevokeUsed(w) \/ IssueSession(w) \/ Respond(w)
    \/ Logout(w) \/ ClearCookies(w)

AccountsNext ==
    \/ \E p \in Requests : BeginAccounting(p) \/ ContinueAccount(p) \/ AbortAccount(p)
    \/ \E o \in Organizations, u \in Users, new \in {"ACTIVE", "DEACTIVATED"} :
          UpdateMembershipStatus(o, u, new)
    \/ \E s \in DOMAIN sessionRows : \/ EndSession(s, "revokeSession", "revoked")
                                     \/ EndSession(s, "sessionExpires", "expired")
    \/ \E u \in Users : \E token \in resetTokens[u] : TokenExpires(u, token)
    \/ \E w \in WebRequests : \/ \E u \in Users : Login(w, u)
                              \/ CallProxy(w) \/ CallRefresh(w) \/ CallLogout(w)
                              \/ ContinueWeb(w) \/ AbortWeb(w)

-----------------------------------------------------------------------------
(* Properties.                                                             *)

(* The token that a browser is left with is good: when all its requests    *)
(* have been answered, its cookie is not one that was used up by a renewal *)
(* or ended by a logout, however many requests renewed it at the same time *)
(* and in whatever order their answers came; unless an answer was lost on  *)
(* its way, or the last one deleted the cookie without effect.             *)
CookieIsNotUsedUp ==
    (WebUnderWay = {} /\ browser.cookie # 0 /\ ~browser.lost) =>
        sessionRows[browser.cookie].ended \notin {"rotated", "loggedOut"}

(* An invitation counts as accepted only by somebody who has a password to *)
(* sign in with, even when the confirmation fails halfway or two of them   *)
(* run at a time.                                                          *)
JoinedHasPassword == \A m \in joined : passwords[m[2]] = "set"
=============================================================================
