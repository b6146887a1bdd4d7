---------------------------- MODULE Accounts_proofs ----------------------------
(***************************************************************************)
(* Proofs about accounts, for any users, organizations and requests: who   *)
(* has joined has a password, and a browser's cookie is not used up.       *)
(***************************************************************************)
EXTENDS Jobs_proofs, SequenceTheorems

AccountType == [at : AccountSteps, user : Users \cup {Nobody},
                organization : Organizations \cup {Nothing}, token : Nat, known : BOOLEAN]
WebType == [at : WebSteps, route : {"none", "login", "proxy", "refresh", "logout"},
            user : Users \cup {Nobody}, cookie : Nat, issued : Nat]
SessionType == [user : Users, ended : Ends]

(* What a request to the services knows at each of its steps.              *)
OrganizationSteps ==
    {"createUser", "createToken", "findMembership", "createMembership", "createOrganization"}

AccountOK(p) ==
    LET q == accounting[p] IN
    /\ q.at # "idle" => q.user \in Users
    /\ q.at \in OrganizationSteps => q.organization \in Organizations
    /\ q.at = "acceptInvitations" => passwords[q.user] = "set"

AccountsOK == \A p \in Requests : AccountOK(p)

UsersInv ==
    /\ passwords \in [Users -> {"none", "unusable", "set"}]
    /\ resetTokens \in [Users -> SUBSET Nat]
    /\ tokensIssued \in Nat
    /\ organizations \in SUBSET Organizations
    /\ members \in [Organizations \X Users -> MembershipStatuses]
    /\ joined \in SUBSET (Organizations \X Users)
    /\ accounting \in [Requests -> AccountType]
    /\ AccountsOK
    /\ JoinedHasPassword

-----------------------------------------------------------------------------
(* The users' services.                                                    *)

(* A request of theirs goes on, or ends, and no password that was set is   *)
(* taken back.                                                             *)
LEMMA OneAccount ==
  ASSUME UsersInv, NEW p \in Requests, NEW q \in AccountType,
         accounting' = [accounting EXCEPT ![p] = q],
         passwords' \in [Users -> {"none", "unusable", "set"}],
         \A u \in Users : passwords[u] = "set" => passwords'[u] = "set",
         q.at # "idle" => q.user \in Users,
         q.at \in OrganizationSteps => q.organization \in Organizations,
         q.at = "acceptInvitations" => passwords'[q.user] = "set"
  PROVE  accounting' \in [Requests -> AccountType] /\ AccountsOK'
  <1>1. accounting' \in [Requests -> AccountType] /\ accounting'[p] = q
    BY DEF UsersInv
  <1>2. ASSUME NEW r \in Requests
        PROVE  AccountOK(r)'
    <2>1. CASE r = p
      BY <1>1, <2>1 DEF AccountOK
    <2>2. CASE r # p
      <3>1. accounting'[r] = accounting[r] /\ AccountOK(r)
        BY <2>2 DEF UsersInv, AccountsOK
      <3> QED
        BY <3>1 DEF AccountOK
    <2> QED
      BY <2>1, <2>2
  <1> QED
    BY <1>1, <1>2 DEF AccountsOK

LEMMA IdleAccountType == IdleAccount \in AccountType /\ IdleAccount.at = "idle"
  BY DEF IdleAccount, AccountType, AccountSteps

LEMMA OneAccountEnds ==
  ASSUME UsersInv, NEW p \in Requests, AccountEnds(p),
         passwords' \in [Users -> {"none", "unusable", "set"}],
         \A u \in Users : passwords[u] = "set" => passwords'[u] = "set"
  PROVE  accounting' \in [Requests -> AccountType] /\ AccountsOK'
  BY IdleAccountType, OneAccount DEF AccountEnds, OrganizationSteps

LEMMA OneAccountGoes ==
  ASSUME UsersInv, NEW p \in Requests, NEW step \in AccountSteps, AccountGoto(p, step),
         accounting[p].at # "idle",
         step \in OrganizationSteps => accounting[p].at \in OrganizationSteps,
         passwords' \in [Users -> {"none", "unusable", "set"}],
         \A u \in Users : passwords[u] = "set" => passwords'[u] = "set",
         step = "acceptInvitations" => passwords'[accounting[p].user] = "set"
  PROVE  accounting' \in [Requests -> AccountType] /\ AccountsOK'
  <1> DEFINE q == [accounting[p] EXCEPT !.at = step]
  <1>1. accounting[p] \in AccountType /\ AccountOK(p)
    BY DEF UsersInv, AccountsOK
  <1>2. /\ q \in AccountType /\ q.at = step /\ q.user = accounting[p].user
        /\ q.organization = accounting[p].organization
    BY <1>1 DEF AccountType
  <1>3. accounting' = [accounting EXCEPT ![p] = q]
    BY DEF AccountGoto
  <1> HIDE DEF q
  <1> QED
    BY <1>1, <1>2, <1>3, OneAccount DEF AccountOK

(* A new token keeps the table's type.                                     *)
LEMMA NewTokenType ==
  ASSUME UsersInv, NEW u \in Users, NewToken(u)
  PROVE  resetTokens' \in [Users -> SUBSET Nat] /\ tokensIssued' \in Nat
  BY DEF UsersInv, NewToken

(* A request begins.                                                       *)
LEMMA BeginAccountStep ==
  ASSUME UsersInv, NEW p \in Requests, NEW call, NEW q \in AccountType, BeginAccount(p, call, q),
         q.user \in Users, q.at \in OrganizationSteps => q.organization \in Organizations,
         q.at # "acceptInvitations"
  PROVE  UsersInv'
  <1>1. UNCHANGED userTables /\ accounting' = [accounting EXCEPT ![p] = q]
    BY DEF BeginAccount
  <1>2. accounting' \in [Requests -> AccountType] /\ AccountsOK'
    BY <1>1, OneAccount DEF userTables, UsersInv
  <1> QED
    BY <1>1, <1>2 DEF userTables, UsersInv, JoinedHasPassword

LEMMA BeginAccountingStep ==
  ASSUME UsersInv, NEW p \in Requests, BeginAccounting(p)
  PROVE  UsersInv'
  <1>1. ASSUME NEW u \in Users, NEW o \in Organizations, InviteMember(p, o, u)
        PROVE  UsersInv'
    <2> DEFINE at == IF passwords[u] = "none" THEN "createUser" ELSE "findMembership"
               q == [IdleAccount EXCEPT !.at = at, !.user = u, !.organization = o]
    <2>1. BeginAccount(p, "inviteMember", q)
      BY <1>1 DEF InviteMember
    <2>2. /\ q \in AccountType /\ q.user = u /\ q.organization = o
          /\ q.at # "acceptInvitations"
      BY DEF IdleAccount, AccountType, AccountSteps
    <2> HIDE DEF q
    <2> QED
      BY <2>1, <2>2, BeginAccountStep
  <1>2. ASSUME NEW u \in Users, NEW o \in Organizations, CreateOrganization(p, o, u)
        PROVE  UsersInv'
    <2> DEFINE known == passwords[u] # "none"
               q == [IdleAccount EXCEPT !.at = "createOrganization", !.user = u,
                                        !.organization = o, !.known = known]
    <2>1. BeginAccount(p, "createOrganization", q)
      BY <1>2 DEF CreateOrganization
    <2>2. known \in BOOLEAN
      OBVIOUS
    <2> HIDE DEF known
    <2>3. /\ q \in AccountType /\ q.user = u /\ q.organization = o
          /\ q.at # "acceptInvitations"
      BY <2>2 DEF IdleAccount, AccountType, AccountSteps
    <2> HIDE DEF q
    <2> QED
      BY <2>1, <2>3, BeginAccountStep
  <1>3. ASSUME NEW u \in Users, Register(p, u) \/ RequestPasswordReset(p, u)
        PROVE  UsersInv'
    <2>1. PICK at \in {"createAccount", "createReset"}, call \in {"register", "passwordReset"} :
              BeginAccount(p, call, [IdleAccount EXCEPT !.at = at, !.user = u])
      BY <1>3 DEF Register, RequestPasswordReset
    <2> DEFINE q == [IdleAccount EXCEPT !.at = at, !.user = u]
    <2>2. q \in AccountType /\ q.user = u /\ q.at = at
      BY DEF IdleAccount, AccountType, AccountSteps
    <2> HIDE DEF q
    <2> QED
      BY <2>1, <2>2, BeginAccountStep DEF OrganizationSteps, q
  <1>4. ASSUME NEW u \in Users, NEW token \in resetTokens[u], ConfirmPasswordReset(p, u, token)
        PROVE  UsersInv'
    <2> DEFINE q == [IdleAccount EXCEPT !.at = "setPassword", !.user = u, !.token = token]
    <2>1. BeginAccount(p, "confirm", q)
      BY <1>4 DEF ConfirmPasswordReset
    <2>2. token \in Nat
      BY DEF UsersInv
    <2>3. q \in AccountType /\ q.user = u /\ q.at = "setPassword"
      BY <2>2 DEF IdleAccount, AccountType, AccountSteps
    <2> HIDE DEF q
    <2> QED
      BY <2>1, <2>3, BeginAccountStep DEF OrganizationSteps
  <1> QED
    BY <1>1, <1>2, <1>3, <1>4 DEF BeginAccounting

LEMMA CreateUserStep ==
  ASSUME UsersInv, NEW p \in Requests, CreateUser(p)
  PROVE  UsersInv'
  <1>1. /\ accounting[p].at = "createUser" /\ accounting[p].user \in Users
        /\ UNCHANGED <<resetTokens, tokensIssued, organizations, members, joined>>
    BY DEF CreateUser, UsersInv, AccountsOK, AccountOK
  <1>2. /\ passwords' \in [Users -> {"none", "unusable", "set"}]
        /\ \A u \in Users : passwords[u] = "set" => passwords'[u] = "set"
    BY DEF CreateUser, UsersInv
  <1>3. AccountEnds(p) \/ AccountGoto(p, "createToken")
    BY DEF CreateUser
  <1>4. accounting' \in [Requests -> AccountType] /\ AccountsOK'
    BY <1>1, <1>2, <1>3, OneAccountEnds, OneAccountGoes DEF AccountSteps, OrganizationSteps
  <1>5. JoinedHasPassword'
    BY <1>1, <1>2 DEF UsersInv, JoinedHasPassword
  <1> QED
    BY <1>1, <1>2, <1>4, <1>5 DEF UsersInv

LEMMA CreateTokenStep ==
  ASSUME UsersInv, NEW p \in Requests, CreateToken(p)
  PROVE  UsersInv'
  <1>1. /\ accounting[p].at = "createToken" /\ accounting[p].user \in Users
        /\ UNCHANGED <<passwords, organizations, members, joined>>
    BY DEF CreateToken, UsersInv, AccountsOK, AccountOK
  <1>2. resetTokens' \in [Users -> SUBSET Nat] /\ tokensIssued' \in Nat
    BY <1>1, NewTokenType DEF CreateToken
  <1>3. AccountGoto(p, "findMembership")
    BY DEF CreateToken
  <1>4. accounting' \in [Requests -> AccountType] /\ AccountsOK'
    BY <1>1, <1>3, OneAccountGoes DEF AccountSteps, OrganizationSteps, UsersInv
  <1> QED
    BY <1>1, <1>2, <1>4 DEF UsersInv, JoinedHasPassword

LEMMA FindMembershipStep ==
  ASSUME UsersInv, NEW p \in Requests, FindMembership(p)
  PROVE  UsersInv'
  <1>1. accounting[p].at = "findMembership" /\ UNCHANGED userTables
    BY DEF FindMembership
  <1>2. AccountEnds(p) \/ AccountGoto(p, "createMembership")
    BY DEF FindMembership
  <1>3. accounting' \in [Requests -> AccountType] /\ AccountsOK'
    BY <1>1, <1>2, OneAccountEnds, OneAccountGoes
       DEF AccountSteps, OrganizationSteps, UsersInv, userTables
  <1> QED
    BY <1>1, <1>3 DEF UsersInv, JoinedHasPassword, userTables

LEMMA CreateMembershipStep ==
  ASSUME UsersInv, NEW p \in Requests, CreateMembership(p)
  PROVE  UsersInv'
  <1>1. UNCHANGED <<passwords, resetTokens, tokensIssued, organizations, joined>>
    BY DEF CreateMembership
  <1>2. accounting' \in [Requests -> AccountType] /\ AccountsOK'
    BY <1>1, OneAccountEnds DEF CreateMembership, UsersInv
  <1>3. members' \in [Organizations \X Users -> MembershipStatuses]
    <2>1. Membership(p) \in Organizations \X Users
      BY DEF CreateMembership, Membership, UsersInv, AccountsOK, AccountOK, OrganizationSteps
    <2> QED
      BY <2>1 DEF CreateMembership, UsersInv, MembershipStatuses
  <1> QED
    BY <1>1, <1>2, <1>3 DEF UsersInv, JoinedHasPassword

LEMMA CommitOrganizationStep ==
  ASSUME UsersInv, NEW p \in Requests, CommitOrganization(p)
  PROVE  UsersInv'
  <1> DEFINE o == accounting[p].organization
             u == accounting[p].user
             known == accounting[p].known
  <1>1. /\ u \in Users /\ o \in Organizations /\ AccountEnds(p)
    BY DEF CommitOrganization, UsersInv, AccountsOK, AccountOK, OrganizationSteps
  <1>2. CASE UNCHANGED userTables
    <2>1. accounting' \in [Requests -> AccountType] /\ AccountsOK'
      BY <1>1, <1>2, OneAccountEnds DEF UsersInv, userTables
    <2> QED
      BY <1>2, <2>1 DEF UsersInv, JoinedHasPassword, userTables
  <1>3. CASE /\ organizations' = organizations \cup {o}
             /\ members' = [members EXCEPT ![<<o, u>>] = "ACTIVE"]
             /\ UNCHANGED joined
             /\ \/ UNCHANGED <<passwords, resetTokens, tokensIssued>>
                \/ /\ passwords[u] = "none" /\ NewToken(u)
                   /\ passwords' = [passwords EXCEPT ![u] = "unusable"]
    <2>1. /\ passwords' \in [Users -> {"none", "unusable", "set"}]
          /\ \A v \in Users : passwords[v] = "set" => passwords'[v] = "set"
      BY <1>3 DEF UsersInv
    <2>2. resetTokens' \in [Users -> SUBSET Nat] /\ tokensIssued' \in Nat
      BY <1>1, <1>3, NewTokenType DEF UsersInv
    <2>3. accounting' \in [Requests -> AccountType] /\ AccountsOK'
      BY <1>1, <2>1, OneAccountEnds
    <2>4. /\ members' \in [Organizations \X Users -> MembershipStatuses]
          /\ organizations' \in SUBSET Organizations
      BY <1>1, <1>3 DEF UsersInv, MembershipStatuses
    <2>5. joined' \in SUBSET (Organizations \X Users) /\ JoinedHasPassword'
      BY <1>3, <2>1 DEF UsersInv, JoinedHasPassword
    <2> QED
      BY <2>1, <2>2, <2>3, <2>4, <2>5 DEF UsersInv
  <1>4. ~known => passwords[u] = "none" \/ UNCHANGED userTables
    BY DEF CommitOrganization
  <1> QED
    BY <1>2, <1>3, <1>4 DEF CommitOrganization

LEMMA PasswordStep ==
  ASSUME UsersInv, NEW p \in Requests, CreateAccount(p) \/ SetPassword(p)
  PROVE  UsersInv'
  <1>1. /\ UNCHANGED <<resetTokens, tokensIssued, organizations, members, joined>>
        /\ accounting[p].user \in Users /\ accounting[p].at \in {"createAccount", "setPassword"}
    BY DEF CreateAccount, SetPassword, UsersInv, AccountsOK, AccountOK
  <1>2. /\ passwords' \in [Users -> {"none", "unusable", "set"}]
        /\ \A u \in Users : passwords[u] = "set" => passwords'[u] = "set"
    BY DEF CreateAccount, SetPassword, UsersInv
  <1>3. accounting' \in [Requests -> AccountType] /\ AccountsOK'
    <2>1. CASE CreateAccount(p)
      BY <1>2, <2>1, OneAccountEnds DEF CreateAccount
    <2>2. CASE SetPassword(p)
      <3>1. passwords'[accounting[p].user] = "set"
        BY <1>1, <2>2 DEF SetPassword, UsersInv
      <3> QED
        BY <1>1, <1>2, <2>2, <3>1, OneAccountGoes DEF SetPassword, AccountSteps, OrganizationSteps
    <2> QED
      BY <2>1, <2>2
  <1>4. JoinedHasPassword'
    BY <1>1, <1>2 DEF UsersInv, JoinedHasPassword
  <1> QED
    BY <1>1, <1>2, <1>3, <1>4 DEF UsersInv

LEMMA CreateResetStep ==
  ASSUME UsersInv, NEW p \in Requests, CreateReset(p)
  PROVE  UsersInv'
  <1>1. /\ accounting[p].user \in Users
        /\ UNCHANGED <<passwords, organizations, members, joined>>
    BY DEF CreateReset, UsersInv, AccountsOK, AccountOK
  <1>2. resetTokens' \in [Users -> SUBSET Nat] /\ tokensIssued' \in Nat
    BY <1>1, NewTokenType DEF CreateReset
  <1>3. accounting' \in [Requests -> AccountType] /\ AccountsOK'
    BY <1>1, OneAccountEnds DEF CreateReset, UsersInv
  <1> QED
    BY <1>1, <1>2, <1>3 DEF UsersInv, JoinedHasPassword

(* The one who accepts has set a password.                                 *)
LEMMA AcceptInvitationsStep ==
  ASSUME UsersInv, NEW p \in Requests, AcceptInvitations(p)
  PROVE  UsersInv'
  <1> DEFINE u == accounting[p].user
             accepted == Invited(u)
  <1>1. /\ accounting[p].at = "acceptInvitations" /\ u \in Users /\ passwords[u] = "set"
        /\ UNCHANGED <<passwords, resetTokens, tokensIssued, organizations>>
    BY DEF AcceptInvitations, UsersInv, AccountsOK, AccountOK
  <1>2. /\ members' = [m \in Organizations \X Users |->
                          IF m \in accepted THEN "ACTIVE" ELSE members[m]]
        /\ joined' = joined \cup accepted
    BY DEF AcceptInvitations
  <1>3. accepted \in SUBSET (Organizations \X Users) /\ \A m \in accepted : m[2] = u
    BY DEF Invited
  <1> HIDE DEF accepted
  <1>4. members' \in [Organizations \X Users -> MembershipStatuses]
    BY <1>2 DEF UsersInv, MembershipStatuses
  <1>5. joined' \in SUBSET (Organizations \X Users) /\ JoinedHasPassword'
    BY <1>1, <1>2, <1>3 DEF UsersInv, JoinedHasPassword
  <1>6. accounting' \in [Requests -> AccountType] /\ AccountsOK'
    BY <1>1, OneAccountGoes DEF AcceptInvitations, AccountSteps, OrganizationSteps, UsersInv
  <1> QED
    BY <1>1, <1>4, <1>5, <1>6 DEF UsersInv

LEMMA MarkUsedStep ==
  ASSUME UsersInv, NEW p \in Requests, MarkUsed(p)
  PROVE  UsersInv'
  <1>1. UNCHANGED <<passwords, tokensIssued, organizations, members, joined>>
    BY DEF MarkUsed
  <1>2. resetTokens' \in [Users -> SUBSET Nat]
    BY DEF MarkUsed, UsersInv
  <1>3. accounting' \in [Requests -> AccountType] /\ AccountsOK'
    BY <1>1, OneAccountGoes DEF MarkUsed, AccountSteps, OrganizationSteps, UsersInv
  <1> QED
    BY <1>1, <1>2, <1>3 DEF UsersInv, JoinedHasPassword

LEMMA AccountOver ==
  ASSUME UsersInv, NEW p \in Requests, RevokeAll(p) \/ AbortAccount(p)
  PROVE  UsersInv'
  <1>1. UNCHANGED userTables /\ AccountEnds(p)
    BY DEF RevokeAll, AbortAccount
  <1>2. accounting' \in [Requests -> AccountType] /\ AccountsOK'
    BY <1>1, OneAccountEnds DEF UsersInv, userTables
  <1> QED
    BY <1>1, <1>2 DEF UsersInv, JoinedHasPassword, userTables

LEMMA OtherUserSteps ==
  ASSUME UsersInv,
         \/ UNCHANGED <<userTables, accounting>>
         \/ \E o \in Organizations, u \in Users, new \in {"ACTIVE", "DEACTIVATED"} :
               UpdateMembershipStatus(o, u, new)
         \/ \E u \in Users : \E token \in resetTokens[u] : TokenExpires(u, token)
  PROVE  UsersInv'
  <1>1. /\ UNCHANGED <<passwords, tokensIssued, organizations, joined, accounting>>
    BY DEF userTables, UpdateMembershipStatus, TokenExpires
  <1>2. members' \in [Organizations \X Users -> MembershipStatuses]
    BY DEF userTables, UpdateMembershipStatus, TokenExpires, UsersInv, MembershipStatuses
  <1>3. resetTokens' \in [Users -> SUBSET Nat]
    BY DEF userTables, UpdateMembershipStatus, TokenExpires, UsersInv
  <1>4. AccountsOK' /\ JoinedHasPassword'
    BY <1>1 DEF UsersInv, AccountsOK, AccountOK, JoinedHasPassword
  <1> QED
    BY <1>1, <1>2, <1>3, <1>4 DEF UsersInv

LEMMA WebLeavesUsers ==
  ASSUME NEW w \in WebRequests,
         \/ \E u \in Users : Login(w, u)
         \/ CallProxy(w) \/ CallRefresh(w) \/ CallLogout(w) \/ ContinueWeb(w) \/ AbortWeb(w)
  PROVE  UNCHANGED <<userTables, accounting>>
  <1>1. ElsewhereFromWeb
    BY DEF Login, CallProxy, CallRefresh, CallLogout, BeginWeb, ContinueWeb, Forward, FindSession,
           RevokeUsed, IssueSession, Respond, Logout, ClearCookies, AbortWeb
  <1> QED
    BY <1>1 DEF ElsewhereFromWeb

LEMMA UsersStep == UsersInv /\ [Next]_vars => UsersInv'
  <1> SUFFICES ASSUME UsersInv, [Next]_vars
               PROVE  UsersInv'
    OBVIOUS
  <1>1. CASE AccountsNext
    <2>1. ASSUME NEW p \in Requests, BeginAccounting(p) \/ ContinueAccount(p) \/ AbortAccount(p)
          PROVE  UsersInv'
      BY <2>1, BeginAccountingStep, CreateUserStep, CreateTokenStep, FindMembershipStep,
         CreateMembershipStep, CommitOrganizationStep, PasswordStep, CreateResetStep,
         AcceptInvitationsStep, MarkUsedStep, AccountOver DEF ContinueAccount
    <2>2. ASSUME NEW s \in DOMAIN sessionRows, NEW call, NEW why, EndSession(s, call, why)
          PROVE  UsersInv'
      BY <2>2, OtherUserSteps DEF EndSession
    <2>3. ASSUME NEW w \in WebRequests,
                 \/ \E u \in Users : Login(w, u)
                 \/ CallProxy(w) \/ CallRefresh(w) \/ CallLogout(w) \/ ContinueWeb(w) \/ AbortWeb(w)
          PROVE  UsersInv'
      BY <2>3, WebLeavesUsers, OtherUserSteps
    <2> QED
      BY <1>1, <2>1, <2>2, <2>3, OtherUserSteps DEF AccountsNext
  <1>2. CASE UNCHANGED accountVars
    BY <1>2, OtherUserSteps DEF accountVars
  <1> QED
    BY <1>1, <1>2, StepsOfAccounts

LEMMA UsersInitial == Init => UsersInv
  <1> SUFFICES ASSUME Init PROVE UsersInv
    OBVIOUS
  <1> USE DEF Init, AccountsInit
  <1>1. ScenarioOK
    BY DEF ScenarioOK
  <1>2. organizations \in SUBSET Organizations
    BY <1>1, ScenarioType
  <1>3. accounting \in [Requests -> AccountType] /\ AccountsOK
    BY IdleAccountType DEF AccountsOK, AccountOK, OrganizationSteps
  <1>4. JoinedHasPassword
    BY DEF JoinedHasPassword
  <1> QED
    BY <1>2, <1>3, <1>4 DEF UsersInv, MembershipStatuses

LEMMA UsersInvariance == Spec => []UsersInv
  BY UsersInitial, UsersStep, PTL DEF Spec

(* Whoever counts as having accepted an invitation has a password.         *)
THEOREM WhoJoinedHasPassword == Spec => []JoinedHasPassword
  <1>1. UsersInv => JoinedHasPassword
    BY DEF UsersInv
  <1> QED
    BY <1>1, UsersInvariance, PTL

-----------------------------------------------------------------------------
(* The browser, its requests and the sessions.                             *)

Spent(s) == sessionRows[s].ended \in {"rotated", "loggedOut"}

(* What a request of the browser knows at each of its steps.  The one that *)
(* brings a new token is the only one to know it.                          *)
WebOK(w) ==
    LET q == web[w] IN
    /\ q.at = "idle" => q = IdleWeb
    /\ q.cookie <= Len(sessionRows)
    /\ q.at \in {"findSession", "revoke", "logout"} => q.cookie # 0
    /\ q.at \in {"revoke", "issue"} => q.user \in Users
    /\ q.at # "respond" => q.issued = 0
    /\ q.at = "respond" =>
          /\ q.issued \in DOMAIN sessionRows /\ ~Spent(q.issued)
          /\ browser.cookie # q.issued
          /\ \A v \in WebRequests : /\ web[v].cookie # q.issued
                                    /\ v # w => web[v].issued # q.issued

WebsOK == \A w \in WebRequests : WebOK(w)

(* A cookie that is used up will be replaced by an answer under way.       *)
Renewing(w) == web[w].at \in {"issue", "respond", "clear"}

CookieOK ==
    /\ browser.cookie <= Len(sessionRows)
    /\ (browser.cookie # 0 /\ ~browser.lost /\ Spent(browser.cookie)) =>
           \E w \in WebRequests : Renewing(w)

WebTypeOK ==
    /\ sessionRows \in Seq(SessionType)
    /\ browser \in [cookie : Nat, lost : BOOLEAN]
    /\ web \in [WebRequests -> WebType]

WebInv == WebTypeOK /\ WebsOK /\ CookieOK

LEMMA IdleWebType ==
  /\ IdleWeb \in WebType /\ IdleWeb.at = "idle" /\ IdleWeb.cookie = 0 /\ IdleWeb.issued = 0
  /\ IdleWeb.route = "none"
  BY DEF IdleWeb, WebType, WebSteps

(* A request goes on, without a new token, and the browser keeps its       *)
(* cookie.                                                                 *)
LEMMA OneWeb ==
  ASSUME WebInv, NEW w \in WebRequests, NEW q \in WebType, web' = [web EXCEPT ![w] = q],
         \A s \in DOMAIN sessionRows : Spent(s)' => Spent(s) \/ s = web[w].cookie,
         sessionRows' \in Seq(SessionType), Len(sessionRows') = Len(sessionRows),
         q.at # "respond", q.issued = 0,
         q.at = "idle" => q = IdleWeb,
         q.cookie \in {0, web[w].cookie, browser.cookie},
         q.at \in {"findSession", "revoke", "logout"} => q.cookie # 0,
         q.at \in {"revoke", "issue"} => q.user \in Users,
         browser'.cookie \in {0, browser.cookie, web[w].issued}
  PROVE  web' \in [WebRequests -> WebType] /\ WebsOK'
  <1>1. web' \in [WebRequests -> WebType] /\ web'[w] = q
    BY DEF WebInv, WebTypeOK
  <1>2. /\ web[w] \in WebType /\ WebOK(w) /\ browser.cookie <= Len(sessionRows)
        /\ Len(sessionRows) \in Nat /\ browser.cookie \in Nat
        /\ DOMAIN sessionRows = 1 .. Len(sessionRows)
        /\ DOMAIN sessionRows' = DOMAIN sessionRows
    BY DEF WebInv, WebTypeOK, WebsOK, CookieOK
  <1>3. WebOK(w)'
    BY <1>1, <1>2 DEF WebOK, WebType
  <1>4. ASSUME NEW v \in WebRequests, v # w
        PROVE  WebOK(v)'
    <2>1. web'[v] = web[v] /\ web[v] \in WebType /\ WebOK(v)
      BY <1>4 DEF WebInv, WebTypeOK, WebsOK
    <2>2. CASE web[v].at # "respond"
      BY <1>2, <2>1, <2>2 DEF WebOK, WebType
    <2>3. CASE web[v].at = "respond"
      <3> DEFINE i == web[v].issued
      <3>1. /\ i \in DOMAIN sessionRows /\ ~Spent(i) /\ browser.cookie # i /\ i # 0
            /\ \A u \in WebRequests : web[u].cookie # i /\ (u # v => web[u].issued # i)
        BY <1>2, <2>1, <2>3 DEF WebOK
      <3>2. ~Spent(i)' /\ browser'.cookie # i
        BY <1>4, <3>1
      <3>3. \A u \in WebRequests : web'[u].cookie # i /\ (u # v => web'[u].issued # i)
        <4>1. \A u \in WebRequests : web'[u] = IF u = w THEN q ELSE web[u]
          BY DEF WebInv, WebTypeOK
        <4> QED
          BY <3>1, <4>1
      <3> QED
        BY <1>2, <2>1, <2>3, <3>1, <3>2, <3>3 DEF WebOK
    <2> QED
      BY <2>2, <2>3
  <1> QED
    BY <1>1, <1>3, <1>4 DEF WebsOK

(* The cookie stays good, or an answer is under way to replace it.         *)
LEMMA CookieKept ==
  ASSUME WebInv, NEW w \in WebRequests, NEW q, web' = [web EXCEPT ![w] = q],
         browser'.cookie <= Len(sessionRows'),
         \/ /\ browser'.cookie = browser.cookie /\ browser'.lost = browser.lost
            /\ Renewing(w) => q.at \in {"issue", "respond", "clear"}
            /\ Spent(browser.cookie)' =>
                  Spent(browser.cookie) \/ q.at \in {"issue", "respond", "clear"}
         \/ browser'.cookie = 0 \/ browser'.lost \/ ~Spent(browser.cookie)'
  PROVE  CookieOK'
  <1>1. \A v \in WebRequests : web'[v] = IF v = w THEN q ELSE web[v]
    BY DEF WebInv, WebTypeOK
  <1>2. CASE \/ browser'.cookie = 0 \/ browser'.lost \/ ~Spent(browser.cookie)'
    BY <1>2 DEF CookieOK
  <1>3. CASE /\ browser'.cookie = browser.cookie /\ browser'.lost = browser.lost
             /\ Renewing(w) => q.at \in {"issue", "respond", "clear"}
             /\ Spent(browser.cookie)' =>
                   Spent(browser.cookie) \/ q.at \in {"issue", "respond", "clear"}
    <2>1. CASE q.at \in {"issue", "respond", "clear"}
      <3>1. Renewing(w)'
        BY <1>1, <2>1 DEF Renewing
      <3> QED
        BY <3>1 DEF CookieOK
    <2>2. CASE q.at \notin {"issue", "respond", "clear"}
      <3> SUFFICES ASSUME browser'.cookie # 0, ~browser'.lost, Spent(browser.cookie)'
                   PROVE  \E v \in WebRequests : Renewing(v)'
        BY DEF CookieOK
      <3>1. PICK v \in WebRequests : Renewing(v)
        BY <1>3, <2>2 DEF WebInv, CookieOK
      <3>2. Renewing(v)'
        BY <1>1, <1>3, <2>2, <3>1 DEF Renewing
      <3> QED
        BY <3>2
    <2> QED
      BY <2>1, <2>2
  <1> QED
    BY <1>2, <1>3

LEMMA WebTyped ==
  ASSUME WebInv, NEW w \in WebRequests
  PROVE  /\ web[w] \in WebType /\ WebOK(w)
         /\ browser.cookie \in Nat /\ browser.cookie <= Len(sessionRows)
         /\ browser.lost \in BOOLEAN /\ browser = [cookie |-> browser.cookie, lost |-> browser.lost]
         /\ Len(sessionRows) \in Nat /\ DOMAIN sessionRows = 1 .. Len(sessionRows)
         /\ \A s \in DOMAIN sessionRows : sessionRows[s] \in SessionType
  BY DEF WebInv, WebTypeOK, WebsOK, CookieOK

(* A request that goes on and changes neither sessions nor the browser.    *)
LEMMA WebGoesOn ==
  ASSUME WebInv, NEW w \in WebRequests, NEW q \in WebType, web' = [web EXCEPT ![w] = q],
         UNCHANGED <<sessionRows, browser>>,
         q.at # "respond", q.issued = 0,
         q.at = "idle" => q = IdleWeb,
         q.cookie \in {0, web[w].cookie, browser.cookie},
         q.at \in {"findSession", "revoke", "logout"} => q.cookie # 0,
         q.at \in {"revoke", "issue"} => q.user \in Users,
         Renewing(w) => q.at \in {"issue", "clear"}
  PROVE  WebInv'
  <1>1. /\ \A s \in DOMAIN sessionRows : Spent(s)' => Spent(s)
        /\ Spent(browser.cookie)' => Spent(browser.cookie)
    BY DEF Spent
  <1>2. /\ sessionRows' \in Seq(SessionType) /\ Len(sessionRows') = Len(sessionRows)
        /\ browser'.cookie = browser.cookie /\ browser'.lost = browser.lost
        /\ browser'.cookie <= Len(sessionRows')
        /\ browser' \in [cookie : Nat, lost : BOOLEAN]
    BY DEF WebInv, WebTypeOK, CookieOK
  <1>3. web' \in [WebRequests -> WebType] /\ WebsOK'
    BY <1>1, <1>2, OneWeb
  <1>4. CookieOK'
    BY <1>1, <1>2, CookieKept
  <1> QED
    BY <1>2, <1>3, <1>4 DEF WebInv, WebTypeOK

LEMMA BeginWebStep ==
  ASSUME WebInv, NEW w \in WebRequests,
         \/ \E u \in Users : Login(w, u)
         \/ CallProxy(w) \/ CallRefresh(w) \/ CallLogout(w)
  PROVE  WebInv'
  <1>1. /\ web[w] = IdleWeb /\ UNCHANGED <<sessionRows, browser>>
    BY DEF Login, CallProxy, CallRefresh, CallLogout, BeginWeb
  <1>2. ~Renewing(w)
    BY <1>1, IdleWebType DEF Renewing
  <1>3. PICK q \in WebType :
          /\ web' = [web EXCEPT ![w] = q]
          /\ q.at \in {"issue", "forward", "findSession", "clear", "logout"} /\ q.issued = 0
          /\ q.cookie \in {0, browser.cookie}
          /\ q.at \in {"findSession", "logout"} => q.cookie # 0
          /\ q.at = "issue" => q.user \in Users
    <2>1. ASSUME NEW u \in Users, Login(w, u)
          PROVE  \E q \in WebType :
                   /\ web' = [web EXCEPT ![w] = q]
                   /\ q.at = "issue" /\ q.issued = 0 /\ q.cookie = 0 /\ q.user \in Users
      <3> DEFINE q == [IdleWeb EXCEPT !.at = "issue", !.route = "login", !.user = u]
      <3>1. web' = [web EXCEPT ![w] = q]
        BY <2>1 DEF Login, BeginWeb
      <3>2. q \in WebType /\ q.at = "issue" /\ q.issued = 0 /\ q.cookie = 0 /\ q.user \in Users
        BY DEF IdleWeb, WebType, WebSteps
      <3> QED
        BY <3>1, <3>2
    <2>2. ASSUME CallProxy(w) \/ CallRefresh(w) \/ CallLogout(w)
          PROVE  \E q \in WebType :
                   /\ web' = [web EXCEPT ![w] = q]
                   /\ q.at \in {"forward", "findSession", "clear", "logout"} /\ q.issued = 0
                   /\ q.cookie = browser.cookie
                   /\ q.at \in {"findSession", "logout"} => q.cookie # 0
      <3>1. PICK at \in {"forward", "findSession", "clear", "logout"},
                 route \in {"proxy", "refresh", "logout"} :
              /\ web' = [web EXCEPT ![w] = [IdleWeb EXCEPT !.at = at, !.route = route,
                                                           !.cookie = browser.cookie]]
              /\ at \in {"findSession", "logout"} => browser.cookie # 0
        <4>1. CASE CallProxy(w)
          BY <4>1 DEF CallProxy, BeginWeb
        <4>2. CASE CallRefresh(w)
          BY <4>2 DEF CallRefresh, BeginWeb
        <4>3. CASE CallLogout(w)
          BY <4>3 DEF CallLogout, BeginWeb
        <4> QED
          BY <2>2, <4>1, <4>2, <4>3
      <3> DEFINE q == [IdleWeb EXCEPT !.at = at, !.route = route, !.cookie = browser.cookie]
      <3>2. q \in WebType /\ q.at = at /\ q.issued = 0 /\ q.cookie = browser.cookie
        BY WebTyped DEF IdleWeb, WebType, WebSteps
      <3> QED
        BY <3>1, <3>2
    <2> QED
      BY <2>1, <2>2
  <1> QED
    BY <1>1, <1>2, <1>3, WebGoesOn

LEMMA ForwardStep ==
  ASSUME WebInv, NEW w \in WebRequests, Forward(w)
  PROVE  WebInv'
  <1>1. /\ web[w] \in WebType /\ WebOK(w) /\ web[w].at = "forward"
        /\ UNCHANGED <<sessionRows, browser>>
    BY WebTyped DEF Forward
  <1>2. CASE WebEnds(w)
    BY <1>1, <1>2, IdleWebType, WebGoesOn DEF WebEnds, Renewing
  <1>3. CASE web[w].cookie # 0 /\ WebGoto(w, "findSession")
    <2> DEFINE q == [web[w] EXCEPT !.at = "findSession"]
    <2>1. web' = [web EXCEPT ![w] = q]
      BY <1>3 DEF WebGoto
    <2>2. /\ q \in WebType /\ q.at = "findSession" /\ q.cookie = web[w].cookie
          /\ q.issued = 0
      BY <1>1 DEF WebType, WebSteps, WebOK
    <2> HIDE DEF q
    <2> QED
      BY <1>1, <1>3, <2>1, <2>2, WebGoesOn DEF Renewing
  <1> QED
    BY <1>2, <1>3 DEF Forward

LEMMA FindSessionStep ==
  ASSUME WebInv, NEW w \in WebRequests, FindSession(w)
  PROVE  WebInv'
  <1>1. /\ web[w] \in WebType /\ WebOK(w) /\ web[w].at = "findSession"
        /\ UNCHANGED <<sessionRows, browser>>
    BY WebTyped DEF FindSession
  <1>2. CASE WebEnds(w)
    BY <1>1, <1>2, IdleWebType, WebGoesOn DEF WebEnds, Renewing
  <1>3. CASE WebGoto(w, "clear")
    <2> DEFINE q == [web[w] EXCEPT !.at = "clear"]
    <2>1. web' = [web EXCEPT ![w] = q]
      BY <1>3 DEF WebGoto
    <2>2. /\ q \in WebType /\ q.at = "clear" /\ q.cookie = web[w].cookie
          /\ q.issued = 0
      BY <1>1 DEF WebType, WebSteps, WebOK
    <2> HIDE DEF q
    <2> QED
      BY <1>1, <2>1, <2>2, WebGoesOn DEF Renewing
  <1>4. CASE web' = [web EXCEPT ![w].at = "revoke", ![w].user = sessionRows[web[w].cookie].user]
    <2> DEFINE u == sessionRows[web[w].cookie].user
               q == [web[w] EXCEPT !.at = "revoke", !.user = u]
    <2>1. web' = [web EXCEPT ![w] = q]
      BY <1>4
    <2>2. web[w].cookie \in DOMAIN sessionRows
      BY <1>1, WebTyped DEF WebOK, WebType
    <2>3. u \in Users
      BY <2>2, WebTyped DEF SessionType
    <2> HIDE DEF u
    <2>4. /\ q \in WebType /\ q.at = "revoke" /\ q.cookie = web[w].cookie
          /\ q.issued = 0 /\ q.user = u
      BY <1>1, <2>3 DEF WebType, WebSteps, WebOK
    <2>5. web[w].cookie # 0
      BY <1>1 DEF WebOK
    <2> HIDE DEF q
    <2> QED
      BY <1>1, <2>1, <2>3, <2>4, <2>5, WebGoesOn DEF Renewing
  <1> QED
    BY <1>2, <1>3, <1>4 DEF FindSession

(* A session that has not ended gets an end; one that has keeps its own.   *)
LEMMA EndedType ==
  ASSUME NEW row \in SessionType, NEW why \in Ends
  PROVE  /\ Ended(row, why) \in SessionType
         /\ Ended(row, why).ended \in {row.ended, why}
  BY DEF Ended, SessionType

(* One session of a request gets its end.                                  *)
LEMMA OneSessionEnds ==
  ASSUME WebInv, NEW s \in DOMAIN sessionRows, NEW why \in Ends,
         sessionRows' = [sessionRows EXCEPT ![s] = Ended(@, why)]
  PROVE  /\ sessionRows' \in Seq(SessionType) /\ Len(sessionRows') = Len(sessionRows)
         /\ \A t \in DOMAIN sessionRows : Spent(t)' => Spent(t) \/ t = s
  <1>1. sessionRows \in Seq(SessionType)
    BY DEF WebInv, WebTypeOK
  <1>2. Ended(sessionRows[s], why) \in SessionType
    BY <1>1, EndedType
  <1>3. /\ sessionRows' \in Seq(SessionType) /\ Len(sessionRows') = Len(sessionRows)
        /\ \A t \in DOMAIN sessionRows : t # s => sessionRows'[t] = sessionRows[t]
    BY <1>1, <1>2
  <1> QED
    BY <1>3 DEF Spent

(* RevokeUsed and Logout end the session of the request's cookie; an       *)
(* answer that replaces the cookie follows.                                *)
LEMMA EndsItsSession ==
  ASSUME WebInv, NEW w \in WebRequests, RevokeUsed(w) \/ Logout(w)
  PROVE  WebInv'
  <1>1. PICK at \in {"issue", "clear"}, why \in Ends :
          /\ web[w].at \in {"revoke", "logout"}
          /\ at = "issue" => web[w].at = "revoke"
          /\ sessionRows' = [sessionRows EXCEPT ![web[w].cookie] = Ended(@, why)]
          /\ WebGoto(w, at) /\ UNCHANGED browser
    BY DEF RevokeUsed, Logout, Ends
  <1>2. web[w] \in WebType /\ WebOK(w) /\ web[w].cookie # 0
    BY <1>1, WebTyped DEF WebOK
  <1>3. web[w].cookie \in DOMAIN sessionRows
    BY <1>2, WebTyped DEF WebOK, WebType
  <1>4. /\ sessionRows' \in Seq(SessionType) /\ Len(sessionRows') = Len(sessionRows)
        /\ \A t \in DOMAIN sessionRows : Spent(t)' => Spent(t) \/ t = web[w].cookie
    BY <1>1, <1>3, OneSessionEnds
  <1> DEFINE q == [web[w] EXCEPT !.at = at]
  <1>5. web' = [web EXCEPT ![w] = q]
    BY <1>1 DEF WebGoto
  <1>6. /\ q \in WebType /\ q.at = at /\ q.cookie = web[w].cookie /\ q.issued = 0
        /\ at = "issue" => q.user \in Users
    BY <1>1, <1>2 DEF WebType, WebSteps, WebOK
  <1> HIDE DEF q
  <1>7. /\ browser'.cookie = browser.cookie /\ browser'.lost = browser.lost
        /\ browser'.cookie <= Len(sessionRows') /\ browser' \in [cookie : Nat, lost : BOOLEAN]
    BY <1>1, <1>4 DEF WebInv, WebTypeOK, CookieOK
  <1>8. web' \in [WebRequests -> WebType] /\ WebsOK'
    BY <1>1, <1>4, <1>5, <1>6, <1>7, OneWeb
  <1>9. CookieOK'
    BY <1>5, <1>6, <1>7, CookieKept
  <1> QED
    BY <1>4, <1>7, <1>8, <1>9 DEF WebInv, WebTypeOK

(* The browser gets an answer: a fresh cookie, or none.                    *)
LEMMA BrowserStep ==
  ASSUME WebInv, NEW w \in WebRequests, Respond(w) \/ ClearCookies(w)
  PROVE  WebInv'
  <1>1. /\ web[w] \in WebType /\ WebOK(w) /\ UNCHANGED sessionRows
        /\ web' = [web EXCEPT ![w] = IdleWeb]
    BY WebTyped DEF Respond, ClearCookies, WebEnds
  <1>2. /\ browser' \in [cookie : Nat, lost : BOOLEAN]
        /\ \/ browser'.cookie = 0
           \/ browser'.cookie = web[w].issued /\ web[w].at = "respond"
           \/ browser'.cookie = browser.cookie /\ browser'.lost
    <2>1. CASE Respond(w)
      <3>1. web[w].issued \in Nat
        BY <1>1 DEF WebType
      <3> QED
        BY <2>1, <3>1 DEF Respond
    <2>2. CASE ClearCookies(w)
      <3>1. browser \in [cookie : Nat, lost : BOOLEAN]
        BY DEF WebInv, WebTypeOK
      <3> QED
        BY <2>2, <3>1 DEF ClearCookies
    <2> QED
      BY <2>1, <2>2
  <1>3. /\ \A s \in DOMAIN sessionRows : Spent(s)' => Spent(s)
        /\ sessionRows' \in Seq(SessionType) /\ Len(sessionRows') = Len(sessionRows)
    BY <1>1 DEF Spent, WebInv, WebTypeOK
  <1>4. web' \in [WebRequests -> WebType] /\ WebsOK'
    BY <1>1, <1>2, <1>3, IdleWebType, OneWeb
  <1>5. CookieOK'
    <2>1. CASE browser'.cookie = 0
      BY <1>3, <2>1, WebTyped DEF CookieOK
    <2>2. CASE browser'.cookie = web[w].issued /\ web[w].at = "respond"
      <3>1. /\ browser'.cookie = web[w].issued /\ web[w].issued \in DOMAIN sessionRows
            /\ ~Spent(web[w].issued)
        BY <1>1, <2>2 DEF WebOK
      <3>2. ~Spent(browser.cookie)' /\ browser'.cookie <= Len(sessionRows')
        BY <1>1, <1>3, <3>1, WebTyped DEF Spent
      <3> QED
        BY <3>2 DEF CookieOK
    <2>3. CASE browser'.cookie = browser.cookie /\ browser'.lost
      BY <1>3, <2>3 DEF WebInv, CookieOK
    <2> QED
      BY <1>2, <2>1, <2>2, <2>3
  <1> QED
    BY <1>2, <1>3, <1>4, <1>5 DEF WebInv, WebTypeOK

Bringing(q, n) == [q EXCEPT !.at = "respond", !.issued = n]

LEMMA BringsSession ==
  ASSUME NEW q \in WebType, NEW n \in Nat
  PROVE  /\ Bringing(q, n) \in WebType /\ Bringing(q, n).at = "respond"
         /\ Bringing(q, n).cookie = q.cookie /\ Bringing(q, n).issued = n
  <1>1. Bringing(q, n) \in WebType
    BY DEF Bringing, WebType, WebSteps
  <1>2. /\ Bringing(q, n).at = "respond" /\ Bringing(q, n).cookie = q.cookie
        /\ Bringing(q, n).issued = n
    BY DEF Bringing, WebType
  <1> QED
    BY <1>1, <1>2

(* A new session is nobody's yet but of the request that brings it.        *)
LEMMA IssueSessionStep ==
  ASSUME WebInv, NEW w \in WebRequests, IssueSession(w)
  PROVE  WebInv'
  <1>0. PICK n \in Nat : n = Len(sessionRows)
    BY WebTyped
  <1> DEFINE row == [user |-> web[w].user, ended |-> "no"]
             q == Bringing(web[w], n + 1)
  <1>1. /\ web[w] \in WebType /\ WebOK(w) /\ web[w].at = "issue" /\ UNCHANGED browser
        /\ sessionRows' = Append(sessionRows, row) /\ web' = [web EXCEPT ![w] = q]
    BY <1>0, WebTyped DEF IssueSession, Bringing
  <1>2. sessionRows \in Seq(SessionType) /\ n \in Nat /\ row \in SessionType
    BY <1>1 DEF WebInv, WebTypeOK, SessionType, Ends, WebOK
  <1>3. /\ q \in WebType /\ q.at = "respond" /\ q.cookie = web[w].cookie /\ q.issued = n + 1
    <2>1. n + 1 \in Nat
      BY <1>0
    <2> QED
      BY <1>1, <2>1, BringsSession
  <1>4. /\ sessionRows' \in Seq(SessionType) /\ Len(sessionRows') = n + 1
        /\ sessionRows'[n + 1] = row /\ row.ended = "no"
        /\ \A s \in 1 .. n : sessionRows'[s] = sessionRows[s]
        /\ DOMAIN sessionRows = 1 .. n /\ DOMAIN sessionRows' = 1 .. (n + 1)
    BY <1>0, <1>1, <1>2
  <1>5. /\ ~Spent(n + 1)' /\ \A s \in 1 .. n : Spent(s)' <=> Spent(s)
    BY <1>4 DEF Spent
  <1>6. \A v \in WebRequests : web'[v] = IF v = w THEN q ELSE web[v]
    BY <1>1 DEF WebInv, WebTypeOK
  <1> HIDE DEF q, row
  <1>7. ASSUME NEW v \in WebRequests
        PROVE  /\ web[v].cookie \in 0 .. n /\ web[v].issued \in 0 .. n
               /\ web[v] \in WebType /\ WebOK(v)
    BY <1>0, <1>2, <1>4, WebTyped DEF WebOK, WebType
  <1>8. browser.cookie \in 0 .. n
    BY <1>0, <1>2, WebTyped
  <1>9. WebOK(w)'
    BY <1>1, <1>2, <1>3, <1>4, <1>5, <1>6, <1>7, <1>8 DEF WebOK
  <1>10. ASSUME NEW v \in WebRequests, v # w
         PROVE  WebOK(v)'
    <2>1. web'[v] = web[v]
      BY <1>6, <1>10
    <2>2. CASE web[v].at # "respond"
      BY <1>2, <1>4, <1>7, <2>1, <2>2 DEF WebOK
    <2>3. CASE web[v].at = "respond"
      <3>1. /\ web[v].issued \in 1 .. n /\ ~Spent(web[v].issued)
            /\ browser.cookie # web[v].issued
            /\ \A u \in WebRequests : /\ web[u].cookie # web[v].issued
                                      /\ u # v => web[u].issued # web[v].issued
        BY <1>4, <1>7, <2>3 DEF WebOK
      <3>2. \A u \in WebRequests : /\ web'[u].cookie # web[v].issued
                                   /\ u # v => web'[u].issued # web[v].issued
        BY <1>2, <1>3, <1>6, <3>1
      <3>3. web[v].issued \in DOMAIN sessionRows' /\ ~Spent(web[v].issued)'
        BY <1>2, <1>4, <1>5, <2>1, <3>1
      <3> QED
        BY <1>1, <1>2, <1>4, <1>7, <2>1, <2>3, <3>1, <3>2, <3>3 DEF WebOK
    <2> QED
      BY <2>2, <2>3
  <1>11. CookieOK'
    <2>1. Renewing(w)'
      BY <1>3, <1>6 DEF Renewing
    <2> QED
      BY <1>1, <1>2, <1>4, <1>8, <2>1 DEF CookieOK
  <1>12. WebTypeOK'
    BY <1>1, <1>3, <1>4 DEF WebInv, WebTypeOK
  <1> QED
    BY <1>9, <1>10, <1>11, <1>12 DEF WebInv, WebsOK

LEMMA AbortWebStep ==
  ASSUME WebInv, NEW w \in WebRequests, AbortWeb(w)
  PROVE  WebInv'
  <1>1. web[w] \in WebType /\ WebOK(w) /\ UNCHANGED sessionRows
    BY WebTyped DEF AbortWeb
  <1>2. CASE ClearsOnFailure(w) /\ WebGoto(w, "clear") /\ UNCHANGED browser
    <2> DEFINE q == [web[w] EXCEPT !.at = "clear"]
    <2>1. web' = [web EXCEPT ![w] = q]
      BY <1>2 DEF WebGoto
    <2>2. /\ q \in WebType /\ q.at = "clear" /\ q.cookie = web[w].cookie
          /\ q.issued = 0
      BY <1>1, <1>2 DEF WebType, WebSteps, WebOK, ClearsOnFailure
    <2> HIDE DEF q
    <2> QED
      BY <1>1, <1>2, <2>1, <2>2, WebGoesOn
  <1>3. CASE /\ WebEnds(w)
             /\ browser' = [browser EXCEPT !.lost = @ \/ web[w].at \in {"issue", "respond", "clear"}]
    <2>1. /\ browser'.cookie = browser.cookie
          /\ browser'.lost = (browser.lost \/ Renewing(w))
          /\ browser' \in [cookie : Nat, lost : BOOLEAN]
      <3>1. /\ browser \in [cookie : Nat, lost : BOOLEAN]
            /\ (browser.lost \/ web[w].at \in {"issue", "respond", "clear"}) \in BOOLEAN
        BY DEF WebInv, WebTypeOK
      <3> QED
        BY <1>3, <3>1 DEF Renewing
    <2>2. /\ \A s \in DOMAIN sessionRows : Spent(s)' => Spent(s)
          /\ sessionRows' \in Seq(SessionType) /\ Len(sessionRows') = Len(sessionRows)
          /\ Spent(browser.cookie)' => Spent(browser.cookie)
          /\ browser'.cookie <= Len(sessionRows')
      BY <1>1, <2>1 DEF Spent, WebInv, WebTypeOK, CookieOK
    <2>3. web' \in [WebRequests -> WebType] /\ WebsOK'
      BY <1>3, <2>1, <2>2, IdleWebType, OneWeb DEF WebEnds
    <2>4. CookieOK'
      <3>1. web' = [web EXCEPT ![w] = IdleWeb]
        BY <1>3 DEF WebEnds
      <3>2. CASE Renewing(w)
        BY <2>1, <2>2, <3>1, <3>2, CookieKept
      <3>3. CASE ~Renewing(w)
        <4>1. browser'.lost = browser.lost
          BY <2>1, <3>3, WebTyped
        <4> QED
          BY <2>1, <2>2, <3>1, <3>3, <4>1, CookieKept
      <3> QED
        BY <3>2, <3>3
    <2> QED
      BY <2>1, <2>2, <2>3, <2>4 DEF WebInv, WebTypeOK
  <1> QED
    BY <1>2, <1>3 DEF AbortWeb

(* Sessions that end without the browser's doing.                          *)
LEMMA SessionsEnd ==
  ASSUME WebInv, UNCHANGED <<web, browser>>,
         sessionRows' \in Seq(SessionType), Len(sessionRows') = Len(sessionRows),
         \A s \in DOMAIN sessionRows : Spent(s)' => Spent(s)
  PROVE  WebInv'
  <1>1. DOMAIN sessionRows = 1 .. Len(sessionRows) /\ DOMAIN sessionRows' = DOMAIN sessionRows
    BY DEF WebInv, WebTypeOK
  <1>2. \A w \in WebRequests : WebOK(w)'
    BY <1>1 DEF WebInv, WebsOK, WebOK
  <1>3. CookieOK'
    <2>1. browser.cookie # 0 => browser.cookie \in DOMAIN sessionRows
      BY <1>1 DEF WebInv, WebTypeOK, CookieOK
    <2> QED
      BY <2>1 DEF WebInv, CookieOK, Renewing
  <1> QED
    BY <1>2, <1>3 DEF WebInv, WebTypeOK, WebsOK

LEMMA EndSessionStep ==
  ASSUME WebInv, NEW s \in DOMAIN sessionRows, NEW call, NEW why \in {"revoked", "expired"},
         EndSession(s, call, why)
  PROVE  WebInv'
  <1> DEFINE row == [sessionRows[s] EXCEPT !.ended = why]
  <1>1. /\ sessionRows' = [sessionRows EXCEPT ![s] = row] /\ UNCHANGED <<web, browser>>
    BY DEF EndSession, ElsewhereFromUsers
  <1>2. sessionRows \in Seq(SessionType) /\ sessionRows[s] \in SessionType
    BY DEF WebInv, WebTypeOK
  <1>3. row \in SessionType /\ row.ended = why
    BY <1>2 DEF SessionType, Ends
  <1> HIDE DEF row
  <1>4. /\ sessionRows' \in Seq(SessionType) /\ Len(sessionRows') = Len(sessionRows)
        /\ \A t \in DOMAIN sessionRows : sessionRows'[t] = IF t = s THEN row ELSE sessionRows[t]
    BY <1>1, <1>2, <1>3
  <1>5. \A t \in DOMAIN sessionRows : Spent(t)' => Spent(t)
    BY <1>3, <1>4 DEF Spent
  <1> QED
    BY <1>1, <1>4, <1>5, SessionsEnd

LEMMA RevokeAllStep ==
  ASSUME WebInv, NEW p \in Requests, RevokeAll(p)
  PROVE  WebInv'
  <1>1. UNCHANGED <<web, browser>>
    BY DEF RevokeAll, ElsewhereFromUsers
  <1>2. sessionRows' = [s \in DOMAIN sessionRows |->
                          IF sessionRows[s].user = accounting[p].user
                          THEN Ended(sessionRows[s], "reset") ELSE sessionRows[s]]
    BY DEF RevokeAll
  <1>3. /\ sessionRows \in Seq(SessionType) /\ DOMAIN sessionRows = 1 .. Len(sessionRows)
        /\ Len(sessionRows) \in Nat
        /\ \A s \in DOMAIN sessionRows : sessionRows[s] \in SessionType
    BY DEF WebInv, WebTypeOK
  <1>4. \A s \in DOMAIN sessionRows :
          sessionRows'[s] \in SessionType /\ sessionRows'[s].ended \in {sessionRows[s].ended, "reset"}
    BY <1>2, <1>3, EndedType DEF Ends
  <1>5. sessionRows' \in Seq(SessionType) /\ Len(sessionRows') = Len(sessionRows)
    BY <1>2, <1>3, <1>4
  <1>6. \A s \in DOMAIN sessionRows : Spent(s)' => Spent(s)
    BY <1>4 DEF Spent
  <1> QED
    BY <1>1, <1>5, <1>6, SessionsEnd

LEMMA WebUntouched ==
  ASSUME WebInv, UNCHANGED <<sessionRows, web, browser>>
  PROVE  WebInv'
  BY DEF WebInv, WebTypeOK, WebsOK, WebOK, CookieOK, Spent, Renewing

LEMMA WebStep == WebInv /\ [Next]_vars => WebInv'
  <1> SUFFICES ASSUME WebInv, [Next]_vars
               PROVE  WebInv'
    OBVIOUS
  <1>1. CASE AccountsNext
    <2>1. ASSUME NEW p \in Requests, BeginAccounting(p) \/ ContinueAccount(p) \/ AbortAccount(p)
          PROVE  WebInv'
      <3>1. RevokeAll(p) \/ UNCHANGED <<sessionRows, web, browser>>
        BY <2>1 DEF BeginAccounting, InviteMember, CreateOrganization, Register,
                    RequestPasswordReset, ConfirmPasswordReset, BeginAccount, ContinueAccount,
                    CreateUser, CreateToken, FindMembership, CreateMembership,
                    CommitOrganization, CreateAccount, CreateReset, SetPassword,
                    AcceptInvitations, MarkUsed, AbortAccount, ElsewhereFromUsers
      <3> QED
        BY <3>1, RevokeAllStep, WebUntouched
    <2>2. ASSUME \/ \E o \in Organizations, u \in Users, new \in {"ACTIVE", "DEACTIVATED"} :
                      UpdateMembershipStatus(o, u, new)
                 \/ \E u \in Users : \E token \in resetTokens[u] : TokenExpires(u, token)
          PROVE  WebInv'
      BY <2>2, WebUntouched DEF UpdateMembershipStatus, TokenExpires, ElsewhereFromUsers
    <2>3. ASSUME NEW s \in DOMAIN sessionRows,
                 EndSession(s, "revokeSession", "revoked") \/ EndSession(s, "sessionExpires", "expired")
          PROVE  WebInv'
      BY <2>3, EndSessionStep
    <2>4. ASSUME NEW w \in WebRequests,
                 \/ \E u \in Users : Login(w, u)
                 \/ CallProxy(w) \/ CallRefresh(w) \/ CallLogout(w) \/ ContinueWeb(w) \/ AbortWeb(w)
          PROVE  WebInv'
      BY <2>4, BeginWebStep, ForwardStep, FindSessionStep, EndsItsSession, IssueSessionStep,
         BrowserStep, AbortWebStep DEF ContinueWeb
    <2> QED
      BY <1>1, <2>1, <2>2, <2>3, <2>4 DEF AccountsNext
  <1>2. CASE UNCHANGED accountVars
    BY <1>2, WebUntouched DEF accountVars
  <1> QED
    BY <1>1, <1>2, StepsOfAccounts

LEMMA WebInitial == Init => WebInv
  <1> SUFFICES ASSUME Init PROVE WebInv
    OBVIOUS
  <1>1. /\ sessionRows = <<>> /\ browser = [cookie |-> 0, lost |-> FALSE]
        /\ web = [w \in WebRequests |-> IdleWeb]
    BY DEF Init, AccountsInit
  <1>2. WebTypeOK /\ CookieOK
    BY <1>1, IdleWebType DEF WebTypeOK, CookieOK
  <1>3. WebsOK
    BY <1>1, IdleWebType DEF WebsOK, WebOK
  <1> QED
    BY <1>2, <1>3 DEF WebInv

LEMMA WebInvariance == Spec => []WebInv
  BY WebInitial, WebStep, PTL DEF Spec

(* However many requests of a browser renew its token at the same time,    *)
(* the one that it is left with has not been used up.                      *)
THEOREM CookiesAreNotUsedUp == Spec => []CookieIsNotUsedUp
  <1>1. WebInv => CookieIsNotUsedUp
    <2> SUFFICES ASSUME WebInv, WebUnderWay = {}, browser.cookie # 0, ~browser.lost,
                        Spent(browser.cookie)
                 PROVE  FALSE
      BY DEF CookieIsNotUsedUp, Spent
    <2>1. PICK w \in WebRequests : Renewing(w)
      BY DEF WebInv, CookieOK
    <2>2. web[w] # IdleWeb
      BY <2>1, IdleWebType DEF Renewing
    <2> QED
      BY <2>2 DEF WebUnderWay
  <1> QED
    BY <1>1, WebInvariance, PTL
=============================================================================
