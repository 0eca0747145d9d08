------------------------------ MODULE Accounts ------------------------------
(***************************************************************************)
(* How accounts come and go in user-service: createUser (called by         *)
(* auth-service's register), findOrCreateByGoogle (handleGoogleLogin),     *)
(* validateUser (login) and deleteAccount, on the collection "users" with  *)
(* its unique indexes on email and userName.  Requests overlap at every    *)
(* await.                                                                  *)
(*                                                                         *)
(* A Google login names its account user<googleId>, so the id stands for   *)
(* the name.  A password is right or wrong, and only accounts that         *)
(* createUser made have one.                                               *)
(***************************************************************************)
CONSTANTS
    Req,       \* register and login requests; also the accounts they insert
    Email,
    Name,      \* user names
    GoogleId,  \* those of them that are user<googleId>
    Faults     \* TRUE: the database may fail

ASSUME GoogleIdAssumption == GoogleId \subseteq Name
ASSUME FaultsAssumption == Faults \in BOOLEAN

VARIABLES
    request,   \* request[r]: what r asks for
    pc,        \* pc[r]: where its handler is, or how it was answered
    token,     \* token[r]: the account its token is for, or r
    accounts,  \* documents in "users"
    deleted    \* those that were and are gone

vars == <<request, pc, token, accounts, deleted>>

(* What auth-service forwards to user-service. *)
RegisterRequest == [kind : {"register"}, email : Email, name : Name]
GoogleRequest == [kind : {"google"}, email : Email, name : GoogleId]
LoginRequest == [kind : {"login"}, email : Email]
Request == RegisterRequest \cup GoogleRequest \cup LoginRequest
PC == {"idle", "insert", "token", "exists", "error"}

TypeOK ==
    /\ request \in [Req -> Request]
    /\ pc \in [Req -> PC]
    /\ token \in [Req -> Req]
    /\ accounts \subseteq Req
    /\ deleted \subseteq Req

Init ==
    /\ request \in [Req -> Request]
    /\ pc = [r \in Req |-> "idle"]
    /\ token = [r \in Req |-> r]
    /\ accounts = {}
    /\ deleted = {}

IsRegister(r) == request[r].kind = "register"
IsGoogle(r) == request[r].kind = "google"
IsLogin(r) == request[r].kind = "login"

SameEmail(r, a) == request[a].email = request[r].email
SameName(r, a) == request[a].name = request[r].name
SameGoogleId(r, a) == IsGoogle(a) /\ SameName(r, a)

(* Mutant: no unique index on userName. *)
ClashByEmail(r, a) == SameEmail(r, a)

(* The unique indexes refuse r next to a. *)
Clash(r, a) == SameEmail(r, a) \/ SameName(r, a)

Answer(r, p) == pc' = [pc EXCEPT ![r] = p]

-----------------------------------------------------------------------------
(* createUser looks for an account with the email or the user name, and    *)
(* goes on to hash the password and insert when there IS one.              *)
CreateUser(r) ==
    /\ pc[r] = "idle"
    /\ IsRegister(r)
    /\ Answer(r, IF \E a \in accounts : Clash(r, a) THEN "insert" ELSE "exists")
    /\ UNCHANGED <<request, token, accounts, deleted>>

(* findOrCreateByGoogle looks for the email or the googleId. *)
GoogleLogin(r) ==
    /\ pc[r] = "idle"
    /\ IsGoogle(r)
    /\ \/ \E a \in accounts : /\ SameEmail(r, a) \/ SameGoogleId(r, a)
                              /\ token' = [token EXCEPT ![r] = a]
                              /\ Answer(r, "token")
       \/ /\ \A a \in accounts : ~SameEmail(r, a) /\ ~SameGoogleId(r, a)
          /\ Answer(r, "insert")
          /\ UNCHANGED token
    /\ UNCHANGED <<request, accounts, deleted>>

(* Mutant: no password is asked of an account that has none. *)
LoginWithoutPassword(r) ==
    /\ pc[r] = "idle"
    /\ IsLogin(r)
    /\ \/ \E a \in accounts : /\ SameEmail(r, a)
                              /\ token' = [token EXCEPT ![r] = a]
                              /\ Answer(r, "token")
       \/ Answer(r, "error") /\ UNCHANGED token
    /\ UNCHANGED <<request, accounts, deleted>>

(* validateUser compares the password and login makes the token; no        *)
(* account, no password and a wrong one all end in the same error.         *)
Login(r) ==
    /\ pc[r] = "idle"
    /\ IsLogin(r)
    /\ \/ \E a \in accounts : /\ SameEmail(r, a)
                              /\ IsRegister(a)
                              /\ token' = [token EXCEPT ![r] = a]
                              /\ Answer(r, "token")
       \/ Answer(r, "error") /\ UNCHANGED token
    /\ UNCHANGED <<request, accounts, deleted>>

(* Mutant: inserts the request's body and not the document made of it. *)
InsertBody(r) ==
    /\ pc[r] = "insert"
    /\ accounts' = accounts \cup {request[r]}
    /\ Answer(r, "token")
    /\ UNCHANGED <<request, token, deleted>>

(* insertOne, then a token for the new account; or a duplicate key error.  *)
Insert(r) ==
    /\ pc[r] = "insert"
    /\ \/ /\ \A a \in accounts : ~Clash(r, a)
          /\ accounts' = accounts \cup {r}
          /\ Answer(r, "token")
       \/ /\ \E a \in accounts : Clash(r, a)
          /\ Answer(r, "error")
          /\ UNCHANGED accounts
    /\ UNCHANGED <<request, token, deleted>>

(* deleteAccount *)
DeleteAccount(a) ==
    /\ a \in accounts
    /\ accounts' = accounts \ {a}
    /\ deleted' = deleted \cup {a}
    /\ UNCHANGED <<request, pc, token>>

(* The lookup or the insert fails, or its answer is lost. *)
Fail(r) ==
    /\ Faults
    /\ pc[r] \in {"idle", "insert"}
    /\ Answer(r, "error")
    /\ \/ UNCHANGED accounts
       \/ /\ pc[r] = "insert" /\ \A a \in accounts : ~Clash(r, a)
          /\ accounts' = accounts \cup {r}
    /\ UNCHANGED <<request, token, deleted>>

Next == \/ \E r \in Req : CreateUser(r) \/ GoogleLogin(r) \/ Login(r) \/ Insert(r) \/ Fail(r)
        \/ \E a \in accounts : DeleteAccount(a)

Spec == Init /\ [][Next]_vars

-----------------------------------------------------------------------------
(* Two first logins of one Google user may both miss, and yet never leave  *)
(* two accounts: googleId has no unique index, but the name made of it has. *)
OneAccountPerGoogleId ==
    \A a, b \in accounts : IsGoogle(b) /\ SameGoogleId(b, a) => a = b

(* A token is for an account that was there, and that is the one the       *)
(* request is entitled to: its own new one for a registration; one with    *)
(* the email and a password for a login; one with the email or the         *)
(* googleId for a Google login.  An account found by a lookup and replaced *)
(* under the handler's hands makes no difference.                          *)
Entitled(r, a) ==
    \/ IsRegister(r) /\ a = r
    \/ IsLogin(r) /\ SameEmail(r, a) /\ IsRegister(a)
    \/ IsGoogle(r) /\ (SameEmail(r, a) \/ SameGoogleId(r, a))

TokensAreOwned ==
    \A r \in Req : pc[r] = "token" =>
        token[r] \in accounts \cup deleted /\ Entitled(r, token[r])

-----------------------------------------------------------------------------
(* What the program is written to do and does not. *)

(* Whoever registers is told that the account exists (user.service.ts:97)  *)
(* only if there was one with the email or the user name.                  *)
ExistsMeansTaken ==
    \A r \in Req : pc[r] = "exists" => \E a \in accounts \cup deleted : Clash(r, a)
=============================================================================
