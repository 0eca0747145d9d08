--------------------------- MODULE AccountsProofs ---------------------------
(***************************************************************************)
(* The safety properties of Accounts, proved for every set of requests,    *)
(* emails and names.  The inductive invariant Inv says, besides types, what *)
(* the unique indexes guarantee and what holds of a handler under way: it  *)
(* has inserted nothing yet, and only a registration or a Google login     *)
(* comes to insert.                                                        *)
(***************************************************************************)
EXTENDS Accounts, TLAPS

Present == accounts \cup deleted

Unique == \A a, b \in accounts : Clash(a, b) => a = b

UnderWay ==
    \A r \in Req : pc[r] \in {"idle", "insert"} =>
        /\ r \notin Present
        /\ token[r] = r
        /\ pc[r] = "insert" => IsRegister(r) \/ IsGoogle(r)

Inv ==
    /\ TypeOK
    /\ Unique
    /\ UnderWay
    /\ TokensAreOwned

LEMMA ClashSymmetric == \A r, a \in Req : Clash(r, a) <=> Clash(a, r)
  BY DEF Clash, SameEmail, SameName

LEMMA InitInv == Init => Inv
  BY DEF Init, Inv, TypeOK, PC, Unique, UnderWay, Present, TokensAreOwned

-----------------------------------------------------------------------------
(* One lemma per action. *)

(* The handler of r takes a step that inserts nothing and hands out no     *)
(* token.                                                                  *)
LEMMA MovesInv ==
    ASSUME Inv, NEW r \in Req, pc[r] \in {"idle", "insert"},
           NEW p \in {"insert", "exists", "error"}, Answer(r, p),
           p = "insert" => IsRegister(r) \/ IsGoogle(r),
           UNCHANGED <<request, token, accounts, deleted>>
    PROVE  Inv'
<1> USE DEF Inv, Answer, IsRegister, IsGoogle
<1>1. TypeOK'
  BY DEF TypeOK, PC
<1>2. Unique'
  BY DEF Unique, Clash, SameEmail, SameName
<1>3. UnderWay'
  BY DEF UnderWay, Present, TypeOK
<1>4. TokensAreOwned'
  BY DEF TokensAreOwned, Entitled, IsLogin, SameEmail, SameGoogleId, SameName, TypeOK
<1> QED
  BY <1>1, <1>2, <1>3, <1>4

(* A lookup has found a, and the handler of r makes a token for it. *)
LEMMA FoundInv ==
    ASSUME Inv, NEW r \in Req, NEW a \in accounts, Entitled(r, a),
           token' = [token EXCEPT ![r] = a], Answer(r, "token"),
           UNCHANGED <<request, accounts, deleted>>
    PROVE  Inv'
<1> USE DEF Inv, Answer
<1>1. TypeOK'
  BY DEF TypeOK, PC
<1>2. Unique'
  BY DEF Unique, Clash, SameEmail, SameName
<1>3. UnderWay'
  BY DEF UnderWay, Present, IsRegister, IsGoogle, TypeOK
<1>4. TokensAreOwned'
  BY DEF TokensAreOwned, Entitled, IsRegister, IsGoogle, IsLogin, SameEmail, SameGoogleId,
         SameName, TypeOK
<1> QED
  BY <1>1, <1>2, <1>3, <1>4

(* insertOne goes through, whether or not its caller hears of it. *)
LEMMA InsertedInv ==
    ASSUME Inv, NEW r \in Req, pc[r] = "insert", \A a \in accounts : ~Clash(r, a),
           NEW p \in {"token", "error"}, Answer(r, p),
           accounts' = accounts \cup {r}, UNCHANGED <<request, token, deleted>>
    PROVE  Inv'
<1> USE DEF Inv, Answer
<1>1. r \notin Present /\ token[r] = r /\ (IsRegister(r) \/ IsGoogle(r))
  BY DEF UnderWay
<1>2. Entitled(r, r)
  BY <1>1 DEF Entitled, SameEmail
<1>3. \A a \in accounts : ~Clash(a, r)
  BY ClashSymmetric DEF TypeOK
<1>4. TypeOK'
  BY DEF TypeOK, PC
<1>5. Unique'
  BY <1>3 DEF Unique, Clash, SameEmail, SameName, TypeOK
<1>6. UnderWay'
  BY DEF UnderWay, Present, IsRegister, IsGoogle, TypeOK
<1>7. TokensAreOwned'
  BY <1>1, <1>2 DEF TokensAreOwned, Entitled, IsRegister, IsGoogle, IsLogin, SameEmail,
                    SameGoogleId, SameName, TypeOK
<1> QED
  BY <1>4, <1>5, <1>6, <1>7

LEMMA CreateUserInv ==
    ASSUME Inv, NEW r \in Req, CreateUser(r) PROVE Inv'
<1>1. CASE \E a \in accounts : Clash(r, a)
  BY <1>1, MovesInv DEF CreateUser
<1>2. CASE ~\E a \in accounts : Clash(r, a)
  BY <1>2, MovesInv DEF CreateUser
<1> QED
  BY <1>1, <1>2

LEMMA GoogleLoginInv ==
    ASSUME Inv, NEW r \in Req, GoogleLogin(r) PROVE Inv'
<1>1. ASSUME NEW a \in accounts, SameEmail(r, a) \/ SameGoogleId(r, a),
             token' = [token EXCEPT ![r] = a], Answer(r, "token")
      PROVE  Inv'
  <2>1. Entitled(r, a)
    BY <1>1 DEF GoogleLogin, Entitled
  <2> QED
    BY <1>1, <2>1, FoundInv DEF GoogleLogin
<1>2. CASE Answer(r, "insert") /\ UNCHANGED token
  BY <1>2, MovesInv DEF GoogleLogin
<1> QED
  BY <1>1, <1>2 DEF GoogleLogin

LEMMA LoginInv ==
    ASSUME Inv, NEW r \in Req, Login(r) PROVE Inv'
<1>1. ASSUME NEW a \in accounts, SameEmail(r, a), IsRegister(a),
             token' = [token EXCEPT ![r] = a], Answer(r, "token")
      PROVE  Inv'
  <2>1. Entitled(r, a)
    BY <1>1 DEF Login, Entitled
  <2> QED
    BY <1>1, <2>1, FoundInv DEF Login
<1>2. CASE Answer(r, "error") /\ UNCHANGED token
  BY <1>2, MovesInv DEF Login
<1> QED
  BY <1>1, <1>2 DEF Login

LEMMA InsertInv ==
    ASSUME Inv, NEW r \in Req, Insert(r) PROVE Inv'
<1>1. CASE \A a \in accounts : ~Clash(r, a)
  BY <1>1, InsertedInv DEF Insert
<1>2. CASE \E a \in accounts : Clash(r, a)
  BY <1>2, MovesInv DEF Insert
<1> QED
  BY <1>1, <1>2

LEMMA FailInv ==
    ASSUME Inv, NEW r \in Req, Fail(r) PROVE Inv'
<1>1. CASE UNCHANGED accounts
  BY <1>1, MovesInv DEF Fail
<1>2. CASE /\ pc[r] = "insert" /\ \A a \in accounts : ~Clash(r, a)
           /\ accounts' = accounts \cup {r}
  BY <1>2, InsertedInv DEF Fail
<1> QED
  BY <1>1, <1>2 DEF Fail

LEMMA DeleteAccountInv ==
    ASSUME Inv, NEW d \in accounts, DeleteAccount(d) PROVE Inv'
<1> USE DEF Inv, DeleteAccount, IsRegister, IsGoogle
<1>1. TypeOK'
  BY DEF TypeOK
<1>2. Unique'
  BY DEF Unique, Clash, SameEmail, SameName
<1>3. UnderWay'
  BY DEF UnderWay, Present
<1>4. TokensAreOwned'
  BY DEF TokensAreOwned, Entitled, IsLogin, SameEmail, SameGoogleId, SameName
<1> QED
  BY <1>1, <1>2, <1>3, <1>4

LEMMA StutterInv == Inv /\ UNCHANGED vars => Inv'
  BY DEF vars, Inv, TypeOK, PC, Request, Unique, UnderWay, Present, TokensAreOwned, Entitled,
         Clash, SameEmail, SameName, SameGoogleId, IsRegister, IsGoogle, IsLogin

LEMMA NextInv == Inv /\ [Next]_vars => Inv'
  BY CreateUserInv, GoogleLoginInv, LoginInv, InsertInv, FailInv, DeleteAccountInv, StutterInv
     DEF Next

LEMMA Invariance == Spec => []Inv
  BY InitInv, NextInv, PTL DEF Spec

-----------------------------------------------------------------------------
(* Requests and documents keep their types. *)
THEOREM TypeCorrect == Spec => []TypeOK
<1>1. Inv => TypeOK
  BY DEF Inv
<1> QED
  BY <1>1, Invariance, PTL

(* Overlapping first logins of a Google user leave one account: the userName *)
(* index stands in for the one googleId does not have.                       *)
THEOREM OneGoogleAccount == Spec => []OneAccountPerGoogleId
<1>1. Inv => OneAccountPerGoogleId
  BY DEF Inv, Unique, OneAccountPerGoogleId, SameGoogleId, Clash, SameName, SameEmail
<1> QED
  BY <1>1, Invariance, PTL

(* Nobody is handed the token of an account that they have not made, or    *)
(* shown a password for, or shown the email or googleId of to Google.      *)
THEOREM Owned == Spec => []TokensAreOwned
<1>1. Inv => TokensAreOwned
  BY DEF Inv
<1> QED
  BY <1>1, Invariance, PTL
=============================================================================
