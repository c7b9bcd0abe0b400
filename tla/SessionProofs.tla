------------------------------- MODULE SessionProofs -------------------------------
(***************************************************************************)
(* Proofs about the two kinds of session.  Auth, for any number of         *)
(* concurrent requests, tokens and password changes: a family of refresh   *)
(* tokens is a line, and a new password leaves no older session valid, but *)
(* for the requests that the code lets overtake it.  Chat, for any number  *)
(* of tabs, messages, rounds and analyses, and any cap of the history: a   *)
(* stored exchange is lost to nobody who could know of it, and a failed    *)
(* probe reopens the circuit breaker.                                      *)
(***************************************************************************)
EXTENDS Auth, Chat, FiniteSetTheorems, TLAPS

-----------------------------------------------------------------------------
(* LOGIN SESSIONS *)

Token == [family : Nat, gen : Nat, revoked : BOOLEAN]
Kinds == {None, "login", "rotate", "theft", "change"}

(* The table as a sequence, and every row's family and password known.     *)
TableInv ==
  /\ tokens \in Seq(Token) /\ Len(tokens) <= MaxTokens
  /\ password \in 0..MaxChanges
  /\ \A k \in 1..Len(tokens) : tokens[k].family \in 1..Len(tokens) /\ tokens[k].gen <= password

(* A request that is to rotate or to report a token has read an issued one. *)
RequestInv ==
  /\ req \in [Requests -> [kind : Kinds, token : Nat, gen : Nat]]
  /\ \A r \in Requests :
       /\ req[r].token <= Len(tokens) /\ req[r].gen <= password
       /\ req[r].kind \in {"rotate", "theft"} => req[r].token \in 1..Len(tokens)

HistoryInv ==
  /\ bucket \in 0..LoginLimit /\ access \in BOOLEAN
  /\ stolen \subseteq {tokens[k].family : k \in 1..Len(tokens)}
  /\ raced \subseteq 1..Len(tokens)

(* The tokens a client may rely on. *)
Regular(k) == ~tokens[k].revoked /\ k \notin raced

LineInv ==
  /\ \A i, j \in 1..Len(tokens) :
       Regular(i) /\ Regular(j) /\ tokens[i].family = tokens[j].family => i = j
  /\ \A k \in 1..Len(tokens) : Regular(k) => tokens[k].family \notin stolen
  /\ \A k \in 1..Len(tokens) : Regular(k) => tokens[k].gen = password

AuthInv == TableInv /\ RequestInv /\ HistoryInv /\ LineInv

-----------------------------------------------------------------------------
(* The operators of the model *)

(* A sequence of the same length whose rows differ only in being revoked.  *)
Marks(s) ==
  /\ s \in Seq(Token) /\ Len(s) = Len(tokens)
  /\ \A k \in 1..Len(tokens) : /\ s[k].family = tokens[k].family /\ s[k].gen = tokens[k].gen
                               /\ tokens[k].revoked => s[k].revoked

(* A function on the rows of the table that yields rows is a table again.  *)
LEMMA SameLength ==
  ASSUME tokens \in Seq(Token), NEW s \in [1..Len(tokens) -> Token]
  PROVE  s \in Seq(Token) /\ Len(s) = Len(tokens)
<1>1. Len(tokens) \in Nat /\ DOMAIN s = 1..Len(tokens)
  OBVIOUS
<1>2. s \in Seq(Token)
  BY <1>1
<1> QED
  BY <1>1, <1>2

LEMMA RevokeFamilyMarks ==
  ASSUME tokens \in Seq(Token), NEW family
  PROVE  /\ Marks(RevokeFamily(family))
         /\ \A k \in 1..Len(tokens) : RevokeFamily(family)[k].revoked
                <=> tokens[k].revoked \/ tokens[k].family = family
<1> DEFINE s == RevokeFamily(family)
<1>1. s = [k \in 1..Len(tokens) |->
             [tokens[k] EXCEPT !.revoked = tokens[k].revoked \/ tokens[k].family = family]]
  BY DEF RevokeFamily, Revoked
<1>2. \A k \in 1..Len(tokens) :
        /\ tokens[k] \in Token
        /\ s[k] = [tokens[k] EXCEPT !.revoked = tokens[k].revoked \/ tokens[k].family = family]
  BY <1>1
<1>3. ASSUME NEW k \in 1..Len(tokens)
      PROVE  /\ s[k] \in Token /\ s[k].family = tokens[k].family /\ s[k].gen = tokens[k].gen
             /\ s[k].revoked <=> tokens[k].revoked \/ tokens[k].family = family
  BY <1>2 DEF Token
<1>4. s \in [1..Len(tokens) -> Token]
  BY <1>1, <1>3
<1> QED
  BY <1>3, <1>4, SameLength DEF Marks

LEMMA RevokeUserMarks ==
  ASSUME tokens \in Seq(Token)
  PROVE  Marks(RevokeUser) /\ \A k \in 1..Len(tokens) : RevokeUser[k].revoked
<1> DEFINE s == RevokeUser
<1>1. s = [k \in 1..Len(tokens) |-> [tokens[k] EXCEPT !.revoked = tokens[k].revoked \/ TRUE]]
  BY DEF RevokeUser, Revoked
<1>2. ASSUME NEW k \in 1..Len(tokens)
      PROVE  /\ s[k] \in Token /\ s[k].family = tokens[k].family /\ s[k].gen = tokens[k].gen
             /\ s[k].revoked
  <2>1. tokens[k] \in Token /\ s[k] = [tokens[k] EXCEPT !.revoked = tokens[k].revoked \/ TRUE]
    BY <1>1
  <2> QED
    BY <2>1 DEF Token
<1>3. s \in [1..Len(tokens) -> Token]
  BY <1>1, <1>2
<1> QED
  BY <1>2, <1>3, SameLength DEF Marks

LEMMA RetireMarks ==
  ASSUME tokens \in Seq(Token), NEW k \in 1..Len(tokens)
  PROVE  /\ Marks(Retire(k)) /\ Retire(k)[k].revoked
         /\ \A j \in 1..Len(tokens) \ {k} : Retire(k)[j] = tokens[j]
<1> DEFINE s == Retire(k)
<1>0. tokens[k] \in Token /\ tokens \in [1..Len(tokens) -> Token]
  OBVIOUS
<1>1. tokens[k] \in Token /\ [tokens[k] EXCEPT !.revoked = TRUE] \in Token
  BY <1>0 DEF Token
<1>a. s = [tokens EXCEPT ![k] = [tokens[k] EXCEPT !.revoked = TRUE]]
  BY DEF Retire
<1> HIDE DEF s
<1>2. s \in [1..Len(tokens) -> Token] /\ s[k] = [tokens[k] EXCEPT !.revoked = TRUE]
      /\ \A j \in 1..Len(tokens) \ {k} : s[j] = tokens[j]
  BY <1>0, <1>1, <1>a
<1>3. s[k].revoked /\ s[k].family = tokens[k].family /\ s[k].gen = tokens[k].gen
  BY <1>1, <1>2 DEF Token
<1>4. s \in Seq(Token) /\ Len(s) = Len(tokens)
  BY <1>2, SameLength
<1>5. \A j \in 1..Len(tokens) : /\ s[j].family = tokens[j].family /\ s[j].gen = tokens[j].gen
                                /\ tokens[j].revoked => s[j].revoked
  BY <1>2, <1>3
<1> QED
  BY <1>2, <1>3, <1>4, <1>5 DEF Marks, s

-----------------------------------------------------------------------------
(* Every step either leaves the table, revokes rows of it, or appends one. *)

LEMMA RequestSteps ==
  ASSUME AuthInv, RequestInv', tokens' = tokens, password' = password,
         stolen' = stolen, raced' = raced, bucket' \in 0..LoginLimit, access' \in BOOLEAN
  PROVE  AuthInv'
<1> USE DEF AuthInv
<1>1. TableInv' /\ HistoryInv'
  BY DEF TableInv, HistoryInv
<1>2. LineInv'
  BY DEF LineInv, Regular
<1> QED
  BY <1>1, <1>2

(* A request that begins at a row of the table, or without one. *)
LEMMA BeginKeeps ==
  ASSUME AuthInv, NEW r \in Requests, NEW kind \in Kinds, NEW k \in 0..Len(tokens),
         kind \in {"rotate", "theft"} => k # 0, Begin(r, kind, k),
         tokens' = tokens, password' = password
  PROVE  RequestInv'
<1>1. [kind |-> kind, token |-> k, gen |-> password] \in [kind : Kinds, token : Nat, gen : Nat]
  BY DEF AuthInv, TableInv
<1> QED
  BY <1>1 DEF AuthInv, TableInv, RequestInv, Begin

(* A request that ends while the table only grows and the password moves on. *)
LEMMA AnswerKeeps ==
  ASSUME AuthInv, NEW r \in Requests, Answer(r),
         Len(tokens') \in Nat, Len(tokens) <= Len(tokens'),
         password' \in Nat, password <= password'
  PROVE  RequestInv'
<1>1. Idle \in [kind : Kinds, token : Nat, gen : Nat] /\ Idle.token = 0 /\ Idle.gen = 0
      /\ Idle.kind = None
  BY DEF Idle, Kinds
<1>2. Len(tokens) \in Nat /\ password \in Nat
  BY BoundsAssumption DEF AuthInv, TableInv
<1>3. req' \in [Requests -> [kind : Kinds, token : Nat, gen : Nat]]
  BY <1>1 DEF AuthInv, RequestInv, Answer
<1>4. ASSUME NEW q \in Requests
      PROVE  /\ req'[q].token <= Len(tokens') /\ req'[q].gen <= password'
             /\ req'[q].kind \in {"rotate", "theft"} => req'[q].token \in 1..Len(tokens')
  <2>1. CASE q = r
    <3>1. req'[q] = Idle
      BY <2>1 DEF AuthInv, RequestInv, Answer
    <3> QED
      BY <3>1, <1>1, NoneAssumption
  <2>2. CASE q # r
    <3>1. req'[q] = req[q] /\ req[q].token \in Nat /\ req[q].gen \in Nat
      BY <2>2 DEF AuthInv, RequestInv, Answer
    <3> QED
      BY <3>1, <1>2 DEF AuthInv, RequestInv
  <2> QED
    BY <2>1, <2>2
<1> QED
  BY <1>3, <1>4 DEF RequestInv

(* Rows are revoked; the password moves on only if they all are.           *)
LEMMA MarkSteps ==
  ASSUME AuthInv, Marks(tokens'), RequestInv', password' \in 0..MaxChanges, password <= password',
         password' # password => \A k \in 1..Len(tokens) : tokens'[k].revoked,
         NEW S \in SUBSET {tokens[k].family : k \in 1..Len(tokens)},
         stolen' = stolen \cup S,
         \A k \in 1..Len(tokens) : tokens[k].family \in S => tokens'[k].revoked,
         raced' = raced, bucket' = bucket, access' \in BOOLEAN
  PROVE  AuthInv'
<1> USE DEF AuthInv
<1>1. Len(tokens) \in Nat /\ password \in Nat /\ \A k \in 1..Len(tokens) : tokens[k] \in Token
  BY BoundsAssumption DEF TableInv
<1>a. \A k \in 1..Len(tokens) : tokens[k].gen \in Nat /\ tokens[k].gen <= password
                                /\ tokens[k].family \in 1..Len(tokens)
  BY <1>1 DEF TableInv, Token
<1>b. Len(tokens') = Len(tokens) /\ tokens' \in Seq(Token) /\ password' \in Nat
  BY BoundsAssumption DEF Marks
<1>c. \A k \in 1..Len(tokens) : /\ tokens'[k].gen = tokens[k].gen
                                /\ tokens'[k].family = tokens[k].family
  BY DEF Marks
<1>d. \A k \in 1..Len(tokens') : tokens'[k].family \in 1..Len(tokens') /\ tokens'[k].gen <= password'
  BY <1>1, <1>a, <1>b, <1>c
<1>2. TableInv'
  BY <1>b, <1>d DEF TableInv
<1>3. HistoryInv'
  BY <1>1 DEF HistoryInv, Marks
<1>4. \A k \in 1..Len(tokens) : Regular(k)' => Regular(k) /\ password' = password
                                              /\ tokens'[k].family \notin S
  BY DEF Marks, Regular
<1>5. LineInv'
  BY <1>4 DEF LineInv, Marks
<1> QED
  BY <1>2, <1>3, <1>5

(* A row is appended to a table of which rows may have been revoked: it    *)
(* must be the line's only regular token, or be counted among the raced.   *)
LEMMA AppendSteps ==
  ASSUME AuthInv, NEW s, Marks(s), NEW t \in Token, Len(tokens) < MaxTokens,
         tokens' = Append(s, t), t.family \in 1..(Len(tokens) + 1), t.gen <= password,
         t.revoked = FALSE, RequestInv', password' = password, stolen' = stolen,
         raced' \in {raced, raced \cup {Len(tokens')}},
         Len(tokens') \notin raced' =>
           /\ t.gen = password /\ t.family \notin stolen
           /\ \A k \in 1..Len(tokens) : ~s[k].revoked /\ k \notin raced => tokens[k].family # t.family,
         bucket' = bucket, access' \in BOOLEAN
  PROVE  AuthInv'
<1> USE DEF AuthInv
<1> DEFINE n == Len(tokens)
<1>1. n \in Nat /\ password \in Nat /\ s \in Seq(Token) /\ Len(s) = n
      /\ \A k \in 1..n : tokens[k] \in Token
  BY BoundsAssumption DEF TableInv, Marks
<1>2. /\ tokens' \in Seq(Token) /\ Len(tokens') = n + 1
      /\ \A k \in 1..n : tokens'[k] = s[k]
      /\ tokens'[n + 1] = t
  BY <1>1
<1>3. \A k \in 1..n : /\ tokens'[k].family = tokens[k].family /\ tokens'[k].gen = tokens[k].gen
                      /\ tokens'[k].revoked = s[k].revoked /\ (tokens[k].revoked => s[k].revoked)
  BY <1>2 DEF Marks
<1>4. \A k \in 1..(n + 1) : k \in 1..n \/ k = n + 1
  BY <1>1
<1>5. TableInv'
  BY <1>1, <1>2, <1>3, <1>4, BoundsAssumption DEF TableInv
<1>6. HistoryInv'
  <2>1. raced' \subseteq 1..(n + 1)
    BY <1>1, <1>2 DEF HistoryInv
  <2>2. stolen' \subseteq {tokens'[k].family : k \in 1..(n + 1)}
    <3>1. ASSUME NEW f \in stolen PROVE \E k \in 1..(n + 1) : f = tokens'[k].family
      <4>1. PICK k \in 1..n : tokens[k].family = f
        BY DEF HistoryInv
      <4>2. k \in 1..(n + 1) /\ tokens'[k].family = f
        BY <4>1, <1>1, <1>3
      <4> QED
        BY <4>2
    <3> HIDE DEF n
    <3> QED
      BY <3>1
  <2> QED
    BY <1>2, <2>1, <2>2 DEF HistoryInv
<1>7. \A k \in 1..n : Regular(k)' => Regular(k) /\ ~s[k].revoked /\ k \notin raced
  BY <1>3 DEF Regular
<1>8. \A k \in {n + 1} : Regular(k)' => k \notin raced'
  BY DEF Regular
<1>9. LineInv'
  <2>1. ASSUME NEW i \in 1..(n + 1), NEW j \in 1..(n + 1), Regular(i)', Regular(j)',
               tokens'[i].family = tokens'[j].family
        PROVE  i = j
    <3>1. CASE i \in 1..n /\ j \in 1..n
      BY <2>1, <3>1, <1>3, <1>7 DEF LineInv
    <3>2. CASE i = n + 1 /\ j \in 1..n
      BY <2>1, <3>2, <1>2, <1>3, <1>7, <1>8
    <3>3. CASE i \in 1..n /\ j = n + 1
      BY <2>1, <3>3, <1>2, <1>3, <1>7, <1>8
    <3> QED
      BY <1>4, <3>1, <3>2, <3>3
  <2>2. ASSUME NEW k \in 1..(n + 1), Regular(k)'
        PROVE  tokens'[k].family \notin stolen' /\ tokens'[k].gen = password'
    <3>1. CASE k \in 1..n
      BY <2>2, <3>1, <1>3, <1>7 DEF LineInv
    <3>2. CASE k = n + 1
      BY <2>2, <3>2, <1>2, <1>8
    <3> QED
      BY <1>4, <3>1, <3>2
  <2> QED
    BY <1>2, <2>1, <2>2 DEF LineInv
<1> QED
  BY <1>5, <1>6, <1>9

-----------------------------------------------------------------------------
LEMMA InitInv == Init => AuthInv
<1> SUFFICES ASSUME Init PROVE AuthInv
  OBVIOUS
<1>1. tokens \in Seq(Token) /\ Len(tokens) = 0
  BY DEF Init
<1>a. 1..Len(tokens) = {}
  BY <1>1
<1>c. 0 \in 0..MaxChanges /\ 0 \in 0..LoginLimit /\ 0 <= MaxTokens
  BY BoundsAssumption
<1>d. TableInv
  BY <1>1, <1>a, <1>c DEF Init, TableInv
<1>2. TableInv /\ HistoryInv
  BY <1>d, <1>a, <1>c DEF Init, HistoryInv
<1>b. LineInv
  BY <1>a DEF LineInv
<1>3. Idle \in [kind : Kinds, token : Nat, gen : Nat] /\ Idle.token = 0 /\ Idle.gen = 0
      /\ Idle.kind = None
  BY DEF Idle, Kinds
<1>4. RequestInv
  BY <1>1, <1>3, NoneAssumption DEF Init, RequestInv
<1> QED
  BY <1>2, <1>b, <1>4 DEF AuthInv

LEMMA LoginStoredInv == ASSUME AuthInv, NEW r \in Requests, LoginStored(r) PROVE AuthInv'
<1> DEFINE n == Len(tokens)
           t == create_refresh_token(n + 1, req[r].gen)
<1> USE DEF AuthInv
<1>1. n \in Nat /\ tokens \in Seq(Token) /\ req[r].gen \in Nat /\ req[r].gen <= password
      /\ password \in Nat
  BY BoundsAssumption DEF TableInv, RequestInv
<1>2. t \in Token /\ t.family = n + 1 /\ t.gen = req[r].gen /\ t.revoked = FALSE
  BY <1>1 DEF create_refresh_token, Token
<1>3. tokens' = Append(tokens, t) /\ Len(tokens') = n + 1
  BY <1>1, <1>2 DEF LoginStored
<1>4. Marks(tokens)
  BY <1>1 DEF Marks
<1>5. RequestInv'
  BY <1>1, <1>3, AnswerKeeps DEF LoginStored
<1>6. \A k \in 1..n : tokens[k].family # n + 1
  BY <1>1 DEF TableInv
<1>7. n + 1 \notin stolen
  BY <1>6 DEF HistoryInv
<1>8. n + 1 \notin raced' => req[r].gen = password
  BY <1>3 DEF LoginStored
<1>9. raced' \in {raced, raced \cup {Len(tokens')}} /\ n < MaxTokens /\ stolen' = stolen
      /\ password' = password /\ bucket' = bucket /\ access' \in BOOLEAN
  BY DEF LoginStored, _set_auth_cookies, create_access_token
<1>10. t.family \in 1..(n + 1) /\ t.gen <= password
  BY <1>1, <1>2
<1> QED
  BY <1>2, <1>3, <1>4, <1>5, <1>6, <1>7, <1>8, <1>9, <1>10, AppendSteps

LEMMA RefreshRotateInv == ASSUME AuthInv, NEW r \in Requests, RefreshRotate(r) PROVE AuthInv'
<1> DEFINE n == Len(tokens)
           k == req[r].token
           s == Retire(k)
           t == create_refresh_token(tokens[k].family, tokens[k].gen)
<1> USE DEF AuthInv
<1>1. n \in Nat /\ tokens \in Seq(Token) /\ k \in 1..n /\ password \in Nat /\ tokens[k] \in Token
  BY BoundsAssumption DEF TableInv, RequestInv, RefreshRotate
<1>2. t \in Token /\ t.family = tokens[k].family /\ t.gen = tokens[k].gen /\ t.revoked = FALSE
  BY <1>1 DEF create_refresh_token, Token
<1>3. Marks(s) /\ s[k].revoked /\ \A j \in 1..n \ {k} : s[j] = tokens[j]
  BY <1>1, RetireMarks
<1>4. tokens' = Append(s, t) /\ Len(tokens') = n + 1
  BY <1>1, <1>2, <1>3 DEF RefreshRotate, Rotated, Marks
<1>5. RequestInv'
  BY <1>1, <1>4, AnswerKeeps DEF RefreshRotate
<1>6. raced' = IF tokens[k].revoked \/ k \in raced THEN raced \cup {Len(tokens')} ELSE raced
  BY DEF RefreshRotate
<1>7. n + 1 \notin raced' => Regular(k)
  BY <1>4, <1>6 DEF Regular
<1>8. ASSUME n + 1 \notin raced', NEW j \in 1..n, ~s[j].revoked, j \notin raced
      PROVE  tokens[j].family # t.family
  <2>1. j # k /\ Regular(j)
    BY <1>3, <1>8 DEF Regular
  <2> QED
    BY <1>1, <1>2, <1>7, <1>8, <2>1 DEF LineInv
<1>9. n + 1 \notin raced' => t.gen = password /\ t.family \notin stolen
  BY <1>1, <1>2, <1>7 DEF LineInv
<1>10. raced' \in {raced, raced \cup {Len(tokens')}} /\ n < MaxTokens /\ stolen' = stolen
      /\ password' = password /\ bucket' = bucket /\ access' \in BOOLEAN
  BY <1>6 DEF RefreshRotate, _set_auth_cookies, create_access_token
<1>11. t.family \in 1..(n + 1) /\ t.gen <= password
  BY <1>1, <1>2 DEF TableInv
<1> QED
  BY <1>2, <1>3, <1>4, <1>5, <1>8, <1>9, <1>10, <1>11, AppendSteps

LEMMA TheftDetectedInv == ASSUME AuthInv, NEW r \in Requests, TheftDetected(r) PROVE AuthInv'
<1> DEFINE f == tokens[req[r].token].family
<1> USE DEF AuthInv
<1>1. Len(tokens) \in Nat /\ tokens \in Seq(Token) /\ req[r].token \in 1..Len(tokens)
      /\ password \in Nat
  BY BoundsAssumption DEF TableInv, RequestInv, TheftDetected
<1>2. /\ tokens' = RevokeFamily(f) /\ stolen' = stolen \cup {f} /\ Answer(r)
      /\ UNCHANGED <<password, bucket, raced, access>>
  BY DEF TheftDetected
<1>3. Marks(tokens') /\ \A k \in 1..Len(tokens) : tokens[k].family = f => tokens'[k].revoked
  BY <1>1, <1>2, RevokeFamilyMarks
<1>4. RequestInv'
  BY <1>1, <1>2, <1>3, AnswerKeeps DEF Marks
<1>5. {f} \in SUBSET {tokens[k].family : k \in 1..Len(tokens)}
  BY <1>1
<1>6. \A k \in 1..Len(tokens) : tokens[k].family \in {f} => tokens'[k].revoked
  BY <1>3
<1>7. password' \in 0..MaxChanges /\ password <= password' /\ access' \in BOOLEAN
  BY <1>1, <1>2 DEF TableInv, HistoryInv
<1> QED
  BY <1>2, <1>3, <1>4, <1>5, <1>6, <1>7, MarkSteps

LEMMA LogoutInv ==
  ASSUME AuthInv, NEW r \in Requests, NEW k \in 1..Len(tokens), logout(r, k) PROVE AuthInv'
<1> USE DEF AuthInv
<1>1. Len(tokens) \in Nat /\ tokens \in Seq(Token) /\ password \in Nat
  BY BoundsAssumption DEF TableInv
<1>2. tokens' = Retire(k) /\ UNCHANGED <<password, bucket, req, stolen, raced, access>>
  BY DEF logout, Retire
<1>3. Marks(tokens')
  BY <1>1, <1>2, RetireMarks
<1>4. RequestInv'
  BY <1>2, <1>3 DEF RequestInv, Marks
<1>5. password' \in 0..MaxChanges /\ password <= password' /\ access' \in BOOLEAN
  BY <1>1, <1>2 DEF TableInv, HistoryInv
<1>6. stolen' = stolen \cup {} /\ {} \in SUBSET {tokens[j].family : j \in 1..Len(tokens)}
  BY <1>2
<1> QED
  BY <1>2, <1>3, <1>4, <1>5, <1>6, MarkSteps

LEMMA ChangeStoredInv == ASSUME AuthInv, NEW r \in Requests, ChangeStored(r) PROVE AuthInv'
<1> USE DEF AuthInv
<1>1. Len(tokens) \in Nat /\ tokens \in Seq(Token) /\ password \in Nat
  BY BoundsAssumption DEF TableInv
<1>2. /\ tokens' = RevokeUser /\ password' = password + 1 /\ password < MaxChanges /\ Answer(r)
      /\ UNCHANGED <<bucket, stolen, raced, access>>
  BY DEF ChangeStored
<1>3. Marks(tokens') /\ \A k \in 1..Len(tokens) : tokens'[k].revoked
  BY <1>1, <1>2, RevokeUserMarks
<1>4. RequestInv'
  BY <1>1, <1>2, <1>3, AnswerKeeps DEF Marks
<1>5. password' \in 0..MaxChanges /\ password <= password' /\ access' \in BOOLEAN
  BY <1>1, <1>2, BoundsAssumption DEF HistoryInv
<1>6. stolen' = stolen \cup {} /\ {} \in SUBSET {tokens[k].family : k \in 1..Len(tokens)}
  BY <1>2
<1> QED
  BY <1>2, <1>3, <1>4, <1>5, <1>6, MarkSteps

LEMMA NextInv == AuthInv /\ [Next]_vars => AuthInv'
<1> SUFFICES ASSUME AuthInv, [Next]_vars PROVE AuthInv'
  OBVIOUS
<1> USE DEF AuthInv
<1>0. DOMAIN tokens = 1..Len(tokens) /\ Len(tokens) \in Nat /\ password \in Nat
      /\ bucket \in 0..LoginLimit /\ LoginLimit \in Nat
  BY BoundsAssumption DEF TableInv, HistoryInv
<1>1. CASE WindowSlides
  BY <1>0, <1>1, RequestSteps DEF WindowSlides, RequestInv, HistoryInv
<1>2. CASE AccessExpires
  BY <1>0, <1>2, RequestSteps DEF AccessExpires, RequestInv
<1>3. CASE LoginRefused
  BY <1>0, <1>3, RequestSteps DEF LoginRefused, dependency, is_allowed, RequestInv, HistoryInv
<1>4. ASSUME NEW r \in Requests, LoginVerified(r) PROVE AuthInv'
  <2>1. RequestInv'
    BY <1>0, <1>4, BeginKeeps DEF LoginVerified, Kinds
  <2> QED
    BY <1>0, <1>4, <2>1, RequestSteps DEF LoginVerified, dependency, is_allowed, HistoryInv
<1>5. ASSUME NEW r \in Requests, NEW k \in 1..Len(tokens), RefreshLookup(r, k) PROVE AuthInv'
  <2> DEFINE kind == IF tokens[k].revoked THEN "theft" ELSE "rotate"
  <2>1. kind \in Kinds /\ Begin(r, kind, k) /\ k \in 0..Len(tokens) /\ k # 0
    BY <1>0, <1>5 DEF RefreshLookup, Kinds
  <2>2. RequestInv'
    BY <1>5, <2>1, BeginKeeps DEF RefreshLookup
  <2> QED
    BY <1>0, <1>5, <2>2, RequestSteps DEF RefreshLookup, HistoryInv
<1>6. ASSUME NEW r \in Requests, Abandoned(r) PROVE AuthInv'
  <2>1. RequestInv'
    BY <1>0, <1>6, AnswerKeeps DEF Abandoned
  <2> QED
    BY <1>0, <1>6, <2>1, RequestSteps DEF Abandoned, HistoryInv
<1>7. ASSUME NEW r \in Requests, ChangeVerified(r) PROVE AuthInv'
  <2>1. RequestInv'
    BY <1>0, <1>7, BeginKeeps DEF ChangeVerified, Kinds
  <2> QED
    BY <1>0, <1>7, <2>1, RequestSteps DEF ChangeVerified, HistoryInv
<1>8. CASE UNCHANGED vars
  BY <1>0, <1>8, RequestSteps DEF vars, RequestInv, HistoryInv
<1> QED
  BY <1>0, <1>1, <1>2, <1>3, <1>4, <1>5, <1>6, <1>7, <1>8, LoginStoredInv, RefreshRotateInv,
     TheftDetectedInv, LogoutInv, ChangeStoredInv DEF Next, Serve

-----------------------------------------------------------------------------
(***************************************************************************)
(* The inductive invariant: the table, the requests under way, and that    *)
(* the tokens that were not issued from an outdated read form lines.       *)
(***************************************************************************)
THEOREM AuthInvariance == Spec => []AuthInv
<1> QED
  BY InitInv, NextInv, PTL DEF Spec

(***************************************************************************)
(* The refresh_tokens table and the requests stay well-typed.              *)
(***************************************************************************)
THEOREM AuthTypeCorrect == Spec => []TypeOK
<1>1. ASSUME AuthInv PROVE TypeOK
  <2> USE <1>1 DEF AuthInv
  <2>1. DOMAIN tokens = 1..Len(tokens) /\ password \in Nat /\ Len(tokens) \in Nat
    BY BoundsAssumption DEF TableInv
  <2>2. \A k \in 1..Len(tokens) :
          tokens[k] \in [family : 1..Len(tokens), gen : 0..password, revoked : BOOLEAN]
    <3> TAKE k \in 1..Len(tokens)
    <3>1. tokens[k] \in Token /\ tokens[k].family \in 1..Len(tokens) /\ tokens[k].gen <= password
      BY DEF TableInv
    <3>2. tokens[k].gen \in 0..password
      BY <2>1, <3>1 DEF Token
    <3> QED
      BY <3>1, <3>2 DEF Token
  <2>3. req \in [Requests -> [kind : Kinds, token : 0..Len(tokens), gen : 0..password]]
    BY <2>1 DEF RequestInv
  <2> QED
    BY <2>1, <2>2, <2>3 DEF TypeOK, TableInv, HistoryInv, Kinds
<1> QED
  BY <1>1, AuthInvariance, PTL

(***************************************************************************)
(* A family has one valid token at most, and none once a reuse was         *)
(* detected, but for the tokens of a refresh that had read its row before  *)
(* somebody else rotated or revoked it.                                    *)
(***************************************************************************)
THEOREM FamiliesAreLines == Spec => []FamilyIsALine
<1>1. ASSUME AuthInv PROVE FamilyIsALine
  <2> USE <1>1 DEF AuthInv
  <2>1. DOMAIN tokens = 1..Len(tokens)
    BY DEF TableInv
  <2> SUFFICES ASSUME NEW family \in DOMAIN tokens
               PROVE  LET regular == Valid(family) \ raced
                      IN Cardinality(regular) <= 1 /\ (family \in stolen => regular = {})
    BY DEF FamilyIsALine
  <2> DEFINE regular == Valid(family) \ raced
  <2>2. \A i, j \in regular : i = j
    BY <2>1 DEF LineInv, Regular, Valid
  <2>3. family \in stolen => regular = {}
    BY <2>1 DEF LineInv, Regular, Valid
  <2>4. CASE regular = {}
    BY <2>3, <2>4, FS_EmptySet
  <2>5. CASE regular # {}
    <3>1. PICK i : i \in regular
      BY <2>5
    <3>2. regular = {i}
      BY <2>2, <3>1
    <3>3. Cardinality({i}) = 1
      BY FS_Singleton
    <3> QED
      BY <2>3, <3>2, <3>3
  <2> QED
    BY <2>4, <2>5
<1> QED
  BY <1>1, AuthInvariance, PTL

(***************************************************************************)
(* After change_password every valid token goes back to a login with the   *)
(* new password, but for the tokens of requests that were under way.       *)
(***************************************************************************)
THEOREM OnlyTheCurrentPassword == Spec => []CurrentPassword
<1>1. ASSUME AuthInv PROVE CurrentPassword
  BY <1>1 DEF AuthInv, TableInv, LineInv, Regular, CurrentPassword
<1> QED
  BY <1>1, AuthInvariance, PTL

-----------------------------------------------------------------------------
(* CHAT SESSIONS *)

(* The i-th exchange of a history is message i or a later one, so that it  *)
(* is no longer than the messages there have been.                         *)
History(n) == {h \in Seq(1..n) : \A i \in 1..Len(h) : i <= h[i]}

(* Every history that is stored, shown or sent is one of messages sent.    *)
MessagesInv ==
  /\ sent \in 0..MaxMessages
  /\ row \in History(sent) \cup {Nothing}
  /\ view \in [Tabs -> History(sent)]
  /\ behind \in [Tabs -> SUBSET (1..sent)]

StreamPc == {"idle", "ask", "model", "tools", "save", "write"}
StreamType == [pc : StreamPc, msg : 0..MaxMessages, base : Seq(1..MaxMessages),
               round : 0..Rounds, seen : SUBSET Tools, call : Tools \cup {Nothing},
               found : BOOLEAN]

(* A stream answers a message newer than every exchange it started from,   *)
(* and asks the model again only while it has rounds left.                 *)
StreamOK(s) ==
  /\ s.pc = "idle" => s = NoStream
  /\ s.pc # "idle" => s.msg \in 1..sent /\ s.base \in History(s.msg - 1)
  /\ s.pc = "ask" => s.round < Rounds
StreamInv == st \in [Tabs -> StreamType] /\ \A t \in Tabs : StreamOK(st[t])

(* What is stored is known to a tab that shows a history below the cap, or *)
(* was stored behind its back; and what a stream started from is as much.  *)
Knows(h, t) == ToSet(Stored) \subseteq ToSet(h) \cup behind[t]
ViewKnows(t) == view[t] # <<>> /\ Len(view[t]) <= HistoryCap => Knows(view[t], t)
BaseKnows(t) ==
  st[t].pc # "idle" => IF Len(view[t]) <= HistoryCap THEN Knows(st[t].base, t)
                       ELSE Len(st[t].base) = HistoryCap
KnowledgeInv == \A t \in Tabs : ViewKnows(t) /\ BaseKnows(t)

AnalysisType == [pc : {"idle", "ask", "call", "store"}, attempt : 0..Attempts,
                 try : 0..Tries, kind : {Nothing, "profile", "forced", "diagnosis"}]
AnalysisInv ==
  /\ an \in [Analyses -> AnalysisType]
  /\ profile \in [fresh : BOOLEAN, marked : BOOLEAN]

(* Outside CLOSED the count stands at the threshold, or a success came in  *)
(* while the circuit was open.                                             *)
BreakerType == [state : {"CLOSED", "OPEN", "HALF_OPEN"}, failures : 0..Threshold,
                elapsed : BOOLEAN, late : BOOLEAN]
BreakerOK(b) == b \in BreakerType /\ (b.state # "CLOSED" /\ ~b.late => b.failures = Threshold)

SessionInv == MessagesInv /\ StreamInv /\ KnowledgeInv
ChatInv == SessionInv /\ AnalysisInv /\ BreakerOK(cb)

-----------------------------------------------------------------------------
(* Histories *)

LEMMA HistoryType ==
  ASSUME NEW n \in Nat, NEW h \in History(n)
  PROVE  /\ h \in Seq(1..n) /\ Len(h) \in Nat /\ Len(h) <= n
         /\ ToSet(h) \subseteq 1..n
<1>1. h \in Seq(1..n) /\ Len(h) \in Nat /\ DOMAIN h = 1..Len(h) /\ \A i \in 1..Len(h) : h[i] \in 1..n /\ i <= h[i]
  BY DEF History
<1>2. Len(h) <= n
  <2>1. CASE Len(h) = 0
    BY <2>1
  <2>2. CASE Len(h) # 0
    <3>1. Len(h) \in 1..Len(h)
      BY <1>1, <2>2
    <3> QED
      BY <1>1, <3>1
  <2> QED
    BY <2>1, <2>2
<1>3. ToSet(h) \subseteq 1..n
  BY <1>1 DEF ToSet
<1> QED
  BY <1>1, <1>2, <1>3

LEMMA SeqGrows ==
  ASSUME NEW m \in Nat, NEW n \in Nat, m <= n PROVE Seq(1..m) \subseteq Seq(1..n)
<1>1. 1..m \subseteq 1..n
  OBVIOUS
<1> QED
  BY <1>1

LEMMA HistoryGrows ==
  ASSUME NEW m \in Nat, NEW n \in Nat, m <= n PROVE History(m) \subseteq History(n)
  BY SeqGrows DEF History

LEMMA HistoryEmpty == ASSUME NEW n \in Nat PROVE <<>> \in History(n) /\ ToSet(<<>>) = {}
  BY DEF History, ToSet

LEMMA HistoryAppend ==
  ASSUME NEW n \in Nat, NEW e \in 1..n, NEW h \in History(e - 1)
  PROVE  /\ Append(h, e) \in History(n)
         /\ Len(Append(h, e)) = Len(h) + 1
         /\ ToSet(Append(h, e)) = ToSet(h) \cup {e}
<1>1. e - 1 \in Nat /\ h \in Seq(1..n) /\ Len(h) \in Nat /\ Len(h) < e
  BY HistoryType DEF History
<1>2. Append(h, e) \in Seq(1..n) /\ Len(Append(h, e)) = Len(h) + 1
  BY <1>1
<1>3. \A i \in 1..Len(h) : Append(h, e)[i] = h[i] /\ i <= h[i]
  BY <1>1 DEF History
<1>4. Append(h, e)[Len(h) + 1] = e
  BY <1>1
<1>5. \A i \in 1..Len(Append(h, e)) : i <= Append(h, e)[i]
  BY <1>1, <1>2, <1>3, <1>4
<1>6. ToSet(Append(h, e)) = ToSet(h) \cup {e}
  <2>1. DOMAIN Append(h, e) = 1..(Len(h) + 1) /\ DOMAIN h = 1..Len(h)
    BY <1>1, <1>2
  <2>2. 1..(Len(h) + 1) = (1..Len(h)) \cup {Len(h) + 1}
    BY <1>1
  <2>3. ToSet(Append(h, e)) = {Append(h, e)[i] : i \in (1..Len(h)) \cup {Len(h) + 1}}
    BY <2>1, <2>2 DEF ToSet
  <2>4. ToSet(h) = {h[i] : i \in 1..Len(h)}
    BY <2>1 DEF ToSet
  <2> HIDE DEF ToSet
  <2> QED
    BY <2>3, <2>4, <1>3, <1>4, Zenon
<1> QED
  BY <1>2, <1>5, <1>6 DEF History

LEMMA HistoryCapped ==
  ASSUME NEW n \in Nat, NEW h \in History(n)
  PROVE  /\ _cap_history(h) \in History(n)
         /\ Len(h) <= HistoryCap => _cap_history(h) = h
         /\ Len(h) > HistoryCap => Len(_cap_history(h)) = HistoryCap
         /\ h # <<>> => _cap_history(h) # <<>>
<1>1. HistoryCap \in Nat /\ HistoryCap > 0
  BY ChatAssumption
<1>2. h \in Seq(1..n) /\ Len(h) \in Nat
  BY DEF History
<1>3. CASE Len(h) <= HistoryCap
  BY <1>1, <1>2, <1>3 DEF _cap_history
<1>4. CASE Len(h) > HistoryCap
  <2> DEFINE k == Len(h) - HistoryCap
             c == SubSeq(h, k + 1, Len(h))
  <2>1. k \in Nat /\ k + 1 \in 1..Len(h) /\ Len(h) - (k + 1) + 1 = HistoryCap
    BY <1>1, <1>2, <1>4
  <2>2. c \in Seq(1..n) /\ Len(c) = HistoryCap
    BY <1>2, <2>1, <1>1
  <2>3. \A i \in 1..HistoryCap : c[i] = h[i + k] /\ i + k \in 1..Len(h)
    BY <1>1, <1>2, <2>1, <1>4
  <2>4. \A i \in 1..HistoryCap : i <= c[i]
    <3> SUFFICES ASSUME NEW i \in 1..HistoryCap PROVE i <= c[i]
      OBVIOUS
    <3>1. i + k <= h[i + k] /\ h[i + k] \in 1..n
      BY <2>3, <1>2 DEF History
    <3> QED
      BY <3>1, <2>1, <2>3
  <2>5. c \in History(n)
    BY <2>2, <2>4 DEF History
  <2>6. _cap_history(h) = c
    BY <1>4 DEF _cap_history
  <2>7. c # <<>>
    <3> HIDE DEF c, k
    <3> QED
      BY <2>2, <1>1
  <2>8. ~(Len(h) <= HistoryCap)
    BY <1>1, <1>2, <1>4
  <2> HIDE DEF c, k
  <2> QED
    BY <2>2, <2>5, <2>6, <2>7, <2>8
<1> QED
  BY <1>1, <1>2, <1>3, <1>4

-----------------------------------------------------------------------------
(* The breaker *)

LEMMA Counting ==
  ASSUME NEW f \in 0..Threshold
  PROVE  /\ OneMore(f) \in 0..Threshold
         /\ OneMore(f) >= Threshold => OneMore(f) = Threshold
         /\ f = Threshold => OneMore(f) = Threshold
<1>1. Threshold \in Nat /\ f \in Nat
  BY ChatAssumption
<1>2. \E x \in {f + 1, Threshold} : \A y \in {f + 1, Threshold} : x <= y
  BY <1>1
<1>3. OneMore(f) \in {f + 1, Threshold} /\ OneMore(f) <= f + 1 /\ OneMore(f) <= Threshold
  BY <1>2 DEF OneMore, Min
<1> QED
  BY <1>1, <1>3

(* Whatever a call does to the breaker, a probe that failed would open it. *)
LEMMA BreakerSteps ==
  ASSUME NEW b, BreakerOK(b)
  PROVE  /\ BreakerOK(Checked(b))
         /\ BreakerOK(record_success(b))
         /\ BreakerOK(record_failure(b))
         /\ b.state = "HALF_OPEN" /\ ~b.late => record_failure(b).state = "OPEN"
<1>1. b.failures \in 0..Threshold /\ Threshold \in Nat
  BY ChatAssumption DEF BreakerOK, BreakerType
<1>2. BreakerOK(Checked(b))
  BY DEF BreakerOK, BreakerType, Checked
<1>3. BreakerOK(record_success(b))
  <2> DEFINE s == IF b.state = "HALF_OPEN" THEN "CLOSED" ELSE b.state
             r == record_success(b)
  <2>1. s \in {"CLOSED", "OPEN", "HALF_OPEN"} /\ (s # "CLOSED" => b.state = "OPEN")
    BY DEF BreakerOK, BreakerType
  <2>2. b.elapsed \in BOOLEAN /\ 0 \in 0..Threshold
    BY <1>1 DEF BreakerOK, BreakerType
  <2>3. DOMAIN b = {"state", "failures", "elapsed", "late"}
    BY DEF BreakerOK, BreakerType
  <2>4. r = [x \in {"state", "failures", "elapsed", "late"} |-> r[x]]
    BY <2>3 DEF record_success
  <2>5. r.state = s /\ r.failures = 0 /\ r.elapsed = b.elapsed
    BY <2>3 DEF record_success
  <2>6. r.late = (b.state = "OPEN")
    BY <2>3 DEF record_success
  <2> HIDE DEF s, r
  <2>7. r = [state |-> s, failures |-> 0, elapsed |-> b.elapsed, late |-> b.state = "OPEN"]
    BY <2>4, <2>5, <2>6
  <2>8. r \in BreakerType
    BY <2>1, <2>2, <2>7 DEF BreakerType
  <2> QED
    BY <2>1, <2>5, <2>6, <2>8 DEF BreakerOK, r
<1>4. /\ OneMore(b.failures) \in 0..Threshold
      /\ OneMore(b.failures) >= Threshold => OneMore(b.failures) = Threshold
      /\ b.failures = Threshold => OneMore(b.failures) = Threshold
  BY <1>1, Counting
<1>5. BreakerOK(record_failure(b))
  BY <1>1, <1>4 DEF BreakerOK, BreakerType, record_failure
<1>6. b.state = "HALF_OPEN" /\ ~b.late => record_failure(b).state = "OPEN"
  BY <1>1, <1>4 DEF BreakerOK, BreakerType, record_failure
<1> QED
  BY <1>2, <1>3, <1>5, <1>6

-----------------------------------------------------------------------------
(* The streams *)

LEMMA NoStreamType == NoStream \in StreamType /\ NoStream.pc = "idle" /\ StreamOK(NoStream)
<1>1. 0 \in 0..Rounds /\ 0 \in 0..MaxMessages /\ <<>> \in Seq(1..MaxMessages)
  BY ChatAssumption
<1> QED
  BY <1>1 DEF NoStream, StreamType, StreamPc, StreamOK

LEMMA NewStream ==
  ASSUME NEW m, NEW b
  PROVE  [NoStream EXCEPT !.pc = "ask", !.msg = m, !.base = b]
           = [pc |-> "ask", msg |-> m, base |-> b, round |-> 0,
              seen |-> {}, call |-> Nothing, found |-> FALSE]
<1> DEFINE s == [NoStream EXCEPT !.pc = "ask", !.msg = m, !.base = b]
           Fields == {"pc", "msg", "base", "round", "seen", "call", "found"}
<1>1. s = [f \in Fields |-> s[f]]
  BY DEF NoStream
<1>2. /\ s.pc = "ask" /\ s.msg = m /\ s.base = b /\ s.round = 0
      /\ s.seen = {} /\ s.call = Nothing /\ s.found = FALSE
  BY DEF NoStream
<1> HIDE DEF s
<1>3. s = [pc |-> "ask", msg |-> m, base |-> b, round |-> 0,
           seen |-> {}, call |-> Nothing, found |-> FALSE]
  BY <1>1, <1>2
<1> QED
  BY <1>3 DEF s

(* A stream that goes on from what it started with, or ends.               *)
LEMMA StreamGoes ==
  ASSUME SessionInv, NEW t \in Tabs, NEW s \in StreamType, StreamOK(s), Goto(t, s),
         s.pc # "idle" => st[t].pc # "idle" /\ s.base = st[t].base,
         UNCHANGED <<row, view, behind, sent>>
  PROVE  SessionInv'
<1> USE DEF SessionInv
<1>1. MessagesInv'
  BY DEF MessagesInv
<1>2. st' \in [Tabs -> StreamType] /\ \A u \in Tabs : st'[u] = IF u = t THEN s ELSE st[u]
  BY DEF StreamInv, Goto
<1>3. StreamInv'
  BY <1>2 DEF StreamInv, StreamOK
<1>4. KnowledgeInv'
  <2> SUFFICES ASSUME NEW u \in Tabs PROVE ViewKnows(u)' /\ BaseKnows(u)'
    BY DEF KnowledgeInv
  <2>1. ViewKnows(u) /\ BaseKnows(u) /\ view'[u] = view[u] /\ behind'[u] = behind[u] /\ Stored' = Stored
    BY DEF KnowledgeInv, Stored
  <2>2. st'[u].pc # "idle" => st[u].pc # "idle" /\ st'[u].base = st[u].base
    BY <1>2
  <2> QED
    BY <2>1, <2>2 DEF ViewKnows, BaseKnows, Knows
<1> QED
  BY <1>1, <1>3, <1>4

LEMMA StreamEnds ==
  ASSUME SessionInv, NEW t \in Tabs, End(t), UNCHANGED <<row, view, behind, sent>>
  PROVE  SessionInv'
  BY StreamGoes, NoStreamType DEF End

(* The types of a tab's stream and histories. *)
LEMMA TabFacts ==
  ASSUME SessionInv, NEW t \in Tabs
  PROVE  /\ sent \in Nat /\ MaxMessages \in Nat /\ sent <= MaxMessages
         /\ view[t] \in History(sent) /\ behind[t] \subseteq 1..sent
         /\ Stored \in History(sent) /\ ToSet(Stored) \subseteq 1..sent
         /\ st[t] \in StreamType /\ StreamOK(st[t])
         /\ ViewKnows(t) /\ BaseKnows(t)
<1>1. sent \in Nat /\ MaxMessages \in Nat /\ sent <= MaxMessages
  BY ChatAssumption DEF SessionInv, MessagesInv
<1>2. Stored \in History(sent)
  BY <1>1, HistoryEmpty DEF SessionInv, MessagesInv, Stored
<1>3. ToSet(Stored) \subseteq 1..sent
  BY <1>1, <1>2, HistoryType
<1> QED
  BY <1>1, <1>2, <1>3 DEF SessionInv, MessagesInv, StreamInv, KnowledgeInv

(* What the tab and the table get when a stream is over.                   *)
LEMMA Exchange ==
  ASSUME SessionInv, NEW t \in Tabs, st[t].pc # "idle"
  PROVE  LET h == Append(st[t].base, st[t].msg) IN
         /\ h \in History(sent) /\ ToSet(h) \subseteq 1..sent
         /\ ToSet(st[t].base) \subseteq ToSet(h)
         /\ Len(h) <= HistoryCap => ToSet(Stored) \subseteq ToSet(h) \cup behind[t]
         /\ Len(view[t]) <= HistoryCap => ToSet(Stored) \subseteq ToSet(h) \cup behind[t]
<1> DEFINE h == Append(st[t].base, st[t].msg)
<1>1. sent \in Nat /\ HistoryCap \in Nat /\ st[t].msg \in 1..sent /\ st[t].base \in History(st[t].msg - 1)
  BY TabFacts, ChatAssumption DEF StreamOK
<1>2. /\ h \in History(sent) /\ Len(h) = Len(st[t].base) + 1
      /\ ToSet(h) = ToSet(st[t].base) \cup {st[t].msg}
  BY <1>1, HistoryAppend
<1>3. ToSet(h) \subseteq 1..sent
  BY <1>1, <1>2, HistoryType
<1>4. Len(st[t].base) \in Nat
  BY <1>1 DEF History
<1>5. Len(view[t]) \in Nat
  BY TabFacts DEF History
<1>6. IF Len(view[t]) <= HistoryCap THEN Knows(st[t].base, t) ELSE Len(st[t].base) = HistoryCap
  BY TabFacts DEF BaseKnows
<1> HIDE DEF h
<1>7. Len(view[t]) <= HistoryCap => ToSet(Stored) \subseteq ToSet(h) \cup behind[t]
  BY <1>2, <1>6 DEF Knows
<1>8. Len(h) <= HistoryCap => Len(view[t]) <= HistoryCap
  BY <1>1, <1>2, <1>4, <1>6
<1> QED
  BY <1>2, <1>3, <1>7, <1>8 DEF h


(* A tab's view becomes h while its stream is over, or was not running; the *)
(* table becomes r, which the other tabs have not seen if it is new.        *)
LEMMA TabShows ==
  ASSUME SessionInv, NEW t \in Tabs, NEW h \in History(sent), NEW r,
         row' = r, r \in History(sent) \cup {Nothing},
         view' = [view EXCEPT ![t] = h],
         st' \in {st, [st EXCEPT ![t] = NoStream]}, st'[t].pc = "idle",
         sent' = sent, behind' \in [Tabs -> SUBSET (1..sent)],
         h # <<>> /\ Len(h) <= HistoryCap => ToSet(Stored') \subseteq ToSet(h) \cup behind'[t],
         \A u \in Tabs \ {t} : behind[u] \subseteq behind'[u]
                               /\ (r # row => ToSet(Stored') \subseteq behind'[u])
  PROVE  SessionInv'
<1> USE DEF SessionInv
<1>1. view' \in [Tabs -> History(sent)] /\ \A u \in Tabs : view'[u] = IF u = t THEN h ELSE view[u]
  BY DEF MessagesInv
<1>2. MessagesInv'
  BY <1>1 DEF MessagesInv
<1>3. st' \in [Tabs -> StreamType] /\ \A u \in Tabs : st'[u] = st[u] \/ st'[u] = NoStream
  BY NoStreamType DEF StreamInv
<1>4. StreamInv'
  BY <1>3, NoStreamType DEF StreamInv, StreamOK
<1>5. KnowledgeInv'
  <2> SUFFICES ASSUME NEW u \in Tabs PROVE ViewKnows(u)' /\ BaseKnows(u)'
    BY DEF KnowledgeInv
  <2>1. CASE u = t
    BY <2>1, <1>1 DEF ViewKnows, BaseKnows, Knows
  <2>2. CASE u # t
    <3>1. ViewKnows(u) /\ BaseKnows(u) /\ view'[u] = view[u] /\ st'[u] = st[u]
      BY <2>2, <1>1 DEF KnowledgeInv, StreamInv
    <3>2. behind[u] \subseteq behind'[u]
      BY <2>2
    <3>3. CASE r # row
      BY <2>2, <3>1, <3>3 DEF ViewKnows, BaseKnows, Knows
    <3>4. CASE r = row
      <4>1. Stored' = Stored
        BY <3>4 DEF Stored
      <4> QED
        BY <4>1, <3>1, <3>2 DEF ViewKnows, BaseKnows, Knows
    <3> QED
      BY <3>3, <3>4
  <2> QED
    BY <2>1, <2>2
<1> QED
  BY <1>2, <1>4, <1>5

-----------------------------------------------------------------------------
(* Every step of a session *)

LEMMA ChatStep == ASSUME SessionInv, NEW t \in Tabs, chat(t) PROVE SessionInv'
<1> DEFINE b == LoadedHistory(_cap_history(view[t]))
           s == [NoStream EXCEPT !.pc = "ask", !.msg = sent', !.base = b]
<1> USE DEF SessionInv
<1>1. PICK scope \in {"node", "fleet"} :
        /\ At(t, "idle") /\ sent < MaxMessages /\ sent' = sent + 1 /\ Goto(t, s)
        /\ behind' = [behind EXCEPT ![t] = IF view[t] = <<>> THEN {} ELSE @]
        /\ UNCHANGED <<row, view, cb, node>>
  BY DEF chat
<1>2. /\ sent \in Nat /\ sent' \in 0..MaxMessages /\ 1..sent \subseteq 1..sent'
      /\ HistoryCap \in Nat /\ HistoryCap > 0 /\ 0 < Rounds
  BY <1>1, ChatAssumption, TabFacts
<1>3. /\ view[t] \in History(sent) /\ Len(view[t]) \in Nat /\ Len(<<>>) = 0
      /\ Stored \in History(sent) /\ ViewKnows(t)
  BY TabFacts DEF History
<1>4. /\ _cap_history(view[t]) \in History(sent)
      /\ Len(view[t]) <= HistoryCap => _cap_history(view[t]) = view[t]
      /\ Len(view[t]) > HistoryCap => Len(_cap_history(view[t])) = HistoryCap
      /\ view[t] # <<>> => _cap_history(view[t]) # <<>>
  BY <1>2, <1>3, HistoryCapped
<1>5. /\ view[t] = <<>> => b = Stored
      /\ view[t] # <<>> => b = _cap_history(view[t])
      /\ b \in History(sent)
  BY <1>2, <1>3, <1>4 DEF LoadedHistory
<1> HIDE DEF b
<1>6. MessagesInv'
  <2>1. History(sent) \subseteq History(sent')
    BY <1>1, <1>2, HistoryGrows
  <2>2. behind' \in [Tabs -> SUBSET (1..sent')]
    BY <1>1, <1>2 DEF MessagesInv
  <2> QED
    BY <1>1, <1>2, <2>1, <2>2 DEF MessagesInv
<1>7. /\ s.pc = "ask" /\ s.msg = sent' /\ s.base = b /\ s.round = 0
      /\ s \in StreamType
  <2>1. b \in Seq(1..sent)
    BY <1>5 DEF History
  <2>2. 1..sent \subseteq 1..MaxMessages
    BY <1>2, TabFacts
  <2>3. b \in Seq(1..MaxMessages)
    <3>1. Seq(1..sent) \subseteq Seq(1..MaxMessages)
      BY <1>2, TabFacts, SeqGrows
    <3> QED
      BY <2>1, <3>1
  <2>4. s = [pc |-> "ask", msg |-> sent', base |-> b, round |-> 0,
             seen |-> {}, call |-> Nothing, found |-> FALSE]
    BY NewStream
  <2>5. 0 \in 0..Rounds /\ {} \in SUBSET Tools /\ Nothing \in Tools \cup {Nothing}
    BY ChatAssumption
  <2> HIDE DEF s
  <2> QED
    BY <2>3, <2>4, <2>5, <1>2 DEF StreamType, StreamPc
<1>8. s.msg \in 1..sent' /\ s.base \in History(s.msg - 1) /\ s.round < Rounds
  <2>1. sent' - 1 = sent
    BY <1>1, <1>2
  <2> HIDE DEF s
  <2> QED
    BY <2>1, <1>1, <1>2, <1>5, <1>7
<1> HIDE DEF s
<1>9. st' \in [Tabs -> StreamType] /\ \A u \in Tabs : st'[u] = IF u = t THEN s ELSE st[u]
  BY <1>1, <1>7 DEF StreamInv, Goto
<1>10. StreamInv'
  <2> SUFFICES ASSUME NEW u \in Tabs PROVE StreamOK(st[u])'
    BY <1>9 DEF StreamInv
  <2>1. CASE u = t
    BY <2>1, <1>7, <1>8, <1>9 DEF StreamOK
  <2>2. CASE u # t
    BY <2>2, <1>2, <1>9 DEF StreamInv, StreamOK
  <2> QED
    BY <2>1, <2>2
<1>11. KnowledgeInv'
  <2>1. Stored' = Stored /\ view' = view
    BY <1>1 DEF Stored
  <2> SUFFICES ASSUME NEW u \in Tabs PROVE ViewKnows(u)' /\ BaseKnows(u)'
    BY DEF KnowledgeInv
  <2>2. ViewKnows(u) /\ BaseKnows(u)
    BY DEF KnowledgeInv
  <2>3. CASE u # t
    <3>1. behind'[u] = behind[u] /\ st'[u] = st[u]
      BY <2>3, <1>1, <1>9 DEF MessagesInv
    <3> QED
      BY <2>1, <2>2, <3>1 DEF ViewKnows, BaseKnows, Knows
  <2>4. CASE u = t /\ view[t] = <<>>
    BY <2>4, <2>1, <1>2, <1>3, <1>5, <1>7, <1>9 DEF ViewKnows, BaseKnows, Knows
  <2>5. CASE u = t /\ view[t] # <<>>
    <3>1. behind'[t] = behind[t]
      BY <2>5, <1>1 DEF MessagesInv
    <3>2. ViewKnows(t)'
      BY <2>1, <2>2, <2>5, <3>1 DEF ViewKnows, Knows
    <3>3. BaseKnows(t)'
      BY <2>1, <2>2, <2>5, <3>1, <1>2, <1>3, <1>4, <1>5, <1>7, <1>9 DEF ViewKnows, BaseKnows, Knows
    <3> QED
      BY <2>5, <3>2, <3>3
  <2> QED
    BY <2>3, <2>4, <2>5
<1> QED
  BY <1>6, <1>10, <1>11

LEMMA ToolProposesStep ==
  ASSUME SessionInv, NEW t \in Tabs, ToolProposes(t) PROVE SessionInv'
<1> DEFINE h == Append(st[t].base, st[t].msg)
<1>1. st[t].pc # "idle"
  BY DEF ToolProposes, At
<1>2. h \in History(sent) /\ (Len(h) <= HistoryCap => ToSet(Stored) \subseteq ToSet(h) \cup behind[t])
  BY <1>1, Exchange
<1> HIDE DEF h
<1>3. /\ row' = row /\ behind' = behind /\ sent' = sent
      /\ view' = [view EXCEPT ![t] = h] /\ st' = [st EXCEPT ![t] = NoStream]
  BY DEF ToolProposes, End, Goto, h
<1>4. st'[t].pc = "idle"
  BY <1>3, NoStreamType DEF SessionInv, StreamInv
<1>5. row \in History(sent) \cup {Nothing} /\ behind' \in [Tabs -> SUBSET (1..sent)] /\ Stored' = Stored
  BY <1>3 DEF SessionInv, MessagesInv, Stored
<1> QED
  BY <1>2, <1>3, <1>4, <1>5, TabShows

LEMMA SaveWriteStep ==
  ASSUME SessionInv, NEW t \in Tabs, SaveWrite(t) PROVE SessionInv'
<1> DEFINE h == Append(st[t].base, st[t].msg)
           stored == st[t].found = (row # Nothing)
<1>1. st[t].pc # "idle"
  BY DEF SaveWrite, At
<1>2. /\ h \in History(sent) /\ ToSet(h) \subseteq 1..sent
      /\ Len(h) <= HistoryCap => ToSet(Stored) \subseteq ToSet(h) \cup behind[t]
  BY <1>1, Exchange
<1>3. /\ sent' = sent /\ row' = IF stored THEN h ELSE row
      /\ view' = [view EXCEPT ![t] = h] /\ st' = [st EXCEPT ![t] = NoStream]
      /\ behind' = [u \in Tabs |-> CASE stored /\ u = t -> {}
                                     [] stored /\ u # t -> behind[u] \cup ToSet(h)
                                     [] OTHER -> behind[u]]
  BY DEF SaveWrite, End, Goto
<1> HIDE DEF h, stored
<1>4. st'[t].pc = "idle"
  BY <1>3, NoStreamType DEF SessionInv, StreamInv
<1>5. /\ row \in History(sent) \cup {Nothing}
      /\ \A u \in Tabs : behind[u] \subseteq 1..sent
  BY DEF SessionInv, MessagesInv
<1>6. CASE stored
  <2>1. row' = h /\ \A u \in Tabs : behind'[u] = IF u = t THEN {} ELSE behind[u] \cup ToSet(h)
    BY <1>3, <1>6
  <2>2. ToSet(Stored') \subseteq ToSet(h)
    <3>1. Stored' = h \/ Stored' = <<>>
      BY <2>1 DEF Stored
    <3>2. ToSet(<<>>) = {}
      BY HistoryEmpty
    <3> QED
      BY <3>1, <3>2
  <2>3. behind' \in [Tabs -> SUBSET (1..sent)]
    BY <1>2, <1>3, <1>5, <2>1
  <2> QED
    BY <1>2, <1>3, <1>4, <2>1, <2>2, <2>3, TabShows
<1>7. CASE ~stored
  <2>1. row' = row /\ \A u \in Tabs : behind'[u] = behind[u]
    BY <1>3, <1>7
  <2>2. Stored' = Stored
    BY <2>1 DEF Stored
  <2>3. behind' \in [Tabs -> SUBSET (1..sent)]
    BY <1>3, <1>5, <2>1
  <2> QED
    BY <1>2, <1>3, <1>4, <1>5, <2>1, <2>2, <2>3, TabShows
<1> QED
  BY <1>6, <1>7

LEMMA GetSessionStep ==
  ASSUME SessionInv, NEW t \in Tabs, get_session(t) PROVE SessionInv'
<1>1. /\ st[t].pc = "idle" /\ row \in History(sent) /\ Stored = row
      /\ row' = row /\ st' = st /\ sent' = sent /\ view' = [view EXCEPT ![t] = row]
      /\ behind' = [behind EXCEPT ![t] = {}]
  BY DEF get_session, At, SessionInv, MessagesInv, Stored
<1>2. /\ behind' \in [Tabs -> SUBSET (1..sent)]
      /\ \A u \in Tabs \ {t} : behind'[u] = behind[u]
  BY <1>1 DEF SessionInv, MessagesInv
<1>3. Stored' = row
  BY <1>1 DEF Stored
<1> QED
  BY <1>1, <1>2, <1>3, TabShows

LEMMA SaveSessionStep ==
  ASSUME SessionInv, NEW t \in Tabs, save_session(t) PROVE SessionInv'
<1>1. /\ st[t].pc = "idle" /\ row' = view[t] /\ st' = st /\ sent' = sent /\ view' = view
      /\ behind' = [u \in Tabs |-> IF u = t THEN {} ELSE behind[u] \cup ToSet(view[t])]
  BY DEF save_session, At
<1>2. view[t] \in History(sent) /\ ToSet(view[t]) \subseteq 1..sent /\ view = [view EXCEPT ![t] = view[t]]
  BY TabFacts, HistoryType DEF SessionInv, MessagesInv
<1>3. ToSet(Stored') \subseteq ToSet(view[t])
  <2>1. Stored' = view[t] \/ Stored' = <<>>
    BY <1>1 DEF Stored
  <2> QED
    BY <2>1, HistoryEmpty
<1>4. behind' \in [Tabs -> SUBSET (1..sent)]
  BY <1>1, <1>2 DEF SessionInv, MessagesInv
<1>5. \A u \in Tabs \ {t} : behind'[u] = behind[u] \cup ToSet(view[t])
  BY <1>1
<1> QED
  BY <1>1, <1>2, <1>3, <1>4, <1>5, TabShows

LEMMA DeleteSessionStep == ASSUME SessionInv, delete_session PROVE SessionInv'
<1> USE DEF SessionInv
<1>1. row' = Nothing /\ UNCHANGED <<view, behind, st, sent>> /\ ToSet(Stored') = {}
  BY HistoryEmpty DEF delete_session, Stored
<1>2. MessagesInv' /\ StreamInv'
  BY <1>1 DEF MessagesInv, StreamInv, StreamOK
<1>3. KnowledgeInv'
  BY <1>1 DEF KnowledgeInv, ViewKnows, BaseKnows, Knows
<1> QED
  BY <1>2, <1>3

(* A step that does not touch the session keeps what is known of it.       *)
LEMMA SessionStutters == ASSUME SessionInv, UNCHANGED session PROVE SessionInv'
<1> USE DEF SessionInv, session
<1>1. MessagesInv' /\ StreamInv'
  BY DEF MessagesInv, StreamInv, StreamOK
<1>2. KnowledgeInv'
  BY DEF KnowledgeInv, ViewKnows, BaseKnows, Knows, Stored
<1> QED
  BY <1>1, <1>2


(* What every answered stream still needs is what it started with.         *)
LEMMA AnsweredOK ==
  ASSUME SessionInv, NEW t \in Tabs, st[t].pc # "idle"
  PROVE  Answered(t) \in StreamType /\ StreamOK(Answered(t)) /\ Answered(t).base = st[t].base
<1>1. st[t] \in StreamType /\ StreamOK(st[t])
  BY TabFacts
<1>2. Answered(t) = [pc |-> "save", msg |-> st[t].msg, base |-> st[t].base, round |-> 0,
                     seen |-> {}, call |-> Nothing, found |-> FALSE]
  <2> DEFINE s == Answered(t)
             Fields == {"pc", "msg", "base", "round", "seen", "call", "found"}
  <2>1. s = [f \in Fields |-> s[f]]
    BY DEF NoStream, Answered
  <2>2. /\ s.pc = "save" /\ s.msg = st[t].msg /\ s.base = st[t].base /\ s.round = 0
        /\ s.seen = {} /\ s.call = Nothing /\ s.found = FALSE
    BY DEF NoStream, Answered
  <2> HIDE DEF s
  <2> QED
    BY <2>1, <2>2 DEF s
<1>3. 0 \in 0..Rounds
  BY ChatAssumption
<1> QED
  BY <1>1, <1>2, <1>3 DEF StreamType, StreamPc, StreamOK

LEMMA StreamStep ==
  ASSUME SessionInv, BreakerOK(cb), NEW t \in Tabs, Stream(t) \/ Broken(t)
  PROVE  SessionInv' /\ BreakerOK(cb)'
<1>1. st[t] \in StreamType /\ StreamOK(st[t])
  BY TabFacts
<1>2. CASE Ask(t)
  <2>1. st[t].pc = "ask" /\ UNCHANGED <<row, view, behind, sent>>
    BY <1>2 DEF Ask, At
  <2>2. CASE Refuses(cb)
    BY <1>2, <2>1, <2>2, StreamEnds DEF Ask, Refused
  <2>3. CASE ~Refuses(cb)
    <3> DEFINE s == [st[t] EXCEPT !.pc = "model", !.round = @ + 1]
    <3>1. Goto(t, s) /\ cb' = Checked(cb)
      BY <1>2, <2>3 DEF Ask
    <3>2. st[t].round + 1 \in 0..Rounds
      BY <1>1, <2>1, ChatAssumption DEF StreamOK, StreamType
    <3>3. s \in StreamType /\ s.pc = "model" /\ s.base = st[t].base /\ s.msg = st[t].msg
      BY <1>1, <3>2 DEF StreamType, StreamPc
    <3>4. StreamOK(s)
      BY <1>1, <2>1, <3>3 DEF StreamOK
    <3>5. SessionInv'
      BY <2>1, <3>1, <3>3, <3>4, StreamGoes
    <3> QED
      BY <3>1, <3>5, BreakerSteps
  <2> QED
    BY <2>2, <2>3
<1>3. CASE ModelFails(t)
  <2>1. SessionInv'
    BY <1>3, StreamEnds DEF ModelFails
  <2> QED
    BY <1>3, <2>1, BreakerSteps DEF ModelFails
<1>4. CASE ModelAnswers(t)
  <2>1. st[t].pc # "idle" /\ Goto(t, Answered(t)) /\ cb' = record_success(cb)
        /\ UNCHANGED <<row, view, behind, sent>>
    BY <1>4 DEF ModelAnswers, At
  <2> QED
    BY <2>1, AnsweredOK, StreamGoes, BreakerSteps
<1>5. CASE ModelCalls(t)
  <2>1. PICK call \in Tools :
          /\ st[t].pc = "model" /\ cb' = record_success(cb)
          /\ Goto(t, [st[t] EXCEPT !.pc = "tools", !.call = call])
          /\ UNCHANGED <<row, view, behind, sent>>
    BY <1>5 DEF ModelCalls, At
  <2> DEFINE s == [st[t] EXCEPT !.pc = "tools", !.call = call]
  <2>2. s \in StreamType /\ s.pc = "tools" /\ s.base = st[t].base /\ s.msg = st[t].msg
    BY <1>1 DEF StreamType, StreamPc
  <2>3. StreamOK(s)
    BY <1>1, <2>1, <2>2 DEF StreamOK
  <2>4. SessionInv'
    BY <2>1, <2>2, <2>3, StreamGoes
  <2> QED
    BY <2>1, <2>4, BreakerSteps
<1>6. CASE ToolAnswered(t)
  <2>1. st[t].pc = "tools" /\ UNCHANGED <<row, view, behind, sent>> /\ cb' = cb
    BY <1>6 DEF ToolAnswered, At
  <2>2. CASE ~NextRound(st[t].round)
    BY <1>6, <2>1, <2>2, AnsweredOK, StreamGoes DEF ToolAnswered
  <2>3. CASE NextRound(st[t].round)
    <3> DEFINE s == [st[t] EXCEPT !.seen = @ \cup {st[t].call}, !.call = Nothing, !.pc = "ask"]
    <3>1. Goto(t, s) /\ st[t].call \in ReadTools \cup st[t].seen
      BY <1>6, <2>3 DEF ToolAnswered
    <3>2. st[t].seen \cup {st[t].call} \subseteq Tools
      BY <1>1, <3>1 DEF StreamType, Tools
    <3>3. /\ s \in StreamType /\ s.pc = "ask" /\ s.base = st[t].base /\ s.msg = st[t].msg
          /\ s.round = st[t].round
      BY <1>1, <3>2 DEF StreamType, StreamPc
    <3>4. StreamOK(s)
      BY <1>1, <2>1, <2>3, <3>3 DEF StreamOK, NextRound
    <3> QED
      BY <2>1, <3>1, <3>3, <3>4, StreamGoes
  <2> QED
    BY <2>2, <2>3
<1>7. CASE ToolProposes(t)
  BY <1>7, ToolProposesStep DEF ToolProposes
<1>8. CASE SaveLookup(t)
  <2> DEFINE s == [st[t] EXCEPT !.pc = "write", !.found = row # Nothing]
  <2>1. /\ st[t].pc = "save" /\ Goto(t, s) /\ cb' = cb
        /\ UNCHANGED <<row, view, behind, sent>>
    BY <1>8 DEF SaveLookup, At
  <2>2. s \in StreamType /\ s.pc = "write" /\ s.base = st[t].base /\ s.msg = st[t].msg
    BY <1>1 DEF StreamType, StreamPc
  <2>3. StreamOK(s)
    BY <1>1, <2>1, <2>2 DEF StreamOK
  <2> QED
    BY <2>1, <2>2, <2>3, StreamGoes
<1>9. CASE SaveWrite(t)
  BY <1>9, SaveWriteStep DEF SaveWrite
<1>10. CASE Broken(t)
  BY <1>10, StreamEnds DEF Broken
<1> QED
  BY <1>2, <1>3, <1>4, <1>5, <1>6, <1>7, <1>8, <1>9, <1>10 DEF Stream

-----------------------------------------------------------------------------
(* The analyses *)

LEMMA RestingType == Resting \in AnalysisType
<1>1. 0 \in 0..Attempts /\ 0 \in 0..Tries
  BY ChatAssumption
<1> QED
  BY <1>1 DEF Resting, AnalysisType

LEMMA AnalysisGoes ==
  ASSUME AnalysisInv, NEW a \in Analyses, NEW r \in AnalysisType, Step(a, r),
         profile' \in [fresh : BOOLEAN, marked : BOOLEAN]
  PROVE  AnalysisInv'
  BY DEF AnalysisInv, Step

LEMMA BeginsStep ==
  ASSUME AnalysisInv, NEW a \in Analyses, NEW k \in {"profile", "forced", "diagnosis"}, Begins(a, k),
         profile' \in [fresh : BOOLEAN, marked : BOOLEAN]
  PROVE  AnalysisInv' /\ UNCHANGED <<session, cb>>
<1>1. 0 \in 0..Tries /\ 1 \in 0..Attempts
  BY ChatAssumption
<1>2. [Resting EXCEPT !.pc = "ask", !.kind = k, !.attempt = 1] \in AnalysisType
  BY <1>1 DEF Resting, AnalysisType
<1> QED
  BY <1>2, AnalysisGoes DEF Begins

LEMMA ClassifyStep ==
  ASSUME AnalysisInv, NEW a \in Analyses, classify_node_services(a) PROVE AnalysisInv'
<1>1. 0 \in 0..Attempts /\ 0 \in 0..Tries
  BY ChatAssumption
<1>2. an[a].kind \in {Nothing, "profile", "forced", "diagnosis"}
  BY DEF AnalysisInv, AnalysisType
<1>3. [Resting EXCEPT !.pc = "store", !.kind = an[a].kind] \in AnalysisType
  BY <1>1, <1>2 DEF Resting, AnalysisType
<1>4. profile' \in [fresh : BOOLEAN, marked : BOOLEAN]
  BY DEF classify_node_services, AnalysisInv
<1> QED
  BY <1>3, <1>4, RestingType, AnalysisGoes DEF classify_node_services, _classify_services_fallback

LEMMA AnalysisStep ==
  ASSUME AnalysisInv, BreakerOK(cb), NEW a \in Analyses,
         \/ get_insights(a) \/ regenerate_node_profile(a) \/ analyze_anomaly(a)
         \/ Analysis(a) \/ RequestRejected(a) \/ generate_profile_cut(a)
  PROVE  AnalysisInv' /\ BreakerOK(cb)' /\ UNCHANGED session
<1> USE DEF session
<1>1. an[a] \in AnalysisType /\ profile \in [fresh : BOOLEAN, marked : BOOLEAN]
  BY DEF AnalysisInv
<1>2. CASE get_insights(a)
  <2>1. profile' \in [fresh : BOOLEAN, marked : BOOLEAN]
    BY <1>1, <1>2 DEF get_insights
  <2> QED
    BY <1>2, <2>1, BeginsStep DEF get_insights, _generate_profile_with_own_connection, _generate_profile_impl
<1>3. CASE regenerate_node_profile(a)
  BY <1>1, <1>3, BeginsStep DEF regenerate_node_profile, _generate_profile_impl
<1>4. CASE analyze_anomaly(a)
  BY <1>1, <1>4, BeginsStep DEF analyze_anomaly
<1>5. CASE StoreProfile(a)
  <2>1. profile' \in [fresh : BOOLEAN, marked : BOOLEAN]
    BY <1>1, <1>5 DEF StoreProfile
  <2> QED
    BY <1>5, <2>1, RestingType, AnalysisGoes DEF StoreProfile
<1>6. CASE RequestStarts(a)
  <2>1. CASE Refuses(cb)
    BY <1>6, <2>1, ClassifyStep DEF RequestStarts
  <2>2. CASE ~Refuses(cb)
    <3>1. /\ Step(a, [an[a] EXCEPT !.pc = "call", !.try = 1]) /\ cb' = Checked(cb)
          /\ profile' = profile /\ UNCHANGED session
      BY <1>6, <2>2 DEF RequestStarts
    <3>2. 1 \in 0..Tries
      BY ChatAssumption
    <3>3. [an[a] EXCEPT !.pc = "call", !.try = 1] \in AnalysisType
      BY <1>1, <3>2 DEF AnalysisType
    <3> QED
      BY <1>1, <3>1, <3>3, AnalysisGoes, BreakerSteps
  <2> QED
    BY <2>1, <2>2
<1>7. CASE RequestFails(a)
  <2>1. CASE with_retry(a)
    <3>1. an[a].try + 1 \in 0..Tries
      BY <1>1, <2>1, ChatAssumption DEF with_retry, AnalysisType
    <3>2. [an[a] EXCEPT !.try = @ + 1] \in AnalysisType
      BY <1>1, <3>1 DEF AnalysisType
    <3> QED
      BY <1>1, <1>7, <2>1, <3>2, AnalysisGoes DEF with_retry, RequestFails
  <2>2. CASE classify_node_services(a) /\ cb' = record_failure(cb)
    BY <1>7, <2>2, ClassifyStep, BreakerSteps DEF RequestFails
  <2> QED
    BY <1>7, <2>1, <2>2 DEF RequestFails
<1>8. CASE create_answered(a)
  <2>1. BreakerOK(cb)' /\ UNCHANGED session
    BY <1>8, BreakerSteps DEF create_answered
  <2>2. CASE classify_node_services(a)
    BY <2>1, <2>2, ClassifyStep
  <2>3. CASE /\ an[a].attempt < Attempts /\ profile' = profile
             /\ Step(a, [an[a] EXCEPT !.pc = "ask", !.attempt = @ + 1, !.try = 0])
    <3>1. an[a].attempt + 1 \in 0..Attempts /\ 0 \in 0..Tries
      BY <1>1, <2>3, ChatAssumption DEF AnalysisType
    <3>2. [an[a] EXCEPT !.pc = "ask", !.attempt = @ + 1, !.try = 0] \in AnalysisType
      BY <1>1, <3>1 DEF AnalysisType
    <3> QED
      BY <1>1, <2>1, <2>3, <3>2, AnalysisGoes
  <2> QED
    BY <1>8, <2>2, <2>3 DEF create_answered
<1>9. CASE RequestRejected(a)
  BY <1>9, ClassifyStep DEF RequestRejected
<1>10. CASE generate_profile_cut(a)
  <2>1. profile' \in [fresh : BOOLEAN, marked : BOOLEAN] /\ Step(a, Resting)
    BY <1>1, <1>10 DEF generate_profile_cut, Ended
  <2> QED
    BY <1>10, <2>1, RestingType, AnalysisGoes DEF generate_profile_cut
<1> QED
  BY <1>2, <1>3, <1>4, <1>5, <1>6, <1>7, <1>8, <1>9, <1>10 DEF Analysis

-----------------------------------------------------------------------------
(* The assistant *)

LEMMA ChatInitInv == ASSUME ChatInit PROVE ChatInv
<1>1. 0 \in 0..MaxMessages /\ 0 \in Nat /\ 0 \in 0..Threshold
  BY ChatAssumption
<1>2. MessagesInv
  BY <1>1, HistoryEmpty DEF ChatInit, MessagesInv
<1>3. StreamInv
  BY NoStreamType DEF ChatInit, StreamInv
<1>4. KnowledgeInv
  BY NoStreamType, HistoryEmpty DEF ChatInit, KnowledgeInv, ViewKnows, BaseKnows, Knows
<1>5. AnalysisInv
  BY RestingType DEF ChatInit, AnalysisInv
<1>6. BreakerOK(cb)
  BY <1>1 DEF ChatInit, BreakerOK, BreakerType
<1> QED
  BY <1>2, <1>3, <1>4, <1>5, <1>6 DEF ChatInv, SessionInv

LEMMA ChatNextInv == ASSUME ChatInv, [ChatNext]_chatVars PROVE ChatInv'
<1>1. SessionInv /\ AnalysisInv /\ BreakerOK(cb)
  BY DEF ChatInv
<1>2. ASSUME UNCHANGED <<an, profile>> PROVE AnalysisInv'
  BY <1>1, <1>2 DEF AnalysisInv
<1>3. CASE TimeoutElapses
  <2>1. BreakerOK(cb)'
    BY <1>1, <1>3 DEF TimeoutElapses, BreakerOK, BreakerType
  <2> QED
    BY <1>1, <1>2, <1>3, <2>1, SessionStutters DEF TimeoutElapses, node, ChatInv
<1>4. CASE delete_session
  BY <1>1, <1>2, <1>4, DeleteSessionStep DEF delete_session, node, ChatInv
<1>5. CASE ProfileAges
  <2>1. AnalysisInv'
    BY <1>1, <1>5 DEF ProfileAges, AnalysisInv
  <2> QED
    BY <1>1, <1>5, <2>1, SessionStutters DEF ProfileAges, ChatInv
<1>6. ASSUME NEW t \in Tabs, Stream(t) \/ Broken(t) PROVE ChatInv'
  <2>1. UNCHANGED <<an, profile>>
    BY <1>6 DEF Stream, Broken, Ask, ModelFails, ModelAnswers, ModelCalls, ToolAnswered,
                ToolProposes, SaveLookup, SaveWrite, node
  <2> QED
    BY <1>1, <1>2, <1>6, <2>1, StreamStep DEF ChatInv
<1>7. ASSUME NEW t \in Tabs, chat(t) \/ get_session(t) \/ save_session(t) PROVE ChatInv'
  <2>1. UNCHANGED <<an, profile, cb>>
    BY <1>7 DEF chat, get_session, save_session, node
  <2>2. SessionInv'
    BY <1>1, <1>7, ChatStep, GetSessionStep, SaveSessionStep
  <2> QED
    BY <1>1, <1>2, <2>1, <2>2 DEF ChatInv
<1>8. ASSUME NEW a \in Analyses,
             \/ get_insights(a) \/ regenerate_node_profile(a) \/ analyze_anomaly(a)
             \/ Analysis(a) \/ RequestRejected(a) \/ generate_profile_cut(a)
      PROVE  ChatInv'
  BY <1>1, <1>8, AnalysisStep, SessionStutters DEF ChatInv
<1>9. CASE UNCHANGED chatVars
  BY <1>1, <1>2, <1>9, SessionStutters DEF chatVars, session, ChatInv
<1> QED
  BY <1>3, <1>4, <1>5, <1>6, <1>7, <1>8, <1>9 DEF ChatNext

(***************************************************************************)
(* The inductive invariant of the chat sessions, the analyses and the      *)
(* breaker holds in every reachable state.                                 *)
(***************************************************************************)
THEOREM ChatInvariance == ChatSpec => []ChatInv
  BY ChatInitInv, ChatNextInv, PTL DEF ChatSpec

(***************************************************************************)
(* Streams, analyses and the breaker stay well-typed: _event_stream never  *)
(* passes its rounds, the breaker its threshold, and a stored history      *)
(* never outgrows the messages there have been.                            *)
(***************************************************************************)
THEOREM ChatTypeCorrect == ChatSpec => []ChatTypeOK
<1>1. ChatInv => ChatTypeOK
  <2> SUFFICES ASSUME ChatInv PROVE ChatTypeOK
    OBVIOUS
  <2>1. SessionInv /\ AnalysisInv /\ BreakerOK(cb)
    BY DEF ChatInv
  <2>2. row = Nothing \/ (Len(row) <= MaxMessages /\ ToSet(row) \subseteq 1..sent)
    <3>1. sent \in Nat /\ MaxMessages \in Nat /\ sent <= MaxMessages
      BY <2>1, ChatAssumption DEF SessionInv, MessagesInv
    <3>2. CASE row \in History(sent)
      <4>1. Len(row) \in Nat /\ Len(row) <= sent /\ ToSet(row) \subseteq 1..sent
        BY <3>1, <3>2, HistoryType
      <4> QED
        BY <3>1, <4>1
    <3> QED
      BY <2>1, <3>2 DEF SessionInv, MessagesInv
  <2>3. ASSUME NEW t \in Tabs
        PROVE  /\ ToSet(view[t]) \subseteq 1..sent /\ behind[t] \subseteq 1..sent
               /\ st[t].pc \in {"idle", "ask", "model", "tools", "save", "write"}
               /\ st[t].msg \in 0..sent /\ st[t].round \in 0..Rounds
               /\ st[t].seen \subseteq Tools /\ st[t].call \in Tools \cup {Nothing}
    <3>1. /\ sent \in Nat /\ view[t] \in History(sent) /\ behind[t] \subseteq 1..sent
          /\ st[t] \in StreamType /\ StreamOK(st[t])
      BY <2>1, TabFacts
    <3>2. ToSet(view[t]) \subseteq 1..sent
      BY <3>1, HistoryType
    <3>3. st[t].msg \in 0..sent
      BY <3>1 DEF StreamOK, NoStream
    <3> QED
      BY <3>1, <3>2, <3>3 DEF StreamType, StreamPc
  <2> QED
    BY <2>1, <2>2, <2>3
       DEF ChatTypeOK, SessionInv, MessagesInv, AnalysisInv, AnalysisType, BreakerOK, BreakerType
<1> QED
  BY <1>1, ChatInvariance, PTL

(***************************************************************************)
(* However the tabs' streams, loads and saves interleave, the history that *)
(* _event_stream writes back drops only exchanges the tab could not have   *)
(* read, or that the cap drops.                                            *)
(***************************************************************************)
THEOREM StoredKept == ChatSpec => StoredExchangeKept
<1> DEFINE Kept ==
      \A t \in Tabs : SaveWrite(t) /\ row' # Nothing =>
        \A e \in ToSet(Stored) \ ToSet(row') : e \in behind[t] \/ Len(view[t]) > HistoryCap
<1>1. ChatInv /\ [ChatNext]_chatVars => [Kept]_chatVars
  <2> SUFFICES ASSUME ChatInv, NEW t \in Tabs, SaveWrite(t), row' # Nothing,
                      NEW e \in ToSet(Stored) \ ToSet(row'), Len(view[t]) <= HistoryCap
               PROVE  e \in behind[t]
    <3>1. \A t \in Tabs : ChatInv => Len(view[t]) \in Nat /\ HistoryCap \in Nat
      BY TabFacts, ChatAssumption DEF ChatInv, History
    <3> QED
      BY <3>1
  <2> DEFINE h == Append(st[t].base, st[t].msg)
  <2>1. st[t].pc # "idle" /\ SessionInv
    BY DEF SaveWrite, At, ChatInv
  <2>2. ToSet(Stored) \subseteq ToSet(h) \cup behind[t]
    BY <2>1, Exchange
  <2>3. row' = h \/ row' = row
    BY DEF SaveWrite
  <2>4. row' = row => Stored = row'
    BY DEF Stored
  <2> HIDE DEF h
  <2> QED
    BY <2>2, <2>3, <2>4
<1> QED
  BY <1>1, ChatInvariance, PTL DEF ChatSpec, StoredExchangeKept

(***************************************************************************)
(* However many calls share the breaker, record_failure opens it again     *)
(* when it is half open, unless a late success has reset its count.        *)
(***************************************************************************)
THEOREM ProbeReopens == ChatSpec => ProbeFailureReopens
<1> DEFINE Reopens ==
      cb.state = "HALF_OPEN" /\ (\/ \E t \in Tabs : ModelFails(t)
                                \/ \E a \in Analyses : RequestFails(a) /\ an[a].try = Tries)
        => cb'.state = "OPEN" \/ cb.late
<1>1. ChatInv /\ [ChatNext]_chatVars => [Reopens]_chatVars
  <2> SUFFICES ASSUME ChatInv, cb.state = "HALF_OPEN", ~cb.late,
                      \/ \E t \in Tabs : ModelFails(t)
                      \/ \E a \in Analyses : RequestFails(a) /\ an[a].try = Tries
               PROVE  cb'.state = "OPEN"
    OBVIOUS
  <2>1. cb' = record_failure(cb)
    <3>1. CASE \E t \in Tabs : ModelFails(t)
      BY <3>1 DEF ModelFails
    <3>2. ASSUME NEW a \in Analyses, RequestFails(a), an[a].try = Tries
          PROVE  cb' = record_failure(cb)
      <4>1. ~(an[a].try < Tries)
        BY <3>2, ChatAssumption
      <4> QED
        BY <3>2, <4>1 DEF RequestFails, with_retry
    <3> QED
      BY <3>1, <3>2
  <2> QED
    BY <2>1, BreakerSteps DEF ChatInv
<1> QED
  BY <1>1, ChatInvariance, PTL DEF ChatSpec, ProbeFailureReopens
=============================================================================
