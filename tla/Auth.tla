-------------------------------- MODULE Auth --------------------------------
(***************************************************************************)
(* The sessions of one user: logging in, exchanging a refresh token for    *)
(* the next one of its family, logging out and changing the password, as   *)
(* requests that run at the same time on pooled connections.  A request    *)
(* reads first and writes later; its writes, from the first UPDATE or      *)
(* INSERT to the commit, hold the write lock of the database and are one   *)
(* step.  A client may present any token it was ever sent: it retries when *)
(* an answer is lost, and its tabs share one cookie.                       *)
(***************************************************************************)
EXTENDS Naturals, Sequences, FiniteSets

CONSTANTS
  Requests,     \* the requests that run at the same time
  None,
  LoginLimit,   \* LOGIN_LIMIT of the rate limiter
  MaxTokens,    \* bound on the refresh tokens ever issued
  MaxChanges    \* bound on the password changes

ASSUME BoundsAssumption ==
  /\ {LoginLimit, MaxTokens, MaxChanges} \subseteq Nat
  /\ LoginLimit > 0
ASSUME NoneAssumption == None \notin {"login", "rotate", "theft", "change"}

VARIABLES
  tokens,     \* refresh_tokens; gen: the password that opened the session
  password,   \* users.password_hash, by the number of changes
  bucket,     \* the login attempts of the rate limiter's window
  req,        \* the requests
  stolen,     \* the families for which a reuse was detected
  raced,      \* the tokens written by a request whose reads were outdated
  access      \* the user has an access token that has not expired

vars == <<tokens, password, bucket, req, stolen, raced, access>>

TokenIds == 1..MaxTokens
Idle == [kind |-> None, token |-> 0, gen |-> 0]

(* Every variable has its declared shape. *)
TypeOK ==
  /\ Len(tokens) <= MaxTokens
  /\ \A k \in DOMAIN tokens :
       tokens[k] \in [family : 1..Len(tokens), gen : 0..password, revoked : BOOLEAN]
  /\ password \in 0..MaxChanges
  /\ bucket \in 0..LoginLimit
  /\ req \in [Requests -> [kind : {None, "login", "rotate", "theft", "change"},
                           token : 0..Len(tokens), gen : 0..password]]
  /\ stolen \subseteq {tokens[k].family : k \in DOMAIN tokens}
  /\ raced \subseteq DOMAIN tokens
  /\ access \in BOOLEAN

Init ==
  /\ tokens = <<>>
  /\ password = 0
  /\ bucket = 0
  /\ req = [r \in Requests |-> Idle]
  /\ stolen = {} /\ raced = {}
  /\ access = FALSE

Begin(r, kind, k) ==
  /\ req[r] = Idle
  /\ req' = [req EXCEPT ![r] = [kind |-> kind, token |-> k, gen |-> password]]

Answer(r) == req' = [req EXCEPT ![r] = Idle]

(* The rows that a condition names are marked revoked *)
Revoked(Cond(_)) ==
  [k \in DOMAIN tokens |-> [tokens[k] EXCEPT !.revoked = @ \/ Cond(tokens[k])]]

-----------------------------------------------------------------------------
(* RateLimiter *)

is_allowed == bucket < LoginLimit /\ bucket' = bucket + 1

(* of the login endpoint, by client address: 429 changes nothing *)
dependency == is_allowed

WindowSlides ==
  /\ bucket > 0
  /\ bucket' = bucket - 1
  /\ UNCHANGED <<tokens, password, req, stolen, raced, access>>

-----------------------------------------------------------------------------
(* Access tokens, which nothing revokes: logging out and a new password leave
   them valid until they expire *)

create_access_token == access' = TRUE

(* Both tokens are sent to the client *)
_set_auth_cookies == create_access_token

verify_access_token == access

(* A valid access token of a user who is active.  (The endpoint that changes
   the password is one of those that must_change_password leaves open.) *)
get_current_user == verify_access_token

AccessExpires ==
  /\ access
  /\ access' = FALSE
  /\ UNCHANGED <<tokens, password, bucket, req, stolen, raced>>

-----------------------------------------------------------------------------
(* login: the password is compared with the hash that was read *)

LoginVerified(r) ==
  /\ dependency
  /\ Begin(r, "login", 0)
  /\ UNCHANGED <<tokens, password, stolen, raced, access>>

(* 401: the attempt has only used up the limiter's window *)
LoginRefused ==
  /\ dependency
  /\ UNCHANGED <<tokens, password, req, stolen, raced, access>>

create_refresh_token(family, gen) == [family |-> family, gen |-> gen, revoked |-> FALSE]

LoginStored(r) ==
  /\ req[r].kind = "login"
  /\ Len(tokens) < MaxTokens
  /\ tokens' = Append(tokens, create_refresh_token(Len(tokens) + 1, req[r].gen))
  /\ raced' = IF req[r].gen # password THEN raced \cup {Len(tokens')} ELSE raced
  /\ Answer(r)
  /\ _set_auth_cookies
  /\ UNCHANGED <<password, bucket, stolen>>

-----------------------------------------------------------------------------
(* refresh *)

(* The row is read; a revoked one announces a reuse.  An expired token and an
   unknown one are refused and change nothing *)
RefreshLookup(r, k) ==
  /\ Begin(r, IF tokens[k].revoked THEN "theft" ELSE "rotate", k)
  /\ UNCHANGED <<tokens, password, bucket, stolen, raced, access>>

RevokeFamily(family) == Revoked(LAMBDA t : t.family = family)

(* The whole family ends *)
TheftDetected(r) ==
  LET family == tokens[req[r].token].family
  IN /\ req[r].kind = "theft"
     /\ tokens' = RevokeFamily(family)
     /\ stolen' = stolen \cup {family}
     /\ Answer(r)
     /\ UNCHANGED <<password, bucket, raced, access>>

(* Mutant: the old token stays valid *)
RetireNot(k) == tokens

(* The old token is revoked whatever has become of it since it was read *)
Retire(k) == [tokens EXCEPT ![k].revoked = TRUE]

(* Mutant: the new token is given no family *)
RotatedAlone(k) ==
  Append(Retire(k), create_refresh_token(Len(tokens) + 2, tokens[k].gen))

Rotated(k) == Append(Retire(k), create_refresh_token(tokens[k].family, tokens[k].gen))

RefreshRotate(r) ==
  LET k == req[r].token
  IN /\ req[r].kind = "rotate"
     /\ Len(tokens) < MaxTokens
     /\ tokens' = Rotated(k)
     /\ raced' = IF tokens[k].revoked \/ k \in raced
                 THEN raced \cup {Len(tokens')} ELSE raced
     /\ Answer(r)
     /\ _set_auth_cookies
     /\ UNCHANGED <<password, bucket, stolen>>

(* The connection fails or the client is gone before the commit *)
Abandoned(r) ==
  /\ req[r] # Idle
  /\ Answer(r)
  /\ UNCHANGED <<tokens, password, bucket, stolen, raced, access>>

-----------------------------------------------------------------------------
(* logout *)
logout(r, k) ==
  /\ req[r] = Idle
  /\ tokens' = [tokens EXCEPT ![k].revoked = TRUE]
  /\ UNCHANGED <<password, bucket, req, stolen, raced, access>>

(* change_password: the old password is compared with the hash that was read *)
ChangeVerified(r) ==
  /\ get_current_user
  /\ password < MaxChanges
  /\ Begin(r, "change", 0)
  /\ UNCHANGED <<tokens, password, bucket, stolen, raced, access>>

(* Mutant: the sessions stay open *)
RevokeUserNone == tokens

RevokeUser == Revoked(LAMBDA t : TRUE)

ChangeStored(r) ==
  /\ req[r].kind = "change"
  /\ password < MaxChanges
  /\ password' = password + 1
  /\ tokens' = RevokeUser
  /\ Answer(r)
  /\ UNCHANGED <<bucket, stolen, raced, access>>

-----------------------------------------------------------------------------
Serve(r) ==
  \/ LoginVerified(r) \/ LoginStored(r)
  \/ \E k \in DOMAIN tokens : RefreshLookup(r, k) \/ logout(r, k)
  \/ TheftDetected(r) \/ RefreshRotate(r) \/ Abandoned(r)
  \/ ChangeVerified(r) \/ ChangeStored(r)

Next == WindowSlides \/ AccessExpires \/ LoginRefused \/ \E r \in Requests : Serve(r)

Spec == Init /\ [][Next]_vars

-----------------------------------------------------------------------------
Valid(family) == {k \in DOMAIN tokens : tokens[k].family = family /\ ~tokens[k].revoked}

(* A family is a line: it has one valid token at most, and none once a reuse
   was detected.  Only a refresh that had read its token before somebody else
   rotated or revoked it adds a second one. *)
FamilyIsALine ==
  \A family \in DOMAIN tokens :
    LET regular == Valid(family) \ raced
    IN Cardinality(regular) <= 1 /\ (family \in stolen => regular = {})

(* After a change of the password every valid token goes back to a login with
   the new one, except for the tokens of requests that were under way. *)
CurrentPassword ==
  \A k \in DOMAIN tokens : ~tokens[k].revoked => tokens[k].gen = password \/ k \in raced
=============================================================================
