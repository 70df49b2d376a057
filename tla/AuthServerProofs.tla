----------------------------- MODULE AuthServerProofs -----------------------------
(* Theorems about AuthServer, for every value of its constants. *)
EXTENDS AuthServer, SequenceTheorems, TLAPS

(* A pending request speaks of rows and codes that there are. *)
PendingOK ==
  \A r \in Request :
    /\ Running(r, "callback") => req[r].session \in DOMAIN sessions
    /\ Running(r, "redeem") => req[r].code \in DOMAIN minted
    /\ Running(r, "refresh") => req[r].token \in DOMAIN tokens

(* A session has a code from the callback that named its user. *)
NamedOK ==
  \A s \in DOMAIN sessions :
    IF sessions[s].code = None THEN sessions[s].status = "pending"
    ELSE sessions[s].status # "pending" /\ sessions[s].subject # None

TypeInv == AuthTypeOK /\ PendingOK /\ NamedOK

------------------------------------------------------------------------------
(* Sequences *)

(* The rows of a table after an insert. *)
LEMMA Appended ==
  ASSUME NEW S, NEW seq \in Seq(S), NEW e \in S
  PROVE  /\ Append(seq, e) \in Seq(S)
         /\ Len(Append(seq, e)) = Len(seq) + 1
         /\ Len(seq) \in Nat
         /\ DOMAIN Append(seq, e) = DOMAIN seq \cup {Len(seq) + 1}
         /\ Len(seq) + 1 \notin DOMAIN seq
         /\ \A i \in DOMAIN seq : Append(seq, e)[i] = seq[i]
         /\ Append(seq, e)[Len(seq) + 1] = e
<1>1. Append(seq, e) \in Seq(S) /\ Len(Append(seq, e)) = Len(seq) + 1
  BY AppendProperties
<1>2. /\ Len(seq) \in Nat /\ DOMAIN seq = 1..Len(seq)
      /\ DOMAIN Append(seq, e) = 1..(Len(seq) + 1)
  BY <1>1, LenProperties
<1>3. QED BY <1>1, <1>2, AppendProperties

(* And after an update of one of them. *)
LEMMA Overwritten ==
  ASSUME NEW S, NEW seq \in Seq(S), NEW i \in DOMAIN seq, NEW e \in S
  PROVE  /\ [seq EXCEPT ![i] = e] \in Seq(S)
         /\ Len([seq EXCEPT ![i] = e]) = Len(seq)
         /\ DOMAIN [seq EXCEPT ![i] = e] = DOMAIN seq
         /\ \A j \in DOMAIN seq : [seq EXCEPT ![i] = e][j] = IF j = i THEN e ELSE seq[j]
<1>1. DOMAIN seq = 1..Len(seq)
  BY LenProperties
<1>2. QED BY <1>1, ExceptSeq

(* A row is of its type, and its number within the bound. *)
LEMMA Rows ==
  ASSUME AuthTypeOK
  PROVE  /\ \A s \in DOMAIN sessions : sessions[s] \in Session /\ s \in SessionId
         /\ \A t \in DOMAIN tokens : tokens[t] \in Token /\ t \in TokenId
         /\ \A k \in DOMAIN minted : /\ minted[k] \in [session : SessionId, user : User]
                                     /\ k \in Code
<1>1. /\ Len(sessions) \in Nat /\ DOMAIN sessions = 1..Len(sessions)
      /\ Len(tokens) \in Nat /\ DOMAIN tokens = 1..Len(tokens)
      /\ Len(minted) \in Nat /\ DOMAIN minted = 1..Len(minted)
  BY LenProperties DEF AuthTypeOK
<1>2. /\ \A s \in DOMAIN sessions : sessions[s] \in Session
      /\ \A t \in DOMAIN tokens : tokens[t] \in Token
      /\ \A k \in DOMAIN minted : minted[k] \in [session : SessionId, user : User]
  BY <1>1, ElementOfSeq DEF AuthTypeOK
<1>3. QED BY <1>1, <1>2, AuthAssumption DEF AuthTypeOK, SessionId, TokenId, Code

------------------------------------------------------------------------------
(* Requests *)

(* A step changes one request at most. *)
LEMMA OneCallChanges ==
  ASSUME AuthTypeOK, NEW r \in Request, NEW call \in Pending \cup {Idle}, Become(r, call)
  PROVE  /\ req' \in [Request -> Pending \cup {Idle}]
         /\ \A q \in Request : req'[q] = IF q = r THEN call ELSE req[q]
BY DEF AuthTypeOK, Become

LEMMA OneCallEnds ==
  ASSUME AuthTypeOK, NEW r \in Request, Finish(r)
  PROVE  /\ req' \in [Request -> Pending \cup {Idle}]
         /\ \A q \in Request : req'[q] = IF q = r THEN Idle ELSE req[q]
BY OneCallChanges DEF Finish

(* What each kind of request holds. *)
LEMMA CallKinds ==
  ASSUME AuthTypeOK, NEW r \in Request
  PROVE  /\ Running(r, "callback") => req[r].session \in SessionId /\ req[r].user \in User
         /\ Running(r, "redeem") => req[r].client \in Client /\ req[r].code \in Code
         /\ Running(r, "refresh") => req[r].token \in TokenId
         /\ Running(r, "grant") => req[r].client \in Client
<1>1. req[r] \in Pending \cup {Idle}
  BY DEF AuthTypeOK
<1>2. QED BY <1>1 DEF Pending, Idle, Running

(* Rows are never removed: the requests that were pending stay good. *)
LEMMA PendingStays ==
  ASSUME TypeInv, NEW r \in Request, NEW call,
         \A q \in Request : req'[q] = IF q = r THEN call ELSE req[q],
         DOMAIN sessions \subseteq DOMAIN sessions',
         DOMAIN tokens \subseteq DOMAIN tokens',
         DOMAIN minted \subseteq DOMAIN minted',
         call.op = "callback" => call.session \in DOMAIN sessions',
         call.op = "redeem" => call.code \in DOMAIN minted',
         call.op = "refresh" => call.token \in DOMAIN tokens'
  PROVE  PendingOK'
<1> SUFFICES ASSUME NEW q \in Request
             PROVE  /\ req'[q].op = "callback" => req'[q].session \in DOMAIN sessions'
                    /\ req'[q].op = "redeem" => req'[q].code \in DOMAIN minted'
                    /\ req'[q].op = "refresh" => req'[q].token \in DOMAIN tokens'
  BY DEF PendingOK, Running
<1>1. CASE q = r
  BY <1>1
<1>2. CASE q # r
  BY <1>2 DEF TypeInv, PendingOK, Running
<1>3. QED BY <1>1, <1>2

(* A step that starts or ends a request and leaves the tables alone. *)
LEMMA TablesAlone ==
  ASSUME TypeInv, NEW r \in Request, NEW call \in Pending \cup {Idle}, Become(r, call),
         call.op = "callback" => call.session \in DOMAIN sessions,
         call.op = "redeem" => call.code \in DOMAIN minted,
         call.op = "refresh" => call.token \in DOMAIN tokens,
         UNCHANGED <<active, sessions, tokens, minted>>,
         doubled' \in [sessions : SUBSET SessionId, grants : SUBSET TokenId]
  PROVE  /\ TypeInv'
         /\ \A q \in Request : req'[q] = IF q = r THEN call ELSE req[q]
<1>1. /\ req' \in [Request -> Pending \cup {Idle}]
      /\ \A q \in Request : req'[q] = IF q = r THEN call ELSE req[q]
  BY OneCallChanges DEF TypeInv
<1>2. AuthTypeOK'
  BY <1>1 DEF AuthTypeOK, TypeInv
<1>3. PendingOK'
  BY <1>1, PendingStays
<1>4. NamedOK'
  BY DEF TypeInv, NamedOK
<1>5. QED BY <1>1, <1>2, <1>3, <1>4 DEF TypeInv

------------------------------------------------------------------------------
(* What each step does to the tables *)

LEMMA AuthorizeStep ==
  ASSUME TypeInv, NEW c \in Client, Authorize(c)
  PROVE  /\ TypeInv'
         /\ Len(sessions) + 1 \notin DOMAIN sessions
         /\ DOMAIN sessions' = DOMAIN sessions \cup {Len(sessions) + 1}
         /\ \A s \in DOMAIN sessions : sessions'[s] = sessions[s]
         /\ LET row == sessions'[Len(sessions) + 1]
            IN row.client = c /\ row.status = "pending" /\ row.code = None
<1> DEFINE row == [client |-> c, status |-> "pending", code |-> None,
                   subject |-> None, expired |-> FALSE, kept |-> TRUE]
<1>1. row \in Session
  BY DEF Session
<1>2. sessions' = Append(sessions, row) /\ sessions \in Seq(Session)
  BY DEF Authorize, TypeInv, AuthTypeOK
<1>3. /\ sessions' \in Seq(Session) /\ Len(sessions') = Len(sessions) + 1
      /\ Len(sessions) \in Nat
      /\ Len(sessions) + 1 \notin DOMAIN sessions
      /\ DOMAIN sessions' = DOMAIN sessions \cup {Len(sessions) + 1}
      /\ \A s \in DOMAIN sessions : sessions'[s] = sessions[s]
      /\ sessions'[Len(sessions) + 1] = row
  <2> HIDE DEF row
  <2>1. QED BY <1>1, <1>2, Appended
<1>4. AuthTypeOK'
  BY <1>3, AuthAssumption DEF Authorize, Nobody, TypeInv, AuthTypeOK
<1>5. PendingOK'
  BY <1>3 DEF Authorize, Nobody, TypeInv, PendingOK, Running
<1>6. NamedOK'
  BY <1>3 DEF TypeInv, NamedOK
<1>7. QED BY <1>3, <1>4, <1>5, <1>6 DEF TypeInv

(* Any update of one row of sessions. *)
LEMMA SessionStep ==
  ASSUME AuthTypeOK, NEW s \in DOMAIN sessions, NEW row \in Session,
         sessions' = [sessions EXCEPT ![s] = row]
  PROVE  /\ sessions' \in Seq(Session) /\ Len(sessions') = Len(sessions)
         /\ DOMAIN sessions' = DOMAIN sessions
         /\ \A i \in DOMAIN sessions : sessions'[i] = IF i = s THEN row ELSE sessions[i]
BY Overwritten DEF AuthTypeOK

(* Any insert of a token. *)
LEMMA TokenStep ==
  ASSUME AuthTypeOK, NEW row \in Token, Issue(row)
  PROVE  /\ tokens' \in Seq(Token) /\ Len(tokens') <= MaxTokens
         /\ Len(tokens) + 1 \in TokenId
         /\ Len(tokens) + 1 \notin DOMAIN tokens
         /\ DOMAIN tokens' = DOMAIN tokens \cup {Len(tokens) + 1}
         /\ \A t \in DOMAIN tokens : tokens'[t] = tokens[t]
         /\ tokens'[Len(tokens) + 1] = row
<1>1. tokens' = Append(tokens, row) /\ tokens \in Seq(Token) /\ Len(tokens) < MaxTokens
  BY DEF Issue, AuthTypeOK
<1>2. QED BY <1>1, Appended, AuthAssumption DEF TokenId

(* callback: the row of its session, and a code that nobody had. *)
LEMMA CallbackStep ==
  ASSUME TypeInv, NEW r \in Request, CommitCallback(r)
  PROVE  LET s == req[r].session
             k == Len(minted) + 1
         IN /\ TypeInv'
            /\ s \in DOMAIN sessions
            /\ DOMAIN sessions' = DOMAIN sessions
            /\ \A i \in DOMAIN sessions \ {s} : sessions'[i] = sessions[i]
            /\ sessions'[s].code = k /\ sessions'[s].subject = req[r].user
            /\ sessions'[s].client = sessions[s].client
            /\ sessions'[s].status = "ready"
            /\ k \notin DOMAIN minted
            /\ DOMAIN minted' = DOMAIN minted \cup {k}
            /\ \A c \in DOMAIN minted : minted'[c] = minted[c]
            /\ minted'[k].session = s /\ minted'[k].user = req[r].user
            /\ \A q \in Request : req'[q] = IF q = r THEN Idle ELSE req[q]
<1> DEFINE s == req[r].session
           k == Len(minted) + 1
           row == Filled(sessions[s], req[r].user, k)
           mint == [session |-> s, user |-> req[r].user]
<1>1. s \in DOMAIN sessions /\ s \in SessionId /\ req[r].user \in User
  BY CallKinds DEF CommitCallback, TypeInv, PendingOK
<1>2. /\ minted \in Seq([session : SessionId, user : User])
      /\ mint \in [session : SessionId, user : User]
      /\ minted' = Append(minted, mint) /\ Len(minted) < MaxCodes
  BY <1>1 DEF CommitCallback, TypeInv, AuthTypeOK
<1>3. /\ minted' \in Seq([session : SessionId, user : User]) /\ Len(minted') <= MaxCodes
      /\ k \in Code /\ k \notin DOMAIN minted
      /\ DOMAIN minted' = DOMAIN minted \cup {k}
      /\ \A c \in DOMAIN minted : minted'[c] = minted[c]
      /\ minted'[k] = mint
  <2> HIDE DEF mint
  <2>1. QED BY <1>2, Appended, AuthAssumption DEF Code
<1>4. row \in Session
  <2>1. sessions[s] \in Session
    BY <1>1, Rows DEF TypeInv
  <2>2. QED BY <2>1, <1>1, <1>3 DEF Filled, Session
<1>5. sessions' = [sessions EXCEPT ![s] = row]
  BY <1>1 DEF CommitCallback
<1>6. /\ sessions' \in Seq(Session) /\ Len(sessions') = Len(sessions)
      /\ DOMAIN sessions' = DOMAIN sessions
      /\ \A i \in DOMAIN sessions : sessions'[i] = IF i = s THEN row ELSE sessions[i]
  <2> HIDE DEF row
  <2>1. QED BY <1>1, <1>4, <1>5, SessionStep DEF TypeInv
<1>7. /\ req' \in [Request -> Pending \cup {Idle}]
      /\ \A q \in Request : req'[q] = IF q = r THEN Idle ELSE req[q]
  BY OneCallEnds DEF CommitCallback, TypeInv
<1>8. AuthTypeOK'
  BY <1>3, <1>6, <1>7 DEF CommitCallback, TypeInv, AuthTypeOK
<1>9. PendingOK'
  <2>1. DOMAIN tokens' = DOMAIN tokens
    BY DEF CommitCallback
  <2>2. QED BY <1>3, <1>6, <1>7, <2>1, PendingStays DEF Idle
<1>10. /\ sessions'[s] = row
       /\ row.code = k /\ row.status = "ready" /\ row.subject = req[r].user
       /\ row.client = sessions[s].client
  BY <1>1, <1>6, Rows DEF Filled, Session, TypeInv
<1> HIDE DEF row
<1>11. NamedOK'
  <2>1. k # None /\ req[r].user # None
    BY <1>1, <1>3, AuthAssumption DEF Code
  <2>2. QED BY <1>6, <1>10, <2>1 DEF TypeInv, NamedOK
<1>12. QED BY <1>1, <1>3, <1>6, <1>7, <1>8, <1>9, <1>10, <1>11 DEF TypeInv

(* authorization_code: one row claimed, one token inserted. *)
Redeemed(r, s) ==
  LET g == Len(tokens) + 1
      k == req[r].code
  IN /\ k \in DOMAIN minted /\ k # None
     /\ sessions[s].code = k /\ sessions[s].status = "ready"
     /\ sessions[s].client = req[r].client
     /\ DOMAIN sessions' = DOMAIN sessions
     /\ \A i \in DOMAIN sessions :
          /\ sessions'[i].client = sessions[i].client
          /\ sessions'[i].code = sessions[i].code
          /\ sessions'[i].subject = sessions[i].subject
          /\ sessions'[i].status = IF i = s THEN "used" ELSE sessions[i].status
     /\ g \notin DOMAIN tokens /\ DOMAIN tokens' = DOMAIN tokens \cup {g}
     /\ \A t \in DOMAIN tokens : tokens'[t] = tokens[t]
     /\ tokens'[g].client = req[r].client /\ tokens'[g].subject = sessions[s].subject
     /\ tokens'[g].grant = g /\ tokens'[g].code = k /\ ~tokens'[g].revoked
     /\ UNCHANGED <<minted, doubled>>
     /\ \A q \in Request : req'[q] = IF q = r THEN Idle ELSE req[q]

LEMMA RedeemStep ==
  ASSUME TypeInv, NEW r \in Request, CommitRedeem(r)
  PROVE  TypeInv' /\ \E s \in DOMAIN sessions : Redeemed(r, s)
<1> DEFINE Row(s) == [client |-> req[r].client, subject |-> sessions[s].subject,
                      revoked |-> FALSE, expired |-> FALSE, grant |-> Len(tokens) + 1,
                      code |-> req[r].code]
           Used(s) == [sessions[s] EXCEPT !.status = "used"]
<1>1. PICK s \in DOMAIN sessions :
        /\ Claimable(sessions[s], req[r].code) /\ sessions[s].client = req[r].client
        /\ sessions' = [sessions EXCEPT ![s].status = "used"]
        /\ Issue(Row(s))
  BY DEF CommitRedeem
<1>2. /\ req[r].client \in Client /\ req[r].code \in Code /\ req[r].code \in DOMAIN minted
      /\ sessions[s] \in Session
  BY CallKinds, Rows DEF CommitRedeem, TypeInv, PendingOK
<1>3. sessions[s].code = req[r].code /\ req[r].code # None
  BY <1>1, <1>2, AuthAssumption DEF Claimable, Code
<1>4. sessions[s].subject \in User
  BY <1>2, <1>3 DEF TypeInv, NamedOK, Session
<1>5. Row(s) \in Token
  <2>1. Len(tokens) + 1 \in TokenId
    BY <1>1, LenProperties, AuthAssumption DEF Issue, TypeInv, AuthTypeOK, TokenId
  <2>2. QED BY <1>2, <1>4, <2>1 DEF Token
<1>6. Used(s) \in Session /\ sessions' = [sessions EXCEPT ![s] = Used(s)]
  BY <1>1, <1>2 DEF Session
<1>7. /\ sessions' \in Seq(Session) /\ Len(sessions') = Len(sessions)
      /\ DOMAIN sessions' = DOMAIN sessions
      /\ \A i \in DOMAIN sessions : sessions'[i] = IF i = s THEN Used(s) ELSE sessions[i]
  <2> HIDE DEF Used
  <2>1. QED BY <1>6, SessionStep DEF TypeInv
<1>8. /\ tokens' \in Seq(Token) /\ Len(tokens') <= MaxTokens
      /\ Len(tokens) + 1 \notin DOMAIN tokens
      /\ DOMAIN tokens' = DOMAIN tokens \cup {Len(tokens) + 1}
      /\ \A t \in DOMAIN tokens : tokens'[t] = tokens[t]
      /\ tokens'[Len(tokens) + 1] = Row(s)
  <2> HIDE DEF Row
  <2>1. QED BY <1>1, <1>5, TokenStep DEF TypeInv
<1>9. /\ req' \in [Request -> Pending \cup {Idle}]
      /\ \A q \in Request : req'[q] = IF q = r THEN Idle ELSE req[q]
  BY OneCallEnds DEF CommitRedeem, TypeInv
<1>10. UNCHANGED <<active, minted, doubled>>
  BY DEF CommitRedeem, Nobody
<1>11. AuthTypeOK'
  BY <1>7, <1>8, <1>9, <1>10 DEF TypeInv, AuthTypeOK
<1>12. PendingOK'
  BY <1>7, <1>8, <1>9, <1>10, PendingStays DEF Idle
<1>13. NamedOK'
  BY <1>1, <1>2, <1>3, <1>4, <1>7, AuthAssumption DEF TypeInv, NamedOK, Session
<1>14. \A i \in DOMAIN sessions :
         /\ sessions'[i].client = sessions[i].client
         /\ sessions'[i].code = sessions[i].code
         /\ sessions'[i].subject = sessions[i].subject
         /\ sessions'[i].status = IF i = s THEN "used" ELSE sessions[i].status
  BY <1>7, Rows DEF TypeInv, Session
<1>15. /\ Row(s).client = req[r].client /\ Row(s).subject = sessions[s].subject
       /\ Row(s).grant = Len(tokens) + 1 /\ Row(s).code = req[r].code /\ ~Row(s).revoked
  OBVIOUS
<1>16. Redeemed(r, s)
  <2> HIDE DEF Row, Used
  <2>1. QED
    BY <1>1, <1>2, <1>3, <1>7, <1>8, <1>9, <1>10, <1>14, <1>15 DEF Redeemed, Claimable
<1>17. QED BY <1>11, <1>12, <1>13, <1>16 DEF TypeInv

(* refresh_token: one token revoked, its successor inserted. *)
Alike(row, other) ==
  /\ row.client = other.client /\ row.subject = other.subject
  /\ row.grant = other.grant /\ row.code = other.code

LEMMA RefreshStep ==
  ASSUME TypeInv, NEW r \in Request, CommitRefresh(r)
  PROVE  LET t == req[r].token
             n == Len(tokens) + 1
         IN /\ TypeInv'
            /\ t \in DOMAIN tokens
            /\ n \notin DOMAIN tokens
            /\ DOMAIN tokens' = DOMAIN tokens \cup {n}
            /\ \A u \in DOMAIN tokens :
                 /\ Alike(tokens'[u], tokens[u])
                 /\ tokens'[u].revoked = (u = t \/ tokens[u].revoked)
            /\ Alike(tokens'[n], tokens[t]) /\ ~tokens'[n].revoked
            /\ \A q \in Request : req'[q] = IF q = r THEN Idle ELSE req[q]
<1> DEFINE t == req[r].token
           old == Revoked(tokens[t])
           new == [tokens[t] EXCEPT !.revoked = FALSE, !.expired = FALSE]
           before == [tokens EXCEPT ![t] = old]
<1>1. t \in DOMAIN tokens /\ tokens[t] \in Token
  BY Rows DEF CommitRefresh, TypeInv, PendingOK
<1>2. old \in Token /\ new \in Token
  BY <1>1 DEF Revoked, Token
<1>3. tokens' = Append(before, new) /\ Len(tokens) < MaxTokens
  BY <1>1 DEF CommitRefresh
<1>4. /\ before \in Seq(Token) /\ Len(before) = Len(tokens)
      /\ DOMAIN before = DOMAIN tokens
      /\ \A u \in DOMAIN tokens : before[u] = IF u = t THEN old ELSE tokens[u]
  <2> HIDE DEF old
  <2>1. QED BY <1>1, <1>2, Overwritten DEF TypeInv, AuthTypeOK
<1>5. /\ tokens' \in Seq(Token) /\ Len(tokens') = Len(tokens) + 1 /\ Len(tokens) \in Nat
      /\ Len(tokens) + 1 \notin DOMAIN tokens
      /\ DOMAIN tokens' = DOMAIN tokens \cup {Len(tokens) + 1}
      /\ \A u \in DOMAIN tokens : tokens'[u] = IF u = t THEN old ELSE tokens[u]
      /\ tokens'[Len(tokens) + 1] = new
  <2> HIDE DEF before, new, old
  <2>1. QED BY <1>2, <1>3, <1>4, Appended
<1>6. /\ req' \in [Request -> Pending \cup {Idle}]
      /\ \A q \in Request : req'[q] = IF q = r THEN Idle ELSE req[q]
  BY OneCallEnds DEF CommitRefresh, TypeInv
<1>7. UNCHANGED <<active, sessions, minted, doubled>>
  BY DEF CommitRefresh, Nobody
<1>8. AuthTypeOK'
  BY <1>3, <1>5, <1>6, <1>7, AuthAssumption DEF TypeInv, AuthTypeOK
<1>9. PendingOK'
  BY <1>5, <1>6, <1>7, PendingStays DEF Idle
<1>10. NamedOK'
  BY <1>7 DEF TypeInv, NamedOK
<1>11. /\ Alike(old, tokens[t]) /\ old.revoked
       /\ Alike(new, tokens[t]) /\ ~new.revoked
  BY <1>1 DEF Alike, Revoked, Token
<1>12. ASSUME NEW u \in DOMAIN tokens
       PROVE  /\ Alike(tokens'[u], tokens[u])
              /\ tokens'[u].revoked = (u = t \/ tokens[u].revoked)
  <2> HIDE DEF new, old
  <2>1. old.revoked = TRUE
    <3>1. old.revoked \in BOOLEAN
      BY <1>2 DEF Token
    <3>2. QED BY <3>1, <1>11
  <2>2. CASE u = t
    BY <2>1, <2>2, <1>5, <1>11
  <2>3. CASE u # t
    <3>1. tokens'[u] = tokens[u] /\ tokens[u].revoked \in BOOLEAN
      BY <2>3, <1>5, Rows DEF TypeInv, Token
    <3>2. QED BY <2>3, <3>1 DEF Alike
  <2>4. QED BY <2>2, <2>3
<1> HIDE DEF new, old
<1>13. QED BY <1>1, <1>5, <1>6, <1>8, <1>9, <1>10, <1>11, <1>12 DEF TypeInv

(* client_credentials: one token inserted. *)
LEMMA GrantStep ==
  ASSUME TypeInv, NEW r \in Request, CommitGrant(r)
  PROVE  LET g == Len(tokens) + 1
             c == req[r].client
         IN /\ TypeInv'
            /\ g \notin DOMAIN tokens
            /\ DOMAIN tokens' = DOMAIN tokens \cup {g}
            /\ \A t \in DOMAIN tokens : tokens'[t] = tokens[t]
            /\ tokens'[g].client = c /\ tokens'[g].subject = c /\ ~tokens'[g].revoked
            /\ tokens'[g].grant = g /\ tokens'[g].code = None
            /\ \A q \in Request : req'[q] = IF q = r THEN Idle ELSE req[q]
<1> DEFINE row == [client |-> req[r].client, subject |-> req[r].client, revoked |-> FALSE,
                   expired |-> FALSE, grant |-> Len(tokens) + 1, code |-> None]
<1>1. Issue(row) /\ req[r].client \in Client
  BY CallKinds DEF CommitGrant, TypeInv
<1>2. row \in Token
  <2>1. Len(tokens) + 1 \in TokenId
    BY <1>1, LenProperties, AuthAssumption DEF Issue, TypeInv, AuthTypeOK, TokenId
  <2>2. QED BY <1>1, <2>1 DEF Token
<1>3. /\ tokens' \in Seq(Token) /\ Len(tokens') <= MaxTokens
      /\ Len(tokens) + 1 \notin DOMAIN tokens
      /\ DOMAIN tokens' = DOMAIN tokens \cup {Len(tokens) + 1}
      /\ \A t \in DOMAIN tokens : tokens'[t] = tokens[t]
      /\ tokens'[Len(tokens) + 1] = row
  <2> HIDE DEF row
  <2>1. QED BY <1>1, <1>2, TokenStep DEF TypeInv
<1>4. /\ req' \in [Request -> Pending \cup {Idle}]
      /\ \A q \in Request : req'[q] = IF q = r THEN Idle ELSE req[q]
  BY OneCallEnds DEF CommitGrant, TypeInv
<1>5. UNCHANGED <<active, sessions, minted, doubled>>
  BY DEF CommitGrant, Nobody
<1>6. AuthTypeOK'
  BY <1>3, <1>4, <1>5 DEF TypeInv, AuthTypeOK
<1>7. PendingOK'
  BY <1>3, <1>4, <1>5, PendingStays DEF Idle
<1>8. NamedOK'
  BY <1>5 DEF TypeInv, NamedOK
<1>9. /\ row.client = req[r].client /\ row.subject = req[r].client /\ ~row.revoked
      /\ row.grant = Len(tokens) + 1 /\ row.code = None
  OBVIOUS
<1> HIDE DEF row
<1>10. QED BY <1>3, <1>4, <1>6, <1>7, <1>8, <1>9 DEF TypeInv

(* Time, and the removal of rows whose time has passed. *)
SessionsAge == Cleanup \/ \E s \in DOMAIN sessions : ExpireSession(s)

LEMMA SessionsAgeStep ==
  ASSUME TypeInv, SessionsAge
  PROVE  /\ TypeInv'
         /\ UNCHANGED <<tokens, minted, req, doubled>>
         /\ DOMAIN sessions' = DOMAIN sessions
         /\ \A s \in DOMAIN sessions :
              /\ sessions'[s].client = sessions[s].client
              /\ sessions'[s].status = sessions[s].status
              /\ sessions'[s].code = sessions[s].code
              /\ sessions'[s].subject = sessions[s].subject
<1> DEFINE Aged(t) == /\ sessions'[t] \in Session
                      /\ sessions'[t].client = sessions[t].client
                      /\ sessions'[t].status = sessions[t].status
                      /\ sessions'[t].code = sessions[t].code
                      /\ sessions'[t].subject = sessions[t].subject
<1>1. UNCHANGED <<active, tokens, minted, req, doubled>>
  BY DEF SessionsAge, Cleanup, ExpireSession, Nobody
<1>2. /\ sessions' \in Seq(Session) /\ Len(sessions') = Len(sessions)
      /\ DOMAIN sessions' = DOMAIN sessions
      /\ \A t \in DOMAIN sessions : Aged(t)
  <2>1. CASE Cleanup
    <3>1. /\ Len(sessions) \in Nat /\ DOMAIN sessions = 1..Len(sessions)
          /\ \A t \in DOMAIN sessions : sessions[t] \in Session
      BY Rows, LenProperties DEF TypeInv, AuthTypeOK
    <3>2. /\ DOMAIN sessions' = DOMAIN sessions
          /\ \A t \in DOMAIN sessions : Aged(t)
      BY <2>1, <3>1 DEF Cleanup, Session
    <3>3. sessions' \in [1..Len(sessions) -> Session]
      BY <2>1, <3>1, <3>2 DEF Cleanup
    <3>4. QED BY <3>1, <3>2, <3>3
  <2>2. ASSUME NEW s \in DOMAIN sessions, ExpireSession(s)
        PROVE  /\ sessions' \in Seq(Session) /\ Len(sessions') = Len(sessions)
               /\ DOMAIN sessions' = DOMAIN sessions
               /\ \A t \in DOMAIN sessions : Aged(t)
    <3> DEFINE row == [sessions[s] EXCEPT !.expired = TRUE]
    <3>1. row \in Session /\ sessions' = [sessions EXCEPT ![s] = row]
      BY <2>2, Rows DEF ExpireSession, Session, TypeInv
    <3>2. /\ sessions' \in Seq(Session) /\ Len(sessions') = Len(sessions)
          /\ DOMAIN sessions' = DOMAIN sessions
          /\ \A t \in DOMAIN sessions : sessions'[t] = IF t = s THEN row ELSE sessions[t]
      <4> HIDE DEF row
      <4>1. QED BY <3>1, SessionStep DEF TypeInv
    <3>3. QED BY <3>2, Rows DEF Session, TypeInv
  <2>3. QED BY <2>1, <2>2 DEF SessionsAge
<1>3. AuthTypeOK'
  BY <1>1, <1>2 DEF TypeInv, AuthTypeOK
<1>4. PendingOK'
  BY <1>1, <1>2 DEF TypeInv, PendingOK, Running
<1>5. NamedOK'
  BY <1>2 DEF TypeInv, NamedOK
<1>6. QED BY <1>1, <1>2, <1>3, <1>4, <1>5 DEF TypeInv

LEMMA TokenAgesStep ==
  ASSUME TypeInv, NEW t \in DOMAIN tokens, ExpireToken(t)
  PROVE  /\ TypeInv'
         /\ UNCHANGED <<sessions, minted, req, doubled>>
         /\ DOMAIN tokens' = DOMAIN tokens
         /\ \A u \in DOMAIN tokens :
              /\ tokens'[u].client = tokens[u].client
              /\ tokens'[u].subject = tokens[u].subject
              /\ tokens'[u].revoked = tokens[u].revoked
              /\ tokens'[u].grant = tokens[u].grant
              /\ tokens'[u].code = tokens[u].code
<1> DEFINE row == [tokens[t] EXCEPT !.expired = TRUE]
<1>1. row \in Token /\ tokens' = [tokens EXCEPT ![t] = row]
  BY Rows DEF ExpireToken, Token, TypeInv
<1>2. /\ tokens' \in Seq(Token) /\ Len(tokens') = Len(tokens)
      /\ DOMAIN tokens' = DOMAIN tokens
      /\ \A u \in DOMAIN tokens : tokens'[u] = IF u = t THEN row ELSE tokens[u]
  <2> HIDE DEF row
  <2>1. QED BY <1>1, Overwritten DEF TypeInv, AuthTypeOK
<1>3. UNCHANGED <<active, sessions, minted, req, doubled>>
  BY DEF ExpireToken, Nobody
<1>4. AuthTypeOK'
  BY <1>2, <1>3 DEF TypeInv, AuthTypeOK
<1>5. PendingOK'
  BY <1>2, <1>3 DEF TypeInv, PendingOK, Running
<1>6. NamedOK'
  BY <1>3 DEF TypeInv, NamedOK
<1>7. QED BY <1>2, <1>3, <1>4, <1>5, <1>6, Rows DEF Token, TypeInv

(* Requests that start, or end without a commit. *)
Called(r) ==
  \/ \E s \in DOMAIN sessions, u \in User : StartCallback(r, s, u)
  \/ \E c \in Client, code \in DOMAIN minted : StartRedeem(r, c, code)
  \/ \E t \in DOMAIN tokens : StartRefresh(r, t)
  \/ \E c \in Client : StartGrant(r, c)
  \/ Abandon(r)

LEMMA CallStep ==
  ASSUME TypeInv, NEW r \in Request, Called(r)
  PROVE  /\ TypeInv'
         /\ UNCHANGED <<sessions, tokens, minted>>
         /\ \A q \in Request \ {r} : req'[q] = req[q]
<1>1. ASSUME NEW s \in DOMAIN sessions, NEW u \in User, StartCallback(r, s, u)
      PROVE  /\ TypeInv'
             /\ \A q \in Request \ {r} : req'[q] = req[q]
  <2>1. [op |-> "callback", session |-> s, user |-> u] \in Pending \cup {Idle}
    BY Rows DEF Pending, TypeInv
  <2>2. doubled' \in [sessions : SUBSET SessionId, grants : SUBSET TokenId]
    BY <1>1, Rows DEF StartCallback, TypeInv, AuthTypeOK
  <2>3. QED BY <1>1, <2>1, <2>2, TablesAlone DEF StartCallback
<1>2. ASSUME NEW c \in Client, NEW code \in DOMAIN minted, StartRedeem(r, c, code)
      PROVE  /\ TypeInv'
             /\ \A q \in Request \ {r} : req'[q] = req[q]
  <2>1. [op |-> "redeem", client |-> c, code |-> code] \in Pending \cup {Idle}
    BY Rows DEF Pending, TypeInv
  <2>2. doubled' \in [sessions : SUBSET SessionId, grants : SUBSET TokenId]
    BY <1>2 DEF StartRedeem, Nobody, TypeInv, AuthTypeOK
  <2>3. QED BY <1>2, <2>1, <2>2, TablesAlone DEF StartRedeem, Nobody
<1>3. ASSUME NEW t \in DOMAIN tokens, StartRefresh(r, t)
      PROVE  /\ TypeInv'
             /\ \A q \in Request \ {r} : req'[q] = req[q]
  <2>1. [op |-> "refresh", token |-> t] \in Pending \cup {Idle}
    BY Rows DEF Pending, TypeInv
  <2>2. doubled' \in [sessions : SUBSET SessionId, grants : SUBSET TokenId]
    BY <1>3, Rows DEF StartRefresh, TypeInv, AuthTypeOK, Token
  <2>3. QED BY <1>3, <2>1, <2>2, TablesAlone DEF StartRefresh
<1>4. ASSUME NEW c \in Client, StartGrant(r, c)
      PROVE  /\ TypeInv'
             /\ \A q \in Request \ {r} : req'[q] = req[q]
  <2>1. [op |-> "grant", client |-> c] \in Pending \cup {Idle}
    BY DEF Pending
  <2>2. doubled' \in [sessions : SUBSET SessionId, grants : SUBSET TokenId]
    BY <1>4 DEF StartGrant, Nobody, TypeInv, AuthTypeOK
  <2>3. QED BY <1>4, <2>1, <2>2, TablesAlone DEF StartGrant, Nobody
<1>5. CASE Abandon(r)
  <2>1. Idle \in Pending \cup {Idle} /\ Idle.op = "idle"
    BY DEF Idle
  <2>2. doubled' \in [sessions : SUBSET SessionId, grants : SUBSET TokenId]
    BY <1>5 DEF Abandon, Nobody, TypeInv, AuthTypeOK
  <2>3. QED BY <1>5, <2>1, <2>2, TablesAlone DEF Abandon, Finish, Nobody
<1>6. UNCHANGED <<sessions, tokens, minted>>
  BY DEF Called, StartCallback, StartRedeem, StartRefresh, StartGrant, Abandon, Nobody
<1>7. QED BY <1>1, <1>2, <1>3, <1>4, <1>5, <1>6 DEF Called

LEMMA SetActiveStep ==
  ASSUME TypeInv, NEW c \in Client, SetActive(c)
  PROVE  TypeInv' /\ UNCHANGED <<sessions, tokens, minted, req, doubled>>
<1>1. active' \subseteq Client /\ UNCHANGED <<sessions, tokens, minted, req, doubled>>
  BY DEF SetActive, TypeInv, AuthTypeOK
<1>2. QED BY <1>1 DEF TypeInv, AuthTypeOK, PendingOK, NamedOK, Running

(* Every step is one of the above. *)
LEMMA Steps ==
  ASSUME [Next]_vars
  PROVE  \/ \E c \in Client : SetActive(c) \/ Authorize(c)
         \/ SessionsAge
         \/ \E t \in DOMAIN tokens : ExpireToken(t)
         \/ \E r \in Request : \/ Called(r) \/ CommitCallback(r) \/ CommitRedeem(r)
                               \/ CommitRefresh(r) \/ CommitGrant(r)
         \/ UNCHANGED vars
BY DEF Next, SessionsAge, Called

------------------------------------------------------------------------------
(* Type correctness *)

LEMMA InitTypeInv == Init => TypeInv
<1> SUFFICES ASSUME Init PROVE TypeInv
  OBVIOUS
<1>1. /\ sessions \in Seq(Session) /\ tokens \in Seq(Token)
      /\ minted \in Seq([session : SessionId, user : User])
      /\ Len(sessions) = 0 /\ Len(tokens) = 0 /\ Len(minted) = 0
      /\ DOMAIN sessions = {}
  BY EmptySeq DEF Init
<1>2. AuthTypeOK
  BY <1>1, AuthAssumption DEF Init, AuthTypeOK
<1>3. PendingOK /\ NamedOK
  BY <1>1 DEF Init, PendingOK, NamedOK, Running, Idle
<1>4. QED BY <1>2, <1>3 DEF TypeInv

LEMMA TypeInvStep == TypeInv /\ [Next]_vars => TypeInv'
<1> SUFFICES ASSUME TypeInv, [Next]_vars PROVE TypeInv'
  OBVIOUS
<1>1. CASE \E c \in Client : SetActive(c) \/ Authorize(c)
  BY <1>1, SetActiveStep, AuthorizeStep
<1>2. CASE SessionsAge \/ \E t \in DOMAIN tokens : ExpireToken(t)
  BY <1>2, SessionsAgeStep, TokenAgesStep
<1>3. ASSUME NEW r \in Request, Called(r) PROVE TypeInv'
  BY <1>3, CallStep
<1>4. ASSUME NEW r \in Request, CommitCallback(r) \/ CommitRedeem(r) PROVE TypeInv'
  BY <1>4, CallbackStep, RedeemStep
<1>5. ASSUME NEW r \in Request, CommitRefresh(r) \/ CommitGrant(r) PROVE TypeInv'
  BY <1>5, RefreshStep, GrantStep
<1>6. CASE UNCHANGED vars
  BY <1>6 DEF vars, TypeInv, AuthTypeOK, PendingOK, NamedOK, Running
<1>7. QED BY <1>1, <1>2, <1>3, <1>4, <1>5, <1>6, Steps

LEMMA TypeInvHolds == Spec => []TypeInv
BY InitTypeInv, TypeInvStep, PTL DEF Spec

(* The variables keep their types: for every number of clients, users and requests. *)
THEOREM AuthTypesHold == Spec => []AuthTypeOK
BY TypeInvHolds, PTL DEF TypeInv

------------------------------------------------------------------------------
(* Whom a token speaks for *)

(* A code is known to its callback, its session and the tokens it was turned into. *)
CodesOK ==
  /\ \A s \in DOMAIN sessions :
       sessions[s].code # None =>
         /\ sessions[s].code \in DOMAIN minted
         /\ minted[sessions[s].code].session = s
         /\ minted[sessions[s].code].user = sessions[s].subject
  /\ \A k \in DOMAIN minted : minted[k].session \in DOMAIN sessions
  /\ \A t \in DOMAIN tokens :
       /\ tokens[t].code # None => tokens[t].code \in DOMAIN minted
       /\ tokens[t].grant \in DOMAIN tokens

WhoseInv == TypeInv /\ CodesOK /\ TokensNameTheirUser

LEMMA WhoseInvStep == WhoseInv /\ [Next]_vars => WhoseInv'
<1> SUFFICES ASSUME WhoseInv, [Next]_vars PROVE CodesOK' /\ TokensNameTheirUser'
  BY TypeInvStep DEF WhoseInv
<1>a. TypeInv
  BY DEF WhoseInv
<1>1. ASSUME NEW c \in Client, SetActive(c) PROVE CodesOK' /\ TokensNameTheirUser'
  BY <1>a, <1>1, SetActiveStep DEF WhoseInv, CodesOK, TokensNameTheirUser
<1>2. ASSUME NEW c \in Client, Authorize(c) PROVE CodesOK' /\ TokensNameTheirUser'
  <2>1. UNCHANGED <<tokens, minted>>
    BY <1>2 DEF Authorize, Nobody
  <2>2. QED BY <1>a, <1>2, <2>1, AuthorizeStep DEF WhoseInv, CodesOK, TokensNameTheirUser
<1>3. CASE SessionsAge
  BY <1>a, <1>3, SessionsAgeStep DEF WhoseInv, CodesOK, TokensNameTheirUser
<1>4. ASSUME NEW t \in DOMAIN tokens, ExpireToken(t)
      PROVE  CodesOK' /\ TokensNameTheirUser'
  BY <1>a, <1>4, TokenAgesStep DEF WhoseInv, CodesOK, TokensNameTheirUser
<1>5. ASSUME NEW r \in Request, Called(r) PROVE CodesOK' /\ TokensNameTheirUser'
  BY <1>a, <1>5, CallStep DEF WhoseInv, CodesOK, TokensNameTheirUser
<1>6. ASSUME NEW r \in Request, CommitCallback(r) PROVE CodesOK' /\ TokensNameTheirUser'
  <2> DEFINE s == req[r].session
             k == Len(minted) + 1
  <2>1. /\ sessions'[s].code = k /\ sessions'[s].subject = req[r].user
        /\ sessions'[s].client = sessions[s].client
    BY <1>a, <1>6, CallbackStep
  <2>2. UNCHANGED tokens
    BY <1>6 DEF CommitCallback
  <2>3. /\ s \in DOMAIN sessions /\ DOMAIN sessions' = DOMAIN sessions
        /\ \A i \in DOMAIN sessions \ {s} : sessions'[i] = sessions[i]
        /\ k \notin DOMAIN minted /\ DOMAIN minted' = DOMAIN minted \cup {k}
        /\ \A c \in DOMAIN minted : minted'[c] = minted[c]
        /\ minted'[k].session = s /\ minted'[k].user = req[r].user
    BY <1>a, <1>6, CallbackStep
  <2> HIDE DEF s, k
  <2>4. CodesOK'
    BY <2>1, <2>2, <2>3 DEF WhoseInv, CodesOK
  <2>5. TokensNameTheirUser'
    BY <2>1, <2>2, <2>3 DEF WhoseInv, CodesOK, TokensNameTheirUser
  <2>6. QED BY <2>4, <2>5
<1>7. ASSUME NEW r \in Request, CommitRedeem(r) PROVE CodesOK' /\ TokensNameTheirUser'
  <2>1. PICK s \in DOMAIN sessions : Redeemed(r, s)
    BY <1>a, <1>7, RedeemStep
  <2>2. minted[req[r].code].session = s /\ minted[req[r].code].user = sessions[s].subject
    BY <2>1 DEF Redeemed, WhoseInv, CodesOK
  <2>3. CodesOK'
    BY <2>1 DEF Redeemed, WhoseInv, CodesOK
  <2>4. TokensNameTheirUser'
    BY <2>1, <2>2 DEF Redeemed, WhoseInv, CodesOK, TokensNameTheirUser
  <2>5. QED BY <2>3, <2>4
<1>8. ASSUME NEW r \in Request, CommitRefresh(r) PROVE CodesOK' /\ TokensNameTheirUser'
  <2>1. UNCHANGED <<sessions, minted>>
    BY <1>8 DEF CommitRefresh, Nobody
  <2>2. DOMAIN tokens \subseteq DOMAIN tokens'
    BY <1>a, <1>8, RefreshStep
  <2>3. \A t \in DOMAIN tokens' : \E u \in DOMAIN tokens : Alike(tokens'[t], tokens[u])
    BY <1>a, <1>8, RefreshStep
  <2>4. CodesOK'
    BY <2>1, <2>2, <2>3 DEF WhoseInv, CodesOK, Alike
  <2>5. TokensNameTheirUser'
    BY <2>1, <2>3 DEF WhoseInv, TokensNameTheirUser, Alike
  <2>6. QED BY <2>4, <2>5
<1>9. ASSUME NEW r \in Request, CommitGrant(r) PROVE CodesOK' /\ TokensNameTheirUser'
  <2>1. UNCHANGED <<sessions, minted>>
    BY <1>9 DEF CommitGrant, Nobody
  <2>2. CodesOK'
    BY <1>a, <1>9, <2>1, GrantStep DEF WhoseInv, CodesOK
  <2>3. TokensNameTheirUser'
    BY <1>a, <1>9, <2>1, GrantStep DEF WhoseInv, TokensNameTheirUser
  <2>4. QED BY <2>2, <2>3
<1>10. CASE UNCHANGED vars
  BY <1>10 DEF vars, WhoseInv, CodesOK, TokensNameTheirUser
<1>11. QED
  BY <1>1, <1>2, <1>3, <1>4, <1>5, <1>6, <1>7, <1>8, <1>9, <1>10, Steps

LEMMA InitWhoseInv == Init => WhoseInv
<1> SUFFICES ASSUME Init PROVE CodesOK /\ TokensNameTheirUser
  BY InitTypeInv DEF WhoseInv
<1>1. DOMAIN sessions = {} /\ DOMAIN tokens = {} /\ DOMAIN minted = {}
  BY DEF Init
<1>2. QED BY <1>1 DEF CodesOK, TokensNameTheirUser

LEMMA WhoseInvHolds == Spec => []WhoseInv
BY InitWhoseInv, WhoseInvStep, PTL DEF Spec

(* A token speaks for the user whom OpenShift named in the callback that minted its code. *)
THEOREM TokensSpeakForTheirUser == Spec => []TokensNameTheirUser
BY WhoseInvHolds, PTL DEF WhoseInv

------------------------------------------------------------------------------
(* Codes *)

(* A callback that is alone with its session finds it as it read it; a code that was turned
   into a token is not lying about, and its session gives no other while callbacks for it
   come one at a time. *)
AloneOK ==
  \A r \in Request :
    Running(r, "callback") /\ req[r].session \notin doubled.sessions =>
      /\ sessions[req[r].session].status = "pending"
      /\ \A q \in Request :
           Running(q, "callback") /\ req[q].session = req[r].session => q = r

SpentOK ==
  \A g \in Grants :
    tokens[g].code # None =>
      /\ \A s \in DOMAIN sessions :
           sessions[s].code = tokens[g].code => sessions[s].status = "used"
      /\ LET s == minted[tokens[g].code].session
         IN s \notin doubled.sessions => sessions[s].status = "used"

SpentInv == WhoseInv /\ AloneOK /\ SpentOK /\ CodesAreSpentOnce

(* The invariant speaks of little: steps that keep it all keep the invariant. *)
LEMMA SpentStays ==
  ASSUME SpentInv,
         DOMAIN sessions \subseteq DOMAIN sessions',
         \A s \in DOMAIN sessions : /\ sessions'[s].status = sessions[s].status
                                   /\ sessions'[s].code = sessions[s].code,
         \A s \in DOMAIN sessions' \ DOMAIN sessions : sessions'[s].code = None,
         UNCHANGED minted,
         doubled.sessions \subseteq doubled'.sessions,
         \A g \in Grants' : tokens'[g].code # None =>
                              g \in Grants /\ tokens'[g].code = tokens[g].code
  PROVE  SpentOK' /\ CodesAreSpentOnce'
<1>1. \A g \in Grants : tokens[g].code # None =>
        /\ tokens[g].code \in DOMAIN minted
        /\ minted[tokens[g].code].session \in DOMAIN sessions
  BY DEF SpentInv, WhoseInv, CodesOK, Grants
<1>2. SpentOK'
  BY <1>1 DEF SpentInv, SpentOK
<1>3. CodesAreSpentOnce'
  BY DEF SpentInv, CodesAreSpentOnce
<1>4. QED BY <1>2, <1>3

LEMMA AloneStays ==
  ASSUME SpentInv,
         \A s \in DOMAIN sessions : sessions'[s].status = sessions[s].status,
         doubled.sessions \subseteq doubled'.sessions,
         \A q \in Request : Running(q, "callback")' => req'[q] = req[q]
  PROVE  AloneOK'
BY DEF SpentInv, WhoseInv, TypeInv, PendingOK, AloneOK, Running

LEMMA CallbackStarts ==
  ASSUME TypeInv, NEW r \in Request, NEW s \in DOMAIN sessions, NEW u \in User,
         StartCallback(r, s, u)
  PROVE  /\ sessions[s].status = "pending"
         /\ doubled.sessions \subseteq doubled'.sessions /\ doubled'.grants = doubled.grants
         /\ s \in doubled'.sessions \/ AwaitsCallbackOf(s) = {}
         /\ \A q \in Request : req'[q] = IF q = r THEN [op |-> "callback", session |-> s, user |-> u]
                                ELSE req[q]
         /\ UNCHANGED <<sessions, tokens, minted>>
<1>1. doubled \in [sessions : SUBSET SessionId, grants : SUBSET TokenId]
  BY DEF TypeInv, AuthTypeOK
<1>2. /\ doubled.sessions \subseteq doubled'.sessions /\ doubled'.grants = doubled.grants
      /\ s \in doubled'.sessions \/ AwaitsCallbackOf(s) = {}
  <2>1. CASE AwaitsCallbackOf(s) = {}
    BY <2>1 DEF StartCallback
  <2>2. CASE AwaitsCallbackOf(s) # {}
    BY <1>1, <2>2 DEF StartCallback
  <2>3. QED BY <2>1, <2>2
<1>3. QED BY <1>2 DEF StartCallback, Become, TypeInv, AuthTypeOK

LEMMA SpentInvStep == SpentInv /\ [Next]_vars => SpentInv'
<1> SUFFICES ASSUME SpentInv, [Next]_vars PROVE AloneOK' /\ SpentOK' /\ CodesAreSpentOnce'
  BY WhoseInvStep DEF SpentInv
<1>a. TypeInv /\ WhoseInv
  BY DEF SpentInv, WhoseInv
<1>1. ASSUME NEW c \in Client, SetActive(c)
      PROVE  AloneOK' /\ SpentOK' /\ CodesAreSpentOnce'
  BY <1>a, <1>1, SetActiveStep, SpentStays, AloneStays DEF Grants
<1>2. ASSUME NEW c \in Client, Authorize(c)
      PROVE  AloneOK' /\ SpentOK' /\ CodesAreSpentOnce'
  <2>1. UNCHANGED <<tokens, minted, req, doubled>>
    BY <1>2 DEF Authorize, Nobody
  <2>2. QED BY <1>a, <1>2, <2>1, AuthorizeStep, SpentStays, AloneStays DEF Grants
<1>3. CASE SessionsAge
  BY <1>a, <1>3, SessionsAgeStep, SpentStays, AloneStays DEF Grants
<1>4. ASSUME NEW t \in DOMAIN tokens, ExpireToken(t)
      PROVE  AloneOK' /\ SpentOK' /\ CodesAreSpentOnce'
  BY <1>a, <1>4, TokenAgesStep, SpentStays, AloneStays DEF Grants
<1>5. ASSUME NEW r \in Request, Called(r)
      PROVE  AloneOK' /\ SpentOK' /\ CodesAreSpentOnce'
  <2>1. ASSUME NEW s \in DOMAIN sessions, NEW u \in User, StartCallback(r, s, u)
        PROVE  AloneOK' /\ SpentOK' /\ CodesAreSpentOnce'
    <3>1. SpentOK' /\ CodesAreSpentOnce'
      BY <1>a, <2>1, CallbackStarts, SpentStays DEF Grants
    <3>2. AloneOK'
      <4> DEFINE call == [op |-> "callback", session |-> s, user |-> u]
      <4>1. \A q \in Request : req'[q] = IF q = r THEN call ELSE req[q]
        BY <1>a, <2>1, CallbackStarts
      <4>2. call.session = s
        OBVIOUS
      <4>3. s \in doubled'.sessions \/
              \A q \in Request : Running(q, "callback") => req[q].session # s
        BY <1>a, <2>1, CallbackStarts DEF AwaitsCallbackOf
      <4>4. /\ sessions[s].status = "pending" /\ UNCHANGED sessions
            /\ doubled.sessions \subseteq doubled'.sessions
        BY <1>a, <2>1, CallbackStarts
      <4> HIDE DEF call
      <4>5. QED BY <4>1, <4>2, <4>3, <4>4 DEF SpentInv, AloneOK, Running
    <3>3. QED BY <3>1, <3>2
  <2>2. ASSUME \/ \E c \in Client, code \in DOMAIN minted : StartRedeem(r, c, code)
               \/ \E c \in Client : StartGrant(r, c)
               \/ Abandon(r)
        PROVE  AloneOK' /\ SpentOK' /\ CodesAreSpentOnce'
    <3>1. UNCHANGED <<sessions, tokens, minted, doubled>>
      BY <2>2 DEF StartRedeem, StartGrant, Abandon, Nobody
    <3>2. \A q \in Request : Running(q, "callback")' => req'[q] = req[q]
      BY <1>a, <2>2 DEF StartRedeem, StartGrant, Abandon, Finish, Become, Idle, Running,
                        TypeInv, AuthTypeOK
    <3>3. QED BY <3>1, <3>2, SpentStays, AloneStays DEF Grants
  <2>3. ASSUME NEW t \in DOMAIN tokens, StartRefresh(r, t)
        PROVE  AloneOK' /\ SpentOK' /\ CodesAreSpentOnce'
    <3>1. UNCHANGED <<sessions, tokens, minted>>
      BY <2>3 DEF StartRefresh
    <3>2. doubled.sessions \subseteq doubled'.sessions
      BY <1>a, <2>3 DEF StartRefresh, TypeInv, AuthTypeOK
    <3>3. \A q \in Request : Running(q, "callback")' => req'[q] = req[q]
      BY <1>a, <2>3 DEF StartRefresh, Become, Running, TypeInv, AuthTypeOK
    <3>4. QED BY <3>1, <3>2, <3>3, SpentStays, AloneStays DEF Grants
  <2>4. QED BY <1>5, <2>1, <2>2, <2>3 DEF Called
<1>6. ASSUME NEW r \in Request, CommitCallback(r)
      PROVE  AloneOK' /\ SpentOK' /\ CodesAreSpentOnce'
  <2> DEFINE s == req[r].session
             k == Len(minted) + 1
  <2>1. UNCHANGED <<tokens, doubled>> /\ Running(r, "callback")
    BY <1>6 DEF CommitCallback
  <2>2. /\ s \in DOMAIN sessions /\ DOMAIN sessions' = DOMAIN sessions
        /\ \A i \in DOMAIN sessions \ {s} : sessions'[i] = sessions[i]
        /\ sessions'[s].code = k
        /\ k \notin DOMAIN minted /\ DOMAIN minted' = DOMAIN minted \cup {k}
        /\ \A c \in DOMAIN minted : minted'[c] = minted[c]
        /\ \A q \in Request : req'[q] = IF q = r THEN Idle ELSE req[q]
    BY <1>a, <1>6, CallbackStep
  <2>3. \A g \in Grants : tokens[g].code # None =>
          /\ tokens[g].code \in DOMAIN minted
          /\ minted[tokens[g].code].session \in DOMAIN sessions
          /\ minted'[tokens[g].code] = minted[tokens[g].code]
    BY <1>a, <2>2 DEF WhoseInv, CodesOK, Grants
  <2>4. s \notin doubled.sessions =>
          /\ sessions[s].status = "pending"
          /\ \A q \in Request : Running(q, "callback") /\ req[q].session = s => q = r
    BY <2>1 DEF SpentInv, AloneOK
  <2> HIDE DEF k
  <2>5. AloneOK'
    <3> SUFFICES ASSUME NEW q \in Request, Running(q, "callback")',
                        req'[q].session \notin doubled.sessions
                 PROVE  /\ sessions'[req'[q].session].status = "pending"
                        /\ \A p \in Request :
                             /\ Running(p, "callback")'
                             /\ req'[p].session = req'[q].session
                             => p = q
      BY <2>1 DEF AloneOK, Running
    <3>1. q # r /\ req'[q] = req[q] /\ Running(q, "callback")
      BY <2>2 DEF Running, Idle
    <3>2. req[q].session # s /\ req[q].session \in DOMAIN sessions
      BY <1>a, <2>4, <3>1 DEF TypeInv, PendingOK
    <3>3. \A p \in Request : Running(p, "callback")' => req'[p] = req[p] /\ Running(p, "callback")
      BY <2>2 DEF Running, Idle
    <3>4. QED BY <2>2, <3>1, <3>2, <3>3 DEF SpentInv, AloneOK
  <2>6. SpentOK'
    <3> SUFFICES ASSUME NEW g \in Grants, tokens[g].code # None
                 PROVE  /\ \A i \in DOMAIN sessions' :
                             sessions'[i].code = tokens[g].code => sessions'[i].status = "used"
                        /\ LET i == minted'[tokens[g].code].session
                           IN i \notin doubled.sessions => sessions'[i].status = "used"
      BY <2>1 DEF SpentOK, Grants
    <3>1. tokens[g].code # k
      BY <2>2, <2>3
    <3>2. \A i \in DOMAIN sessions' :
            sessions'[i].code = tokens[g].code => sessions'[i].status = "used"
      BY <2>2, <3>1 DEF SpentInv, SpentOK
    <3>3. LET i == minted'[tokens[g].code].session
          IN i \notin doubled.sessions => sessions'[i].status = "used"
      BY <2>2, <2>3, <2>4 DEF SpentInv, SpentOK
    <3>4. QED BY <3>2, <3>3
  <2>7. CodesAreSpentOnce'
    BY <2>1, <2>3 DEF SpentInv, CodesAreSpentOnce, Grants
  <2>8. QED BY <2>5, <2>6, <2>7
<1>7. ASSUME NEW r \in Request, CommitRedeem(r)
      PROVE  AloneOK' /\ SpentOK' /\ CodesAreSpentOnce'
  <2>1. PICK s \in DOMAIN sessions : Redeemed(r, s)
    BY <1>a, <1>7, RedeemStep
  <2> DEFINE new == Len(tokens) + 1
             k == req[r].code
  <2>2. Grants' = Grants \cup {new} /\ new \notin Grants
    BY <2>1 DEF Redeemed, Grants
  <2>3. minted[k].session = s
    BY <1>a, <2>1 DEF Redeemed, WhoseInv, CodesOK
  <2>4. \A g \in Grants : tokens[g].code # None =>
          /\ tokens[g].code \in DOMAIN minted
          /\ minted[tokens[g].code].session \in DOMAIN sessions
          /\ tokens[g].code # k
          /\ minted[tokens[g].code].session = s => s \in doubled.sessions
    BY <1>a, <2>1 DEF Redeemed, SpentInv, SpentOK, WhoseInv, CodesOK, Grants
  <2>5. \A g \in Grants : tokens'[g] = tokens[g]
    BY <2>1 DEF Redeemed, Grants
  <2>6. /\ tokens'[new].code = k /\ UNCHANGED <<minted, doubled>>
        /\ DOMAIN sessions' = DOMAIN sessions
        /\ \A i \in DOMAIN sessions :
             /\ sessions'[i].code = sessions[i].code
             /\ sessions'[i].status = IF i = s THEN "used" ELSE sessions[i].status
    BY <2>1 DEF Redeemed
  <2>7. AloneOK'
    <3> SUFFICES ASSUME NEW q \in Request, Running(q, "callback")',
                        req'[q].session \notin doubled.sessions
                 PROVE  /\ sessions'[req'[q].session].status = "pending"
                        /\ \A p \in Request :
                             /\ Running(p, "callback")'
                             /\ req'[p].session = req'[q].session
                             => p = q
      BY <2>6 DEF AloneOK, Running
    <3>1. \A p \in Request : Running(p, "callback")' => req'[p] = req[p] /\ Running(p, "callback")
      BY <2>1 DEF Redeemed, Running, Idle
    <3>2. sessions[req[q].session].status = "pending" /\ req[q].session \in DOMAIN sessions
      BY <1>a, <3>1 DEF SpentInv, AloneOK, TypeInv, PendingOK
    <3>3. req[q].session # s
      BY <2>1, <3>2 DEF Redeemed
    <3>4. QED BY <2>6, <3>1, <3>2, <3>3 DEF SpentInv, AloneOK
  <2>8. SpentOK'
    <3> SUFFICES ASSUME NEW g \in Grants', tokens'[g].code # None
                 PROVE  /\ \A i \in DOMAIN sessions' :
                             sessions'[i].code = tokens'[g].code => sessions'[i].status = "used"
                        /\ LET i == minted[tokens'[g].code].session
                           IN i \notin doubled.sessions => sessions'[i].status = "used"
      BY <2>6 DEF SpentOK
    <3>1. CASE g = new
      <4>1. \A i \in DOMAIN sessions : sessions[i].code = k => i = s
        BY <1>a, <2>1, <2>3 DEF Redeemed, WhoseInv, CodesOK
      <4>2. QED BY <2>3, <2>6, <3>1, <4>1
    <3>2. CASE g \in Grants
      BY <2>4, <2>5, <2>6, <3>2 DEF SpentInv, SpentOK
    <3>3. QED BY <2>2, <3>1, <3>2
  <2>9. CodesAreSpentOnce'
    <3> SUFFICES ASSUME NEW g \in Grants', NEW h \in Grants', g # h,
                        tokens'[g].code # None, tokens'[h].code # None
                 PROVE  /\ tokens'[g].code # tokens'[h].code
                        /\ minted[tokens'[g].code].session = minted[tokens'[h].code].session =>
                             minted[tokens'[g].code].session \in doubled.sessions
      BY <2>6 DEF CodesAreSpentOnce
    <3>1. CASE g \in Grants /\ h \in Grants
      BY <2>5, <3>1 DEF SpentInv, CodesAreSpentOnce
    <3>2. CASE g = new /\ h \in Grants
      BY <2>3, <2>4, <2>5, <2>6, <3>2
    <3>3. CASE g \in Grants /\ h = new
      BY <2>3, <2>4, <2>5, <2>6, <3>3
    <3>4. QED BY <2>2, <3>1, <3>2, <3>3
  <2>10. QED BY <2>7, <2>8, <2>9
<1>8. ASSUME NEW r \in Request, CommitRefresh(r)
      PROVE  AloneOK' /\ SpentOK' /\ CodesAreSpentOnce'
  <2>1. UNCHANGED <<sessions, minted, doubled>>
    BY <1>8 DEF CommitRefresh, Nobody
  <2>2. \A q \in Request : Running(q, "callback")' => req'[q] = req[q]
    BY <1>a, <1>8, RefreshStep DEF Running, Idle
  <2>3. \A g \in Grants' : g \in Grants /\ tokens'[g].code = tokens[g].code
    BY <1>a, <1>8, RefreshStep DEF Grants, Alike, WhoseInv, CodesOK
  <2>4. QED BY <2>1, <2>2, <2>3, SpentStays, AloneStays
<1>9. ASSUME NEW r \in Request, CommitGrant(r)
      PROVE  AloneOK' /\ SpentOK' /\ CodesAreSpentOnce'
  <2>1. UNCHANGED <<sessions, minted, doubled>>
    BY <1>9 DEF CommitGrant, Nobody
  <2>2. \A q \in Request : Running(q, "callback")' => req'[q] = req[q]
    BY <1>a, <1>9, GrantStep DEF Running, Idle
  <2>3. \A g \in Grants' : tokens'[g].code # None =>
          g \in Grants /\ tokens'[g].code = tokens[g].code
    BY <1>a, <1>9, GrantStep DEF Grants
  <2>4. QED BY <2>1, <2>2, <2>3, SpentStays, AloneStays
<1>10. CASE UNCHANGED vars
  BY <1>10, SpentStays, AloneStays DEF vars, Grants
<1>11. QED
  BY <1>1, <1>2, <1>3, <1>4, <1>5, <1>6, <1>7, <1>8, <1>9, <1>10, Steps

LEMMA InitSpentInv == Init => SpentInv
<1> SUFFICES ASSUME Init PROVE AloneOK /\ SpentOK /\ CodesAreSpentOnce
  BY InitWhoseInv DEF SpentInv
<1>1. Grants = {} /\ \A r \in Request : ~Running(r, "callback")
  BY DEF Init, Grants, Running, Idle
<1>2. QED BY <1>1 DEF AloneOK, SpentOK, CodesAreSpentOnce

(* A code is turned into one line of tokens, and a session into one line while callbacks
   for it come one at a time. *)
THEOREM CodesSpentOnce == Spec => []CodesAreSpentOnce
BY InitSpentInv, SpentInvStep, PTL DEF Spec, SpentInv

------------------------------------------------------------------------------
(* Refresh tokens *)

(* A refresh that is alone with its token finds it as it read it. *)
FreshOK ==
  \A r \in Request :
    Running(r, "refresh") /\ tokens[req[r].token].grant \notin doubled.grants =>
      /\ ~tokens[req[r].token].revoked
      /\ \A q \in Request :
           Running(q, "refresh") /\ req[q].token = req[r].token => q = r

LiveInv == WhoseInv /\ FreshOK /\ GrantsHaveOneLiveToken

(* Steps that leave the tokens that there were as they were, add none to a line that there
   is, and start no refresh. *)
LEMMA LiveStays ==
  ASSUME LiveInv,
         DOMAIN tokens \subseteq DOMAIN tokens',
         \A t \in DOMAIN tokens : /\ tokens'[t].revoked = tokens[t].revoked
                                 /\ tokens'[t].grant = tokens[t].grant,
         \A t, u \in DOMAIN tokens' :
           t # u /\ tokens'[t].grant = tokens'[u].grant => t \in DOMAIN tokens,
         doubled.grants \subseteq doubled'.grants,
         \A q \in Request : Running(q, "refresh")' => req'[q] = req[q]
  PROVE  FreshOK' /\ GrantsHaveOneLiveToken'
<1>1. FreshOK'
  BY DEF LiveInv, WhoseInv, TypeInv, PendingOK, FreshOK, Running
<1>2. GrantsHaveOneLiveToken'
  BY DEF LiveInv, GrantsHaveOneLiveToken
<1>3. QED BY <1>1, <1>2

LEMMA RefreshStarts ==
  ASSUME TypeInv, NEW r \in Request, NEW t \in DOMAIN tokens, StartRefresh(r, t)
  PROVE  /\ ~tokens[t].revoked
         /\ doubled.grants \subseteq doubled'.grants
         /\ tokens[t].grant \in doubled'.grants \/ Refreshing(t) = {}
         /\ \A q \in Request : req'[q] = IF q = r THEN [op |-> "refresh", token |-> t]
                                ELSE req[q]
         /\ UNCHANGED <<sessions, tokens, minted>>
<1>1. doubled \in [sessions : SUBSET SessionId, grants : SUBSET TokenId]
  BY DEF TypeInv, AuthTypeOK
<1>2. CASE Refreshing(t) = {}
  BY <1>2 DEF StartRefresh, Usable, Become, TypeInv, AuthTypeOK
<1>3. CASE Refreshing(t) # {}
  <2>1. doubled' = [doubled EXCEPT !.grants = @ \cup {tokens[t].grant}]
    BY <1>3 DEF StartRefresh
  <2>2. doubled.grants \subseteq doubled'.grants /\ tokens[t].grant \in doubled'.grants
    BY <1>1, <2>1
  <2>3. QED BY <2>2 DEF StartRefresh, Usable, Become, TypeInv, AuthTypeOK
<1>4. QED BY <1>2, <1>3

LEMMA LiveInvStep == LiveInv /\ [Next]_vars => LiveInv'
<1> SUFFICES ASSUME LiveInv, [Next]_vars PROVE FreshOK' /\ GrantsHaveOneLiveToken'
  BY WhoseInvStep DEF LiveInv
<1>a. TypeInv /\ WhoseInv
  BY DEF LiveInv, WhoseInv
<1>1. ASSUME NEW c \in Client, SetActive(c) PROVE FreshOK' /\ GrantsHaveOneLiveToken'
  BY <1>a, <1>1, SetActiveStep, LiveStays
<1>2. ASSUME NEW c \in Client, Authorize(c) PROVE FreshOK' /\ GrantsHaveOneLiveToken'
  <2>1. UNCHANGED <<tokens, req, doubled>>
    BY <1>2 DEF Authorize, Nobody
  <2>2. QED BY <2>1, LiveStays
<1>3. CASE SessionsAge
  BY <1>a, <1>3, SessionsAgeStep, LiveStays
<1>4. ASSUME NEW t \in DOMAIN tokens, ExpireToken(t)
      PROVE  FreshOK' /\ GrantsHaveOneLiveToken'
  BY <1>a, <1>4, TokenAgesStep, LiveStays
<1>5. ASSUME NEW r \in Request, Called(r) PROVE FreshOK' /\ GrantsHaveOneLiveToken'
  <2>1. ASSUME NEW t \in DOMAIN tokens, StartRefresh(r, t)
        PROVE  FreshOK' /\ GrantsHaveOneLiveToken'
    <3> DEFINE call == [op |-> "refresh", token |-> t]
    <3>1. \A q \in Request : req'[q] = IF q = r THEN call ELSE req[q]
      BY <1>a, <2>1, RefreshStarts
    <3>2. call.token = t
      OBVIOUS
    <3>3. tokens[t].grant \in doubled'.grants \/
            \A q \in Request : Running(q, "refresh") => req[q].token # t
      BY <1>a, <2>1, RefreshStarts DEF Refreshing
    <3>4. /\ ~tokens[t].revoked /\ UNCHANGED tokens
          /\ doubled.grants \subseteq doubled'.grants
      BY <1>a, <2>1, RefreshStarts
    <3> HIDE DEF call
    <3>5. FreshOK'
      BY <3>1, <3>2, <3>3, <3>4 DEF LiveInv, FreshOK, Running
    <3>6. GrantsHaveOneLiveToken'
      BY <3>4 DEF LiveInv, GrantsHaveOneLiveToken
    <3>7. QED BY <3>5, <3>6
  <2>2. ASSUME NEW s \in DOMAIN sessions, NEW u \in User, StartCallback(r, s, u)
        PROVE  FreshOK' /\ GrantsHaveOneLiveToken'
    <3>1. UNCHANGED tokens /\ doubled'.grants = doubled.grants
      BY <1>a, <2>2, CallbackStarts
    <3>2. \A q \in Request : Running(q, "refresh")' => req'[q] = req[q]
      BY <1>a, <2>2 DEF StartCallback, Become, Running, TypeInv, AuthTypeOK
    <3>3. QED BY <3>1, <3>2, LiveStays
  <2>3. ASSUME \/ \E c \in Client, code \in DOMAIN minted : StartRedeem(r, c, code)
               \/ \E c \in Client : StartGrant(r, c)
               \/ Abandon(r)
        PROVE  FreshOK' /\ GrantsHaveOneLiveToken'
    <3>1. UNCHANGED <<tokens, doubled>>
      BY <2>3 DEF StartRedeem, StartGrant, Abandon, Nobody
    <3>2. \A q \in Request : Running(q, "refresh")' => req'[q] = req[q]
      BY <1>a, <2>3 DEF StartRedeem, StartGrant, Abandon, Finish, Become, Idle, Running,
                        TypeInv, AuthTypeOK
    <3>3. QED BY <3>1, <3>2, LiveStays
  <2>4. QED BY <1>5, <2>1, <2>2, <2>3 DEF Called
<1>6. ASSUME NEW r \in Request, CommitCallback(r)
      PROVE  FreshOK' /\ GrantsHaveOneLiveToken'
  <2>1. UNCHANGED <<tokens, doubled>>
    BY <1>6 DEF CommitCallback
  <2>2. \A q \in Request : Running(q, "refresh")' => req'[q] = req[q]
    BY <1>a, <1>6, CallbackStep DEF Running, Idle
  <2>3. QED BY <2>1, <2>2, LiveStays
<1>7. ASSUME NEW r \in Request, CommitRedeem(r)
      PROVE  FreshOK' /\ GrantsHaveOneLiveToken'
  <2>1. PICK s \in DOMAIN sessions : Redeemed(r, s)
    BY <1>a, <1>7, RedeemStep
  <2>2. \A q \in Request : Running(q, "refresh")' => req'[q] = req[q]
    BY <2>1 DEF Redeemed, Running, Idle
  <2>3. \A t \in DOMAIN tokens : tokens[t].grant \in DOMAIN tokens
    BY <1>a DEF WhoseInv, CodesOK
  <2>4. QED BY <2>1, <2>2, <2>3, LiveStays DEF Redeemed
<1>8. ASSUME NEW r \in Request, CommitRefresh(r)
      PROVE  FreshOK' /\ GrantsHaveOneLiveToken'
  <2> DEFINE t == req[r].token
             n == Len(tokens) + 1
  <2>1. UNCHANGED doubled /\ Running(r, "refresh")
    BY <1>8 DEF CommitRefresh, Nobody
  <2>2. /\ t \in DOMAIN tokens /\ n \notin DOMAIN tokens
        /\ DOMAIN tokens' = DOMAIN tokens \cup {n}
        /\ \A u \in DOMAIN tokens :
             /\ tokens'[u].grant = tokens[u].grant
             /\ tokens'[u].revoked = (u = t \/ tokens[u].revoked)
        /\ tokens'[n].grant = tokens[t].grant
    BY <1>a, <1>8, RefreshStep DEF Alike
  <2>3. \A q \in Request : Running(q, "refresh")' =>
          q # r /\ Running(q, "refresh") /\ req'[q] = req[q] /\ req[q].token \in DOMAIN tokens
    BY <1>a, <1>8, RefreshStep DEF TypeInv, PendingOK, Running, Idle
  <2>4. tokens[t].grant \notin doubled.grants =>
          /\ ~tokens[t].revoked
          /\ \A q \in Request : Running(q, "refresh") /\ req[q].token = t => q = r
    BY <2>1 DEF LiveInv, FreshOK
  <2> HIDE DEF t, n
  <2>5. FreshOK'
    <3> SUFFICES ASSUME NEW q \in Request, Running(q, "refresh")',
                        tokens'[req'[q].token].grant \notin doubled.grants
                 PROVE  /\ ~tokens'[req'[q].token].revoked
                        /\ \A p \in Request :
                             /\ Running(p, "refresh")'
                             /\ req'[p].token = req'[q].token
                             => p = q
      BY <2>1 DEF FreshOK, Running
    <3>1. tokens[req[q].token].grant \notin doubled.grants
      BY <2>2, <2>3
    <3>2. req[q].token # t
      BY <2>3, <2>4, <3>1
    <3>3. ~tokens[req[q].token].revoked
      BY <2>3, <3>1 DEF LiveInv, FreshOK
    <3>4. ~tokens'[req'[q].token].revoked
      BY <2>2, <2>3, <3>2, <3>3
    <3>5. QED BY <2>3, <3>1, <3>4 DEF LiveInv, FreshOK
  <2>6. GrantsHaveOneLiveToken'
    <3> SUFFICES ASSUME NEW u \in DOMAIN tokens', NEW v \in DOMAIN tokens', u # v,
                        tokens'[u].grant = tokens'[v].grant,
                        ~tokens'[u].revoked, ~tokens'[v].revoked,
                        tokens'[u].grant \notin doubled.grants
                 PROVE  FALSE
      BY <2>1 DEF GrantsHaveOneLiveToken
    <3>1. \A w \in DOMAIN tokens :
            ~tokens'[w].revoked => ~tokens[w].revoked /\ w # t
      BY <2>2
    <3>2. CASE u # n /\ v # n
      BY <2>2, <3>1, <3>2 DEF LiveInv, GrantsHaveOneLiveToken
    <3>3. CASE u = n /\ v # n
      BY <2>2, <2>4, <3>1, <3>3 DEF LiveInv, GrantsHaveOneLiveToken
    <3>4. CASE u # n /\ v = n
      BY <2>2, <2>4, <3>1, <3>4 DEF LiveInv, GrantsHaveOneLiveToken
    <3>5. QED BY <3>2, <3>3, <3>4
  <2>7. QED BY <2>5, <2>6
<1>9. ASSUME NEW r \in Request, CommitGrant(r)
      PROVE  FreshOK' /\ GrantsHaveOneLiveToken'
  <2>1. UNCHANGED doubled
    BY <1>9 DEF CommitGrant, Nobody
  <2>2. \A q \in Request : Running(q, "refresh")' => req'[q] = req[q]
    BY <1>a, <1>9, GrantStep DEF Running, Idle
  <2>3. \A t \in DOMAIN tokens : tokens[t].grant \in DOMAIN tokens
    BY <1>a DEF WhoseInv, CodesOK
  <2>4. QED BY <1>a, <1>9, <2>1, <2>2, <2>3, GrantStep, LiveStays
<1>10. CASE UNCHANGED vars
  BY <1>10, LiveStays DEF vars
<1>11. QED
  BY <1>1, <1>2, <1>3, <1>4, <1>5, <1>6, <1>7, <1>8, <1>9, <1>10, Steps

LEMMA InitLiveInv == Init => LiveInv
<1> SUFFICES ASSUME Init PROVE FreshOK /\ GrantsHaveOneLiveToken
  BY InitWhoseInv DEF LiveInv
<1>1. DOMAIN tokens = {} /\ \A r \in Request : ~Running(r, "refresh")
  BY DEF Init, Running, Idle
<1>2. QED BY <1>1 DEF FreshOK, GrantsHaveOneLiveToken

(* A line of refreshes has one token that is not revoked while refreshes of a token come
   one at a time. *)
THEOREM GrantsStayUnforked == Spec => []GrantsHaveOneLiveToken
BY InitLiveInv, LiveInvStep, PTL DEF Spec, LiveInv

=============================================================================
