------------------------------- MODULE AuthServer -------------------------------
(***************************************************************************)
(* The OAuth server (memoryhub-auth): a client sends its user to           *)
(* /authorize, OpenShift sends the user back to the callback, which mints  *)
(* a code, and the client turns the code into a refresh token at /token,   *)
(* and each refresh token into the next.                                   *)
(*                                                                         *)
(* A request reads rows, calls other services and commits later; requests  *)
(* of one session or with one token overlap when a browser, a client or a  *)
(* proxy repeats them.  A request whose secret, verifier or redirect URI   *)
(* is wrong changes nothing and is not modelled.  Access tokens are signed *)
(* statements that nobody stores.                                          *)
(***************************************************************************)
EXTENDS Naturals, Sequences, FiniteSets

CONSTANTS
  Client,       \* the registered clients
  User,         \* the users that OpenShift knows
  Request,      \* the requests that can be in progress
  None,
  MaxSessions,  \* bounds: the rows of auth_sessions,
  MaxCodes,     \* the codes that callbacks mint,
  MaxTokens     \* and the rows of refresh_tokens

ASSUME AuthAssumption ==
  /\ None \notin Client \cup User /\ None \notin Nat
  /\ MaxSessions \in Nat /\ MaxCodes \in Nat /\ MaxTokens \in Nat

VARIABLES
  active,    \* the clients whose row says active
  sessions,  \* the rows of auth_sessions, in the order of their insertion
  tokens,    \* the rows of refresh_tokens, in the order of their insertion
  req,       \* what each request has read
  minted,    \* history: for each code in the order of their minting, whose it is
  doubled    \* history: the sessions with two callbacks, and the grants with two
             \* refreshes of one token, in progress at once

vars == <<active, sessions, tokens, req, minted, doubled>>

------------------------------------------------------------------------------
(* Types *)

Code == 1..MaxCodes
SessionId == 1..MaxSessions
TokenId == 1..MaxTokens

\* kept: the row has not been removed.  expired: expires_at has passed.
Session ==
  [client : Client, status : {"pending", "ready", "used"}, code : Code \cup {None},
   subject : User \cup {None}, expired : BOOLEAN, kept : BOOLEAN]

\* A grant is the first token of a line of refreshes; code is the one that was turned into
\* it.  The database has neither.
Token ==
  [client : Client, subject : Client \cup User, revoked : BOOLEAN, expired : BOOLEAN,
   grant : TokenId, code : Code \cup {None}]

Idle == [op |-> "idle"]
Pending ==
  [op : {"callback"}, session : SessionId, user : User]
  \cup [op : {"redeem"}, client : Client, code : Code]
  \cup [op : {"refresh"}, token : TokenId]
  \cup [op : {"grant"}, client : Client]

------------------------------------------------------------------------------

Running(r, op) == req[r].op = op
Become(r, call) == req' = [req EXCEPT ![r] = call]
Finish(r) == Become(r, Idle)
Nobody == UNCHANGED <<active, minted, doubled>>

\* AsyncSession's exit without a commit: an error of this code or of OpenShift, or a crash.
Abandon(r) ==
  /\ req[r] # Idle
  /\ Finish(r)
  /\ UNCHANGED <<sessions, tokens>> /\ Nobody

\* update_client with a value for active.
SetActive(c) ==
  /\ active' \in {active \cup {c}, active \ {c}} \ {active}
  /\ UNCHANGED <<sessions, tokens, req, minted, doubled>>

------------------------------------------------------------------------------
(* authorize_endpoint *)

Authorize(c) ==
  /\ c \in active
  /\ Len(sessions) < MaxSessions
  /\ sessions' = Append(sessions, [client |-> c, status |-> "pending", code |-> None,
                                   subject |-> None, expired |-> FALSE, kept |-> TRUE])
  /\ UNCHANGED <<tokens, req>> /\ Nobody

------------------------------------------------------------------------------
(* openshift_callback *)

AwaitsCallbackOf(s) == {r \in Request : Running(r, "callback") /\ req[r].session = s}

StartCallback(r, s, u) ==
  /\ Running(r, "idle")
  /\ sessions[s].kept /\ sessions[s].status = "pending" /\ ~sessions[s].expired
  /\ Become(r, [op |-> "callback", session |-> s, user |-> u])
  /\ doubled' = IF AwaitsCallbackOf(s) = {} THEN doubled
                ELSE [doubled EXCEPT !.sessions = @ \cup {s}]
  /\ UNCHANGED <<active, sessions, tokens, minted>>

\* What a callback writes over the row, whatever has become of it.
FilledAround(row, user, code) ==
  [row EXCEPT !.status = "ready", !.code = code, !.expired = FALSE,
              !.subject = IF @ = None THEN user ELSE @]
Filled(row, user, code) ==
  [row EXCEPT !.status = "ready", !.code = code, !.expired = FALSE, !.subject = user]

\* The flush raises when the row is gone (Abandon).
CommitCallback(r) ==
  LET s == req[r].session
      user == req[r].user
      code == Len(minted) + 1
  IN /\ Running(r, "callback")
     /\ sessions[s].kept
     /\ Len(minted) < MaxCodes
     /\ sessions' = [sessions EXCEPT ![s] = Filled(@, user, code)]
     /\ minted' = Append(minted, [session |-> s, user |-> user])
     /\ Finish(r)
     /\ UNCHANGED <<active, tokens, doubled>>

------------------------------------------------------------------------------
(* token_endpoint *)

Issue(row) ==
  /\ Len(tokens) < MaxTokens
  /\ tokens' = Append(tokens, row)

\* _handle_authorization_code looks up the client first.
StartRedeem(r, c, code) ==
  /\ Running(r, "idle")
  /\ c \in active
  /\ Become(r, [op |-> "redeem", client |-> c, code |-> code])
  /\ UNCHANGED <<sessions, tokens>> /\ Nobody

\* UPDATE ... WHERE status = 'ready' locks the row until the token is committed with it;
\* when a check that follows fails, it is undone.
ClaimableAgain(row, code) == row.kept /\ row.code = code /\ row.status # "pending"
Claimable(row, code) == row.kept /\ row.code = code /\ row.status = "ready"

CommitRedeem(r) ==
  LET c == req[r].client
      code == req[r].code
  IN /\ Running(r, "redeem")
     /\ \E s \in DOMAIN sessions :
          /\ Claimable(sessions[s], code)
          /\ ~sessions[s].expired
          /\ sessions[s].client = c
          /\ sessions' = [sessions EXCEPT ![s].status = "used"]
          /\ Issue([client |-> c, subject |-> sessions[s].subject, revoked |-> FALSE,
                    expired |-> FALSE, grant |-> Len(tokens) + 1, code |-> code])
     /\ Finish(r)
     /\ Nobody

Refreshing(t) == {r \in Request : Running(r, "refresh") /\ req[r].token = t}

\* _handle_refresh_token: the client is looked up, and then the token.
Usable(row) == ~row.revoked /\ ~row.expired

StartRefresh(r, t) ==
  /\ Running(r, "idle")
  /\ tokens[t].client \in active
  /\ Usable(tokens[t])
  /\ Become(r, [op |-> "refresh", token |-> t])
  /\ doubled' = IF Refreshing(t) = {} THEN doubled
                ELSE [doubled EXCEPT !.grants = @ \cup {tokens[t].grant}]
  /\ UNCHANGED <<active, sessions, tokens, minted>>

\* The old token is revoked in the transaction that inserts the new one, and is not read
\* again: nothing else that a refresh reads from its row can change.
Kept(row) == row
Revoked(row) == [row EXCEPT !.revoked = TRUE]

CommitRefresh(r) ==
  LET t == req[r].token
  IN /\ Running(r, "refresh")
     /\ Len(tokens) < MaxTokens
     /\ tokens' = Append([tokens EXCEPT ![t] = Revoked(@)],
                         [tokens[t] EXCEPT !.revoked = FALSE, !.expired = FALSE])
     /\ Finish(r)
     /\ UNCHANGED sessions /\ Nobody

\* _handle_client_credentials: the client is its own subject.
StartGrant(r, c) ==
  /\ Running(r, "idle")
  /\ c \in active
  /\ Become(r, [op |-> "grant", client |-> c])
  /\ UNCHANGED <<sessions, tokens>> /\ Nobody

CommitGrant(r) ==
  LET c == req[r].client
  IN /\ Running(r, "grant")
     /\ Issue([client |-> c, subject |-> c, revoked |-> FALSE, expired |-> FALSE,
               grant |-> Len(tokens) + 1, code |-> None])
     /\ Finish(r)
     /\ UNCHANGED sessions /\ Nobody

------------------------------------------------------------------------------
(* Time *)

ExpireSession(s) ==
  /\ ~sessions[s].expired
  /\ sessions' = [sessions EXCEPT ![s].expired = TRUE]
  /\ UNCHANGED <<tokens, req>> /\ Nobody

ExpireToken(t) ==
  /\ ~tokens[t].expired
  /\ tokens' = [tokens EXCEPT ![t].expired = TRUE]
  /\ UNCHANGED <<sessions, req>> /\ Nobody

\* cleanup_expired_sessions: one DELETE.
Cleanup ==
  /\ \E s \in DOMAIN sessions : sessions[s].expired /\ sessions[s].kept
  /\ sessions' = [s \in DOMAIN sessions |->
                    IF sessions[s].expired THEN [sessions[s] EXCEPT !.kept = FALSE]
                    ELSE sessions[s]]
  /\ UNCHANGED <<tokens, req>> /\ Nobody

------------------------------------------------------------------------------

Init ==
  /\ active = Client
  /\ sessions = <<>> /\ tokens = <<>> /\ minted = <<>>
  /\ req = [r \in Request |-> Idle]
  /\ doubled = [sessions |-> {}, grants |-> {}]

Next ==
  \/ \E c \in Client : SetActive(c) \/ Authorize(c)
  \/ \E s \in DOMAIN sessions : ExpireSession(s)
  \/ \E t \in DOMAIN tokens : ExpireToken(t)
  \/ Cleanup
  \/ \E r \in Request :
       \/ \E s \in DOMAIN sessions, u \in User : StartCallback(r, s, u)
       \/ \E c \in Client, code \in DOMAIN minted : StartRedeem(r, c, code)
       \/ \E t \in DOMAIN tokens : StartRefresh(r, t)
       \/ \E c \in Client : StartGrant(r, c)
       \/ CommitCallback(r) \/ CommitRedeem(r) \/ CommitRefresh(r) \/ CommitGrant(r)
       \/ Abandon(r)

Spec == Init /\ [][Next]_vars

------------------------------------------------------------------------------

AuthTypeOK ==
  /\ active \subseteq Client
  /\ sessions \in Seq(Session) /\ Len(sessions) <= MaxSessions
  /\ tokens \in Seq(Token) /\ Len(tokens) <= MaxTokens
  /\ minted \in Seq([session : SessionId, user : User]) /\ Len(minted) <= MaxCodes
  /\ req \in [Request -> Pending \cup {Idle}]
  /\ doubled \in [sessions : SUBSET SessionId, grants : SUBSET TokenId]

\* The first token that a code, or the credentials of a client, were turned into.
Grants == {t \in DOMAIN tokens : tokens[t].grant = t}

\* "The code has not been used before" (docs/auth/openshift-broker.md): a code is turned
\* into one line of tokens only.  A session, whatever happens to its row, gives a second
\* line only if two callbacks for it overlapped, each of which minted a code.
CodesAreSpentOnce ==
  \A g, h \in Grants :
    /\ g # h /\ tokens[g].code # None /\ tokens[h].code # None
    => /\ tokens[g].code # tokens[h].code
       /\ minted[tokens[g].code].session = minted[tokens[h].code].session =>
            minted[tokens[g].code].session \in doubled.sessions

\* A refresh token is replaced, not copied: a line of refreshes has one token that is not
\* revoked, unless two refreshes of one token overlapped.
GrantsHaveOneLiveToken ==
  \A t, u \in DOMAIN tokens :
    /\ t # u /\ tokens[t].grant = tokens[u].grant
    /\ ~tokens[t].revoked /\ ~tokens[u].revoked
    => tokens[t].grant \in doubled.grants

\* However callbacks of one session overlap, a token speaks for the user whom OpenShift
\* named in the very callback that minted its code, and belongs to the client that asked
\* for the session.
TokensNameTheirUser ==
  \A t \in DOMAIN tokens :
    IF tokens[t].code = None THEN tokens[t].subject = tokens[t].client
    ELSE LET code == minted[tokens[t].code]
         IN /\ tokens[t].subject = code.user
            /\ tokens[t].client = sessions[code.session].client
=============================================================================
