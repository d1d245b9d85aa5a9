---------------------------- MODULE TokenProvider ----------------------------
(***************************************************************************)
(* OAuth tokens of one MCP server (mcp/oidc): a token in an encrypted file *)
(* and a cache, used by goroutines that need not wait for each other.      *)
(* EnsureToken runs before a connect, Token before every HTTP request;     *)
(* both refresh an expired token, and the authorization server may replace *)
(* the refresh token when it is used.  Only EnsureToken can ask the user.  *)
(***************************************************************************)
EXTENDS Naturals, FiniteSets

CONSTANTS Goroutine, MaxGrant, MaxTokenFaults
ASSUME TokenAssumption == MaxGrant \in Nat /\ MaxTokenFaults \in Nat

\* A token: the grants its access token and its refresh token came with, 0 for
\* no refresh token, and whether the server gave an expiry.
Token == [access : 1 .. MaxGrant, refresh : 0 .. MaxGrant, dated : BOOLEAN]
NoToken == [access |-> 0, refresh |-> 0, dated |-> FALSE]
Torn == [access |-> 0, refresh |-> 0, dated |-> TRUE]  \* a file cut short

VARIABLES flow,      \* "device" or "authorization_code"
          rotates,   \* the server replaces refresh tokens
          granted,   \* grants so far
          honoured,  \* refresh tokens the server accepts
          expired,   \* access tokens whose expiry has passed
          file, cached,
          user,      \* the goroutines that use the token
          ready,     \* bootstrapOIDC is done: the provider is shared from now on
          tokenFaults,
          spoilt     \* a grant was lost before it was saved, or on its way here

tokenVars == <<flow, rotates, granted, honoured, expired, file, cached, user, ready, tokenFaults, spoilt>>

Away == [at |-> "away", token |-> NoToken, ensures |-> FALSE]
TokenInit ==
    /\ flow \in {"device", "authorization_code"} /\ rotates \in BOOLEAN
    /\ granted = 0 /\ honoured = {} /\ expired = {}
    /\ file = NoToken /\ cached = NoToken
    /\ user = [g \in Goroutine |-> Away]
    /\ ready = FALSE /\ tokenFaults = 0 /\ spoilt = FALSE

\* GetToken: the cache, or the file, which then fills the cache.
Stored == IF cached # NoToken THEN cached ELSE file
Fill == cached' = IF file = Torn THEN cached ELSE Stored
Moves(g, at, token, ensures) ==
    user' = [user EXCEPT ![g] = [at |-> at, token |-> token, ensures |-> ensures]]
Leaves(g) == user' = [user EXCEPT ![g] = Away]

\* The prompt that asks the user to authorize.
FlowStart == IF flow = "device" THEN "polling" ELSE "listening"
\* EnsureToken, first in bootstrapOIDC, alone, and then before every connect:
\* a token that has no expiry is never taken for valid.
EnsureToken(g) ==
    /\ user[g].at = "away" /\ Fill
    /\ ready \/ \A h \in Goroutine : user[h].at = "away"
    /\ LET t == Stored
           valid == t \in Token /\ t.dated /\ t.access \notin expired
       IN  /\ ready' = (ready \/ valid)
           /\ CASE t = Torn \/ valid -> UNCHANGED user
                [] t # Torn /\ ~valid /\ t.refresh # 0 -> Moves(g, "refresh", t, TRUE)
                [] t # Torn /\ ~valid /\ t.refresh = 0 -> Moves(g, FlowStart, NoToken, TRUE)
    /\ UNCHANGED <<flow, rotates, granted, honoured, expired, file, tokenFaults, spoilt>>
\* Token: one that has no expiry is used for ever, one that cannot be
\* refreshed is sent although it has expired.
TokenForRequest(g) ==
    /\ ready /\ user[g].at = "away" /\ Fill
    /\ LET t == Stored IN
         IF t \in Token /\ t.dated /\ t.access \in expired /\ t.refresh # 0
         THEN Moves(g, "refresh", t, FALSE) ELSE UNCHANGED user
    /\ UNCHANGED <<flow, ready, rotates, granted, honoured, expired, file, tokenFaults, spoilt>>

\* Mutant: the refresh token of the answer is dropped.
KeepOldRefresh(old, new) == old
\* "Keep existing refresh token if new one not provided."
NextRefresh(old, new) == IF new # 0 THEN new ELSE old

\* refreshToken: the server takes the refresh token and answers with an access
\* token and, if it rotates, with the next refresh token.
Refresh(g) ==
    /\ user[g].at = "refresh" /\ user[g].token.refresh \in honoured /\ granted < MaxGrant
    /\ granted' = granted + 1
    /\ LET old == user[g].token.refresh
           new == IF rotates THEN granted' ELSE 0
       IN  /\ honoured' = IF rotates THEN (honoured \ {old}) \cup {new} ELSE honoured
           /\ \E dated \in BOOLEAN :
                Moves(g, "save", [access |-> granted', refresh |-> NextRefresh(old, new), dated |-> dated], user[g].ensures)
    /\ UNCHANGED <<flow, ready, rotates, expired, file, cached, tokenFaults, spoilt>>
\* Refused, or the request failed: a request gives up, EnsureToken asks the user.
RefreshFails(g) ==
    /\ user[g].at = "refresh"
    /\ IF user[g].token.refresh \in honoured THEN tokenFaults < MaxTokenFaults /\ tokenFaults' = tokenFaults + 1
                                             ELSE UNCHANGED tokenFaults
    /\ IF user[g].ensures THEN Moves(g, FlowStart, NoToken, TRUE) ELSE Leaves(g)
    /\ UNCHANGED <<flow, ready, rotates, granted, honoured, expired, file, cached, spoilt>>
\* The server takes the refresh token, but its answer is lost or cannot be
\* decoded: as above, and a refresh token that was replaced is gone.
RefreshAnswerLost(g) ==
    /\ user[g].at = "refresh" /\ user[g].token.refresh \in honoured /\ granted < MaxGrant
    /\ tokenFaults < MaxTokenFaults /\ tokenFaults' = tokenFaults + 1
    /\ granted' = granted + 1 /\ spoilt' = (spoilt \/ rotates)
    /\ honoured' = IF rotates THEN (honoured \ {user[g].token.refresh}) \cup {granted'} ELSE honoured
    /\ IF user[g].ensures THEN Moves(g, FlowStart, NoToken, TRUE) ELSE Leaves(g)
    /\ UNCHANGED <<flow, ready, rotates, expired, file, cached>>

\* A new grant, with or without a refresh token.
NewGrant(g, dated) ==
    /\ granted < MaxGrant /\ granted' = granted + 1
    /\ \E r \in {0, granted'} :
         /\ honoured' = IF r = 0 THEN honoured ELSE honoured \cup {r}
         /\ Moves(g, "save", [access |-> granted', refresh |-> r, dated |-> dated], TRUE)
    /\ UNCHANGED <<flow, ready, rotates, expired, file, cached, tokenFaults, spoilt>>
\* PollForToken polls while the user has not decided; an expiry is always set.
PollForToken(g) == user[g].at = "polling" /\ NewGrant(g, TRUE)
\* The first callback decides; its code is exchanged.
Callback(g) ==
    /\ user[g].at = "listening"
    /\ Moves(g, "exchange", NoToken, TRUE)
    /\ UNCHANGED <<flow, ready, rotates, granted, honoured, expired, file, cached, tokenFaults, spoilt>>
ExchangeAuthCode(g) == user[g].at = "exchange" /\ \E dated \in BOOLEAN : NewGrant(g, dated)
\* Denied, expired, timed out, another state parameter, or a failed request.
FlowFails(g) ==
    /\ user[g].at \in {"polling", "listening", "exchange"}
    /\ Leaves(g)
    /\ UNCHANGED <<flow, ready, rotates, granted, honoured, expired, file, cached, tokenFaults, spoilt>>

\* SaveToken: os.WriteFile cuts the file and writes it, outside the mutex; the
\* cache follows under it.
WriteFileBegins(g) ==
    /\ user[g].at = "save"
    /\ file' = Torn /\ Moves(g, "write", user[g].token, user[g].ensures)
    /\ UNCHANGED <<flow, ready, rotates, granted, honoured, expired, cached, tokenFaults, spoilt>>
WriteFileEnds(g) ==
    /\ user[g].at = "write"
    /\ file' = user[g].token /\ Moves(g, "cache", user[g].token, user[g].ensures)
    /\ UNCHANGED <<flow, ready, rotates, granted, honoured, expired, cached, tokenFaults, spoilt>>
SaveToCache(g) ==
    /\ user[g].at = "cache"
    /\ cached' = user[g].token /\ ready' = TRUE /\ Leaves(g)
    /\ UNCHANGED <<flow, rotates, granted, honoured, expired, file, tokenFaults, spoilt>>
\* The file cannot be created: the grant is lost with the error.
SaveFails(g) ==
    /\ user[g].at = "save" /\ tokenFaults < MaxTokenFaults
    /\ tokenFaults' = tokenFaults + 1 /\ spoilt' = TRUE /\ Leaves(g)
    /\ UNCHANGED <<flow, ready, rotates, granted, honoured, expired, file, cached>>

TokenExpires(a) ==
    /\ a \in 1 .. granted /\ a \notin expired
    /\ expired' = expired \cup {a}
    /\ UNCHANGED <<flow, ready, rotates, granted, honoured, file, cached, user, tokenFaults, spoilt>>
\* The agent ends and starts again with what is in the file.
AgentRestarts ==
    /\ tokenFaults < MaxTokenFaults /\ tokenFaults' = tokenFaults + 1
    /\ spoilt' = (spoilt \/ \E g \in Goroutine : user[g].at \in {"save", "write"})
    /\ user' = [g \in Goroutine |-> Away] /\ cached' = NoToken /\ ready' = FALSE
    /\ UNCHANGED <<flow, rotates, granted, honoured, expired, file>>

TokenNext ==
    \/ \E g \in Goroutine :
         \/ EnsureToken(g) \/ TokenForRequest(g) \/ Refresh(g) \/ RefreshFails(g) \/ RefreshAnswerLost(g)
         \/ PollForToken(g) \/ Callback(g) \/ ExchangeAuthCode(g) \/ FlowFails(g)
         \/ WriteFileBegins(g) \/ WriteFileEnds(g) \/ SaveToCache(g) \/ SaveFails(g)
    \/ AgentRestarts
    \/ \E a \in 1 .. MaxGrant : TokenExpires(a)

TokenTypeOK ==
    /\ file \in Token \cup {NoToken, Torn} /\ cached \in Token \cup {NoToken}
    /\ honoured \subseteq 1 .. granted /\ expired \subseteq 1 .. granted

\* When no goroutine is busy with the token, what is kept can be refreshed:
\* the refresh tokens of the file and of the cache are ones the server still
\* accepts, however the refreshes, authorizations and saves of the goroutines
\* overlapped, and whatever file and cache disagree on; unless a grant was
\* lost: to a crash or a failed write before it was saved, or because the
\* answer of a server that replaces refresh tokens did not arrive or could
\* not be decoded (refreshToken, SaveToken: the old refresh token has been
\* used up then, and only a new authorization helps).
KeptTokensAreHonoured ==
    (~spoilt /\ \A g \in Goroutine : user[g].at = "away") =>
        \A t \in {file, cached} \cap Token : t.refresh # 0 => t.refresh \in honoured
=============================================================================
