---------------------------- MODULE OAuthTokens ----------------------------
(***************************************************************************)
(* Who may call whom: sidecar/oauth_client.py and the token manager of     *)
(* mcp_server/server.py, which cache a token and fetch the next one behind *)
(* a lock; gateway/oauth_router.py, which issues tokens; gateway/auth.py   *)
(* and _require_token of sidecar/main.py, which check them.                *)
(*                                                                         *)
(* A behaviour has one manager and the calls that share it.  Managers of   *)
(* different processes have in common the gateway alone, which keeps       *)
(* nothing of the tokens it signs: the kind of manager is a setting.       *)
(*                                                                         *)
(* Time is in ticks.  No message is under way for more than Delay of them: *)
(* the HTTP clients give up after 5 to 15 seconds, query_db's own call to  *)
(* the sidecar after 60.                                                   *)
(***************************************************************************)
EXTENDS Integers, Sequences

CONSTANTS
    Callers,   \* concurrent calls that need a credential
    Ttl,       \* DEFAULT_TTL_SECONDS
    Refresh,   \* ttl * REFRESH_RATIO
    Delay,     \* bound on the time a message is under way
    MaxClock,  \* bound on time
    MaxRevoke, \* bound: the last time at which something is revoked
    Setups     \* settings: [manager, guard, strict, entitled]

ASSUME TokenAssumption ==
    /\ Refresh \in Nat \ {0} /\ Delay \in Nat /\ Ttl \in Nat
    /\ Refresh + 2 * Delay <= Ttl
    /\ MaxClock \in Nat /\ MaxRevoke \in Nat
    /\ Setups \subseteq [manager : {"sidecar", "mcp", "key"},
                         guard : {"jwt", "shared", "open"},
                         strict : BOOLEAN, entitled : BOOLEAN]

VARIABLES
    setup,      \* manager: the sidecar's, the MCP server's, or an API key
                \* guard: what the sidecar's _require_token asks for
                \* strict: decoding without an audience refuses one (PyJWT 2)
                \* entitled: the client's row has the scopes it asks for
    clock,
    active,     \* the row of the client, or of the key, is active
    revokedAt,  \* history: when it was last made inactive
    token,      \* _token
    refreshAt,  \* _refresh_at
    line,       \* the lock: its holder, then those who wait, in order
    pc,         \* pc[c]: where call c is
    carried,    \* carried[c]: the credential it sends, or is being sent
    since,      \* since[c]: when that message left, or the call was let in
    stale       \* history: c got the old token because the refresh failed

tokenVars == <<setup, clock, active, revokedAt, token, refreshAt, line,
               pc, carried, since, stale>>

Jwt(aud, exp) == [kind |-> "jwt", aud |-> aud, exp |-> exp]
Plain(kind) == [kind |-> kind, aud |-> "", exp |-> 0]
Nothing == Plain("none")

Fetching == {"post", "row", "signed", "exchange", "exchanged", "denied"}
UnderWay == {"row", "signed", "exchange", "exchanged", "sent"}
Ended == {"served", "refused", "failed"}

TokenInit ==
    /\ setup \in Setups
    /\ clock = 0
    /\ active \in BOOLEAN
    /\ revokedAt = 0
    /\ token = Nothing
    /\ refreshAt = 0
    /\ line = <<>>
    /\ pc = [c \in Callers |-> "idle"]
    /\ carried = [c \in Callers |-> Nothing]
    /\ since = [c \in Callers |-> 0]
    /\ stale = [c \in Callers |-> FALSE]

Fresh == token # Nothing /\ clock < refreshAt

\* jwt.decode, with the audience it is given or "" for none: the token must
\* not have expired, and strict refuses any audience nobody asked for.
\* (Mutant: a token that has expired passes.)
MutDecodes(t, aud) ==
    /\ t.kind = "jwt"
    /\ IF aud = "" THEN ~setup.strict ELSE t.aud = aud
Decodes(t, aud) ==
    /\ t.kind = "jwt"
    /\ clock < t.exp
    /\ IF aud = "" THEN ~setup.strict ELSE t.aud = aud

\* A message leaves, with a credential or the answer to a request for one.
Post(c, step, cred) ==
    /\ pc' = [pc EXCEPT ![c] = step]
    /\ carried' = [carried EXCEPT ![c] = cred]
    /\ since' = [since EXCEPT ![c] = clock]
Send(c, cred) == Post(c, "sent", cred)

\* Nothing of the call is under way.
Goto(c, step) ==
    /\ pc' = [pc EXCEPT ![c] = step]
    /\ carried' = [carried EXCEPT ![c] = Nothing]
    /\ since' = [since EXCEPT ![c] = 0]

fixed == <<setup, clock, active, revokedAt>>

---------------------------------------------------------------------------
(* The client side.                                                        *)

\* get_token outside the lock; an API key is sent as it is.
GetToken(c) ==
    /\ pc[c] = "idle"
    /\ \/ /\ setup.manager = "key"
          /\ Send(c, Plain("key"))
          /\ UNCHANGED line
       \/ /\ setup.manager # "key" /\ Fresh
          /\ Send(c, token)
          /\ UNCHANGED line
       \/ /\ setup.manager # "key" /\ ~Fresh
          /\ line' = Append(line, c)
          /\ Goto(c, "wait")
    /\ UNCHANGED <<fixed, token, refreshAt, stale>>

\* The same check again once the lock is held.
\* (Mutants: no second check; no lock.)
MutRecheck(c) ==
    /\ pc[c] = "wait"
    /\ Head(line) = c
    /\ Goto(c, "post") /\ UNCHANGED line
    /\ UNCHANGED <<fixed, token, refreshAt, stale>>
MutRecheckUnlocked(c) ==
    /\ pc[c] = "wait"
    /\ \/ Fresh /\ Send(c, token) /\ line' = Tail(line)
       \/ ~Fresh /\ Goto(c, "post") /\ UNCHANGED line
    /\ UNCHANGED <<fixed, token, refreshAt, stale>>
Recheck(c) ==
    /\ pc[c] = "wait"
    /\ Head(line) = c
    /\ \/ Fresh /\ Send(c, token) /\ line' = Tail(line)
       \/ ~Fresh /\ Goto(c, "post") /\ UNCHANGED line
    /\ UNCHANGED <<fixed, token, refreshAt, stale>>

\* The end of _refresh, and of get_token.
\* (Mutant: the whole lifetime counts, from its arrival.)
MutStore(c) ==
    /\ token' = carried[c]
    /\ refreshAt' = clock + Ttl
    /\ line' = Tail(line)
    /\ Send(c, carried[c])
    /\ UNCHANGED <<fixed, stale>>
Store(c) ==
    /\ token' = carried[c]
    /\ refreshAt' = clock + Refresh
    /\ line' = Tail(line)
    /\ Send(c, carried[c])
    /\ UNCHANGED <<fixed, stale>>

\* The sidecar has its token; the MCP server exchanges it for one more.
Arrive(c) ==
    /\ pc[c] = "signed"
    /\ \/ /\ setup.manager = "sidecar"
          /\ Store(c)
       \/ /\ setup.manager = "mcp"
          /\ Post(c, "exchange", carried[c])
          /\ UNCHANGED <<fixed, token, refreshAt, line, stale>>

ArriveSidecarToken(c) ==
    /\ pc[c] = "exchanged"
    /\ Store(c)

\* _sidecar_headers without a token: the shared secret if there is one.
Legacy == {Plain("shared"), Nothing}

\* A POST timed out, or was answered by an error or by something without a
\* token.  The sidecar's call raises; the MCP server goes on with the token it
\* has, or, having none or after the last of these, with its shared secret.
\* (Mutant: the lock is not released.)
MutDenied(c) ==
    /\ pc[c] = "denied"
    /\ setup.manager = "sidecar"
    /\ Goto(c, "failed")
    /\ UNCHANGED <<fixed, token, refreshAt, line, stale>>
Denied(c) ==
    /\ pc[c] = "denied"
    /\ line' = Tail(line)
    /\ \/ /\ setup.manager = "sidecar"
          /\ Goto(c, "failed")
          /\ UNCHANGED stale
       \/ /\ setup.manager = "mcp"
          /\ token # Nothing
          /\ Send(c, token)
          /\ stale' = [stale EXCEPT ![c] = TRUE]
       \/ /\ setup.manager = "mcp"
          /\ \E legacy \in Legacy : Send(c, legacy)
          /\ UNCHANGED stale
    /\ UNCHANGED <<fixed, token, refreshAt>>

\* Whoever asked for the credential has its answer.
Done(c) ==
    /\ pc[c] \in Ended
    /\ Goto(c, "idle")
    /\ stale' = [stale EXCEPT ![c] = FALSE]
    /\ UNCHANGED <<fixed, token, refreshAt, line>>

---------------------------------------------------------------------------
(* The gateway, and the guard of the sidecar.                              *)

\* issue_token: the row is read, then the token signed with the time it is
\* by then; the row is written once more before the answer.
LookUp(c) ==
    /\ pc[c] = "post"
    /\ IF active /\ setup.entitled
       THEN Post(c, "row", Nothing) ELSE Goto(c, "denied")
    /\ UNCHANGED <<fixed, token, refreshAt, line, stale>>

\* (Mutant: the lifetime is taken away from the time.)
MutSign(c) ==
    /\ pc[c] = "row"
    /\ Post(c, "signed", Jwt("anon-gateway", clock - Ttl))
    /\ UNCHANGED <<fixed, token, refreshAt, line, stale>>
Sign(c) ==
    /\ pc[c] = "row"
    /\ Post(c, "signed", Jwt("anon-gateway", clock + Ttl))
    /\ UNCHANGED <<fixed, token, refreshAt, line, stale>>

\* issue_sidecar_token, which does not look at the row.
IssueSidecarToken(c) ==
    /\ pc[c] = "exchange"
    /\ IF Decodes(carried[c], "")
       THEN Post(c, "exchanged", Jwt("anon-sidecar", clock + Ttl))
       ELSE Goto(c, "denied")
    /\ UNCHANGED <<fixed, token, refreshAt, line, stale>>

\* A message is lost, a server stopped, the database fails, no signing key.
Lost(c) ==
    /\ pc[c] \in Fetching \ {"denied"}
    /\ Goto(c, "denied")
    /\ UNCHANGED <<fixed, token, refreshAt, line, stale>>

\* _require_token, at the sidecar.
RequireToken(cred) ==
    CASE setup.guard = "jwt" -> Decodes(cred, "") /\ cred.aud = "anon-sidecar"
      [] setup.guard = "shared" -> cred = Plain("shared")
      [] setup.guard = "open" -> TRUE

\* validate_api_key at the gateway, _require_token at the sidecar.
Accepted(cred) ==
    CASE setup.manager = "key" -> cred = Plain("key") /\ active
      [] setup.manager = "sidecar" -> Decodes(cred, "anon-gateway")
      [] setup.manager = "mcp" -> RequireToken(cred)

\* The call arrives; one that is let in may still fail.
Check(c) ==
    /\ pc[c] = "sent"
    /\ \/ Accepted(carried[c]) /\ Post(c, "served", Nothing)
       \/ ~Accepted(carried[c]) /\ Goto(c, "refused")
       \/ Goto(c, "failed")
    /\ UNCHANGED <<fixed, token, refreshAt, line, stale>>

\* revoke_key, or the client's row set inactive in the database.
Revoke ==
    /\ active /\ clock <= MaxRevoke
    /\ active' = FALSE
    /\ revokedAt' = clock
    /\ UNCHANGED <<setup, clock, token, refreshAt, line, pc, carried, since, stale>>

\* A client's row is set active again; a key never is.
Reactivate ==
    /\ ~active
    /\ setup.manager # "key"
    /\ active' = TRUE
    /\ UNCHANGED <<setup, clock, revokedAt, token, refreshAt, line,
                   pc, carried, since, stale>>

Tick ==
    /\ clock < MaxClock
    /\ \A c \in Callers : pc[c] \in UnderWay => clock < since[c] + Delay
    /\ clock' = clock + 1
    /\ UNCHANGED <<setup, active, revokedAt, token, refreshAt, line,
                   pc, carried, since, stale>>

---------------------------------------------------------------------------
Progress(c) ==
    \/ Recheck(c) \/ LookUp(c) \/ Sign(c) \/ Arrive(c) \/ IssueSidecarToken(c)
    \/ ArriveSidecarToken(c) \/ Denied(c) \/ Lost(c) \/ Check(c)

Around == Revoke \/ Reactivate \/ Tick

TokenNext ==
    \/ \E c \in Callers : GetToken(c) \/ Progress(c) \/ Done(c)
    \/ Around

TokenSpec == TokenInit /\ [][TokenNext]_tokenVars

---------------------------------------------------------------------------
(* Properties.                                                             *)

Credentials == [kind : {"jwt", "key", "shared", "none"},
                aud : {"", "anon-gateway", "anon-sidecar"}, exp : Nat]
Steps == {"idle", "wait", "sent"} \cup Fetching \cup Ended

\* Types.
TokenTypeOK ==
    /\ setup \in Setups
    /\ clock \in 0..MaxClock
    /\ active \in BOOLEAN
    /\ revokedAt \in 0..clock
    /\ token \in Credentials
    /\ refreshAt \in Nat
    /\ line \in Seq(Callers)
    /\ pc \in [Callers -> Steps]
    /\ carried \in [Callers -> Credentials]
    /\ since \in [Callers -> 0..clock]
    /\ stale \in [Callers -> BOOLEAN]

\* However many calls find the token due, one of them fetches at a time
\* (oauth_client.py:71, mcp_server/server.py:83).
OneFetch ==
    \A c, d \in Callers : pc[c] \in Fetching /\ pc[d] \in Fetching => c = d

\* A token is replaced only once its refresh is due, although calls that
\* wait for the lock found it due before another call fetched the new one
\* (oauth_client.py:72-73).
ReplacedOnlyWhenDue ==
    [][token' # token => token = Nothing \/ clock >= refreshAt]_tokenVars

\* A token is refused for its age only where the refresh has just failed,
\* which only the MCP server goes on after: fetching at 80 % of the lifetime
\* leaves room for a slow answer and a slow call (oauth_client.py:29-30,
\* mcp_server/server.py:101-103).
ExpiredOnlyAfterFailure ==
    \A c \in Callers :
        pc[c] = "sent" /\ carried[c].kind = "jwt" /\ clock >= carried[c].exp
            => stale[c] /\ setup.manager = "mcp"

\* How long a call is still let in after the row went inactive: a key not
\* at all, a token as long as it lives, one exchanged for another a little
\* longer.  Nothing but expiry ends a token (auth.py:43-47).
Grace == CASE setup.manager = "key" -> 0
           [] setup.manager = "sidecar" -> Ttl + Delay - 1
           [] setup.manager = "mcp" -> Ttl + 3 * Delay - 1

\* Whatever was cached, under way or being exchanged when a client or a key
\* was revoked, its calls are refused when that time is over, and a failed
\* refresh does not keep an old token alive (auth.py:60-68,
\* oauth_router.py:134-142, mcp_server/server.py:101-108).
RevocationEnds ==
    \A c \in Callers :
        /\ pc[c] = "served" /\ ~active
        /\ setup.manager = "mcp" => setup.guard = "jwt"
        => since[c] <= revokedAt + Grace

\* Every call that waits for a token ends, whatever fails for the others
\* before it in the line (oauth_client.py:71-76).
CallsEnd == \A c \in Callers : pc[c] = "wait" ~> pc[c] \in Ended

---------------------------------------------------------------------------
(* Why the invariants hold: their inductive strengthening.                 *)

\* The line has every call at most once: those that wait and the one that
\* fetches, which is its head and had found no fresh token.
InLine(c) == \E i \in 1..Len(line) : line[i] = c
LineOnce == \A i, j \in 1..Len(line) : line[i] = line[j] => i = j
Lined(c) ==
    /\ InLine(c) <=> pc[c] \in Fetching \cup {"wait"}
    /\ pc[c] \in Fetching => line # <<>> /\ Head(line) = c /\ ~Fresh

\* What only one kind of manager does.
Managed(c) ==
    /\ pc[c] \in Fetching \cup {"wait"} => setup.manager # "key"
    /\ carried[c].kind = "jwt" => setup.manager # "key"
    /\ pc[c] \in {"exchange", "exchanged"} => setup.manager = "mcp"
    /\ stale[c] => setup.manager = "mcp"

\* The token is refreshed Delay before it expires, and what has just been
\* signed, or was sent without a failure, has time left to arrive.
TokenTimely ==
    /\ token # Nothing => /\ setup.manager # "key" /\ token.kind = "jwt"
                          /\ refreshAt + Delay <= token.exp
    /\ token.exp <= clock + Ttl
Timely(c) ==
    /\ pc[c] \in UnderWay => clock <= since[c] + Delay
    /\ pc[c] \in {"signed", "exchanged"} =>
          carried[c].kind = "jwt" /\ carried[c].exp = since[c] + Ttl
    /\ pc[c] = "sent" /\ carried[c].kind = "jwt" /\ ~stale[c] =>
          since[c] + Delay < carried[c].exp
    /\ carried[c].exp <= clock + Ttl

\* How far the answers to an inactive client's requests reach.
TokenLapses == ~active /\ token # Nothing => token.exp <= revokedAt + Grace + 1
Lapses(c) ==
    ~active =>
        /\ pc[c] = "row" => since[c] <= revokedAt
        /\ pc[c] = "signed" => since[c] <= revokedAt + Delay
        /\ pc[c] = "exchange" => since[c] <= revokedAt + 2 * Delay
        /\ pc[c] = "exchanged" => since[c] <= revokedAt + 3 * Delay
        /\ pc[c] = "sent" /\ carried[c].kind = "jwt" =>
              carried[c].exp <= revokedAt + Grace + 1

CallOK(c) == Lined(c) /\ Managed(c) /\ Timely(c) /\ Lapses(c)

IInv ==
    /\ TokenTypeOK
    /\ LineOnce
    /\ TokenTimely
    /\ TokenLapses
    /\ \A c \in Callers : CallOK(c)
    /\ RevocationEnds
===========================================================================
