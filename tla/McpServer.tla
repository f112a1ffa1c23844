----------------------------- MODULE McpServer -----------------------------
(***************************************************************************)
(* mcp_server/server.py: query_db, whose rows go through the sidecar, and  *)
(* the switch that turns that off, a file shared by every process.  The    *)
(* calls to the sidecar take their credential from OAuthTokens, whose      *)
(* other kinds of manager are the sidecar's own calls to the gateway.      *)
(***************************************************************************)
EXTENDS OAuthTokens

VARIABLES
    env,     \* ENV_DISABLED
    flag,    \* the file at FLAG_PATH exists
    off,     \* history: off[c], it was off at some time since c was called
    bare,    \* history: bare[c], c was answered a 200 without anonymized_text
    reply    \* reply[c]: "asked" until query_db answers; then rows in "clear",
             \* or "hidden": with tokens, or an error and no rows

mcpVars == <<env, flag, off, bare, reply>>
vars == <<tokenVars, mcpVars>>

AnonymizationDisabled == env \/ flag

Init ==
    /\ TokenInit
    /\ env \in BOOLEAN
    /\ flag \in BOOLEAN
    /\ setup.manager # "mcp" => ~AnonymizationDisabled
    /\ off = [c \in Callers |-> FALSE]
    /\ bare = [c \in Callers |-> FALSE]
    /\ reply = [c \in Callers |-> "hidden"]

Answer(c, r) == reply' = [reply EXCEPT ![c] = r]
Asked(c) == setup.manager = "mcp" /\ reply[c] = "asked" /\ pc[c] = "idle"

\* query_db is called.
Call(c) ==
    /\ setup.manager = "mcp" /\ reply[c] # "asked"
    /\ Answer(c, "asked")
    /\ off' = [off EXCEPT ![c] = AnonymizationDisabled]
    /\ bare' = [bare EXCEPT ![c] = FALSE]
    /\ UNCHANGED <<tokenVars, env, flag>>

\* _validate_sql refuses the statement, or the database does.
QueryRefused(c) ==
    /\ Asked(c)
    /\ Answer(c, "hidden")
    /\ UNCHANGED <<tokenVars, env, flag, off, bare>>

\* The switch is read after the rows, before the first await.
QueryInClear(c) ==
    /\ Asked(c)
    /\ AnonymizationDisabled
    /\ Answer(c, "clear")
    /\ UNCHANGED <<tokenVars, env, flag, off, bare>>

\* Any other call is one of the sidecar's own.
Query(c) ==
    /\ setup.manager = "mcp" => Asked(c) /\ ~AnonymizationDisabled
    /\ GetToken(c)
    /\ UNCHANGED mcpVars

\* The sidecar's answer: rows with tokens if it is a 200, else an error.
\* (Mutant: the rows themselves when the call fails.)
MutReply(c) ==
    /\ Done(c)
    /\ Answer(c, IF pc[c] = "served" THEN "hidden" ELSE "clear")
    /\ UNCHANGED <<env, flag, off, bare>>
Reply(c) ==
    /\ Done(c)
    /\ Answer(c, "hidden")
    /\ UNCHANGED <<env, flag, off, bare>>

\* data.get("anonymized_text", csv_text): a 200 without the field is answered
\* with the rows.
ReplyBare(c) ==
    /\ setup.manager = "mcp" /\ pc[c] = "served"
    /\ Done(c)
    /\ Answer(c, "clear")
    /\ bare' = [bare EXCEPT ![c] = TRUE]
    /\ UNCHANGED <<env, flag, off>>

\* set_anonymization, from any process, or by hand.
Enable ==
    /\ flag /\ ~env
    /\ flag' = FALSE
    /\ UNCHANGED <<tokenVars, env, off, bare, reply>>
Disable ==
    /\ ~flag
    /\ flag' = TRUE
    /\ off' = [c \in Callers |-> off[c] \/ reply[c] = "asked"]
    /\ UNCHANGED <<tokenVars, env, bare, reply>>

Next ==
    \/ \E c \in Callers :
          \/ Call(c) \/ QueryRefused(c) \/ QueryInClear(c) \/ Query(c) \/ Reply(c) \/ ReplyBare(c)
          \/ Progress(c) /\ UNCHANGED mcpVars
    \/ Around /\ UNCHANGED mcpVars
    \/ setup.manager = "mcp" /\ (Enable \/ Disable)

\* Every message is answered or given up after a timeout, and the lock is
\* passed on: a call that has begun goes on.
Spec == Init /\ [][Next]_vars
        /\ \A c \in Callers : WF_vars(Progress(c) /\ UNCHANGED mcpVars)

---------------------------------------------------------------------------
\* Types.
TypeOK ==
    /\ TokenTypeOK
    /\ env \in BOOLEAN /\ flag \in BOOLEAN
    /\ off \in [Callers -> BOOLEAN] /\ bare \in [Callers -> BOOLEAN]
    /\ reply \in [Callers -> {"asked", "clear", "hidden"}]

\* query_db answers with rows in clear in two cases only: the switch was off
\* at some time during the call, however it was turned meanwhile, or a sidecar
\* that let the call in answered 200 without the field anonymized_text, for
\* which the code falls back to the rows (server.py:268).  No token that is
\* late or refused, no outage and no error does (server.py:249, 259-262).
NoClearByFailure ==
    \A c \in Callers : reply[c] = "clear" => off[c] \/ bare[c]
===========================================================================
