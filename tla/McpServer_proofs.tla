-------------------------- MODULE McpServer_proofs --------------------------
(***************************************************************************)
(* Theorems about OAuthTokens and the MCP server that uses it, for any     *)
(* number of calls and any lifetimes that leave room for two messages      *)
(* between the refresh and the expiry.  CallMoves reduces an action of one *)
(* call to what it does to that call, to the line and to the token; one    *)
(* lemma per action gives just that.  The theorems about TokenSpec hold of *)
(* the MCP server too: its steps move the tokens as OAuthTokens says.      *)
(***************************************************************************)
EXTENDS McpServer, TLAPS

InQueue(q, c) == \E i \in 1..Len(q) : q[i] = c
Once(q) == \A i, j \in 1..Len(q) : q[i] = q[j] => i = j
Lining == Fetching \cup {"wait"}

---------------------------------------------------------------------------
\* What leaving and joining a line does to it.
LEMMA PopFacts ==
    ASSUME NEW S, NEW q \in Seq(S), q # <<>>, Once(q)
    PROVE  /\ Tail(q) \in Seq(S)
           /\ Once(Tail(q))
           /\ \A d : InQueue(Tail(q), d) <=> InQueue(q, d) /\ d # Head(q)
  <1> DEFINE p == Tail(q)
  <1>1. /\ p \in Seq(S) /\ Len(q) \in Nat \ {0} /\ Len(p) = Len(q) - 1
        /\ Head(q) = q[1]
        /\ \A i \in 1..(Len(q) - 1) : p[i] = q[i + 1]
    OBVIOUS
  <1> HIDE DEF p
  <1>2. Once(p)
    <2> SUFFICES ASSUME NEW i \in 1..Len(p), NEW j \in 1..Len(p), p[i] = p[j]
                 PROVE  i = j
      BY DEF Once
    <2>1. /\ p[i] = q[i + 1] /\ p[j] = q[j + 1]
          /\ i + 1 \in 1..Len(q) /\ j + 1 \in 1..Len(q)
      BY <1>1
    <2>2. i + 1 = j + 1
      BY <2>1 DEF Once
    <2> QED BY <2>2
  <1>3. ASSUME NEW d, InQueue(p, d)
        PROVE  InQueue(q, d) /\ d # Head(q)
    <2>1. PICK i \in 1..Len(p) : p[i] = d
      BY <1>3 DEF InQueue
    <2>2. q[i + 1] = d /\ i + 1 \in 1..Len(q) /\ 1 \in 1..Len(q) /\ i + 1 # 1
      BY <1>1, <2>1
    <2>3. q[i + 1] # q[1]
      BY <2>2 DEF Once
    <2> QED BY <1>1, <2>2, <2>3 DEF InQueue
  <1>4. ASSUME NEW d, InQueue(q, d), d # Head(q)
        PROVE  InQueue(p, d)
    <2>1. PICK i \in 1..Len(q) : q[i] = d
      BY <1>4 DEF InQueue
    <2>2. i # 1
      BY <1>1, <1>4, <2>1
    <2>3. i - 1 \in 1..Len(p) /\ p[i - 1] = q[(i - 1) + 1] /\ (i - 1) + 1 = i
      BY <1>1, <2>2
    <2> QED BY <2>1, <2>3 DEF InQueue
  <1> QED BY <1>1, <1>2, <1>3, <1>4 DEF p

LEMMA PushFacts ==
    ASSUME NEW S, NEW q \in Seq(S), NEW c \in S, Once(q), ~InQueue(q, c)
    PROVE  /\ Append(q, c) \in Seq(S)
           /\ Once(Append(q, c))
           /\ \A d : InQueue(Append(q, c), d) <=> InQueue(q, d) \/ d = c
           /\ Append(q, c) # <<>>
           /\ q # <<>> => Head(Append(q, c)) = Head(q)
  <1> DEFINE p == Append(q, c)
             n == Len(q)
  <1>1. /\ p \in Seq(S) /\ n \in Nat /\ Len(p) = n + 1 /\ p # <<>>
        /\ \A i \in 1..n : p[i] = q[i]
        /\ p[n + 1] = c
        /\ Head(p) = p[1]
        /\ q # <<>> => n # 0 /\ Head(q) = q[1]
    OBVIOUS
  <1> HIDE DEF p, n
  <1>2. \A i \in 1..n : p[i] # c
    BY <1>1 DEF InQueue, n
  <1>3. Once(p)
    <2> SUFFICES ASSUME NEW i \in 1..Len(p), NEW j \in 1..Len(p), p[i] = p[j]
                 PROVE  i = j
      BY DEF Once
    <2>1. CASE i \in 1..n /\ j \in 1..n
      BY <1>1, <2>1 DEF Once, n
    <2>2. CASE ~(i \in 1..n /\ j \in 1..n)
      BY <1>1, <1>2, <2>2
    <2> QED BY <2>1, <2>2
  <1>4. ASSUME NEW d
        PROVE  InQueue(p, d) <=> InQueue(q, d) \/ d = c
    <2>1. ASSUME InQueue(p, d), d # c PROVE InQueue(q, d)
      <3>1. PICK i \in 1..Len(p) : p[i] = d
        BY <2>1 DEF InQueue
      <3>2. i \in 1..n
        BY <1>1, <2>1, <3>1
      <3> QED BY <1>1, <3>1, <3>2 DEF InQueue, n
    <2>2. ASSUME InQueue(q, d) PROVE InQueue(p, d)
      <3>1. PICK i \in 1..n : q[i] = d
        BY <2>2 DEF InQueue, n
      <3>2. i \in 1..Len(p) /\ p[i] = d
        BY <1>1, <3>1
      <3> QED BY <3>2 DEF InQueue
    <2>3. InQueue(p, c)
      <3>1. n + 1 \in 1..Len(p) /\ p[n + 1] = c
        BY <1>1
      <3> QED BY <3>1 DEF InQueue
    <2> QED BY <2>1, <2>2, <2>3
  <1>5. q # <<>> => Head(p) = Head(q)
    <2>1. q # <<>> => 1 \in 1..n
      BY <1>1
    <2> QED BY <1>1, <2>1
  <1> QED BY <1>1, <1>3, <1>4, <1>5 DEF p

---------------------------------------------------------------------------
\* What an action of call c does to the others, to the line and to the token.
Same(d) ==
    /\ pc'[d] = pc[d] /\ carried'[d] = carried[d]
    /\ since'[d] = since[d] /\ stale'[d] = stale[d]

LineMoves(c) ==
    \/ line' = line /\ (pc[c] \in Lining <=> pc'[c] \in Lining)
    \/ line' = Tail(line) /\ line # <<>> /\ Head(line) = c /\ pc'[c] \notin Lining
    \/ line' = Append(line, c) /\ pc[c] \notin Lining /\ pc'[c] = "wait"

Enters(c) ==
    pc'[c] \in Fetching =>
        /\ line # <<>> /\ Head(line) = c /\ ~Fresh
        /\ UNCHANGED <<line, token, refreshAt>>

TokenMoves(c) == UNCHANGED <<token, refreshAt>> \/ pc[c] \in Fetching

\* The values of c's own are typed, those of the others the same.
Placed(c) ==
    /\ pc' \in [Callers -> Steps] /\ carried' \in [Callers -> Credentials]
    /\ since' \in [Callers -> 0..clock]
    /\ \A d \in Callers \ {c} : /\ pc'[d] = pc[d] /\ carried'[d] = carried[d]
                                /\ since'[d] = since[d]

Quiet == UNCHANGED <<fixed, token, refreshAt, line, stale>>

\* c stays in the line or out of it, and fetches only as its head.
InPlace(c) ==
    /\ pc[c] \in Lining <=> pc'[c] \in Lining
    /\ pc'[c] \in Fetching =>
           pc[c] \in Fetching \/ (pc[c] = "wait" /\ Head(line) = c /\ ~Fresh)

Ends(c) ==
    /\ pc[c] = "served" /\ ~active
    /\ setup.manager = "mcp" => setup.guard = "jwt"
    => since[c] <= revokedAt + Grace

LEMMA CallMoves ==
    ASSUME IInv, NEW c \in Callers, UNCHANGED fixed,
           \A d \in Callers \ {c} : Same(d),
           TokenTypeOK', TokenTimely', TokenLapses',
           LineMoves(c), Enters(c), TokenMoves(c),
           Managed(c)', Timely(c)', Lapses(c)', Ends(c)'
    PROVE  IInv'
  <1>1. /\ line \in Seq(Callers) /\ Once(line)
        /\ \A d \in Callers : InQueue(line, d) <=> pc[d] \in Lining
        /\ \A d \in Callers : pc[d] \in Fetching => line # <<>> /\ Head(line) = d
    BY DEF IInv, TokenTypeOK, LineOnce, Once, CallOK, Lined, InLine, InQueue, Lining
  <1>2. /\ Once(line')
        /\ \A d \in Callers \ {c} : InQueue(line', d) <=> InQueue(line, d)
        /\ InQueue(line', c) <=> pc'[c] \in Lining
    <2>1. CASE line' = line /\ (pc[c] \in Lining <=> pc'[c] \in Lining)
      BY <1>1, <2>1
    <2>2. CASE line' = Tail(line) /\ line # <<>> /\ Head(line) = c /\ pc'[c] \notin Lining
      BY <1>1, <2>2, PopFacts
    <2>3. CASE line' = Append(line, c) /\ pc[c] \notin Lining /\ pc'[c] = "wait"
      <3>1. ~InQueue(line, c) /\ pc'[c] \in Lining
        BY <1>1, <2>3 DEF Lining
      <3> QED BY <1>1, <2>3, <3>1, PushFacts
    <2> QED BY <2>1, <2>2, <2>3 DEF LineMoves
  <1>3. ASSUME NEW d \in Callers \ {c}
        PROVE  CallOK(d)' /\ Ends(d)'
    <2>1. Same(d) /\ CallOK(d) /\ Ends(d)
      BY DEF IInv, RevocationEnds, Ends
    <2>2. pc[d] \in Fetching =>
            /\ line' # <<>> /\ Head(line') = d
            /\ UNCHANGED <<token, refreshAt>>
      <3> SUFFICES ASSUME pc[d] \in Fetching
                   PROVE  /\ line' # <<>> /\ Head(line') = d
                          /\ UNCHANGED <<token, refreshAt>>
        OBVIOUS
      <3>1. line # <<>> /\ Head(line) = d /\ Head(line) # c
        BY <1>1
      <3>2. UNCHANGED <<token, refreshAt>>
        BY <1>1, <3>1 DEF TokenMoves
      <3>3. CASE line' = line
        BY <3>1, <3>2, <3>3
      <3>4. CASE line' = Append(line, c) /\ pc[c] \notin Lining
        <4>1. ~InQueue(line, c)
          BY <1>1, <3>4
        <4> QED BY <1>1, <3>1, <3>2, <3>4, <4>1, PushFacts
      <3> QED BY <3>1, <3>3, <3>4 DEF LineMoves
    <2>3. Lined(d)'
      <3>1. InQueue(line', d) <=> pc'[d] \in Lining
        BY <1>1, <1>2, <2>1 DEF Same
      <3>2. pc'[d] \in Fetching => line' # <<>> /\ Head(line') = d /\ ~Fresh'
        BY <2>1, <2>2 DEF Same, CallOK, Lined, Fresh, fixed
      <3> QED BY <3>1, <3>2 DEF Lined, InLine, InQueue, Lining
    <2>4. Managed(d)' /\ Timely(d)' /\ Lapses(d)'
      BY <2>1 DEF Same, CallOK, Managed, Timely, Lapses, Grace, fixed
    <2>5. Ends(d)'
      BY <2>1 DEF Same, Ends, Grace, fixed
    <2> QED BY <2>3, <2>4, <2>5 DEF CallOK
  <1>4. Lined(c)'
    <2>1. pc'[c] \in Fetching => line' # <<>> /\ Head(line') = c /\ ~Fresh'
      BY DEF Enters, Fresh, fixed
    <2> QED BY <1>2, <2>1 DEF Lined, InLine, InQueue, Lining
  <1>5. \A d \in Callers : CallOK(d)' /\ Ends(d)'
    BY <1>3, <1>4 DEF CallOK
  <1>6. LineOnce'
    BY <1>2 DEF LineOnce, Once
  <1> QED BY <1>5, <1>6 DEF IInv, RevocationEnds, Ends

---------------------------------------------------------------------------
\* Credentials are credentials, and Grace is a number.
LEMMA CredentialFacts ==
    /\ Nothing \in Credentials /\ Nothing.kind = "none" /\ Nothing.exp = 0
    /\ Plain("key") \in Credentials /\ Plain("key").kind = "key"
    /\ Plain("key").exp = 0
    /\ Plain("shared") \in Credentials /\ Plain("shared").kind = "shared"
    /\ Plain("shared").exp = 0
    /\ \A n \in Nat :
          /\ Jwt("anon-gateway", n) \in Credentials
          /\ Jwt("anon-gateway", n).kind = "jwt" /\ Jwt("anon-gateway", n).exp = n
          /\ Jwt("anon-gateway", n) # Nothing
          /\ Jwt("anon-sidecar", n) \in Credentials
          /\ Jwt("anon-sidecar", n).kind = "jwt" /\ Jwt("anon-sidecar", n).exp = n
          /\ Jwt("anon-sidecar", n) # Nothing
  BY DEF Nothing, Plain, Jwt, Credentials

LEMMA SettingFacts ==
    ASSUME TokenTypeOK
    PROVE  /\ setup.manager \in {"sidecar", "mcp", "key"}
           /\ Ttl \in Nat /\ Delay \in Nat /\ Refresh \in Nat \ {0}
           /\ Refresh + 2 * Delay <= Ttl
           /\ clock \in Nat /\ revokedAt \in 0..clock
           /\ Grace \in Nat
           /\ setup.manager = "key" => Grace = 0
           /\ setup.manager = "sidecar" => Grace = Ttl + Delay - 1
           /\ setup.manager = "mcp" => Grace = Ttl + 3 * Delay - 1
  <1>1. /\ setup.manager \in {"sidecar", "mcp", "key"}
        /\ Ttl \in Nat /\ Delay \in Nat /\ Refresh \in Nat \ {0}
        /\ Refresh + 2 * Delay <= Ttl
        /\ clock \in Nat /\ revokedAt \in 0..clock
    BY TokenAssumption DEF TokenTypeOK
  <1> QED BY <1>1 DEF Grace

\* A message leaves, or a call comes to rest: its own values and the others'.
LEMMA PostFacts ==
    ASSUME TokenTypeOK, NEW c \in Callers, NEW step, step \in Steps,
           NEW cred \in Credentials, Post(c, step, cred)
    PROVE  Placed(c) /\ pc'[c] = step /\ carried'[c] = cred /\ since'[c] = clock
  BY DEF TokenTypeOK, Post, Placed

LEMMA GotoFacts ==
    ASSUME TokenTypeOK, NEW c \in Callers, NEW step, step \in Steps,
           Goto(c, step)
    PROVE  Placed(c) /\ pc'[c] = step /\ carried'[c] = Nothing /\ since'[c] = 0
  BY CredentialFacts DEF TokenTypeOK, Goto, Placed

\* The credential a fresh token is.
LEMMA TokenFacts ==
    ASSUME IInv
    PROVE  /\ token \in Credentials
           /\ token # Nothing => setup.manager # "key"
           /\ Fresh => /\ token.kind = "jwt" /\ clock + Delay < token.exp
                       /\ token.exp <= clock + Ttl
                       /\ ~active => token.exp <= revokedAt + Grace + 1
           /\ token # Nothing => token.kind = "jwt"
           /\ token.exp <= clock + Ttl
           /\ token # Nothing /\ ~active => token.exp <= revokedAt + Grace + 1
  <1>1. /\ Delay \in Nat /\ clock \in Nat /\ refreshAt \in Nat /\ token \in Credentials
        /\ token.exp \in Nat
    BY SettingFacts DEF IInv, TokenTypeOK, Credentials
  <1> QED BY <1>1 DEF IInv, TokenTimely, TokenLapses, Fresh

\* An action that leaves the token, the line and the history alone.
LEMMA QuietMove ==
    ASSUME IInv, NEW c \in Callers, Quiet, Placed(c), InPlace(c),
           Managed(c)', Timely(c)', Lapses(c)', Ends(c)'
    PROVE  IInv'
  <1>1. TokenTypeOK'
    BY DEF IInv, TokenTypeOK, Quiet, Placed, fixed
  <1>2. TokenTimely' /\ TokenLapses'
    BY DEF IInv, TokenTimely, TokenLapses, Grace, Quiet, fixed
  <1>3. \A d \in Callers \ {c} : Same(d)
    BY DEF Same, Quiet, Placed
  <1>4. LineMoves(c) /\ TokenMoves(c)
    BY DEF LineMoves, TokenMoves, Quiet, InPlace
  <1>5. Enters(c)
    <2>1. CASE pc[c] \in Fetching
      BY <2>1 DEF IInv, CallOK, Lined, Enters, Quiet
    <2>2. CASE pc[c] = "wait" /\ Head(line) = c /\ ~Fresh
      <3>1. InLine(c)
        BY <2>2 DEF IInv, CallOK, Lined
      <3>2. line # <<>>
        <4>1. PICK i \in 1..Len(line) : line[i] = c
          BY <3>1 DEF InLine
        <4>2. line \in Seq(Callers) /\ Len(line) # 0
          BY <4>1 DEF IInv, TokenTypeOK
        <4> QED BY <4>2
      <3> QED BY <2>2, <3>2 DEF Enters, Quiet
    <2> QED BY <2>1, <2>2 DEF Enters, InPlace
  <1>6. UNCHANGED fixed
    BY DEF Quiet
  <1> QED BY <1>1, <1>2, <1>3, <1>4, <1>5, <1>6, CallMoves

\* Quiet moves: the call comes to rest, or one of its messages leaves.
LEMMA GotoKeeps ==
    ASSUME IInv, NEW c \in Callers, Quiet, NEW step, step \in Steps,
           step \notin UnderWay, step # "served", Goto(c, step),
           pc[c] \in Lining <=> step \in Lining,
           step \in Fetching =>
               pc[c] \in Fetching \/ (pc[c] = "wait" /\ Head(line) = c /\ ~Fresh)
    PROVE  IInv'
  <1>1. TokenTypeOK /\ Managed(c)
    BY DEF IInv, CallOK
  <1>2. Placed(c) /\ pc'[c] = step /\ carried'[c] = Nothing
    BY <1>1, GotoFacts
  <1>3. Managed(c)' /\ Timely(c)'
    BY <1>1, <1>2, CredentialFacts, SettingFacts
       DEF Managed, Timely, Lining, UnderWay, Quiet, fixed
  <1>4. Lapses(c)' /\ Ends(c)'
    BY <1>2 DEF Lapses, Ends, UnderWay
  <1>5. InPlace(c)
    BY <1>2 DEF InPlace
  <1> QED BY <1>2, <1>3, <1>4, <1>5, QuietMove

\* A message that leaves in time.
LeavesInTime(c, step, cred) ==
    /\ cred.kind = "jwt" => setup.manager # "key"
    /\ step \in {"signed", "exchanged"} => cred.kind = "jwt" /\ cred.exp = clock + Ttl
    /\ step = "sent" /\ cred.kind = "jwt" /\ ~stale[c] => clock + Delay < cred.exp
    /\ cred.exp <= clock + Ttl

LeavesLawfully(step, cred) ==
    ~active =>
        /\ step = "row" => clock <= revokedAt
        /\ step = "signed" => clock <= revokedAt + Delay
        /\ step = "exchange" => clock <= revokedAt + 2 * Delay
        /\ step = "exchanged" => clock <= revokedAt + 3 * Delay
        /\ step = "sent" /\ cred.kind = "jwt" => cred.exp <= revokedAt + Grace + 1

LEMMA PostKeeps ==
    ASSUME IInv, NEW c \in Callers, Quiet, NEW step, step \in UnderWay,
           NEW cred \in Credentials, Post(c, step, cred),
           pc[c] \in Lining <=> step \in Lining,
           step \in Fetching => pc[c] \in Fetching,
           step \in {"exchange", "exchanged"} => setup.manager = "mcp",
           LeavesInTime(c, step, cred), LeavesLawfully(step, cred)
    PROVE  IInv'
  <1>1. TokenTypeOK /\ Managed(c) /\ step \in Steps
    BY DEF IInv, CallOK, UnderWay, Steps, Fetching
  <1>2. Placed(c) /\ pc'[c] = step /\ carried'[c] = cred /\ since'[c] = clock
    BY <1>1, PostFacts
  <1>3. Managed(c)'
    BY <1>1, <1>2 DEF Managed, LeavesInTime, Lining, Quiet, fixed
  <1>4. Timely(c)'
    BY <1>1, <1>2, SettingFacts DEF Timely, LeavesInTime, Quiet, fixed
  <1>5. Lapses(c)'
    BY <1>2 DEF Lapses, LeavesLawfully, Grace, Quiet, fixed
  <1>6. Ends(c)'
    BY <1>2 DEF Ends, UnderWay
  <1>7. InPlace(c)
    BY <1>2 DEF InPlace
  <1> QED BY <1>2, <1>3, <1>4, <1>5, <1>6, <1>7, QuietMove

---------------------------------------------------------------------------
(* The gateway's answers.                                                  *)

LEMMA LookUpKeeps ==
    ASSUME IInv, NEW c \in Callers, LookUp(c)
    PROVE  IInv'
  <1>1. pc[c] = "post" /\ Quiet
    BY DEF LookUp, Quiet
  <1>2. CASE active /\ Post(c, "row", Nothing)
    <2>1. LeavesInTime(c, "row", Nothing) /\ LeavesLawfully("row", Nothing)
      BY <1>2, CredentialFacts, SettingFacts DEF IInv, LeavesInTime, LeavesLawfully
    <2> QED BY <1>1, <1>2, <2>1, CredentialFacts, PostKeeps
            DEF UnderWay, Lining, Fetching
  <1>3. CASE Goto(c, "denied")
    BY <1>1, <1>3, GotoKeeps DEF UnderWay, Lining, Fetching, Steps
  <1> QED BY <1>2, <1>3 DEF LookUp

LEMMA SignKeeps ==
    ASSUME IInv, NEW c \in Callers, Sign(c)
    PROVE  IInv'
  <1> DEFINE t == Jwt("anon-gateway", clock + Ttl)
  <1>1. pc[c] = "row" /\ Quiet /\ Post(c, "signed", t)
    BY DEF Sign, Quiet
  <1>2. /\ TokenTypeOK /\ Timely(c) /\ Lapses(c) /\ Managed(c)
        /\ since[c] \in Nat
    BY DEF IInv, CallOK, TokenTypeOK
  <1>3. t \in Credentials /\ t.kind = "jwt" /\ t.exp = clock + Ttl
    BY <1>2, CredentialFacts, SettingFacts
  <1> HIDE DEF t
  <1>4. LeavesInTime(c, "signed", t) /\ LeavesLawfully("signed", t)
    BY <1>1, <1>2, <1>3, SettingFacts
       DEF LeavesInTime, LeavesLawfully, Managed, Timely, Lapses, Fetching, UnderWay
  <1> QED BY <1>1, <1>3, <1>4, PostKeeps DEF UnderWay, Lining, Fetching

LEMMA IssueSidecarTokenKeeps ==
    ASSUME IInv, NEW c \in Callers, IssueSidecarToken(c)
    PROVE  IInv'
  <1> DEFINE t == Jwt("anon-sidecar", clock + Ttl)
  <1>1. pc[c] = "exchange" /\ Quiet
    BY DEF IssueSidecarToken, Quiet
  <1>2. /\ TokenTypeOK /\ Timely(c) /\ Lapses(c) /\ Managed(c)
        /\ since[c] \in Nat
    BY DEF IInv, CallOK, TokenTypeOK
  <1>3. t \in Credentials /\ t.kind = "jwt" /\ t.exp = clock + Ttl
    BY <1>2, CredentialFacts, SettingFacts
  <1> HIDE DEF t
  <1>4. CASE Post(c, "exchanged", t)
    <2>1. LeavesInTime(c, "exchanged", t) /\ LeavesLawfully("exchanged", t)
      BY <1>1, <1>2, <1>3, SettingFacts
         DEF LeavesInTime, LeavesLawfully, Managed, Timely, Lapses, Fetching, UnderWay
    <2>2. setup.manager = "mcp"
      BY <1>1, <1>2 DEF Managed
    <2> QED BY <1>1, <1>3, <1>4, <2>1, <2>2, PostKeeps DEF UnderWay, Lining, Fetching
  <1>5. CASE Goto(c, "denied")
    BY <1>1, <1>5, GotoKeeps DEF UnderWay, Lining, Fetching, Steps
  <1> QED BY <1>4, <1>5 DEF IssueSidecarToken, t

LEMMA LostKeeps ==
    ASSUME IInv, NEW c \in Callers, Lost(c)
    PROVE  IInv'
  BY GotoKeeps DEF Lost, Quiet, UnderWay, Lining, Fetching, Steps

\* A call that is let in has a credential that has not expired.
LEMMA CheckKeeps ==
    ASSUME IInv, NEW c \in Callers, Check(c)
    PROVE  IInv'
  <1>1. pc[c] = "sent" /\ Quiet
    BY DEF Check, Quiet
  <1>2. CASE Goto(c, "refused") \/ Goto(c, "failed")
    BY <1>1, <1>2, GotoKeeps DEF UnderWay, Lining, Fetching, Steps, Ended
  <1>3. CASE Accepted(carried[c]) /\ Post(c, "served", Nothing)
    <2>1. /\ TokenTypeOK /\ Managed(c) /\ Lapses(c) /\ "served" \in Steps
          /\ carried[c] \in Credentials /\ carried[c].exp \in Nat
      BY DEF IInv, CallOK, Steps, Ended, TokenTypeOK, Credentials
    <2>2. Placed(c) /\ pc'[c] = "served" /\ carried'[c] = Nothing /\ since'[c] = clock
      BY <1>3, <2>1, CredentialFacts, PostFacts
    <2>3. Managed(c)' /\ Timely(c)'
      BY <1>1, <2>1, <2>2, CredentialFacts, SettingFacts
         DEF Managed, Timely, Fetching, UnderWay, Quiet, fixed
    <2>4. Lapses(c)' /\ InPlace(c)
      BY <1>1, <2>2 DEF Lapses, InPlace, Lining, Fetching
    <2>5. Ends(c)'
      <3> SUFFICES ASSUME ~active, setup.manager = "mcp" => setup.guard = "jwt"
                   PROVE  clock <= revokedAt + Grace
        BY <1>1, <2>2 DEF Ends, Grace, Quiet, fixed
      <3>1. carried[c].kind = "jwt" /\ clock < carried[c].exp
        <4>1. CASE setup.manager = "key"
          BY <1>3, <4>1 DEF Accepted
        <4>2. CASE setup.manager = "sidecar"
          BY <1>3, <4>2 DEF Accepted, Decodes
        <4>3. CASE setup.manager = "mcp" /\ setup.guard = "jwt"
          BY <1>3, <4>3 DEF Accepted, RequireToken, Decodes
        <4> QED BY <2>1, <4>1, <4>2, <4>3, SettingFacts
      <3>2. carried[c].exp <= revokedAt + Grace + 1
        BY <1>1, <2>1, <3>1 DEF Lapses
      <3> QED BY <2>1, <3>1, <3>2, SettingFacts
    <2> QED BY <1>1, <2>2, <2>3, <2>4, <2>5, QuietMove
  <1> QED BY <1>2, <1>3 DEF Check

---------------------------------------------------------------------------
(* The client's steps.                                                     *)

\* Whoever is in the line finds it nonempty.
LEMMA SomeoneInLine ==
    ASSUME IInv, NEW c \in Callers, pc[c] \in Lining
    PROVE  line # <<>>
  <1>1. InLine(c) /\ line \in Seq(Callers)
    BY DEF IInv, CallOK, Lined, Lining, TokenTypeOK
  <1>2. PICK i \in 1..Len(line) : line[i] = c
    BY <1>1 DEF InLine
  <1>3. Len(line) # 0
    BY <1>1, <1>2
  <1> QED BY <1>3

\* What a call may be sent off with when it leaves the line.
SentOK(c, cred) ==
    /\ stale' \in [Callers -> BOOLEAN]
    /\ \A d \in Callers \ {c} : stale'[d] = stale[d]
    /\ stale'[c] => setup.manager = "mcp"
    /\ cred.kind = "jwt" => setup.manager # "key"
    /\ cred.kind = "jwt" /\ ~stale'[c] => clock + Delay < cred.exp
    /\ cred.exp <= clock + Ttl
    /\ ~active /\ cred.kind = "jwt" => cred.exp <= revokedAt + Grace + 1

\* What the token is once the call has left the line.
TokenOK == token' \in Credentials /\ refreshAt' \in Nat /\ TokenTimely' /\ TokenLapses'

\* Leaving the line with a credential: the fresh token, a new one, or what
\* is left after a failure.
LEMMA SendKeeps ==
    ASSUME IInv, NEW c \in Callers, UNCHANGED fixed,
           pc[c] \in Lining, Head(line) = c, line' = Tail(line),
           NEW cred \in Credentials, Send(c, cred), SentOK(c, cred),
           TokenMoves(c), TokenOK
    PROVE  IInv'
  <1>1. /\ TokenTypeOK /\ LineOnce /\ line \in Seq(Callers)
        /\ line # <<>> /\ "sent" \in Steps
    BY SomeoneInLine DEF IInv, TokenTypeOK, Steps
  <1>2. Placed(c) /\ pc'[c] = "sent" /\ carried'[c] = cred /\ since'[c] = clock
    BY <1>1, PostFacts DEF Send
  <1>3. line' \in Seq(Callers)
    BY <1>1
  <1>4. TokenTypeOK'
    BY <1>1, <1>2, <1>3 DEF TokenTypeOK, Placed, SentOK, TokenOK, fixed
  <1>5. \A d \in Callers \ {c} : Same(d)
    BY <1>2 DEF Same, Placed, SentOK
  <1>6. LineMoves(c) /\ Enters(c)
    BY <1>1, <1>2 DEF LineMoves, Enters, Lining, Fetching
  <1>7. Managed(c)' /\ Ends(c)'
    BY <1>2 DEF Managed, Ends, SentOK, Fetching, fixed
  <1>8. Timely(c)'
    BY <1>1, <1>2, SettingFacts DEF Timely, SentOK, fixed
  <1>9. Lapses(c)'
    BY <1>2 DEF Lapses, SentOK, Grace, fixed
  <1> QED BY <1>4, <1>5, <1>6, <1>7, <1>8, <1>9, CallMoves DEF TokenOK

LEMMA TokenKept ==
    ASSUME IInv, UNCHANGED <<fixed, token, refreshAt>>
    PROVE  TokenOK
  BY DEF IInv, TokenTypeOK, TokenOK, TokenTimely, TokenLapses, Grace, fixed

LEMMA GetTokenKeeps ==
    ASSUME IInv, NEW c \in Callers, GetToken(c)
    PROVE  IInv'
  <1>1. pc[c] = "idle" /\ UNCHANGED <<fixed, token, refreshAt, stale>>
    BY DEF GetToken
  <1>2. TokenTypeOK /\ CallOK(c)
    BY DEF IInv
  <1>3. CASE /\ setup.manager = "key"
             /\ Send(c, Plain("key"))
             /\ UNCHANGED line
    <2>1. /\ LeavesInTime(c, "sent", Plain("key"))
          /\ LeavesLawfully("sent", Plain("key"))
      BY <1>2, CredentialFacts, SettingFacts DEF LeavesInTime, LeavesLawfully
    <2> QED BY <1>1, <1>3, <2>1, CredentialFacts, PostKeeps
            DEF Send, Quiet, UnderWay, Lining, Fetching
  <1>4. CASE Fresh /\ Send(c, token) /\ UNCHANGED line
    <2>1. LeavesInTime(c, "sent", token) /\ LeavesLawfully("sent", token)
      BY <1>4, TokenFacts DEF LeavesInTime, LeavesLawfully, Fresh
    <2> QED BY <1>1, <1>4, <2>1, TokenFacts, PostKeeps
            DEF Send, Quiet, UnderWay, Lining, Fetching
  <1>5. CASE /\ setup.manager # "key"
             /\ line' = Append(line, c)
             /\ Goto(c, "wait")
    <2>1. "wait" \in Steps
      BY DEF Steps
    <2>2. Placed(c) /\ pc'[c] = "wait" /\ carried'[c] = Nothing /\ since'[c] = 0
      BY <1>2, <1>5, <2>1, GotoFacts
    <2>3. line' \in Seq(Callers)
      BY <1>2, <1>5 DEF TokenTypeOK
    <2>4. TokenTypeOK'
      BY <1>1, <1>2, <2>2, <2>3 DEF TokenTypeOK, Placed, fixed
    <2>5. TokenTimely' /\ TokenLapses'
      BY <1>1, TokenKept DEF TokenOK
    <2>6. \A d \in Callers \ {c} : Same(d)
      BY <1>1, <2>2 DEF Same, Placed
    <2>7. LineMoves(c) /\ Enters(c) /\ TokenMoves(c)
      BY <1>1, <1>5, <2>2 DEF LineMoves, Enters, TokenMoves, Lining, Fetching
    <2>8. Managed(c)' /\ Ends(c)'
      BY <1>1, <1>2, <1>5, <2>2 DEF CallOK, Managed, Ends, Fetching, fixed
    <2>9. Timely(c)'
      BY <1>1, <1>2, <2>2, CredentialFacts, SettingFacts DEF Timely, UnderWay, fixed
    <2>10. Lapses(c)'
      BY <2>2 DEF Lapses
    <2>11. UNCHANGED fixed
      BY <1>1
    <2> QED BY <2>4, <2>5, <2>6, <2>7, <2>8, <2>9, <2>10, <2>11, CallMoves
  <1> QED BY <1>3, <1>4, <1>5 DEF GetToken

LEMMA RecheckKeeps ==
    ASSUME IInv, NEW c \in Callers, Recheck(c)
    PROVE  IInv'
  <1>1. /\ pc[c] = "wait" /\ Head(line) = c
        /\ UNCHANGED <<fixed, token, refreshAt, stale>>
    BY DEF Recheck
  <1>2. CASE Fresh /\ Send(c, token) /\ line' = Tail(line)
    <2>1. SentOK(c, token)
      BY <1>1, <1>2, TokenFacts DEF IInv, TokenTypeOK, CallOK, Managed, SentOK, Fresh
    <2>2. TokenOK /\ TokenMoves(c) /\ pc[c] \in Lining /\ UNCHANGED fixed
      BY <1>1, TokenKept DEF TokenMoves, Lining
    <2> QED BY <1>1, <1>2, <2>1, <2>2, TokenFacts, SendKeeps
  <1>3. CASE ~Fresh /\ Goto(c, "post") /\ UNCHANGED line
    <2>1. Quiet
      BY <1>1, <1>3 DEF Quiet
    <2> QED BY <1>1, <1>3, <2>1, GotoKeeps DEF UnderWay, Lining, Fetching, Steps
  <1> QED BY <1>2, <1>3 DEF Recheck

\* A token that arrives has more than Refresh and a message's time to live.
LEMMA StoreKeeps ==
    ASSUME IInv, NEW c \in Callers, Store(c),
           \/ pc[c] = "signed"
           \/ pc[c] = "exchanged"
    PROVE  IInv'
  <1> DEFINE t == carried[c]
  <1>1. /\ token' = t /\ refreshAt' = clock + Refresh /\ line' = Tail(line)
        /\ Send(c, t) /\ UNCHANGED fixed /\ UNCHANGED stale
    BY DEF Store
  <1>2. /\ TokenTypeOK /\ Timely(c) /\ Lapses(c) /\ Managed(c) /\ Lined(c)
        /\ since[c] \in Nat /\ since[c] <= clock
        /\ t \in Credentials /\ t.exp \in Nat
        /\ stale \in [Callers -> BOOLEAN]
    <2>1. TokenTypeOK /\ CallOK(c)
      BY DEF IInv
    <2>2. clock \in Nat /\ since[c] \in 0..clock /\ t \in Credentials
          /\ stale \in [Callers -> BOOLEAN]
      BY <2>1, SettingFacts DEF TokenTypeOK
    <2>3. since[c] \in Nat /\ since[c] <= clock
      BY <2>2
    <2> QED BY <2>1, <2>2, <2>3 DEF CallOK, Credentials
  <1>3. /\ pc[c] \in Fetching /\ Head(line) = c /\ setup.manager # "key"
        /\ pc[c] = "exchanged" => setup.manager = "mcp"
        /\ t.kind = "jwt" /\ t.exp = since[c] + Ttl /\ clock <= since[c] + Delay
    BY <1>2 DEF Timely, Managed, Lined, Fetching, UnderWay
  <1>4. ~active => t.exp <= revokedAt + Grace + 1
    <2> SUFFICES ASSUME ~active PROVE t.exp <= revokedAt + Grace + 1
      OBVIOUS
    <2>1. CASE pc[c] = "signed"
      BY <1>2, <1>3, <2>1, SettingFacts DEF Lapses
    <2>2. CASE pc[c] = "exchanged"
      BY <1>2, <1>3, <2>2, SettingFacts DEF Lapses
    <2> QED BY <2>1, <2>2
  <1> HIDE DEF t
  <1>5. /\ t.exp <= clock + Ttl /\ clock + Delay < t.exp
        /\ (clock + Refresh) + Delay <= t.exp
        /\ clock + Refresh \in Nat
    BY <1>2, <1>3, SettingFacts
  <1>6. SentOK(c, t)
    BY <1>1, <1>2, <1>3, <1>4, <1>5 DEF SentOK, Managed
  <1>7. TokenOK
    BY <1>1, <1>2, <1>3, <1>4, <1>5
       DEF TokenOK, TokenTimely, TokenLapses, Grace, fixed
  <1>8. TokenMoves(c) /\ pc[c] \in Lining
    BY <1>3 DEF TokenMoves, Lining
  <1> QED BY <1>1, <1>2, <1>3, <1>6, <1>7, <1>8, SendKeeps

LEMMA ArriveKeeps ==
    ASSUME IInv, NEW c \in Callers, Arrive(c)
    PROVE  IInv'
  <1>1. pc[c] = "signed"
    BY DEF Arrive
  <1>2. CASE Store(c)
    BY <1>1, <1>2, StoreKeeps
  <1>3. CASE /\ setup.manager = "mcp"
             /\ Post(c, "exchange", carried[c])
             /\ UNCHANGED <<fixed, token, refreshAt, line, stale>>
    <2>1. /\ TokenTypeOK /\ Managed(c) /\ Timely(c) /\ Lapses(c)
          /\ carried[c] \in Credentials /\ since[c] \in Nat
      BY DEF IInv, CallOK, TokenTypeOK
    <2>2. /\ LeavesInTime(c, "exchange", carried[c])
          /\ LeavesLawfully("exchange", carried[c])
      BY <1>1, <1>3, <2>1, SettingFacts
         DEF LeavesInTime, LeavesLawfully, Managed, Timely, Lapses, UnderWay
    <2> QED BY <1>1, <1>3, <2>1, <2>2, PostKeeps
            DEF Quiet, UnderWay, Lining, Fetching
  <1> QED BY <1>2, <1>3 DEF Arrive

LEMMA ArriveSidecarTokenKeeps ==
    ASSUME IInv, NEW c \in Callers, ArriveSidecarToken(c)
    PROVE  IInv'
  BY StoreKeeps DEF ArriveSidecarToken

\* After a failure: the sidecar's call ends, the MCP server's goes on.
LEMMA DeniedKeeps ==
    ASSUME IInv, NEW c \in Callers, Denied(c)
    PROVE  IInv'
  <1>1. /\ pc[c] = "denied" /\ line' = Tail(line)
        /\ UNCHANGED fixed /\ UNCHANGED <<token, refreshAt>>
    BY DEF Denied
  <1>2. /\ TokenTypeOK /\ CallOK(c) /\ stale \in [Callers -> BOOLEAN]
        /\ line \in Seq(Callers)
    BY DEF IInv, TokenTypeOK
  <1>3. Head(line) = c /\ line # <<>> /\ pc[c] \in Lining /\ pc[c] \in Fetching
    BY <1>1, <1>2 DEF CallOK, Lined, Lining, Fetching
  <1>4. TokenOK /\ TokenMoves(c)
    BY <1>1, TokenKept DEF TokenMoves
  <1>5. CASE Goto(c, "failed") /\ UNCHANGED stale
    <2>1. "failed" \in Steps
      BY DEF Steps, Ended
    <2>2. Placed(c) /\ pc'[c] = "failed" /\ carried'[c] = Nothing /\ since'[c] = 0
      BY <1>2, <1>5, <2>1, GotoFacts
    <2>3. line' \in Seq(Callers)
      BY <1>1, <1>2, <1>3
    <2>4. TokenTypeOK'
      BY <1>1, <1>2, <1>5, <2>2, <2>3 DEF TokenTypeOK, Placed, fixed
    <2>5. \A d \in Callers \ {c} : Same(d)
      BY <1>5, <2>2 DEF Same, Placed
    <2>6. LineMoves(c) /\ Enters(c)
      BY <1>1, <1>3, <2>2 DEF LineMoves, Enters, Lining, Fetching
    <2>7. Managed(c)' /\ Ends(c)' /\ Lapses(c)'
      BY <1>1, <1>2, <1>5, <2>2, CredentialFacts
         DEF CallOK, Managed, Ends, Lapses, Fetching, fixed
    <2>8. Timely(c)'
      BY <1>1, <1>2, <2>2, CredentialFacts, SettingFacts DEF Timely, UnderWay, fixed
    <2> QED BY <1>1, <1>4, <2>4, <2>5, <2>6, <2>7, <2>8, CallMoves DEF TokenOK
  <1>6. CASE /\ setup.manager = "mcp"
             /\ token # Nothing
             /\ Send(c, token)
             /\ stale' = [stale EXCEPT ![c] = TRUE]
    <2>1. SentOK(c, token)
      BY <1>2, <1>6, TokenFacts DEF SentOK
    <2> QED BY <1>1, <1>3, <1>4, <1>6, <2>1, TokenFacts, SendKeeps
  <1>7. ASSUME NEW legacy \in Legacy, Send(c, legacy),
               UNCHANGED stale
        PROVE  IInv'
    <2>1. legacy \in Credentials /\ legacy.kind # "jwt" /\ legacy.exp = 0
      BY CredentialFacts DEF Legacy
    <2>2. SentOK(c, legacy)
      BY <1>2, <1>7, <2>1, SettingFacts DEF CallOK, Managed, SentOK
    <2> QED BY <1>1, <1>3, <1>4, <1>7, <2>1, <2>2, SendKeeps
  <1> QED BY <1>5, <1>6, <1>7 DEF Denied

LEMMA DoneKeeps ==
    ASSUME IInv, NEW c \in Callers, Done(c)
    PROVE  IInv'
  <1>1. /\ pc[c] \in Ended /\ Goto(c, "idle")
        /\ stale' = [stale EXCEPT ![c] = FALSE]
        /\ UNCHANGED fixed /\ UNCHANGED <<token, refreshAt, line>>
    BY DEF Done
  <1>2. TokenTypeOK /\ "idle" \in Steps /\ stale \in [Callers -> BOOLEAN]
    BY DEF IInv, TokenTypeOK, Steps
  <1>3. Placed(c) /\ pc'[c] = "idle" /\ carried'[c] = Nothing /\ since'[c] = 0
    BY <1>1, <1>2, GotoFacts
  <1>4. TokenTypeOK'
    BY <1>1, <1>2, <1>3 DEF TokenTypeOK, Placed, fixed
  <1>5. \A d \in Callers \ {c} : Same(d)
    BY <1>1, <1>2, <1>3 DEF Same, Placed
  <1>6. LineMoves(c) /\ Enters(c) /\ TokenMoves(c)
    BY <1>1, <1>3 DEF LineMoves, Enters, TokenMoves, Ended, Lining, Fetching
  <1>7. ~stale'[c]
    BY <1>1, <1>2
  <1>8. Managed(c)' /\ Ends(c)' /\ Lapses(c)'
    BY <1>3, <1>7, CredentialFacts DEF Managed, Ends, Lapses, Fetching
  <1>9. Timely(c)'
    BY <1>1, <1>2, <1>3, CredentialFacts, SettingFacts DEF Timely, UnderWay, fixed
  <1>10. TokenTimely' /\ TokenLapses'
    BY <1>1, TokenKept DEF TokenOK
  <1> QED BY <1>1, <1>4, <1>5, <1>6, <1>8, <1>9, <1>10, CallMoves

---------------------------------------------------------------------------
(* What happens around the calls.                                          *)

\* Every time that appears is a number.
LEMMA Times ==
    ASSUME TokenTypeOK, NEW c \in Callers
    PROVE  /\ clock \in Nat /\ since[c] \in Nat /\ since[c] <= clock
           /\ carried[c] \in Credentials /\ carried[c].exp \in Nat
  <1>1. clock \in Nat /\ since[c] \in 0..clock /\ carried[c] \in Credentials
    BY SettingFacts DEF TokenTypeOK
  <1>2. since[c] \in Nat /\ since[c] <= clock
    BY <1>1
  <1> QED BY <1>1, <1>2 DEF Credentials

\* The line, the calls and the token do not move: their parts of IInv that
\* know nothing of the time or the row hold on.
Still == UNCHANGED <<setup, token, refreshAt, line, pc, carried, since, stale>>

LEMMA StillFacts ==
    ASSUME IInv, Still, ~Fresh => ~Fresh'
    PROVE  LineOnce' /\ \A c \in Callers : Lined(c)' /\ Managed(c)'
  <1>1. LineOnce'
    BY DEF IInv, Still, LineOnce
  <1>2. ASSUME NEW c \in Callers PROVE Lined(c)'
    BY DEF IInv, CallOK, Still, Lined, InLine
  <1>3. ASSUME NEW c \in Callers PROVE Managed(c)'
    BY DEF IInv, CallOK, Still, Managed
  <1> QED BY <1>1, <1>2, <1>3

LEMMA RevokeKeeps ==
    ASSUME IInv, Revoke
    PROVE  IInv'
  <1>1. Still /\ clock' = clock /\ revokedAt' = clock /\ active' = FALSE
    BY DEF Revoke, Still
  <1>2. TokenTypeOK /\ clock \in Nat /\ Ttl \in Nat /\ Delay \in Nat /\ Grace \in Nat
        /\ (setup.manager # "key" => Ttl <= Grace + 1)
    <2>1. TokenTypeOK
      BY DEF IInv
    <2> QED BY <2>1, SettingFacts
  <1>3. TokenTypeOK'
    <2>1. clock \in 0..clock
      BY <1>2
    <2>2. active' \in BOOLEAN
      BY <1>1, Zenon
    <2> QED BY <1>1, <1>2, <2>1, <2>2 DEF TokenTypeOK, Still
  <1>4. LineOnce' /\ \A c \in Callers : Lined(c)' /\ Managed(c)'
    <2>1. ~Fresh => ~Fresh'
      BY <1>1 DEF Fresh, Still
    <2> QED BY <1>1, <2>1, StillFacts
  <1>5. TokenTimely'
    BY <1>1 DEF IInv, TokenTimely, Still
  <1>6. TokenLapses'
    <2>1. token.exp \in Nat
      BY <1>2 DEF TokenTypeOK, Credentials
    <2>2. token # Nothing => token.exp <= clock + Grace + 1
      BY <1>2, <2>1, TokenFacts
    <2> QED BY <1>1, <2>2 DEF TokenLapses, Grace, Still
  <1>7. ASSUME NEW c \in Callers
        PROVE  /\ Timely(c)' /\ Lapses(c)'
               /\ pc'[c] = "served" => since'[c] <= revokedAt' + Grace'
    <2>1. /\ since[c] \in Nat /\ since[c] <= clock /\ carried[c].exp \in Nat
          /\ Timely(c) /\ Managed(c)
      BY <1>2, Times DEF IInv, CallOK
    <2>2. Timely(c)'
      BY <1>1, <2>1 DEF Timely, Still
    <2>3. carried[c].kind = "jwt" => carried[c].exp <= clock + Grace + 1
      BY <1>2, <2>1 DEF Timely, Managed
    <2>4. Grace' = Grace
      BY <1>1 DEF Grace, Still
    <2>5. Lapses(c)'
      BY <1>1, <1>2, <2>1, <2>3, <2>4 DEF Lapses, Still
    <2> QED BY <1>1, <1>2, <2>1, <2>2, <2>4, <2>5 DEF Still
  <1> QED BY <1>3, <1>4, <1>5, <1>6, <1>7 DEF IInv, CallOK, RevocationEnds

LEMMA ReactivateKeeps ==
    ASSUME IInv, Reactivate
    PROVE  IInv'
  <1>1. Still /\ clock' = clock /\ revokedAt' = revokedAt /\ active' = TRUE
    BY DEF Reactivate, Still
  <1>2. TokenTypeOK'
    BY <1>1 DEF IInv, TokenTypeOK, Still
  <1>3. LineOnce' /\ \A c \in Callers : Lined(c)' /\ Managed(c)'
    <2>1. ~Fresh => ~Fresh'
      BY <1>1 DEF Fresh, Still
    <2> QED BY <1>1, <2>1, StillFacts
  <1>4. TokenTimely' /\ TokenLapses' /\ RevocationEnds'
    BY <1>1 DEF IInv, TokenTimely, TokenLapses, RevocationEnds, Still
  <1>5. \A c \in Callers : Timely(c)' /\ Lapses(c)'
    BY <1>1 DEF IInv, CallOK, Timely, Lapses, Still
  <1> QED BY <1>2, <1>3, <1>4, <1>5 DEF IInv, CallOK

LEMMA TickKeeps ==
    ASSUME IInv, Tick
    PROVE  IInv'
  <1>1. /\ Still /\ clock' = clock + 1 /\ clock < MaxClock
        /\ revokedAt' = revokedAt /\ active' = active
        /\ \A c \in Callers : pc[c] \in UnderWay => clock < since[c] + Delay
    BY DEF Tick, Still
  <1>2. TokenTypeOK /\ clock \in Nat /\ Ttl \in Nat /\ Delay \in Nat
        /\ MaxClock \in Nat
    BY SettingFacts, TokenAssumption DEF IInv
  <1>3. TokenTypeOK'
    <2>1. clock + 1 \in 0..MaxClock /\ revokedAt \in 0..(clock + 1)
      BY <1>1, <1>2 DEF TokenTypeOK
    <2>2. since \in [Callers -> 0..(clock + 1)]
      <3>1. 0..clock \subseteq 0..(clock + 1)
        BY <1>2
      <3> QED BY <1>2, <3>1 DEF TokenTypeOK
    <2> QED BY <1>1, <1>2, <2>1, <2>2 DEF TokenTypeOK, Still
  <1>4. LineOnce' /\ \A c \in Callers : Lined(c)' /\ Managed(c)'
    <2>1. ~Fresh => ~Fresh'
      BY <1>1, <1>2 DEF Fresh, Still, TokenTypeOK
    <2> QED BY <1>1, <2>1, StillFacts
  <1>5. TokenTimely'
    <2>1. token.exp \in Nat
      BY <1>2 DEF TokenTypeOK, Credentials
    <2> QED BY <1>1, <1>2, <2>1 DEF IInv, TokenTimely, Still
  <1>6. TokenLapses' /\ RevocationEnds'
    BY <1>1 DEF IInv, TokenLapses, RevocationEnds, Grace, Still
  <1>7. ASSUME NEW c \in Callers
        PROVE  Timely(c)' /\ Lapses(c)'
    <2>1. /\ since[c] \in Nat /\ carried[c].exp \in Nat
          /\ Timely(c) /\ Lapses(c)
      BY <1>2, Times DEF IInv, CallOK
    <2>2. pc[c] \in UnderWay => clock + 1 <= since[c] + Delay
      BY <1>1, <1>2, <2>1
    <2>3. carried[c].exp <= (clock + 1) + Ttl
      BY <1>2, <2>1 DEF Timely
    <2>4. Timely(c)'
      BY <1>1, <2>1, <2>2, <2>3 DEF Timely, Still
    <2>5. Lapses(c)'
      BY <1>1, <2>1 DEF Lapses, Grace, Still
    <2> QED BY <2>4, <2>5
  <1> QED BY <1>3, <1>4, <1>5, <1>6, <1>7 DEF IInv, CallOK

---------------------------------------------------------------------------
(* The theorems.                                                           *)

LEMMA TokenInitOK == TokenInit => IInv
  <1> SUFFICES ASSUME TokenInit PROVE IInv
    OBVIOUS
  <1>1. /\ Ttl \in Nat /\ Delay \in Nat /\ MaxClock \in Nat
        /\ line = <<>> /\ line \in Seq(Callers) /\ Len(line) = 0
    BY TokenAssumption DEF TokenInit
  <1>2. TokenTypeOK
    BY <1>1, CredentialFacts DEF TokenInit, TokenTypeOK, Steps
  <1>3. LineOnce
    BY <1>1 DEF LineOnce
  <1>4. TokenTimely /\ TokenLapses
    BY <1>1, CredentialFacts DEF TokenInit, TokenTimely, TokenLapses
  <1>5. ASSUME NEW c \in Callers
        PROVE  CallOK(c) /\ pc[c] # "served"
    <2>1. pc[c] = "idle" /\ carried[c] = Nothing /\ ~stale[c] /\ clock = 0
      BY DEF TokenInit
    <2>2. Lined(c)
      BY <1>1, <2>1 DEF Lined, InLine, Fetching
    <2>3. Managed(c) /\ Timely(c) /\ Lapses(c)
      BY <1>1, <2>1, CredentialFacts DEF Managed, Timely, Lapses, Fetching, UnderWay
    <2> QED BY <2>1, <2>2, <2>3 DEF CallOK
  <1> QED BY <1>2, <1>3, <1>4, <1>5 DEF IInv, RevocationEnds

LEMMA TokenNextOK == IInv /\ [TokenNext]_tokenVars => IInv'
  <1> SUFFICES ASSUME IInv, [TokenNext]_tokenVars PROVE IInv'
    OBVIOUS
  <1>1. ASSUME NEW c \in Callers, GetToken(c) \/ Progress(c) \/ Done(c)
        PROVE  IInv'
    BY <1>1, GetTokenKeeps, RecheckKeeps, LookUpKeeps, SignKeeps, ArriveKeeps,
       IssueSidecarTokenKeeps, ArriveSidecarTokenKeeps, DeniedKeeps, LostKeeps,
       CheckKeeps, DoneKeeps
       DEF Progress
  <1>2. CASE Around
    BY <1>2, RevokeKeeps, ReactivateKeeps, TickKeeps DEF Around
  <1>3. CASE UNCHANGED tokenVars
    <2>1. Still /\ UNCHANGED <<clock, active, revokedAt>> /\ (~Fresh => ~Fresh')
      BY <1>3 DEF tokenVars, Still, Fresh
    <2>2. LineOnce' /\ \A c \in Callers : Lined(c)' /\ Managed(c)'
      BY <2>1, StillFacts
    <2>3. TokenTypeOK' /\ TokenTimely' /\ TokenLapses' /\ RevocationEnds'
      BY <2>1 DEF IInv, TokenTypeOK, TokenTimely, TokenLapses, RevocationEnds,
         Grace, Still
    <2>4. \A c \in Callers : Timely(c)' /\ Lapses(c)'
      BY <2>1 DEF IInv, CallOK, Timely, Lapses, Grace, Still
    <2> QED BY <2>2, <2>3, <2>4 DEF IInv, CallOK
  <1> QED BY <1>1, <1>2, <1>3 DEF TokenNext

\* The inductive invariant of the tokens, for every number of calls, every
\* lifetime and every delay that leaves room for two messages between the
\* refresh and the expiry.
THEOREM TokenInvariance == TokenSpec => []IInv
  BY TokenInitOK, TokenNextOK, PTL DEF TokenSpec

\* Type correctness of the calls, the token and the lock.
THEOREM TokenTypeCorrect == TokenSpec => []TokenTypeOK
  <1>1. IInv => TokenTypeOK
    BY DEF IInv
  <1> QED BY <1>1, TokenInvariance, PTL

\* Any number of calls may find the token due: one of them fetches at a
\* time (the asyncio.Lock of get_token and of _SidecarTokenManager.get).
THEOREM OneFetchAtATime == TokenSpec => []OneFetch
  <1>1. IInv => OneFetch
    BY DEF IInv, CallOK, Lined, OneFetch
  <1> QED BY <1>1, TokenInvariance, PTL

\* A token whose refresh did not fail is sent early enough to arrive before
\* it expires, however long the answer and the call are under way.
THEOREM NeverExpiredWithoutFailure == TokenSpec => []ExpiredOnlyAfterFailure
  <1>1. IInv => ExpiredOnlyAfterFailure
    <2> SUFFICES ASSUME IInv, NEW c \in Callers, pc[c] = "sent",
                        carried[c].kind = "jwt", clock >= carried[c].exp
                 PROVE  stale[c] /\ setup.manager = "mcp"
      BY DEF ExpiredOnlyAfterFailure
    <2>1. /\ clock \in Nat /\ since[c] \in Nat /\ carried[c].exp \in Nat
          /\ Delay \in Nat /\ CallOK(c)
      BY SettingFacts, Times DEF IInv
    <2> QED BY <2>1 DEF CallOK, Timely, Managed, UnderWay
  <1> QED BY <1>1, TokenInvariance, PTL

\* Whatever was cached or under way when a client or a key was revoked, its
\* calls are refused once Grace is over: nothing renews a revoked access.
THEOREM RevocationBounded == TokenSpec => []RevocationEnds
  <1>1. IInv => RevocationEnds
    BY DEF IInv
  <1> QED BY <1>1, TokenInvariance, PTL

\* The second check under the lock: a token another call has just fetched is
\* never replaced.
THEOREM TokenReplacedWhenDue == TokenSpec => ReplacedOnlyWhenDue
  <1>1. ASSUME IInv, [TokenNext]_tokenVars
        PROVE  [token' # token => token = Nothing \/ clock >= refreshAt]_tokenVars
    <2>1. ASSUME NEW c \in Callers, Store(c),
                 pc[c] = "signed" \/ pc[c] = "exchanged"
          PROVE  token = Nothing \/ clock >= refreshAt
      <3>1. Lined(c) /\ clock \in Nat /\ refreshAt \in Nat
        BY <1>1, SettingFacts DEF IInv, CallOK, TokenTypeOK
      <3> QED BY <2>1, <3>1 DEF Lined, Fetching, Fresh
    <2>2. ASSUME NEW c \in Callers, GetToken(c) \/ Progress(c) \/ Done(c),
                 token' # token
          PROVE  Store(c) /\ (pc[c] = "signed" \/ pc[c] = "exchanged")
      BY <2>2 DEF GetToken, Progress, Done, Recheck, LookUp, Sign, Arrive,
         IssueSidecarToken, ArriveSidecarToken, Denied, Lost, Check
    <2>3. CASE Around \/ UNCHANGED tokenVars
      BY <2>3 DEF Around, Revoke, Reactivate, Tick, tokenVars
    <2> QED BY <1>1, <2>1, <2>2, <2>3 DEF TokenNext
  <1> QED BY <1>1, TokenInvariance, PTL DEF TokenSpec, ReplacedOnlyWhenDue

---------------------------------------------------------------------------
(* query_db and the switch: rows in clear are a choice, or a 200 without   *)
(* the field the rows should be in.                                        *)

Switched(c) ==
    /\ reply[c] = "asked" /\ AnonymizationDisabled => off[c]
    /\ reply[c] = "clear" => off[c] \/ bare[c]

\* NoClearByFailure is not inductive: a call that is still asked must know of
\* a switch that is off, however often it was turned before.
SwitchInv ==
    /\ off \in [Callers -> BOOLEAN]
    /\ bare \in [Callers -> BOOLEAN]
    /\ reply \in [Callers -> {"asked", "clear", "hidden"}]
    /\ flag \in BOOLEAN /\ env \in BOOLEAN
    /\ \A c \in Callers : Switched(c)

LEMMA SwitchInitOK == Init => SwitchInv
  <1> SUFFICES ASSUME Init PROVE SwitchInv
    OBVIOUS
  <1>1. /\ off \in [Callers -> BOOLEAN]
        /\ bare \in [Callers -> BOOLEAN]
        /\ reply \in [Callers -> {"asked", "clear", "hidden"}]
        /\ flag \in BOOLEAN /\ env \in BOOLEAN
    BY DEF Init
  <1>2. \A c \in Callers : reply[c] = "hidden"
    BY DEF Init
  <1> QED BY <1>1, <1>2 DEF SwitchInv, Switched

\* A call that answers, or is asked, leaves the switch and the others alone.
LEMMA AnswerKeeps ==
    ASSUME SwitchInv, NEW c \in Callers, UNCHANGED <<env, flag>>,
           off' \in [Callers -> BOOLEAN],
           bare' \in [Callers -> BOOLEAN],
           reply' \in [Callers -> {"asked", "clear", "hidden"}],
           \A d \in Callers \ {c} :
               off'[d] = off[d] /\ bare'[d] = bare[d] /\ reply'[d] = reply[d],
           reply'[c] = "asked" /\ AnonymizationDisabled => off'[c],
           reply'[c] = "clear" => off'[c] \/ bare'[c]
    PROVE  SwitchInv'
  BY DEF SwitchInv, Switched, AnonymizationDisabled

LEMMA SwitchNextOK == SwitchInv /\ [Next]_vars => SwitchInv'
  <1> SUFFICES ASSUME SwitchInv, [Next]_vars PROVE SwitchInv'
    OBVIOUS
  <1>1. ASSUME UNCHANGED mcpVars PROVE SwitchInv'
    BY <1>1 DEF mcpVars, SwitchInv, Switched, AnonymizationDisabled
  <1>2. ASSUME NEW c \in Callers, Call(c) PROVE SwitchInv'
    <2>1. /\ UNCHANGED <<env, flag>>
          /\ reply' = [reply EXCEPT ![c] = "asked"]
          /\ off' = [off EXCEPT ![c] = AnonymizationDisabled]
          /\ bare' = [bare EXCEPT ![c] = FALSE]
      BY <1>2 DEF Call, Answer
    <2>2. AnonymizationDisabled \in BOOLEAN
      BY DEF SwitchInv, AnonymizationDisabled
    <2>3. off' \in [Callers -> BOOLEAN]
      BY <2>1, <2>2 DEF SwitchInv
    <2>4. reply' \in [Callers -> {"asked", "clear", "hidden"}] /\ bare' \in [Callers -> BOOLEAN]
      BY <2>1 DEF SwitchInv
    <2>5. \A d \in Callers \ {c} :
              off'[d] = off[d] /\ bare'[d] = bare[d] /\ reply'[d] = reply[d]
      BY <2>1 DEF SwitchInv
    <2>6. reply'[c] = "asked" /\ off'[c] = AnonymizationDisabled
      BY <2>1 DEF SwitchInv
    <2> QED BY <2>1, <2>3, <2>4, <2>5, <2>6, AnswerKeeps
  <1>3. ASSUME NEW c \in Callers, NEW r, r \in {"clear", "hidden"},
               UNCHANGED <<env, flag, off, bare>>, Answer(c, r),
               r = "clear" => off[c]
        PROVE  SwitchInv'
    <2>1. /\ off' \in [Callers -> BOOLEAN]
          /\ bare' \in [Callers -> BOOLEAN]
          /\ reply' \in [Callers -> {"asked", "clear", "hidden"}]
          /\ \A d \in Callers \ {c} :
                off'[d] = off[d] /\ bare'[d] = bare[d] /\ reply'[d] = reply[d]
          /\ reply'[c] = r
      BY <1>3 DEF Answer, SwitchInv
    <2> QED BY <1>3, <2>1, AnswerKeeps
  <1>4. ASSUME NEW c \in Callers, QueryRefused(c) \/ Reply(c) PROVE SwitchInv'
    BY <1>3, <1>4 DEF QueryRefused, Reply
  <1>5. ASSUME NEW c \in Callers, QueryInClear(c) PROVE SwitchInv'
    <2>1. off[c]
      BY <1>5 DEF QueryInClear, Asked, SwitchInv, Switched
    <2> QED BY <1>3, <1>5, <2>1 DEF QueryInClear
  <1>9. ASSUME NEW c \in Callers, ReplyBare(c) PROVE SwitchInv'
    <2>1. /\ UNCHANGED <<env, flag>>
          /\ off' = off
          /\ reply' = [reply EXCEPT ![c] = "clear"]
          /\ bare' = [bare EXCEPT ![c] = TRUE]
      BY <1>9 DEF ReplyBare, Answer
    <2>2. /\ off' \in [Callers -> BOOLEAN]
          /\ bare' \in [Callers -> BOOLEAN]
          /\ reply' \in [Callers -> {"asked", "clear", "hidden"}]
          /\ \A d \in Callers \ {c} :
                off'[d] = off[d] /\ bare'[d] = bare[d] /\ reply'[d] = reply[d]
          /\ reply'[c] = "clear" /\ bare'[c]
      BY <2>1 DEF SwitchInv
    <2> QED BY <2>1, <2>2, AnswerKeeps
  <1>6. CASE Enable
    BY <1>6 DEF Enable, SwitchInv, Switched, AnonymizationDisabled
  <1>7. CASE Disable
    <2>1. /\ off' = [c \in Callers |-> off[c] \/ reply[c] = "asked"]
          /\ flag' = TRUE /\ UNCHANGED <<env, bare, reply>>
      BY <1>7 DEF Disable
    <2>2. ASSUME NEW c \in Callers PROVE Switched(c)'
      BY <2>1 DEF SwitchInv, Switched
    <2>3. off' \in [Callers -> BOOLEAN] /\ bare' \in [Callers -> BOOLEAN]
      BY <2>1 DEF SwitchInv
    <2>4. flag' \in BOOLEAN /\ env' \in BOOLEAN
      BY <2>1, Zenon DEF SwitchInv
    <2> QED BY <2>1, <2>2, <2>3, <2>4 DEF SwitchInv
  <1>8. ASSUME UNCHANGED vars PROVE UNCHANGED mcpVars
    BY <1>8 DEF vars
  <1> QED BY <1>1, <1>2, <1>4, <1>5, <1>6, <1>7, <1>8, <1>9 DEF Next, Query

\* Rows in clear mean that the switch was off at some time during the call, or
\* that the sidecar let it in and answered 200 without anonymized_text: no
\* outage, no error and no missing token is a way to them, for any number of
\* calls and however the switch is turned (mcp_server/server.py:249-271).
THEOREM FailureShowsNothing == Spec => []NoClearByFailure
  <1>1. SwitchInv => NoClearByFailure
    BY DEF SwitchInv, Switched, NoClearByFailure
  <1> QED BY <1>1, SwitchInitOK, SwitchNextOK, PTL DEF Spec

\* The MCP server's calls use the tokens as OAuthTokens says: every step of
\* the composition is one of its steps or leaves the tokens alone.
THEOREM UsesTokens == Spec => TokenSpec
  <1>1. Init => TokenInit
    BY DEF Init
  <1>2. [Next]_vars => [TokenNext]_tokenVars
    <2>1. UNCHANGED vars => UNCHANGED tokenVars
      BY DEF vars
    <2>2. ASSUME NEW c \in Callers,
                 \/ Call(c) \/ QueryRefused(c) \/ QueryInClear(c)
                 \/ Query(c) \/ Reply(c) \/ ReplyBare(c) \/ Progress(c)
          PROVE  [TokenNext]_tokenVars
      BY <2>2 DEF Call, QueryRefused, QueryInClear, Query, Reply, ReplyBare, TokenNext
    <2>3. Around => TokenNext
      BY DEF TokenNext
    <2>4. Enable \/ Disable => UNCHANGED tokenVars
      BY DEF Enable, Disable
    <2> QED BY <2>1, <2>2, <2>3, <2>4 DEF Next
  <1> QED BY <1>1, <1>2, PTL DEF Spec, TokenSpec

\* Type correctness of the calls of query_db, the switch and the tokens.
THEOREM McpTypeCorrect == Spec => []TypeOK
  <1>1. SwitchInv /\ TokenTypeOK => TypeOK
    BY Zenon DEF SwitchInv, TypeOK
  <1> QED BY <1>1, SwitchInitOK, SwitchNextOK, UsesTokens, TokenTypeCorrect, PTL DEF Spec

\* With it, the theorems about the tokens are theorems about the whole: one
\* fetch at a time, no token sent too late, no access after the grace.
THEOREM CallsKeepTheRules ==
    Spec => /\ []OneFetch /\ []ExpiredOnlyAfterFailure /\ []RevocationEnds
            /\ ReplacedOnlyWhenDue
  BY UsesTokens, OneFetchAtATime, NeverExpiredWithoutFailure,
     RevocationBounded, TokenReplacedWhenDue, PTL
=============================================================================
