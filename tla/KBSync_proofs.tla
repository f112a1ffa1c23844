--------------------------- MODULE KBSync_proofs ---------------------------
(* Theorems about KBSync, for every set of refreshers and every bound. *)
EXTENDS KBSync, TLAPS

USE ConstAssumption

\* A payload is its own version.
LEMMA VersionOfPayload == \A d \in Payloads : Version(d.labels, d.config) = d
  BY DEF Payloads, Version

\* The initial state: nothing in memory, nothing on disk.
LEMMA InitInvariant == Init => TypeOK /\ VersionIsSnapshots
  <1> SUFFICES ASSUME Init PROVE TypeOK /\ VersionIsSnapshots
    OBVIOUS
  <1>1. Idle \in PullState /\ 0 \in 0..MaxEdits /\ 0 \in 0..MaxOutages /\ 0 \in 0..MaxRestarts
    BY DEF Idle, PullState
  <1>2. pull \in [Pulls -> PullState]
    BY <1>1 DEF Init
  <1> QED BY <1>1, <1>2 DEF Init, TypeOK, VersionIsSnapshots

\* Every step keeps the variables in their types.
LEMMA TypeStep == TypeOK /\ [Next]_vars => TypeOK'
  <1> SUFFICES ASSUME TypeOK, [Next]_vars PROVE TypeOK'
    OBVIOUS
  <1> USE DEF TypeOK
  <1>a. /\ "boot" \in Pulls /\ "loop" \in Pulls
        /\ Idle \in PullState /\ Over \in PullState
    BY DEF Pulls, PullState, Idle, Over
  <1>r. ASSUME NEW p \in Pulls, Return(p) PROVE pull' \in [Pulls -> PullState]
    BY <1>a, <1>r DEF Return
  <1>o. ASSUME Refused PROVE outages' \in 0..MaxOutages
    BY <1>o, ConstAssumption DEF Refused
  <1>1. CASE StartBoot
    <2>1. [pull["boot"] EXCEPT !.at = "auth"] \in PullState
      BY <1>a DEF PullState
    <2> QED BY <1>a, <1>1, <2>1 DEF StartBoot, gateway, memory
  <1>2. ASSUME NEW p \in Pulls, StartPull(p) PROVE TypeOK'
    <2>1. [pull[p] EXCEPT !.at = "auth"] \in PullState
      BY DEF PullState
    <2> QED BY <1>2, <2>1 DEF StartPull, gateway, memory
  <1>3. ASSUME NEW p \in Pulls, Authenticated(p) PROVE TypeOK'
    <2>1. [pull[p] EXCEPT !.at = "send", !.inm = version] \in PullState
      BY DEF PullState
    <2> QED BY <1>3, <2>1 DEF Authenticated, gateway
  <1>4. ASSUME NEW p \in Pulls, AuthRaises(p) PROVE TypeOK'
    BY <1>4, <1>o, <1>r DEF AuthRaises, memory
  <1>5. ASSUME NEW p \in Pulls, ReadLabels(p) PROVE TypeOK'
    <2>1. [pull[p] EXCEPT !.at = "labels", !.labels = labels] \in PullState
      BY DEF PullState
    <2> QED BY <1>5, <2>1 DEF ReadLabels, gateway, memory
  <1>6. ASSUME NEW p \in Pulls, ReadConfig(p) PROVE TypeOK'
    <2>1. \A x \in {"not_modified", "reply"} :
            [pull[p] EXCEPT !.config = config, !.at = x] \in PullState
      BY DEF PullState
    <2> QED BY <1>6, <2>1 DEF ReadConfig, gateway, memory
  <1>7. ASSUME NEW p \in Pulls, RequestFails(p) PROVE TypeOK'
    BY <1>7, <1>o, <1>r DEF RequestFails, memory
  <1>8. ASSUME NEW p \in Pulls, NotModified(p) PROVE TypeOK'
    BY <1>8, <1>r DEF NotModified, gateway, memory
  <1>9. ASSUME NEW p \in Pulls, Apply(p) PROVE TypeOK'
    <2> DEFINE data == [labels |-> pull[p].labels, config |-> pull[p].config]
    <2>1. data \in Payloads /\ Version(data.labels, data.config) = data
      BY DEF PullState, Payloads, Version
    <2> QED BY <1>9, <1>r, <2>1 DEF Apply, gateway
  <1>10. CASE BootDone
    BY <1>10, VersionOfPayload DEF BootDone, gateway
  <1>11. CASE Restart
    <2>1. pull' \in [Pulls -> PullState]
      BY <1>11, <1>a DEF Restart
    <2>2. restarts' \in 0..MaxRestarts
      BY <1>11 DEF Restart
    <2>3. disk' \in {disk, Corrupt}
      BY <1>11, Zenon DEF Restart
    <2>4. /\ phase' = "boot" /\ snapshot' = None /\ version' = None /\ token' = FALSE
          /\ UNCHANGED gateway
      BY <1>11, Zenon DEF Restart
    <2> QED BY <2>1, <2>2, <2>3, <2>4 DEF gateway
  <1>12. CASE EditLabels \/ EditConfig
    BY <1>12 DEF EditLabels, EditConfig, memory
  <1>13. CASE GoDown
    <2>1. outages' \in 0..MaxOutages
      BY <1>13 DEF GoDown
    <2>2. /\ up' = FALSE
          /\ UNCHANGED <<labels, config, phase, restarts, pull, memory, disk>>
      BY <1>13, Zenon DEF GoDown
    <2> QED BY <2>1, <2>2 DEF memory
  <1>14. CASE GoUp
    BY <1>14 DEF GoUp, memory
  <1>15. CASE TokenExpires
    BY <1>15 DEF TokenExpires, gateway
  <1>16. CASE UNCHANGED vars
    BY <1>16 DEF vars, gateway, memory
  <1> QED
    BY <1>1, <1>2, <1>3, <1>4, <1>5, <1>6, <1>7, <1>8, <1>9, <1>10, <1>11,
       <1>12, <1>13, <1>14, <1>15, <1>16 DEF Next, PullStep

\* Three actions change the copy, and each changes its version with it.
LEMMA VersionStep ==
  TypeOK /\ VersionIsSnapshots /\ [Next]_vars => VersionIsSnapshots'
  <1> SUFFICES ASSUME TypeOK, VersionIsSnapshots, [Next]_vars
               PROVE VersionIsSnapshots'
    OBVIOUS
  <1>1. ASSUME NEW p \in Pulls, Apply(p) PROVE VersionIsSnapshots'
    <2> DEFINE data == [labels |-> pull[p].labels, config |-> pull[p].config]
    <2>1. data \in Payloads
      BY DEF TypeOK, PullState, Payloads
    <2>2. snapshot' = data /\ version' = Version(data.labels, data.config)
      BY <1>1 DEF Apply
    <2> QED BY <2>1, <2>2 DEF VersionIsSnapshots, Version
  <1>2. CASE BootDone
    BY <1>2 DEF BootDone, VersionIsSnapshots, Version
  <1>3. CASE Restart
    BY <1>3 DEF Restart, VersionIsSnapshots
  <1>4. CASE UNCHANGED <<snapshot, version>>
    BY <1>4 DEF VersionIsSnapshots, Version
  <1>5. ASSUME NEW p \in Pulls, StartPull(p) \/ PullStep(p), ~Apply(p)
        PROVE UNCHANGED <<snapshot, version>>
    BY <1>5 DEF StartPull, PullStep, Authenticated, AuthRaises, ReadLabels,
                ReadConfig, RequestFails, NotModified, memory
  <1>6. CASE StartBoot \/ EditLabels \/ EditConfig \/ GoDown \/ GoUp \/ TokenExpires
             \/ UNCHANGED vars
    BY <1>4, <1>6 DEF StartBoot, EditLabels, EditConfig, GoDown, GoUp, TokenExpires,
                      memory, vars
  <1> QED BY <1>1, <1>2, <1>3, <1>4, <1>5, <1>6 DEF Next

\* The sidecar's variables keep their shape (kb_client.py).
THEOREM KBTypeCorrect == Spec => []TypeOK
  BY InitInvariant, TypeStep, PTL DEF Spec

\* However many pulls are in progress and in whatever order their answers are
\* applied, the ETag KBClient sends is that of the copy it holds, across
\* failing writes, unreadable cache files and restarts.
THEOREM VersionTruthful == Spec => []VersionIsSnapshots
  <1>1. TypeOK /\ VersionIsSnapshots /\ [Next]_vars => (TypeOK /\ VersionIsSnapshots)'
    BY TypeStep, VersionStep
  <1> QED BY <1>1, InitInvariant, PTL DEF Spec

---------------------------------------------------------------------------
(* What a 304 confirms.                                                    *)

\* A 304 is only on its way to a pull whose ETag is what the gateway read.
Confirmed ==
  \A p \in Pulls : pull[p].at = "not_modified" =>
      pull[p].inm = Version(pull[p].labels, pull[p].config)

\* ReadConfig alone decides for a 304, and what it compared stays with the pull.
LEMMA ConfirmedStep == TypeOK /\ Confirmed /\ [Next]_vars => Confirmed'
  <1> SUFFICES ASSUME TypeOK, Confirmed, [Next]_vars,
                      NEW q \in Pulls, pull'[q].at = "not_modified"
               PROVE  pull'[q].inm = Version(pull'[q].labels, pull'[q].config)
    BY DEF Confirmed, Version
  <1> USE DEF TypeOK
  <1>0. CASE pull'[q] = pull[q]
    BY <1>0 DEF Confirmed
  <1>1. CASE StartBoot
    BY <1>0, <1>1 DEF StartBoot
  <1>2. ASSUME NEW p \in Pulls, StartPull(p) PROVE pull'[q] = pull[q]
    BY <1>2 DEF StartPull
  <1>3. ASSUME NEW p \in Pulls, Return(p) PROVE pull'[q] = pull[q]
    BY <1>3 DEF Return, Idle, Over
  <1>4. ASSUME NEW p \in Pulls, Authenticated(p) \/ ReadLabels(p)
        PROVE  pull'[q] = pull[q]
    <2>1. CASE q = p
      BY <1>4, <2>1 DEF Authenticated, ReadLabels, PullState
    <2>2. CASE q # p
      BY <1>4, <2>2 DEF Authenticated, ReadLabels
    <2> QED BY <2>1, <2>2
  <1>5. ASSUME NEW p \in Pulls, ReadConfig(p)
        PROVE  pull'[q].inm = Version(pull'[q].labels, pull'[q].config)
    <2>1. CASE q # p
      BY <1>0, <1>5, <2>1 DEF ReadConfig
    <2>2. CASE q = p
      BY <1>5, <2>2 DEF ReadConfig, PullState, Version
    <2> QED BY <2>1, <2>2
  <1>6. ASSUME NEW p \in Pulls, AuthRaises(p) \/ RequestFails(p) \/ NotModified(p) \/ Apply(p)
        PROVE  pull'[q] = pull[q]
    BY <1>3, <1>6 DEF AuthRaises, RequestFails, NotModified, Apply
  <1>7. CASE Restart
    BY <1>7 DEF Restart, Idle, Over
  <1>8. CASE UNCHANGED pull
    BY <1>0, <1>8
  <1>9. CASE BootDone \/ EditLabels \/ EditConfig \/ GoDown \/ GoUp \/ TokenExpires
             \/ UNCHANGED vars
    BY <1>8, <1>9 DEF BootDone, EditLabels, EditConfig, GoDown, GoUp, TokenExpires, vars
  <1> QED BY <1>0, <1>1, <1>2, <1>4, <1>5, <1>6, <1>7, <1>9 DEF Next, PullStep

\* A 304 confirms the very copy the sidecar holds, unless another pull has
\* changed it since, however torn the gateway's reads were (kb_client.py:99).
THEOREM NotModifiedTruthful == Spec => []NotModifiedIsCurrent
  <1>1. Init => TypeOK /\ VersionIsSnapshots /\ Confirmed
    BY InitInvariant DEF Init, Confirmed, Idle
  <1>2. /\ TypeOK /\ VersionIsSnapshots /\ Confirmed
        /\ [Next]_vars
        => (TypeOK /\ VersionIsSnapshots /\ Confirmed)'
    BY TypeStep, VersionStep, ConfirmedStep
  <1>3. TypeOK /\ VersionIsSnapshots /\ Confirmed => NotModifiedIsCurrent
    <2> SUFFICES ASSUME TypeOK, VersionIsSnapshots, Confirmed, NEW p \in Pulls,
                        pull[p].at = "not_modified", pull[p].inm = version
                 PROVE  snapshot = [labels |-> pull[p].labels, config |-> pull[p].config]
      BY DEF NotModifiedIsCurrent
    <2>1. version = [labels |-> pull[p].labels, config |-> pull[p].config]
      BY DEF Confirmed, Version
    <2>2. version \in Payloads
      BY <2>1 DEF TypeOK, PullState, Payloads
    <2>3. snapshot \in Payloads /\ version = Version(snapshot.labels, snapshot.config)
      BY <2>2 DEF VersionIsSnapshots, TypeOK
    <2> QED BY <2>1, <2>3, VersionOfPayload
  <1> QED BY <1>1, <1>2, <1>3, PTL DEF Spec

\* A sidecar that is up with a readable cache file has a copy: Apply brings
\* one, BootDone takes the file's, and nothing takes it away while it is up.
LEMMA BootStep == TypeOK /\ BootUsesDisk /\ [Next]_vars => BootUsesDisk'
  <1> SUFFICES ASSUME TypeOK, BootUsesDisk, [Next]_vars PROVE BootUsesDisk'
    OBVIOUS
  <1>1. ASSUME NEW p \in Pulls, Apply(p) PROVE BootUsesDisk'
    <2>1. [labels |-> pull[p].labels, config |-> pull[p].config] \in Payloads
      BY DEF TypeOK, PullState, Payloads
    <2>2. snapshot' \in Payloads
      BY <1>1, <2>1 DEF Apply
    <2> QED BY <2>2 DEF BootUsesDisk
  <1>2. CASE BootDone
    BY <1>2 DEF BootDone, BootUsesDisk
  <1>3. CASE Restart
    BY <1>3 DEF Restart, BootUsesDisk
  <1>4. ASSUME NEW p \in Pulls, AuthRaises(p) PROVE BootUsesDisk'
    BY <1>4 DEF AuthRaises, memory, BootUsesDisk
  <1>5. CASE UNCHANGED <<phase, snapshot, disk>>
    BY <1>5 DEF BootUsesDisk
  <1>6. CASE StartBoot
    BY <1>6 DEF StartBoot, BootUsesDisk
  <1>7. ASSUME NEW p \in Pulls,
               \/ StartPull(p) \/ Authenticated(p) \/ ReadLabels(p) \/ ReadConfig(p)
               \/ RequestFails(p) \/ NotModified(p)
        PROVE  UNCHANGED <<phase, snapshot, disk>>
    BY <1>7 DEF StartPull, Authenticated, ReadLabels, ReadConfig, RequestFails,
                NotModified, memory
  <1>8. CASE EditLabels \/ EditConfig \/ GoDown \/ GoUp \/ TokenExpires \/ UNCHANGED vars
    BY <1>5, <1>8 DEF EditLabels, EditConfig, GoDown, GoUp, TokenExpires, memory, vars
  <1> QED BY <1>1, <1>2, <1>3, <1>4, <1>5, <1>6, <1>7, <1>8 DEF Next, PullStep

\* An unreachable gateway leaves a sidecar that has started on its cache
\* file's copy, if that can be read (kb_client.py:11-12).
THEOREM DiskIsUsed == Spec => []BootUsesDisk
  <1>1. Init => TypeOK /\ BootUsesDisk
    BY InitInvariant DEF Init, BootUsesDisk
  <1>2. TypeOK /\ BootUsesDisk /\ [Next]_vars => (TypeOK /\ BootUsesDisk)'
    BY TypeStep, BootStep
  <1> QED BY <1>1, <1>2, PTL DEF Spec

---------------------------------------------------------------------------
(* The copy does not go back.                                              *)

\* The tables only grow: a payload is of an earlier state than the gateway's.
Earlier(d) == d # None => d.labels <= labels /\ d.config <= config

\* What a pull has read is between its ETag and the tables.
Between(p) ==
  /\ Earlier(pull[p].inm)
  /\ pull[p].at \in {"labels", "reply"} =>
        /\ pull[p].labels <= labels
        /\ pull[p].inm # None => pull[p].inm.labels <= pull[p].labels
  /\ pull[p].at = "reply" =>
        /\ pull[p].config <= config
        /\ pull[p].inm # None => pull[p].inm.config <= pull[p].config

Forward ==
  /\ Earlier(version)
  /\ disk # Corrupt => Earlier(disk)
  /\ \A p \in Pulls : Between(p)

\* A pull that ends carries nothing.
LEMMA EndedBetween ==
  ASSUME TypeOK, NEW q \in Pulls, pull'[q] \in {Idle, Over}
  PROVE  Between(q)'
  BY DEF Between, Earlier, Idle, Over

\* Edits leave earlier what was earlier.
LEMMA TablesGrow ==
  ASSUME TypeOK, Forward,
         labels' \in Nat, config' \in Nat, labels <= labels', config <= config',
         UNCHANGED <<pull, version, disk>>
  PROVE  Forward'
  <1>1. ASSUME NEW d \in Payloads \cup {None}, Earlier(d) PROVE d # None =>
            d.labels <= labels' /\ d.config <= config'
    BY <1>1 DEF Earlier, Payloads, TypeOK
  <1>2. Earlier(version)' /\ (disk # Corrupt => Earlier(disk))'
    BY <1>1 DEF Forward, Earlier, TypeOK
  <1>3. ASSUME NEW q \in Pulls PROVE Between(q)'
    <2>1. pull[q] \in PullState /\ Between(q)
      BY DEF Forward, TypeOK
    <2>2. Earlier(pull[q].inm)'
      BY <1>1, <2>1 DEF Between, Earlier, PullState
    <2> QED BY <2>1, <2>2 DEF Between, PullState, TypeOK
  <1> QED BY <1>2, <1>3 DEF Forward

\* One pull goes on, and neither the tables nor the copy change.
LEMMA OnePull ==
  ASSUME TypeOK, Forward, NEW p \in Pulls,
         UNCHANGED <<labels, config, version, disk>>,
         \A q \in Pulls \ {p} : pull'[q] = pull[q],
         Between(p)'
  PROVE  Forward'
  <1>1. ASSUME NEW q \in Pulls \ {p} PROVE Between(q)'
    BY DEF Forward, Between, Earlier
  <1> QED BY <1>1 DEF Forward, Earlier

\* Edits apart, the tables are read by a pull after its ETag was taken, and
\* the copy is what a pull or the cache file holds.
LEMMA ForwardStep == TypeOK /\ VersionIsSnapshots /\ Forward /\ [Next]_vars => Forward'
  <1> SUFFICES ASSUME TypeOK, VersionIsSnapshots, Forward, [Next]_vars PROVE Forward'
    OBVIOUS
  <1>t. /\ labels \in Nat /\ config \in Nat
        /\ \A p \in Pulls : pull[p] \in PullState /\ Between(p)
        /\ Earlier(version)
        /\ "boot" \in Pulls
    BY DEF TypeOK, Forward, Pulls
  <1>r. ASSUME NEW p \in Pulls, Return(p)
        PROVE  Between(p)' /\ \A q \in Pulls \ {p} : pull'[q] = pull[q]
    <2>1. pull'[p] \in {Idle, Over} /\ \A q \in Pulls \ {p} : pull'[q] = pull[q]
      BY <1>r DEF Return, TypeOK
    <2> QED BY <2>1, EndedBetween
  <1>1. ASSUME NEW p \in Pulls, pull' = [pull EXCEPT ![p].at = "auth"],
               UNCHANGED <<labels, config, version, disk>>
        PROVE  Forward'
    <2>1. Between(p)'
      BY <1>1, <1>t DEF TypeOK, Between, Earlier, PullState
    <2> QED BY <1>1, <2>1, OnePull DEF TypeOK
  <1>2. ASSUME NEW p \in Pulls, Authenticated(p) PROVE Forward'
    <2>1. Between(p)'
      BY <1>2, <1>t DEF Authenticated, gateway, TypeOK, Between, Earlier, PullState
    <2> QED BY <1>2, <2>1, OnePull DEF Authenticated, gateway, TypeOK
  <1>3. ASSUME NEW p \in Pulls, ReadLabels(p) PROVE Forward'
    <2>1. Between(p)'
      BY <1>3, <1>t DEF ReadLabels, gateway, TypeOK, Between, Earlier, PullState
    <2> QED BY <1>3, <2>1, OnePull DEF ReadLabels, gateway, memory, TypeOK
  <1>4. ASSUME NEW p \in Pulls, ReadConfig(p) PROVE Forward'
    <2>1. Between(p)'
      BY <1>4, <1>t DEF ReadConfig, gateway, TypeOK, Between, Earlier, PullState
    <2> QED BY <1>4, <2>1, OnePull DEF ReadConfig, gateway, memory, TypeOK
  <1>5. ASSUME NEW p \in Pulls, AuthRaises(p) \/ RequestFails(p) \/ NotModified(p)
        PROVE  Forward'
    BY <1>5, <1>r, OnePull DEF AuthRaises, RequestFails, NotModified, gateway, memory
  <1>6. ASSUME NEW p \in Pulls, Apply(p) PROVE Forward'
    <2> DEFINE data == [labels |-> pull[p].labels, config |-> pull[p].config]
    <2>1. data \in Payloads /\ version' = data /\ disk' \in {data, disk, Corrupt}
      BY <1>6, <1>t DEF Apply, PullState, Payloads, Version
    <2>2. UNCHANGED <<labels, config>> /\ Earlier(data)
      BY <1>6, <1>t DEF Apply, gateway, Between, Earlier
    <2>3. Earlier(version)' /\ (disk # Corrupt => Earlier(disk))'
      BY <2>1, <2>2 DEF Earlier, Forward
    <2>4. ASSUME NEW q \in Pulls PROVE Between(q)'
      <3>1. CASE q = p
        BY <1>6, <1>r, <3>1 DEF Apply
      <3>2. CASE q # p
        BY <1>6, <1>r, <1>t, <2>2, <3>2 DEF Apply, Between, Earlier
      <3> QED BY <3>1, <3>2
    <2> QED BY <2>3, <2>4 DEF Forward
  <1>7. CASE BootDone
    <2>1. UNCHANGED <<labels, config, pull, disk>>
      BY <1>7 DEF BootDone, gateway
    <2>2. version' = version \/ (disk \in Payloads /\ version' = disk)
      BY <1>7, VersionOfPayload DEF BootDone
    <2>3. Earlier(version)'
      BY <2>1, <2>2, <1>t DEF Earlier, Forward
    <2> QED BY <2>1, <2>3 DEF Forward, Between, Earlier
  <1>8. CASE Restart
    <2>1. /\ version' = None /\ disk' \in {disk, Corrupt}
          /\ UNCHANGED <<labels, config>>
      BY <1>8, Zenon DEF Restart, gateway
    <2>2. \A q \in Pulls : pull'[q] \in {Idle, Over}
      BY <1>8 DEF Restart
    <2>3. \A q \in Pulls : Between(q)'
      BY <2>2, EndedBetween
    <2> QED BY <2>1, <2>3 DEF Forward, Earlier
  <1>9. CASE EditLabels \/ EditConfig
    BY <1>9, <1>t, TablesGrow DEF EditLabels, EditConfig, memory
  <1>10. CASE UNCHANGED <<labels, config, pull, version, disk>>
    BY <1>10, <1>t, TablesGrow
  <1>11. CASE GoDown \/ GoUp \/ TokenExpires \/ UNCHANGED vars
    BY <1>10, <1>11 DEF GoDown, GoUp, TokenExpires, memory, gateway, vars
  <1>12. CASE StartBoot
    BY <1>1, <1>12, <1>t DEF StartBoot, gateway, memory
  <1>13. ASSUME NEW p \in Pulls, StartPull(p) PROVE Forward'
    BY <1>1, <1>13 DEF StartPull, gateway, memory
  <1> QED
    BY <1>2, <1>3, <1>4, <1>5, <1>6, <1>7, <1>8, <1>9, <1>11, <1>12, <1>13
       DEF Next, PullStep

\* A pull that was not overtaken never takes the copy back to an earlier state
\* of either table, however torn the gateway's reads were, across edits,
\* outages and failures (kb_client.py:99-116).
THEOREM CopyGoesForward == Spec => NoRegress
  <1> DEFINE Inv == TypeOK /\ VersionIsSnapshots /\ Forward
  <1>1. Init => Inv
    BY InitInvariant DEF Init, Forward, Between, Earlier, Idle
  <1>2. Inv /\ [Next]_vars => Inv'
    BY TypeStep, VersionStep, ForwardStep
  <1>3. Inv /\ [Next]_vars => [\A p \in Pulls :
          (pull[p].at = "reply" /\ pull[p].inm = version /\ snapshot # None
             /\ snapshot' # snapshot /\ restarts' = restarts /\ pull'[p].at # "reply")
          => /\ snapshot' # None
             /\ snapshot'.labels >= snapshot.labels
             /\ snapshot'.config >= snapshot.config]_vars
    <2> SUFFICES ASSUME Inv, [Next]_vars, NEW p \in Pulls,
                        pull[p].at = "reply", pull[p].inm = version, snapshot # None,
                        snapshot' # snapshot, restarts' = restarts, pull'[p].at # "reply"
                 PROVE  /\ snapshot' # None
                        /\ snapshot'.labels >= snapshot.labels
                        /\ snapshot'.config >= snapshot.config
      OBVIOUS
    <2>1. snapshot \in Payloads /\ version = snapshot /\ pull[p] \in PullState /\ Between(p)
      BY VersionOfPayload DEF TypeOK, VersionIsSnapshots, Forward
    <2>2. CASE Apply(p)
      <3>1. snapshot' = [labels |-> pull[p].labels, config |-> pull[p].config]
        BY <2>2 DEF Apply
      <3>2. snapshot' \in Payloads
        BY <2>1, <3>1 DEF PullState, Payloads
      <3> QED BY <2>1, <3>1, <3>2 DEF Between, PullState, Payloads
    <2>3. ASSUME NEW q \in Pulls \ {p}, Return(q) PROVE pull'[p] = pull[p]
      BY <2>3 DEF Return, TypeOK
    <2>4. ASSUME NEW q \in Pulls \ {p}, Apply(q) PROVE FALSE
      BY <2>3, <2>4 DEF Apply
    <2>5. CASE Restart
      BY <2>5 DEF Restart, TypeOK
    <2>6. CASE BootDone
      BY <2>6 DEF BootDone
    <2>7. ASSUME NEW q \in Pulls, StartPull(q) \/ PullStep(q), ~Apply(q) PROVE FALSE
      BY <2>7 DEF StartPull, PullStep, Authenticated, AuthRaises, ReadLabels, ReadConfig,
                  RequestFails, NotModified, memory
    <2>8. CASE StartBoot \/ EditLabels \/ EditConfig \/ GoDown \/ GoUp \/ TokenExpires
               \/ UNCHANGED vars
      BY <2>8 DEF StartBoot, EditLabels, EditConfig, GoDown, GoUp, TokenExpires, memory, vars
    <2> QED BY <2>2, <2>4, <2>5, <2>6, <2>7, <2>8 DEF Next
  <1> HIDE DEF Inv
  <1> QED BY <1>1, <1>2, <1>3, PTL DEF Spec, NoRegress
===========================================================================
