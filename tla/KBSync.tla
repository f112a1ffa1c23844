------------------------------ MODULE KBSync ------------------------------
(***************************************************************************)
(* How a sidecar keeps its copy of the knowledge base: KBClient            *)
(* (sidecar/kb_client.py), the startup and POST /refresh that drive it     *)
(* (sidecar/main.py), and GET /api/kb/snapshot (gateway/kb_snapshot.py).   *)
(*                                                                         *)
(* The knowledge base is two parts edited apart, labels and config (the    *)
(* patterns and toggles), each reduced to the number of its edits; their   *)
(* hash is the pair itself.  A pull is a coroutine, one action per await.  *)
(*                                                                         *)
(* An operator Mut... is a faulty variant of the definition that follows,  *)
(* put in its place to confirm that a property notices the fault.          *)
(***************************************************************************)
EXTENDS Integers, FiniteSets

CONSTANTS
    Refreshers,   \* calls of POST /refresh
    OAuth,        \* whether an OAuthClient is configured
    None, Corrupt,
    MaxEdits,     \* bound: edits of each part by the admin
    MaxOutages,   \* bound: times the gateway becomes unreachable or answers an error
    MaxRestarts,  \* bound: times the sidecar is killed
    Events        \* which of EventKinds happen in this instance

EventKinds == {"http_error", "disk_error"}
Payloads == [labels : 0..MaxEdits, config : 0..MaxEdits]

ASSUME ConstAssumption ==
    /\ OAuth \in BOOLEAN
    /\ MaxEdits \in Nat /\ MaxOutages \in Nat /\ MaxRestarts \in Nat
    /\ Events \subseteq EventKinds
    /\ {"boot", "loop"} \cap Refreshers = {}
    /\ None \notin Payloads /\ Corrupt \notin Payloads /\ None # Corrupt

Pulls == {"boot", "loop"} \cup Refreshers

VARIABLES
    labels, config,  \* the gateway's tables
    up, outages,     \* whether the gateway is reachable
    phase,           \* the sidecar: "boot", "booting", "up" or "failed"
    restarts,
    pull,            \* pull[p]: where each pull is and what it carries
    snapshot,        \* _snapshot
    version,         \* _version
    token,           \* the OAuthClient holds a token that is still fresh
    disk             \* the cache file: None, Corrupt or a payload

gateway == <<labels, config, up, outages>>
memory == <<snapshot, version, token>>
vars == <<gateway, phase, restarts, pull, memory, disk>>

\* A pull: at the next await, If-None-Match, and what the gateway has read.
PullState == [at : {"idle", "auth", "send", "labels", "reply", "not_modified", "over"},
              inm : Payloads \cup {None}, labels : 0..MaxEdits, config : 0..MaxEdits]
Idle == [at |-> "idle", inm |-> None, labels |-> 0, config |-> 0]
Over == [Idle EXCEPT !.at = "over"]

\* sha256 of the canonical payload
MutVersionOfLabels(l, c) == [labels |-> l, config |-> 0]
Version(l, c) == [labels |-> l, config |-> c]

Init ==
    /\ labels = 0 /\ config = 0
    /\ up \in BOOLEAN
    /\ outages = 0
    /\ phase = "boot"
    /\ restarts = 0
    /\ pull = [p \in Pulls |-> Idle]
    /\ snapshot = None
    /\ version = None
    /\ token = FALSE
    /\ disk = None

---------------------------------------------------------------------------
\* Startup pulls once; the loop pulls whenever its sleep is over, forever;
\* every Refresher is one POST /refresh.
StartBoot ==
    /\ phase = "boot"
    /\ phase' = "booting"
    /\ pull' = [pull EXCEPT !["boot"].at = "auth"]
    /\ UNCHANGED <<gateway, restarts, memory, disk>>

StartPull(p) ==
    /\ p # "boot"
    /\ phase = "up"
    /\ pull[p].at = "idle"
    /\ pull' = [pull EXCEPT ![p].at = "auth"]
    /\ UNCHANGED <<gateway, phase, restarts, memory, disk>>

\* How a pull ends: the loop goes back to sleep.
Return(p) == pull' = [pull EXCEPT ![p] = IF p = "loop" THEN Idle ELSE Over]

\* A call to the gateway fails: it is unreachable, or answers an error.
Refused ==
    \/ ~up /\ UNCHANGED outages
    \/ "http_error" \in Events /\ outages < MaxOutages /\ outages' = outages + 1

\* _auth_headers answers; the version is read after it.
Authenticated(p) ==
    /\ pull[p].at = "auth"
    /\ OAuth => token \/ up
    /\ token' = OAuth
    /\ pull' = [pull EXCEPT ![p].at = "send", ![p].inm = version]
    /\ UNCHANGED <<gateway, phase, restarts, snapshot, version, disk>>

\* The token endpoint does not answer, or not with 200: the exception leaves
\* pull().  The loop survives it, POST /refresh answers 500, startup does not.
AuthRaises(p) ==
    /\ pull[p].at = "auth"
    /\ OAuth /\ ~token
    /\ Refused
    /\ Return(p)
    /\ phase' = IF p = "boot" THEN "failed" ELSE phase
    /\ UNCHANGED <<labels, config, up, restarts, memory, disk>>

\* The gateway reads its tables in separate queries, then compares hashes.
ReadLabels(p) ==
    /\ pull[p].at = "send"
    /\ up
    /\ pull' = [pull EXCEPT ![p].at = "labels", ![p].labels = labels]
    /\ UNCHANGED <<gateway, phase, restarts, memory, disk>>

ReadConfig(p) ==
    /\ pull[p].at = "labels"
    /\ up
    /\ pull' = [pull EXCEPT
                  ![p].config = config,
                  ![p].at = IF pull[p].inm = Version(pull[p].labels, config)
                            THEN "not_modified" ELSE "reply"]
    /\ UNCHANGED <<gateway, phase, restarts, memory, disk>>

\* httpx.HTTPError, or a status that is neither 200 nor 304.
MutRequestFailsForgets(p) ==
    /\ pull[p].at \in {"send", "labels", "reply", "not_modified"}
    /\ Refused
    /\ Return(p)
    /\ snapshot' = None /\ version' = None
    /\ UNCHANGED <<labels, config, up, phase, restarts, token, disk>>
RequestFails(p) ==
    /\ pull[p].at \in {"send", "labels", "reply", "not_modified"}
    /\ Refused
    /\ Return(p)
    /\ UNCHANGED <<labels, config, up, phase, restarts, memory, disk>>

NotModified(p) ==
    /\ pull[p].at = "not_modified"
    /\ Return(p)
    /\ UNCHANGED <<gateway, phase, restarts, memory, disk>>

\* 200: memory and disk change together; a failed write leaves the file as it
\* was or cut.
MutApplyIfPersisted(p) ==
    LET data == [labels |-> pull[p].labels, config |-> pull[p].config]
    IN /\ pull[p].at = "reply"
       /\ version' = Version(data.labels, data.config)
       /\ \/ disk' = data /\ snapshot' = data
          \/ "disk_error" \in Events /\ disk' \in {disk, Corrupt} /\ UNCHANGED snapshot
       /\ Return(p)
       /\ UNCHANGED <<gateway, phase, restarts, token>>
Apply(p) ==
    LET data == [labels |-> pull[p].labels, config |-> pull[p].config]
    IN /\ pull[p].at = "reply"
       /\ snapshot' = data
       /\ version' = Version(data.labels, data.config)
       /\ disk' \in {data} \cup (IF "disk_error" \in Events THEN {disk, Corrupt} ELSE {})
       /\ Return(p)
       /\ UNCHANGED <<gateway, phase, restarts, token>>

\* Startup after its pull: the disk cache fills in when the pull brought
\* nothing; then the loop starts.
MutBootForgetsDisk ==
    /\ phase = "booting"
    /\ pull["boot"].at = "over"
    /\ phase' = "up"
    /\ UNCHANGED <<gateway, restarts, pull, memory, disk>>
BootDone ==
    /\ phase = "booting"
    /\ pull["boot"].at = "over"
    /\ phase' = "up"
    /\ IF snapshot = None /\ disk \in Payloads
       THEN snapshot' = disk /\ version' = Version(disk.labels, disk.config)
       ELSE UNCHANGED <<snapshot, version>>
    /\ UNCHANGED <<gateway, restarts, pull, token, disk>>

\* The sidecar is killed and started again; killed while it writes the cache
\* file, it leaves a cut one.
Restart ==
    /\ restarts < MaxRestarts
    /\ phase # "failed"
    /\ restarts' = restarts + 1
    /\ phase' = "boot"
    /\ pull' = [p \in Pulls |-> IF p \in Refreshers /\ pull[p].at # "idle" THEN Over ELSE Idle]
    /\ snapshot' = None
    /\ version' = None
    /\ token' = FALSE
    /\ disk' \in {disk} \cup (IF \E p \in Pulls : pull[p].at = "reply" THEN {Corrupt} ELSE {})
    /\ UNCHANGED gateway

---------------------------------------------------------------------------
(* Around the sidecar. *)
EditLabels ==
    /\ labels < MaxEdits
    /\ labels' = labels + 1
    /\ UNCHANGED <<config, up, outages, phase, restarts, pull, memory, disk>>

EditConfig ==
    /\ config < MaxEdits
    /\ config' = config + 1
    /\ UNCHANGED <<labels, up, outages, phase, restarts, pull, memory, disk>>

GoDown ==
    /\ up
    /\ outages < MaxOutages
    /\ up' = FALSE
    /\ outages' = outages + 1
    /\ UNCHANGED <<labels, config, phase, restarts, pull, memory, disk>>

GoUp ==
    /\ ~up
    /\ up' = TRUE
    /\ UNCHANGED <<labels, config, outages, phase, restarts, pull, memory, disk>>

TokenExpires ==
    /\ token
    /\ token' = FALSE
    /\ UNCHANGED <<gateway, phase, restarts, pull, snapshot, version, disk>>

---------------------------------------------------------------------------
PullStep(p) ==
    \/ Authenticated(p) \/ AuthRaises(p) \/ ReadLabels(p) \/ ReadConfig(p)
    \/ RequestFails(p) \/ NotModified(p) \/ Apply(p)

Next ==
    \/ StartBoot \/ BootDone \/ Restart
    \/ \E p \in Pulls : StartPull(p) \/ PullStep(p)
    \/ EditLabels \/ EditConfig \/ GoDown \/ GoUp \/ TokenExpires

Spec == Init /\ [][Next]_vars

\* The gateway comes back, every request is answered or fails, and the loop
\* wakes up after each sleep.
LiveSpec ==
    /\ Spec
    /\ WF_vars(GoUp) /\ WF_vars(StartBoot) /\ WF_vars(BootDone)
    /\ WF_vars(StartPull("loop"))
    /\ \A p \in Pulls : WF_vars(PullStep(p))

---------------------------------------------------------------------------
(* Properties. *)

\* Every variable keeps the shape the code gives it.
TypeOK ==
    /\ labels \in 0..MaxEdits /\ config \in 0..MaxEdits
    /\ up \in BOOLEAN /\ outages \in 0..MaxOutages
    /\ phase \in {"boot", "booting", "up", "failed"}
    /\ restarts \in 0..MaxRestarts
    /\ pull \in [Pulls -> PullState]
    /\ snapshot \in Payloads \cup {None}
    /\ version \in Payloads \cup {None}
    /\ token \in BOOLEAN
    /\ disk \in Payloads \cup {None, Corrupt}

\* The version sent as If-None-Match is always that of the copy in memory,
\* whether it came from a pull, from the disk or out of order: a 304 never
\* confirms a copy the sidecar does not have.
VersionIsSnapshots ==
    IF snapshot = None THEN version = None
    ELSE version = Version(snapshot.labels, snapshot.config)

\* A 304 confirms the copy: unless another pull changed it meanwhile, the copy
\* is exactly what the gateway read for this request.
NotModifiedIsCurrent ==
    \A p \in Pulls : pull[p].at = "not_modified" /\ pull[p].inm = version =>
        snapshot = [labels |-> pull[p].labels, config |-> pull[p].config]

\* A pull never takes the copy it started from back to an earlier state of
\* either table; only a pull that was overtaken by another can.
NoRegress ==
    [][\A p \in Pulls :
          (pull[p].at = "reply" /\ pull[p].inm = version /\ snapshot # None
             /\ snapshot' # snapshot /\ restarts' = restarts /\ pull'[p].at # "reply")
          => /\ snapshot' # None
             /\ snapshot'.labels >= snapshot.labels
             /\ snapshot'.config >= snapshot.config]_vars

\* A sidecar that is up and has a readable cache file works from a copy of
\* the knowledge base, although the gateway was unreachable when it started.
BootUsesDisk == phase = "up" /\ disk \in Payloads => snapshot # None

\* Once edits, outages and restarts stop, the copy of a sidecar that started
\* becomes the gateway's state for good, although snapshots may be torn between
\* the gateway's queries and concurrent pulls may be applied out of order.
Converges ==
    <>[](phase = "failed" \/
         (phase = "up" /\ snapshot = [labels |-> labels, config |-> config]))

\* An unreachable gateway does not keep the sidecar from starting.
StartupSurvives == phase # "failed"
===========================================================================
