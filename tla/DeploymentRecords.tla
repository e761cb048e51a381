------------------------- MODULE DeploymentRecords -------------------------
(***************************************************************************)
(* What the gateway remembers about a confirmed deployment, and what       *)
(* eth_getCode serves from it.                                             *)
(*                                                                         *)
(* A proxy carries its controller (a ProxyAdmin or a beacon) as an         *)
(* immutable word of its runtime code.  That word is an actual address and *)
(* has to be replaced by the predicted one, so three records are kept      *)
(* beside the address mapping: the artifact snapshot of the provenance     *)
(* (with the byte ranges of its immutables), and a descriptor per          *)
(* deployment, pending or complete, that commits the words found in the    *)
(* live code.  They are written by the send path after confirmation, by    *)
(* recovery, by `adopt` and by `repair`, each in transactions of its own,  *)
(* while artifacts come and go on disk and reads may fail.                 *)
(***************************************************************************)
EXTENDS Naturals, FiniteSets

CONSTANTS
    Deployments,    \* contracts, by predicted address
    Proxies,        \* transparent and beacon proxies: these need a role
    Admins,         \* ProxyAdmins created inside a proxy's deployment
    Parent,         \* the proxy whose deployment creates an admin
    Controller,     \* the contract a proxy delegates to, None: never mapped
    Embeds,         \* deployments whose live code carries a role address
    Existing,       \* deployments already on chain, to be adopted
    Artifacts,      \* verified artifacts, one per provenance hash
    Built,          \* the artifact a deployment was made from
    Name,           \* the fully qualified name of an artifact
    Ranges,         \* what an artifact says of its immutables
    NeedsLinking,   \* artifacts whose creation code has library holes
    Linked,         \* a deployment's creation code: its libraries
    None            \* no artifact, no envelope

Names == {Name[a] : a \in Artifacts}
Links == {Linked[d] : d \in Deployments}
Roots == Deployments \ Admins       \* deployed by a transaction of their own
Declared == {"address", "empty", "malformed"}

ASSUME ShapeAssumption ==
    /\ Proxies \subseteq Deployments /\ Admins \subseteq Deployments \ Proxies
    /\ Embeds \subseteq Deployments  /\ Existing \subseteq Deployments
    /\ Parent \in [Admins -> Proxies]
    /\ Controller \in [Proxies -> Deployments \cup {None}]
    /\ Built \in [Deployments -> Artifacts]
    /\ Ranges \in [Artifacts -> Declared]
    /\ NeedsLinking \subseteq Artifacts
    /\ DOMAIN Name = Artifacts /\ DOMAIN Linked = Deployments
    /\ None \notin Artifacts \cup Deployments

\* A proxy made from an artifact that declares an address immutable carries
\* one, and a ProxyAdmin has no immutable (its artifact declares none).
ASSUME CodeAssumption ==
    /\ \A d \in Proxies : Ranges[Built[d]] = "address" => d \in Embeds
    /\ \A d \in Admins : /\ d \notin Embeds
                         /\ \A a \in Artifacts : Name[a] = Name[Built[d]]
                                                 => Ranges[a] # "address"

\* Creation code without library holes is the same for every deployment.
ASSUME LinkAssumption ==
    \A d, e \in Deployments :
        Built[d] = Built[e] /\ Built[d] \notin NeedsLinking => Linked[d] = Linked[e]

VARIABLES
    origin,         \* how a deployment was mapped: none, journal or adopted
    snapshot,       \* artifact snapshot per provenance
    descriptor,     \* deployment descriptor
    sent,           \* deployments with a native transaction in the journal
    disk,           \* the artifact found on disk under a name
    mode,           \* down, up (the gateway runs) or repair
    at, by,         \* where the task for a deployment is, and which task it is
    got, seen,      \* its capture, and the envelope it saw before reading
    todo,           \* mappings the running repair has still to visit
    fixing, source  \* the one it is at, and the artifact its offsets come from

vars == <<origin, snapshot, descriptor, sent, disk, mode, at, by, got, seen,
          todo, fixing, source>>
records == <<origin, snapshot, descriptor>>
tasks == <<at, by, got, seen>>
repair == <<todo, fixing, source>>
-----------------------------------------------------------------------------
(* Data *)

Envelopes == [linked : Links, offsets : BOOLEAN]
ASSUME NoneAssumption == None \notin Envelopes
Disks == {f \in [Names -> Artifacts \cup {None}] :
            \A n \in Names : f[n] = None \/ Name[f[n]] = n}

\* Words a complete descriptor commits: the role address, nothing, or bytes
\* read at offsets that describe some other code.
Contents == {"role", "nothing", "garbage"}
Mapped(d) == origin[d] # "none"
Complete(d) == descriptor[d] \in Contents
Controlled(d) == Controller[d] # None /\ Mapped(Controller[d])

\* buildDescriptorsFromRanges on the live code of d, at the offsets of a.
Bind(d, a) ==
    IF Ranges[a] # "address" THEN "nothing"
    ELSE IF d \in Proxies THEN IF a = Built[d] THEN "role" ELSE "garbage"
    ELSE IF a = Built[d] /\ d \in Embeds THEN "role" ELSE "nothing"

\* The live code equals the runtime template of a byte for byte.
MatchesTemplate(d, a) == a = Built[d] /\ d \notin Embeds

\* verifyArtifactProvenance finds the artifact d was made from: the file under
\* its name, checked against its build info, has the recorded provenance.
Verifies(d, dk) == dk[Name[Built[d]]] = Built[d]

\* The artifact on disk under d's name, if its provenance is the recorded one.
OnDisk(d, dk) == IF Verifies(d, dk) /\ Ranges[Built[d]] # "malformed"
                 THEN Built[d] ELSE None
HasOffsets(a) == snapshot[a] # None /\ snapshot[a].offsets

\* Which artifact describes d's immutables: a ProxyAdmin of the journal has its
\* own artifact and no recorded provenance; everything else the durable
\* offsets first, then the disk.
Derived(d) == d \in Admins /\ origin[d] = "journal"
DerivedSource(d, dk) ==
    LET a == dk[Name[Built[d]]]
    IN  IF a # None /\ Ranges[a] # "malformed" THEN a ELSE None
\* Mutant: no fallback to the artifact on disk.
SourceStored(d, dk) ==
    IF ~Derived(d) /\ HasOffsets(Built[d]) THEN Built[d] ELSE None
Source(d, dk) ==
    IF Derived(d) THEN DerivedSource(d, dk)
    ELSE IF HasOffsets(Built[d]) THEN Built[d]
    ELSE OnDisk(d, dk)

\* The bound word resolves to a predicted address.
Resolves(d, word) ==
    word = "role" /\ (d \in Proxies => Controlled(d))

\* projectCodeImmutables: the code is served as the chain has it, with its role
\* words projected, or not at all.
ServedComplete(d, dk) ==
    IF descriptor[d] # "nothing"
    THEN IF Resolves(d, descriptor[d]) THEN "projected" ELSE "refused"
    ELSE IF d \notin Proxies THEN "raw"
    ELSE LET a == Source(d, dk)
         IN  IF a # None /\ Ranges[a] = "empty" /\ MatchesTemplate(d, a)
             THEN "raw" ELSE "refused"
\* Mutant: a proxy falls back to the raw code.
ServedPendingRaw(d, dk) ==
    LET a == Source(d, dk)
    IN  IF a # None /\ Resolves(d, Bind(d, a)) THEN "projected" ELSE "raw"
ServedPending(d, dk) ==
    LET a == Source(d, dk)
        unprojected == IF d \in Proxies THEN "refused" ELSE "raw"
    IN  IF a = None THEN unprojected
        ELSE IF Bind(d, a) = "nothing"
        THEN IF d \in Proxies /\ ~MatchesTemplate(d, a) THEN "refused" ELSE "raw"
        ELSE IF Resolves(d, Bind(d, a)) THEN "projected" ELSE unprojected
Served(d, dk) == IF Complete(d) THEN ServedComplete(d, dk) ELSE ServedPending(d, dk)
-----------------------------------------------------------------------------
(* The two conditional writes *)

\* Mutant: the envelope is overwritten.
AcceptsAll(a, e) == TRUE
\* setArtifactSnapshot: a stored envelope may gain offsets and nothing else.
Accepts(a, e) == snapshot[a] # None => snapshot[a].linked = e.linked
Stored(a, e) == [snapshot EXCEPT ![a] =
                    [linked |-> e.linked,
                     offsets |-> e.offsets \/ HasOffsets(a)]]

\* setDeploymentDescriptor: pending may become complete; complete is final.
\* persistDeploymentDescriptor and repair swallow the refusal.
Transition(old, new) ==
    IF old \in Contents THEN old
    ELSE IF old = "pending" /\ new = "pending" THEN old ELSE new
Describe(d, word) ==
    descriptor' = [descriptor EXCEPT ![d] = Transition(@, word)]
-----------------------------------------------------------------------------
(* Init: records of an earlier release may lack the snapshot or its offsets, *)
(* and all descriptors.                                                      *)

Init ==
    /\ \E legacy \in SUBSET (Roots \ Existing) :
        /\ sent = legacy
        /\ origin = [d \in Deployments |->
                        IF d \in legacy \/ (d \in Admins /\ Parent[d] \in legacy)
                        THEN "journal" ELSE "none"]
        /\ snapshot \in [Artifacts -> Envelopes \cup {None}]
        /\ \A a \in Artifacts :
            \/ snapshot[a] = None
            \/ \E d \in legacy : /\ Built[d] = a
                                 /\ snapshot[a] = [linked |-> Linked[d],
                                                   offsets |-> FALSE]
    /\ descriptor = [d \in Deployments |-> "absent"]
    /\ disk \in Disks
    /\ mode = "down"
    /\ at = [d \in Deployments |-> "idle"]
    /\ by = [d \in Deployments |-> "deploy"]
    /\ got = [d \in Deployments |-> "pending"]
    /\ seen = [d \in Deployments |-> None]
    /\ todo = {} /\ fixing = None /\ source = None
-----------------------------------------------------------------------------
(* The send path and recovery *)

At(d, from, to) == at[d] = from /\ at' = [at EXCEPT ![d] = to]
\* The task is over, and with it what it had read.
Ends(d, from) ==
    /\ At(d, from, "idle")
    /\ by' = [by EXCEPT ![d] = "deploy"]
    /\ got' = [got EXCEPT ![d] = "pending"]
    /\ seen' = [seen EXCEPT ![d] = None]
Envelope(d) == [linked |-> Linked[d], offsets |-> Ranges[Built[d]] # "malformed"]

\* The queue releases one build at a time, and the next nonce when the
\* transactions before it are confirmed.
Released == /\ \A e \in sent : Mapped(e)
            /\ \A e \in Deployments : at[e] # "idle" => by[e] = "resume"

\* matchDeploymentArtifact: the initcode begins with the creation code of the
\* artifact, its library holes filled in any way.
Matches(d) == Verifies(d, disk)

\* processClaimed up to the broadcast: the artifact on disk matches the
\* initcode, and the task keeps what it read of it.
Send(d) ==
    /\ mode = "up" /\ d \in Roots \ (sent \cup Existing) /\ Released
    /\ Matches(d)
    /\ At(d, "idle", "receipt")
    /\ by' = [by EXCEPT ![d] = "deploy"]
    /\ sent' = sent \cup {d}
    /\ UNCHANGED <<records, disk, mode, got, seen, repair>>

\* resumePrepared, for a retried request or at startup.
Resume(d) ==
    /\ mode = "up" /\ d \in sent /\ ~Mapped(d)
    /\ At(d, "idle", "receipt")
    /\ by' = [by EXCEPT ![d] = "resume"]
    /\ UNCHANGED <<records, sent, disk, mode, got, seen, repair>>

\* The wait for the receipt, or its reconciliation, fails.
GiveUp(d) ==
    /\ Ends(d, "receipt")
    /\ UNCHANGED <<records, sent, disk, mode, repair>>

\* The receipt is solid: the reconciler publishes the mapping and metadata of
\* the deployment and of the contracts it created, in one transaction.
Confirm(d) ==
    LET published == {d} \cup {c \in Admins : Parent[c] = d}
    IN  /\ \A c \in published : ~Mapped(c)
        /\ At(d, "receipt", IF by[d] = "deploy" THEN "capture" ELSE "rebuild")
        /\ origin' = [c \in Deployments |->
                        IF c \in published THEN "journal" ELSE origin[c]]
        /\ UNCHANGED <<snapshot, descriptor, sent, disk, mode, by, got, seen, repair>>

\* reconstructMissingSnapshot before its read: leave when all is durable or the
\* artifact of the deployment is no longer on disk.
Rebuild(d) ==
    LET leave == \/ HasOffsets(Built[d]) /\ Complete(d)
                 \/ ~Verifies(d, disk)
    IN  /\ \/ leave /\ Ends(d, "rebuild")
           \/ /\ ~leave /\ At(d, "rebuild", "capture")
              /\ seen' = [seen EXCEPT ![d] = snapshot[Built[d]]]
              /\ UNCHANGED <<by, got>>
        /\ UNCHANGED <<records, sent, disk, mode, repair>>

\* Mutant: a failed read counts as nothing to project.
CapturedLax(d) == {Bind(d, Built[d]), "nothing"}

\* captureDescriptorsBestEffort: no read without an address immutable; a read
\* that keeps failing, or a map that cannot be parsed, leaves it pending.
Captured(d) ==
    CASE Ranges[Built[d]] = "malformed" -> {"pending"}
      [] Ranges[Built[d]] = "empty"     -> {"nothing"}
      [] OTHER                          -> {Bind(d, Built[d]), "pending"}
Capture(d) ==
    /\ At(d, "capture", "envelope")
    /\ \E word \in Captured(d) : got' = [got EXCEPT ![d] = word]
    /\ UNCHANGED <<records, sent, disk, mode, by, seen, repair>>

\* The snapshot write of processClaimed: a conflict is thrown to the caller.
StoreEnvelope(d) ==
    LET stored == Accepts(Built[d], Envelope(d))
    IN  /\ by[d] = "deploy"
        /\ At(d, "envelope", IF stored THEN "describe" ELSE "failed")
        /\ snapshot' = IF stored THEN Stored(Built[d], Envelope(d)) ELSE snapshot
        /\ UNCHANGED <<origin, descriptor, sent, disk, mode, by, got, seen, repair>>

\* The snapshot write of reconstructMissingSnapshot: absent, it is rebuilt (the
\* linked creation code needs the artifact again); without offsets, it gains
\* them.  A refusal leaves the descriptor alone.
Rebuilt(d) ==
    IF seen[d] = None THEN Envelope(d)
    ELSE [seen[d] EXCEPT !.offsets = @ \/ Ranges[Built[d]] # "malformed"]
StoreRebuilt(d) ==
    LET write == seen[d] = None \/ (~seen[d].offsets /\ Rebuilt(d).offsets)
        matched == \/ seen[d] # None \/ Built[d] \notin NeedsLinking
                   \/ Matches(d)
        stored == matched /\ (write => Accepts(Built[d], Rebuilt(d)))
    IN  /\ by[d] = "resume"
        /\ \/ stored /\ At(d, "envelope", "describe") /\ UNCHANGED <<by, got, seen>>
           \/ ~stored /\ Ends(d, "envelope")
        /\ snapshot' = IF stored /\ write THEN Stored(Built[d], Rebuilt(d))
                       ELSE snapshot
        /\ UNCHANGED <<origin, descriptor, sent, disk, mode, repair>>

\* persistDeploymentDescriptor
Persist(d) ==
    /\ Ends(d, "describe")
    /\ Describe(d, got[d])
    /\ UNCHANGED <<origin, snapshot, sent, disk, mode, repair>>

\* The request was answered with the conflict.
Answer(d) ==
    /\ Ends(d, "failed")
    /\ UNCHANGED <<records, sent, disk, mode, repair>>
-----------------------------------------------------------------------------
(* The commands that hold the state lock in the gateway's place *)

\* adopt: every check, then one transaction that writes all the records.
Adoptable(d) ==
    LET a == Built[d]
    IN  /\ d \in Existing \cup sent /\ ~Mapped(d)
        /\ Verifies(d, disk) /\ a \notin NeedsLinking
        /\ Ranges[a] = "address" \/ (Ranges[a] = "empty" /\ MatchesTemplate(d, a))
        /\ d \in Proxies => Ranges[a] = "address" /\ Controlled(d)
        /\ Accepts(a, Envelope(d))
Adopt(d) ==
    /\ mode = "down" /\ Adoptable(d)
    /\ origin' = [origin EXCEPT ![d] = "adopted"]
    /\ snapshot' = Stored(Built[d], Envelope(d))
    /\ Describe(d, Bind(d, Built[d]))
    /\ UNCHANGED <<sent, disk, mode, tasks, repair>>

StartRepair ==
    /\ mode = "down" /\ mode' = "repair"
    /\ todo' = {d \in Deployments : Mapped(d)}
    /\ UNCHANGED <<records, sent, disk, tasks, fixing, source>>

Skip(d) ==
    /\ mode = "repair" /\ fixing = None /\ d \in todo /\ Complete(d)
    /\ todo' = todo \ {d}
    /\ UNCHANGED <<records, sent, disk, mode, tasks, fixing, source>>

\* repairImmutableRanges: offsets found on disk are stored before they count,
\* rebuilding the whole envelope of a confirmed deployment that has none.  An
\* adopted one has had its envelope since its mapping.
\* Mutant: offsets found on disk are not stored.
RepairSourceVolatile(d) ==
    source' = Source(d, disk) /\ UNCHANGED snapshot
RepairSource(d) ==
    LET a == Source(d, disk)
        stores == a # None /\ ~Derived(d) /\ ~HasOffsets(a)
        envelope == IF snapshot[Built[d]] = None THEN Envelope(d)
                    ELSE [snapshot[Built[d]] EXCEPT !.offsets = TRUE]
        resolved == stores /\ snapshot[Built[d]] = None => origin[d] = "journal"
    IN  /\ source' = IF resolved THEN a ELSE None
        /\ snapshot' = IF stores /\ resolved THEN Stored(Built[d], envelope)
                       ELSE snapshot
Locate(d) ==
    /\ mode = "repair" /\ fixing = None /\ d \in todo /\ ~Complete(d)
    /\ fixing' = d
    /\ RepairSource(d)
    /\ UNCHANGED <<origin, descriptor, sent, disk, mode, tasks, todo>>

\* The word repair commits after its read, when the read succeeds.
RepairedWord(d, a) ==
    IF a = None THEN "pending"
    ELSE IF Ranges[a] = "empty"
    THEN IF d \in Proxies /\ ~MatchesTemplate(d, a) THEN "pending" ELSE "nothing"
    ELSE Bind(d, a)
\* Without an address immutable, a plain contract needs no read.
NeedsRead(d, a) == a # None /\ (Ranges[a] = "address" \/ d \in Proxies)
Fix(d, readable) ==
    /\ mode = "repair" /\ fixing = d
    /\ Describe(d, IF readable \/ ~NeedsRead(d, source)
                   THEN RepairedWord(d, source) ELSE "pending")
    /\ todo' = todo \ {d} /\ fixing' = None /\ source' = None
    /\ UNCHANGED <<origin, snapshot, sent, disk, mode, tasks>>

EndRepair ==
    /\ mode = "repair" /\ todo = {} /\ mode' = "down"
    /\ UNCHANGED <<records, sent, disk, tasks, repair>>
-----------------------------------------------------------------------------
(* The surroundings *)

Start ==
    /\ mode = "down" /\ mode' = "up"
    /\ UNCHANGED <<records, sent, disk, tasks, repair>>

\* The gateway or the command stops, or is killed, between any two writes.
Stop ==
    /\ mode # "down" /\ mode' = "down"
    /\ at' = [d \in Deployments |-> "idle"] /\ by' = [d \in Deployments |-> "deploy"]
    /\ got' = [d \in Deployments |-> "pending"] /\ seen' = [d \in Deployments |-> None]
    /\ todo' = {} /\ fixing' = None /\ source' = None
    /\ UNCHANGED <<records, sent, disk>>

\* forge build, forge clean, a restored output directory.
Compile ==
    /\ disk' \in Disks /\ disk' # disk
    /\ UNCHANGED <<records, sent, mode, tasks, repair>>

Task(d) ==
    \/ Send(d) \/ Resume(d) \/ GiveUp(d) \/ Confirm(d) \/ Rebuild(d) \/ Capture(d)
    \/ StoreEnvelope(d) \/ StoreRebuilt(d) \/ Persist(d) \/ Answer(d)
Command(d) ==
    \/ Adopt(d) \/ Skip(d) \/ Locate(d) \/ Fix(d, TRUE) \/ Fix(d, FALSE)
Next ==
    \/ \E d \in Deployments : Task(d) \/ Command(d)
    \/ StartRepair \/ EndRepair \/ Start \/ Stop \/ Compile

Spec == Init /\ [][Next]_vars

\* The operator repairs again and again, and a repair that is run again and
\* again does reach every deployment and does, some time, read its code.
Fairness ==
    /\ SF_vars(Stop) /\ SF_vars(StartRepair)
    /\ \A d \in Deployments : SF_vars(Locate(d)) /\ SF_vars(Fix(d, TRUE))
LiveSpec == Spec /\ Fairness
-----------------------------------------------------------------------------
(* Properties *)

\* The records, the artifacts on disk and the tasks have their shapes.
TypeOK ==
    /\ origin \in [Deployments -> {"none", "journal", "adopted"}]
    /\ snapshot \in [Artifacts -> Envelopes \cup {None}]
    /\ descriptor \in [Deployments -> {"absent", "pending"} \cup Contents]
    /\ sent \subseteq Roots
    /\ disk \in Disks
    /\ mode \in {"down", "up", "repair"}
    /\ at \in [Deployments -> {"idle", "receipt", "rebuild", "capture",
                               "envelope", "describe", "failed"}]
    /\ by \in [Deployments -> {"deploy", "resume"}]
    /\ got \in [Deployments -> {"pending"} \cup Contents]
    /\ seen \in [Deployments -> Envelopes \cup {None}]
    /\ todo \subseteq Deployments
    /\ fixing \in Deployments \cup {None}
    /\ source \in Artifacts \cup {None}
    /\ mode # "repair" => todo = {} /\ fixing = None /\ source = None
    /\ fixing # None => fixing \in todo
    /\ source # None => fixing # None

\* eth_getCode never serves a proxy's code with the actual address of its
\* controller left in it, whatever was captured, lost or replaced on disk:
\* an upgrade through that address would revert.
NeverUnprojected ==
    \A d \in Proxies \cap Embeds : Mapped(d) => Served(d, disk) # "raw"

\* A complete descriptor, which nothing corrects any more, commits the words
\* the live code has at the offsets of the artifact it was deployed from.
CommitsTheTruth ==
    \A d \in Deployments : Complete(d) => descriptor[d] = Bind(d, Built[d])

\* What is served for a completed deployment does not depend on the artifact
\* directory: it may be cleaned or rebuilt at any time.
SurvivesClean ==
    \A d \in Deployments : Complete(d) =>
        \A dk \in Disks : Served(d, dk) = Served(d, disk)

\* No later deployment, recovery, adoption or repair changes the envelope of a
\* provenance, other than by adding offsets, or a completed descriptor.
RecordsFinal ==
    [][ /\ \A a \in Artifacts : snapshot[a] # None =>
            /\ snapshot'[a] # None /\ snapshot'[a].linked = snapshot[a].linked
            /\ snapshot[a].offsets => snapshot'[a].offsets
        /\ \A d \in Deployments : Complete(d) => descriptor'[d] = descriptor[d]
      ]_vars

\* handlers.ts: "a CONFIRMED deployment must never fail on capture".
ConfirmedNeverFails == \A d \in Deployments : at[d] # "failed"

\* Once the artifacts a project was deployed from stay on disk, repair completes
\* the descriptor of every deployment whose code can be described at all,
\* whatever crash or failed read left it without snapshot or descriptor.
Describable(d) ==
    /\ Ranges[Built[d]] # "malformed"
    /\ d \in Proxies /\ Ranges[Built[d]] = "empty" => d \notin Embeds
ArtifactsBack == \A d \in Deployments : Verifies(d, disk)
RepairHeals ==
    <>[]ArtifactsBack =>
        \A d \in Deployments : Describable(d) => (Mapped(d) ~> Complete(d))
=============================================================================
