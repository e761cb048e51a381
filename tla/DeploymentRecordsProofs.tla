----------------------- MODULE DeploymentRecordsProofs -----------------------
(***************************************************************************)
(* Proofs about DeploymentRecords, for every set of deployments and        *)
(* artifacts: envelopes and completed descriptors are final, completed     *)
(* descriptors are true of the live code, and what is served from them     *)
(* survives the artifact directory.                                        *)
(***************************************************************************)
EXTENDS DeploymentRecords, TLAPS

\* A capture is what the live code holds, where that can be read at all.
Honest ==
  \A d \in Deployments :
    got[d] # "pending" => got[d] = Bind(d, Built[d]) /\ Ranges[Built[d]] # "malformed"

\* Offsets once seen are still there.
SawOffsets ==
  \A d \in Deployments : seen[d] # None => (seen[d].offsets => HasOffsets(Built[d]))

\* A task about to complete a descriptor has made the offsets durable.
ReadyToPersist ==
  \A d \in Deployments :
    at[d] = "describe" /\ got[d] # "pending" => HasOffsets(Built[d])

\* So has a repair that found them, except for a ProxyAdmin's.
Located ==
  fixing # None /\ source # None =>
    \/ source = Built[fixing] /\ HasOffsets(Built[fixing])
    \/ fixing \in Admins /\ Name[source] = Name[Built[fixing]]

\* A completed descriptor is true, and an empty one of a proxy has durable
\* offsets to be checked against.
Committed ==
  \A d \in Deployments : Complete(d) =>
    /\ descriptor[d] = Bind(d, Built[d])
    /\ d \in Proxies /\ descriptor[d] = "nothing" => HasOffsets(Built[d])

IInv == TypeOK /\ Honest /\ SawOffsets /\ ReadyToPersist /\ Located /\ Committed

\* What every step does to the envelopes: they only gain offsets.
Gains ==
  \A a \in Artifacts : snapshot[a] # None =>
    /\ snapshot'[a] # None /\ snapshot'[a].linked = snapshot[a].linked
    /\ snapshot[a].offsets => snapshot'[a].offsets

\* What most steps do to the locals of the tasks: they stay, or are dropped.
Drops ==
  \A d \in Deployments : /\ got'[d] = got[d] \/ got'[d] = "pending"
                         /\ seen'[d] = seen[d] \/ seen'[d] = None

USE ShapeAssumption, NoneAssumption
-----------------------------------------------------------------------------
(* The conditional writes. *)

\* setArtifactSnapshot stores an envelope, keeps what is there and adds offsets.
LEMMA StoreGains ==
  ASSUME TypeOK, NEW a \in Artifacts, NEW e \in Envelopes, Accepts(a, e),
         snapshot' = Stored(a, e)
  PROVE  /\ snapshot' \in [Artifacts -> Envelopes \cup {None}]
         /\ Gains
         /\ e.offsets => HasOffsets(a)'
<1>0. /\ snapshot \in [Artifacts -> Envelopes \cup {None}]
      /\ e.linked \in Links /\ e.offsets \in BOOLEAN
  BY DEF TypeOK, Envelopes
<1> DEFINE new == [linked |-> e.linked, offsets |-> e.offsets \/ HasOffsets(a)]
<1>1. new \in Envelopes /\ new # None
  BY <1>0 DEF Envelopes, HasOffsets
<1>2. snapshot' = [snapshot EXCEPT ![a] = new]
  BY DEF Stored
<1>3. snapshot'[a] = new /\ \A b \in Artifacts \ {a} : snapshot'[b] = snapshot[b]
  BY <1>0, <1>2
<1>4. snapshot[a] # None => new.linked = snapshot[a].linked
                            /\ (snapshot[a].offsets => new.offsets)
  BY DEF Accepts, HasOffsets
<1>5. snapshot' \in [Artifacts -> Envelopes \cup {None}]
  BY <1>0, <1>1, <1>2
<1>6. Gains
  BY <1>1, <1>3, <1>4 DEF Gains
<1>7. e.offsets => HasOffsets(a)'
  <2>1. e.offsets => new.offsets
    OBVIOUS
  <2>2. HasOffsets(a)' <=> snapshot'[a] # None /\ snapshot'[a].offsets
    BY DEF HasOffsets
  <2>3. QED
    BY <2>1, <2>2, <1>1, <1>3
<1>8. QED
  BY <1>5, <1>6, <1>7

\* An untouched snapshot gains nothing and loses nothing.
LEMMA KeptGains ==
  ASSUME UNCHANGED snapshot
  PROVE  Gains
BY DEF Gains

\* Offsets that are durable stay so.
LEMMA OffsetsStay ==
  ASSUME Gains, NEW a \in Artifacts, HasOffsets(a)
  PROVE  HasOffsets(a)'
BY DEF Gains, HasOffsets

\* The envelope of a deployment.
LEMMA EnvelopeShape ==
  ASSUME NEW d \in Deployments
  PROVE  /\ Envelope(d) \in Envelopes
         /\ Built[d] \in Artifacts
         /\ Envelope(d).offsets <=> Ranges[Built[d]] # "malformed"
BY DEF Envelope, Envelopes, Links

\* The live code binds to some word.
LEMMA BindShape ==
  ASSUME NEW d \in Deployments, NEW a
  PROVE  Bind(d, a) \in Contents /\ "pending" \notin Contents /\ "absent" \notin Contents
BY DEF Bind, Contents

\* setDeploymentDescriptor keeps a completed descriptor.
LEMMA DescribeKeeps ==
  ASSUME TypeOK, NEW d \in Deployments, NEW word \in {"pending"} \cup Contents,
         Describe(d, word)
  PROVE  /\ descriptor' \in [Deployments -> {"absent", "pending"} \cup Contents]
         /\ \A c \in Deployments : Complete(c) => descriptor'[c] = descriptor[c]
         /\ \A c \in Deployments : descriptor'[c] = descriptor[c] \/ (c = d /\ descriptor'[c] = word)
BY DEF TypeOK, Describe, Transition, Complete, Contents
-----------------------------------------------------------------------------
(* The steps that write an envelope. *)

\* The envelope the send path stores.
LEMMA StoreEnvelopeStep ==
  ASSUME TypeOK, NEW d \in Deployments, StoreEnvelope(d)
  PROVE  /\ snapshot' \in [Artifacts -> Envelopes \cup {None}]
         /\ Gains
         /\ at'[d] = "describe" /\ Ranges[Built[d]] # "malformed" => HasOffsets(Built[d])'
<1>1. CASE Accepts(Built[d], Envelope(d))
  BY <1>1, EnvelopeShape, StoreGains DEF StoreEnvelope
<1>2. CASE ~Accepts(Built[d], Envelope(d))
  <2>1. UNCHANGED snapshot /\ at'[d] # "describe"
    BY <1>2 DEF StoreEnvelope, At, TypeOK
  <2>2. QED
    BY <2>1, KeptGains DEF TypeOK
<1>3. QED
  BY <1>1, <1>2

\* The envelope recovery stores, from what it saw before its read.
LEMMA StoreRebuiltStep ==
  ASSUME TypeOK, SawOffsets, NEW d \in Deployments, StoreRebuilt(d)
  PROVE  /\ snapshot' \in [Artifacts -> Envelopes \cup {None}]
         /\ Gains
         /\ at'[d] = "describe" /\ Ranges[Built[d]] # "malformed" => HasOffsets(Built[d])'
<1> DEFINE write == seen[d] = None \/ (~seen[d].offsets /\ Rebuilt(d).offsets)
           matched == \/ seen[d] # None \/ Built[d] \notin NeedsLinking
                      \/ Matches(d)
           stored == matched /\ (write => Accepts(Built[d], Rebuilt(d)))
<1>0. /\ Built[d] \in Artifacts /\ seen[d] \in Envelopes \cup {None}
      /\ snapshot' = IF stored /\ write THEN Stored(Built[d], Rebuilt(d)) ELSE snapshot
      /\ at'[d] = "describe" => stored
  BY DEF StoreRebuilt, Ends, At, TypeOK
<1>1. /\ Rebuilt(d) \in Envelopes
      /\ Ranges[Built[d]] # "malformed" => Rebuilt(d).offsets
  BY <1>0, EnvelopeShape DEF Rebuilt, Envelopes
<1>2. CASE stored /\ write
  BY <1>0, <1>1, <1>2, StoreGains
<1>3. CASE ~(stored /\ write)
  <2>1. UNCHANGED snapshot
    BY <1>0, <1>3
  <2>2. ASSUME at'[d] = "describe", Ranges[Built[d]] # "malformed"
        PROVE  HasOffsets(Built[d])'
    <3>1. seen[d] # None /\ seen[d].offsets
      BY <1>0, <1>1, <1>3, <2>2 DEF Envelopes
    <3>2. HasOffsets(Built[d])
      BY <3>1 DEF SawOffsets
    <3>3. QED
      BY <3>2, <2>1 DEF HasOffsets
  <2>3. QED
    BY <2>1, <2>2, KeptGains DEF TypeOK
<1>4. QED
  BY <1>2, <1>3

\* The envelope of an adoption always has offsets.
LEMMA AdoptStep ==
  ASSUME TypeOK, NEW d \in Deployments, Adopt(d)
  PROVE  /\ snapshot' \in [Artifacts -> Envelopes \cup {None}]
         /\ Gains
         /\ HasOffsets(Built[d])'
<1>1. /\ Accepts(Built[d], Envelope(d)) /\ Ranges[Built[d]] # "malformed"
      /\ snapshot' = Stored(Built[d], Envelope(d))
  BY DEF Adopt, Adoptable
<1>2. QED
  BY <1>1, EnvelopeShape, StoreGains

\* Repair stores the offsets it found on disk, or has none.
LEMMA LocateStep ==
  ASSUME TypeOK, NEW d \in Deployments, Locate(d)
  PROVE  /\ snapshot' \in [Artifacts -> Envelopes \cup {None}]
         /\ Gains
         /\ source' \in Artifacts \cup {None}
         /\ source' # None =>
              \/ source' = Built[d] /\ HasOffsets(Built[d])'
              \/ d \in Admins /\ Name[source'] = Name[Built[d]]
<1> DEFINE a == Source(d, disk)
           stores == a # None /\ ~Derived(d) /\ ~HasOffsets(a)
           envelope == IF snapshot[Built[d]] = None THEN Envelope(d)
                       ELSE [snapshot[Built[d]] EXCEPT !.offsets = TRUE]
           resolved == stores /\ snapshot[Built[d]] = None => origin[d] = "journal"
<1>0. /\ source' = IF resolved THEN a ELSE None
      /\ snapshot' = IF stores /\ resolved THEN Stored(Built[d], envelope) ELSE snapshot
  BY DEF Locate, RepairSource
<1>1. /\ Built[d] \in Artifacts /\ snapshot[Built[d]] \in Envelopes \cup {None}
      /\ Name[Built[d]] \in Names
      /\ disk[Name[Built[d]]] \in Artifacts \cup {None}
      /\ disk[Name[Built[d]]] # None => Name[disk[Name[Built[d]]]] = Name[Built[d]]
  BY DEF TypeOK, Disks, Names
<1>2. CASE Derived(d)
  <2>1. a \in Artifacts \cup {None} /\ (a # None => Name[a] = Name[Built[d]])
    BY <1>1, <1>2 DEF Source, DerivedSource
  <2>2. ~stores /\ d \in Admins
    BY <1>2 DEF Derived
  <2>3. UNCHANGED snapshot /\ source' = a
    BY <1>0, <2>2
  <2>4. QED
    BY <2>1, <2>2, <2>3, KeptGains DEF TypeOK
<1>3. CASE ~Derived(d) /\ HasOffsets(Built[d])
  <2>1. a = Built[d] /\ ~stores
    BY <1>1, <1>3 DEF Source
  <2>2. UNCHANGED snapshot /\ source' = Built[d]
    BY <1>0, <2>1
  <2>3. HasOffsets(Built[d])'
    BY <1>3, <2>2 DEF HasOffsets
  <2>4. QED
    BY <1>1, <2>2, <2>3, KeptGains DEF TypeOK
<1>4. CASE ~Derived(d) /\ ~HasOffsets(Built[d]) /\ a # None
  <2>1. a = Built[d] /\ stores /\ Ranges[Built[d]] # "malformed"
    BY <1>1, <1>4 DEF Source, OnDisk, Verifies
  <2>2. envelope \in Envelopes /\ envelope.offsets /\ Accepts(Built[d], envelope)
    BY <1>1, <2>1, EnvelopeShape DEF Envelopes, Accepts
  <2>3. CASE resolved
    <3>1. snapshot' = Stored(Built[d], envelope) /\ source' = Built[d]
      BY <1>0, <2>1, <2>3
    <3>2. QED
      BY <1>1, <2>2, <3>1, StoreGains
  <2>4. CASE ~resolved
    <3>1. UNCHANGED snapshot /\ source' = None
      BY <1>0, <2>4
    <3>2. QED
      BY <3>1, KeptGains DEF TypeOK
  <2>5. QED
    BY <2>3, <2>4
<1>5. CASE ~Derived(d) /\ a = None
  <2>1. UNCHANGED snapshot /\ source' = None
    BY <1>0, <1>5
  <2>2. QED
    BY <2>1, KeptGains DEF TypeOK
<1>6. QED
  BY <1>2, <1>3, <1>4, <1>5
-----------------------------------------------------------------------------
(* Types. *)

\* The tasks keep the shapes.
LEMMA TaskTypes ==
  ASSUME TypeOK, SawOffsets, NEW d \in Deployments, Task(d)
  PROVE  TypeOK'
<1>1. CASE Send(d)
  BY <1>1 DEF Send, At, TypeOK, records, repair, Roots
<1>2. CASE Resume(d)
  BY <1>2 DEF Resume, At, TypeOK, records, repair
<1>3. CASE GiveUp(d)
  BY <1>3 DEF GiveUp, Ends, At, TypeOK, records, repair
<1>4. CASE Confirm(d)
  BY <1>4 DEF Confirm, At, TypeOK, records, repair
<1>5. CASE Rebuild(d)
  BY <1>5 DEF Rebuild, Ends, At, TypeOK, records, repair
<1>6. CASE Capture(d)
  <2>1. Captured(d) \subseteq {"pending"} \cup Contents
    BY BindShape DEF Captured, Contents
  <2>2. QED
    BY <1>6, <2>1 DEF Capture, At, TypeOK, records, repair
<1>7. CASE StoreEnvelope(d)
  <2>1. snapshot' \in [Artifacts -> Envelopes \cup {None}]
    BY <1>7, StoreEnvelopeStep
  <2>2. QED
    BY <1>7, <2>1 DEF StoreEnvelope, At, TypeOK, repair
<1>8. CASE StoreRebuilt(d)
  <2>1. snapshot' \in [Artifacts -> Envelopes \cup {None}]
    BY <1>8, StoreRebuiltStep
  <2>2. QED
    BY <1>8, <2>1 DEF StoreRebuilt, Ends, At, TypeOK, repair
<1>9. CASE Persist(d)
  <2>1. descriptor' \in [Deployments -> {"absent", "pending"} \cup Contents]
    BY <1>9, DescribeKeeps DEF Persist, TypeOK
  <2>2. QED
    BY <1>9, <2>1 DEF Persist, Ends, At, TypeOK, repair
<1>10. CASE Answer(d)
  BY <1>10 DEF Answer, Ends, At, TypeOK, records, repair
<1>11. QED
  BY <1>1, <1>2, <1>3, <1>4, <1>5, <1>6, <1>7, <1>8, <1>9, <1>10 DEF Task

\* The word repair commits is a word, or none.
LEMMA RepairedShape ==
  ASSUME NEW d \in Deployments, NEW a
  PROVE  RepairedWord(d, a) \in {"pending"} \cup Contents
BY BindShape DEF RepairedWord, Contents

\* The commands and the surroundings keep the shapes.
LEMMA OtherTypes ==
  ASSUME TypeOK,
         (\E d \in Deployments : Command(d)) \/ StartRepair \/ EndRepair \/ Start
           \/ Stop \/ Compile
  PROVE  TypeOK'
<1>1. ASSUME NEW d \in Deployments, Adopt(d) PROVE TypeOK'
  <2>1. descriptor' \in [Deployments -> {"absent", "pending"} \cup Contents]
    BY <1>1, DescribeKeeps, BindShape DEF Adopt
  <2>2. QED
    BY <1>1, <2>1, AdoptStep DEF Adopt, TypeOK, tasks, repair
<1>2. ASSUME NEW d \in Deployments, Skip(d) PROVE TypeOK'
  BY <1>2 DEF Skip, TypeOK, tasks, records
<1>3. ASSUME NEW d \in Deployments, Locate(d) PROVE TypeOK'
  BY <1>3, LocateStep DEF Locate, TypeOK, tasks
<1>4. ASSUME NEW d \in Deployments, NEW r \in BOOLEAN, Fix(d, r) PROVE TypeOK'
  <2>1. descriptor' \in [Deployments -> {"absent", "pending"} \cup Contents]
    BY <1>4, DescribeKeeps, RepairedShape DEF Fix
  <2>2. QED
    BY <1>4, <2>1 DEF Fix, TypeOK, tasks
<1>5. CASE StartRepair
  BY <1>5 DEF StartRepair, TypeOK, tasks, records
<1>6. CASE EndRepair
  <2>1. fixing = None /\ source = None
    BY <1>6 DEF EndRepair, TypeOK
  <2>2. QED
    BY <1>6, <2>1 DEF EndRepair, TypeOK, tasks, records, repair
<1>7. CASE Start
  BY <1>7 DEF Start, TypeOK, tasks, records, repair
<1>8. CASE Stop
  BY <1>8 DEF Stop, TypeOK, records
<1>9. CASE Compile
  BY <1>9 DEF Compile, TypeOK, tasks, records, repair
<1>10. QED
  BY <1>1, <1>2, <1>3, <1>4, <1>5, <1>6, <1>7, <1>8, <1>9 DEF Command
-----------------------------------------------------------------------------
(* The invariant. *)

\* What a step does to what is final.
Final ==
  /\ Gains
  /\ \A d \in Deployments : Complete(d) => descriptor'[d] = descriptor[d]

\* A step that touches no capture, envelope or descriptor, leaves the repair or
\* ends it, and sends no task to its descriptor write changes nothing that matters.
LEMMA Calm ==
  ASSUME IInv, TypeOK', Drops, UNCHANGED <<snapshot, descriptor>>,
         fixing' = None \/ (fixing' = fixing /\ source' = source),
         \A d \in Deployments : at'[d] = "describe" => at[d] = "describe"
  PROVE  IInv' /\ Final
<1>1. \A a \in Artifacts : HasOffsets(a)' <=> HasOffsets(a)
  BY DEF HasOffsets
<1>2. \A d \in Deployments : Built[d] \in Artifacts
  OBVIOUS
<1>3. Honest' /\ SawOffsets' /\ ReadyToPersist'
  BY <1>1, <1>2 DEF IInv, Drops, Honest, SawOffsets, ReadyToPersist
<1>6. Located'
  BY <1>1, <1>2 DEF IInv, Located, TypeOK
<1>7. Committed'
  BY <1>1, <1>2 DEF IInv, Committed, Complete
<1>4. Final
  BY KeptGains DEF Final
<1>5. QED
  BY <1>3, <1>4, <1>6, <1>7 DEF IInv

\* A step that only writes an envelope, and readies a task at most when the
\* offsets of its artifact are in it.
LEMMA EnvelopeStep ==
  ASSUME IInv, TypeOK', Gains, Drops, UNCHANGED <<descriptor, fixing, source>>,
         \A d \in Deployments :
           at'[d] = "describe" /\ at[d] # "describe" /\ Ranges[Built[d]] # "malformed"
             => HasOffsets(Built[d])'
  PROVE  IInv' /\ Final
<1>1. \A d \in Deployments : Built[d] \in Artifacts
  OBVIOUS
<1>2. \A d \in Deployments : HasOffsets(Built[d]) => HasOffsets(Built[d])'
  BY <1>1, OffsetsStay
<1>3. Honest'
  BY DEF IInv, Drops, Honest
<1>4. SawOffsets'
  BY <1>2 DEF IInv, Drops, SawOffsets
<1>5. ReadyToPersist'
  BY <1>2 DEF IInv, Drops, ReadyToPersist, Honest
<1>6. Located'
  BY <1>2 DEF IInv, Located, TypeOK
<1>7. Committed'
  BY <1>2 DEF IInv, Committed, Complete
<1>8. QED
  BY <1>3, <1>4, <1>5, <1>6, <1>7 DEF IInv, Final

\* A step that writes a true word, or none, in a descriptor.
LEMMA DescriptorStep ==
  ASSUME IInv, TypeOK', Gains, Drops,
         \A d \in Deployments : at'[d] = "describe" => at[d] = "describe",
         fixing' = None \/ (fixing' = fixing /\ source' = source),
         NEW d \in Deployments, NEW word \in {"pending"} \cup Contents, Describe(d, word),
         word # "pending" =>
           /\ word = Bind(d, Built[d])
           /\ d \in Proxies /\ word = "nothing" => HasOffsets(Built[d])'
  PROVE  IInv' /\ Final
<1>1. \A c \in Deployments : Built[c] \in Artifacts
  OBVIOUS
<1>2. \A c \in Deployments : HasOffsets(Built[c]) => HasOffsets(Built[c])'
  BY <1>1, OffsetsStay
<1>3. Honest' /\ SawOffsets'
  BY <1>2 DEF IInv, Drops, Honest, SawOffsets
<1>4. ReadyToPersist'
  BY <1>2 DEF IInv, Drops, ReadyToPersist
<1>5. Located'
  BY <1>2 DEF IInv, Located, TypeOK
<1>6. /\ \A c \in Deployments : Complete(c) => descriptor'[c] = descriptor[c]
      /\ \A c \in Deployments :
           descriptor'[c] = descriptor[c] \/ (c = d /\ descriptor'[c] = word)
  BY DescribeKeeps DEF IInv
<1>7. Committed'
  <2> SUFFICES ASSUME NEW c \in Deployments, Complete(c)'
               PROVE  /\ descriptor'[c] = Bind(c, Built[c])
                      /\ c \in Proxies /\ descriptor'[c] = "nothing" => HasOffsets(Built[c])'
    BY DEF Committed, Bind
  <2>1. CASE descriptor'[c] = descriptor[c]
    BY <1>2, <2>1 DEF IInv, Committed, Complete
  <2>2. CASE c = d /\ descriptor'[c] = word
    <3>1. word # "pending"
      BY <2>2, BindShape DEF Complete
    <3>2. QED
      BY <2>2, <3>1
  <2>3. QED
    BY <1>6, <2>1, <2>2
<1>8. QED
  BY <1>3, <1>4, <1>5, <1>6, <1>7 DEF IInv, Final

\* A step that leaves all the variables alone.
LEMMA Stutter ==
  ASSUME IInv, UNCHANGED vars
  PROVE  IInv' /\ Final
<1>1. TypeOK'
  BY DEF vars, TypeOK, IInv
<1>2. QED
  BY <1>1, Calm DEF vars, IInv, TypeOK, Drops

\* A true reading of the code, as a capture has it.
LEMMA CaptureTrue ==
  ASSUME NEW d \in Deployments, NEW word \in Captured(d), word # "pending"
  PROVE  word = Bind(d, Built[d]) /\ Ranges[Built[d]] # "malformed"
BY DEF Captured, Bind, Declared
-----------------------------------------------------------------------------
(* One step of each sort. *)

\* The tasks of the send path and of recovery.
LEMMA TaskStep ==
  ASSUME IInv, NEW d \in Deployments, Task(d)
  PROVE  IInv' /\ Final
<1>0. TypeOK' /\ TypeOK
  BY TaskTypes DEF IInv
<1>1. CASE Send(d) \/ Resume(d) \/ GiveUp(d) \/ Confirm(d) \/ Answer(d)
  <2>1. UNCHANGED <<snapshot, descriptor, fixing, source>> /\ Drops
    BY <1>0, <1>1 DEF Send, Resume, GiveUp, Confirm, Answer, Ends, Drops, TypeOK, records, repair
  <2>2. \A e \in Deployments : at'[e] = "describe" => at[e] = "describe"
    BY <1>0, <1>1 DEF Send, Resume, GiveUp, Confirm, Answer, Ends, At, TypeOK
  <2>3. QED
    BY <1>0, <2>1, <2>2, Calm
<1>2. CASE Rebuild(d)
  <2>1. /\ UNCHANGED <<snapshot, descriptor, fixing, source>>
        /\ \A e \in Deployments : at'[e] = "describe" => at[e] = "describe"
        /\ \A e \in Deployments : got'[e] = got[e] \/ got'[e] = "pending"
        /\ seen'[d] = None \/ seen'[d] = snapshot[Built[d]]
        /\ \A e \in Deployments \ {d} : seen'[e] = seen[e]
    BY <1>0, <1>2 DEF Rebuild, Ends, At, TypeOK, records, repair
  <2>2. \A a \in Artifacts : HasOffsets(a)' <=> HasOffsets(a)
    BY <2>1 DEF HasOffsets
  <2>3. SawOffsets'
    <3> SUFFICES ASSUME NEW e \in Deployments, seen'[e] # None, seen'[e].offsets
                 PROVE  HasOffsets(Built[e])'
      BY DEF SawOffsets
    <3>1. CASE e = d
      BY <1>0, <2>1, <3>1 DEF HasOffsets, TypeOK
    <3>2. CASE e # d
      <4>1. seen'[e] = seen[e]
        BY <1>0, <2>1, <3>2 DEF TypeOK
      <4>2. HasOffsets(Built[e])
        BY <4>1 DEF IInv, SawOffsets
      <4>3. QED
        BY <4>2, <2>2
    <3>3. QED
      BY <3>1, <3>2
  <2>4. Honest' /\ ReadyToPersist'
    BY <2>1, <2>2 DEF IInv, Honest, ReadyToPersist
  <2>5. Located'
    BY <2>1, <2>2 DEF IInv, Located, TypeOK
  <2>6. Committed'
    BY <2>1, <2>2 DEF IInv, Committed, Complete
  <2>7. Final
    BY <2>1, KeptGains DEF Final
  <2>8. QED
    BY <1>0, <2>3, <2>4, <2>5, <2>6, <2>7 DEF IInv
<1>3. CASE Capture(d)
  <2>1. PICK word \in Captured(d) : got' = [got EXCEPT ![d] = word]
    BY <1>3 DEF Capture
  <2>2. /\ UNCHANGED <<snapshot, descriptor, seen, fixing, source>>
        /\ at'[d] # "describe" /\ \A e \in Deployments \ {d} : at'[e] = at[e]
        /\ got'[d] = word /\ \A e \in Deployments \ {d} : got'[e] = got[e]
    BY <1>0, <1>3, <2>1 DEF Capture, At, TypeOK, records, repair
  <2>3. \A a \in Artifacts : HasOffsets(a)' <=> HasOffsets(a)
    BY <2>2 DEF HasOffsets
  <2>4. Honest'
    <3>1. got'[d] # "pending" =>
            got'[d] = Bind(d, Built[d]) /\ Ranges[Built[d]] # "malformed"
      BY <2>2, CaptureTrue
    <3>2. QED
      BY <2>2, <3>1 DEF IInv, Honest, Bind
  <2>5. SawOffsets' /\ ReadyToPersist'
    BY <2>2, <2>3 DEF IInv, SawOffsets, ReadyToPersist
  <2>6. Located'
    BY <2>2, <2>3 DEF IInv, Located, TypeOK
  <2>7. Committed'
    BY <2>2, <2>3 DEF IInv, Committed, Complete
  <2>8. Final
    BY <2>2, KeptGains DEF Final
  <2>9. QED
    BY <1>0, <2>4, <2>5, <2>6, <2>7, <2>8 DEF IInv
<1>4. CASE StoreEnvelope(d)
  <2>1. /\ UNCHANGED <<descriptor, fixing, source>> /\ Drops
        /\ \A e \in Deployments \ {d} : at'[e] = at[e]
    BY <1>0, <1>4 DEF StoreEnvelope, Drops, At, TypeOK, repair
  <2>2. /\ Gains
        /\ at'[d] = "describe" /\ Ranges[Built[d]] # "malformed" => HasOffsets(Built[d])'
    BY <1>0, <1>4, StoreEnvelopeStep
  <2>3. QED
    BY <1>0, <2>1, <2>2, EnvelopeStep
<1>5. CASE StoreRebuilt(d)
  <2>1. /\ UNCHANGED <<descriptor, fixing, source>> /\ Drops
        /\ \A e \in Deployments \ {d} : at'[e] = at[e]
    BY <1>0, <1>5 DEF StoreRebuilt, Ends, Drops, At, TypeOK, repair
  <2>2. /\ Gains
        /\ at'[d] = "describe" /\ Ranges[Built[d]] # "malformed" => HasOffsets(Built[d])'
    BY <1>0, <1>5, StoreRebuiltStep DEF IInv
  <2>3. QED
    BY <1>0, <2>1, <2>2, EnvelopeStep
<1>6. CASE Persist(d)
  <2>1. /\ UNCHANGED <<snapshot, fixing, source>> /\ Drops
        /\ at[d] = "describe" /\ Describe(d, got[d])
        /\ \A e \in Deployments : at'[e] = "describe" => at[e] = "describe"
        /\ got[d] \in {"pending"} \cup Contents
    BY <1>0, <1>6 DEF Persist, Ends, Drops, At, TypeOK, repair
  <2>2. got[d] # "pending" =>
          got[d] = Bind(d, Built[d]) /\ HasOffsets(Built[d])'
    BY <2>1 DEF IInv, Honest, ReadyToPersist, HasOffsets
  <2>3. QED
    BY <1>0, <2>1, <2>2, KeptGains, DescriptorStep
<1>7. QED
  BY <1>1, <1>2, <1>3, <1>4, <1>5, <1>6 DEF Task

\* What repair binds is true: at the offsets of the artifact it was made from,
\* or, for a ProxyAdmin, at none.
LEMMA RepairedTrue ==
  ASSUME IInv, NEW d \in Deployments, fixing = d, RepairedWord(d, source) # "pending"
  PROVE  /\ RepairedWord(d, source) = Bind(d, Built[d])
         /\ d \in Proxies => HasOffsets(Built[d])
<1>1. source # None /\ fixing # None
  BY DEF RepairedWord
<1>2. CASE source = Built[d] /\ HasOffsets(Built[d])
  BY <1>2 DEF RepairedWord, Bind
<1>3. CASE d \in Admins /\ Name[source] = Name[Built[d]]
  <2>1. source \in Artifacts /\ Built[d] \in Artifacts /\ d \notin Proxies
    BY <1>1, <1>3 DEF IInv, TypeOK
  <2>2. Ranges[source] # "address" /\ Ranges[Built[d]] # "address"
    BY <1>3, <2>1, CodeAssumption
  <2>3. Bind(d, Built[d]) = "nothing" /\ Bind(d, source) = "nothing"
    BY <2>2 DEF Bind
  <2>4. QED
    BY <1>1, <2>1, <2>3 DEF RepairedWord
<1>4. QED
  BY <1>1, <1>2, <1>3 DEF IInv, Located

\* The commands and the surroundings.
LEMMA OtherStep ==
  ASSUME IInv,
         (\E d \in Deployments : Command(d)) \/ StartRepair \/ EndRepair \/ Start
           \/ Stop \/ Compile
  PROVE  IInv' /\ Final
<1>0. TypeOK' /\ TypeOK
  BY OtherTypes DEF IInv
<1>1. ASSUME NEW d \in Deployments, Adopt(d) PROVE IInv' /\ Final
  <2>1. UNCHANGED <<at, fixing, source>> /\ Drops /\ Describe(d, Bind(d, Built[d]))
    BY <1>1 DEF Adopt, Drops, tasks, repair
  <2>2. Gains /\ HasOffsets(Built[d])'
    BY <1>0, <1>1, AdoptStep
  <2>3. Bind(d, Built[d]) \in {"pending"} \cup Contents
    BY BindShape
  <2>4. QED
    BY <1>0, <2>1, <2>2, <2>3, DescriptorStep
<1>2. ASSUME NEW d \in Deployments, Locate(d) PROVE IInv' /\ Final
  <2>1. UNCHANGED <<descriptor, at, got, seen>> /\ fixing' = d
    BY <1>2 DEF Locate, tasks
  <2>2. /\ Gains
        /\ source' # None =>
              \/ source' = Built[d] /\ HasOffsets(Built[d])'
              \/ d \in Admins /\ Name[source'] = Name[Built[d]]
    BY <1>0, <1>2, LocateStep
  <2>3. \A c \in Deployments : HasOffsets(Built[c]) => HasOffsets(Built[c])'
    <3>1. \A c \in Deployments : Built[c] \in Artifacts
      OBVIOUS
    <3>2. QED
      BY <2>2, <3>1, OffsetsStay
  <2>4. Honest' /\ SawOffsets' /\ ReadyToPersist'
    BY <2>1, <2>3 DEF IInv, Honest, SawOffsets, ReadyToPersist
  <2>5. Located'
    BY <2>1, <2>2 DEF Located
  <2>6. Committed'
    BY <2>1, <2>3 DEF IInv, Committed, Complete
  <2>7. Final
    BY <2>1, <2>2 DEF Final
  <2>8. QED
    BY <1>0, <2>4, <2>5, <2>6, <2>7 DEF IInv
<1>3. ASSUME NEW d \in Deployments, NEW r \in BOOLEAN, Fix(d, r) PROVE IInv' /\ Final
  <2> DEFINE word == IF r \/ ~NeedsRead(d, source) THEN RepairedWord(d, source)
                     ELSE "pending"
  <2>1. /\ fixing = d /\ fixing' = None /\ UNCHANGED <<snapshot, at>> /\ Drops
        /\ Describe(d, word)
    BY <1>3 DEF Fix, Drops, tasks
  <2>2. word \in {"pending"} \cup Contents
    BY RepairedShape
  <2>3. word # "pending" =>
          /\ word = Bind(d, Built[d])
          /\ d \in Proxies /\ word = "nothing" => HasOffsets(Built[d])'
    <3>1. word # "pending" => word = RepairedWord(d, source)
      OBVIOUS
    <3>2. HasOffsets(Built[d]) => HasOffsets(Built[d])'
      BY <2>1 DEF HasOffsets
    <3>3. QED
      BY <2>1, <3>1, <3>2, RepairedTrue
  <2>4. QED
    BY <1>0, <2>1, <2>2, <2>3, KeptGains, DescriptorStep
<1>4. ASSUME \/ \E d \in Deployments : Skip(d)
             \/ StartRepair \/ EndRepair \/ Start \/ Stop \/ Compile
      PROVE  IInv' /\ Final
  <2>1. /\ UNCHANGED <<snapshot, descriptor>> /\ Drops
        /\ fixing' = None \/ (fixing' = fixing /\ source' = source)
    BY <1>4 DEF Skip, StartRepair, EndRepair, Start, Stop, Compile, Drops, records, tasks, repair
  <2>2. \A e \in Deployments : at'[e] = "describe" => at[e] = "describe"
    BY <1>4 DEF Skip, StartRepair, EndRepair, Start, Stop, Compile, tasks
  <2>3. QED
    BY <1>0, <2>1, <2>2, Calm
<1>5. QED
  BY <1>1, <1>2, <1>3, <1>4 DEF Command
-----------------------------------------------------------------------------
(* Init. *)

\* There is nothing pending at the start, and no descriptor at all.
LEMMA InitIInv ==
  ASSUME Init
  PROVE  IInv
<1>1. /\ descriptor = [d \in Deployments |-> "absent"]
      /\ at = [d \in Deployments |-> "idle"]
      /\ got = [d \in Deployments |-> "pending"]
      /\ seen = [d \in Deployments |-> None]
      /\ todo = {} /\ fixing = None /\ source = None
      /\ mode = "down" /\ disk \in Disks
      /\ by = [d \in Deployments |-> "deploy"]
      /\ snapshot \in [Artifacts -> Envelopes \cup {None}]
  BY DEF Init
<1>2. /\ sent \subseteq Roots
      /\ origin \in [Deployments -> {"none", "journal", "adopted"}]
  BY DEF Init
<1>3. TypeOK
  BY <1>1, <1>2 DEF TypeOK
<1>4. Honest /\ SawOffsets /\ ReadyToPersist /\ Located
  BY <1>1 DEF Honest, SawOffsets, ReadyToPersist, Located
<1>5. Committed
  BY <1>1, BindShape DEF Committed, Complete
<1>6. QED
  BY <1>3, <1>4, <1>5 DEF IInv
-----------------------------------------------------------------------------
(* The theorems. *)

\* The inductive invariant.
THEOREM Invariance == Spec => []IInv
<1>1. Init => IInv
  BY InitIInv
<1>2. IInv /\ [Next]_vars => IInv'
  BY TaskStep, OtherStep, Stutter DEF Next
<1>3. QED
  BY <1>1, <1>2, PTL DEF Spec

\* The records, the artifacts on disk and the tasks have their shapes.
THEOREM TypeCorrect == Spec => []TypeOK
BY Invariance, PTL DEF IInv

\* A complete descriptor commits the words the live code really has, whichever
\* path wrote it and whatever was on disk.
THEOREM Truthful == Spec => []CommitsTheTruth
<1>1. IInv => CommitsTheTruth
  BY DEF IInv, Committed, CommitsTheTruth
<1>2. QED
  BY <1>1, Invariance, PTL

\* What a completed deployment is served as needs nothing from the disk.
THEOREM DiskFree == Spec => []SurvivesClean
<1>1. IInv => SurvivesClean
  <2> SUFFICES ASSUME IInv, NEW d \in Deployments, Complete(d), NEW dk \in Disks
               PROVE  ServedComplete(d, dk) = ServedComplete(d, disk)
    BY DEF SurvivesClean, Served
  <2>1. CASE descriptor[d] # "nothing" \/ d \notin Proxies
    BY <2>1 DEF ServedComplete
  <2>2. CASE descriptor[d] = "nothing" /\ d \in Proxies
    <3>1. HasOffsets(Built[d])
      BY <2>2 DEF IInv, Committed
    <3>2. ~Derived(d)
      BY <2>2 DEF Derived
    <3>3. Source(d, dk) = Built[d] /\ Source(d, disk) = Built[d]
      BY <3>1, <3>2 DEF Source
    <3>4. QED
      BY <2>2, <3>3 DEF ServedComplete
  <2>3. QED
    BY <2>1, <2>2
<1>2. QED
  BY <1>1, Invariance, PTL

\* No record, artifact or crash has a proxy served with its actual controller.
THEOREM Projected == Spec => []NeverUnprojected
<1>1. NeverUnprojected
  <2> SUFFICES ASSUME NEW d \in Proxies \cap Embeds
               PROVE  Served(d, disk) # "raw"
    BY DEF NeverUnprojected
  <2>1. \A a : ~MatchesTemplate(d, a)
    BY DEF MatchesTemplate
  <2>2. ServedComplete(d, disk) # "raw"
    BY <2>1 DEF ServedComplete
  <2>3. ServedPending(d, disk) # "raw"
    BY <2>1 DEF ServedPending
  <2>4. QED
    BY <2>2, <2>3 DEF Served
<1>2. QED
  BY <1>1, PTL

\* Envelopes only gain offsets and completed descriptors do not change.
THEOREM Finality == Spec => RecordsFinal
<1> DEFINE Kept ==
      /\ \A a \in Artifacts : snapshot[a] # None =>
          /\ snapshot'[a] # None /\ snapshot'[a].linked = snapshot[a].linked
          /\ snapshot[a].offsets => snapshot'[a].offsets
      /\ \A d \in Deployments : Complete(d) => descriptor'[d] = descriptor[d]
<1>1. IInv /\ [Next]_vars => [Kept]_vars
  BY TaskStep, OtherStep, Stutter DEF Next, Final, Gains
<1>2. QED
  BY <1>1, Invariance, PTL DEF Spec, RecordsFinal
=============================================================================
