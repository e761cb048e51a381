----------------------- MODULE MCDeploymentRecords -----------------------
(***************************************************************************)
(* Instances of DeploymentRecords: a few contracts of each sort, by their  *)
(* names.                                                                  *)
(*   transparent, admin   a transparent proxy and the ProxyAdmin it creates*)
(*   app1, app2 one artifact linked against two libraries, an              *)
(*              implementation with its own address in an immutable        *)
(*   beacon     a plain contract whose immutable map cannot be parsed      *)
(*   adopted    a beacon proxy on chain before the gateway's records, its  *)
(*              beacon in an immutable                                     *)
(*   storage    a proxy with its beacon in storage only (OpenZeppelin v4)  *)
(***************************************************************************)
EXTENDS DeploymentRecords

MCProxies == Deployments \cap {"transparent", "adopted", "storage"}
MCAdmins == Deployments \cap {"admin"}
MCParent == [d \in MCAdmins |-> "transparent"]
MCController == [d \in MCProxies |->
    IF d = "transparent" THEN "admin" ELSE "beacon"]
MCEmbeds == Deployments \cap {"transparent", "app1", "app2", "adopted"}
MCExisting == Deployments \cap {"adopted"}

MCBuilt == [d \in Deployments |-> IF d \in {"app1", "app2"} THEN "App" ELSE d]
\* What is on disk under a name: the artifact, or "rebuilt", a later version.
MCArtifacts == {MCBuilt[d] : d \in Deployments} \cup {"rebuilt"}
MCName == [a \in MCArtifacts |->
    IF a # "rebuilt" THEN a
    ELSE IF "transparent" \in MCArtifacts THEN "transparent" ELSE "adopted"]
MCRanges == [a \in MCArtifacts |->
    CASE a \in {"transparent", "App", "adopted", "rebuilt"} -> "address"
      [] a = "beacon" -> "malformed"
      [] OTHER -> "empty"]
MCNeedsLinking == MCArtifacts \cap {"App"}
MCLinked == [d \in Deployments |-> IF d = "app2" THEN "lib2" ELSE "lib1"]
=============================================================================
