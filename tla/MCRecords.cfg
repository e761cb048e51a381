SPECIFICATION Spec
CONSTANTS
    Deployments = {"transparent", "admin", "app1", "app2"}
    Proxies <- MCProxies
    Admins <- MCAdmins
    Parent <- MCParent
    Controller <- MCController
    Embeds <- MCEmbeds
    Existing <- MCExisting
    Artifacts <- MCArtifacts
    Built <- MCBuilt
    Name <- MCName
    Ranges <- MCRanges
    NeedsLinking <- MCNeedsLinking
    Linked <- MCLinked
    None = None
INVARIANTS
    CommitsTheTruth
    NeverUnprojected
PROPERTIES
    RecordsFinal
