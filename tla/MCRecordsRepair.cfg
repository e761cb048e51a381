SPECIFICATION LiveSpec
CONSTANTS
    Deployments = {"beacon", "adopted", "storage"}
    Proxies <- MCProxies
    Admins <- MCAdmins
    Parent <- MCParent
    Controller <- MCController
    Embeds <- MCEmbeds
    Existing <- MCExisting
    Artifacts <- MCArtifacts
    Built <- MCBuilt
    Name <- MCName
    Ranges <- MCRanges
    NeedsLinking <- MCNeedsLinking
    Linked <- MCLinked
    None = None
INVARIANTS
    SurvivesClean
PROPERTIES
    RepairHeals
