SPECIFICATION Spec
CONSTANTS
    Documents <- SomeDocuments
    Texts <- SomeTexts
    Pages <- SomePages
    Arguments <- SomeArguments
    Catalogs <- SomeCatalogs
    Deployments <- SomeDeployments
    Names <- SomeNames
    Bodies <- SomeBodies
    Embeddings <- SomeEmbeddings
    Prompts <- SomePrompts
    Employees <- Staff
    Matches <- Named
    Upper <- InCapitals
    IsEmployeeId <- IsId
    MinColumns = 3
    Tolerance = 3
    TargetTokens = 8
    MaxTokens = 12
    SplitTokens = 10
    Title = "guide"
INVARIANTS
    DocumentsKeepTheirShape
    CitationsAreHonest
    SkillsAreGuarded
    CatalogIsSound
    AdaptersAreFaithful
CHECK_DEADLOCK FALSE
