\* Three commands one after the other, with one change between them; or two requests over
\* HTTP, with two changes to them or to where the Service is mounted; or one request for a
\* protected resource, with two credentials and one change.
CONSTANTS
    Nothing = Nothing
    DocumentIds = {terms}
    Configurations <- MCConfigurations
    Pendings <- MCPendings
    Offers <- MCOffers
    email = email
    terms = terms
    review = review
    EmptyWord = EmptyWord
    ServiceDocuments = service_documents
    ReusedKeys = {k1}
    Mounts <- MCMounts
    Paths <- MCPaths
    Sizes <- MCSizes
    Fields <- MCFields
    Services <- MCServices
    Issuable <- MCIssuable
    Extras <- MCExtras
    MaxCalls = 3
    MaxEdits = 1
    MaxRequests = 2
    MaxRelays = 2
    MaxCredentials = 2
    MaxPresentations = 1
    MaxChanges = 1
SPECIFICATION MCSpec
INVARIANTS
    AnswersUnderstood
    MetStaysMet
    CommandsDelivered
    PresentationsUnderstood
\* every command answered
CHECK_DEADLOCK FALSE
