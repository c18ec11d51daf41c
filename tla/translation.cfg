CONSTANTS
    Texts = {"t1", "t2"}
    NoText = "no text"
    Tokens = {2}
    MaxLines = 10
    TalkTexts = {"t1"}
    TalkLines = 4
    Offers <- MCOffers
    MaxTurns = 3
    MaxCalls = 2
SPECIFICATION MCConversationSpec
INVARIANTS StreamInOrder AnswerKept BackendSeesItsAnswers CallsAreAnswered OfferReachesBackend
CHECK_DEADLOCK FALSE
