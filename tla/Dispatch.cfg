SPECIFICATION Spec
CONSTANTS
  Requests <- Requested
  Cuts = TRUE
  Listing <- Entries
  MaxData = 2
INVARIANTS CalledAsAsked AllOrNothing AnsweredOnce ReplyCarriesResult ErrorKeepsName
