SPECIFICATION Spec
CONSTANTS
    Commands <- MCCommands
    Offers <- MCOffers
    Chunks <- MCChunks
    Beginnings <- MCBeginnings
    MaxVisible = 2
    HistorySize = 2
INVARIANTS
    RunsWhatWasTyped
    LineShown
    SelectedIsVisible
PROPERTY CompletionLeads
