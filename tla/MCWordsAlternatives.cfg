SPECIFICATION QuerySpec
CONSTANTS
    Listing = {"g1", "g2", "g3", "g1#dozent"}
    Plain = {"g1", "g2", "g3"}
    AndWords = {"und"}
    OrWords = {"oder"}
    EmptyTerms = {"*"}
    Terms = {"ma", "ka", "dozent"}
    Finds <- MCFinds
    MaxWords = 2
\* A person stops typing at MaxWords words.
CHECK_DEADLOCK FALSE
INVARIANT
    WordsAreAlternatives
