\* Two calls among writes, reads and commands, with and without a user forge.
CONSTANTS
    Chars <- MCChars
    Calls = {c1, c2}
    Contents = {x, y}
    Paths <- MCPaths
    Commands <- MCCommands
    Work <- MCWork
SPECIFICATION FileSpec
SYMMETRY Symmetry
INVARIANTS
    FileTypeOK
    PromisesKept
    ParentsMade
    WordsArrive
PROPERTY
    ReadsBack
