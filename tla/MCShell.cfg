CONSTANTS
    CharMax = 6
    ArgsMax = 2
    a = a
    b = b
    Char = {a, b, sp, sep, squote, dquote, esc}
    Space = sp
    Sep = sep
    Quotes = {squote, dquote}
    Escape = esc
    NUL = nul
    User <- UserNames
    Builtin <- BuiltinNames
    Results <- FineOrFailed
SPECIFICATION ShellSpec
INVARIANTS ShellTypeOK ArgbufFits RunsWhatWasTyped
