SPECIFICATION Spec
CONSTANTS
    first = first
    alias = alias
    edited = edited
    other = other
    broken = broken
    text = text
    editedText = editedText
    brokenText = brokenText
    profile = profile
    otherProfile = otherProfile
    tokens = tokens
    brokenTokens = brokenTokens
    None = None
    Text <- MCText
    Profile <- MCProfile
    Sig <- MCSig
    Envelopes <- AllEnvelopes
    Sealed = {first, alias, edited, broken}
    Clean <- AllTexts
    Parses <- Valid
    Rebasable <- OneWay
    SizeOf <- Varied
    Versions = {1, 2}
    MaxEntries = 3
    MaxBytes = 4
    MaxDamage = 1
INVARIANTS
    Transparent
    WithinLimits
