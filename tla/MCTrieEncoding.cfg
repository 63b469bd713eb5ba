\* Every HEX key of up to four nibbles, with and without the terminator;
\* every KEYBYTES key of up to two bytes over all 256 byte values; every
\* pair of prefixLen arguments of up to three elements over three values.
CONSTANTS
    MaxHexLen = 4
    MaxKeyLen = 2
    KeyBytes <- Bytes
    PrefixElems = {0, 1, 16}
    MaxPrefixLen = 3
SPECIFICATION Spec
INVARIANTS
    CompactIsHexPrefix
    CompactRoundTrip
    KeybytesRoundTrip
    PrefixLenIsCommonPrefix
CHECK_DEADLOCK FALSE
