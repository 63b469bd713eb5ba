---------------------------- MODULE TrieEncoding ----------------------------
(***************************************************************************)
(* The trie key encodings of src/trie/encoding.go.  A key is a sequence of *)
(* Go bytes (naturals below 256).  KEYBYTES is the key itself; HEX has one *)
(* byte per nibble and an optional terminator 16 at the end; COMPACT (the  *)
(* Yellow Paper's hex-prefix encoding) packs two nibbles a byte behind a   *)
(* flag byte whose high nibble holds the terminator and oddness bits.      *)
(*                                                                         *)
(* The functions are operators over sequences, byte arithmetic kept modulo *)
(* 256 where the code shifts.  Each is checked against a reference         *)
(* definition for every input up to the bounds, the input being the state  *)
(* of a small machine that builds it one element at a time.                *)
(***************************************************************************)
EXTENDS Naturals, Sequences, SequencesExt, Bitwise

CONSTANTS
    MaxHexLen,   \* bound: nibbles in a HEX key, terminator excluded
    MaxKeyLen,   \* bound: bytes in a KEYBYTES key
    KeyBytes,    \* the byte values a KEYBYTES key is built from
    PrefixElems, \* the values the keys given to prefixLen are built from
    MaxPrefixLen \* bound: the length of each key given to prefixLen

ASSUME /\ {MaxHexLen, MaxKeyLen, MaxPrefixLen} \subseteq Nat
       /\ KeyBytes \subseteq 0..255
       /\ PrefixElems \subseteq 0..255

Term == 16                         \* the terminator nibble
Nibble == 0..15

\* The result of a call that panics.
Panic == "panic"

\* hasTerm(s): the last byte is the terminator.
hasTerm(s) == Len(s) > 0 /\ s[Len(s)] = Term

\* decodeNibbles(nibbles, bytes): bytes[bi] = nibbles[ni]<<4 | nibbles[ni+1]
\* for ni = 0, 2, ..., as Go bytes; bytes has len(nibbles)/2 entries.
decodeNibbles(nibbles) ==
    [k \in 1..Len(nibbles) \div 2 |-> ((nibbles[2 * k - 1] * 16) % 256) | nibbles[2 * k]]

\* Mutant of hexToCompact: the first nibble of an odd key is left out of
\* the flag byte.
hexToCompactNoNibble(hex) ==
    LET terminator == IF hasTerm(hex) THEN 1 ELSE 0
        h    == IF hasTerm(hex) THEN Front(hex) ELSE hex
        odd  == Len(h) % 2 = 1
        flag == IF odd THEN (terminator * 32) | 16 ELSE terminator * 32
    IN  <<flag>> \o decodeNibbles(IF odd THEN Tail(h) ELSE h)

\* hexToCompact(hex): strip the terminator, put the flag byte (terminator<<5,
\* odd flag 1<<4 and the first nibble of an odd key) before the packed pairs.
hexToCompact(hex) ==
    LET terminator == IF hasTerm(hex) THEN 1 ELSE 0
        h    == IF hasTerm(hex) THEN Front(hex) ELSE hex
        odd  == Len(h) % 2 = 1
        flag == IF odd THEN ((terminator * 32) | 16) | h[1] ELSE terminator * 32
    IN  <<flag>> \o decodeNibbles(IF odd THEN Tail(h) ELSE h)

\* Mutants of keybytesToHex: the high nibble is the whole byte; the two
\* nibbles of a byte are swapped.
keybytesToHexWhole(str) ==
    [k \in 1..2 * Len(str) + 1 |->
        IF k = 2 * Len(str) + 1 THEN Term
        ELSE IF k % 2 = 1 THEN str[(k + 1) \div 2]
        ELSE str[k \div 2] % 16]

keybytesToHexSwapped(str) ==
    [k \in 1..2 * Len(str) + 1 |->
        IF k = 2 * Len(str) + 1 THEN Term
        ELSE IF k % 2 = 1 THEN str[(k + 1) \div 2] % 16
        ELSE str[k \div 2] \div 16]

\* keybytesToHex(str): both nibbles of every byte, then the terminator.
keybytesToHex(str) ==
    [k \in 1..2 * Len(str) + 1 |->
        IF k = 2 * Len(str) + 1 THEN Term
        ELSE IF k % 2 = 1 THEN str[(k + 1) \div 2] \div 16
        ELSE str[k \div 2] % 16]

\* Mutant of compactToHex: "base[0] <= 2" for the terminator test.
compactToHexLe(compact) ==
    IF Len(compact) = 0 THEN compact
    ELSE LET base == keybytesToHex(compact)
             b    == IF base[1] <= 2 THEN Front(base) ELSE base
             chop == 2 - (b[1] & 1)
         IN  SubSeq(b, chop + 1, Len(b))

\* compactToHex(compact): expand, drop the terminator unless the flag says
\* there is one, then drop the flag nibble and, for an even key, the pad.
compactToHex(compact) ==
    IF Len(compact) = 0 THEN compact
    ELSE LET base == keybytesToHex(compact)
             b    == IF base[1] < 2 THEN Front(base) ELSE base
             chop == 2 - (b[1] & 1)
         IN  SubSeq(b, chop + 1, Len(b))

\* hexToKeybytes(hex): strip the terminator; an odd number of nibbles panics.
hexToKeybytes(hex) ==
    LET h == IF hasTerm(hex) THEN Front(hex) ELSE hex
    IN  IF Len(h) % 2 # 0 THEN Panic ELSE decodeNibbles(h)

\* Mutant of prefixLoop: the loop does not break at a difference.
RECURSIVE prefixLoopNoBreak(_, _, _, _)
prefixLoopNoBreak(a, b, i, length) ==
    IF i < length THEN prefixLoopNoBreak(a, b, i + 1, length) ELSE i

\* prefixLen(a, b): the loop over i < min(len(a), len(b)) that breaks at
\* the first difference.
RECURSIVE prefixLoop(_, _, _, _)
prefixLoop(a, b, i, length) ==
    IF i < length /\ a[i + 1] = b[i + 1] THEN prefixLoop(a, b, i + 1, length) ELSE i

prefixLen(a, b) ==
    prefixLoop(a, b, 0, IF Len(b) < Len(a) THEN Len(b) ELSE Len(a))

-----------------------------------------------------------------------------
(* References *)

\* Yellow Paper, appendix C: HP(x, t) for a nibble sequence x and flag t.
\* The first byte is 16 * f(t) for even ||x||, 16 * (f(t) + 1) + x[1] for odd
\* ||x||, f(t) = 2 if t else 0; the remaining nibbles are paired up.
HP(x, t) ==
    LET f    == IF t THEN 2 ELSE 0
        odd  == Len(x) % 2 = 1
        rest == IF odd THEN Tail(x) ELSE x
    IN  <<IF odd THEN 16 * (f + 1) + x[1] ELSE 16 * f>>
        \o [k \in 1..Len(rest) \div 2 |-> 16 * rest[2 * k - 1] + rest[2 * k]]

\* The nibbles of a byte string, high nibble first.
NibblesOf(s) == FlattenSeq([k \in 1..Len(s) |-> <<s[k] \div 16, s[k] % 16>>])

\* The length of the longest common prefix of a and b.
CommonPrefix(a, b) ==
    LET common == {n \in 0..Len(a) : n <= Len(b) /\ SubSeq(a, 1, n) = SubSeq(b, 1, n)}
    IN  CHOOSE n \in common : \A m \in common : m <= n

-----------------------------------------------------------------------------
(* The inputs.  hex is a HEX key: nibbles, possibly closed by the          *)
(* terminator; key is a KEYBYTES key; pair holds the two arguments of      *)
(* prefixLen.  Each Spec builds one of them and leaves the others empty.   *)

VARIABLES hex, key, pair

vars == <<hex, key, pair>>

Init == hex = <<>> /\ key = <<>> /\ pair = <<<<>>, <<>>>>

\* The HEX key grows by one nibble, or is closed by the terminator.
AddNibble(n) ==
    /\ ~hasTerm(hex) /\ Len(hex) < MaxHexLen
    /\ hex' = Append(hex, n)
    /\ UNCHANGED <<key, pair>>

AddTerm ==
    /\ ~hasTerm(hex)
    /\ hex' = Append(hex, Term)
    /\ UNCHANGED <<key, pair>>

\* The KEYBYTES key grows by one byte.
AddByte(v) ==
    /\ Len(key) < MaxKeyLen
    /\ key' = Append(key, v)
    /\ UNCHANGED <<hex, pair>>

\* One of the two prefixLen arguments grows by one element.
AddPrefixElem(side, v) ==
    /\ Len(pair[side]) < MaxPrefixLen
    /\ pair' = [pair EXCEPT ![side] = Append(@, v)]
    /\ UNCHANGED <<hex, key>>

\* One input is built per behaviour: a builder runs only while the other
\* inputs are empty.
NextHex == key = <<>> /\ pair = <<<<>>, <<>>>> /\ \E n \in Nibble : AddNibble(n) \/ AddTerm
NextKey == hex = <<>> /\ pair = <<<<>>, <<>>>> /\ \E v \in KeyBytes : AddByte(v)
NextPrefix == hex = <<>> /\ key = <<>> /\ \E side \in 1..2, v \in PrefixElems : AddPrefixElem(side, v)

Spec == Init /\ [][NextHex \/ NextKey \/ NextPrefix]_vars

-----------------------------------------------------------------------------
(* Properties *)

\* The inputs, and the HEX form of a key: nibbles closed by the terminator.
TypeOK ==
    /\ hex \in Seq(Nibble \cup {Term})
    /\ key \in Seq(KeyBytes)
    /\ pair \in Seq(PrefixElems) \X Seq(PrefixElems)
    /\ keybytesToHex(key) \in Seq(Nibble \cup {Term})

\* hexToCompact produces exactly the hex-prefix encoding HP of the key's
\* nibbles, with the flag set when the HEX key carries the terminator.
CompactIsHexPrefix ==
    hexToCompact(hex) = HP(IF hasTerm(hex) THEN Front(hex) ELSE hex, hasTerm(hex))

\* compactToHex undoes hexToCompact: the node key stored on disk reads back
\* as the same HEX key, terminator and odd nibble included.
CompactRoundTrip == compactToHex(hexToCompact(hex)) = hex

\* keybytesToHex gives the key's nibbles, high nibble first, then the
\* terminator, and hexToKeybytes turns that back into the same key.
KeybytesRoundTrip ==
    /\ keybytesToHex(key) = NibblesOf(key) \o <<Term>>
    /\ hexToKeybytes(keybytesToHex(key)) = key

\* prefixLen is the length of the longest common prefix of its arguments.
PrefixLenIsCommonPrefix == prefixLen(pair[1], pair[2]) = CommonPrefix(pair[1], pair[2])
=============================================================================
