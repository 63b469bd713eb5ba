--------------------------- MODULE MCTrieEncoding ---------------------------
EXTENDS TrieEncoding

\* All Go byte values.
Bytes == 0..255
=============================================================================
