----------------------------- MODULE MCStreams -----------------------------
EXTENDS Streams, SequencesExt
CONSTANT MaxRunes
\* A rune is a byte, and the ellipsis three.
Runes == {<<b>> : b \in Bytes \ {"e1", "e2", "e3"}} \cup {Ellipsis}
MCTexts == {FlattenSeq(r) : r \in UNION {[1 .. n -> Runes] : n \in 0 .. MaxRunes}}
=============================================================================
