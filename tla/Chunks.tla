------------------------------- MODULE Chunks -------------------------------
(***************************************************************************)
(* How untrusted texts become scan requests (runner/src/vigilsegments.ts): *)
(* a text is cut into overlapping pieces the scanner's classifier can read *)
(* whole, blank pieces are dropped, and each distinct piece is sent once.  *)
(*                                                                         *)
(* A text is a sequence of UTF-16 units: " " is white space, "H" and "L"   *)
(* are the halves of a surrogate pair, anything else is itself.  Offsets   *)
(* count from 0 and spans are half open, as in the code; t[i] is the unit  *)
(* at offset i - 1.                                                        *)
(***************************************************************************)
EXTENDS Integers, Sequences, FiniteSets, SequencesExt

CONSTANTS MaxChars,   \* CHUNK_CHARS (500 in the code)
          Overlap     \* CHUNK_OVERLAP (100 in the code)

\* chunkSpans itself asks only that the overlap is less than a piece.  A piece must
\* be longer than the overlap also when it is cut early, at white space or before a
\* surrogate pair, as it is with the code's numbers.
ASSUME ChunkAssumption ==
    /\ MaxChars \in Nat /\ Overlap \in Nat
    /\ Overlap + 1 < MaxChars /\ Overlap <= (MaxChars * 4) \div 5

Blank(t) == \A i \in DOMAIN t : t[i] = " "

\* The offset after the last white space unit in (from, to], or -1.
lastWhitespace(t, from, to) ==
    LET ws == {i \in (from + 1)..to : t[i] = " "}
    IN  IF ws = {} THEN -1 ELSE Max(ws)

\* Where the piece that starts at start ends: preferably at white space in the
\* last fifth of the window, never inside a surrogate pair.
CutAt(t, start) ==
    LET full == Min({start + MaxChars, Len(t)})
        ws == lastWhitespace(t, start + (MaxChars * 4) \div 5, full)
        end == IF ws > start THEN ws ELSE full
    IN  IF full = Len(t) THEN full ELSE IF t[end] = "H" THEN end - 1 ELSE end

\* Mutant: pieces follow each other without overlap.
ResumeAtEnd(t, start, end) == IF t[end + 1] = "L" THEN end + 1 ELSE end

\* Where the next piece starts.
ResumeAt(t, start, end) ==
    LET next == IF end - Overlap <= start THEN end ELSE end - Overlap
    IN  IF t[next + 1] = "L" THEN next + 1 ELSE next

\* One turn of chunkSpans' loop, which ends at the end of the text.
Turn(t, spans) ==
    LET start == IF spans = <<>> THEN 0 ELSE ResumeAt(t, Last(spans)[1], Last(spans)[2])
    IN  IF spans # <<>> /\ Last(spans)[2] >= Len(t) THEN spans
        ELSE IF start >= Len(t) THEN spans
        ELSE Append(spans, <<start, CutAt(t, start)>>)

\* [start, end) of every piece.  A piece starts after the one before it, so there
\* are no more turns than units.
chunkSpans(t) ==
    IF Len(t) <= MaxChars THEN << <<0, Len(t)>> >>
    ELSE LET after[n \in 0..Len(t)] == IF n = 0 THEN <<>> ELSE Turn(t, after[n - 1])
         IN  after[Len(t)]

chunkText(t) == LET spans == chunkSpans(t)
                IN  [i \in DOMAIN spans |-> SubSeq(t, spans[i][1] + 1, spans[i][2])]

\* The requests to send for a sequence of texts: every piece that is not blank,
\* where it occurs first.
scanUnits(texts) ==
    LET pieces == FlattenSeq([i \in DOMAIN texts |-> chunkText(texts[i])])
        seen(i) == \E j \in 1..(i - 1) : pieces[j] = pieces[i]
    IN  FlattenSeq([i \in DOMAIN pieces |-> IF Blank(pieces[i]) \/ seen(i) THEN <<>> ELSE <<pieces[i]>>])

\* w is seen whole in one of the pieces.
SeenWhole(w, pieces) ==
    \E p \in pieces : \E i \in 0..(Len(p) - Len(w)) : SubSeq(p, i + 1, i + Len(w)) = w
=============================================================================
