------------------------------ MODULE TextSplitter ------------------------------
(***************************************************************************)
(* CharacterTextSplitter and RecursiveCharacterTextSplitter with the       *)
(* default length.  A text is a sequence of characters, the ones that      *)
(* belong to a separator or are glue told apart by what they are, the      *)
(* others by where they stand.                                             *)
(***************************************************************************)
EXTENDS Naturals, SequencesExt

CONSTANTS MaxText, MaxSize

Newline == <<"newline", 0>>
Stop == <<"stop", 0>>
Space == <<"space", 0>>
Letter(i) == <<"letter", i>>
AnyLetter == {Letter(i) : i \in 1..MaxText}
Character == {Newline, Stop, Space} \cup AnyLetter

\* The letters of s, in their order.
Letters(s) ==
  LET letters[n \in 0..Len(s)] ==
        IF n = 0 THEN <<>> ELSE IF s[n] \in AnyLetter THEN Append(letters[n - 1], s[n]) ELSE letters[n - 1]
  IN  letters[Len(s)]

(* "\n\n", "." and the empty separator, which is skipped.                  *)
Separators == <<<<Newline, Newline>>, <<Stop>>, <<>>>>

(* The texts of at most MaxText characters.                                *)
Patterns == UNION {[1..n -> {"letter", "newline", "stop", "space"}] : n \in 0..MaxText}
Text(p) == [i \in DOMAIN p |-> IF p[i] = "letter" THEN Letter(i) ELSE <<p[i], 0>>]

VARIABLES
  splitter,   \* "character" or "recursive"
  text, size, overlap,
  chunks,     \* what split_text returned
  whole,      \* the same without overlap
  split       \* split_text has returned

vars == <<splitter, text, size, overlap, chunks, whole, split>>

(* The constructors reject an overlap that is not less than the size.      *)
Init ==
  /\ splitter \in {"character", "recursive"}
  /\ \E p \in Patterns : text = Text(p)
  /\ size \in 1..MaxSize /\ overlap \in 0..(size - 1)
  /\ chunks = <<>> /\ whole = <<>> /\ split = FALSE

-----------------------------------------------------------------------------
OccursAt(s, sep, i) == i + Len(sep) - 1 <= Len(s) /\ SubSeq(s, i, i + Len(sep) - 1) = sep

\* One round of split_on_separator_: the text from start to the next separator.
Found(s, sep, start) == {i \in start..Len(s) : OccursAt(s, sep, i)}
CutNext(cut, s, sep) ==
  LET found == Found(s, sep, cut.start)
      next  == Min(found)
  IN  IF cut.start > Len(s) THEN cut
      ELSE IF found = {} THEN [parts |-> Append(cut.parts, SubSeq(s, cut.start, Len(s))), start |-> Len(s) + 1]
      ELSE [parts |-> Append(cut.parts, SubSeq(s, cut.start, next - 1)), start |-> next + Len(sep)]

(* split_on_separator_: a separator at the very end opens no part.         *)
Parts(s, sep) ==
  LET cut[n \in 0..Len(s)] == IF n = 0 THEN [parts |-> <<>>, start |-> 1] ELSE CutNext(cut[n - 1], s, sep)
  IN  cut[Len(s)].parts

\* Mutation: the glue is not counted.
FitsTight(current, part, n) == Len(current) + Len(part) <= n

\* The glue counts as one character, whatever its length is.
Fits(current, part, n) == Len(current) + 1 + Len(part) <= n

MergeNext(acc, part, n, glue) ==
  IF acc.current = <<>> THEN [out |-> acc.out, current |-> part]
  ELSE IF Fits(acc.current, part, n) THEN [out |-> acc.out, current |-> acc.current \o glue \o part]
  ELSE [out |-> Append(acc.out, acc.current), current |-> part]

Merged(parts, n, glue) ==
  LET merged[k \in 0..Len(parts)] ==
        IF k = 0 THEN [out |-> <<>>, current |-> <<>>] ELSE MergeNext(merged[k - 1], parts[k], n, glue)
  IN  merged[Len(parts)]

\* Mutation: the chunk that is open at the end is not kept.
MergeOpen(parts, n, glue) == Merged(parts, n, glue).out

(* merge_chunks_: parts are joined as long as they fit; parts that are     *)
(* empty vanish where a chunk would begin with them.                       *)
Merge(parts, n, glue) ==
  LET all == Merged(parts, n, glue)
  IN  IF all.current = <<>> THEN all.out ELSE Append(all.out, all.current)

CharacterSplit(s, n) == Merge(Parts(s, Separators[1]), n, Separators[1])

(* split_single_: by the first separator, joined again with spaces, what   *)
(* is still too long by the next one, at last by length alone.             *)
Pieces(s, n) == [k \in 1..((Len(s) + n - 1) \div n) |-> SubSeq(s, (k - 1) * n + 1, IF k * n < Len(s) THEN k * n ELSE Len(s))]

\* The parts, with what is made of those that are too long in their place.
SplitLong(parts, made, n) == FlattenSeq([k \in DOMAIN parts |-> IF Len(parts[k]) <= n THEN <<parts[k]>> ELSE made[k]])
SplitBy(parts, sep, n) ==
  IF sep = <<>> THEN parts ELSE SplitLong(parts, [k \in DOMAIN parts |-> Merge(Parts(parts[k], sep), n, <<Space>>)], n)

SplitSingle(s, n) ==
  LET parts == SplitBy(SplitBy(SplitBy(<<s>>, Separators[1], n), Separators[2], n), Separators[3], n)
  IN  SplitLong(parts, [k \in DOMAIN parts |-> Pieces(parts[k], n)], n)

(* apply_overlap_: a chunk is preceded by the end of the one before it, if *)
(* that one is longer than the overlap.                                    *)
Overlapped(s, o) ==
  [k \in DOMAIN s |->
     IF k > 1 /\ Len(s[k - 1]) > o THEN SubSeq(s[k - 1], Len(s[k - 1]) - o + 1, Len(s[k - 1])) \o s[k] ELSE s[k]]

(* CharacterTextSplitter has an overlap in its configuration and does not  *)
(* use it.                                                                 *)
SplitText ==
  /\ ~split /\ split' = TRUE
  /\ whole' = IF text = <<>> THEN <<>>
              ELSE IF splitter = "character" THEN CharacterSplit(text, size)
              ELSE SplitSingle(text, size)
  /\ chunks' = IF splitter = "recursive" /\ overlap > 0 THEN Overlapped(whole', overlap) ELSE whole'
  /\ UNCHANGED <<splitter, text, size, overlap>>

Next == SplitText

Spec == Init /\ [][Next]_vars

-----------------------------------------------------------------------------
(* Whatever the sizes are and wherever separators stand: every letter of   *)
(* the text is in the chunks once, and in order; only separators vanish.   *)
(* The recursive splitter's chunks are never longer than chunk_size, and   *)
(* the overlap comes on top of it; CharacterTextSplitter, which counts any *)
(* separator as one character, exceeds chunk_size by at most the rest of   *)
(* one separator, unless a chunk is one part without a separator in it.    *)
ChunksFit ==
  split =>
    /\ Letters(FlattenSeq(whole)) = Letters(text)
    /\ \A k \in DOMAIN chunks :
         IF splitter = "recursive"
           THEN Len(whole[k]) <= size /\ Len(chunks[k]) <= size + overlap
           ELSE \/ Len(chunks[k]) <= size + Len(Separators[1]) - 1
                \/ \A i \in DOMAIN chunks[k] : ~OccursAt(chunks[k], Separators[1], i)
=============================================================================
