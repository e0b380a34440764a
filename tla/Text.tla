-------------------------------- MODULE Text --------------------------------
(***************************************************************************)
(* The functions that cut text: chunkText of internal/codeindex, which     *)
(* divides a file into the chunks that are embedded, and ExtractJSON of    *)
(* internal/llm, which finds the JSON value in a model's completion.       *)
(* Texts are sequences of one-character strings over small alphabets; a    *)
(* piece of a text is named by its first and last position.                *)
(***************************************************************************)
EXTENDS Integers, Sequences, FiniteSets, SequencesExt

CONSTANT MaxText      \* bound: the longest text

ASSUME MaxTextAssumption == MaxText \in Nat

NoValue == <<>>

-----------------------------------------------------------------------------
\* New: the sizes the service works with, whatever is configured.
Sizes(size, overlap) ==
  LET s == IF size <= 0 THEN 1000 ELSE size
  IN [size |-> s, overlap |-> IF overlap < 0 \/ overlap >= s THEN s \div 5 ELSE overlap]

Newline == "n"
Blank(text, from, to) == \A i \in from..to : text[i] \in {Newline, " "}

\* The line a reader is on who has read offset runes.
lineNumber(text, offset) == 1 + Cardinality({i \in 1..offset : text[i] = Newline})

Chunk(text, start, end) ==
  [from |-> start + 1, to |-> end,
   startLine |-> lineNumber(text, start), endLine |-> lineNumber(text, end)]

\* Mutant of chunkText: the loop goes on after the chunk that ends the text.
chunkTextTail(text, size, overlap) ==
  LET n == Len(text)
      step == IF size - overlap <= 0 THEN size ELSE size - overlap
      From[start \in Nat] ==
        LET end == IF start + size < n THEN start + size ELSE n
        IN IF start >= n THEN <<>>
           ELSE (IF Blank(text, start + 1, end) THEN <<>> ELSE <<Chunk(text, start, end)>>)
                \o From[start + step]
  IN From[0]
\* Chunks of at most size runes that begin every size - overlap runes; blank
\* ones are left out and the one that reaches the end is the last.
chunkText(text, size, overlap) ==
  LET n == Len(text)
      step == IF size - overlap <= 0 THEN size ELSE size - overlap
      From[start \in 0..n] ==
        LET end == IF start + size < n THEN start + size ELSE n
        IN (IF Blank(text, start + 1, end) THEN <<>> ELSE <<Chunk(text, start, end)>>)
           \o (IF end = n THEN <<>> ELSE From[start + step])
  IN IF n = 0 THEN <<>> ELSE From[0]

-----------------------------------------------------------------------------
\* Brackets, quote and backslash; a letter would be passed over, as a
\* bracket is within a string and a closing one before the value.
Quote == "q"
Escape == "b"
Opener == {"{", "["}
Closer == {"}", "]"}
Characters == Opener \cup Closer \cup {Quote, Escape}

\* JSON over these characters: strings, empty objects, arrays of at most one
\* value.
StringUnits == {<<c>> : c \in Opener \cup Closer} \cup {<<Escape, Quote>>, <<Escape, Escape>>}
Longer(bodies, n) ==
  bodies \cup {p[1] \o p[2] : p \in {x \in bodies \X StringUnits : Len(x[1]) + Len(x[2]) <= n}}
StringBodies[n \in 0..MaxText] == IF n = 0 THEN {<<>>} ELSE Longer(StringBodies[n - 1], n)
Nested(values, n) ==
  {<<Quote>> \o b \o <<Quote>> : b \in StringBodies[n - 2]}
  \cup {<<"{", "}">>, <<"[", "]">>}
  \cup {<<"[">> \o v \o <<"]">> : v \in values}
JSON[n \in 0..MaxText] == IF n < 2 THEN {} ELSE Nested(JSON[n - 2], n)
Values == JSON[MaxText]

\* json.Unmarshal into an object (a struct or a map) or into a slice.
Unmarshal(text, kind) == text \in Values /\ text[1] = kind

firstJSONStart(text) ==
  LET openers == {i \in 1..Len(text) : text[i] \in Opener}
  IN IF openers = {} THEN 0 ELSE Min(openers)

Turn(c) == CASE c \in Opener -> 1 [] c \in Closer -> -1 [] OTHER -> 0

\* Mutant of Scan: a backslash is a character like any other.
ScanNoEscapes(s, c) ==
  IF s.inString THEN [s EXCEPT !.inString = c # Quote]
  ELSE [depth |-> s.depth + Turn(c), inString |-> c = Quote, escaped |-> FALSE]
\* One character of jsonEnd's loop.
Scan(s, c) ==
  CASE s.escaped -> [s EXCEPT !.escaped = FALSE]
    [] ~ s.escaped /\ s.inString -> [depth |-> s.depth, inString |-> c # Quote, escaped |-> c = Escape]
    [] OTHER -> [depth |-> s.depth + Turn(c), inString |-> c = Quote, escaped |-> FALSE]

\* The position at which the value opened at start is closed, or 0.
jsonEnd(text, start) ==
  LET At[i \in start - 1 .. Len(text)] ==
        IF i < start THEN [depth |-> 0, inString |-> FALSE, escaped |-> FALSE]
        ELSE Scan(At[i - 1], text[i])
      closed == {i \in start .. Len(text) : At[i].depth = 0 /\ At[i - 1].depth = 1}
  IN IF closed = {} THEN 0 ELSE Min(closed)

\* The piece that is decoded: from the first opener to its end, or else the
\* whole text.
ExtractJSON(text, kind) ==
  LET start == firstJSONStart(text)
      end == IF start = 0 THEN 0 ELSE jsonEnd(text, start)
  IN CASE end > start /\ Unmarshal(SubSeq(text, start, end), kind) -> <<start, end>>
       [] Unmarshal(text, kind) -> <<1, Len(text)>>
       [] OTHER -> NoValue
=============================================================================
