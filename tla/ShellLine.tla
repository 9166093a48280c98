------------------------------- MODULE ShellLine -------------------------------
(***************************************************************************)
(* How the shell reads a line and takes it apart: get_line and parse of    *)
(* shell/client.c, as operators on sequences of characters.                *)
(*                                                                         *)
(* get_line has to know where quotes end, because a newline inside of them *)
(* belongs to the line.  parse finds the quotes again, in another way.     *)
(***************************************************************************)
EXTENDS ShellVector, SequencesExt

Newline == "nl"
Slash   == "\\"
Quotes  == {"\"", "'"}
Blanks  == {" ", Newline}
Operators == {"&", "|", ">"}
NoQuote == "none"

-----------------------------------------------------------------------------
(***************************************************************************)
(* get_line, a character at a time: open is the quote that is open, slash  *)
(* says that the last character was a backslash, done that the line is     *)
(* read; what comes behind it is rest.                                     *)
(***************************************************************************)
QuoteAfter(open, c) ==
  IF c \notin Quotes THEN open
  ELSE IF open = NoQuote THEN c
  ELSE IF c = open THEN NoQuote ELSE open

(* A backslash and a newline vanish; any other character behind a          *)
(* backslash is taken without a look at it.  The variant counts escaped    *)
(* quotes as quotes.                                                       *)
EscapedQuoteCounts(g, c) ==
  [g EXCEPT !.slash = FALSE, !.open = QuoteAfter(@, c),
            !.line = IF c = Newline THEN @ ELSE @ \o << Slash, c >>]
Escaped(g, c) ==
  [g EXCEPT !.slash = FALSE,
            !.line = IF c = Newline THEN @ ELSE @ \o << Slash, c >>]

ReadSymbol(g, c) ==
  IF g.done THEN [g EXCEPT !.rest = Append(@, c)]
  ELSE IF g.slash THEN Escaped(g, c)
  ELSE IF c = Slash THEN [g EXCEPT !.slash = TRUE]
  ELSE IF c = Newline /\ g.open = NoQuote THEN [g EXCEPT !.done = TRUE]
  ELSE [g EXCEPT !.line = Append(@, c), !.open = QuoteAfter(@, c)]

(* At the end of the input a line without a newline is thrown away: done   *)
(* is FALSE then.                                                          *)
GetLine(stdin) ==
  FoldLeft(ReadSymbol,
           [line |-> << >>, rest |-> << >>, open |-> NoQuote, slash |-> FALSE, done |-> FALSE],
           stdin)

-----------------------------------------------------------------------------
(***************************************************************************)
(* parse.                                                                  *)
(***************************************************************************)

(* strtok(line, "#") skips the hashes in front and ends at the next one.   *)
(* The length is that of what it found, but the text is taken from the     *)
(* line's start.                                                           *)
WithoutComment(line) ==
  LET found == {k \in DOMAIN line : line[k] # "#"}
      first == CHOOSE k \in found : \A m \in found : k <= m
      hashes == {k \in DOMAIN line : line[k] = "#" /\ k > first}
      end == IF hashes = {} THEN Len(line) + 1
             ELSE CHOOSE k \in hashes : \A m \in hashes : k <= m
  IN  IF found = {} \/ first = 2 THEN << >> ELSE SubSeq(line, 1, end - first)

(* Deletes the backslashes that are not behind a backslash.  The variant   *)
(* deletes all.                                                            *)
WithoutAnySlash(s) == SelectSeq(s, LAMBDA c : c # Slash)
WithoutSlashes(s) ==
  FoldLeft(LAMBDA t, c : IF c # Slash \/ t.slash
                         THEN [word |-> Append(t.word, c), slash |-> FALSE]
                         ELSE [t EXCEPT !.slash = TRUE],
           [word |-> << >>, slash |-> FALSE], s).word

IsControl(c) == c \in Quotes \cup Blanks \cup Operators \cup {Slash}

(* The position behind a word that starts at i, and of the quote that      *)
(* closes the one at i, 0 if there is none.  A backslash takes the next    *)
(* character with it.                                                      *)
WordEnd(text, i) ==
  LET end[p \in 1..(Len(text) + 2)] ==
        IF p > Len(text) THEN p
        ELSE IF text[p] = Slash THEN end[p + 2]
        ELSE IF IsControl(text[p]) THEN p ELSE end[p + 1]
  IN  end[i]

QuoteEnd(text, i) ==
  LET end[p \in 1..(Len(text) + 2)] ==
        IF p > Len(text) THEN 0
        ELSE IF text[p] = text[i] THEN p
        ELSE end[p + IF text[p] = Slash THEN 2 ELSE 1]
  IN  end[i + 1]

(* handle_amp, handle_pipe and handle_angle: one character or two, the     *)
(* second also from behind the text.                                       *)
HandleOperator(s, line) ==
  LET c == line[s.i]
      isDouble == s.i < Len(line) /\ line[s.i + 1] = c
  IN  IF isDouble THEN [s EXCEPT !.i = @ + 2, !.vec = PushBackStr(@, << c, c >>)]
      ELSE [s EXCEPT !.i = @ + 1, !.vec = PushBackStr(@, << c >>)]

HandleQuotes(s, text) ==
  LET end == QuoteEnd(text, s.i)
  IN  IF end = 0 THEN [s EXCEPT !.panics = TRUE]
      ELSE [s EXCEPT !.i = end + 1,
                     !.vec = EmplaceBack(@, WithoutSlashes(SubSeq(text, s.i + 1, end - 1)))]

(* A backslash at the very end takes the final zero into the word. *)
HandleStr(s, text) ==
  LET end  == WordEnd(text, s.i)
      last == IF end > Len(text) THEN Len(text) ELSE end - 1
  IN  [s EXCEPT !.i = end, !.vec = EmplaceBack(@, WithoutSlashes(SubSeq(text, s.i, last)))]

Turn(s, text, line) ==
  IF s.panics \/ s.i > Len(text) THEN s
  ELSE LET c == text[s.i]
       IN  IF c \in Operators THEN HandleOperator(s, line)
           ELSE IF c \in Quotes THEN HandleQuotes(s, text)
           ELSE IF c \in Blanks THEN [s EXCEPT !.i = @ + 1]
           ELSE HandleStr(s, text)

(* The tokens of a line, or panics when a quote is not closed. *)
Parse(line) ==
  LET text == WithoutComment(line)
  IN  FoldLeft(LAMBDA s, c : Turn(s, text, line),
               [i |-> 1, vec |-> CreateVector, panics |-> FALSE], text)

-----------------------------------------------------------------------------
(***************************************************************************)
(* The reference: an automaton that takes the line apart in one pass.      *)
(* in is what the automaton is in: NoQuote (between tokens), a quote, an   *)
(* operator character, "word" or "comment"; token is what it has of it.    *)
(* hidden says that a hash was quoted or escaped.                          *)
(***************************************************************************)
Ended(a) ==
  IF a.in \in Operators \cup {"word"}
  THEN [a EXCEPT !.tokens = Append(@, a.token), !.token = << >>, !.in = NoQuote] ELSE a

Enters(a, what) == [Ended(a) EXCEPT !.in = what]

Scan(a, c) ==
  LET taken == [a EXCEPT !.token = Append(@, c), !.slash = FALSE,
                         !.hidden = @ \/ c = "#"]
  IN  IF a.in = "comment" THEN a
      ELSE IF a.slash THEN taken
      ELSE IF c = Slash
           THEN [(IF a.in \in Quotes \cup {"word"} THEN a ELSE Enters(a, "word"))
                   EXCEPT !.slash = TRUE]
      ELSE IF a.in \in Quotes
           THEN IF c = a.in THEN Ended([a EXCEPT !.in = "word"]) ELSE taken
      ELSE IF c = "#" THEN Enters(a, "comment")
      ELSE IF c \in Blanks THEN Ended(a)
      ELSE IF c \in Quotes THEN Enters(a, c)
      ELSE IF c \in Operators /\ a.in = c THEN Ended(taken)
      ELSE IF c \in Operators THEN [Enters(a, c) EXCEPT !.token = << c >>]
      ELSE IF a.in = "word" THEN taken
      ELSE [Enters(a, "word") EXCEPT !.token = << c >>]

Scanned(line) ==
  Ended(FoldLeft(Scan, [in |-> NoQuote, token |-> << >>, tokens |-> << >>,
                        slash |-> FALSE, hidden |-> FALSE], line))
=============================================================================
