------------------------------ MODULE Marking -------------------------------
(***************************************************************************)
(* How a tool's output and a line of prose are marked up for the page      *)
(* (src/ui/chat.rs, colorize and prose_line_html; src/ui/escape.rs): the   *)
(* text is escaped, and runs of it are put in spans by what they look      *)
(* like.                                                                   *)
(*                                                                         *)
(* A text is built of atoms, one of each shape the rules tell apart, and   *)
(* read character by character.                                            *)
(***************************************************************************)
EXTENDS Naturals, Sequences, SequencesExt

Letters == {"a", "h", "t", "p", "s"}
Digits == {"1", "3", "9"}
Alphanumeric == Letters \cup Digits
Space == {" ", "newline"}
Signs == {"+", "-"}
Tick == "backtick"
PathCharacters == Alphanumeric \cup {"/", ".", "_", "-"}

Https == <<"h", "t", "t", "p", "s", ":", "/", "/">>

\* An atom's characters, escaped: a quote is five of them.
Escaped(atom) ==
  CASE atom = "quote" -> <<"&", "#", "3", "9", ";">>
    [] atom = "link" -> Https
    [] atom = "path" -> <<"/", "a", ".", "a">>
    [] atom = "line" -> <<":", "1">>
    [] OTHER -> <<atom>>

Text(atoms) == FlattenSeq([i \in DOMAIN atoms |-> Escaped(atoms[i])])

-----------------------------------------------------------------------------
(* What a token is, from position i of a text.  None is a length of zero.  *)

\* The position at which the run of such characters from i stops.
Stop(s, i, characters) ==
  CHOOSE j \in i..(Len(s) + 1) :
     /\ j = Len(s) + 1 \/ s[j] \notin characters
     /\ \A k \in i..(j - 1) : s[k] \in characters

Run(s, i, characters) == Stop(s, i, characters) - i
Before(s, i) == IF i = 1 THEN "start" ELSE s[i - 1]
Token(length, class) == [length |-> length, class |-> class]
Plain == Token(1, "plain")

\* Slip: no character is an escaped one.
EntityNever(s, i) == 0

\* An escaped character is stepped over whole.
Entity(s, i) ==
  LET end == Stop(s, i + 1, Alphanumeric \cup {"#"})
  IN  IF s[i] = "&" /\ end > i + 1 /\ end <= Len(s) /\ s[end] = ";"
        THEN end + 1 - i ELSE 0

Everything(s) == {s[k] : k \in DOMAIN s}

Link(s, i) ==
  IF IsPrefix(Https, SubSeq(s, i, Len(s)))
    THEN Run(s, i, Everything(s) \ Space) ELSE 0

LastOf(s, i, end, character) ==
  LET at == {k \in i..(end - 1) : s[k] = character}
  IN  IF at = {} THEN 0 ELSE CHOOSE k \in at : \A j \in at : j <= k

NumberedLine(s, i) ==
  LET digits == IF i < Len(s) /\ s[i] = ":" THEN Run(s, i + 1, Digits) ELSE 0
  IN  IF digits = 0 THEN 0 ELSE digits + 1

\* A run with a directory in it, ending in a name with a suffix, and the line
\* number some tools hang off it.
Path(s, i) ==
  LET end == Stop(s, i, PathCharacters)
      slash == LastOf(s, i, end, "/")
      dot == LastOf(s, slash + 1, end, ".")
  IN  IF /\ slash # 0
         /\ dot > slash + 1
         /\ dot + 1 < end /\ Stop(s, dot + 1, Alphanumeric) >= end
        THEN end + NumberedLine(s, end) - i ELSE 0

\* A digit glued to the end of a word is the word's, and the punctuation that
\* follows a number is not the number's.
Count(s, i) ==
  LET end == Stop(s, i, Digits \cup {".", ","})
  IN  IF Before(s, i) \in Alphanumeric \/ s[i] \notin Digits THEN 0
      ELSE 1 + (CHOOSE k \in i..(end - 1) :
                  s[k] \in Digits /\ \A j \in (k + 1)..(end - 1) :
                                        s[j] \notin Digits) - i

\* A run of one sign, heading a line or more than one after a space, that
\* runs out into whitespace.
Change(s, i) ==
  LET run == Run(s, i, {s[i]})
      end == Stop(s, i, Signs)
  IN  IF /\ s[i] \in Signs
         /\ end > Len(s) \/ s[end] \in Space
         /\ \/ Before(s, i) \in {"start", "newline"}
            \/ Before(s, i) \in Space \cup Signs /\ run > 1
        THEN run ELSE 0

\* A mark some tools head a passing test with.
Mark(s, i) == IF s[i] = "check" THEN 1 ELSE 0

\* piece, token: the first that claims the position, in the code's order.
Piece(s, i) ==
  CASE Entity(s, i) > 0 -> Token(Entity(s, i), "plain")
    [] Entity(s, i) = 0 /\ Link(s, i) > 0 -> Token(Link(s, i), "url")
    [] Entity(s, i) + Link(s, i) = 0 /\ Path(s, i) > 0 ->
         Token(Path(s, i), "path")
    [] OTHER -> CASE Count(s, i) > 0 -> Token(Count(s, i), "num")
                  [] Count(s, i) = 0 /\ Change(s, i) > 0 ->
                       Token(Change(s, i), "change")
                  [] Count(s, i) + Change(s, i) = 0 /\ Mark(s, i) > 0 ->
                       Token(1, "mark")
                  [] OTHER -> Plain

\* colorize: the pieces of a text, each with where it starts.
Colorize(s) ==
  LET from[i \in 1..(Len(s) + 1)] ==
        IF i = Len(s) + 1 THEN <<>>
        ELSE <<[at |-> i, token |-> Piece(s, i)]>>
               \o from[i + Piece(s, i).length]
  IN  from[1]

-----------------------------------------------------------------------------
(* A line of prose.                                                        *)

\* Slip: an empty pair of backticks is code too.
InlineCodeEmpty(s, i) ==
  LET end == Stop(s, i + 1, Everything(s) \ {Tick})
  IN  IF s[i] = Tick /\ end <= Len(s) THEN end + 1 - i ELSE 0

\* What is between two backticks; a pair with nothing in it is two backticks.
InlineCode(s, i) ==
  LET end == Stop(s, i + 1, Everything(s) \ {Tick})
  IN  IF s[i] = Tick /\ end > i + 1 /\ end <= Len(s) THEN end + 1 - i ELSE 0

ProseLine(s) ==
  LET piece(i) == CASE InlineCode(s, i) > 0 -> Token(InlineCode(s, i), "code")
                    [] InlineCode(s, i) = 0 /\ Link(s, i) > 0 ->
                         Token(Link(s, i), "url")
                    [] OTHER -> Plain
      from[i \in 1..(Len(s) + 1)] ==
        IF i = Len(s) + 1 THEN <<>>
        ELSE <<[at |-> i, token |-> piece(i)]>> \o from[i + piece(i).length]
  IN  from[1]

-----------------------------------------------------------------------------
\* The pieces are the text, one after the other and to its end.
Cover(pieces, s) ==
  /\ \A n \in 1..(Len(pieces) - 1) :
       pieces[n].at + pieces[n].token.length = pieces[n + 1].at
  /\ pieces # <<>> => Last(pieces).at + Last(pieces).token.length = Len(s) + 1

\* Where each escaped character starts and ends, read off the atoms.
Quotes(atoms) ==
  {<<Len(Text(SubSeq(atoms, 1, n - 1))) + 1, Len(Text(SubSeq(atoms, 1, n)))>> :
     n \in {k \in DOMAIN atoms : atoms[k] = "quote"}}

\* Marking a tool's output changes none of its text and opens no span inside
\* an escaped character; no number is cut out of a word and no path out of a
\* longer run of its own characters (the comments on colorize, count and
\* is_path), but after a line number, or after a number with a comma in it,
\* whose digits a path may go on from.
MarkingKeepsTheText(atoms) ==
  LET s == Text(atoms)
      pieces == Colorize(s)
  IN  /\ Cover(pieces, s)
      /\ \A n \in DOMAIN pieces :
           LET p == pieces[n]
               end == p.at + p.token.length
           IN  /\ \A q \in Quotes(atoms) :
                    ~(q[1] < p.at /\ p.at <= q[2]) /\ ~(q[1] < end /\ end <= q[2])
               /\ p.token.class = "path" =>
                    \/ Before(s, p.at) \notin PathCharacters
                    \/ n > 1 /\ pieces[n - 1].token.class = "path"
                    \/ /\ n > 1 /\ pieces[n - 1].token.class = "num"
                       /\ \E k \in pieces[n - 1].at..(p.at - 1) : s[k] = ","
      /\ \A n \in DOMAIN pieces : pieces[n].token.class = "num" =>
           Before(s, pieces[n].at) \notin Letters

\* A line of prose keeps every character it was said with; every code span has
\* words in it and no backtick; and a backtick is left standing only where it
\* has no partner on the rest of the line, or nothing between it and the next
\* (inline_code).  One that follows a link is the link's, which takes all there
\* is up to a space (inline_link), and so it is no piece of its own.
ProseKeepsItsWords(atoms) ==
  LET s == Text(atoms)
      pieces == ProseLine(s)
  IN  /\ Cover(pieces, s)
      /\ \A n \in DOMAIN pieces : pieces[n].token.class = "code" =>
           LET from == pieces[n].at
               end == from + pieces[n].token.length - 1
           IN  /\ s[from] = Tick /\ s[end] = Tick /\ end > from + 1
               /\ \A k \in (from + 1)..(end - 1) : s[k] # Tick
      /\ \A n \in DOMAIN pieces :
           LET from == pieces[n].at
           IN  pieces[n].token.class = "plain" /\ s[from] = Tick =>
                 \/ \A k \in (from + 1)..Len(s) : s[k] # Tick
                 \/ s[from + 1] = Tick

=============================================================================
