------------------------------ MODULE Tokenizer ------------------------------
(***************************************************************************)
(* The assembler's tokenizer and the text of its tokens: CtTokenizer and   *)
(* CtTokenStream::get_value.  src is a sequence of characters, where one    *)
(* member of Letter stands for a run of letters, digits and underscores    *)
(* that begins with no digit.  A word or a number is scanned in one step,  *)
(* comments and strings, whose loops may not end, one character per step:  *)
(* a loop that reads '\0' for ever at the end of the text has no step.     *)
(***************************************************************************)
EXTENDS Integers, Sequences, TLC

CONSTANTS Letter,      \* words, as characters
          Digit        \* the decimal digits, as characters

VARIABLES src,         \* mSource
          mCurrent,    \* the place of the next character, from 0
          mTokens,     \* the tokens so far
          mode,        \* the loop the tokenizer is in
          start,       \* in a string: its first place
          c            \* in a string: the character last read

vars == <<src, mCurrent, mTokens, mode, start, c>>

TokenType == {"EndOfFile", "Word", "Int", "Float", "String", "Char", "Symbol"}
Blank == {" ", "\n", "\t"}

mSize == Len(src)

\* The '\\0' that stands for the end of the text continues no word or number.
NulEndsWords == "NUL" \notin Letter \cup Digit

\* peek() at place i; next() returns the same and moves on, up to the end.
CharAt(i) == IF i < mSize THEN src[i + 1] ELSE "NUL"
\* Mutant: next() without its test of the size.
AfterUnchecked(i, n) == i + n
After(i, n) == IF i + n < mSize THEN i + n ELSE mSize

\* Mutant: a scan that takes one character.
PastOne(chars, i) == IF CharAt(i) \in chars THEN i + 1 ELSE i

\* The first place from i on that holds none of the characters.
Past(chars, i) == CHOOSE q \in i..mSize : /\ CharAt(q) \notin chars
                                          /\ \A r \in i..(q - 1) : CharAt(r) \in chars

\* Mutant: eat_whitspace that steps back at the end of the text only.
AfterBlanksNoStepBack ==
  LET q == Past(Blank, mCurrent) IN IF q + 1 < mSize THEN q + 1 ELSE mSize - 1

\* eat_whitspace: it steps back from the last character even if that is blank.
AfterBlanks == LET q == Past(Blank, mCurrent) IN IF q = mSize THEN mSize - 1 ELSE q

Token(type, from, len) == Append(mTokens, [type |-> type, start |-> from, len |-> len])

Scanning == mode = "scan" /\ mCurrent < mSize

TokenizeWord ==
  /\ Scanning
  /\ CharAt(AfterBlanks) \in Letter
  /\ mCurrent' = Past(Letter \cup Digit, AfterBlanks)
  /\ mTokens' = Token("Word", AfterBlanks, mCurrent' - AfterBlanks)
  /\ UNCHANGED <<src, mode, start, c>>

TokenizeNumber ==
  /\ Scanning
  /\ CharAt(AfterBlanks) \in Digit
  /\ mCurrent' = Past(Digit \cup {"."}, AfterBlanks)
  /\ LET isFloat == \E i \in AfterBlanks..(mCurrent' - 1) : CharAt(i) = "."
     IN  mTokens' = Token(IF isFloat THEN "Float" ELSE "Int", AfterBlanks, mCurrent' - AfterBlanks)
  /\ UNCHANGED <<src, mode, start, c>>

\* Three characters are consumed unseen, as far as there are any.
TokenizeChar ==
  /\ Scanning
  /\ CharAt(AfterBlanks) = "'"
  /\ mCurrent' = After(AfterBlanks, 3)
  /\ mTokens' = Token("Char", After(AfterBlanks, 1), 1)
  /\ UNCHANGED <<src, mode, start, c>>

TokenizeSymbol ==
  /\ Scanning
  /\ CharAt(AfterBlanks) \notin Letter \cup Digit \cup {"#", "'", "\""}
  /\ mCurrent' = AfterBlanks + 1
  /\ mTokens' = Token("Symbol", AfterBlanks, 1)
  /\ UNCHANGED <<src, mode, start, c>>

BeginComment ==
  /\ Scanning
  /\ CharAt(AfterBlanks) = "#"
  /\ mode' = "comment"
  /\ mCurrent' = AfterBlanks
  /\ UNCHANGED <<src, mTokens, start, c>>

\* read_comment waits for a newline, which the end of the text is not.
ReadComment ==
  /\ mode = "comment"
  /\ IF CharAt(mCurrent) = "\n"
     THEN mode' = "scan" /\ UNCHANGED mCurrent
     ELSE mCurrent' = After(mCurrent, 1) /\ UNCHANGED mode
  /\ UNCHANGED <<src, mTokens, start, c>>

\* The first character is read before the loop, so it escapes nothing.
BeginString ==
  /\ Scanning
  /\ CharAt(AfterBlanks) = "\""
  /\ mode' = "string"
  /\ start' = After(AfterBlanks, 1)
  /\ c' = CharAt(start')
  /\ mCurrent' = After(start', 1)
  /\ UNCHANGED <<src, mTokens>>

ReadString ==
  /\ mode = "string"
  /\ c # "\""
  /\ c' = CharAt(mCurrent)
  /\ mCurrent' = After(mCurrent, IF c' = "\\" THEN 2 ELSE 1)
  /\ UNCHANGED <<src, mTokens, mode, start>>

EndString ==
  /\ mode = "string"
  /\ c = "\""
  /\ mode' = "scan"
  /\ mTokens' = Token("String", start, mCurrent - start - 1)
  /\ UNCHANGED <<src, mCurrent, start, c>>

\* Mutant: the loop of tokenize run while mCurrent <= mSize.
EndOfFileLate ==
  /\ mode = "scan"
  /\ mCurrent > mSize
  /\ mode' = "done"
  /\ mTokens' = Token("EndOfFile", 0, 0)
  /\ UNCHANGED <<src, mCurrent, start, c>>

EndOfFile ==
  /\ mode = "scan"
  /\ mCurrent >= mSize
  /\ mode' = "done"
  /\ mTokens' = Token("EndOfFile", 0, 0)
  /\ UNCHANGED <<src, mCurrent, start, c>>

Init == mCurrent = 0 /\ mTokens = <<>> /\ mode = "scan" /\ start = 0 /\ c = "NUL"

Next == \/ TokenizeWord \/ TokenizeNumber \/ TokenizeChar \/ TokenizeSymbol
        \/ BeginComment \/ ReadComment
        \/ BeginString \/ ReadString \/ EndString
        \/ EndOfFile

-----------------------------------------------------------------------------
(* The text of a token. *)

Escape == [n |-> "\n", t |-> "\t", r |-> "\r", b |-> "BS"] @@ ("0" :> "NUL")

\* resolve_string; a backslash at the end takes the '\0' behind the string.
Resolved(s) ==
  LET from[i \in 1..(Len(s) + 2)] ==
        IF i > Len(s) THEN <<>>
        ELSE IF s[i] # "\\" THEN <<s[i]>> \o from[i + 1]
        ELSE LET e == IF i < Len(s) THEN s[i + 1] ELSE "NUL"
             IN  <<IF e \in DOMAIN Escape THEN Escape[e] ELSE e>> \o from[i + 2]
  IN  from[1]

\* Mutant: a text without its last character.
GetValueShort(t) == SubSeq(src, t.start + 1, t.start + t.len - 1)

GetValue(t) ==
  LET text == SubSeq(src, t.start + 1, t.start + t.len)
  IN  IF t.start > mSize \/ t.start + t.len > mSize THEN <<>>
      ELSE IF t.type = "String" THEN Resolved(text) ELSE text

\* The tokens of a list, each with its text.
Texts(list) == [i \in 1..Len(list) |-> [type |-> list[i].type, value |-> GetValue(list[i])]]
Stream == Texts(mTokens)

-----------------------------------------------------------------------------
TypeOK ==
  /\ mCurrent \in 0..mSize
  /\ mode \in {"scan", "comment", "string", "done"}
  /\ start \in 0..mSize
  /\ \A i \in 1..Len(mTokens) : /\ mTokens[i].type \in TokenType
                                /\ mTokens[i].start \in 0..mSize
                                /\ mTokens[i].len \in 0..mSize

Read == {i \in 1..Len(mTokens) : mTokens[i].type # "EndOfFile"}
Places(i) == mTokens[i].start .. (mTokens[i].start + mTokens[i].len - 1)

\* Tokens are found in the order of the text and do not overlap, and nothing
\* the tokenizer has gone past lies outside them but blanks, quotes and what
\* a comment covers: no scan starts or stops one character off.
NothingLost ==
  mode # "string" =>
    /\ \A i, j \in Read : i < j => \A p \in Places(i), q \in Places(j) : p < q
    /\ \A p \in 0..(mCurrent - 1) :
         \/ \E i \in Read : p \in Places(i)
         \/ CharAt(p) \in Blank \cup {"'", "\""}
         \/ \E q \in 0..p : CharAt(q) = "#" /\ \A r \in q..p : CharAt(r) # "\n"
         \/ \E i \in Read : mTokens[i].type = "Char" /\ p = mTokens[i].start + 1

\* A word or a number is taken whole: what follows it cannot continue it.
WholeWords ==
  \A i \in Read :
    LET behind == CharAt(mTokens[i].start + mTokens[i].len)
    IN  /\ mTokens[i].type = "Word" => behind \notin Letter \cup Digit
        /\ mTokens[i].type \in {"Int", "Float"} => behind \notin Digit \cup {"."}

-----------------------------------------------------------------------------
(* A text written as the language's documents write one: lexemes in order,  *)
(* with blanks and comments between them.                                   *)

\* A letter is no digit, and neither is a blank or a mark the scan asks for.
KindsDiffer == /\ Letter \cap Digit = {}
               /\ (Letter \cup Digit) \cap (Blank \cup {"#", "'", "\""}) = {}

\* The lexemes a program is written with, and where they end.
Lexeme == [type : {"Word", "Int", "Float", "Symbol"}, start : Nat, len : Nat \ {0}]
End(l) == l.start + l.len

\* All of l is of the characters, and what follows it is not.
Fills(l, chars) == /\ \A p \in l.start..(End(l) - 1) : CharAt(p) \in chars
                   /\ CharAt(End(l)) \notin chars

IsLexeme(l) ==
  /\ End(l) <= mSize
  /\ l.type = "Word" => CharAt(l.start) \in Letter /\ Fills(l, Letter \cup Digit)
  /\ l.type \in {"Int", "Float"} =>
       /\ CharAt(l.start) \in Digit /\ Fills(l, Digit \cup {"."})
       /\ l.type = "Float" <=> \E p \in l.start..(End(l) - 1) : CharAt(p) = "."
  /\ l.type = "Symbol" =>
       l.len = 1 /\ CharAt(l.start) \notin Letter \cup Digit \cup Blank \cup {"#", "'", "\""}

\* From place i to place j there are only blanks and comments that end before j.
Gap(i, j) ==
  /\ i <= j
  /\ \A p \in i..(j - 1) :
       \/ CharAt(p) \in Blank
       \/ /\ \E q \in i..p : CharAt(q) = "#" /\ \A r \in q..p : CharAt(r) # "\n"
          /\ \E r \in p..(j - 1) : CharAt(r) = "\n"

\* The text is these lexemes, and ends with the last.
WrittenAs(list) ==
  LET end(n) == IF n = 0 THEN 0 ELSE End(list[n])
  IN  /\ \A n \in 1..Len(list) : IsLexeme(list[n]) /\ Gap(end(n - 1), list[n].start)
      /\ end(Len(list)) = mSize

\* What the tokenizer should make of it.
Eof == [type |-> "EndOfFile", start |-> 0, len |-> 0]
TokensOf(list) == Append(list, Eof)
=============================================================================
