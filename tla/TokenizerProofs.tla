--------------------------- MODULE TokenizerProofs ---------------------------
(***************************************************************************)
(* What holds of the tokenizer for every text: it stays inside the text,   *)
(* cuts no word in two and leaves nothing out; and what it makes of a text *)
(* that is laid out as a list of lexemes: these, whole and in order.       *)
(***************************************************************************)
EXTENDS Tokenizer, Induction

(* The state of the tokenizer.  A string's last character, once read, lies *)
(* just behind the place the tokenizer has come to.                        *)
Shape ==
  /\ src \in Seq(STRING)
  /\ mCurrent \in 0..mSize
  /\ mode \in {"scan", "comment", "string", "done"}
  /\ start \in 0..mSize
  /\ mTokens \in Seq([type : TokenType, start : 0..mSize, len : 0..mSize])

Quoted ==
  mode = "string" =>
    /\ start <= mCurrent
    /\ c = "\"" => start < mCurrent /\ CharAt(mCurrent - 1) = "\""

(* How far the tokens go, and the text that has been dealt with.           *)
Reached == IF mode = "string" THEN start ELSE mCurrent

EndOf(i) == mTokens[i].start + mTokens[i].len

Whole(i) == /\ mTokens[i].type = "Word" => CharAt(EndOf(i)) \notin Letter \cup Digit
            /\ mTokens[i].type \in {"Int", "Float"} => CharAt(EndOf(i)) \notin Digit \cup {"."}

Apart == \A i, j \in Read : i < j => EndOf(i) <= mTokens[j].start

Before == Reached < mSize => \A i \in Read : EndOf(i) <= Reached

InComment(p) == \E q \in 0..p : CharAt(q) = "#" /\ \A r \in q..p : CharAt(r) # "\n"

Covered(p) == \/ \E i \in Read : p \in Places(i)
              \/ CharAt(p) \in Blank \cup {"'", "\""}
              \/ InComment(p)
              \/ \E i \in Read : mTokens[i].type = "Char" /\ p = mTokens[i].start + 1

AllCovered == \A p \in 0..(Reached - 1) : Covered(p)

Commented ==
  mode = "comment" =>
    \E q \in 0..mCurrent : CharAt(q) = "#" /\ \A r \in q..(mCurrent - 1) : CharAt(r) # "\n"

Inv == Shape /\ Quoted /\ WholeWords /\ Apart /\ Before /\ AllCovered /\ Commented

-----------------------------------------------------------------------------
(* A scan over characters of a kind ends at the first of another kind: one *)
(* is always found, because the end of the text is of no kind.             *)
LEMMA PastIs ==
  ASSUME src \in Seq(STRING), NEW chars, "NUL" \notin chars, NEW i \in 0..mSize
  PROVE  /\ Past(chars, i) \in i..mSize
         /\ CharAt(Past(chars, i)) \notin chars
         /\ \A r \in i..(Past(chars, i) - 1) : CharAt(r) \in chars
<1> DEFINE T == {q \in i..mSize : CharAt(q) \notin chars}
<1>1. mSize \in Nat
  BY DEF mSize
<1>2. CharAt(mSize) = "NUL"
  BY <1>1 DEF CharAt
<1>3. T \subseteq Nat /\ T # {}
  BY <1>1, <1>2
<1>4. PICK q \in T : \A y \in T : q <= y
  <2> HIDE DEF T
  <2> QED
    BY <1>3, LeastElement
<1>5. q \in i..mSize /\ CharAt(q) \notin chars
  OBVIOUS
<1>6. ASSUME NEW r \in i..(q - 1)
      PROVE  CharAt(r) \in chars
  <2>1. r \in i..mSize /\ ~(q <= r)
    BY <1>1, <1>5
  <2> QED
    BY <1>4, <2>1
<1> QED
  BY <1>5, <1>6 DEF Past

(* eat_whitspace stops inside the text and passes nothing but blanks.      *)
LEMMA AfterBlanksIs ==
  ASSUME Shape, Scanning
  PROVE  /\ AfterBlanks \in mCurrent..(mSize - 1)
         /\ \A r \in mCurrent..(AfterBlanks - 1) : CharAt(r) \in Blank
<1>1. mSize \in Nat /\ src \in Seq(STRING) /\ mCurrent \in 0..mSize /\ mCurrent < mSize
  BY DEF Shape, Scanning, mSize
<1>2. "NUL" \notin Blank
  BY DEF Blank
<1>3. /\ Past(Blank, mCurrent) \in mCurrent..mSize
      /\ \A r \in mCurrent..(Past(Blank, mCurrent) - 1) : CharAt(r) \in Blank
  BY <1>1, <1>2, PastIs
<1> QED
  BY <1>1, <1>3 DEF AfterBlanks

(* A step never changes the text, and adds a token at the end or none.     *)
LEMMA AddsToken ==
  ASSUME Shape, src' = src, NEW t, mTokens' = Append(mTokens, t)
  PROVE  /\ Len(mTokens') = Len(mTokens) + 1 /\ Len(mTokens) \in Nat
         /\ mTokens'[Len(mTokens) + 1] = t
         /\ \A i \in 1..Len(mTokens) : mTokens'[i] = mTokens[i]
         /\ \A p \in Int : CharAt(p)' = CharAt(p)
         /\ mSize' = mSize
  BY DEF Shape, CharAt, mSize

(* Every token begins in the text and is no longer than it.                *)
LEMMA TokensAre ==
  ASSUME Shape
  PROVE  \A i \in 1..Len(mTokens) : /\ mTokens[i].start \in 0..mSize
                                    /\ mTokens[i].len \in 0..mSize
                                    /\ mTokens[i].type \in TokenType
                                    /\ mSize \in Nat
<1> DEFINE TokenSet == [type : TokenType, start : 0..mSize, len : 0..mSize]
<1>1. mSize \in Nat /\ mTokens \in Seq(TokenSet)
  BY DEF Shape, mSize
<1>2. ASSUME NEW i \in 1..Len(mTokens)
      PROVE  mTokens[i] \in TokenSet
  <2> HIDE DEF TokenSet
  <2> QED
    BY <1>1
<1> QED
  BY <1>1, <1>2

(* A token added behind the text dealt with keeps the tokens in order, and *)
(* what was covered stays so.                                              *)
LEMMA NextToken ==
  ASSUME Inv, src' = src, Reached < mSize,
         NEW t \in [type : TokenType, start : 0..mSize, len : 0..mSize],
         mTokens' = Append(mTokens, t), t.type # "EndOfFile", Reached <= t.start,
         t.type = "Word" => CharAt(t.start + t.len) \notin Letter \cup Digit,
         t.type \in {"Int", "Float"} => CharAt(t.start + t.len) \notin Digit \cup {"."}
  PROVE  /\ Shape' <=> mCurrent' \in 0..mSize /\ start' \in 0..mSize
                         /\ mode' \in {"scan", "comment", "string", "done"}
         /\ WholeWords' /\ Apart'
         /\ \A p \in Nat : Covered(p) => Covered(p)'
         /\ Read' = Read \cup {Len(mTokens) + 1}
         /\ mTokens'[Len(mTokens) + 1] = t
         /\ \A i \in Read : EndOf(i)' <= Reached
<1> DEFINE n == Len(mTokens) + 1
<1>1. /\ Len(mTokens') = n /\ Len(mTokens) \in Nat
      /\ mTokens'[n] = t
      /\ \A i \in 1..Len(mTokens) : mTokens'[i] = mTokens[i]
      /\ \A p \in Int : CharAt(p)' = CharAt(p)
      /\ mSize' = mSize
  BY AddsToken DEF Inv
<1>2. /\ Read \subseteq 1..Len(mTokens) /\ n \notin Read
      /\ Read' = Read \cup {n}
      /\ \A i \in Read : mTokens'[i] = mTokens[i]
  <2> HIDE DEF n
  <2>0. n = Len(mTokens) + 1
    BY DEF n
  <2> QED
    BY <1>1, <2>0 DEF Read
<1>3. \A i \in 1..Len(mTokens) : /\ mTokens[i].start \in 0..mSize /\ mTokens[i].len \in 0..mSize
                                 /\ mSize \in Nat
  BY TokensAre DEF Inv
<1>4. Shape' <=> mCurrent' \in 0..mSize /\ start' \in 0..mSize
                 /\ mode' \in {"scan", "comment", "string", "done"}
  <2>1. src' \in Seq(STRING)
    BY DEF Inv, Shape
  <2>2. mTokens' \in Seq([type : TokenType, start : 0..mSize, len : 0..mSize])
    BY DEF Inv, Shape
  <2> QED
    BY <1>1, <2>1, <2>2 DEF Shape
<1>5. \A i \in Read : EndOf(i)' = EndOf(i) /\ EndOf(i) <= Reached
  <2>1. \A i \in Read : EndOf(i) <= Reached
    BY DEF Inv, Before
  <2> QED
    BY <1>2, <2>1 DEF EndOf
<1>6. Apart'
  <2> SUFFICES ASSUME NEW i \in Read', NEW j \in Read', i < j
               PROVE  EndOf(i)' <= mTokens'[j].start
    BY DEF Apart
  <2>1. CASE j \in Read
    <3>1. i \in Read
      BY <1>1, <1>2, <2>1
    <3> QED
      BY <1>2, <1>5, <2>1, <3>1 DEF Inv, Apart
  <2>2. CASE j = n
    <3>1. i \in Read
      BY <1>1, <1>2, <2>2
    <3>2. mTokens'[j].start = t.start /\ t.start \in Nat /\ Reached \in Nat
      BY <1>1, <2>2 DEF Inv, Shape, Reached
    <3>3. EndOf(i)' <= Reached /\ EndOf(i)' \in Nat
      BY <1>2, <1>3, <1>5, <3>1 DEF EndOf
    <3> QED
      BY <3>2, <3>3
  <2> QED
    BY <1>2, <2>1, <2>2
<1>7. WholeWords'
  <2> SUFFICES ASSUME NEW i \in Read'
               PROVE  Whole(i)'
    BY DEF WholeWords, Whole, EndOf
  <2>1. CASE i \in Read
    <3>1. mTokens'[i] = mTokens[i] /\ Whole(i)
      BY <1>2, <2>1 DEF Inv, WholeWords, Whole, EndOf
    <3>2. CharAt(EndOf(i))' = CharAt(EndOf(i))
      BY <3>1 DEF CharAt, mSize, EndOf
    <3> QED
      BY <3>1, <3>2 DEF Whole
  <2>2. CASE i = n
    <3>1. mTokens'[i] = t
      BY <1>1, <2>2
    <3>2. CharAt(EndOf(i))' = CharAt(t.start + t.len)
      BY <3>1 DEF CharAt, mSize, EndOf
    <3> QED
      BY <3>1, <3>2 DEF Whole
  <2> QED
    BY <1>2, <2>1, <2>2
<1>8. ASSUME NEW p \in Nat, Covered(p)
      PROVE  Covered(p)'
  <2>1. CASE \E i \in Read : p \in Places(i)
    BY <1>2, <2>1 DEF Covered, Places
  <2>2. CASE CharAt(p) \in Blank \cup {"'", "\""}
    <3>1. CharAt(p)' = CharAt(p)
      BY <1>1
    <3> QED
      BY <2>2, <3>1 DEF Covered
  <2>3. CASE InComment(p)
    <3>1. \A q \in Nat : CharAt(q)' = CharAt(q)
      BY <1>1
    <3>2. PICK q \in 0..p : CharAt(q) = "#" /\ \A r \in q..p : CharAt(r) # "\n"
      BY <2>3 DEF InComment
    <3>3. CharAt(q)' = CharAt(q) /\ \A r \in q..p : CharAt(r)' = CharAt(r)
      BY <3>1
    <3>4. InComment(p)'
      BY <3>2, <3>3 DEF InComment
    <3> QED
      BY <3>4 DEF Covered
  <2>4. CASE \E i \in Read : mTokens[i].type = "Char" /\ p = mTokens[i].start + 1
    BY <1>2, <2>4 DEF Covered
  <2> QED
    BY <1>8, <2>1, <2>2, <2>3, <2>4 DEF Covered
<1> QED
  BY <1>1, <1>2, <1>4, <1>5, <1>6, <1>7, <1>8

(* A token scanned outside comments and strings keeps the invariant if it  *)
(* lies behind the blanks and, with what follows it, covers what was read. *)
LEMMA Scans ==
  ASSUME Inv, Scanning, UNCHANGED <<src, mode, start, c>>,
         mCurrent' \in AfterBlanks..mSize,
         NEW t \in [type : TokenType, start : 0..mSize, len : 0..mSize],
         mTokens' = Append(mTokens, t), t.type # "EndOfFile", AfterBlanks <= t.start,
         t.type = "Word" => CharAt(t.start + t.len) \notin Letter \cup Digit,
         t.type \in {"Int", "Float"} => CharAt(t.start + t.len) \notin Digit \cup {"."},
         mCurrent' < mSize => t.start + t.len <= mCurrent',
         \A p \in AfterBlanks..(mCurrent' - 1) : \/ p \in t.start..(t.start + t.len - 1)
                                                 \/ CharAt(p) = "'"
                                                 \/ t.type = "Char" /\ p = t.start + 1
  PROVE  Inv'
<1> DEFINE n == Len(mTokens) + 1
<1>1. /\ mSize \in Nat /\ mCurrent \in Nat /\ mCurrent < mSize /\ mode = "scan"
      /\ Reached = mCurrent /\ Reached' = mCurrent'
  BY DEF Inv, Shape, Scanning, mSize, Reached
<1>2. /\ AfterBlanks \in mCurrent..(mSize - 1)
      /\ \A r \in mCurrent..(AfterBlanks - 1) : CharAt(r) \in Blank
  BY AfterBlanksIs DEF Inv
<1>3. t.start \in Nat /\ t.len \in Nat
  OBVIOUS
<1>4. Reached < mSize /\ Reached <= t.start
  BY <1>1, <1>2, <1>3
<1>5. /\ Shape' <=> mCurrent' \in 0..mSize /\ start' \in 0..mSize
                     /\ mode' \in {"scan", "comment", "string", "done"}
      /\ WholeWords' /\ Apart'
      /\ \A p \in Nat : Covered(p) => Covered(p)'
      /\ Read' = Read \cup {n}
      /\ mTokens'[n] = t
      /\ \A i \in Read : EndOf(i)' <= Reached
  BY <1>4, NextToken
<1>6. /\ \A p \in Int : CharAt(p)' = CharAt(p)
      /\ mSize' = mSize /\ Len(mTokens) \in Nat
  BY AddsToken DEF Inv
<1>7. Shape'
  BY <1>1, <1>2, <1>5 DEF Inv, Shape
<1>8. Quoted' /\ Commented'
  BY <1>1 DEF Quoted, Commented
<1>9. Before'
  <2> SUFFICES ASSUME mCurrent' < mSize, NEW i \in Read'
               PROVE  EndOf(i)' <= mCurrent'
    BY <1>1, <1>6 DEF Before
  <2>1. CASE i \in Read
    <3>1. EndOf(i)' <= mCurrent /\ EndOf(i)' \in Int
      <4>1. i \in 1..Len(mTokens) /\ mTokens'[i] = mTokens[i]
        BY <2>1, AddsToken DEF Inv, Read
      <4> QED
        BY <1>1, <1>5, <2>1, <4>1, TokensAre DEF Inv, EndOf
    <3> QED
      BY <1>1, <1>2, <3>1
  <2>2. CASE i = n
    BY <1>5, <2>2 DEF EndOf
  <2> QED
    BY <1>5, <2>1, <2>2
<1>10. AllCovered'
  <2> SUFFICES ASSUME NEW p \in 0..(mCurrent' - 1)
               PROVE  Covered(p)'
    BY <1>1 DEF AllCovered
  <2>1. p \in Nat /\ AfterBlanks \in Int /\ mCurrent' \in Int
    BY <1>1, <1>2
  <2>2. CASE p < mCurrent
    <3>1. Covered(p)
      BY <1>1, <2>1, <2>2 DEF Inv, AllCovered
    <3> QED
      BY <1>5, <2>1, <3>1
  <2>3. CASE mCurrent <= p /\ p < AfterBlanks
    <3>1. CharAt(p)' \in Blank
      BY <1>1, <1>2, <1>6, <2>1, <2>3
    <3> QED
      BY <3>1 DEF Covered
  <2>4. CASE AfterBlanks <= p
    <3>1. CASE p \in t.start..(t.start + t.len - 1)
      <4>1. PICK k : k = n
        OBVIOUS
      <4>2. k \in Read' /\ mTokens'[k] = t
        BY <1>5, <4>1
      <4>3. Places(k)' = t.start..(t.start + t.len - 1)
        BY <4>2 DEF Places
      <4> QED
        BY <3>1, <4>2, <4>3 DEF Covered
    <3>2. CASE CharAt(p) = "'"
      <4>1. CharAt(p)' = CharAt(p)
        BY <1>6, <2>1
      <4>2. CharAt(p)' \in Blank \cup {"'", "\""}
        BY <3>2, <4>1
      <4> QED
        BY <4>2 DEF Covered
    <3>3. CASE t.type = "Char" /\ p = t.start + 1
      BY <1>5, <3>3 DEF Covered
    <3> QED
      BY <2>1, <2>4, <3>1, <3>2, <3>3
  <2> QED
    BY <1>1, <2>1, <2>2, <2>3, <2>4
<1> QED
  BY <1>5, <1>7, <1>8, <1>9, <1>10 DEF Inv

-----------------------------------------------------------------------------
(* A word is scanned to the first character that is none of a word.        *)
LEMMA WordKeepsInv == ASSUME NulEndsWords, Inv, TokenizeWord PROVE Inv'
<1> DEFINE a == AfterBlanks
           q == Past(Letter \cup Digit, a)
           t == [type |-> "Word", start |-> a, len |-> q - a]
<1>1. mSize \in Nat /\ mCurrent \in Nat /\ Scanning
  BY DEF Inv, Shape, mSize, TokenizeWord
<1>2. a \in mCurrent..(mSize - 1)
  BY <1>1, AfterBlanksIs DEF Inv
<1>3. q \in a..mSize /\ CharAt(q) \notin Letter \cup Digit
  <2>1. a \in 0..mSize /\ src \in Seq(STRING) /\ "NUL" \notin Letter \cup Digit
    BY <1>1, <1>2 DEF Inv, Shape, NulEndsWords
  <2> HIDE DEF a
  <2> QED
    BY <2>1, PastIs
<1>4. mCurrent' = q /\ mTokens' = Append(mTokens, t) /\ UNCHANGED <<src, mode, start, c>>
  BY DEF TokenizeWord, Token
<1>5. /\ t \in [type : TokenType, start : 0..mSize, len : 0..mSize]
      /\ t.type = "Word" /\ t.start = a /\ t.start + t.len = q
  <2> HIDE DEF a, q
  <2> QED
    BY <1>1, <1>2, <1>3 DEF TokenType
<1>6. \A p \in a..(mCurrent' - 1) : p \in t.start..(t.start + t.len - 1)
  BY <1>4, <1>5
<1>7. mCurrent' \in a..mSize /\ a <= t.start /\ (mCurrent' < mSize => t.start + t.len <= mCurrent')
  <2> HIDE DEF a, q
  <2> QED
    BY <1>1, <1>2, <1>3, <1>4, <1>5
<1> HIDE DEF t, q
<1> QED
  BY <1>1, <1>3, <1>4, <1>5, <1>6, <1>7, Scans

(* A number is scanned to the first character that is no digit and no dot. *)
LEMMA NumberKeepsInv == ASSUME NulEndsWords, Inv, TokenizeNumber PROVE Inv'
<1> DEFINE a == AfterBlanks
           q == Past(Digit \cup {"."}, a)
<1>1. mSize \in Nat /\ mCurrent \in Nat /\ Scanning
  BY DEF Inv, Shape, mSize, TokenizeNumber
<1>2. a \in mCurrent..(mSize - 1)
  BY <1>1, AfterBlanksIs DEF Inv
<1>3. q \in a..mSize /\ CharAt(q) \notin Digit \cup {"."}
  <2>1. a \in 0..mSize /\ src \in Seq(STRING) /\ "NUL" \notin Digit \cup {"."}
    BY <1>1, <1>2 DEF Inv, Shape, NulEndsWords
  <2> HIDE DEF a
  <2> QED
    BY <2>1, PastIs
<1>4. PICK type \in {"Int", "Float"} :
        mTokens' = Append(mTokens, [type |-> type, start |-> a, len |-> q - a])
  <2> DEFINE isFloat == \E i \in a..(mCurrent' - 1) : CharAt(i) = "."
  <2>1. mCurrent' = q
    BY DEF TokenizeNumber
  <2>2. mTokens' = Append(mTokens, [type |-> IF isFloat THEN "Float" ELSE "Int",
                                    start |-> a, len |-> mCurrent' - a])
    BY DEF TokenizeNumber, Token
  <2>3. (IF isFloat THEN "Float" ELSE "Int") \in {"Int", "Float"}
    OBVIOUS
  <2> HIDE DEF a, q, isFloat
  <2> QED
    BY <2>1, <2>2, <2>3
<1> DEFINE t == [type |-> type, start |-> a, len |-> q - a]
<1>5. mCurrent' = q /\ mTokens' = Append(mTokens, t) /\ UNCHANGED <<src, mode, start, c>>
  BY <1>4 DEF TokenizeNumber
<1>6. /\ t \in [type : TokenType, start : 0..mSize, len : 0..mSize]
      /\ t.type \in {"Int", "Float"} /\ t.start = a /\ t.start + t.len = q
  <2> HIDE DEF a, q
  <2> QED
    BY <1>1, <1>2, <1>3 DEF TokenType
<1>7. \A p \in a..(mCurrent' - 1) : p \in t.start..(t.start + t.len - 1)
  BY <1>5, <1>6
<1>8. mCurrent' \in a..mSize /\ a <= t.start /\ (mCurrent' < mSize => t.start + t.len <= mCurrent')
  <2> HIDE DEF a, q
  <2> QED
    BY <1>1, <1>2, <1>3, <1>5, <1>6
<1> HIDE DEF t, q
<1> QED
  BY <1>1, <1>3, <1>5, <1>6, <1>7, <1>8, Scans

(* next() moves on by n places, or as many as are left.                    *)
LEMMA AfterIs ==
  ASSUME Shape, NEW i \in 0..mSize, NEW n \in Nat
  PROVE  /\ After(i, n) \in i..mSize /\ mSize \in Nat
         /\ After(i, n) <= i + n
         /\ i + n <= mSize => After(i, n) = i + n
         /\ i + n >= mSize => After(i, n) = mSize
<1>1. mSize \in Nat
  BY DEF Shape, mSize
<1> QED
  BY <1>1 DEF After

(* Of the three characters taken for a character literal, the first is a   *)
(* quote, the second the token, and the third comes right behind it.       *)
LEMMA CharKeepsInv == ASSUME Inv, TokenizeChar PROVE Inv'
<1> DEFINE a == AfterBlanks
           t == [type |-> "Char", start |-> After(a, 1), len |-> 1]
<1>1. mSize \in Nat /\ mCurrent \in Nat /\ Scanning
  BY DEF Inv, Shape, mSize, TokenizeChar
<1>2. a \in mCurrent..(mSize - 1) /\ a \in 0..mSize
  BY <1>1, AfterBlanksIs DEF Inv
<1>3. After(a, 1) = a + 1
  <2> HIDE DEF a
  <2> QED
    BY <1>1, <1>2, AfterIs DEF Inv
<1>4. /\ mCurrent' \in a..mSize /\ mCurrent' <= a + 3
      /\ mCurrent' = mSize \/ mCurrent' = a + 3
  <2> HIDE DEF a
  <2>1. mCurrent' = After(a, 3)
    BY DEF TokenizeChar, a
  <2> QED
    BY <1>1, <1>2, <2>1, AfterIs DEF Inv
<1>5. mTokens' = Append(mTokens, t) /\ UNCHANGED <<src, mode, start, c>> /\ CharAt(a) = "'"
  BY DEF TokenizeChar, Token
<1>6. /\ t \in [type : TokenType, start : 0..mSize, len : 0..mSize]
      /\ t.type = "Char" /\ t.start = a + 1 /\ t.len = 1
  <2> HIDE DEF a
  <2> QED
    BY <1>1, <1>2, <1>3 DEF TokenType
<1>7. a <= t.start /\ (mCurrent' < mSize => t.start + t.len <= mCurrent')
  <2> HIDE DEF a, t
  <2> QED
    BY <1>1, <1>2, <1>4, <1>6
<1>8. ASSUME NEW p, p \in a..(mCurrent' - 1)
      PROVE  \/ p \in t.start..(t.start + t.len - 1)
             \/ CharAt(p) = "'"
             \/ t.type = "Char" /\ p = t.start + 1
  <2> HIDE DEF t
  <2>2. a \in Int
    BY <1>1, <1>2
  <2>3. PICK e : e = mCurrent'
    OBVIOUS
  <2>4. e \in a..mSize /\ e <= a + 3
    BY <1>4, <2>3
  <2>5. p \in a..(e - 1)
    BY <1>8, <2>3
  <2>1. p = a \/ p = a + 1 \/ p = a + 2
    BY <1>1, <2>2, <2>4, <2>5
  <2> QED
    BY <1>2, <1>5, <1>6, <2>1
<1>9. t.type \notin {"EndOfFile", "Word", "Int", "Float"}
  BY <1>6
<1> HIDE DEF t
<1> QED
  BY <1>1, <1>4, <1>5, <1>6, <1>7, <1>8, <1>9, Scans

(* Any other character is a token of its own.                              *)
LEMMA SymbolKeepsInv == ASSUME Inv, TokenizeSymbol PROVE Inv'
<1> DEFINE a == AfterBlanks
           t == [type |-> "Symbol", start |-> a, len |-> 1]
<1>1. mSize \in Nat /\ mCurrent \in Nat /\ Scanning
  <2>1. Scanning
    BY DEF TokenizeSymbol
  <2> QED
    BY <2>1 DEF Inv, Shape, mSize
<1>2. a \in mCurrent..(mSize - 1)
  BY <1>1, AfterBlanksIs DEF Inv
<1>3. mCurrent' = a + 1 /\ mTokens' = Append(mTokens, t) /\ UNCHANGED <<src, mode, start, c>>
  BY DEF TokenizeSymbol, Token
<1>4. /\ t \in [type : TokenType, start : 0..mSize, len : 0..mSize]
      /\ t.type = "Symbol" /\ t.start = a /\ t.start + t.len = a + 1
  <2> HIDE DEF a
  <2> QED
    BY <1>1, <1>2 DEF TokenType
<1>5. \A p \in a..(mCurrent' - 1) : p \in t.start..(t.start + t.len - 1)
  BY <1>3, <1>4
<1>6. mCurrent' \in a..mSize /\ a <= t.start /\ (mCurrent' < mSize => t.start + t.len <= mCurrent')
  <2> HIDE DEF a, t
  <2> QED
    BY <1>1, <1>2, <1>3, <1>4
<1>7. t.type \notin {"EndOfFile", "Word", "Int", "Float"}
  BY <1>4
<1> HIDE DEF t
<1> QED
  BY <1>1, <1>3, <1>4, <1>5, <1>6, <1>7, Scans

(* What a step that adds no token leaves as it was.                        *)
LEMMA NoToken ==
  ASSUME Inv, src' = src, mTokens' = mTokens
  PROVE  /\ mSize' = mSize /\ mSize \in Nat
         /\ \A i : CharAt(i)' = CharAt(i)
         /\ Read' = Read
         /\ \A i : EndOf(i)' = EndOf(i)
         /\ \A p : Covered(p) => Covered(p)'
         /\ WholeWords' /\ Apart'
<1>1. mSize' = mSize /\ mSize \in Nat /\ \A i : CharAt(i)' = CharAt(i)
  BY DEF Inv, Shape, mSize, CharAt
<1>2. Read' = Read /\ \A i : EndOf(i)' = EndOf(i) /\ Places(i)' = Places(i)
  BY DEF Read, EndOf, Places
<1>3. \A p : Covered(p) => Covered(p)'
  BY <1>1, <1>2 DEF Covered, InComment
<1>4. \A i : Whole(i)' <=> Whole(i)
  BY <1>1, <1>2 DEF Whole, CharAt, mSize, EndOf
<1>5. WholeWords' /\ Apart'
  <2>1. WholeWords
    BY DEF Inv
  <2>2. \A i \in Read : Whole(i)
    BY <2>1 DEF WholeWords, Whole, EndOf
  <2>3. \A i \in Read' : Whole(i)'
    BY <1>2, <1>4, <2>2
  <2>4. WholeWords'
    BY <2>3 DEF WholeWords, Whole, EndOf
  <2>5. Apart'
    BY <1>2 DEF Inv, Apart
  <2> QED
    BY <2>4, <2>5
<1> QED
  BY <1>1, <1>2, <1>3, <1>5

(* A comment begins behind the blanks.                                     *)
LEMMA BeginCommentKeepsInv == ASSUME Inv, BeginComment PROVE Inv'
<1> DEFINE a == AfterBlanks
<1>1. Scanning /\ mode = "scan" /\ mCurrent < mSize
  <2>1. Scanning
    BY DEF BeginComment
  <2> QED
    BY <2>1 DEF Scanning
<1>2. /\ mode' = "comment" /\ mCurrent' = a /\ CharAt(a) = "#"
      /\ src' = src /\ mTokens' = mTokens /\ start' = start /\ c' = c
  BY DEF BeginComment
<1>3. /\ mSize' = mSize /\ mSize \in Nat
      /\ \A i : CharAt(i)' = CharAt(i)
      /\ Read' = Read
      /\ \A i : EndOf(i)' = EndOf(i)
      /\ \A p : Covered(p) => Covered(p)'
      /\ WholeWords' /\ Apart'
  BY <1>2, NoToken
<1>4. /\ a \in mCurrent..(mSize - 1) /\ mCurrent \in Nat
      /\ \A r \in mCurrent..(a - 1) : CharAt(r) \in Blank
  BY <1>1, AfterBlanksIs DEF Inv, Shape
<1>5. Reached = mCurrent /\ Reached' = a
  BY <1>1, <1>2 DEF Reached
<1> HIDE DEF a
<1>6. Shape'
  BY <1>2, <1>3, <1>4 DEF Inv, Shape
<1>7. Quoted'
  BY <1>2 DEF Quoted
<1>8. Before'
  <2> SUFFICES ASSUME NEW i \in Read
               PROVE  EndOf(i) <= a
    BY <1>3, <1>5 DEF Before
  <2>1. EndOf(i) <= mCurrent
    BY <1>1, <1>5 DEF Inv, Before
  <2>2. EndOf(i) \in Int
    BY TokensAre DEF Inv, Read, EndOf
  <2> QED
    BY <1>3, <1>4, <2>1, <2>2
<1>9. AllCovered'
  <2> SUFFICES ASSUME NEW p \in 0..(a - 1)
               PROVE  Covered(p)'
    BY <1>5 DEF AllCovered
  <2>1. CASE p < mCurrent
    <3>1. p \in 0..(mCurrent - 1)
      BY <1>4, <2>1
    <3> QED
      BY <1>3, <1>5, <3>1 DEF Inv, AllCovered
  <2>2. CASE mCurrent <= p
    <3>1. p \in mCurrent..(a - 1)
      BY <1>4, <2>2
    <3>2. Covered(p)
      BY <1>4, <3>1 DEF Covered
    <3> QED
      BY <1>3, <3>2
  <2> QED
    BY <1>4, <2>1, <2>2
<1>10. Commented'
  <2>1. a \in 0..a /\ \A r \in a..(a - 1) : FALSE
    BY <1>4
  <2>2. \E q \in 0..a : CharAt(q) = "#" /\ \A r \in q..(a - 1) : CharAt(r) # "\n"
    BY <1>2, <2>1
  <2>3. \E q \in 0..a : CharAt(q)' = "#" /\ \A r \in q..(a - 1) : CharAt(r)' # "\n"
    BY <1>3, <2>2
  <2> QED
    BY <1>2, <2>3 DEF Commented
<1> QED
  BY <1>3, <1>6, <1>7, <1>8, <1>9, <1>10 DEF Inv

(* A comment is read up to its newline; what is read of it is covered.     *)
LEMMA ReadCommentKeepsInv == ASSUME Inv, ReadComment PROVE Inv'
<1>1. /\ mode = "comment" /\ mode' \in {"comment", "scan"}
      /\ src' = src /\ mTokens' = mTokens /\ start' = start /\ c' = c
  BY DEF ReadComment
<1>2. /\ mSize' = mSize /\ mSize \in Nat
      /\ \A i : CharAt(i)' = CharAt(i)
      /\ Read' = Read
      /\ \A i : EndOf(i)' = EndOf(i)
      /\ \A p : Covered(p) => Covered(p)'
      /\ WholeWords' /\ Apart'
  BY <1>1, NoToken
<1>3. mCurrent \in 0..mSize /\ Reached = mCurrent /\ Reached' = mCurrent'
  BY <1>1 DEF Inv, Shape, Reached
<1>4. \/ mCurrent' = mCurrent
      \/ /\ mCurrent' = mCurrent + 1 /\ mCurrent < mSize /\ mode' = "comment"
         /\ CharAt(mCurrent) # "\n"
  <2>1. CASE CharAt(mCurrent) = "\n"
    BY <2>1 DEF ReadComment
  <2>2. CASE CharAt(mCurrent) # "\n"
    <3>1. mCurrent' = After(mCurrent, 1) /\ mode' = mode
      BY <2>2 DEF ReadComment
    <3>2. CASE mCurrent = mSize
      BY <1>2, <1>3, <3>1, <3>2, AfterIs DEF Inv
    <3>3. CASE mCurrent < mSize
      <4>1. After(mCurrent, 1) = mCurrent + 1
        BY <1>2, <1>3, <3>3, AfterIs DEF Inv
      <4> QED
        BY <1>1, <2>2, <3>1, <3>3, <4>1
    <3> QED
      BY <1>2, <1>3, <3>2, <3>3
  <2> QED
    BY <2>1, <2>2
<1>5. mCurrent' \in mCurrent..mSize
  BY <1>2, <1>3, <1>4
<1>6. Shape'
  BY <1>1, <1>2, <1>3, <1>5 DEF Inv, Shape
<1>7. Quoted'
  BY <1>1 DEF Quoted
<1>8. Before'
  <2> SUFFICES ASSUME mCurrent' < mSize, NEW i \in Read
               PROVE  EndOf(i) <= mCurrent'
    BY <1>2, <1>3 DEF Before
  <2>1. EndOf(i) \in Int
    BY TokensAre DEF Inv, Read, EndOf
  <2>2. mCurrent < mSize
    BY <1>2, <1>3, <1>5
  <2>3. EndOf(i) <= mCurrent
    BY <1>3, <2>2 DEF Inv, Before
  <2> QED
    BY <1>2, <1>3, <1>5, <2>1, <2>3
<1>9. PICK q \in 0..mCurrent : CharAt(q) = "#" /\ \A r \in q..(mCurrent - 1) : CharAt(r) # "\n"
  BY <1>1 DEF Inv, Commented
<1>10. CASE mCurrent' = mCurrent
  <2>1. AllCovered'
    BY <1>2, <1>3, <1>10 DEF Inv, AllCovered
  <2>2. Commented'
    <3>1. \E o \in 0..mCurrent : CharAt(o)' = "#" /\ \A r \in o..(mCurrent - 1) : CharAt(r)' # "\n"
      BY <1>2, <1>9
    <3> QED
      BY <1>10, <3>1 DEF Commented
  <2> QED
    BY <1>2, <1>6, <1>7, <1>8, <2>1, <2>2 DEF Inv
<1>11. CASE mCurrent' # mCurrent
  <2>1. mCurrent' = mCurrent + 1 /\ CharAt(mCurrent) # "\n"
    BY <1>4, <1>11
  <2>2. \A r \in q..mCurrent : CharAt(r) # "\n"
    <3>1. ASSUME NEW r \in q..mCurrent
          PROVE  r = mCurrent \/ r \in q..(mCurrent - 1)
      BY <1>2, <1>3
    <3> QED
      BY <1>9, <2>1, <3>1
  <2>3. AllCovered'
    <3> SUFFICES ASSUME NEW p \in 0..mCurrent
                 PROVE  Covered(p)'
      <4>1. Reached' - 1 = mCurrent
        BY <1>2, <1>3, <2>1
      <4> QED
        BY <4>1 DEF AllCovered
    <3>1. CASE p = mCurrent
      <4>1. InComment(p)
        BY <1>9, <2>2, <3>1 DEF InComment
      <4> QED
        BY <1>2, <4>1 DEF Covered
    <3>2. CASE p # mCurrent
      <4>1. p \in 0..(mCurrent - 1)
        BY <1>2, <1>3, <3>2
      <4> QED
        BY <1>2, <1>3, <4>1 DEF Inv, AllCovered
    <3> QED
      BY <3>1, <3>2
  <2>4. Commented'
    <3>1. PICK e : e = mCurrent'
      OBVIOUS
    <3>2. e = mCurrent + 1
      BY <2>1, <3>1
    <3>3. q \in 0..e /\ e - 1 = mCurrent
      BY <1>2, <1>3, <3>2
    <3>4. \E o \in 0..e : CharAt(o)' = "#" /\ \A r \in o..(e - 1) : CharAt(r)' # "\n"
      BY <1>2, <1>9, <2>2, <3>3
    <3> QED
      BY <3>1, <3>4 DEF Commented
  <2> QED
    BY <1>2, <1>6, <1>7, <1>8, <2>3, <2>4 DEF Inv
<1> QED
  BY <1>10, <1>11

(* A string begins behind its quote.                                       *)
LEMMA BeginStringKeepsInv == ASSUME Inv, BeginString PROVE Inv'
<1> DEFINE a == AfterBlanks
<1>1. Scanning /\ mode = "scan" /\ mCurrent < mSize
  <2>1. Scanning
    BY DEF BeginString
  <2> QED
    BY <2>1 DEF Scanning
<1>2. /\ mode' = "string" /\ src' = src /\ mTokens' = mTokens /\ CharAt(a) = "\""
      /\ start' = After(a, 1) /\ mCurrent' = After(start', 1)
  BY DEF BeginString, After, mSize
<1>3. /\ mSize' = mSize /\ mSize \in Nat
      /\ \A i : CharAt(i)' = CharAt(i)
      /\ Read' = Read
      /\ \A i : EndOf(i)' = EndOf(i)
      /\ \A p : Covered(p) => Covered(p)'
      /\ WholeWords' /\ Apart'
  BY <1>2, NoToken
<1>4. /\ a \in mCurrent..(mSize - 1) /\ mCurrent \in Nat
      /\ \A r \in mCurrent..(a - 1) : CharAt(r) \in Blank
  BY <1>1, AfterBlanksIs DEF Inv, Shape
<1>5. PICK s \in 0..mSize : s = start' /\ s = a + 1
  <2> HIDE DEF a
  <2>1. After(a, 1) = a + 1 /\ a + 1 \in 0..mSize
    BY <1>3, <1>4, AfterIs DEF Inv
  <2> QED
    BY <1>2, <2>1
<1>6. PICK m \in s..mSize : m = mCurrent' /\ m = After(s, 1)
  <2>1. mCurrent' = After(s, 1)
    BY <1>2, <1>5
  <2>2. After(s, 1) \in s..mSize
    BY AfterIs DEF Inv
  <2> QED
    BY <2>1, <2>2
<1>7. Reached = mCurrent /\ Reached' = s
  BY <1>1, <1>2, <1>5 DEF Reached
<1>8. c' = CharAt(s)
  <2>1. c' = CharAt(start')
    BY DEF BeginString
  <2> QED
    BY <1>5, <2>1
<1> HIDE DEF a
<1>9. Shape'
  <2>1. m \in 0..mSize
    BY <1>3, <1>5, <1>6
  <2> QED
    BY <1>2, <1>3, <1>5, <1>6, <2>1 DEF Inv, Shape
<1>10. Quoted'
  <2>1. ASSUME c' = "\""
        PROVE  s < m /\ CharAt(m - 1) = "\""
    <3>1. s < mSize
      BY <1>3, <1>8, <2>1 DEF CharAt
    <3>2. m = s + 1
      BY <1>3, <1>6, <3>1, AfterIs DEF Inv
    <3>3. s < m /\ m - 1 = s
      BY <1>3, <3>2
    <3> QED
      BY <1>8, <2>1, <3>3
  <2>2. s <= m
    BY <1>3, <1>6
  <2>3. CharAt(mCurrent - 1)' = CharAt(m - 1)
    BY <1>2, <1>6 DEF CharAt, mSize
  <2> QED
    BY <1>5, <1>6, <2>1, <2>2, <2>3 DEF Quoted
<1>11. Before'
  <2> SUFFICES ASSUME NEW i \in Read
               PROVE  EndOf(i) <= s
    BY <1>3, <1>7 DEF Before
  <2>1. EndOf(i) <= mCurrent
    BY <1>1, <1>7 DEF Inv, Before
  <2>2. EndOf(i) \in Int
    BY TokensAre DEF Inv, Read, EndOf
  <2> QED
    BY <1>3, <1>4, <1>5, <2>1, <2>2
<1>12. AllCovered'
  <2> SUFFICES ASSUME NEW p \in 0..(s - 1)
               PROVE  Covered(p)'
    BY <1>7 DEF AllCovered
  <2>1. CASE p < mCurrent
    <3>1. p \in 0..(mCurrent - 1)
      BY <1>4, <2>1
    <3> QED
      BY <1>3, <1>7, <3>1 DEF Inv, AllCovered
  <2>2. CASE mCurrent <= p /\ p # a
    <3>1. p \in mCurrent..(a - 1)
      BY <1>3, <1>4, <1>5, <2>2
    <3>2. Covered(p)
      BY <1>4, <3>1 DEF Covered
    <3> QED
      BY <1>3, <3>2
  <2>3. CASE p = a
    BY <1>2, <1>3, <2>3 DEF Covered
  <2> QED
    BY <1>4, <2>1, <2>2, <2>3
<1>13. Commented'
  BY <1>2 DEF Commented
<1> QED
  BY <1>3, <1>9, <1>10, <1>11, <1>12, <1>13 DEF Inv

(* In a string characters are read, two at a time behind a backslash.      *)
LEMMA ReadStringKeepsInv == ASSUME Inv, ReadString PROVE Inv'
<1>1. /\ mode = "string" /\ mode' = "string"
      /\ src' = src /\ mTokens' = mTokens /\ start' = start /\ c' = CharAt(mCurrent)
      /\ mCurrent' = After(mCurrent, IF c' = "\\" THEN 2 ELSE 1)
  BY DEF ReadString, After, mSize
<1>2. /\ mSize' = mSize /\ mSize \in Nat
      /\ \A i : CharAt(i)' = CharAt(i)
      /\ Read' = Read
      /\ \A i : EndOf(i)' = EndOf(i)
      /\ \A p : Covered(p) => Covered(p)'
      /\ WholeWords' /\ Apart'
  BY <1>1, NoToken
<1>3. mCurrent \in 0..mSize /\ start \in 0..mSize /\ start <= mCurrent
  BY <1>1 DEF Inv, Shape, Quoted
<1>4. Reached = start /\ Reached' = start
  BY <1>1 DEF Reached
<1>5. PICK m \in mCurrent..mSize : m = mCurrent'
  BY <1>1, <1>3, AfterIs DEF Inv
<1>6. Shape'
  <2>1. m \in 0..mSize
    BY <1>2, <1>3, <1>5
  <2> QED
    BY <1>1, <1>2, <1>5, <2>1 DEF Inv, Shape
<1>7. Quoted'
  <2>1. ASSUME c' = "\""
        PROVE  start < m /\ CharAt(m - 1) = "\""
    <3>0. CharAt(mCurrent) = "\""
      BY <1>1, <2>1
    <3>1. mCurrent < mSize
      BY <1>2, <1>3, <3>0 DEF CharAt
    <3>2. m = After(mCurrent, 1)
      BY <1>1, <1>5, <2>1
    <3>3. m = mCurrent + 1
      <4>1. After(mCurrent, 1) = mCurrent + 1
        BY <1>2, <1>3, <3>1, AfterIs DEF Inv
      <4> QED
        BY <3>2, <4>1
    <3>4. start < m /\ m - 1 = mCurrent
      BY <1>2, <1>3, <3>3
    <3> QED
      BY <3>0, <3>4
  <2>2. start <= m
    BY <1>2, <1>3, <1>5
  <2>3. CharAt(mCurrent - 1)' = CharAt(m - 1)
    BY <1>1, <1>5 DEF CharAt, mSize
  <2> QED
    BY <1>1, <1>5, <2>1, <2>2, <2>3 DEF Quoted
<1>8. Before' /\ AllCovered'
  BY <1>2, <1>4 DEF Inv, Before, AllCovered
<1>9. Commented'
  BY <1>1 DEF Commented
<1> QED
  BY <1>2, <1>6, <1>7, <1>8, <1>9 DEF Inv

(* The closing quote ends the token before it.                             *)
LEMMA EndStringKeepsInv == ASSUME Inv, EndString PROVE Inv'
<1> DEFINE t == [type |-> "String", start |-> start, len |-> mCurrent - start - 1]
<1>1. /\ mode = "string" /\ mode' = "scan" /\ mTokens' = Append(mTokens, t)
      /\ src' = src /\ mCurrent' = mCurrent /\ start' = start
  BY DEF EndString, Token
<1>0. start < mCurrent /\ CharAt(mCurrent - 1) = "\""
  BY DEF Inv, Quoted, EndString
<1>2. /\ mCurrent \in 0..mSize /\ start \in 0..mSize /\ start < mCurrent /\ mSize \in Nat
  <2>1. start < mCurrent
    BY <1>0
  <2> QED
    BY <2>1 DEF Inv, Shape, mSize
<1>3. Reached = start /\ Reached' = mCurrent
  BY <1>1 DEF Reached
<1>4. /\ t \in [type : TokenType, start : 0..mSize, len : 0..mSize]
      /\ t.type = "String" /\ t.start = start /\ t.start + t.len = mCurrent - 1
  BY <1>2 DEF TokenType
<1>5. Reached < mSize /\ Reached <= t.start
  BY <1>2, <1>3, <1>4
<1>6. t.type \notin {"EndOfFile", "Word", "Int", "Float"}
  BY <1>4
<1> HIDE DEF t
<1>7. /\ Shape' <=> mCurrent' \in 0..mSize /\ start' \in 0..mSize
                     /\ mode' \in {"scan", "comment", "string", "done"}
      /\ WholeWords' /\ Apart'
      /\ \A p \in Nat : Covered(p) => Covered(p)'
      /\ Read' = Read \cup {Len(mTokens) + 1}
      /\ mTokens'[Len(mTokens) + 1] = t
      /\ \A i \in Read : EndOf(i)' <= Reached
  BY <1>1, <1>4, <1>5, <1>6, NextToken
<1>8. /\ \A p \in Int : CharAt(p)' = CharAt(p)
      /\ mSize' = mSize /\ Len(mTokens) \in Nat
      /\ \A i \in 1..Len(mTokens) : mTokens'[i] = mTokens[i]
  BY <1>1, AddsToken DEF Inv
<1>9. Shape'
  BY <1>1, <1>2, <1>7
<1>10. Quoted' /\ Commented'
  BY <1>1 DEF Quoted, Commented
<1>11. Before'
  <2> SUFFICES ASSUME NEW i \in Read'
               PROVE  EndOf(i)' <= mCurrent
    BY <1>1, <1>3 DEF Before
  <2>1. CASE i \in Read
    <3>1. EndOf(i)' <= start /\ EndOf(i)' \in Int
      <4>1. i \in 1..Len(mTokens) /\ mTokens'[i] = mTokens[i]
        BY <1>8, <2>1 DEF Read
      <4> QED
        BY <1>3, <1>7, <2>1, <4>1, TokensAre DEF Inv, EndOf
    <3> QED
      BY <1>2, <3>1
  <2>2. CASE i = Len(mTokens) + 1
    <3>1. EndOf(i)' = mCurrent - 1
      BY <1>4, <1>7, <2>2 DEF EndOf
    <3> QED
      BY <1>2, <3>1
  <2> QED
    BY <1>7, <2>1, <2>2
<1>12. AllCovered'
  <2> SUFFICES ASSUME NEW p \in 0..(mCurrent - 1)
               PROVE  Covered(p)'
    BY <1>3 DEF AllCovered
  <2>1. CASE p < start
    <3>1. p \in 0..(start - 1)
      BY <1>2, <2>1
    <3> QED
      BY <1>3, <1>7, <3>1 DEF Inv, AllCovered
  <2>2. CASE start <= p /\ p < mCurrent - 1
    <3>1. PICK k : k = Len(mTokens) + 1
      OBVIOUS
    <3>2. k \in Read' /\ mTokens'[k] = t
      BY <1>7, <3>1
    <3>3. p \in t.start..(t.start + t.len - 1)
      BY <1>2, <1>4, <2>2
    <3>4. p \in Places(k)'
      BY <3>2, <3>3 DEF Places
    <3> QED
      BY <3>2, <3>4 DEF Covered
  <2>3. CASE p = mCurrent - 1
    <3>1. CharAt(p)' = CharAt(p)
      BY <1>2, <1>8
    <3>2. CharAt(p)' = "\""
      BY <1>0, <2>3, <3>1
    <3> QED
      BY <3>2 DEF Covered
  <2> QED
    BY <1>2, <2>1, <2>2, <2>3
<1> QED
  BY <1>7, <1>9, <1>10, <1>11, <1>12 DEF Inv

(* The token that ends the stream covers nothing.                          *)
LEMMA EndOfFileKeepsInv == ASSUME Inv, EndOfFile PROVE Inv'
<1> DEFINE t == [type |-> "EndOfFile", start |-> 0, len |-> 0]
           n == Len(mTokens) + 1
<1>1. /\ mode = "scan" /\ mode' = "done" /\ mTokens' = Append(mTokens, t)
      /\ src' = src /\ mCurrent' = mCurrent /\ start' = start
  BY DEF EndOfFile, Token
<1>2. /\ Len(mTokens') = n /\ Len(mTokens) \in Nat
      /\ mTokens'[n] = t
      /\ \A i \in 1..Len(mTokens) : mTokens'[i] = mTokens[i]
      /\ \A p \in Int : CharAt(p)' = CharAt(p)
      /\ mSize' = mSize
  BY <1>1, AddsToken DEF Inv
<1>3. t.type = "EndOfFile"
  OBVIOUS
<1>4. Read' = Read /\ \A i \in Read : mTokens'[i] = mTokens[i]
  <2>1. n \notin Read'
    BY <1>2, <1>3 DEF Read
  <2> QED
    BY <1>2, <2>1 DEF Read
<1>5. Shape'
  <2>1. mSize \in Nat
    BY DEF Inv, Shape, mSize
  <2>2. t \in [type : TokenType, start : 0..mSize, len : 0..mSize]
    BY <2>1 DEF TokenType
  <2>3. mTokens' \in Seq([type : TokenType, start : 0..mSize, len : 0..mSize])
    <3> HIDE DEF t
    <3> QED
      BY <1>1, <2>2 DEF Inv, Shape
  <2> QED
    BY <1>1, <1>2, <2>3 DEF Inv, Shape
<1>6. Reached = mCurrent /\ Reached' = mCurrent
  BY <1>1 DEF Reached
<1>7. \A i \in Read : EndOf(i)' = EndOf(i)
  BY <1>4 DEF EndOf
<1>8. Before' /\ Apart' /\ Quoted' /\ Commented'
  <2>1. Before'
    BY <1>2, <1>4, <1>6, <1>7 DEF Inv, Before
  <2>2. Apart'
    BY <1>4, <1>7 DEF Inv, Apart
  <2>3. Quoted' /\ Commented'
    BY <1>1 DEF Quoted, Commented
  <2> QED
    BY <2>1, <2>2, <2>3
<1>9. WholeWords'
  <2>1. WholeWords
    BY DEF Inv
  <2>2. \A i \in Read : Whole(i)
    BY <2>1 DEF WholeWords, Whole, EndOf
  <2>3. ASSUME NEW i \in Read
        PROVE  Whole(i)'
    <3>1. CharAt(EndOf(i))' = CharAt(EndOf(i))
      BY <1>1, <1>7 DEF CharAt, mSize
    <3> QED
      BY <1>4, <2>2, <3>1 DEF Whole
  <2>4. \A i \in Read' : Whole(i)'
    BY <1>4, <2>3
  <2> QED
    BY <2>4 DEF WholeWords, Whole, EndOf
<1>10. AllCovered'
  <2> SUFFICES ASSUME NEW p \in 0..(mCurrent - 1)
               PROVE  Covered(p)'
    BY <1>6 DEF AllCovered
  <2>1. Covered(p)
    BY <1>6 DEF Inv, AllCovered
  <2>2. \A q : CharAt(q)' = CharAt(q)
    BY <1>1 DEF CharAt, mSize
  <2>3. \A i \in Read : Places(i)' = Places(i)
    BY <1>4 DEF Places
  <2>4. CASE \E i \in Read : p \in Places(i)
    BY <1>4, <2>3, <2>4 DEF Covered
  <2>5. CASE CharAt(p) \in Blank \cup {"'", "\""} \/ InComment(p)
    BY <2>2, <2>5 DEF Covered, InComment
  <2>6. CASE \E i \in Read : mTokens[i].type = "Char" /\ p = mTokens[i].start + 1
    BY <1>4, <2>6 DEF Covered
  <2> QED
    BY <2>1, <2>4, <2>5, <2>6 DEF Covered
<1> QED
  BY <1>5, <1>8, <1>9, <1>10 DEF Inv

-----------------------------------------------------------------------------
(* Every text is begun in order, and every step keeps the invariant.       *)
LEMMA Starts == ASSUME src \in Seq(STRING), Init PROVE Inv
<1>1. mSize \in Nat
  BY DEF mSize
<1>2. Shape
  BY <1>1 DEF Init, Shape
<1>3. Read = {}
  BY DEF Init, Read
<1>4. WholeWords /\ Apart /\ Before
  BY <1>3 DEF WholeWords, Apart, Before
<1>5. Reached = 0
  BY DEF Init, Reached
<1>6. AllCovered /\ Quoted /\ Commented
  BY <1>5 DEF Init, AllCovered, Quoted, Commented
<1> QED
  BY <1>2, <1>4, <1>6 DEF Inv

(* Every step of the tokenizer keeps the invariant.                        *)
LEMMA KeepsInv == ASSUME NulEndsWords, Inv, Next PROVE Inv'
BY WordKeepsInv, NumberKeepsInv, CharKeepsInv, SymbolKeepsInv, BeginCommentKeepsInv,
   ReadCommentKeepsInv, BeginStringKeepsInv, ReadStringKeepsInv, EndStringKeepsInv,
   EndOfFileKeepsInv
   DEF Next

(* A step that leaves the tokenizer alone keeps the invariant.             *)
LEMMA StutterKeepsInv == ASSUME Inv, UNCHANGED vars PROVE Inv'
<1>1. /\ src' = src /\ mCurrent' = mCurrent /\ mTokens' = mTokens /\ mode' = mode
      /\ start' = start /\ c' = c
  BY DEF vars
<1>2. /\ mSize' = mSize
      /\ \A i : CharAt(i)' = CharAt(i)
      /\ Read' = Read
      /\ \A i : EndOf(i)' = EndOf(i)
      /\ \A p : Covered(p) => Covered(p)'
      /\ WholeWords' /\ Apart'
  BY <1>1, NoToken
<1>3. Reached' = Reached
  BY <1>1 DEF Reached
<1>4. Shape' /\ Quoted'
  BY <1>1, <1>2 DEF Inv, Shape, Quoted, CharAt, mSize
<1>5. Before' /\ AllCovered'
  BY <1>2, <1>3 DEF Inv, Before, AllCovered
<1>6. Commented'
  BY <1>1, <1>2 DEF Inv, Commented
<1> QED
  BY <1>2, <1>4, <1>5, <1>6 DEF Inv

(* What the invariant says of the properties.                              *)
LEMMA InvGivesTypes == ASSUME Inv PROVE TypeOK
  BY TokensAre DEF Inv, Shape, TypeOK

(* What the invariant says of the characters between the tokens.           *)
LEMMA InvGivesNothingLost == ASSUME Inv PROVE NothingLost
<1> SUFFICES ASSUME mode # "string"
             PROVE  /\ \A i, j \in Read : i < j => \A p \in Places(i), q \in Places(j) : p < q
                    /\ \A p \in 0..(mCurrent - 1) : Covered(p)
  BY DEF NothingLost, Covered, InComment
<1>1. \A p \in 0..(mCurrent - 1) : Covered(p)
  BY DEF Inv, AllCovered, Reached
<1>2. ASSUME NEW i \in Read, NEW j \in Read, i < j, NEW p \in Places(i), NEW q \in Places(j)
      PROVE  p < q
  <2>1. EndOf(i) <= mTokens[j].start
    BY <1>2 DEF Inv, Apart
  <2>2. /\ mTokens[i].start \in Nat /\ mTokens[i].len \in Nat
        /\ mTokens[j].start \in Nat /\ mTokens[j].len \in Nat
    BY TokensAre DEF Inv, Read
  <2>3. /\ p \in mTokens[i].start..(mTokens[i].start + mTokens[i].len - 1)
        /\ q \in mTokens[j].start..(mTokens[j].start + mTokens[j].len - 1)
    BY DEF Places
  <2> QED
    BY <2>1, <2>2, <2>3 DEF EndOf
<1> QED
  BY <1>1, <1>2

-----------------------------------------------------------------------------
(* The tokenizer never goes on once it is done.                            *)
LEMMA DoneStays == ASSUME Next PROVE mode # "done"
  BY DEF Next, Scanning, TokenizeWord, TokenizeNumber, TokenizeChar, TokenizeSymbol, BeginComment,
         ReadComment, BeginString, ReadString, EndString, EndOfFile

(* The stream it leaves ends in a token without text, and the texts of     *)
(* words and numbers are pieces of the source.                             *)
LEMMA StreamIs ==
  ASSUME NulEndsWords, Inv, Next, mode' = "done"
  PROVE  /\ Len(Stream') \in Nat \ {0}
         /\ Stream'[Len(Stream')].type = "EndOfFile" /\ Stream'[Len(Stream')].value = <<>>
         /\ \A i \in 1..Len(Stream') :
              Stream'[i].type \in {"Int", "Float", "Word"} => Stream'[i].value \in Seq(STRING)
<1> DEFINE t == [type |-> "EndOfFile", start |-> 0, len |-> 0]
<1>1. EndOfFile
  BY DEF Next, Scanning, TokenizeWord, TokenizeNumber, TokenizeChar, TokenizeSymbol, BeginComment,
         ReadComment, BeginString, ReadString, EndString
<1>2. mTokens' = Append(mTokens, t) /\ src' = src
  BY <1>1 DEF EndOfFile, Token
<1>3. /\ Len(mTokens') = Len(mTokens) + 1 /\ Len(mTokens) \in Nat
      /\ mTokens'[Len(mTokens) + 1] = t
  <2> HIDE DEF t
  <2> QED
    BY <1>2, AddsToken DEF Inv
<1>4. Inv'
  BY KeepsInv
<1>5. PICK n \in Nat \ {0} : n = Len(mTokens') /\ mTokens'[n] = t
  BY <1>3
<1>6. src \in Seq(STRING) /\ mSize \in Nat /\ mSize' = mSize
  BY <1>2 DEF Inv, Shape, mSize
<1>7. Stream' = [i \in 1..n |-> [type |-> mTokens'[i].type, value |-> GetValue(mTokens[i])']]
  BY <1>5 DEF Stream, Texts
<1> HIDE DEF t
<1>8. Len(Stream') = n
  BY <1>7
<1>9. \A i \in 1..n : /\ Stream'[i].type = mTokens'[i].type
                      /\ Stream'[i].value = GetValue(mTokens[i])'
  BY <1>7
<1>10. /\ mTokens'[n].type = "EndOfFile"
       /\ mTokens'[n].start = 0 /\ mTokens'[n].len = 0
  BY <1>5 DEF t
<1>11. ASSUME NEW i \in 1..n, mTokens'[i].type # "String"
       PROVE  GetValue(mTokens[i])' \in Seq(STRING)
  <2>1. mTokens'[i].start \in Nat /\ mTokens'[i].len \in Nat
    <3> DEFINE TokenSet == [type : TokenType, start : 0..mSize, len : 0..mSize]
    <3>1. mTokens' \in Seq(TokenSet)
      BY <1>4, <1>6 DEF Inv, Shape
    <3>2. mTokens'[i] \in TokenSet
      <4> HIDE DEF TokenSet
      <4> QED
        BY <1>5, <3>1
    <3> QED
      BY <1>6, <3>2
  <2>2. CASE mTokens'[i].start > mSize \/ mTokens'[i].start + mTokens'[i].len > mSize
    <3>1. GetValue(mTokens[i])' = <<>>
      BY <1>6, <2>2 DEF GetValue
    <3> QED
      BY <3>1
  <2>3. CASE ~(mTokens'[i].start > mSize \/ mTokens'[i].start + mTokens'[i].len > mSize)
    <3>1. GetValue(mTokens[i])' = SubSeq(src, mTokens'[i].start + 1, mTokens'[i].start + mTokens'[i].len)
      BY <1>2, <1>6, <1>11, <2>3 DEF GetValue
    <3>2. /\ mTokens'[i].start + 1 >= 1
          /\ mTokens'[i].start + mTokens'[i].len <= Len(src)
      BY <1>6, <2>1, <2>3 DEF mSize
    <3>3. \A a, b \in Int : a >= 1 /\ b <= Len(src) => SubSeq(src, a, b) \in Seq(STRING)
      BY <1>6
    <3>4. PICK a \in Int, b \in Int : a = mTokens'[i].start + 1 /\ b = mTokens'[i].start + mTokens'[i].len
      BY <2>1
    <3>5. SubSeq(src, a, b) \in Seq(STRING)
      BY <3>2, <3>3, <3>4
    <3> QED
      BY <3>1, <3>4, <3>5
  <2> QED
    BY <2>2, <2>3
<1>12. GetValue(mTokens[n])' = <<>>
  <2>1. GetValue(mTokens[n])' = SubSeq(src, 0 + 1, 0 + 0)
    BY <1>2, <1>6, <1>10 DEF GetValue
  <2>2. SubSeq(src, 1, 0) = <<>>
    BY <1>6
  <2> QED
    BY <2>1, <2>2
<1> QED
  <2>1. n \in 1..n
    BY <1>5
  <2>2. \A i \in 1..n : Stream'[i].type \in {"Int", "Float", "Word"} => Stream'[i].value \in Seq(STRING)
    BY <1>9, <1>11
  <2> QED
    BY <1>8, <1>9, <1>10, <1>12, <2>1, <2>2

-----------------------------------------------------------------------------
(* A text that is laid out as the lexemes of list: the tokenizer is always *)
(* behind one of them, in the gap before the next.                         *)

(* The place behind i at which comment and gap go on: its newline.         *)
Ends(i, j, r) == /\ r \in i..(j - 1) /\ CharAt(r) = "\n"
                 /\ \A s \in i..(r - 1) : CharAt(s) # "\n"
                 /\ Gap(r, j)

OnWay(list) ==
  LET m == Len(mTokens)
  IN  /\ mode # "string"
      /\ mode = "done" => mTokens = TokensOf(list)
      /\ mode # "done" =>
           /\ m <= Len(list) /\ \A i \in 1..m : mTokens[i] = list[i]
           /\ m = Len(list) => mode = "scan" /\ mCurrent = mSize
           /\ m # Len(list) =>
                /\ mode = "scan" => Gap(mCurrent, list[m + 1].start)
                /\ mode = "comment" => \E r \in Nat : Ends(mCurrent, list[m + 1].start, r)

(* Where a scan over characters of a kind ends is the only place it can.   *)
LEMMA PastUnique ==
  ASSUME src \in Seq(STRING), NEW chars, "NUL" \notin chars, NEW i \in 0..mSize, NEW q \in i..mSize,
         CharAt(q) \notin chars, \A r \in i..(q - 1) : CharAt(r) \in chars
  PROVE  Past(chars, i) = q
<1> DEFINE p == Past(chars, i)
<1>1. /\ p \in i..mSize /\ CharAt(p) \notin chars
      /\ \A r \in i..(p - 1) : CharAt(r) \in chars
  BY PastIs
<1>2. mSize \in Nat
  BY DEF mSize
<1> HIDE DEF p
<1>3. ~(p < q)
  <2>1. p < q => p \in i..(q - 1)
    BY <1>1, <1>2
  <2> QED
    BY <1>1, <2>1
<1>4. ~(q < p)
  <2>1. q < p => q \in i..(p - 1)
    BY <1>1, <1>2
  <2> QED
    BY <1>1, <2>1
<1>5. p = q
  BY <1>1, <1>2, <1>3, <1>4
<1> QED
  BY <1>5 DEF p

(* From within a gap the tokenizer comes to its end or to a comment in it. *)
LEMMA GapStep ==
  ASSUME Shape, Scanning, NEW j \in 0..mSize, j < mSize, Gap(mCurrent, j), CharAt(j) \notin Blank
  PROVE  \/ AfterBlanks = j
         \/ CharAt(AfterBlanks) = "#" /\ \E r \in Nat : Ends(AfterBlanks, j, r)
<1> DEFINE a == AfterBlanks
<1>1. mSize \in Nat /\ src \in Seq(STRING) /\ mCurrent \in 0..mSize /\ mCurrent < mSize
  BY DEF Shape, Scanning, mSize
<1>2. "NUL" \notin Blank /\ "#" \notin Blank /\ "\n" \in Blank
  BY DEF Blank
<1> DEFINE q == Past(Blank, mCurrent)
<1>3. /\ q \in mCurrent..mSize /\ CharAt(q) \notin Blank
      /\ \A r \in mCurrent..(q - 1) : CharAt(r) \in Blank
  BY <1>1, <1>2, PastIs
<1>4. mCurrent <= j
  BY DEF Gap
<1> HIDE DEF q
<1>5. q <= j
  <2>1. ~(q <= j) => j \in mCurrent..(q - 1)
    BY <1>1, <1>3, <1>4
  <2> QED
    BY <1>3, <2>1
<1>6. a = q
  BY <1>1, <1>3, <1>5 DEF AfterBlanks, q
<1> HIDE DEF a
<1> SUFFICES ASSUME q # j
             PROVE  CharAt(q) = "#" /\ \E r \in Nat : Ends(q, j, r)
  BY <1>6 DEF a
<1>7. q \in mCurrent..(j - 1)
  BY <1>1, <1>3, <1>5
<1>8. /\ \E p \in mCurrent..q : CharAt(p) = "#" /\ \A r \in p..q : CharAt(r) # "\n"
      /\ \E r \in q..(j - 1) : CharAt(r) = "\n"
  BY <1>3, <1>7 DEF Gap
<1>9. CharAt(q) = "#"
  <2>1. PICK p \in mCurrent..q : CharAt(p) = "#"
    BY <1>8
  <2>2. p # q => p \in mCurrent..(q - 1)
    BY <1>1, <1>3, <2>1
  <2> QED
    BY <1>2, <1>3, <2>1, <2>2
<1>10. PICK r \in Nat : /\ r \in q..(j - 1) /\ CharAt(r) = "\n"
                        /\ \A s \in q..(r - 1) : CharAt(s) # "\n"
  <2> DEFINE Lines == {r \in q..(j - 1) : CharAt(r) = "\n"}
  <2>1. Lines \subseteq Nat /\ Lines # {}
    BY <1>1, <1>3, <1>8
  <2>2. PICK r \in Lines : \A s \in Lines : r <= s
    <3> HIDE DEF Lines
    <3> QED
      BY <2>1, LeastElement
  <2>3. ASSUME NEW s \in q..(r - 1)
        PROVE  CharAt(s) # "\n"
    <3>1. s \in q..(j - 1) /\ ~(r <= s)
      BY <1>1, <1>3, <2>2
    <3> QED
      BY <2>2, <3>1
  <2> QED
    BY <2>1, <2>2, <2>3
<1>11. Gap(r, j)
  <2>1. r <= j /\ mCurrent \in Nat
    BY <1>1, <1>3, <1>10
  <2>2. ASSUME NEW p \in r..(j - 1), CharAt(p) \notin Blank
        PROVE  /\ \E o \in r..p : CharAt(o) = "#" /\ \A s \in o..p : CharAt(s) # "\n"
               /\ \E s \in p..(j - 1) : CharAt(s) = "\n"
    <3>1. p \in mCurrent..(j - 1)
      BY <1>1, <1>3, <1>10
    <3>2. /\ \E o \in mCurrent..p : CharAt(o) = "#" /\ \A s \in o..p : CharAt(s) # "\n"
          /\ \E s \in p..(j - 1) : CharAt(s) = "\n"
      BY <2>2, <3>1 DEF Gap
    <3>3. PICK o \in mCurrent..p : CharAt(o) = "#" /\ \A s \in o..p : CharAt(s) # "\n"
      BY <3>2
    <3>4. r <= o
      <4>1. o <= r => r \in o..p
        BY <1>1, <1>3, <1>10, <3>3
      <4> QED
        BY <1>1, <1>3, <1>10, <3>3, <4>1
    <3>5. o \in r..p
      BY <1>1, <1>10, <3>3, <3>4
    <3> QED
      BY <3>2, <3>3, <3>5
  <2> QED
    BY <2>1, <2>2 DEF Gap
<1> QED
  BY <1>9, <1>10, <1>11 DEF Ends

(* A gap and the end of a comment are a matter of the text alone.          *)
LEMMA GapStays ==
  ASSUME src' = src, NEW i, NEW j, mCurrent' = i
  PROVE  /\ Gap(i, j) => Gap(mCurrent, j)'
         /\ \A r : Ends(i, j, r) => Ends(mCurrent, j, r)'
<1>1. \A k : CharAt(k)' = CharAt(k)
  BY DEF CharAt, mSize
<1>2. ASSUME NEW k PROVE Gap(k, j)' <=> Gap(k, j)
  BY DEF Gap, CharAt, mSize
<1>3. Gap(mCurrent, j)' <=> Gap(i, j)
  BY DEF Gap, CharAt, mSize
<1>4. ASSUME NEW r, Ends(i, j, r) PROVE Ends(mCurrent, j, r)'
  BY <1>1, <1>2, <1>4 DEF Ends
<1> QED
  BY <1>3, <1>4

(* What a step in the loop of tokenize can be.                             *)
LEMMA ScanStep ==
  ASSUME Next, mode = "scan"
  PROVE  \/ TokenizeWord \/ TokenizeNumber \/ TokenizeChar \/ TokenizeSymbol
         \/ BeginComment \/ BeginString \/ EndOfFile
BY DEF Next, ReadComment, ReadString, EndString

(* Behind a gap the character a lexeme begins with tells which.            *)
LEMMA KindOfStep ==
  ASSUME Shape, KindsDiffer, Next, Scanning
  PROVE  /\ CharAt(AfterBlanks) \in Letter => TokenizeWord
         /\ CharAt(AfterBlanks) \in Digit => TokenizeNumber
         /\ CharAt(AfterBlanks) = "#" => BeginComment
         /\ CharAt(AfterBlanks) \notin Letter \cup Digit \cup {"#", "'", "\""} => TokenizeSymbol
<1> DEFINE ch == CharAt(AfterBlanks)
<1>1. /\ Letter \cap Digit = {} /\ (Letter \cup Digit) \cap {"#", "'", "\""} = {}
      /\ "#" # "'" /\ "#" # "\"" /\ "'" # "\""
  BY DEF KindsDiffer
<1>2. /\ TokenizeWord => ch \in Letter
      /\ TokenizeNumber => ch \in Digit
      /\ TokenizeChar => ch = "'"
      /\ TokenizeSymbol => ch \notin Letter \cup Digit \cup {"#", "'", "\""}
      /\ BeginComment => ch = "#"
      /\ BeginString => ch = "\""
  BY DEF TokenizeWord, TokenizeNumber, TokenizeChar, TokenizeSymbol, BeginComment, BeginString
<1>3. \/ TokenizeWord \/ TokenizeNumber \/ TokenizeChar \/ TokenizeSymbol
      \/ BeginComment \/ BeginString \/ EndOfFile
  BY ScanStep DEF Scanning
<1>4. ~EndOfFile
  <2>1. mCurrent \in Nat /\ mSize \in Nat /\ mCurrent < mSize
    BY DEF Scanning, Shape, mSize
  <2> QED
    BY <2>1 DEF EndOfFile
<1> HIDE DEF ch
<1> QED
  BY <1>1, <1>2, <1>3, <1>4 DEF ch

(* A lexeme lies in the text, and begins where no gap goes on.             *)
LEMMA LexemeIs ==
  ASSUME src \in Seq(STRING), NEW list \in Seq(Lexeme), WrittenAs(list), KindsDiffer,
         NEW n \in 1..Len(list)
  PROVE  /\ list[n] \in Lexeme /\ IsLexeme(list[n])
         /\ mSize \in Nat /\ list[n].start \in 0..(mSize - 1) /\ End(list[n]) \in 1..mSize
         /\ list[n].start < End(list[n])
         /\ CharAt(list[n].start) \notin Blank
         /\ n = 1 => Gap(0, list[n].start)
         /\ n # 1 => Gap(End(list[n - 1]), list[n].start)
         /\ n = Len(list) => End(list[n]) = mSize
<1>1. mSize \in Nat /\ Len(list) \in Nat
  BY DEF mSize
<1>2. list[n] \in Lexeme
  <2> HIDE DEF Lexeme
  <2> QED
    OBVIOUS
<1> DEFINE l == list[n]
<1>3. l.type \in {"Word", "Int", "Float", "Symbol"} /\ l.start \in Nat /\ l.len \in Nat \ {0}
  BY <1>2 DEF Lexeme
<1>4. IsLexeme(l)
  BY DEF WrittenAs
<1>5. End(l) <= mSize /\ End(l) = l.start + l.len
  BY <1>4 DEF IsLexeme, End
<1>6. CharAt(l.start) \notin Blank
  <2>1. (Letter \cup Digit) \cap Blank = {}
    BY DEF KindsDiffer
  <2> QED
    BY <1>3, <1>4, <2>1 DEF IsLexeme
<1>7. /\ n = 1 => Gap(0, l.start)
      /\ n # 1 => Gap(End(list[n - 1]), l.start)
  BY <1>1 DEF WrittenAs
<1>8. n = Len(list) => End(l) = mSize
  BY <1>1 DEF WrittenAs
<1> HIDE DEF l
<1>9. l.start \in 0..(mSize - 1) /\ End(l) \in 1..mSize /\ l.start < End(l)
  BY <1>1, <1>3, <1>5
<1> QED
  BY <1>1, <1>2, <1>4, <1>6, <1>7, <1>8, <1>9 DEF l

(* With the next lexeme taken, the tokenizer is behind it.                 *)
LEMMA TakesLexeme ==
  ASSUME Shape, NEW list \in Seq(Lexeme), WrittenAs(list), KindsDiffer, OnWay(list), src' = src,
         mode # "done", mode' = "scan", NEW n \in 1..Len(list), n = Len(mTokens) + 1,
         mTokens' = Append(mTokens, list[n]), mCurrent' = End(list[n])
  PROVE  OnWay(list)'
<1>1. src \in Seq(STRING) /\ Len(list) \in Nat /\ mSize' = mSize
  BY DEF Shape, mSize
<1>2. /\ Len(mTokens') = n /\ Len(mTokens) \in Nat
      /\ mTokens'[n] = list[n]
      /\ \A i \in 1..Len(mTokens) : mTokens'[i] = mTokens[i]
  BY AddsToken
<1>3. \A i \in 1..Len(mTokens) : mTokens[i] = list[i]
  BY DEF OnWay
<1>4. \A i \in 1..n : mTokens'[i] = list[i]
  <2>1. \A i \in 1..n : i = n \/ i \in 1..Len(mTokens)
    BY <1>2
  <2> QED
    BY <1>2, <1>3, <2>1
<1>5. n = Len(list) => mCurrent' = mSize'
  BY <1>1, LexemeIs
<1>6. n # Len(list) => Gap(mCurrent, list[n + 1].start)'
  <2> SUFFICES ASSUME n # Len(list)
               PROVE  Gap(mCurrent, list[n + 1].start)'
    OBVIOUS
  <2>1. PICK k : k = n + 1
    OBVIOUS
  <2>2. k \in 1..Len(list) /\ k # 1 /\ k - 1 = n
    BY <1>1, <2>1
  <2>3. Gap(End(list[n]), list[k].start)
    BY <1>1, <2>2, LexemeIs
  <2>4. PICK i : i = End(list[n])
    OBVIOUS
  <2>5. PICK j : j = list[k].start
    OBVIOUS
  <2>6. Gap(mCurrent, j)'
    BY <2>3, <2>4, <2>5, GapStays
  <2> QED
    BY <2>1, <2>5, <2>6
<1> QED
  BY <1>1, <1>2, <1>4, <1>5, <1>6 DEF OnWay

(* A lexeme at which the tokenizer has come is the next token, whole.      *)
LEMMA ReadsLexeme ==
  ASSUME Shape, NulEndsWords, KindsDiffer, Next, Scanning, NEW l \in Lexeme, IsLexeme(l),
         End(l) \in 1..mSize, l.start < End(l), AfterBlanks = l.start
  PROVE  /\ mTokens' = Append(mTokens, l) /\ mCurrent' = End(l)
         /\ mode' = "scan" /\ src' = src
<1> DEFINE a == AfterBlanks
           chars == IF l.type = "Word" THEN Letter \cup Digit ELSE Digit \cup {"."}
<1>1. /\ mSize \in Nat /\ a \in Nat /\ a < mSize /\ a \in 0..mSize /\ src \in Seq(STRING)
      /\ mode = "scan"
  BY AfterBlanksIs DEF Shape, Scanning, mSize
<1>2. /\ l.type \in {"Word", "Int", "Float", "Symbol"} /\ l.start \in Nat /\ l.len \in Nat \ {0}
      /\ l = [type |-> l.type, start |-> l.start, len |-> l.len]
  BY DEF Lexeme
<1>3. End(l) = a + l.len /\ End(l) - a = l.len /\ End(l) \in a..mSize
  BY <1>1, <1>2 DEF End
<1>4. ASSUME l.type # "Symbol", Fills(l, chars)
      PROVE  Past(chars, a) = End(l)
  <2>1. "NUL" \notin chars
    BY DEF NulEndsWords
  <2>2. CharAt(End(l)) \notin chars /\ \A r \in a..(End(l) - 1) : CharAt(r) \in chars
    BY <1>4 DEF Fills
  <2> HIDE DEF a, chars
  <2> QED
    BY <1>1, <1>3, <2>1, <2>2, PastUnique
<1>5. CASE l.type = "Word"
  <2>1. CharAt(a) \in Letter /\ Fills(l, Letter \cup Digit)
    BY <1>5 DEF IsLexeme
  <2>2. TokenizeWord
    BY <2>1, KindOfStep
  <2>3. Past(Letter \cup Digit, a) = End(l)
    BY <1>4, <1>5, <2>1
  <2>4. mCurrent' = End(l) /\ mode' = mode /\ src' = src
        /\ mTokens' = Append(mTokens, [type |-> "Word", start |-> a, len |-> mCurrent' - a])
    BY <2>2, <2>3 DEF TokenizeWord, Token
  <2> QED
    BY <1>1, <1>2, <1>3, <1>5, <2>4
<1>6. CASE l.type \in {"Int", "Float"}
  <2>1. /\ CharAt(a) \in Digit /\ Fills(l, Digit \cup {"."})
        /\ l.type = "Float" <=> \E p \in a..(End(l) - 1) : CharAt(p) = "."
    BY <1>6 DEF IsLexeme
  <2>2. TokenizeNumber
    BY <2>1, KindOfStep
  <2>3. Past(Digit \cup {"."}, a) = End(l)
    BY <1>4, <1>6, <2>1
  <2> DEFINE isFloat == \E i \in a..(mCurrent' - 1) : CharAt(i) = "."
  <2>4. mCurrent' = End(l) /\ mode' = mode /\ src' = src
        /\ mTokens' = Append(mTokens, [type |-> IF isFloat THEN "Float" ELSE "Int",
                                       start |-> a, len |-> mCurrent' - a])
    BY <2>2, <2>3 DEF TokenizeNumber, Token
  <2>5. isFloat <=> l.type = "Float"
    BY <2>1, <2>4
  <2>6. (IF isFloat THEN "Float" ELSE "Int") = l.type
    BY <1>6, <2>5
  <2> HIDE DEF isFloat
  <2> QED
    BY <1>1, <1>2, <1>3, <2>4, <2>6
<1>7. CASE l.type = "Symbol"
  <2>1. l.len = 1 /\ CharAt(a) \notin Letter \cup Digit \cup {"#", "'", "\""}
    BY <1>7 DEF IsLexeme
  <2>2. TokenizeSymbol
    BY <2>1, KindOfStep
  <2>3. mCurrent' = a + 1 /\ mode' = mode /\ src' = src
        /\ mTokens' = Append(mTokens, [type |-> "Symbol", start |-> a, len |-> 1])
    BY <2>2 DEF TokenizeSymbol, Token
  <2> QED
    BY <1>1, <1>2, <1>3, <1>7, <2>1, <2>3
<1> QED
  BY <1>2, <1>5, <1>6, <1>7

(* Every step of the tokenizer keeps to the lexemes of the text.           *)
LEMMA StaysOnWay ==
  ASSUME Shape, NulEndsWords, KindsDiffer, Next, NEW list \in Seq(Lexeme), WrittenAs(list),
         OnWay(list)
  PROVE  OnWay(list)'
<1> DEFINE m == Len(mTokens)
           n == m + 1
<1>1. /\ src \in Seq(STRING) /\ mSize \in Nat /\ mCurrent \in 0..mSize
      /\ m \in Nat /\ Len(list) \in Nat /\ n \in Nat
      /\ mode \in {"scan", "comment", "string", "done"}
  BY DEF Shape, mSize
<1>2. mode \in {"scan", "comment"}
  <2>1. mode # "done"
    BY DEF Next, Scanning, TokenizeWord, TokenizeNumber, TokenizeChar, TokenizeSymbol,
           BeginComment, ReadComment, BeginString, ReadString, EndString, EndOfFile
  <2> QED
    BY <1>1, <2>1 DEF OnWay
<1>3. /\ m <= Len(list) /\ \A i \in 1..m : mTokens[i] = list[i]
      /\ m = Len(list) => mode = "scan" /\ mCurrent = mSize
      /\ m # Len(list) =>
           /\ mode = "scan" => Gap(mCurrent, list[n].start)
           /\ mode = "comment" => \E r \in Nat : Ends(mCurrent, list[n].start, r)
  BY <1>2 DEF OnWay
<1>4. src' = src
  BY DEF Next, TokenizeWord, TokenizeNumber, TokenizeChar, TokenizeSymbol,
         BeginComment, ReadComment, BeginString, ReadString, EndString, EndOfFile
<1>5. CASE m = Len(list)
  <2>1. EndOfFile
    <3>1. mode = "scan" /\ ~Scanning
      BY <1>1, <1>3, <1>5 DEF Scanning
    <3> QED
      BY <3>1, ScanStep DEF TokenizeWord, TokenizeNumber, TokenizeChar, TokenizeSymbol,
                            BeginComment, BeginString
  <2>2. mode' = "done" /\ mTokens' = Append(mTokens, Eof)
    BY <2>1 DEF EndOfFile, Token, Eof
  <2>3. mTokens = list
    <3>1. mTokens \in Seq([type : TokenType, start : 0..mSize, len : 0..mSize])
      BY DEF Shape
    <3> QED
      BY <1>3, <1>5, <3>1
  <2> QED
    BY <2>2, <2>3 DEF OnWay, TokensOf
<1>6. CASE m # Len(list)
  <2> DEFINE l == list[n]
             j == l.start
  <2>1. n \in 1..Len(list)
    BY <1>1, <1>3, <1>6
  <2>2. /\ l \in Lexeme /\ IsLexeme(l) /\ j \in 0..(mSize - 1) /\ End(l) \in 1..mSize
        /\ l.start < End(l) /\ CharAt(j) \notin Blank
    BY <1>1, <2>1, LexemeIs
  <2> HIDE DEF l, j
  <2>3. CASE mode = "scan"
    <3>1. Gap(mCurrent, j)
      BY <1>3, <1>6, <2>3 DEF j, l
    <3>2. Scanning
      BY <1>1, <2>2, <2>3, <3>1 DEF Gap, Scanning
    <3>3. \/ AfterBlanks = j
          \/ CharAt(AfterBlanks) = "#" /\ \E r \in Nat : Ends(AfterBlanks, j, r)
      <4>1. j \in 0..mSize /\ j < mSize
        BY <1>1, <2>2
      <4> QED
        BY <2>2, <3>1, <3>2, <4>1, GapStep
    <3>4. CASE AfterBlanks = j
      <4>1. mTokens' = Append(mTokens, l) /\ mCurrent' = End(l) /\ mode' = "scan"
        <5>1. AfterBlanks = l.start
          BY <3>4 DEF j
        <5> QED
          BY <2>2, <3>2, <5>1, ReadsLexeme
      <4> QED
        BY <1>4, <2>1, <2>3, <4>1, TakesLexeme DEF l
    <3>5. CASE CharAt(AfterBlanks) = "#" /\ \E r \in Nat : Ends(AfterBlanks, j, r)
      <4>1. BeginComment
        BY <3>2, <3>5, KindOfStep
      <4>2. mode' = "comment" /\ mCurrent' = AfterBlanks /\ mTokens' = mTokens
        BY <4>1 DEF BeginComment
      <4>3. PICK r \in Nat : Ends(AfterBlanks, j, r)
        BY <3>5
      <4>4. PICK a : a = AfterBlanks
        OBVIOUS
      <4>5. PICK k : k = j
        OBVIOUS
      <4>6. Ends(mCurrent, k, r)'
        BY <1>4, <4>2, <4>3, <4>4, <4>5, GapStays
      <4>7. m' = m /\ n' = n
        BY <4>2
      <4> QED
        BY <1>3, <1>6, <4>2, <4>5, <4>6, <4>7 DEF OnWay, j, l
    <3> QED
      BY <3>3, <3>4, <3>5
  <2>4. CASE mode = "comment"
    <3>1. ReadComment
      BY <2>4 DEF Next, Scanning, TokenizeWord, TokenizeNumber, TokenizeChar, TokenizeSymbol,
           BeginComment, BeginString, ReadString, EndString, EndOfFile
    <3>2. PICK r \in Nat : Ends(mCurrent, j, r)
      BY <1>3, <1>6, <2>4 DEF j, l
    <3>3. mTokens' = mTokens /\ m' = m
      BY <3>1 DEF ReadComment
    <3>4. PICK k : k = j
      OBVIOUS
    <3>5. CASE CharAt(mCurrent) = "\n"
      <4>1. mode' = "scan" /\ mCurrent' = mCurrent
        BY <3>1, <3>5 DEF ReadComment
      <4>2. r = mCurrent
        <5>1. r # mCurrent => mCurrent \in mCurrent..(r - 1)
          BY <1>1, <2>2, <3>2 DEF Ends
        <5> QED
          BY <3>2, <3>5, <5>1 DEF Ends
      <4>3. Gap(r, k)
        BY <3>2, <3>4 DEF Ends
      <4>4. Gap(mCurrent, k)'
        BY <1>4, <4>1, <4>2, <4>3, GapStays
      <4> QED
        BY <1>3, <1>6, <3>3, <3>4, <4>1, <4>4 DEF OnWay, j, l
    <3>6. CASE CharAt(mCurrent) # "\n"
      <4>1. mode' = "comment" /\ mCurrent' = After(mCurrent, 1)
        BY <2>4, <3>1, <3>6 DEF ReadComment
      <4>2. r \in mCurrent..(j - 1) /\ r # mCurrent
        BY <3>2, <3>6 DEF Ends
      <4>3. mCurrent + 1 <= mSize
        BY <1>1, <2>2, <4>2
      <4>4. PICK e : e = mCurrent + 1
        OBVIOUS
      <4>5. mCurrent' = e
        BY <1>1, <4>1, <4>3, <4>4, AfterIs
      <4>6. Ends(e, k, r)
        <5>1. r \in e..(k - 1) /\ \A s \in e..(r - 1) : s \in mCurrent..(r - 1)
          BY <1>1, <2>2, <3>4, <4>2, <4>4
        <5> QED
          BY <3>2, <3>4, <5>1 DEF Ends
      <4>7. Ends(mCurrent, k, r)'
        BY <1>4, <4>5, <4>6, GapStays
      <4> QED
        BY <1>3, <1>6, <3>3, <3>4, <4>1, <4>7 DEF OnWay, j, l
    <3> QED
      BY <3>5, <3>6
  <2> QED
    BY <1>2, <2>3, <2>4
<1> QED
  BY <1>5, <1>6

(* It begins before the first of them.                                     *)
LEMMA StartsOnWay ==
  ASSUME Shape, KindsDiffer, Init, NEW list \in Seq(Lexeme), WrittenAs(list)
  PROVE  OnWay(list)
<1>1. src \in Seq(STRING) /\ Len(list) \in Nat /\ mSize \in Nat
  BY DEF Shape, mSize
<1>2. mCurrent = 0 /\ mTokens = <<>> /\ mode = "scan" /\ Len(mTokens) = 0
  BY DEF Init
<1>3. CASE Len(list) = 0
  <2>1. mSize = 0
    BY <1>3 DEF WrittenAs
  <2> QED
    BY <1>2, <1>3, <2>1 DEF OnWay
<1>4. CASE Len(list) # 0
  <2>1. Gap(0, list[1].start)
    <3>1. 1 \in 1..Len(list)
      BY <1>1, <1>4
    <3> QED
      BY <1>1, <3>1, LexemeIs
  <2> QED
    BY <1>1, <1>2, <1>4, <2>1 DEF OnWay
<1> QED
  BY <1>3, <1>4

(* It stays where it is when nothing is scanned.                           *)
LEMMA StandsOnWay ==
  ASSUME UNCHANGED <<src, mCurrent, mTokens, mode>>, NEW list, OnWay(list)
  PROVE  OnWay(list)'
<1> DEFINE m == Len(mTokens)
           j == list[m + 1].start
<1>1. m' = m /\ mSize' = mSize /\ src' = src /\ mode' = mode /\ mCurrent' = mCurrent /\ mTokens' = mTokens
  BY DEF mSize
<1>2. PICK k : k = j
  OBVIOUS
<1>3. PICK i : i = mCurrent
  OBVIOUS
<1>4. /\ Gap(mCurrent, j) => Gap(mCurrent, k)'
      /\ \A r : Ends(mCurrent, j, r) => Ends(mCurrent, k, r)'
  BY <1>1, <1>2, <1>3, GapStays
<1> QED
  BY <1>1, <1>2, <1>4 DEF OnWay
=============================================================================
