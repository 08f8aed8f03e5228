----------------------------- MODULE ShellProofs -----------------------------
(***************************************************************************)
(* What is proved of paths and command lines, for every text over every    *)
(* set of characters.  A fold is an instance of LeftFold, and a fact about *)
(* all texts is shown of the set of texts it holds of: that set has the    *)
(* empty text and is closed under one more character.                      *)
(***************************************************************************)
EXTENDS Shell, SequenceTheorems, TLAPS

Text == Seq(Chars)

Slash == "/"
Space == " "
Tick  == "'"
Back  == "\\"

\* The characters a shell reads as themselves outside of quotes.
Ordinary(c) == c \notin Specials \cup {Space, Tick, Back}

\* The states of the reader: between two words, or in one, in three ways;
In(words, word, begun, mode) ==
    [words |-> words, word |-> word, begun |-> begun, mode |-> mode]
Between(words)       == In(words, << >>, FALSE, "bare")
Bare(words, word)    == In(words, word, TRUE, "bare")
Quoted(words, word)  == In(words, word, TRUE, "quoted")
Slashed(words, word) == In(words, word, TRUE, "escaped")

\* or lost at a special character, between words or in one.
Lost(words, word, begun) == In(words, word, begun, "lost")

Path  == INSTANCE LeftFold WITH Op <- PathChar, Base <- PathStart
Quote == INSTANCE LeftFold WITH Op <- Escaped, Base <- << >>
Join  == INSTANCE LeftFold WITH Op <- JoinWord, Base <- << >>
Read  == INSTANCE LeftFold WITH Op <- ReadChar, Base <- ReadStart

-----------------------------------------------------------------------------
(* The folds.                                                              *)

\* Each fold of Shell is the Folded of its instance: here, of the paths.
LEMMA ComponentsFold == \A p : Components(p) = Named(Path!Folded(p))
  BY DEF Components, FoldLeft, MapThenFoldSet, Max,
         Path!Folded, Path!FoldLeft, Path!MapThenFoldSet, Path!Max

\* The quoting of one word.
LEMMA ShellQuoteFold == \A s : ShellQuote(s) = <<Tick>> \o Quote!Folded(s) \o <<Tick>>
  BY DEF ShellQuote, Tick, FoldLeft, MapThenFoldSet, Max,
         Quote!Folded, Quote!FoldLeft, Quote!MapThenFoldSet, Quote!Max

\* The line of a command list.
LEMMA BuildCmdFold ==
  \A cmd : BuildCmd(cmd) = IF Len(cmd) = 1 THEN cmd[1] ELSE Join!Folded(cmd)
  BY DEF BuildCmd, FoldLeft, MapThenFoldSet, Max,
         Join!Folded, Join!FoldLeft, Join!MapThenFoldSet, Join!Max

\* The words a shell reads.
LEMMA ShellWordsFold == \A line : ShellWords(line) = Ended(Read!Folded(line))
  BY DEF ShellWords, FoldLeft, MapThenFoldSet, Max,
         Read!Folded, Read!FoldLeft, Read!MapThenFoldSet, Read!Max

\* Texts are closed under what the code does with them.
LEMMA TextFacts ==
  /\ << >> \in Text
  /\ \A s \in Text, c \in Chars : Append(s, c) \in Text /\ Append(s, c) # << >>
  /\ \A s, t \in Text : s \o t \in Text
  /\ \A c \in Chars : <<c>> \in Text
  /\ \A s \in Text : s \o << >> = s /\ << >> \o s = s
  BY AppendProperties, ConcatProperties, ConcatEmptySeq DEF Text

\* A text of one character at the end is that character appended.
LEMMA JoinOne ==
  ASSUME NEW s \in Text, NEW c \in Chars
  PROVE  s \o <<c>> = Append(s, c)
  BY AppendIsConcat DEF Text

\* Concatenation is associative.
LEMMA JoinText ==
  ASSUME NEW s \in Text, NEW t \in Text, NEW u \in Text
  PROVE  (s \o t) \o u = s \o (t \o u)
  BY ConcatAssociative DEF Text

\* A character appended to the second part is appended to the whole.
LEMMA JoinAppend ==
  ASSUME NEW s \in Text, NEW t \in Text, NEW c \in Chars
  PROVE  s \o Append(t, c) = Append(s \o t, c)
<1>1. (s \o t) \o <<c>> = s \o (t \o <<c>>)
  BY JoinText, TextFacts
<1>2. (s \o t) \o <<c>> = Append(s \o t, c)
  BY JoinOne, TextFacts
<1>3. QED
  BY <1>1, <1>2, JoinOne

\* One more character is one more step of each fold.
LEMMA FoldSteps ==
  ASSUME NEW s \in Text, NEW c \in Chars
  PROVE  /\ Quote!Folded(Append(s, c)) = Escaped(Quote!Folded(s), c)
         /\ Read!Folded(Append(s, c)) = ReadChar(Read!Folded(s), c)
         /\ Path!Folded(Append(s, c)) = PathChar(Path!Folded(s), c)
  BY Quote!FoldedAppend, Read!FoldedAppend, Path!FoldedAppend DEF Text

\* A set of texts with the empty one, closed under one more character, has all.
LEMMA TextInduction ==
  ASSUME NEW T \in SUBSET Text, << >> \in T,
         \A s \in T, c \in Chars : Append(s, c) \in T
  PROVE  T = Text
  BY Read!SeqSetInduction DEF Text

\* The characters the code looks at are four.
LEMMA CharFacts ==
  /\ Slash \in Chars /\ Space \in Chars /\ Tick \in Chars /\ Back \in Chars
  /\ Slash # Space /\ Slash # Tick /\ Slash # Back
  /\ Space # Tick /\ Space # Back /\ Tick # Back
  BY CharsAssumption DEF Slash, Space, Tick, Back

\* Escaping appends one character, or the four that stand for a quote.
LEMMA EscapedIs ==
  ASSUME NEW safe \in Text, NEW c \in Chars
  PROVE  Escaped(safe, c) =
           IF c = Tick THEN Append(Append(Append(Append(safe, Tick), Back), Tick), Tick)
           ELSE Append(safe, c)
<1>1. CASE c = Tick
  <2>1. Escaped(safe, c) = safe \o <<Tick, Back, Tick, Tick>>
    BY <1>1 DEF Escaped, Tick, Back
  <2>2. QED
    BY <1>1, <2>1, CharFacts DEF Text
<1>2. CASE c # Tick
  BY <1>2, JoinOne DEF Escaped, Tick
<1>3. QED
  BY <1>1, <1>2

\* What comes before a word does not matter to its escaping.
LEMMA EscapedJoin ==
  ASSUME NEW s \in Text, NEW t \in Text, NEW c \in Chars
  PROVE  s \o Escaped(t, c) = Escaped(s \o t, c)
<1>1. PICK e \in Text : \A safe : Escaped(safe, c) = safe \o e
  <2>1. CASE c = Tick
    <3>1. <<Tick, Back, Tick, Tick>> \in Text
      BY CharFacts DEF Text
    <3>2. \A safe : Escaped(safe, c) = safe \o <<Tick, Back, Tick, Tick>>
      BY <2>1 DEF Escaped, Tick, Back
    <3>3. QED
      BY <3>1, <3>2
  <2>2. CASE c # Tick
    <3>1. \A safe : Escaped(safe, c) = safe \o <<c>>
      BY <2>2 DEF Escaped, Tick
    <3>2. QED
      BY <3>1, TextFacts
  <2>3. QED
    BY <2>1, <2>2
<1>2. s \o (t \o e) = (s \o t) \o e
  BY JoinText
<1>3. Escaped(t, c) = t \o e /\ Escaped(s \o t, c) = (s \o t) \o e
  BY <1>1
<1>4. QED
  BY <1>2, <1>3

\* Escaping a text gives a text.
LEMMA EscapedType ==
  ASSUME NEW safe \in Text, NEW c \in Chars
  PROVE  Escaped(safe, c) \in Text
  BY CharFacts, TextFacts, EscapedIs

\* The reader, by its state and the next character, as long as it is not lost.
LEMMA ReadCases ==
  ASSUME NEW ws, NEW w
  PROVE  /\ ReadChar(Slashed(ws, w), Tick) = Bare(ws, Append(w, Tick))
         /\ ReadChar(Quoted(ws, w), Tick) = Bare(ws, w)
         /\ \A c : c # Tick => ReadChar(Quoted(ws, w), c) = Quoted(ws, Append(w, c))
         /\ ReadChar(Bare(ws, w), Tick) = Quoted(ws, w)
         /\ ReadChar(Bare(ws, w), Back) = Slashed(ws, w)
         /\ ReadChar(Bare(ws, w), Space) = Between(Append(ws, w))
         /\ \A c : Ordinary(c) => ReadChar(Bare(ws, w), c) = Bare(ws, Append(w, c))
         /\ ReadChar(Between(ws), Tick) = Quoted(ws, << >>)
         /\ ReadChar(Between(ws), Back) = Slashed(ws, << >>)
         /\ ReadChar(Between(ws), Space) = Between(ws)
         /\ \A c : Ordinary(c) => ReadChar(Between(ws), c) = Bare(ws, Append(<< >>, c))
         /\ ReadStart = Between(<< >>)
         /\ Ended(Bare(ws, w)) = Append(ws, w)
         /\ Ended(Between(ws)) = ws
<1> USE DEF In, Between, Bare, Quoted, Slashed, Take, Enter, Ended, ReadStart
<1>1. \A c : Ordinary(c) => c \notin Specials /\ c # Tick /\ c # Back /\ c # Space
  BY DEF Ordinary
<1>2. /\ ReadChar(Slashed(ws, w), Tick) = Bare(ws, Append(w, Tick))
      /\ ReadChar(Quoted(ws, w), Tick) = Bare(ws, w)
      /\ \A c : c # Tick => ReadChar(Quoted(ws, w), c) = Quoted(ws, Append(w, c))
  BY DEF ReadChar, Tick
<1>3. /\ ReadChar(Bare(ws, w), Tick) = Quoted(ws, w)
      /\ ReadChar(Bare(ws, w), Back) = Slashed(ws, w)
      /\ ReadChar(Bare(ws, w), Space) = Between(Append(ws, w))
  BY DEF ReadChar, Tick, Back, Space
<1>4. /\ ReadChar(Between(ws), Tick) = Quoted(ws, << >>)
      /\ ReadChar(Between(ws), Back) = Slashed(ws, << >>)
      /\ ReadChar(Between(ws), Space) = Between(ws)
  BY DEF ReadChar, Tick, Back, Space
<1>5. ASSUME NEW c, Ordinary(c)
      PROVE  /\ ReadChar(Bare(ws, w), c) = Bare(ws, Append(w, c))
             /\ ReadChar(Between(ws), c) = Bare(ws, Append(<< >>, c))
  BY <1>1, <1>5 DEF ReadChar, Tick, Back, Space
<1>6. /\ ReadStart = Between(<< >>)
      /\ Ended(Bare(ws, w)) = Append(ws, w)
      /\ Ended(Between(ws)) = ws
  OBVIOUS
<1>7. QED
  BY <1>2, <1>3, <1>4, <1>5, <1>6

\* The other steps: a character is taken as it is, or the reader is lost.
LEMMA LostCases ==
  ASSUME NEW ws, NEW w, NEW begun, NEW c
  PROVE  /\ ReadChar(Slashed(ws, w), c) \in {Bare(ws, Append(w, c)), Lost(ws, w, TRUE)}
         /\ ReadChar(Lost(ws, w, begun), c) = Lost(ws, w, begun)
         /\ c \in Specials => /\ ReadChar(Bare(ws, w), c) = Lost(ws, w, TRUE)
                              /\ ReadChar(Between(ws), c) = Lost(ws, << >>, FALSE)
<1> USE DEF In, Between, Bare, Quoted, Slashed, Lost, Take, Enter
<1>1. ReadChar(Slashed(ws, w), c) \in {Bare(ws, Append(w, c)), Lost(ws, w, TRUE)}
  BY DEF ReadChar
<1>2. ReadChar(Lost(ws, w, begun), c) = Lost(ws, w, begun)
  BY DEF ReadChar
<1>3. ASSUME c \in Specials
      PROVE  /\ ReadChar(Bare(ws, w), c) = Lost(ws, w, TRUE)
             /\ ReadChar(Between(ws), c) = Lost(ws, << >>, FALSE)
  <2>1. c # "'" /\ c # "\\" /\ c # " "
    BY <1>3 DEF Specials
  <2>2. QED
    BY <1>3, <2>1 DEF ReadChar
<1>4. QED
  BY <1>1, <1>2, <1>3

\* The inside of a quoted word is a text.
LEMMA QuoteType == \A s \in Text : Quote!Folded(s) \in Text
<1> DEFINE T == {s \in Text : Quote!Folded(s) \in Text}
<1>1. << >> \in T
  BY Quote!FoldedEmpty, TextFacts
<1>2. ASSUME NEW s \in T, NEW c \in Chars PROVE Append(s, c) \in T
  BY FoldSteps, EscapedType, TextFacts
<1>3. T = Text
  <2>1. T \in SUBSET Text
    OBVIOUS
  <2> HIDE DEF T
  <2>2. QED
    BY <1>1, <1>2, <2>1, TextInduction
<1>4. QED
  BY <1>3

-----------------------------------------------------------------------------
(* Quoting.                                                                *)

(***************************************************************************)
(* The shell reads a quoted word as the word was, quotes in it included,   *)
(* from the place on where it has opened the quotes.                       *)
(***************************************************************************)
LEMMA QuotedWord ==
  ASSUME NEW line \in Text, NEW word \in Text,
         NEW ws \in Seq(Text), NEW w \in Text,
         Read!Folded(Append(line, Tick)) = Quoted(ws, w)
  PROVE  /\ line \o ShellQuote(word) \in Text
         /\ Read!Folded(line \o ShellQuote(word)) = Bare(ws, w \o word)
<1> DEFINE start == line \o <<Tick>>
           T == {t \in Text : Read!Folded(start \o Quote!Folded(t)) = Quoted(ws, w \o t)}
<1>1. start = Append(line, Tick) /\ start \in Text
  BY TextFacts, JoinOne, CharFacts
<1> HIDE DEF start
<1>2. << >> \in T
  <2>2. start \o Quote!Folded(<< >>) = Append(line, Tick)
    BY <1>1, Quote!FoldedEmpty, TextFacts
  <2>3. w \o << >> = w
    BY TextFacts
  <2>4. QED
    BY <2>2, <2>3, TextFacts
<1>3. ASSUME NEW t \in T, NEW c \in Chars PROVE Append(t, c) \in T
  <2> DEFINE q == start \o Quote!Folded(t)
  <2>1. /\ t \in Text /\ Append(t, c) \in Text /\ w \o t \in Text
        /\ q \in Text /\ Read!Folded(q) = Quoted(ws, w \o t)
    BY <1>1, QuoteType, TextFacts
  <2>2. w \o Append(t, c) = Append(w \o t, c)
    BY <2>1, JoinAppend
  <2>3. start \o Quote!Folded(Append(t, c)) = Escaped(q, c)
    <3>1. Quote!Folded(Append(t, c)) = Escaped(Quote!Folded(t), c)
      BY <2>1, FoldSteps
    <3>2. Quote!Folded(t) \in Text
      BY <2>1, QuoteType
    <3>3. start \o Escaped(Quote!Folded(t), c) = Escaped(start \o Quote!Folded(t), c)
      BY <1>1, <3>2, EscapedJoin
    <3>4. QED
      BY <3>1, <3>3
  <2> HIDE DEF q
  <2>4. Read!Folded(Escaped(q, c)) = Quoted(ws, Append(w \o t, c))
    <3>1. CASE c # Tick
      <4>1. Escaped(q, c) = Append(q, c)
        BY <2>1, <3>1, EscapedIs
      <4>2. QED
        BY <2>1, <3>1, <4>1, FoldSteps, ReadCases
    <3>2. CASE c = Tick
      <4> DEFINE q1 == Append(q, Tick)
                 q2 == Append(q1, Back)
                 q3 == Append(q2, Tick)
                 q4 == Append(q3, Tick)
      <4>1. q1 \in Text /\ q2 \in Text /\ q3 \in Text
        BY <2>1, TextFacts, CharFacts
      <4>2. Escaped(q, c) = q4
        BY <2>1, <3>2, EscapedIs
      <4> HIDE DEF q1, q2, q3
      <4>3. Read!Folded(q1) = Bare(ws, w \o t)
        BY <2>1, FoldSteps, ReadCases, CharFacts DEF q1
      <4>4. Read!Folded(q2) = Slashed(ws, w \o t)
        BY <4>1, <4>3, FoldSteps, ReadCases, CharFacts DEF q2
      <4>5. Read!Folded(q3) = Bare(ws, Append(w \o t, c))
        BY <3>2, <4>1, <4>4, FoldSteps, ReadCases, CharFacts DEF q3
      <4>6. Read!Folded(q4) = Quoted(ws, Append(w \o t, c))
        BY <4>1, <4>5, FoldSteps, ReadCases, CharFacts
      <4>7. QED
        BY <4>2, <4>6
    <3>3. QED
      BY <3>1, <3>2
  <2>5. QED
    BY <2>1, <2>2, <2>3, <2>4
<1>4. T = Text
  <2>1. T \in SUBSET Text
    OBVIOUS
  <2> HIDE DEF T
  <2>2. QED
    BY <1>2, <1>3, <2>1, TextInduction
<1>5. Read!Folded(start \o Quote!Folded(word)) = Quoted(ws, w \o word)
  BY <1>4
<1>6. start \o Quote!Folded(word) \in Text
  BY <1>1, QuoteType, TextFacts
<1>7. line \o ShellQuote(word) = Append(start \o Quote!Folded(word), Tick)
  <2> DEFINE f == Quote!Folded(word)
  <2>1. f \in Text
    BY QuoteType
  <2>2. ShellQuote(word) = (<<Tick>> \o f) \o <<Tick>>
    BY ShellQuoteFold
  <2> HIDE DEF f
  <2>3. <<Tick>> \in Text /\ <<Tick>> \o f \in Text
    BY <2>1, TextFacts, CharFacts
  <2>4. (<<Tick>> \o f) \o <<Tick>> = Append(<<Tick>> \o f, Tick)
    BY <2>3, JoinOne, CharFacts
  <2>5. line \o Append(<<Tick>> \o f, Tick) = Append(line \o (<<Tick>> \o f), Tick)
    BY <2>3, JoinAppend, CharFacts
  <2>6. line \o (<<Tick>> \o f) = (line \o <<Tick>>) \o f
    BY <2>1, <2>3, JoinText
  <2>7. QED
    BY <2>2, <2>4, <2>5, <2>6 DEF start, f
<1>8. QED
  BY <1>5, <1>6, <1>7, FoldSteps, TextFacts, CharFacts, ReadCases

\* A quoted word after a blank, or at the start, is read as a new word.
LEMMA QuotedFirst ==
  ASSUME NEW line \in Text, NEW word \in Text, NEW ws \in Seq(Text),
         Read!Folded(line) = Between(ws)
  PROVE  /\ line \o ShellQuote(word) \in Text
         /\ Read!Folded(line \o ShellQuote(word)) = Bare(ws, word)
<1>1. Read!Folded(Append(line, Tick)) = Quoted(ws, << >>)
  BY FoldSteps, CharFacts, ReadCases
<1>2. << >> \in Text /\ << >> \o word = word
  BY TextFacts
<1>3. PICK none \in Text : none = << >>
  BY <1>2
<1>4. Read!Folded(Append(line, Tick)) = Quoted(ws, none)
  BY <1>1, <1>3
<1>5. /\ line \o ShellQuote(word) \in Text
      /\ Read!Folded(line \o ShellQuote(word)) = Bare(ws, none \o word)
  BY <1>4, QuotedWord
<1>6. QED
  BY <1>2, <1>3, <1>5

-----------------------------------------------------------------------------
(* Command lists.                                                          *)

\* One more word of the list is one more step of the join.
LEMMA JoinStep ==
  ASSUME NEW cmd \in Seq(Text), NEW part \in Text
  PROVE  Join!Folded(Append(cmd, part)) = JoinWord(Join!Folded(cmd), part)
  BY Join!FoldedAppend

\* A line with a quoted word is not empty.
LEMMA QuoteNotEmpty ==
  ASSUME NEW line \in Text, NEW word \in Text
  PROVE  line \o ShellQuote(word) # << >>
<1>1. ShellQuote(word) \in Text /\ ShellQuote(word) # << >>
  <2>1. ShellQuote(word) = Append(<<Tick>> \o Quote!Folded(word), Tick)
    BY ShellQuoteFold, QuoteType, JoinOne, TextFacts, CharFacts
  <2>2. <<Tick>> \o Quote!Folded(word) \in Text
    BY QuoteType, TextFacts, CharFacts
  <2>3. QED
    BY <2>1, <2>2, TextFacts, CharFacts
<1>2. QED
  BY <1>1, ConcatEqualIffEmpty DEF Text

\* Read to its end, the joined line is the list, its last word still open.
LEMMA JoinedReads ==
  \A cmd \in Seq(Text) : cmd # << >> =>
     /\ Join!Folded(cmd) \in Text
     /\ Join!Folded(cmd) # << >>
     /\ \E ws \in Seq(Text), w \in Text :
          Read!Folded(Join!Folded(cmd)) = Bare(ws, w) /\ Append(ws, w) = cmd
<1> DEFINE Good(cmd) ==
             /\ Join!Folded(cmd) \in Text
             /\ Join!Folded(cmd) # << >>
             /\ \E ws \in Seq(Text), w \in Text :
                  Read!Folded(Join!Folded(cmd)) = Bare(ws, w) /\ Append(ws, w) = cmd
           T == {cmd \in Seq(Text) : cmd # << >> => Good(cmd)}
<1>1. << >> \in T
  OBVIOUS
<1>2. ASSUME NEW cmd \in T, NEW part \in Text PROVE Append(cmd, part) \in T
  <2>1. Append(cmd, part) \in Seq(Text) /\ cmd \in Seq(Text)
    OBVIOUS
  <2>2. CASE cmd = << >>
    <3>1. Join!Folded(Append(cmd, part)) = << >> \o ShellQuote(part)
      BY <2>2, JoinStep, Join!FoldedEmpty DEF JoinWord
    <3>2. Read!Folded(<< >>) = Between(<< >>) /\ << >> \in Seq(Text)
      BY Read!FoldedEmpty, ReadCases
    <3>3. << >> \o part = part /\ << >> \in Text
      BY TextFacts
    <3>4. /\ << >> \o ShellQuote(part) \in Text
          /\ Read!Folded(<< >> \o ShellQuote(part)) = Bare(<< >>, part)
      BY <3>2, <3>3, QuotedFirst
    <3>5. << >> \o ShellQuote(part) # << >>
      BY <3>3, QuoteNotEmpty
    <3>6. QED
      BY <2>1, <2>2, <3>1, <3>2, <3>4, <3>5
  <2>3. CASE cmd # << >>
    <3>1. PICK ws \in Seq(Text), w \in Text :
             Read!Folded(Join!Folded(cmd)) = Bare(ws, w) /\ Append(ws, w) = cmd
      BY <2>3
    <3> DEFINE out == Join!Folded(cmd)
               line == Append(out, Space)
    <3>2. out \in Text /\ out # << >>
      BY <2>3
    <3>3. Join!Folded(Append(cmd, part)) = line \o ShellQuote(part)
      BY <2>1, <3>2, JoinStep, JoinOne, CharFacts DEF JoinWord, Space
    <3> HIDE DEF out
    <3>4. line \in Text
      BY <3>2, TextFacts, CharFacts
    <3>5. Read!Folded(line) = Between(cmd)
      <4>1. Read!Folded(line) = ReadChar(Read!Folded(out), Space)
        BY <3>2, FoldSteps, CharFacts
      <4>2. Read!Folded(out) = Bare(ws, w)
        BY <3>1 DEF out
      <4>3. ReadChar(Bare(ws, w), Space) = Between(Append(ws, w))
        BY ReadCases
      <4>4. QED
        BY <3>1, <4>1, <4>2, <4>3
    <3> HIDE DEF line
    <3>6. /\ line \o ShellQuote(part) \in Text
          /\ Read!Folded(line \o ShellQuote(part)) = Bare(cmd, part)
      BY <2>1, <3>4, <3>5, QuotedFirst
    <3>7. line \o ShellQuote(part) # << >>
      BY <3>4, QuoteNotEmpty
    <3>8. QED
      BY <2>1, <3>3, <3>6, <3>7
  <2>4. QED
    BY <2>2, <2>3
<1>3. T = Seq(Text)
  <2>1. T \in SUBSET Seq(Text)
    OBVIOUS
  <2> HIDE DEF T
  <2>2. QED
    BY <1>1, <1>2, <2>1, Read!SeqSetInduction
<1>4. QED
  BY <1>3

(***************************************************************************)
(* Quoted and joined by buildCmd, a command list of at least two words is  *)
(* read by the shell as that list: no character of any word is lost, adds  *)
(* a word or splits one (sandboxes.go:197-228).                            *)
(***************************************************************************)
THEOREM QuotingRoundTrip ==
  \A cmd \in Seq(Text) : Len(cmd) > 1 => ShellWords(BuildCmd(cmd)) = cmd
<1>1. SUFFICES ASSUME NEW cmd \in Seq(Text), Len(cmd) > 1
               PROVE  ShellWords(BuildCmd(cmd)) = cmd
  OBVIOUS
<1>2. BuildCmd(cmd) = Join!Folded(cmd)
  <2>1. Len(cmd) \in Nat /\ Len(cmd) # 1
    BY <1>1
  <2>2. QED
    BY <2>1, BuildCmdFold
<1>3. cmd # << >>
  BY <1>1
<1>4. PICK ws \in Seq(Text), w \in Text :
         Read!Folded(Join!Folded(cmd)) = Bare(ws, w) /\ Append(ws, w) = cmd
  BY <1>3, JoinedReads
<1>5. QED
  BY <1>2, <1>4, ShellWordsFold, ReadCases

-----------------------------------------------------------------------------
(* Lines without quotes: a plain word is read as it stands.                *)

Blank(p) == \E i \in DOMAIN p : ~Ordinary(p[i])

\* A text of ordinary characters has no other before its last one.
LEMMA BlankAppend ==
  ASSUME NEW p \in Text, NEW c \in Chars, ~Blank(Append(p, c))
  PROVE  ~Blank(p) /\ Ordinary(c)
<1>1. Len(p) + 1 \in DOMAIN Append(p, c) /\ Append(p, c)[Len(p) + 1] = c
  BY AppendProperties, LenProperties DEF Text
<1>2. \A i \in DOMAIN p : i \in DOMAIN Append(p, c) /\ Append(p, c)[i] = p[i]
  BY AppendProperties, LenProperties DEF Text
<1>3. QED
  BY <1>1, <1>2 DEF Blank

\* A text of ordinary characters is one word of the shell, as it stands.
LEMMA PlainWord ==
  \A p \in Text : p # << >> /\ ~Blank(p) => ShellWords(p) = <<p>>
<1> DEFINE Good(p) == p # << >> /\ ~Blank(p) => Read!Folded(p) = Bare(<< >>, p)
           T == {p \in Text : Good(p)}
<1>1. << >> \in T
  BY TextFacts
<1>2. ASSUME NEW p \in T, NEW c \in Chars PROVE Append(p, c) \in T
  <2>1. SUFFICES ASSUME ~Blank(Append(p, c))
                 PROVE  Read!Folded(Append(p, c)) = Bare(<< >>, Append(p, c))
    BY TextFacts
  <2>2. ~Blank(p) /\ Ordinary(c)
    BY <2>1, BlankAppend
  <2>3. CASE p = << >>
    <3>1. Read!Folded(p) = Between(<< >>)
      BY <2>3, Read!FoldedEmpty, ReadCases
    <3>2. Read!Folded(Append(p, c)) = ReadChar(Between(<< >>), c)
      BY <3>1, FoldSteps
    <3>3. ReadChar(Between(<< >>), c) = Bare(<< >>, Append(<< >>, c))
      BY <2>2, ReadCases
    <3>4. QED
      BY <2>3, <3>2, <3>3
  <2>4. CASE p # << >>
    BY <2>2, <2>4, FoldSteps, ReadCases
  <2>5. QED
    BY <2>3, <2>4
<1>3. T = Text
  <2>1. T \in SUBSET Text
    OBVIOUS
  <2> HIDE DEF T
  <2>2. QED
    BY <1>1, <1>2, <2>1, TextInduction
<1>4. QED
  <2>1. SUFFICES ASSUME NEW p \in Text, p # << >>, ~Blank(p)
                 PROVE  ShellWords(p) = <<p>>
    OBVIOUS
  <2>2. Read!Folded(p) = Bare(<< >>, p)
    BY <1>3, <2>1
  <2>3. ShellWords(p) = Append(<< >>, p)
    BY <2>2, ShellWordsFold, ReadCases
  <2>4. QED
    BY <2>3

\* Once lost the reader stays lost.
LEMMA LostStays == \A ws, w, b, c : ReadChar(Lost(ws, w, b), c) = Lost(ws, w, b)
  BY DEF ReadChar, Lost, In

\* The reader is between two words, in one or lost, and has read texts.
Reading(s) ==
  \E ws \in Seq(Text), w \in Text, begun \in BOOLEAN :
     s \in {Between(ws), Bare(ws, w), Quoted(ws, w), Slashed(ws, w), Lost(ws, w, begun)}

\* Whatever is read, the reader has read texts.
LEMMA ReadingStep ==
  ASSUME NEW s, Reading(s), NEW c \in Chars
  PROVE  Reading(ReadChar(s, c))
<1>1. PICK ws \in Seq(Text), w \in Text, begun \in BOOLEAN :
         s \in {Between(ws), Bare(ws, w), Quoted(ws, w), Slashed(ws, w), Lost(ws, w, begun)}
  BY DEF Reading
<1>2. PICK none \in Text : none = << >>
  BY TextFacts
<1>3. Append(ws, w) \in Seq(Text) /\ Append(w, c) \in Text /\ Append(none, c) \in Text
  BY TextFacts
<1>4. \A vs \in Seq(Text), v \in Text :
         /\ Reading(Between(vs)) /\ Reading(Bare(vs, v))
         /\ Reading(Quoted(vs, v)) /\ Reading(Slashed(vs, v))
         /\ Reading(Lost(vs, v, TRUE)) /\ Reading(Lost(vs, v, FALSE))
  BY DEF Reading
<1>10. CASE s = Lost(ws, w, begun)
  <2>1. ReadChar(s, c) = s
    BY <1>10, LostStays, Zenon
  <2>2. QED
    BY <2>1
<1>5. CASE s = Slashed(ws, w)
  <2>1. ReadChar(s, c) \in {Bare(ws, Append(w, c)), Lost(ws, w, TRUE)}
    BY <1>5, LostCases
  <2>2. QED
    BY <1>3, <1>4, <2>1
<1>6. CASE s = Quoted(ws, w)
  <2>1. ReadChar(Quoted(ws, w), c) \in {Bare(ws, w), Quoted(ws, Append(w, c))}
    <3>1. ReadChar(Quoted(ws, w), Tick) = Bare(ws, w)
      BY ReadCases
    <3>2. c # Tick => ReadChar(Quoted(ws, w), c) = Quoted(ws, Append(w, c))
      BY ReadCases
    <3>3. QED
      BY <3>1, <3>2
  <2>2. QED
    BY <1>3, <1>4, <1>6, <2>1
<1>7. CASE s = Bare(ws, w)
  <2>1. ReadChar(Bare(ws, w), c) \in
          {Quoted(ws, w), Slashed(ws, w), Between(Append(ws, w)), Bare(ws, Append(w, c)),
           Lost(ws, w, TRUE)}
    <3>1. CASE c \in {Tick, Back, Space}
      <4>1. /\ ReadChar(Bare(ws, w), Tick) = Quoted(ws, w)
            /\ ReadChar(Bare(ws, w), Back) = Slashed(ws, w)
            /\ ReadChar(Bare(ws, w), Space) = Between(Append(ws, w))
        BY ReadCases
      <4>2. QED
        BY <3>1, <4>1
    <3>2. CASE Ordinary(c)
      <4>1. ReadChar(Bare(ws, w), c) = Bare(ws, Append(w, c))
        BY <3>2, ReadCases
      <4>2. QED
        BY <4>1
    <3>3. CASE c \in Specials
      <4>1. ReadChar(Bare(ws, w), c) = Lost(ws, w, TRUE)
        BY <3>3, LostCases
      <4>2. QED
        BY <4>1
    <3>4. QED
      BY <3>1, <3>2, <3>3 DEF Ordinary
  <2>2. QED
    BY <1>3, <1>4, <1>7, <2>1
<1>8. CASE s = Between(ws)
  <2>1. ReadChar(Between(ws), c) \in
          {Quoted(ws, none), Slashed(ws, none), Between(ws), Bare(ws, Append(none, c)),
           Lost(ws, none, FALSE)}
    <3>1. CASE c \in {Tick, Back, Space}
      BY <1>2, <3>1, ReadCases
    <3>2. CASE Ordinary(c)
      BY <1>2, <3>2, ReadCases
    <3>3. CASE c \in Specials
      BY <1>2, <3>3, LostCases
    <3>4. QED
      BY <3>1, <3>2, <3>3 DEF Ordinary
  <2>2. QED
    BY <1>3, <1>4, <1>8, <2>1
<1>9. QED
  BY <1>1, <1>5, <1>6, <1>7, <1>8, <1>10

\* At the end of the line the words are texts.
LEMMA EndedType ==
  ASSUME NEW s, Reading(s)
  PROVE  Ended(s) \in Seq(Text)
<1>1. PICK ws \in Seq(Text), w \in Text, begun \in BOOLEAN :
         s \in {Between(ws), Bare(ws, w), Quoted(ws, w), Slashed(ws, w), Lost(ws, w, begun)}
  BY DEF Reading
<1>2. /\ Ended(Between(ws)) = ws /\ Ended(Bare(ws, w)) = Append(ws, w)
      /\ Ended(Quoted(ws, w)) = Append(ws, w) /\ Ended(Slashed(ws, w)) = Append(ws, w)
      /\ Ended(Lost(ws, w, begun)) \in {ws, Append(ws, w)}
  BY DEF Ended, In, Between, Bare, Quoted, Slashed, Lost
<1>3. QED
  BY <1>1, <1>2

\* The words of any line are texts.
LEMMA WordsType == \A line \in Text : ShellWords(line) \in Seq(Text)
<1> DEFINE T == {line \in Text : Reading(Read!Folded(line))}
<1>1. << >> \in T
  <2>1. Read!Folded(<< >>) = Between(<< >>)
    BY Read!FoldedEmpty, ReadCases
  <2>2. \A ws \in Seq(Text) : Reading(Between(ws))
    BY TextFacts DEF Reading
  <2>3. << >> \in Seq(Text)
    OBVIOUS
  <2>4. QED
    BY <2>1, <2>2, <2>3, TextFacts
<1>2. ASSUME NEW line \in T, NEW c \in Chars PROVE Append(line, c) \in T
  BY FoldSteps, ReadingStep, TextFacts
<1>3. T = Text
  <2>1. T \in SUBSET Text
    OBVIOUS
  <2> HIDE DEF T
  <2>2. QED
    BY <1>1, <1>2, <2>1, TextInduction
<1>4. QED
  BY <1>3, ShellWordsFold, EndedType

-----------------------------------------------------------------------------
(* The last position of a kind.                                            *)

LastIn(S) == IF S # {} THEN Max(S) ELSE 0

\* A set of positions that is not empty has a last one.
LEMMA MaxExists ==
  ASSUME NEW n \in Nat, NEW S \in SUBSET (1..n), S # {}
  PROVE  \E k \in S : \A m \in S : k >= m
<1> DEFINE Good(k) == \A U \in SUBSET (1..k) :
                        U # {} => \E l \in U : \A m \in U : l >= m
           T == {k \in Nat : Good(k)}
<1>1. 0 \in T
  <2>1. \A U \in SUBSET (1..0) : U = {}
    OBVIOUS
  <2>2. QED
    BY <2>1
<1>2. ASSUME NEW k \in T PROVE k + 1 \in T
  <2>1. SUFFICES ASSUME NEW U \in SUBSET (1..k+1), U # {}
                 PROVE  \E l \in U : \A m \in U : l >= m
    OBVIOUS
  <2>2. CASE k + 1 \in U
    BY <2>2
  <2>3. CASE k + 1 \notin U
    <3>1. U \in SUBSET (1..k)
      BY <2>3
    <3>2. QED
      BY <2>1, <3>1
  <2>4. QED
    BY <2>2, <2>3
<1>3. T = Nat
  <2>1. T \in SUBSET Nat
    OBVIOUS
  <2> HIDE DEF T
  <2>2. QED
    BY <1>1, <1>2, <2>1, Read!NatSetInduction
<1>4. QED
  BY <1>3

\* LastIn is the last position of the set, or 0.
LEMMA LastFacts ==
  ASSUME NEW n \in Nat, NEW S \in SUBSET (1..n)
  PROVE  /\ LastIn(S) \in 0..n
         /\ \A m \in S : m <= LastIn(S)
         /\ LastIn(S) # 0 => LastIn(S) \in S
<1>1. CASE S = {}
  BY <1>1 DEF LastIn
<1>2. CASE S # {}
  <2>1. \E k \in S : \A m \in S : k >= m
    BY <1>2, MaxExists
  <2>2. Max(S) \in S /\ \A m \in S : Max(S) >= m
    BY <2>1 DEF Max
  <2>3. LastIn(S) = Max(S)
    BY <1>2 DEF LastIn
  <2> DEFINE last == Max(S)
  <2>4. last \in 1..n /\ last \in S /\ \A m \in S : m \in 1..n /\ last >= m
    BY <2>2
  <2> HIDE DEF last
  <2>5. last \in 0..n /\ \A m \in S : m <= last
    BY <2>4
  <2>6. QED
    BY <2>3, <2>4, <2>5 DEF last
<1>3. QED
  BY <1>1, <1>2

\* A new last position is the last one.
LEMMA LastGrows ==
  ASSUME NEW n \in Nat, NEW S \in SUBSET (1..n)
  PROVE  LastIn(S \cup {n + 1}) = n + 1
<1>1. S \cup {n + 1} \in SUBSET (1..n+1) /\ n + 1 \in Nat
  OBVIOUS
<1>2. /\ LastIn(S \cup {n + 1}) \in 0..n+1
      /\ n + 1 <= LastIn(S \cup {n + 1})
  BY <1>1, LastFacts
<1>3. QED
  BY <1>2

-----------------------------------------------------------------------------
(* LastSlash and TrimRight, one character at a time.                       *)

Slashes(p) == {i \in 1..Len(p) : p[i] = Slash}
Others(p)  == {i \in 1..Len(p) : p[i] # Slash}

\* LastSlash and TrimRight in those terms.
LEMMA Lasts ==
  \A p : LastSlash(p) = LastIn(Slashes(p)) /\ TrimRight(p) = SubSeq(p, 1, LastIn(Others(p)))
  BY DEF LastSlash, TrimRight, SelectLastInSeq, LastIn, Slashes, Others, Slash

\* One more character: the length, and what is where.
LEMMA LengthsAppend ==
  ASSUME NEW p \in Text, NEW c \in Chars
  PROVE  /\ Len(p) \in Nat
         /\ Len(Append(p, c)) = Len(p) + 1
         /\ \A i \in 1..Len(p) : Append(p, c)[i] = p[i]
         /\ Append(p, c)[Len(p) + 1] = c
  BY AppendProperties, LenProperties DEF Text

\* One more character: where the slashes are, and where the others.
LEMMA PositionsAppend ==
  ASSUME NEW p \in Text, NEW c \in Chars
  PROVE  /\ Slashes(Append(p, c)) =
              IF c = Slash THEN Slashes(p) \cup {Len(p) + 1} ELSE Slashes(p)
         /\ Others(Append(p, c)) =
              IF c = Slash THEN Others(p) ELSE Others(p) \cup {Len(p) + 1}
<1> DEFINE q == Append(p, c)
<1>1. /\ Len(p) \in Nat /\ Len(q) = Len(p) + 1
      /\ \A i \in 1..Len(p) : q[i] = p[i]
      /\ q[Len(p) + 1] = c
  BY LengthsAppend
<1> HIDE DEF q
<1>2. 1..Len(q) = 1..Len(p) \cup {Len(p) + 1}
  BY <1>1
<1>3. QED
  BY <1>1, <1>2 DEF Slashes, Others, q

\* One more character: the last slash.
LEMMA LastSlashAppend ==
  ASSUME NEW p \in Text, NEW c \in Chars
  PROVE  LastSlash(Append(p, c)) = IF c = Slash THEN Len(p) + 1 ELSE LastSlash(p)
<1>1. Slashes(p) \in SUBSET (1..Len(p)) /\ Len(p) \in Nat
  BY LengthsAppend DEF Slashes
<1>2. QED
  BY <1>1, Lasts, PositionsAppend, LastGrows

\* The last slash is in the path, or 0, and no slash comes after it.
LEMMA LastSlashType ==
  ASSUME NEW p \in Text
  PROVE  /\ LastSlash(p) \in 0..Len(p)
         /\ \A i \in 1..Len(p) : p[i] = Slash => i <= LastSlash(p)
         /\ Len(p) \in Nat
<1>1. Slashes(p) \in SUBSET (1..Len(p)) /\ Len(p) \in Nat
  BY LenProperties DEF Slashes, Text
<1>2. QED
  BY <1>1, Lasts, LastFacts DEF Slashes

\* An initial part is not changed by what comes after it.
LEMMA InitialPart ==
  ASSUME NEW p \in Text, NEW c \in Chars, NEW k \in 0..Len(p)
  PROVE  SubSeq(Append(p, c), 1, k) = SubSeq(p, 1, k) /\ SubSeq(p, 1, k) \in Text
<1>1. /\ Len(p) \in Nat /\ Len(Append(p, c)) = Len(p) + 1
      /\ \A i \in 1..Len(p) : Append(p, c)[i] = p[i]
  BY LengthsAppend
<1>2. Append(p, c) \in Text
  BY TextFacts
<1> DEFINE a == SubSeq(Append(p, c), 1, k)
           b == SubSeq(p, 1, k)
<1>3. a \in Text /\ Len(a) = k /\ \A i \in 1..k : a[i] = Append(p, c)[i]
  BY <1>1, <1>2, SubSeqProperties DEF Text
<1>4. b \in Text /\ Len(b) = k /\ \A i \in 1..k : b[i] = p[i]
  BY <1>1, SubSeqProperties DEF Text
<1> HIDE DEF a, b
<1>5. a = b
  BY <1>1, <1>3, <1>4, SeqEqual DEF Text
<1>6. QED
  BY <1>4, <1>5 DEF a, b

\* All of a text is the text.
LEMMA WholePart ==
  ASSUME NEW p \in Text
  PROVE  SubSeq(p, 1, Len(p)) = p
  BY SubSeqFull DEF Text

\* One more character: without the trailing slashes.
LEMMA TrimAppend ==
  ASSUME NEW p \in Text, NEW c \in Chars
  PROVE  TrimRight(Append(p, c)) = IF c = Slash THEN TrimRight(p) ELSE Append(p, c)
<1>1. Others(p) \in SUBSET (1..Len(p)) /\ Len(p) \in Nat
  BY LengthsAppend DEF Others
<1>2. LastIn(Others(p)) \in 0..Len(p)
  BY <1>1, LastFacts
<1>3. CASE c = Slash
  <2>1. TrimRight(Append(p, c)) = SubSeq(Append(p, c), 1, LastIn(Others(p)))
    BY <1>3, Lasts, PositionsAppend
  <2>2. TrimRight(p) = SubSeq(p, 1, LastIn(Others(p)))
    BY Lasts
  <2> DEFINE k == LastIn(Others(p))
  <2> HIDE DEF k
  <2>3. SubSeq(Append(p, c), 1, k) = SubSeq(p, 1, k)
    BY <1>2, InitialPart DEF k
  <2>4. QED
    BY <1>3, <2>1, <2>2, <2>3 DEF k
<1>4. CASE c # Slash
  <2>1. LastIn(Others(Append(p, c))) = Len(p) + 1
    BY <1>1, <1>4, PositionsAppend, LastGrows
  <2>2. SubSeq(Append(p, c), 1, Len(p) + 1) = Append(p, c)
    BY WholePart, TextFacts, LengthsAppend
  <2>3. QED
    BY <1>4, <2>1, <2>2, Lasts
<1>5. QED
  BY <1>3, <1>4

-----------------------------------------------------------------------------
(* The names of a path.                                                    *)

\* The state of the walk over a path, and its text after the last slash.
Walk(names, name) == [names |-> names, name |-> name]
Leaf(p) == SubSeq(p, LastSlash(p) + 1, Len(p))

\* The walk, by the next character.
LEMMA WalkCases ==
  ASSUME NEW ns, NEW n
  PROVE  /\ PathChar(Walk(ns, n), Slash) =
              Walk(IF n = << >> THEN ns ELSE Append(ns, n), << >>)
         /\ \A c : c # Slash => PathChar(Walk(ns, n), c) = Walk(ns, Append(n, c))
         /\ Named(Walk(ns, n)) = IF n = << >> THEN ns ELSE Append(ns, n)
         /\ PathStart = Walk(<< >>, << >>)
  BY DEF PathChar, Walk, Named, PathStart, Slash

\* The text after the last slash.
LEMMA LeafType ==
  ASSUME NEW p \in Text
  PROVE  /\ Leaf(p) \in Text
         /\ Len(Leaf(p)) = Len(p) - LastSlash(p)
         /\ \A i \in 1..Len(Leaf(p)) : Leaf(p)[i] = p[LastSlash(p) + i]
<1>1. LastSlash(p) \in 0..Len(p) /\ Len(p) \in Nat /\ \A i \in 1..Len(p) : p[i] \in Chars
  BY LastSlashType, LenProperties DEF Text
<1> DEFINE k == LastSlash(p)
           n == Len(p)
<1>2. \A i \in k+1..n : p[i] \in Chars
  BY <1>1
<1>3. /\ SubSeq(p, k + 1, n) \in Seq(Chars)
      /\ Len(SubSeq(p, k + 1, n)) = IF k + 1 <= n THEN n - (k + 1) + 1 ELSE 0
      /\ \A i \in 1..n - (k + 1) + 1 : SubSeq(p, k + 1, n)[i] = p[k + 1 + i - 1]
  <2>1. k + 1 \in Int /\ n \in Int
    BY <1>1
  <2> HIDE DEF k, n
  <2>2. QED
    BY <1>2, <2>1, SubSeqProperties
<1>4. Len(Leaf(p)) = n - k
  BY <1>1, <1>3 DEF Leaf
<1>5. ASSUME NEW i \in 1..Len(Leaf(p)) PROVE Leaf(p)[i] = p[k + i]
  <2>1. i \in 1..n - (k + 1) + 1 /\ k + 1 + i - 1 = k + i
    BY <1>1, <1>4
  <2>2. SubSeq(p, k + 1, n)[i] = p[k + 1 + i - 1]
    BY <1>3, <2>1
  <2>3. QED
    BY <2>1, <2>2 DEF Leaf
<1>6. QED
  BY <1>3, <1>4, <1>5 DEF Leaf, Text

\* One more character: the text after the last slash.
LEMMA LeafAppend ==
  ASSUME NEW p \in Text, NEW c \in Chars
  PROVE  Leaf(Append(p, c)) = IF c = Slash THEN << >> ELSE Append(Leaf(p), c)
<1> DEFINE q == Append(p, c)
<1>1. /\ Len(p) \in Nat /\ Len(q) = Len(p) + 1
      /\ \A i \in 1..Len(p) : q[i] = p[i]
      /\ q[Len(p) + 1] = c /\ q \in Text
      /\ LastSlash(p) \in 0..Len(p)
      /\ LastSlash(q) = IF c = Slash THEN Len(p) + 1 ELSE LastSlash(p)
  BY LengthsAppend, TextFacts, LastSlashType, LastSlashAppend
<1> HIDE DEF q
<1>2. Leaf(q) \in Text /\ Len(Leaf(q)) = Len(q) - LastSlash(q)
        /\ \A i \in 1..Len(Leaf(q)) : Leaf(q)[i] = q[LastSlash(q) + i]
  BY <1>1, LeafType
<1>3. CASE c = Slash
  <2>1. Len(Leaf(q)) = 0
    BY <1>1, <1>2, <1>3
  <2>2. Leaf(q) = << >>
    BY <1>2, <2>1, EmptySeq DEF Text
  <2>3. QED
    BY <1>3, <2>2 DEF q
<1>4. CASE c # Slash
  <2>1. /\ Leaf(p) \in Text /\ Len(Leaf(p)) = Len(p) - LastSlash(p)
        /\ \A i \in 1..Len(Leaf(p)) : Leaf(p)[i] = p[LastSlash(p) + i]
    BY LeafType
  <2> DEFINE r == Append(Leaf(p), c)
  <2>2. /\ r \in Text /\ Len(r) = Len(Leaf(p)) + 1
        /\ \A i \in 1..Len(Leaf(p)) : r[i] = Leaf(p)[i]
        /\ r[Len(Leaf(p)) + 1] = c
    BY <2>1, LengthsAppend, TextFacts
  <2> HIDE DEF r
  <2>3. Len(Leaf(q)) = Len(r)
    BY <1>1, <1>2, <1>4, <2>1, <2>2
  <2>4. ASSUME NEW i \in 1..Len(r) PROVE Leaf(q)[i] = r[i]
    <3>1. Leaf(q)[i] = q[LastSlash(p) + i]
      BY <1>1, <1>2, <1>4, <2>3
    <3>2. CASE i = Len(r)
      BY <1>1, <2>1, <2>2, <3>1, <3>2
    <3>3. CASE i # Len(r)
      BY <1>1, <2>1, <2>2, <3>1, <3>3
    <3>4. QED
      BY <3>2, <3>3
  <2>5. Leaf(q) = r
    BY <1>2, <2>2, <2>3, <2>4, SeqEqual DEF Text
  <2>6. QED
    BY <1>4, <2>5 DEF q, r
<1>5. QED
  BY <1>3, <1>4

\* One more character: the part up to the last slash.
LEMMA ParentAppend ==
  ASSUME NEW p \in Text, NEW c \in Chars
  PROVE  /\ ParentDir(Append(p, c)) = IF c = Slash THEN Append(p, c) ELSE ParentDir(p)
         /\ ParentDir(p) \in Text
<1>1. LastSlash(p) \in 0..Len(p)
  BY LastSlashType
<1>2. SubSeq(Append(p, c), 1, LastSlash(p)) = SubSeq(p, 1, LastSlash(p))
        /\ SubSeq(p, 1, LastSlash(p)) \in Text
  BY <1>1, InitialPart
<1>3. CASE c = Slash
  BY <1>2, <1>3, LastSlashAppend, LengthsAppend, WholePart, TextFacts DEF ParentDir
<1>4. CASE c # Slash
  BY <1>2, <1>4, LastSlashAppend DEF ParentDir
<1>5. QED
  BY <1>3, <1>4

\* All of this for the empty text.
LEMMA TextEmpty ==
  /\ Len(<< >>) = 0 /\ LastSlash(<< >>) = 0
  /\ ParentDir(<< >>) = << >> /\ TrimRight(<< >>) = << >> /\ Leaf(<< >>) = << >>
<1>1. Len(<< >>) = 0
  OBVIOUS
<1>2. Slashes(<< >>) = {} /\ Others(<< >>) = {}
  BY <1>1 DEF Slashes, Others
<1>3. LastSlash(<< >>) = 0 /\ TrimRight(<< >>) = SubSeq(<< >>, 1, 0)
  BY <1>2, Lasts DEF LastIn
<1>4. SubSeq(<< >>, 1, 0) = << >>
  BY SubSeqEmpty
<1>5. QED
  BY <1>1, <1>3, <1>4 DEF ParentDir, Leaf

\* The part up to the last slash is a text.
LEMMA ParentType == \A p \in Text : ParentDir(p) \in Text
  BY ParentAppend, CharFacts

\* The walk over a path has the names up to the last slash, and the rest.
LEMMA WalkSplits ==
  \A p \in Text : Path!Folded(p) = Walk(Components(ParentDir(p)), Leaf(p))
<1> DEFINE T == {p \in Text : Path!Folded(p) = Walk(Components(ParentDir(p)), Leaf(p))}
<1>1. << >> \in T
  <2>1. Path!Folded(<< >>) = Walk(<< >>, << >>)
    BY Path!FoldedEmpty, WalkCases
  <2>2. Components(<< >>) = << >>
    BY <2>1, ComponentsFold, WalkCases
  <2>3. QED
    BY <2>1, <2>2, TextEmpty, TextFacts
<1>2. ASSUME NEW p \in T, NEW c \in Chars PROVE Append(p, c) \in T
  <2> DEFINE ns == Components(ParentDir(p))
             n == Leaf(p)
  <2>1. Path!Folded(p) = Walk(ns, n) /\ p \in Text /\ Append(p, c) \in Text
    BY TextFacts
  <2>2. Path!Folded(Append(p, c)) = PathChar(Walk(ns, n), c)
    BY <2>1, FoldSteps
  <2> HIDE DEF ns, n
  <2>3. CASE c = Slash
    <3>1. Path!Folded(Append(p, c)) =
            Walk(IF n = << >> THEN ns ELSE Append(ns, n), << >>)
      BY <2>2, <2>3, WalkCases
    <3>2. Named(Walk(IF n = << >> THEN ns ELSE Append(ns, n), << >>)) =
            IF n = << >> THEN ns ELSE Append(ns, n)
      BY WalkCases
    <3>3. Components(Append(p, c)) = IF n = << >> THEN ns ELSE Append(ns, n)
      BY <3>1, <3>2, ComponentsFold
    <3>4. ParentDir(Append(p, c)) = Append(p, c) /\ Leaf(Append(p, c)) = << >>
      BY <2>1, <2>3, ParentAppend, LeafAppend
    <3>5. QED
      BY <2>1, <3>1, <3>3, <3>4
  <2>4. CASE c # Slash
    <3>1. ParentDir(Append(p, c)) = ParentDir(p) /\ Leaf(Append(p, c)) = Append(n, c)
      BY <2>1, <2>4, ParentAppend, LeafAppend DEF n
    <3>2. Path!Folded(Append(p, c)) = Walk(ns, Append(n, c))
      BY <2>2, <2>4, WalkCases
    <3>3. QED
      BY <2>1, <3>1, <3>2 DEF ns
  <2>5. QED
    BY <2>3, <2>4
<1>3. T = Text
  <2>1. T \in SUBSET Text
    OBVIOUS
  <2> HIDE DEF T
  <2>2. QED
    BY <1>1, <1>2, <2>1, TextInduction
<1>4. QED
  BY <1>3

(***************************************************************************)
(* The names of a path are those of its part up to the last slash, and the *)
(* text after it, if there is any.                                         *)
(***************************************************************************)
LEMMA ComponentsSplit ==
  \A p \in Text :
     Components(p) = IF Leaf(p) = << >> THEN Components(ParentDir(p))
                     ELSE Append(Components(ParentDir(p)), Leaf(p))
<1>1. SUFFICES ASSUME NEW p \in Text
      PROVE Components(p) = IF Leaf(p) = << >> THEN Components(ParentDir(p))
                            ELSE Append(Components(ParentDir(p)), Leaf(p))
  OBVIOUS
<1>2. Components(p) = Named(Walk(Components(ParentDir(p)), Leaf(p)))
  BY ComponentsFold, WalkSplits
<1>3. QED
  BY <1>2, WalkCases

-----------------------------------------------------------------------------
(* Places.                                                                 *)

Places == Seq(Text)
HasName(p) == \E i \in DOMAIN p : p[i] # Slash

\* A trailing slash adds no name.
LEMMA SlashAdds ==
  ASSUME NEW p \in Text
  PROVE  Components(Append(p, Slash)) = Components(p)
<1> DEFINE ns == Components(ParentDir(p))
           n == Leaf(p)
<1>1. Path!Folded(p) = Walk(ns, n)
  BY WalkSplits
<1>2. Path!Folded(Append(p, Slash)) = PathChar(Walk(ns, n), Slash)
  BY <1>1, FoldSteps, CharFacts
<1> HIDE DEF ns, n
<1>3. PathChar(Walk(ns, n), Slash) =
        Walk(IF n = << >> THEN ns ELSE Append(ns, n), << >>)
  BY WalkCases
<1>4. Named(Walk(IF n = << >> THEN ns ELSE Append(ns, n), << >>)) =
        IF n = << >> THEN ns ELSE Append(ns, n)
  BY WalkCases
<1>5. Named(Walk(ns, n)) = IF n = << >> THEN ns ELSE Append(ns, n)
  BY WalkCases
<1>6. QED
  BY <1>1, <1>2, <1>3, <1>4, <1>5, ComponentsFold

\* The empty path has no names.
LEMMA ComponentsEmpty == Components(<< >>) = << >>
<1>1. Path!Folded(<< >>) = Walk(<< >>, << >>)
  BY Path!FoldedEmpty, WalkCases
<1>2. QED
  BY <1>1, ComponentsFold, WalkCases

\* The names of a path are texts.
LEMMA ComponentsType == \A p \in Text : Components(p) \in Places
<1> DEFINE T == {p \in Text : Components(ParentDir(p)) \in Places}
<1>1. << >> \in T
  <2>1. Components(ParentDir(<< >>)) = Components(<< >>)
    BY TextEmpty
  <2>2. << >> \in Places
    BY DEF Places
  <2>3. QED
    BY <2>1, <2>2, ComponentsEmpty, TextFacts
<1>2. ASSUME NEW p \in T PROVE Components(p) \in Places
  <2>1. p \in Text /\ Components(ParentDir(p)) \in Places /\ Leaf(p) \in Text
    BY LeafType
  <2>2. Append(Components(ParentDir(p)), Leaf(p)) \in Places
    BY <2>1, AppendProperties DEF Places
  <2>3. QED
    BY <2>1, <2>2, ComponentsSplit
<1>3. ASSUME NEW p \in T, NEW c \in Chars PROVE Append(p, c) \in T
  <2>1. p \in Text /\ Append(p, c) \in Text /\ Components(p) \in Places
    BY <1>2, TextFacts
  <2>2. CASE c = Slash
    BY <2>1, <2>2, ParentAppend, SlashAdds
  <2>3. CASE c # Slash
    BY <2>1, <2>3, ParentAppend
  <2>4. QED
    BY <2>2, <2>3
<1>4. T = Text
  <2>1. T \in SUBSET Text
    OBVIOUS
  <2> HIDE DEF T
  <2>2. QED
    BY <1>1, <1>3, <2>1, TextInduction
<1>5. QED
  BY <1>2, <1>4

\* A slash is no name.
LEMMA HasNameAppend ==
  ASSUME NEW p \in Text, HasName(Append(p, Slash))
  PROVE  HasName(p)
<1>1. PICK i \in DOMAIN Append(p, Slash) : Append(p, Slash)[i] # Slash
  BY DEF HasName
<1>2. /\ Len(p) \in Nat /\ Len(Append(p, Slash)) = Len(p) + 1
      /\ \A k \in 1..Len(p) : Append(p, Slash)[k] = p[k]
      /\ Append(p, Slash)[Len(p) + 1] = Slash
  BY LengthsAppend, CharFacts
<1>3. DOMAIN Append(p, Slash) = 1..Len(p) + 1 /\ DOMAIN p = 1..Len(p)
  BY <1>2, LenProperties, TextFacts, CharFacts DEF Text
<1>4. i \in 1..Len(p)
  BY <1>1, <1>2, <1>3
<1>5. QED
  BY <1>1, <1>2, <1>3, <1>4 DEF HasName

(***************************************************************************)
(* Without its trailing slashes a path has the same names, and the last of *)
(* them is the text after its last slash.                                  *)
(***************************************************************************)
LEMMA TrimFacts ==
  \A p \in Text :
     /\ TrimRight(p) \in Text
     /\ Components(TrimRight(p)) = Components(p)
     /\ TrimRight(p) # << >> => Leaf(TrimRight(p)) # << >>
     /\ HasName(p) => TrimRight(p) # << >>
<1> DEFINE Good(p) ==
             /\ TrimRight(p) \in Text
             /\ Components(TrimRight(p)) = Components(p)
             /\ TrimRight(p) # << >> => Leaf(TrimRight(p)) # << >>
             /\ HasName(p) => TrimRight(p) # << >>
           T == {p \in Text : Good(p)}
<1>1. << >> \in T
  <2>1. ~HasName(<< >>)
    BY DEF HasName
  <2>2. QED
    BY <2>1, TextEmpty, TextFacts
<1>2. ASSUME NEW p \in T, NEW c \in Chars PROVE Append(p, c) \in T
  <2>1. p \in Text /\ Append(p, c) \in Text /\ Append(p, c) # << >> /\ Good(p)
    BY TextFacts
  <2>2. CASE c = Slash
    <3>1. TrimRight(Append(p, c)) = TrimRight(p)
      BY <2>1, <2>2, TrimAppend
    <3>2. Components(Append(p, c)) = Components(p)
      BY <2>1, <2>2, SlashAdds
    <3>3. HasName(Append(p, c)) => HasName(p)
      BY <2>1, <2>2, HasNameAppend
    <3>4. QED
      BY <2>1, <3>1, <3>2, <3>3
  <2>3. CASE c # Slash
    <3>1. TrimRight(Append(p, c)) = Append(p, c)
      BY <2>1, <2>3, TrimAppend
    <3>2. Leaf(Append(p, c)) = Append(Leaf(p), c) /\ Leaf(p) \in Text
      BY <2>1, <2>3, LeafAppend, LeafType
    <3>3. Leaf(Append(p, c)) # << >>
      BY <3>2, TextFacts
    <3>4. QED
      BY <2>1, <3>1, <3>3
  <2>4. QED
    BY <2>2, <2>3
<1>3. T = Text
  <2>1. T \in SUBSET Text
    OBVIOUS
  <2> HIDE DEF T
  <2>2. QED
    BY <1>1, <1>2, <2>1, TextInduction
<1>4. QED
  BY <1>3

\* Seen from the root, the place of a path is its names.
LEMMA PlaceIs ==
  ASSUME NEW p \in Text
  PROVE  /\ Place(<< >>, p) = Components(p)
         /\ \A base \in Places : Place(base, p) \in Places
<1>1. Components(p) \in Places
  BY ComponentsType
<1>2. << >> \o Components(p) = Components(p)
  BY <1>1, ConcatEmptySeq DEF Places
<1>3. \A base \in Places : base \o Components(p) \in Places
  BY <1>1, ConcatProperties DEF Places
<1>4. QED
  BY <1>1, <1>2, <1>3 DEF Place

\* The directory and the base of a path, as names.
LEMMA DirOfIs ==
  ASSUME NEW p \in Text
  PROVE  /\ DirOf(p) \in Text
         /\ Components(DirOf(p)) = Components(ParentDir(TrimRight(p)))
         /\ Basename(p) = Leaf(TrimRight(p))
<1> DEFINE t == TrimRight(p)
<1>1. t \in Text
  BY TrimFacts
<1>2. DirOf(p) = IF LastSlash(t) > 0 THEN ParentDir(t) ELSE <<Slash>>
  BY DEF DirOf, ParentDir, Slash
<1>3. Basename(p) = Leaf(t)
  BY DEF Basename, Leaf
<1> HIDE DEF t
<1>4. ParentDir(t) \in Text /\ LastSlash(t) \in 0..Len(t) /\ Len(t) \in Nat
  BY <1>1, ParentType, LastSlashType
<1>5. CASE LastSlash(t) > 0
  BY <1>2, <1>3, <1>4, <1>5 DEF t
<1>6. CASE ~(LastSlash(t) > 0)
  <2>1. LastSlash(t) = 0
    BY <1>4, <1>6
  <2>2. ParentDir(t) = << >>
    BY <2>1, SubSeqEmpty DEF ParentDir
  <2>3. <<Slash>> = Append(<< >>, Slash)
    OBVIOUS
  <2>4. Components(<<Slash>>) = Components(<< >>)
    BY <2>3, SlashAdds, TextFacts
  <2>5. <<Slash>> \in Text
    BY TextFacts, CharFacts
  <2>6. QED
    BY <1>2, <1>3, <1>6, <2>2, <2>4, <2>5 DEF t
<1>7. QED
  BY <1>5, <1>6

(***************************************************************************)
(* WriteFile of the driver splits a path in a directory and a base name,   *)
(* after trimming it: put together again, they are the place the path      *)
(* names, for every path that is not slashes only (docker.go:453-470).     *)
(***************************************************************************)
THEOREM SamePlace ==
  ASSUME NEW p \in Text, HasName(p)
  PROVE  /\ Place(<< >>, DirOf(p)) \in Places
         /\ Basename(p) \in Text
         /\ Append(Place(<< >>, DirOf(p)), Basename(p)) = Place(<< >>, p)
<1> DEFINE t == TrimRight(p)
<1>1. /\ t \in Text /\ Components(t) = Components(p)
      /\ Leaf(t) # << >> /\ Leaf(t) \in Text
  BY TrimFacts, LeafType
<1>2. Components(t) = Append(Components(ParentDir(t)), Leaf(t))
  BY <1>1, ComponentsSplit
<1>3. DirOf(p) \in Text /\ Components(DirOf(p)) = Components(ParentDir(t))
        /\ Basename(p) = Leaf(t)
  BY DirOfIs
<1>4. Place(<< >>, DirOf(p)) = Components(DirOf(p)) /\ Place(<< >>, p) = Components(p)
  BY <1>3, PlaceIs
<1>5. QED
  BY <1>1, <1>2, <1>3, <1>4, ComponentsType

(***************************************************************************)
(* The directory write_file makes is the one the copy goes to, or, for a   *)
(* path with a trailing slash, the place of the file itself, just below.   *)
(***************************************************************************)
LEMMA MadeOrBelow ==
  ASSUME NEW p \in Text, HasName(p)
  PROVE  Components(ParentDir(p)) \in
           {Place(<< >>, DirOf(p)), Append(Place(<< >>, DirOf(p)), Basename(p))}
<1>1. p # << >>
  BY DEF HasName
<1>2. PICK q \in Text, c \in Chars : p = Append(q, c)
  BY <1>1, SequenceEmptyOrAppend DEF Text
<1>3. CASE c = Slash
  <2>1. ParentDir(p) = p
    BY <1>2, <1>3, ParentAppend
  <2>2. QED
    BY <2>1, SamePlace, PlaceIs
<1>4. CASE c # Slash
  <2>1. TrimRight(p) = p
    BY <1>2, <1>4, TrimAppend
  <2>2. QED
    BY <2>1, DirOfIs, PlaceIs
<1>5. QED
  BY <1>3, <1>4

\* The directory of an absolute path without blanks is such a path itself.
LEMMA ParentOfAbsolute ==
  ASSUME NEW p \in Text, p # << >>, p[1] = Slash
  PROVE  /\ ParentDir(p) # << >>
         /\ ParentDir(p)[1] = Slash
         /\ ~Blank(p) => ~Blank(ParentDir(p))
<1>1. /\ Len(p) \in Nat /\ Len(p) >= 1 /\ DOMAIN p = 1..Len(p)
      /\ \A i \in 1..Len(p) : p[i] \in Chars
  BY EmptySeq, LenProperties DEF Text
<1>2. LastSlash(p) \in 1..Len(p)
  BY <1>1, LastSlashType
<1> DEFINE k == LastSlash(p)
           d == SubSeq(p, 1, k)
<1>3. ParentDir(p) = d
  BY DEF ParentDir
<1>4. d \in Seq(Chars) /\ Len(d) = k /\ \A i \in 1..k : d[i] = p[i]
  <2>1. k \in Int /\ 1 \in Int /\ k >= 1 /\ \A i \in 1..k : p[i] \in Chars
    BY <1>1, <1>2
  <2> HIDE DEF k
  <2>2. d \in Seq(Chars) /\ Len(d) = (IF 1 <= k THEN k - 1 + 1 ELSE 0)
         /\ \A i \in 1 .. k - 1 + 1 : d[i] = p[1 + i - 1]
    BY <2>1, SubSeqProperties
  <2> HIDE DEF d
  <2>3. QED
    BY <2>1, <2>2
<1> HIDE DEF d
<1>5. DOMAIN d = 1..k /\ d # << >>
  BY <1>2, <1>4, LenProperties, EmptySeq
<1>6. d[1] = Slash
  BY <1>2, <1>4
<1>7. ~Blank(p) => ~Blank(d)
  BY <1>1, <1>2, <1>4, <1>5 DEF Blank
<1>8. QED
  BY <1>3, <1>5, <1>6, <1>7

-----------------------------------------------------------------------------
(* Prefixes of places.                                                     *)

Leads(p, s) == Len(p) <= Len(s) /\ \A i \in 1..Len(p) : p[i] = s[i]

\* The part of a place up to one of its names.
LEMMA PartIs ==
  ASSUME NEW s \in Places, NEW k \in 0..Len(s)
  PROVE  /\ SubSeq(s, 1, k) \in Places /\ Len(SubSeq(s, 1, k)) = k
         /\ \A i \in 1..k : SubSeq(s, 1, k)[i] = s[i]
<1>1. Len(s) \in Nat /\ \A i \in 1..Len(s) : s[i] \in Text
  BY LenProperties DEF Places
<1>2. 1 \in Int /\ k \in Int /\ k \in Nat /\ \A i \in 1..k : s[i] \in Text
  BY <1>1
<1> DEFINE r == SubSeq(s, 1, k)
<1>3. /\ r \in Seq(Text)
      /\ Len(r) = IF 1 <= k THEN k - 1 + 1 ELSE 0
      /\ \A i \in 1 .. k - 1 + 1 : r[i] = s[1 + i - 1]
  BY <1>2, SubSeqProperties
<1> HIDE DEF r
<1>4. r \in Places /\ Len(r) = k /\ \A i \in 1..k : r[i] = s[i]
  BY <1>2, <1>3 DEF Places
<1>5. QED
  BY <1>4 DEF r

\* Only the root has no names.
LEMMA PlaceLength ==
  /\ \A s \in Places : Len(s) \in Nat /\ (s = << >> <=> Len(s) = 0)
  /\ << >> \in Places /\ Len(<< >>) = 0
<1>1. \A s \in Places : Len(s) \in Nat /\ (s # << >> => Len(s) \in Nat \ {0})
  BY EmptySeq, LenProperties DEF Places
<1>2. << >> \in Places /\ Len(<< >>) = 0
  BY DEF Places
<1>3. QED
  BY <1>1, <1>2

\* A prefix of the same length is the place itself.
LEMMA LeadsSame ==
  ASSUME NEW p \in Places, NEW s \in Places, Leads(p, s), Len(p) = Len(s)
  PROVE  p = s
  BY SeqEqual DEF Places, Leads

\* Prefixes in terms of names.
LEMMA PrefixIs ==
  ASSUME NEW s \in Places, NEW p
  PROVE  p \in Prefixes(s) <=> p \in Places /\ Leads(p, s)
<1>0. Len(s) \in Nat
  BY PlaceLength
<1>1. ASSUME p \in Prefixes(s) PROVE p \in Places /\ Leads(p, s)
  <2>1. PICK k \in 0..Len(s) : p = SubSeq(s, 1, k)
    BY <1>1 DEF Prefixes
  <2>2. p \in Places /\ Len(p) = k /\ \A i \in 1..k : p[i] = s[i]
    BY <2>1, PartIs
  <2>3. QED
    BY <1>0, <2>2 DEF Leads
<1>2. ASSUME p \in Places, Leads(p, s) PROVE p \in Prefixes(s)
  <2> DEFINE k == Len(p)
             r == SubSeq(s, 1, k)
  <2>1. k \in 0..Len(s)
    BY <1>0, <1>2, PlaceLength DEF Leads
  <2>2. r \in Places /\ Len(r) = k /\ \A i \in 1..k : r[i] = s[i]
    BY <2>1, PartIs
  <2> HIDE DEF r
  <2>3. p = r
    BY <1>2, <2>2, SeqEqual DEF Places, Leads
  <2>4. QED
    BY <2>1, <2>3 DEF Prefixes, r
<1>3. QED
  BY <1>1, <1>2

\* IsPrefix in terms of names.
LEMMA IsPrefixIs ==
  ASSUME NEW p \in Places, NEW s \in Places
  PROVE  IsPrefix(p, s) <=> Leads(p, s)
<1>0. Len(s) \in Nat /\ Len(p) \in Nat
  BY PlaceLength
<1>1. SubSeq(p, 1, Len(p)) = p
  BY SubSeqFull DEF Places
<1>2. CASE Len(p) <= Len(s)
  <2> DEFINE r == SubSeq(s, 1, Len(p))
  <2>1. r \in Places /\ Len(r) = Len(p) /\ \A i \in 1..Len(p) : r[i] = s[i]
    BY <1>0, <1>2, PartIs
  <2>2. IsPrefix(p, s) <=> p = r
    BY <1>1, <1>2 DEF IsPrefix
  <2> HIDE DEF r
  <2>3. p = r <=> \A i \in 1..Len(p) : p[i] = r[i]
    BY <2>1, SeqEqual DEF Places
  <2>4. QED
    BY <1>2, <2>1, <2>2, <2>3 DEF Leads
<1>3. CASE ~(Len(p) <= Len(s))
  BY <1>3 DEF IsPrefix, Leads
<1>4. QED
  BY <1>2, <1>3

\* Leads is an order with a least element, and linear below each place.
LEMMA LeadsFacts ==
  ASSUME NEW p \in Places, NEW q \in Places, NEW s \in Places
  PROVE  /\ Leads(s, s) /\ Leads(<< >>, s)
         /\ Leads(s, << >>) => s = << >>
         /\ Leads(p, q) /\ Leads(q, s) => Leads(p, s)
         /\ Leads(p, q) /\ Leads(q, p) => p = q
         /\ Leads(p, s) /\ Leads(q, s) => Leads(p, q) \/ Leads(q, p)
<1>1. Len(p) \in Nat /\ Len(q) \in Nat /\ Len(s) \in Nat
  BY PlaceLength
<1>2. Leads(s, s) /\ Leads(<< >>, s)
  BY <1>1, PlaceLength DEF Leads
<1>3. Leads(s, << >>) => s = << >>
  BY <1>1, PlaceLength DEF Leads
<1>4. Leads(p, q) /\ Leads(q, s) => Leads(p, s)
  BY <1>1 DEF Leads
<1>5. Leads(p, q) /\ Leads(q, p) => p = q
  BY <1>1, LeadsSame DEF Leads
<1>6. Leads(p, s) /\ Leads(q, s) => Leads(p, q) \/ Leads(q, p)
  BY <1>1 DEF Leads
<1>7. QED
  BY <1>2, <1>3, <1>4, <1>5, <1>6

\* The directory a place lies in is the longest prefix above it.
LEMMA FrontIs ==
  ASSUME NEW s \in Places, s # << >>
  PROVE  /\ Front(s) \in Places /\ Leads(Front(s), s) /\ Front(s) # s
         /\ \A p \in Places : Leads(p, s) /\ p # s => Leads(p, Front(s))
<1> DEFINE r == Front(s)
<1>1. Len(s) \in Nat /\ Len(s) # 0
  BY PlaceLength
<1>2. r \in Places /\ Len(r) = Len(s) - 1 /\ \A i \in 1..Len(s) - 1 : r[i] = s[i]
  <2> DEFINE k == Len(s) - 1
  <2>1. k \in 0..Len(s)
    BY <1>1
  <2>2. r = SubSeq(s, 1, k)
    BY DEF Front
  <2> HIDE DEF k, r
  <2>3. r \in Places /\ Len(r) = k /\ \A i \in 1..k : r[i] = s[i]
    BY <2>1, <2>2, PartIs
  <2>4. QED
    BY <2>3 DEF k
<1> HIDE DEF r
<1>3. Leads(r, s) /\ r # s
  BY <1>1, <1>2 DEF Leads
<1>4. ASSUME NEW p \in Places, Leads(p, s), p # s
      PROVE  Leads(p, r)
  <2>1. Len(p) \in Nat /\ Len(p) <= Len(s) /\ Len(p) # Len(s)
    BY <1>4, PlaceLength, LeadsSame DEF Leads
  <2>2. QED
    BY <1>1, <1>2, <1>4, <2>1 DEF Leads
<1>5. QED
  BY <1>2, <1>3, <1>4 DEF r

\* A name in a directory.
LEMMA AppendPlace ==
  ASSUME NEW s \in Places, NEW n \in Text
  PROVE  /\ Append(s, n) \in Places /\ Append(s, n) # << >>
         /\ Front(Append(s, n)) = s
         /\ Leads(s, Append(s, n))
<1> DEFINE r == Append(s, n)
<1>1. /\ r \in Places /\ r # << >> /\ Len(r) = Len(s) + 1
      /\ \A i \in 1..Len(s) : r[i] = s[i]
  BY AppendProperties DEF Places
<1>2. Len(s) \in Nat
  BY PlaceLength
<1> HIDE DEF r
<1>3. Leads(s, r)
  BY <1>1, <1>2 DEF Leads
<1>4. Front(r) = s
  <2> DEFINE f == SubSeq(r, 1, Len(s))
  <2>1. Front(r) = f
    BY <1>1, <1>2 DEF Front
  <2>2. f \in Places /\ Len(f) = Len(s) /\ \A i \in 1..Len(s) : f[i] = r[i]
    BY <1>1, <1>2, PartIs
  <2> HIDE DEF f
  <2>3. f = s
    BY <1>1, <1>2, <2>2, SeqEqual DEF Places
  <2>4. QED
    BY <2>1, <2>3
<1>5. QED
  BY <1>1, <1>3, <1>4 DEF r

=============================================================================
