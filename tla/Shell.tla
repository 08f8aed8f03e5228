-------------------------------- MODULE Shell --------------------------------
(***************************************************************************)
(* Paths and command lines as the code computes them, and the words a      *)
(* shell makes of a line.  A string is a sequence of characters; a place   *)
(* in the file system is the sequence of its names from the root.          *)
(***************************************************************************)
EXTENDS Integers, Sequences, SequencesExt

CONSTANT
    Chars         \* the characters of paths and lines

ASSUME CharsAssumption == {"/", " ", "'", "\\", "r", "m", "k", "d", "i"} \subseteq Chars

-----------------------------------------------------------------------------
(* Paths.                                                                  *)

\* The position of the last slash, 0 without one (the code's -1, one more).
LastSlash(p) == SelectLastInSeq(p, LAMBDA c : c = "/")

TrimRight(p) == SubSeq(p, 1, SelectLastInSeq(p, LAMBDA c : c # "/"))

Basename(p) ==
    LET t == TrimRight(p) IN SubSeq(t, LastSlash(t) + 1, Len(t))

\* Wrong on purpose: the trailing slashes are kept.
DirOfUntrimmed(p) ==
    IF LastSlash(p) > 0 THEN SubSeq(p, 1, LastSlash(p)) ELSE <<"/">>

DirOf(p) ==
    LET t == TrimRight(p)
    IN  IF LastSlash(t) > 0 THEN SubSeq(t, 1, LastSlash(t)) ELSE <<"/">>

\* The directory write_file makes first: it does not trim.
ParentDir(p) == SubSeq(p, 1, LastSlash(p))

\* The names of a path: what lies between slashes, if anything does.
PathStart == [names |-> <<>>, name |-> <<>>]

Named(s) == IF s.name = <<>> THEN s.names ELSE Append(s.names, s.name)

PathChar(s, c) ==
    IF c = "/" THEN [names |-> Named(s), name |-> <<>>]
    ELSE [s EXCEPT !.name = Append(@, c)]

Components(p) == Named(FoldLeft(PathChar, PathStart, p))

\* The place a path names, seen from the directory base.
Place(base, p) ==
    IF p # <<>> /\ p[1] = "/" THEN Components(p) ELSE base \o Components(p)

-----------------------------------------------------------------------------
(* Command lines.                                                          *)

\* Wrong on purpose: a single quote is left as it is.
ShellQuoteUnescaped(s) == <<"'">> \o s \o <<"'">>

\* Each single quote leaves the quotes, is escaped, and enters them again.
Escaped(safe, c) ==
    safe \o (IF c = "'" THEN <<"'", "\\", "'", "'">> ELSE <<c>>)

ShellQuote(s) == <<"'">> \o FoldLeft(Escaped, <<>>, s) \o <<"'">>

\* A quoted word is never empty: only the first one finds an empty line.
JoinWord(out, part) ==
    (IF out = <<>> THEN <<>> ELSE out \o <<" ">>) \o ShellQuote(part)

\* One word is a line already; several are quoted and joined with blanks.
BuildCmd(cmd) == IF Len(cmd) = 1 THEN cmd[1] ELSE FoldLeft(JoinWord, <<>>, cmd)

\* The other characters that a shell, bash or sh, does not read as themselves.
Specials == {";", "&", "|", "$", "(", ")", "<", ">", "*", "?", "[", "]", "{", "}", "~",
             "#", "!", "=", "double quote", "backtick", "tab", "newline"}

(***************************************************************************)
(* How a POSIX shell splits a line of blanks, single quotes and            *)
(* backslashes: the words so far, the word being read, whether one is (it  *)
(* may be empty), and what the next character means.  A special character  *)
(* outside of quotes makes more of the line than words: the mode is "lost" *)
(* from there on.                                                          *)
(***************************************************************************)
ReadStart == [words |-> <<>>, word |-> <<>>, begun |-> FALSE, mode |-> "bare"]

Ended(s) == IF s.begun THEN Append(s.words, s.word) ELSE s.words

Enter(s, mode) == [s EXCEPT !.begun = TRUE, !.mode = mode]

Take(s, c) == [s EXCEPT !.word = Append(@, c), !.begun = TRUE]

ReadChar(s, c) ==
    CASE s.mode = "lost"    -> s
      [] s.mode = "escaped" -> IF c = "newline" THEN [s EXCEPT !.mode = "lost"]
                               ELSE [Take(s, c) EXCEPT !.mode = "bare"]
      [] s.mode = "quoted"  -> IF c = "'" THEN Enter(s, "bare") ELSE Take(s, c)
      [] s.mode = "bare"    -> IF c = "'" THEN Enter(s, "quoted")
                               ELSE IF c = "\\" THEN Enter(s, "escaped")
                               ELSE IF c = " "
                               THEN [ReadStart EXCEPT !.words = Ended(s)]
                               ELSE IF c \in Specials THEN [s EXCEPT !.mode = "lost"]
                               ELSE Take(s, c)

ShellWords(line) == Ended(FoldLeft(ReadChar, ReadStart, line))

\* Nothing but words: no quote is left open, nothing special stands outside of them.
WordsOnly(line) == FoldLeft(ReadChar, ReadStart, line).mode = "bare"

=============================================================================
