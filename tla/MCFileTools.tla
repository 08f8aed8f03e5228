----------------------------- MODULE MCFileTools -----------------------------
(* A small instance of FileTools: the work directory is /w.                *)
EXTENDS FileTools, TLC

MCChars == {"/", " ", "'", "\\", "r", "m", "k", "d", "i", "a", "b", "c", "e", "w",
            ";", "$"}

MCWork == << <<"w">> >>

\* Plain, deep, outside of /w, relative, with a blank, with a trailing slash.
MCPaths ==
    { <<"/", "w", "/", "a">>,
      <<"/", "w", "/", "a", "/", "a", "/", "b">>,
      <<"/", "a", "/", "a", "/", "b">>,
      <<"a", "/", "a", "/", "b">>,
      <<"/", "w", "/", "a", " ", "b", "/", "c">>,
      <<"/", "w", "/", "a", "/">> }

\* The empty word, blanks, quotes at every end of a word, special characters.
Words == << <<>>, <<" ">>, <<"'">>, <<"'", "a">>, <<"a", "'", " ">>, <<";", "$">> >>

MCCommands ==
    { <<RemoveCommand, <<"a">> >>,
      <<RemoveCommand, <<"/", "w", "/", "a", " ", "b">> >>,
      <<MakeCommand, <<"a", " ", "b">> >>,
      << <<"r", "m", " ", "a", "/", "a">> >>,
      << <<"e">> >> \o Words }

Symmetry == Permutations(Calls) \cup Permutations(Contents)

=============================================================================
