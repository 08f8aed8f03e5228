------------------------------ MODULE FileTools ------------------------------
(***************************************************************************)
(* Files in one running sandbox: the tools write_file and read_file, and   *)
(* commands that move files under them (handleExecSandbox, buildCmd).      *)
(* write_file is two calls to the daemon that read the path differently: a *)
(* shell command makes the directory, as forge, from the work directory,   *)
(* with the path unquoted; then an archive is unpacked, as root, from the  *)
(* root directory.  Other calls run between the two.                       *)
(***************************************************************************)
EXTENDS Shell, FiniteSets

CONSTANTS
    Calls,        \* the calls under way at once (a bound)
    Paths,        \* the paths clients use: never empty, nor slashes only,
                  \* without the names . and .., with a directory that the
                  \* shell reads as words
    Contents,     \* what is written to files
    Commands,     \* the command lists clients send to the exec endpoint
    Work          \* the work directory of commands, a place

Dir == "dir"

\* None of the words is an option of its program.
Optionless(words) == \A i \in DOMAIN words : words[i] = <<>> \/ words[i][1] # "-"

ASSUME FileAssumption ==
    /\ Dir \notin Contents
    /\ Paths \subseteq {p \in Seq(Chars) : \E i \in DOMAIN p : p[i] # "/"}
    /\ \A p \in Paths : WordsOnly(ParentDir(p)) /\ Optionless(ShellWords(ParentDir(p)))
    /\ Commands \subseteq Seq(Seq(Chars)) \ {<<>>}
    /\ \A cmd \in Commands :
          IF Len(cmd) = 1 THEN WordsOnly(cmd[1]) /\ Optionless(ShellWords(cmd[1]))
          ELSE Optionless(cmd)
    /\ Work \in Seq(Seq(Chars))

VARIABLES
    disk,         \* what each place holds: Dir, or the content of a file
    asRoot,       \* the image has no user forge: commands run as root
    call,         \* call[c]: what the handler or tool of call c is doing
    promised      \* places written with success and not removed since

fileVars == <<disk, asRoot, call, promised>>

(***************************************************************************)
(* call[c].pc   "mkdir"  write_file, before Exec of mkdir -p               *)
(*              "copy"   write_file, before Driver.WriteFile               *)
(*              "exec"   handleExecSandbox, before Driver.Exec             *)
(*              "read"   read_file, before Driver.ReadFile                 *)
(*              "got"    read_file, with what was read in content          *)
(* call[c].disturbed     a removal ran since the call made its directory   *)
(***************************************************************************)
NoCall == [pc |-> "idle", path |-> <<>>, content |-> Dir, cmd |-> <<>>, disturbed |-> FALSE]

\* What is read of a directory: its archive begins with an entry of no bytes.
Empty == "empty"

FileTypeOK ==
    /\ DOMAIN disk \subseteq Seq(Seq(Chars))
    /\ \A place \in DOMAIN disk : disk[place] \in Contents \cup {Dir}
    /\ <<>> \in DOMAIN disk /\ disk[<<>>] = Dir
    /\ \A place \in DOMAIN disk \ {<<>>} :
          /\ Front(place) \in DOMAIN disk
          /\ disk[Front(place)] = Dir
    /\ asRoot \in BOOLEAN
    /\ call \in [Calls -> [pc : {"idle", "mkdir", "copy", "exec", "read", "got"},
                           path : Paths \cup {<<>>},
                           content : Contents \cup {Dir, Empty},
                           cmd : Commands \cup {<<>>},
                           disturbed : BOOLEAN]]
    /\ \A place \in DOMAIN promised : promised[place] \in Contents

FileInit ==
    /\ disk = [place \in Prefixes(Work) |-> Dir]
    /\ asRoot \in BOOLEAN
    /\ call = [c \in Calls |-> NoCall]
    /\ promised = [place \in {} |-> Dir]

-----------------------------------------------------------------------------
(* The file system.                                                        *)

IsDir(place)  == place \in DOMAIN disk /\ disk[place] = Dir
IsFile(place) == place \in DOMAIN disk /\ disk[place] # Dir

\* forge owns the work directory and what commands have made below it.
MayChange(place) == asRoot \/ IsStrictPrefix(Work, place)

Below(places) == {place \in DOMAIN disk : \E top \in places : IsPrefix(top, place)}

\* mkdir -p stops at the first file on its way, or where it may not write.
Makes(place) ==
    {made \in Prefixes(place) :
        \A p \in Prefixes(made) : ~IsFile(p) /\ (IsDir(p) \/ MayChange(p))}

\* The places of a command's arguments.
Arguments(words) == {Place(Work, words[i]) : i \in 2..Len(words)}

RemoveCommand == <<"r", "m">>
MakeCommand   == <<"m", "k", "d", "i", "r">>

\* The program that a line of these words starts, if it starts one.
Program(words) == IF words = <<>> THEN <<>> ELSE words[1]

\* What rm -r takes away: everything below its arguments, but never the root.
Removes(words) == Below({p \in Arguments(words) : p # <<>> /\ MayChange(p)})

\* The disk after a line of the shell has run: rm -r, mkdir -p, or another.
Runs(words) ==
    IF Program(words) = RemoveCommand
    THEN disk' = [place \in DOMAIN disk \ Removes(words) |-> disk[place]]
    ELSE IF Program(words) = MakeCommand
    THEN disk' = [place \in DOMAIN disk \cup UNION {Makes(p) : p \in Arguments(words)}
                     |-> IF place \in DOMAIN disk THEN disk[place] ELSE Dir]
    ELSE UNCHANGED disk

-----------------------------------------------------------------------------
Begin(c, fields) ==
    /\ call[c].pc = "idle"
    /\ call' = [call EXCEPT ![c] = fields]
    /\ UNCHANGED <<disk, asRoot, promised>>

\* The call returns, with an error or not.
End(c) == call' = [call EXCEPT ![c] = NoCall]

\* write_file, up to the directory: none is made at the root or without a slash.
StartWrite(c) ==
    \E path \in Paths, content \in Contents :
        Begin(c, [NoCall EXCEPT
            !.pc = IF ParentDir(path) \in {<<>>, <<"/">>} THEN "copy" ELSE "mkdir",
            !.path = path, !.content = content])

\* Wrong on purpose: mkdir without -p.
MakeParentsOnce(c) ==
    /\ call[c].pc = "mkdir"
    /\ LET made == Place(Work, ParentDir(call[c].path))
       IN  disk' = [place \in DOMAIN disk \cup (IF IsDir(Front(made)) THEN Makes(made) ELSE {})
                       |-> IF place \in DOMAIN disk THEN disk[place] ELSE Dir]
    /\ call' = [call EXCEPT ![c].pc = "copy"]
    /\ UNCHANGED <<asRoot, promised>>

(***************************************************************************)
(* mkdir -p with the directory unquoted; its exit code is not looked at.   *)
(* When Exec itself fails, before or after the command ran, so does the    *)
(* tool.                                                                   *)
(***************************************************************************)
MakeParents(c) ==
    /\ call[c].pc = "mkdir"
    /\ \/ /\ Runs(<<MakeCommand>> \o ShellWords(ParentDir(call[c].path)))
          /\ call' = [call EXCEPT ![c].pc = "copy"] \/ End(c)
       \/ UNCHANGED disk /\ End(c)
    /\ UNCHANGED <<asRoot, promised>>

\* Wrong on purpose: the archive is unpacked whether its directory is there or not.
CopyAnywhere(c) ==
    /\ call[c].pc = "copy"
    /\ LET named == Place(<<>>, call[c].path)
       IN  /\ ~IsDir(named)
           /\ disk' = [place \in DOMAIN disk \cup {named} |->
                          IF place = named THEN call[c].content ELSE disk[place]]
           /\ promised' = [place \in DOMAIN promised \cup {named} |->
                              IF place = named THEN call[c].content ELSE promised[place]]
    /\ End(c)
    /\ UNCHANGED asRoot

(***************************************************************************)
(* Driver.WriteFile: the archive is unpacked where a directory is, seen    *)
(* from the root, and a file never takes the place of a directory.  An     *)
(* error may come after the file was written; then nothing is promised.    *)
(***************************************************************************)
CopyIn(c) ==
    /\ call[c].pc = "copy"
    /\ LET into   == Place(<<>>, DirOf(call[c].path))
           target == Append(into, Basename(call[c].path))
           named  == Place(<<>>, call[c].path)
       IN  \/ /\ IsDir(into) /\ ~IsDir(target)
              /\ disk' = [place \in DOMAIN disk \cup {target} |->
                             IF place = target THEN call[c].content ELSE disk[place]]
              /\ \/ promised' = [place \in DOMAIN promised \cup {named} |->
                                    IF place = named THEN call[c].content ELSE promised[place]]
                 \/ promised' = [place \in DOMAIN promised \ {named} |-> promised[place]]
           \/ UNCHANGED <<disk, promised>>
    /\ End(c)
    /\ UNCHANGED asRoot

StartRead(c) == \E path \in Paths : Begin(c, [NoCall EXCEPT !.pc = "read", !.path = path])

\* Wrong on purpose: the path is seen from the work directory.
CopyOutOfWork(c) ==
    /\ call[c].pc = "read"
    /\ LET place == Place(Work, call[c].path)
       IN  \/ /\ place \in DOMAIN disk
              /\ call' = [call EXCEPT ![c].pc = "got",
                             ![c].content = IF IsDir(place) THEN Empty ELSE disk[place]]
           \/ End(c)
    /\ UNCHANGED <<disk, asRoot, promised>>

\* Driver.ReadFile: the first entry of the archive of whatever is there.
CopyOut(c) ==
    /\ call[c].pc = "read"
    /\ LET place == Place(<<>>, call[c].path)
       IN  \/ /\ place \in DOMAIN disk
              /\ call' = [call EXCEPT ![c].pc = "got",
                             ![c].content = IF IsDir(place) THEN Empty ELSE disk[place]]
           \/ End(c)
    /\ UNCHANGED <<disk, asRoot, promised>>

StartExec(c) == \E cmd \in Commands : Begin(c, [NoCall EXCEPT !.pc = "exec", !.cmd = cmd])

\* What the client asked for: a list is the words of the command.
Asked(cmd) == IF Len(cmd) = 1 THEN ShellWords(cmd[1]) ELSE cmd

\* What a removal the client asked for takes back of earlier promises.
Revoked(cmd) ==
    IF Program(Asked(cmd)) = RemoveCommand
    THEN {place \in DOMAIN promised : \E p \in Arguments(Asked(cmd)) : IsPrefix(p, place)}
    ELSE {}

RunCommand(c) ==
    /\ call[c].pc = "exec"
    /\ \/ /\ Runs(ShellWords(BuildCmd(call[c].cmd)))
          /\ promised' = [place \in DOMAIN promised \ Revoked(call[c].cmd) |-> promised[place]]
          /\ call' = [d \in Calls |->
                        IF d = c THEN NoCall
                        ELSE [call[d] EXCEPT !.disturbed =
                                @ \/ (call[d].pc = "copy"
                                        /\ ~(DOMAIN disk \subseteq DOMAIN disk'))]]
       \/ UNCHANGED <<disk, promised>> /\ End(c)
    /\ UNCHANGED asRoot

Return(c) ==
    /\ call[c].pc = "got"
    /\ End(c)
    /\ UNCHANGED <<disk, asRoot, promised>>

FileNext ==
    \E c \in Calls :
        \/ StartWrite(c) \/ MakeParents(c) \/ CopyIn(c)
        \/ StartRead(c) \/ CopyOut(c) \/ Return(c)
        \/ StartExec(c) \/ RunCommand(c)

FileSpec == FileInit /\ [][FileNext]_fileVars

-----------------------------------------------------------------------------
(***************************************************************************)
(* A successful write_file is found at the place its path names, until     *)
(* something is written there or its removal is asked for: no directory    *)
(* made for another path, no copy and no command takes it away, and none   *)
(* of them was put somewhere else (docker.go:323-350, 453-470,             *)
(* tools.go:205-213, sandboxes.go:200-228).                                *)
(***************************************************************************)
PromisesKept ==
    \A place \in DOMAIN promised :
        place \in DOMAIN disk /\ disk[place] = promised[place]

(***************************************************************************)
(* read_file answers with what a successful write_file put there last, if  *)
(* it answers at all: the two see one file under one path, from whatever   *)
(* directory commands run, and whatever calls fall between them            *)
(* (docker.go:323-381, tools.go:205-213).                                  *)
(***************************************************************************)
ReadsBack ==
    [][\A c \in Calls :
          LET place == Place(<<>>, call[c].path)
          IN  (call[c].pc = "read" /\ call'[c].pc = "got" /\ place \in DOMAIN promised) =>
                 call'[c].content = promised[place]]_fileVars

\* A path as the tool's description wants it, that the shell leaves whole.
Plain(path) ==
    path[1] = "/" /\ \A i \in DOMAIN path : path[i] \notin Specials \cup {" ", "'", "\\"}

(***************************************************************************)
(* "Creates parent directories as needed" (tools.go:188): for an absolute  *)
(* path, where commands may write, the directory the copy goes to is       *)
(* there, or a file stands in its way, unless a command has removed        *)
(* something since the tool made it.  The path is one that the shell       *)
(* leaves whole, although it is not quoted (tools.go:207).                 *)
(***************************************************************************)
ParentsMade ==
    \A c \in Calls :
        LET into == Place(<<>>, DirOf(call[c].path))
        IN  (call[c].pc = "copy" /\ Plain(call[c].path) /\ ~call[c].disturbed
               /\ (asRoot \/ IsPrefix(Work, into))) =>
                  IsDir(into) \/ \E p \in Prefixes(into) : IsFile(p)

(***************************************************************************)
(* The words of a command list reach the program as they were sent, empty  *)
(* ones, blanks and quotes included (sandboxes.go:197-228).                *)
(***************************************************************************)
WordsArrive ==
    \A c \in Calls :
        (call[c].pc = "exec" /\ Len(call[c].cmd) > 1) =>
            ShellWords(BuildCmd(call[c].cmd)) = call[c].cmd

=============================================================================
