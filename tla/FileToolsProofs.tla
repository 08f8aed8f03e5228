--------------------------- MODULE FileToolsProofs ---------------------------
(***************************************************************************)
(* What is proved of FileTools, for every set of calls, paths, contents    *)
(* and commands and for every work directory: the four invariants its run  *)
(* checks, from one inductive invariant, FileInv, which adds to them that  *)
(* calls hold what clients sent and that the work directory stands while   *)
(* commands run as forge.                                                  *)
(***************************************************************************)
EXTENDS FileTools, ShellProofs

-----------------------------------------------------------------------------
(* The tree on the disk.                                                   *)

\* What the assumption on the constants says in these terms.
LEMMA Assumed ==
  /\ \A p \in Paths : p \in Text /\ HasName(p) /\ p # << >>
  /\ \A cmd \in Commands : cmd \in Seq(Text) /\ cmd # << >>
  /\ Work \in Places
  /\ Dir \notin Contents
<1>1. \A p \in Paths : p \in Text /\ HasName(p)
  BY FileAssumption DEF Text, HasName, Slash
<1>2. \A p \in Paths : p # << >>
  BY <1>1 DEF HasName
<1>3. QED
  BY <1>1, <1>2, FileAssumption DEF Text, Places

Tree ==
  /\ DOMAIN disk \subseteq Places
  /\ \A place \in DOMAIN disk : disk[place] \in Contents \cup {Dir}
  /\ << >> \in DOMAIN disk /\ disk[<< >>] = Dir
  /\ \A place \in DOMAIN disk \ {<< >>} :
        Front(place) \in DOMAIN disk /\ disk[Front(place)] = Dir

\* Nothing is lost: directories stay, files stay, with what is in them.
Grows ==
  \A place \in DOMAIN disk : place \in DOMAIN disk' /\ disk'[place] = disk[place]

\* Only what a removal may take is lost.
Shrinks(words) ==
  /\ DOMAIN disk' = DOMAIN disk \ Removes(words)
  /\ \A place \in DOMAIN disk' : disk'[place] = disk[place]

Keeps ==
  \A place : (IsDir(place) => IsDir(place)') /\ (IsFile(place) => IsFile(place)')

\* What grows keeps its directories and files.
LEMMA GrowsKeeps == ASSUME Grows PROVE Keeps
  BY DEF Grows, Keeps, IsDir, IsFile

\* The arguments of a command are places.
LEMMA ArgumentsType ==
  ASSUME NEW words \in Seq(Text)
  PROVE  Arguments(words) \subseteq Places
<1>1. \A i \in 2..Len(words) : words[i] \in Text
  BY LenProperties
<1>2. QED
  BY <1>1, Assumed, PlaceIs DEF Arguments

\* What mkdir -p makes of one place, with every directory on the way.
LEMMA MakesIs ==
  ASSUME NEW place \in Places, NEW made \in Makes(place)
  PROVE  /\ made \in Places /\ ~IsFile(made)
         /\ made # << >> => Front(made) \in Makes(place) /\ ~IsFile(Front(made))
<1>1. /\ made \in Places /\ Leads(made, place)
      /\ \A p \in Prefixes(made) : ~IsFile(p) /\ (IsDir(p) \/ MayChange(p))
  BY PrefixIs DEF Makes
<1>2. ~IsFile(made)
  BY <1>1, PrefixIs, LeadsFacts
<1>3. ASSUME made # << >> PROVE Front(made) \in Makes(place) /\ ~IsFile(Front(made))
  <2>1. Front(made) \in Places /\ Leads(Front(made), made)
    BY <1>1, <1>3, FrontIs
  <2>2. Front(made) \in Prefixes(made) /\ Front(made) \in Prefixes(place)
    BY <1>1, <2>1, PrefixIs, LeadsFacts
  <2>3. ASSUME NEW p \in Prefixes(Front(made)) PROVE p \in Prefixes(made)
    BY <1>1, <2>1, <2>3, PrefixIs, LeadsFacts
  <2>4. QED
    BY <1>1, <2>2, <2>3 DEF Makes
<1>4. QED
  BY <1>1, <1>2, <1>3

\* After mkdir -p the tree stands, has lost nothing, and has what was made.
LEMMA MakeStep ==
  ASSUME Tree, NEW words \in Seq(Text),
         disk' = [place \in DOMAIN disk \cup UNION {Makes(p) : p \in Arguments(words)}
                     |-> IF place \in DOMAIN disk THEN disk[place] ELSE Dir]
  PROVE  /\ Tree' /\ Grows
         /\ \A p \in Arguments(words) : \A made \in Makes(p) : IsDir(made)'
<1> DEFINE New == UNION {Makes(p) : p \in Arguments(words)}
<1>1. /\ DOMAIN disk' = DOMAIN disk \cup New
      /\ \A place \in DOMAIN disk' :
            disk'[place] = IF place \in DOMAIN disk THEN disk[place] ELSE Dir
  OBVIOUS
<1>2. ASSUME NEW made \in New
      PROVE  /\ made \in Places /\ ~IsFile(made)
             /\ made # << >> => Front(made) \in New /\ ~IsFile(Front(made))
  <2>1. PICK p \in Arguments(words) : made \in Makes(p)
    OBVIOUS
  <2>2. p \in Places
    BY ArgumentsType
  <2>3. /\ made \in Places /\ ~IsFile(made)
        /\ made # << >> => Front(made) \in Makes(p) /\ ~IsFile(Front(made))
    BY <2>1, <2>2, MakesIs
  <2>4. QED
    BY <2>3
<1>3. \A p \in Arguments(words) : \A made \in Makes(p) : made \in New
  OBVIOUS
<1> HIDE DEF New
<1>4. Grows
  BY <1>1 DEF Grows
<1>5. \A made \in New : made \in DOMAIN disk' /\ disk'[made] = Dir
  BY <1>1, <1>2 DEF IsFile
<1>6. Tree'
  <2>1. DOMAIN disk' \subseteq Places
    BY <1>1, <1>2 DEF Tree
  <2>2. \A place \in DOMAIN disk' : disk'[place] \in Contents \cup {Dir}
    BY <1>1 DEF Tree
  <2>3. << >> \in DOMAIN disk' /\ disk'[<< >>] = Dir
    BY <1>4 DEF Tree, Grows
  <2>4. ASSUME NEW place \in DOMAIN disk' \ {<< >>}
        PROVE  Front(place) \in DOMAIN disk' /\ disk'[Front(place)] = Dir
    <3>1. CASE place \in DOMAIN disk
      BY <1>4, <3>1 DEF Tree, Grows
    <3>2. CASE place \notin DOMAIN disk
      <4>1. place \in New /\ place # << >>
        BY <1>1, <3>2
      <4>2. Front(place) \in New
        BY <1>2, <4>1
      <4>3. QED
        BY <1>5, <4>2
    <3>3. QED
      BY <3>1, <3>2
  <2>5. QED
    BY <2>1, <2>2, <2>3, <2>4 DEF Tree
<1>7. QED
  BY <1>3, <1>4, <1>5, <1>6 DEF IsDir

\* What rm -r removes: what lies below an argument that may be changed.
LEMMA RemovesIs ==
  ASSUME Tree, NEW words \in Seq(Text), NEW place \in Places
  PROVE  /\ place \in Removes(words) <=>
              /\ place \in DOMAIN disk
              /\ \E p \in Arguments(words) : p # << >> /\ MayChange(p) /\ Leads(p, place)
<1>1. Arguments(words) \subseteq Places
  BY ArgumentsType
<1>2. \A p \in Arguments(words) : IsPrefix(p, place) <=> Leads(p, place)
  BY <1>1, IsPrefixIs
<1>3. QED
  BY <1>2 DEF Removes, Below

\* After rm -r the tree stands: with a directory goes all that is in it.
LEMMA RemoveStep ==
  ASSUME Tree, NEW words \in Seq(Text),
         disk' = [place \in DOMAIN disk \ Removes(words) |-> disk[place]]
  PROVE  Tree' /\ Shrinks(words)
<1>1. Shrinks(words)
  BY DEF Shrinks
<1>2. DOMAIN disk' \subseteq Places
  BY <1>1 DEF Tree, Shrinks
<1>3. \A place \in DOMAIN disk' : disk'[place] \in Contents \cup {Dir}
  BY <1>1 DEF Tree, Shrinks
<1>4. << >> \in DOMAIN disk' /\ disk'[<< >>] = Dir
  <2>1. \A p \in Arguments(words) : Leads(p, << >>) => p = << >>
    BY ArgumentsType, PlaceLength, LeadsFacts
  <2>2. << >> \notin Removes(words)
    BY <2>1, RemovesIs, PlaceLength
  <2>3. QED
    BY <1>1, <2>2 DEF Tree, Shrinks
<1>5. ASSUME NEW place \in DOMAIN disk' \ {<< >>}
      PROVE  Front(place) \in DOMAIN disk' /\ disk'[Front(place)] = Dir
  <2>1. place \in DOMAIN disk /\ place \notin Removes(words) /\ place # << >>
    BY <1>1 DEF Shrinks
  <2>2. place \in Places /\ Front(place) \in DOMAIN disk /\ disk[Front(place)] = Dir
    BY <2>1 DEF Tree
  <2>3. Front(place) \in Places /\ Leads(Front(place), place)
    BY <2>1, <2>2, FrontIs
  <2>4. Front(place) \notin Removes(words)
    <3>1. SUFFICES ASSUME Front(place) \in Removes(words) PROVE FALSE
      OBVIOUS
    <3>2. PICK p \in Arguments(words) :
             p # << >> /\ MayChange(p) /\ Leads(p, Front(place))
      BY <2>3, <3>1, RemovesIs
    <3>3. p \in Places
      BY ArgumentsType
    <3>4. Leads(p, place)
      BY <2>2, <2>3, <3>2, <3>3, LeadsFacts
    <3>5. QED
      BY <2>1, <2>2, <3>2, <3>4, RemovesIs
  <2>5. QED
    BY <1>1, <2>2, <2>4 DEF Shrinks
<1>6. QED
  BY <1>1, <1>2, <1>3, <1>4, <1>5 DEF Tree

\* A line of the shell takes away what it removes, or it takes away nothing.
LEMMA RunStep ==
  ASSUME Tree, NEW words \in Seq(Text), Runs(words)
  PROVE  /\ Tree'
         /\ \/ Program(words) = RemoveCommand /\ Shrinks(words)
            \/ Grows
<1>1. CASE Program(words) = RemoveCommand
  BY <1>1, RemoveStep DEF Runs
<1>2. CASE Program(words) # RemoveCommand /\ Program(words) = MakeCommand
  BY <1>2, MakeStep DEF Runs
<1>3. CASE Program(words) # RemoveCommand /\ Program(words) # MakeCommand
  <2>1. UNCHANGED disk
    BY <1>3 DEF Runs
  <2>2. QED
    BY <2>1 DEF Tree, Grows
<1>4. QED
  BY <1>1, <1>2, <1>3

\* A file is put where a directory is, and where none stands in its place.
LEMMA CopyStep ==
  ASSUME Tree, NEW into \in Places, NEW name \in Text, NEW content \in Contents,
         IsDir(into), ~IsDir(Append(into, name)),
         disk' = [place \in DOMAIN disk \cup {Append(into, name)} |->
                     IF place = Append(into, name) THEN content ELSE disk[place]]
  PROVE  /\ Tree' /\ Keeps
         /\ \A place \in DOMAIN disk : place # Append(into, name) =>
               place \in DOMAIN disk' /\ disk'[place] = disk[place]
         /\ Append(into, name) \in DOMAIN disk' /\ disk'[Append(into, name)] = content
<1> DEFINE target == Append(into, name)
<1>1. target \in Places /\ target # << >> /\ Front(target) = into
  BY AppendPlace
<1>2. /\ DOMAIN disk' = DOMAIN disk \cup {target}
      /\ \A place \in DOMAIN disk' :
            disk'[place] = IF place = target THEN content ELSE disk[place]
      /\ ~IsDir(target)
  OBVIOUS
<1> HIDE DEF target
<1>3. content # Dir
  BY Assumed
<1>4. Keeps
  BY <1>2, <1>3 DEF Keeps, IsDir, IsFile
<1>5. Tree'
  <2>1. DOMAIN disk' \subseteq Places
    BY <1>1, <1>2 DEF Tree
  <2>2. \A place \in DOMAIN disk' : disk'[place] \in Contents \cup {Dir}
    BY <1>2 DEF Tree
  <2>3. << >> \in DOMAIN disk' /\ disk'[<< >>] = Dir
    BY <1>1, <1>2 DEF Tree
  <2>4. ASSUME NEW place \in DOMAIN disk' \ {<< >>}
        PROVE  Front(place) \in DOMAIN disk' /\ disk'[Front(place)] = Dir
    <3>1. Front(place) \in DOMAIN disk /\ disk[Front(place)] = Dir
      <4>1. CASE place = target
        BY <1>1, <4>1 DEF IsDir
      <4>2. CASE place # target
        BY <1>2, <4>2 DEF Tree
      <4>3. QED
        BY <4>1, <4>2
    <3>2. Front(place) # target
      BY <1>2, <3>1 DEF IsDir
    <3>3. QED
      BY <1>2, <3>1, <3>2
  <2>5. QED
    BY <2>1, <2>2, <2>3, <2>4 DEF Tree
<1>6. QED
  BY <1>2, <1>4, <1>5 DEF target

-----------------------------------------------------------------------------
(* The inductive invariant.                                                *)

CallType ==
  [pc : {"idle", "mkdir", "copy", "exec", "read", "got"},
   path : Paths \cup {<< >>},
   content : Contents \cup {Dir, Empty},
   cmd : Commands \cup {<< >>},
   disturbed : BOOLEAN]

\* What a call needs is what the client sent.
Sent(k) ==
  /\ k.pc \in {"mkdir", "copy"} => k.path \in Paths /\ k.content \in Contents
  /\ k.pc = "exec" => k.cmd \in Commands

Callers == \A c \in Calls : Sent(call[c])

\* Without root, no command takes the work directory away, nor one above it.
HomeStands == ~asRoot => \A p \in Prefixes(Work) : IsDir(p)

FileInv == FileTypeOK /\ Callers /\ HomeStands /\ PromisesKept /\ ParentsMade

Into(k) == Place(<< >>, DirOf(k.path))

Waiting(k, root) ==
  k.pc = "copy" /\ Plain(k.path) /\ ~k.disturbed /\ (root \/ IsPrefix(Work, Into(k)))

Ready(into, d) ==
  \/ into \in DOMAIN d /\ d[into] = Dir
  \/ \E p \in Prefixes(into) : p \in DOMAIN d /\ d[p] # Dir

\* FileTypeOK in these terms.
LEMMA TypeIs ==
  FileTypeOK <=> /\ Tree
                 /\ asRoot \in BOOLEAN
                 /\ call \in [Calls -> CallType]
                 /\ \A place \in DOMAIN promised : promised[place] \in Contents
  BY DEF FileTypeOK, Tree, CallType, Places, Text

\* ParentsMade in these terms.
LEMMA ParentsIs ==
  ParentsMade <=> \A c \in Calls : Waiting(call[c], asRoot) => Ready(Into(call[c]), disk)
  BY DEF ParentsMade, Waiting, Ready, Into, IsDir, IsFile

\* FileTypeOK of the next state.
LEMMA TypeNext ==
  FileTypeOK' <=> /\ Tree'
                  /\ asRoot' \in BOOLEAN
                  /\ call' \in [Calls -> CallType]
                  /\ \A place \in DOMAIN promised' : promised'[place] \in Contents
  BY DEF FileTypeOK, Tree, CallType, Places, Text

\* ParentsMade of the next state.
LEMMA ParentsNext ==
  ParentsMade' <=>
     \A c \in Calls : Waiting(call'[c], asRoot') => Ready(Into(call'[c]), disk')
  BY DEF ParentsMade, Waiting, Ready, Into, IsDir, IsFile

\* An idle call holds nothing.
LEMMA NoCallType == NoCall \in CallType /\ Sent(NoCall) /\ NoCall.pc = "idle"
  BY DEF NoCall, CallType, Sent, Dir

\* Where no file and no directory is lost, what was made for others stays made.
LEMMA ReadyKept ==
  ASSUME Keeps, NEW into, Ready(into, disk)
  PROVE  Ready(into, disk')
  BY DEF Keeps, Ready, IsDir, IsFile

\* ParentsMade stays true where nothing is lost and no call starts to wait.
LEMMA ParentsKept ==
  ASSUME ParentsMade, Keeps, asRoot' = asRoot,
         \A c \in Calls : call'[c].pc = "copy" => call'[c] = call[c]
  PROVE  ParentsMade'
<1>1. ASSUME NEW c \in Calls, Waiting(call'[c], asRoot')
      PROVE  Ready(Into(call'[c]), disk')
  <2>1. call'[c] = call[c]
    BY <1>1 DEF Waiting
  <2>2. Ready(Into(call[c]), disk)
    BY <1>1, <2>1, ParentsIs
  <2>3. QED
    BY <2>1, <2>2, ReadyKept
<1>2. QED
  BY <1>1, ParentsNext

\* HomeStands stays true where nothing is lost.
LEMMA HomeKept ==
  ASSUME HomeStands, Keeps, asRoot' = asRoot
  PROVE  HomeStands'
  BY DEF HomeStands, Keeps, IsDir, IsFile

\* A call that returns holds nothing; the others hold what they held.
LEMMA EndCalls ==
  ASSUME call \in [Calls -> CallType], Callers, NEW c \in Calls, End(c)
  PROVE  /\ (call \in [Calls -> CallType])' /\ Callers'
         /\ \A d \in Calls : call'[d].pc = "copy" => call'[d] = call[d]
<1>1. \A d \in Calls : call'[d] = IF d = c THEN NoCall ELSE call[d]
  BY DEF End
<1>2. call' \in [Calls -> CallType]
  BY NoCallType DEF End
<1>3. Callers'
  BY <1>1, NoCallType DEF Callers
<1>4. \A d \in Calls : call'[d].pc = "copy" => call'[d] = call[d]
  BY <1>1, NoCallType
<1>5. QED
  BY <1>2, <1>3, <1>4

\* A step that leaves the disk alone loses nothing.
LEMMA StandStill ==
  ASSUME UNCHANGED disk
  PROVE  Keeps /\ Grows /\ (Tree => Tree')
  BY DEF Keeps, Grows, Tree, IsDir, IsFile

-----------------------------------------------------------------------------
(* The initial states.                                                     *)

\* The invariant holds at the start, with the work directory and those above it.
LEMMA InitInv == FileInit => FileInv
<1>1. SUFFICES ASSUME FileInit PROVE FileInv
  OBVIOUS
<1>2. /\ DOMAIN disk = Prefixes(Work) /\ \A place \in DOMAIN disk : disk[place] = Dir
      /\ asRoot \in BOOLEAN
      /\ \A c \in Calls : call[c] = NoCall
      /\ call \in [Calls -> {NoCall}]
      /\ DOMAIN promised = {}
  BY <1>1 DEF FileInit
<1>3. \A p : p \in DOMAIN disk <=> p \in Places /\ Leads(p, Work)
  BY <1>2, Assumed, PrefixIs
<1>4. Tree
  <2>1. << >> \in DOMAIN disk
    BY <1>3, Assumed, PlaceLength, LeadsFacts
  <2>2. ASSUME NEW place \in DOMAIN disk \ {<< >>}
        PROVE  Front(place) \in DOMAIN disk
    <3>1. place \in Places /\ place # << >> /\ Leads(place, Work)
      BY <1>3
    <3>2. Front(place) \in Places /\ Leads(Front(place), place)
      BY <3>1, FrontIs
    <3>3. Leads(Front(place), Work)
      BY <3>1, <3>2, Assumed, LeadsFacts
    <3>4. QED
      BY <1>3, <3>2, <3>3
  <2>3. QED
    BY <1>2, <1>3, <2>1, <2>2 DEF Tree
<1>5. FileTypeOK
  <2>1. call \in [Calls -> CallType]
    BY <1>2, NoCallType
  <2>2. QED
    BY <1>2, <1>4, <2>1, TypeIs
<1>6. Callers
  BY <1>2, NoCallType DEF Callers
<1>7. HomeStands /\ PromisesKept
  BY <1>2 DEF HomeStands, IsDir, PromisesKept
<1>8. ParentsMade
  BY <1>2, NoCallType DEF ParentsMade
<1>9. QED
  BY <1>5, <1>6, <1>7, <1>8 DEF FileInv

-----------------------------------------------------------------------------
(* The steps that leave the disk alone.                                    *)

\* A call that starts with what the client sent, and nothing to wait for.
LEMMA BeginStep ==
  ASSUME FileInv, NEW c \in Calls, NEW fields \in CallType, Begin(c, fields),
         Sent(fields), Waiting(fields, asRoot) => Ready(Into(fields), disk)
  PROVE  FileInv'
<1>1. /\ UNCHANGED <<disk, asRoot, promised>>
      /\ call \in [Calls -> CallType] /\ call' = [call EXCEPT ![c] = fields]
      /\ Tree /\ asRoot \in BOOLEAN
      /\ \A place \in DOMAIN promised : promised[place] \in Contents
  BY TypeIs DEF FileInv, Begin
<1>2. \A d \in Calls : call'[d] = IF d = c THEN fields ELSE call[d]
  BY <1>1
<1>3. call' \in [Calls -> CallType]
  BY <1>1
<1>4. Tree'
  BY <1>1, StandStill
<1>5. FileTypeOK'
  BY <1>1, <1>3, <1>4, TypeNext
<1>6. Callers'
  BY <1>2 DEF FileInv, Callers
<1>7. HomeStands' /\ PromisesKept'
  BY <1>1 DEF FileInv, HomeStands, IsDir, PromisesKept
<1>8. ParentsMade'
  <2>1. \A d \in Calls : Waiting(call'[d], asRoot') => Ready(Into(call'[d]), disk')
    BY <1>1, <1>2, ParentsIs DEF FileInv
  <2>2. QED
    BY <2>1, ParentsNext
<1>9. QED
  BY <1>5, <1>6, <1>7, <1>8 DEF FileInv

\* Plain in terms of Slash and Blank.
LEMMA PlainIs ==
  ASSUME NEW path, Plain(path)
  PROVE  path[1] = Slash /\ ~Blank(path)
  BY DEF Plain, Blank, Ordinary, Slash, Space, Tick, Back

\* The path / names the root.
LEMMA RootOf == Components(<<"/">>) = << >>
<1>1. <<"/">> = Append(<< >>, Slash)
  BY DEF Slash
<1>2. QED
  BY <1>1, SlashAdds, ComponentsEmpty, TextFacts

\* The place of the directory a path is copied to.
LEMMA IntoIs ==
  ASSUME NEW path \in Paths
  PROVE  /\ Place(<< >>, DirOf(path)) \in Places /\ Basename(path) \in Text
         /\ Append(Place(<< >>, DirOf(path)), Basename(path)) = Place(<< >>, path)
         /\ Components(ParentDir(path)) \in {Place(<< >>, DirOf(path)), Place(<< >>, path)}
         /\ ParentDir(path) \in Text
<1>1. path \in Text /\ HasName(path)
  BY Assumed
<1>2. QED
  BY <1>1, SamePlace, MadeOrBelow, ParentType

\* An absolute path whose directory write_file does not make lies in the root.
LEMMA NoDirectoryNeeded ==
  ASSUME Tree, NEW path \in Paths, Plain(path), ParentDir(path) \in {<< >>, <<"/">>}
  PROVE  Ready(Place(<< >>, DirOf(path)), disk)
<1> DEFINE into == Place(<< >>, DirOf(path))
<1>1. path \in Text /\ path # << >> /\ path[1] = Slash
  BY Assumed, PlainIs
<1>2. ParentDir(path) = <<"/">>
  BY <1>1, ParentOfAbsolute
<1>3. Components(ParentDir(path)) = << >>
  BY <1>2, RootOf
<1>4. Append(into, Basename(path)) # << >>
  BY IntoIs, AppendPlace
<1>5. into = << >>
  BY <1>3, <1>4, IntoIs
<1>6. QED
  BY <1>5 DEF Tree, Ready

\* write_file starts.
LEMMA StartWriteStep ==
  ASSUME FileInv, NEW c \in Calls, StartWrite(c)
  PROVE  FileInv'
<1>1. PICK path \in Paths, content \in Contents :
        Begin(c, [NoCall EXCEPT
            !.pc = IF ParentDir(path) \in {<<>>, <<"/">>} THEN "copy" ELSE "mkdir",
            !.path = path, !.content = content])
  BY DEF StartWrite
<1> DEFINE fields == [NoCall EXCEPT
            !.pc = IF ParentDir(path) \in {<<>>, <<"/">>} THEN "copy" ELSE "mkdir",
            !.path = path, !.content = content]
<1>2. /\ fields \in CallType /\ Sent(fields) /\ fields.path = path
      /\ fields.pc = "copy" => ParentDir(path) \in {<< >>, <<"/">>}
  BY DEF CallType, Sent, NoCall
<1>3. Begin(c, fields)
  BY <1>1
<1> HIDE DEF fields
<1>4. Tree
  BY TypeIs DEF FileInv
<1>5. ASSUME Waiting(fields, asRoot) PROVE Ready(Into(fields), disk)
  <2>1. Plain(path) /\ ParentDir(path) \in {<< >>, <<"/">>}
    BY <1>2, <1>5 DEF Waiting
  <2>2. QED
    BY <1>2, <1>4, <2>1, NoDirectoryNeeded DEF Into
<1>6. QED
  BY <1>2, <1>3, <1>5, BeginStep

\* read_file starts.
LEMMA StartReadStep ==
  ASSUME FileInv, NEW c \in Calls, StartRead(c)
  PROVE  FileInv'
<1>1. PICK path \in Paths : Begin(c, [NoCall EXCEPT !.pc = "read", !.path = path])
  BY DEF StartRead
<1> DEFINE fields == [NoCall EXCEPT !.pc = "read", !.path = path]
<1>2. fields \in CallType /\ Sent(fields) /\ fields.pc # "copy"
  BY DEF CallType, Sent, NoCall
<1>3. Begin(c, fields)
  BY <1>1
<1> HIDE DEF fields
<1>4. QED
  BY <1>2, <1>3, BeginStep DEF Waiting

\* The exec endpoint starts.
LEMMA StartExecStep ==
  ASSUME FileInv, NEW c \in Calls, StartExec(c)
  PROVE  FileInv'
<1>1. PICK cmd \in Commands : Begin(c, [NoCall EXCEPT !.pc = "exec", !.cmd = cmd])
  BY DEF StartExec
<1> DEFINE fields == [NoCall EXCEPT !.pc = "exec", !.cmd = cmd]
<1>2. fields \in CallType /\ Sent(fields) /\ fields.pc # "copy"
  BY DEF CallType, Sent, NoCall
<1>3. Begin(c, fields)
  BY <1>1
<1> HIDE DEF fields
<1>4. QED
  BY <1>2, <1>3, BeginStep DEF Waiting

\* read_file reads.
LEMMA CopyOutStep ==
  ASSUME FileInv, NEW c \in Calls, CopyOut(c)
  PROVE  FileInv'
<1>1. /\ UNCHANGED <<disk, asRoot, promised>>
      /\ call \in [Calls -> CallType] /\ Tree /\ asRoot \in BOOLEAN
      /\ \A p \in DOMAIN promised : promised[p] \in Contents
      /\ Callers
  BY TypeIs DEF FileInv, CopyOut
<1>2. /\ call' \in [Calls -> CallType] /\ Callers'
      /\ \A d \in Calls : call'[d].pc = "copy" => call'[d] = call[d]
  <2>1. CASE End(c)
    BY <1>1, <2>1, EndCalls
  <2>2. CASE ~End(c)
    <3> DEFINE place == Place(<<>>, call[c].path)
               read == IF IsDir(place) THEN Empty ELSE disk[place]
    <3>1. place \in DOMAIN disk
            /\ call' = [call EXCEPT ![c].pc = "got", ![c].content = read]
      BY <2>2 DEF CopyOut
    <3>2. read \in Contents \cup {Dir, Empty}
      BY <1>1, <3>1 DEF Tree
    <3> HIDE DEF read
    <3>3. call' \in [Calls -> CallType]
      BY <1>1, <3>1, <3>2 DEF CallType
    <3>4. call'[c].pc = "got" /\ \A d \in Calls \ {c} : call'[d] = call[d]
      BY <1>1, <3>1 DEF CallType
    <3>5. Callers'
      BY <1>1, <3>4 DEF Callers, Sent
    <3>6. QED
      BY <3>3, <3>4, <3>5
  <2>3. QED
    BY <2>1, <2>2
<1>3. Keeps /\ Tree'
  BY <1>1, StandStill
<1>4. FileTypeOK'
  BY <1>1, <1>2, <1>3, TypeNext
<1>5. HomeStands' /\ ParentsMade'
  BY <1>1, <1>2, <1>3, HomeKept, ParentsKept DEF FileInv
<1>6. PromisesKept'
  BY <1>1 DEF FileInv, PromisesKept
<1>7. QED
  BY <1>2, <1>4, <1>5, <1>6 DEF FileInv

\* read_file returns.
LEMMA ReturnStep ==
  ASSUME FileInv, NEW c \in Calls, Return(c)
  PROVE  FileInv'
<1>1. /\ UNCHANGED <<disk, asRoot, promised>> /\ End(c)
      /\ call \in [Calls -> CallType] /\ Tree /\ asRoot \in BOOLEAN
      /\ \A p \in DOMAIN promised : promised[p] \in Contents
      /\ Callers
  BY TypeIs DEF FileInv, Return
<1>2. /\ call' \in [Calls -> CallType] /\ Callers'
      /\ \A d \in Calls : call'[d].pc = "copy" => call'[d] = call[d]
  BY <1>1, EndCalls
<1>3. Keeps /\ Tree'
  BY <1>1, StandStill
<1>4. FileTypeOK'
  BY <1>1, <1>2, <1>3, TypeNext
<1>5. HomeStands' /\ ParentsMade'
  BY <1>1, <1>2, <1>3, HomeKept, ParentsKept DEF FileInv
<1>6. PromisesKept'
  BY <1>1 DEF FileInv, PromisesKept
<1>7. QED
  BY <1>2, <1>4, <1>5, <1>6 DEF FileInv

-----------------------------------------------------------------------------
(* write_file makes its directory.                                         *)

\* Five characters are a text.
LEMMA FiveChars ==
  \A a, b, c, d, e \in Chars : <<a, b, c, d, e>> \in Text /\ Len(<<a, b, c, d, e>>) = 5
  BY DEF Text

\* mkdir is a text, and not rm.
LEMMA MakeCommandType == MakeCommand \in Text /\ MakeCommand # RemoveCommand
<1>1. \E m, k, d, i, r \in Chars : MakeCommand = <<m, k, d, i, r>>
  <2>1. "m" \in Chars /\ "k" \in Chars /\ "d" \in Chars /\ "i" \in Chars /\ "r" \in Chars
    BY CharsAssumption
  <2>2. QED
    BY <2>1, Zenon DEF MakeCommand
<1>2. MakeCommand \in Text /\ Len(MakeCommand) = 5
  BY <1>1, FiveChars
<1>3. Len(RemoveCommand) = 2
  BY DEF RemoveCommand
<1>4. Len(MakeCommand) # Len(RemoveCommand)
  BY <1>2, <1>3
<1>5. MakeCommand # RemoveCommand
  BY <1>4, Zenon
<1>6. QED
  BY <1>2, <1>5

\* One word before others.
LEMMA OneMore ==
  ASSUME NEW word \in Text, NEW ws \in Seq(Text)
  PROVE  /\ <<word>> \o ws \in Seq(Text) /\ <<word>> \o ws # << >>
         /\ (<<word>> \o ws)[1] = word
         /\ \A w \in Text : ws = <<w>> =>
               Len(<<word>> \o ws) = 2 /\ (<<word>> \o ws)[2] = w
<1> DEFINE one == <<word>>
           all == one \o ws
<1>1. one \in Seq(Text) /\ Len(one) = 1 /\ one[1] = word
  OBVIOUS
<1>2. \A w : ws = <<w>> => Len(ws) = 1 /\ ws[1] = w
  OBVIOUS
<1>3. Len(ws) \in Nat
  BY LenProperties
<1> HIDE DEF one
<1>4. /\ all \in Seq(Text) /\ Len(all) = 1 + Len(ws)
      /\ \A i \in 1..1 + Len(ws) : all[i] = IF i <= 1 THEN one[i] ELSE ws[i - 1]
  <2>1. one \in Seq(Text)
    BY <1>1
  <2>2. /\ all \in Seq(Text) /\ Len(all) = Len(one) + Len(ws)
        /\ \A i \in 1..Len(one) + Len(ws) :
              all[i] = IF i <= Len(one) THEN one[i] ELSE ws[i - Len(one)]
    BY <2>1, ConcatProperties
  <2>3. Len(one) = 1
    BY <1>1
  <2> HIDE DEF all
  <2>4. QED
    BY <2>2, <2>3
<1> HIDE DEF all
<1>5. all # << >> /\ all[1] = word
  BY <1>1, <1>3, <1>4, EmptySeq
<1>6. ASSUME NEW w, ws = <<w>> PROVE Len(all) = 2 /\ all[2] = w
  BY <1>2, <1>4, <1>6
<1>7. QED
  BY <1>4, <1>5, <1>6 DEF all, one

\* The line write_file runs is an mkdir, whatever its path is split into.
LEMMA MakeWords ==
  ASSUME NEW ws \in Seq(Text)
  PROVE  /\ <<MakeCommand>> \o ws \in Seq(Text)
         /\ Program(<<MakeCommand>> \o ws) = MakeCommand
         /\ MakeCommand # RemoveCommand
  BY MakeCommandType, OneMore DEF Program

\* For a plain path, the one argument is the place of its directory.
LEMMA MakeArgument ==
  ASSUME NEW path \in Paths, Plain(path)
  PROVE  Arguments(<<MakeCommand>> \o ShellWords(ParentDir(path))) =
           {Components(ParentDir(path))}
<1> DEFINE dir == ParentDir(path)
           words == <<MakeCommand>> \o ShellWords(dir)
<1>1. /\ path \in Text /\ path # << >> /\ path[1] = Slash /\ ~Blank(path)
  BY Assumed, PlainIs
<1>2. dir \in Text /\ dir # << >> /\ dir[1] = Slash /\ ~Blank(dir)
  BY <1>1, ParentOfAbsolute, ParentType
<1> HIDE DEF dir
<1>3. ShellWords(dir) = <<dir>>
  BY <1>2, PlainWord
<1>4. <<dir>> \in Seq(Text)
  BY <1>2
<1>5. Len(words) = 2 /\ words[2] = dir
  BY <1>2, <1>3, <1>4, MakeCommandType, OneMore
<1> HIDE DEF words
<1>6. 2..2 = {2}
  OBVIOUS
<1>7. Arguments(words) = {Place(Work, dir)}
  BY <1>5, <1>6 DEF Arguments
<1>8. Place(Work, dir) = Components(dir)
  BY <1>2 DEF Place, Slash
<1>9. QED
  BY <1>7, <1>8 DEF words, dir

\* Unless a file stands in the way, the directory of the copy is there then.
LEMMA DirectoryMade ==
  ASSUME Tree, HomeStands, NEW path \in Paths, Plain(path),
         asRoot \/ IsPrefix(Work, Place(<< >>, DirOf(path))),
         Runs(<<MakeCommand>> \o ShellWords(ParentDir(path)))
  PROVE  Ready(Place(<< >>, DirOf(path)), disk')
<1> DEFINE words == <<MakeCommand>> \o ShellWords(ParentDir(path))
           into == Place(<< >>, DirOf(path))
           made == Components(ParentDir(path))
<1>1. /\ into \in Places /\ made \in Places /\ ParentDir(path) \in Text
      /\ made \in {into, Append(into, Basename(path))} /\ Basename(path) \in Text
  BY IntoIs, ComponentsType
<1>2. /\ words \in Seq(Text) /\ Program(words) = MakeCommand
      /\ MakeCommand # RemoveCommand
  BY <1>1, WordsType, MakeWords
<1>3. Arguments(words) = {made}
  BY MakeArgument
<1>4. Runs(words)
  OBVIOUS
<1> SUFFICES Ready(into, disk')
  OBVIOUS
<1> HIDE DEF words, into, made
<1>5. disk' = [place \in DOMAIN disk \cup UNION {Makes(p) : p \in Arguments(words)}
                  |-> IF place \in DOMAIN disk THEN disk[place] ELSE Dir]
  BY <1>2, <1>4 DEF Runs
<1>6. /\ Grows
      /\ \A p \in Arguments(words) : \A m \in Makes(p) : IsDir(m)'
  BY <1>2, <1>5, MakeStep
<1>7. CASE \E p \in Prefixes(into) : IsFile(p)
  BY <1>6, <1>7 DEF Grows, IsFile, Ready
<1>8. CASE \A p \in Prefixes(into) : ~IsFile(p)
  <2>1. ASSUME NEW p \in Prefixes(into) PROVE IsDir(p) \/ MayChange(p)
    <3>1. p \in Places /\ Leads(p, into)
      BY <1>1, PrefixIs
    <3>2. CASE asRoot
      BY <3>2 DEF MayChange
    <3>3. CASE ~asRoot
      <4>1. Leads(Work, into)
        BY <1>1, <3>3, Assumed, IsPrefixIs DEF into
      <4>2. Leads(p, Work) \/ Leads(Work, p)
        BY <1>1, <3>1, <4>1, Assumed, LeadsFacts
      <4>3. CASE Leads(p, Work)
        BY <3>1, <3>3, <4>3, Assumed, PrefixIs DEF HomeStands
      <4>4. CASE ~Leads(p, Work) /\ Leads(Work, p)
        <5>1. p # Work
          BY <3>1, <4>4, LeadsFacts
        <5>2. QED
          BY <3>1, <4>4, <5>1, Assumed, IsPrefixIs DEF MayChange, IsStrictPrefix
      <4>5. QED
        BY <4>2, <4>3, <4>4
    <3>4. QED
      BY <3>2, <3>3
  <2>2. Leads(into, made)
    <3>1. Leads(into, into) /\ Leads(into, Append(into, Basename(path)))
      BY <1>1, LeadsFacts, AppendPlace
    <3>2. QED
      BY <1>1, <3>1
  <2>3. into \in Makes(made)
    <3>1. into \in Prefixes(made)
      BY <1>1, <2>2, PrefixIs
    <3>2. QED
      BY <1>8, <2>1, <3>1 DEF Makes
  <2>4. IsDir(into)'
    BY <1>3, <1>6, <2>3
  <2>5. QED
    BY <2>4 DEF IsDir, Ready
<1>9. QED
  BY <1>7, <1>8

\* write_file makes its directory: nothing is lost by it, whatever the words.
LEMMA MakeParentsStep ==
  ASSUME FileInv, NEW c \in Calls, MakeParents(c)
  PROVE  FileInv'
<1>1. /\ call \in [Calls -> CallType] /\ Tree /\ asRoot \in BOOLEAN
      /\ \A p \in DOMAIN promised : promised[p] \in Contents
      /\ Callers /\ HomeStands /\ ParentsMade /\ PromisesKept
  BY TypeIs DEF FileInv
<1>2. /\ call[c].pc = "mkdir" /\ asRoot' = asRoot /\ promised' = promised
      /\ call[c].path \in Paths /\ call[c].content \in Contents
  BY <1>1 DEF MakeParents, Callers, Sent
<1> DEFINE dir == ParentDir(call[c].path)
           words == <<MakeCommand>> \o ShellWords(dir)
<1>3. /\ words \in Seq(Text) /\ Program(words) = MakeCommand
      /\ MakeCommand # RemoveCommand
  BY <1>2, IntoIs, WordsType, MakeWords
<1>4. \/ Runs(words) /\ (call' = [call EXCEPT ![c].pc = "copy"] \/ End(c))
      \/ UNCHANGED disk /\ End(c)
  BY DEF MakeParents
<1>5. Tree' /\ Grows
  <2>1. CASE Runs(words)
    <3> HIDE DEF words
    <3>1. QED
      BY <1>1, <1>3, <2>1, RunStep
  <2>2. CASE UNCHANGED disk
    BY <1>1, <2>2, StandStill
  <2>3. QED
    BY <1>4, <2>1, <2>2
<1>6. Keeps /\ HomeStands'
  BY <1>1, <1>2, <1>5, GrowsKeeps, HomeKept
<1>7. call' \in [Calls -> CallType] /\ Callers' /\ ParentsMade'
  <2>1. CASE End(c)
    BY <1>1, <1>2, <1>6, <2>1, EndCalls, ParentsKept
  <2>2. CASE ~End(c)
    <3>1. Runs(words) /\ call' = [call EXCEPT ![c].pc = "copy"]
      BY <1>4, <2>2
    <3> HIDE DEF words
    <3>2. call' \in [Calls -> CallType]
      BY <1>1, <3>1 DEF CallType
    <3>3. /\ \A d \in Calls \ {c} : call'[d] = call[d]
          /\ call'[c].pc = "copy" /\ call'[c].path = call[c].path
          /\ call'[c].content = call[c].content
      BY <1>1, <3>1 DEF CallType
    <3>4. Callers'
      BY <1>1, <1>2, <3>3 DEF Callers, Sent
    <3>5. ASSUME NEW d \in Calls, Waiting(call'[d], asRoot')
          PROVE  Ready(Into(call'[d]), disk')
      <4>1. CASE d # c
        BY <1>1, <1>2, <1>6, <3>3, <3>5, <4>1, ParentsIs, ReadyKept
      <4>2. CASE d = c
        <5>1. PICK path \in Paths : path = call[c].path
          BY <1>2
        <5>2. /\ Plain(path)
              /\ asRoot \/ IsPrefix(Work, Place(<< >>, DirOf(path)))
              /\ Into(call'[d]) = Place(<< >>, DirOf(path))
          BY <1>2, <3>3, <3>5, <4>2, <5>1 DEF Waiting, Into
        <5>3. Runs(<<MakeCommand>> \o ShellWords(ParentDir(path)))
          BY <3>1, <5>1 DEF words
        <5>4. QED
          BY <1>1, <5>2, <5>3, DirectoryMade
      <4>3. QED
        BY <4>1, <4>2
    <3>6. QED
      BY <3>2, <3>4, <3>5, ParentsNext
  <2>3. QED
    BY <2>1, <2>2
<1>8. FileTypeOK'
  BY <1>1, <1>2, <1>5, <1>7, TypeNext
<1>9. PromisesKept'
  BY <1>1, <1>2, <1>5 DEF PromisesKept, Grows
<1>10. QED
  BY <1>6, <1>7, <1>8, <1>9 DEF FileInv

-----------------------------------------------------------------------------
(* The copy.                                                               *)

\* write_file copies: into the place it promises, since SamePlace holds.
LEMMA CopyInStep ==
  ASSUME FileInv, NEW c \in Calls, CopyIn(c)
  PROVE  FileInv'
<1>1. /\ call \in [Calls -> CallType] /\ Tree /\ asRoot \in BOOLEAN
      /\ \A p \in DOMAIN promised : promised[p] \in Contents
      /\ Callers /\ HomeStands /\ ParentsMade /\ PromisesKept
  BY TypeIs DEF FileInv
<1>2. /\ call[c].pc = "copy" /\ asRoot' = asRoot /\ End(c)
      /\ call[c].path \in Paths /\ call[c].content \in Contents
  BY <1>1 DEF CopyIn, Callers, Sent
<1>3. PICK path \in Paths, content \in Contents :
         path = call[c].path /\ content = call[c].content
  BY <1>2
<1> DEFINE into   == Place(<< >>, DirOf(path))
           name   == Basename(path)
           target == Append(into, name)
<1>4. into \in Places /\ name \in Text /\ target = Place(<< >>, path)
  BY IntoIs
<1>5. \/ /\ IsDir(into) /\ ~IsDir(target)
         /\ disk' = [place \in DOMAIN disk \cup {target} |->
                        IF place = target THEN content ELSE disk[place]]
         /\ \/ promised' = [place \in DOMAIN promised \cup {target} |->
                               IF place = target THEN content ELSE promised[place]]
            \/ promised' = [place \in DOMAIN promised \ {target} |-> promised[place]]
      \/ UNCHANGED <<disk, promised>>
  BY <1>3, <1>4 DEF CopyIn
<1> HIDE DEF into, name
<1>6. /\ Tree' /\ Keeps /\ PromisesKept'
      /\ \A p \in DOMAIN promised' : promised'[p] \in Contents
  <2>1. CASE UNCHANGED <<disk, promised>>
    BY <1>1, <2>1, StandStill DEF PromisesKept
  <2>2. CASE ~(UNCHANGED <<disk, promised>>)
    <3>1. /\ Tree' /\ Keeps
          /\ \A place \in DOMAIN disk : place # target =>
                place \in DOMAIN disk' /\ disk'[place] = disk[place]
          /\ target \in DOMAIN disk' /\ disk'[target] = content
      BY <1>1, <1>4, <1>5, <2>2, CopyStep
    <3>2. \A place \in DOMAIN promised' :
             \/ place = target /\ promised'[place] = content
             \/ place # target /\ place \in DOMAIN promised
                  /\ promised'[place] = promised[place]
      BY <1>5, <2>2
    <3> HIDE DEF target
    <3>3. QED
      BY <1>1, <3>1, <3>2 DEF PromisesKept
  <2>3. QED
    BY <2>1, <2>2
<1>7. /\ call' \in [Calls -> CallType] /\ Callers' /\ ParentsMade'
  BY <1>1, <1>2, <1>6, EndCalls, ParentsKept
<1>8. HomeStands'
  BY <1>1, <1>2, <1>6, HomeKept
<1>9. FileTypeOK'
  BY <1>1, <1>2, <1>6, <1>7, TypeNext
<1>10. QED
  BY <1>6, <1>7, <1>8, <1>9 DEF FileInv

-----------------------------------------------------------------------------
(* The commands of clients.                                                *)

\* The words that run are the ones the client asked for.
LEMMA AskedIs ==
  ASSUME NEW cmd \in Commands
  PROVE  ShellWords(BuildCmd(cmd)) = Asked(cmd) /\ Asked(cmd) \in Seq(Text)
<1>1. cmd \in Seq(Text) /\ cmd # << >> /\ Len(cmd) \in Nat \ {0}
  BY Assumed, EmptySeq
<1>2. CASE Len(cmd) = 1
  <2>1. BuildCmd(cmd) = cmd[1] /\ Asked(cmd) = ShellWords(cmd[1])
    BY <1>2 DEF BuildCmd, Asked
  <2>2. cmd[1] \in Text
    BY <1>1, <1>2
  <2>3. QED
    BY <2>1, <2>2, WordsType
<1>3. CASE Len(cmd) # 1
  <2> DEFINE n == Len(cmd)
  <2>1. n > 1
    <3>1. n \in Nat \ {0} /\ n # 1
      BY <1>1, <1>3
    <3> HIDE DEF n
    <3>2. QED
      BY <3>1
  <2>2. QED
    BY <1>1, <1>3, <2>1, QuotingRoundTrip DEF Asked
<1>4. QED
  BY <1>2, <1>3

\* Who may not change the work directory takes no directory above it away.
LEMMA HomeShrinks ==
  ASSUME Tree, HomeStands, NEW words \in Seq(Text), Shrinks(words), asRoot' = asRoot
  PROVE  HomeStands'
<1>1. SUFFICES ASSUME ~asRoot, NEW p \in Prefixes(Work)
               PROVE  p \in DOMAIN disk' /\ disk'[p] = Dir
  BY DEF HomeStands, IsDir
<1>2. p \in Places /\ Leads(p, Work) /\ p \in DOMAIN disk /\ disk[p] = Dir
  BY <1>1, Assumed, PrefixIs DEF HomeStands, IsDir
<1>3. p \notin Removes(words)
  <2>1. SUFFICES ASSUME p \in Removes(words) PROVE FALSE
    OBVIOUS
  <2>2. PICK top \in Arguments(words) : MayChange(top) /\ Leads(top, p)
    BY <1>2, <2>1, RemovesIs
  <2>3. top \in Places
    BY ArgumentsType
  <2>4. Leads(Work, top) /\ Work # top
    BY <1>1, <2>2, <2>3, Assumed, IsPrefixIs DEF MayChange, IsStrictPrefix
  <2>5. Leads(top, Work)
    BY <1>2, <2>2, <2>3, Assumed, LeadsFacts
  <2>6. QED
    BY <2>3, <2>4, <2>5, Assumed, LeadsFacts
<1>4. QED
  BY <1>2, <1>3 DEF Shrinks

\* A removal takes away only promises it revokes.
LEMMA PromisesShrink ==
  ASSUME Tree, PromisesKept, NEW cmd \in Commands,
         Program(Asked(cmd)) = RemoveCommand, Shrinks(Asked(cmd)),
         promised' = [place \in DOMAIN promised \ Revoked(cmd) |-> promised[place]]
  PROVE  PromisesKept'
<1>1. SUFFICES ASSUME NEW place \in DOMAIN promised'
               PROVE  place \in DOMAIN disk' /\ disk'[place] = promised'[place]
  BY DEF PromisesKept
<1>2. /\ place \in DOMAIN promised /\ place \notin Revoked(cmd)
      /\ promised'[place] = promised[place]
  BY <1>1
<1>3. place \in DOMAIN disk /\ disk[place] = promised[place]
  BY <1>2 DEF PromisesKept
<1>4. place \notin Removes(Asked(cmd))
  BY <1>2 DEF Removes, Below, Revoked
<1>5. QED
  BY <1>2, <1>3, <1>4 DEF Shrinks

\* A command of a client runs.
LEMMA RunCommandStep ==
  ASSUME FileInv, NEW c \in Calls, RunCommand(c)
  PROVE  FileInv'
<1>1. /\ call \in [Calls -> CallType] /\ Tree /\ asRoot \in BOOLEAN
      /\ \A p \in DOMAIN promised : promised[p] \in Contents
      /\ Callers /\ HomeStands /\ ParentsMade /\ PromisesKept
  BY TypeIs DEF FileInv
<1>2. call[c].pc = "exec" /\ asRoot' = asRoot /\ call[c].cmd \in Commands
  BY <1>1 DEF RunCommand, Callers, Sent
<1>3. CASE UNCHANGED <<disk, promised>> /\ End(c)
  <2>1. Keeps /\ Tree'
    BY <1>1, <1>3, StandStill
  <2>2. call' \in [Calls -> CallType] /\ Callers' /\ ParentsMade' /\ HomeStands'
    BY <1>1, <1>2, <1>3, <2>1, EndCalls, ParentsKept, HomeKept
  <2>3. FileTypeOK' /\ PromisesKept'
    BY <1>1, <1>2, <1>3, <2>1, <2>2, TypeNext DEF PromisesKept
  <2>4. QED
    BY <2>2, <2>3 DEF FileInv
<1>4. CASE ~(UNCHANGED <<disk, promised>> /\ End(c))
  <2>1. PICK cmd \in Commands : cmd = call[c].cmd
    BY <1>2
  <2> DEFINE Uproots == ~(DOMAIN disk \subseteq DOMAIN disk')
  <2>2. /\ Runs(ShellWords(BuildCmd(cmd)))
        /\ promised' = [place \in DOMAIN promised \ Revoked(cmd) |-> promised[place]]
        /\ call' = [d \in Calls |->
                      IF d = c THEN NoCall
                      ELSE [call[d] EXCEPT !.disturbed =
                              @ \/ (call[d].pc = "copy" /\ Uproots)]]
    BY <1>4, <2>1 DEF RunCommand
  <2>3. Asked(cmd) \in Seq(Text) /\ Runs(Asked(cmd))
    BY <2>2, AskedIs
  <2>4. /\ Tree'
        /\ \/ Program(Asked(cmd)) = RemoveCommand /\ Shrinks(Asked(cmd))
           \/ Grows
    BY <1>1, <2>3, RunStep
  <2>5. ~Uproots => Keeps
    <3>1. CASE Grows
      BY <3>1, GrowsKeeps
    <3>2. CASE Shrinks(Asked(cmd))
      BY <3>2 DEF Shrinks, Keeps, IsDir, IsFile
    <3>3. QED
      BY <2>4, <3>1, <3>2
  <2>6. HomeStands'
    <3>1. CASE Grows
      BY <1>1, <1>2, <3>1, GrowsKeeps, HomeKept
    <3>2. CASE Shrinks(Asked(cmd))
      BY <1>1, <1>2, <2>3, <3>2, HomeShrinks
    <3>3. QED
      BY <2>4, <3>1, <3>2
  <2>7. PromisesKept'
    <3>1. CASE Grows
      BY <1>1, <2>2, <3>1 DEF PromisesKept, Grows
    <3>2. CASE Program(Asked(cmd)) = RemoveCommand /\ Shrinks(Asked(cmd))
      BY <1>1, <2>2, <3>2, PromisesShrink
    <3>3. QED
      BY <2>4, <3>1, <3>2
  <2>8. \A p \in DOMAIN promised' : promised'[p] \in Contents
    BY <1>1, <2>2
  <2> HIDE DEF Uproots
  <2>9. /\ call' \in [Calls -> CallType]
        /\ call'[c] = NoCall
        /\ \A d \in Calls \ {c} :
              /\ call'[d].pc = call[d].pc /\ call'[d].path = call[d].path
              /\ call'[d].content = call[d].content /\ call'[d].cmd = call[d].cmd
              /\ call'[d].pc = "copy" /\ ~call'[d].disturbed =>
                    ~call[d].disturbed /\ ~Uproots
    <3>1. ASSUME NEW d \in Calls \ {c}
          PROVE  /\ call'[d] \in CallType
                 /\ call'[d].pc = call[d].pc /\ call'[d].path = call[d].path
                 /\ call'[d].content = call[d].content /\ call'[d].cmd = call[d].cmd
                 /\ call'[d].pc = "copy" /\ ~call'[d].disturbed =>
                       ~call[d].disturbed /\ ~Uproots
      <4>1. call[d] \in CallType
        BY <1>1
      <4>2. call'[d] = [call[d] EXCEPT !.disturbed =
                          call[d].disturbed \/ (call[d].pc = "copy" /\ Uproots)]
        BY <2>2
      <4>3. QED
        BY <4>1, <4>2 DEF CallType
    <3>2. call'[c] = NoCall
      BY <2>2
    <3>3. call' \in [Calls -> CallType]
      BY <2>2, <3>1, <3>2, NoCallType
    <3>4. QED
      BY <3>1, <3>2, <3>3
  <2>10. Callers'
    <3>1. \A d \in Calls \ {c} : Sent(call[d]) => Sent(call'[d])
      BY <2>9 DEF Sent
    <3>2. QED
      BY <1>1, <2>9, <3>1, NoCallType DEF Callers
  <2>11. ParentsMade'
    <3>1. ASSUME NEW d \in Calls, Waiting(call'[d], asRoot')
          PROVE  Ready(Into(call'[d]), disk')
      <4>1. d # c
        BY <2>9, <3>1, NoCallType DEF Waiting
      <4>2. ~Uproots /\ Waiting(call[d], asRoot) /\ Into(call'[d]) = Into(call[d])
        BY <1>2, <2>9, <3>1, <4>1 DEF Waiting, Into
      <4>3. Ready(Into(call[d]), disk)
        BY <1>1, <4>2, ParentsIs
      <4>4. QED
        BY <2>5, <4>2, <4>3, ReadyKept
    <3>2. QED
      BY <3>1, ParentsNext
  <2>12. FileTypeOK'
    BY <1>1, <1>2, <2>4, <2>8, <2>9, TypeNext
  <2>13. QED
    BY <2>6, <2>7, <2>10, <2>11, <2>12 DEF FileInv
<1>5. QED
  BY <1>3, <1>4

-----------------------------------------------------------------------------
(* The theorems.                                                           *)

\* Every step of every call preserves the invariant.
LEMMA NextInv == FileInv /\ [FileNext]_fileVars => FileInv'
<1>1. SUFFICES ASSUME FileInv, [FileNext]_fileVars PROVE FileInv'
  OBVIOUS
<1>2. CASE UNCHANGED fileVars
  BY <1>1, <1>2 DEF fileVars, FileInv, FileTypeOK, Callers, HomeStands, PromisesKept,
     ParentsMade, IsDir, IsFile
<1>3. ASSUME NEW c \in Calls, StartWrite(c) PROVE FileInv'
  BY <1>1, <1>3, StartWriteStep
<1>4. ASSUME NEW c \in Calls, MakeParents(c) PROVE FileInv'
  BY <1>1, <1>4, MakeParentsStep
<1>5. ASSUME NEW c \in Calls, CopyIn(c) PROVE FileInv'
  BY <1>1, <1>5, CopyInStep
<1>6. ASSUME NEW c \in Calls, StartRead(c) PROVE FileInv'
  BY <1>1, <1>6, StartReadStep
<1>7. ASSUME NEW c \in Calls, CopyOut(c) PROVE FileInv'
  BY <1>1, <1>7, CopyOutStep
<1>8. ASSUME NEW c \in Calls, Return(c) PROVE FileInv'
  BY <1>1, <1>8, ReturnStep
<1>9. ASSUME NEW c \in Calls, StartExec(c) PROVE FileInv'
  BY <1>1, <1>9, StartExecStep
<1>10. ASSUME NEW c \in Calls, RunCommand(c) PROVE FileInv'
  BY <1>1, <1>10, RunCommandStep
<1>11. QED
  BY <1>1, <1>2, <1>3, <1>4, <1>5, <1>6, <1>7, <1>8, <1>9, <1>10 DEF FileNext

\* The invariant holds in every state of every behaviour.
LEMMA Invariance == FileSpec => []FileInv
<1>1. FileInit => FileInv
  BY InitInv
<1>2. FileInv /\ [FileNext]_fileVars => FileInv'
  BY NextInv
<1>3. QED
  BY <1>1, <1>2, PTL DEF FileSpec

(***************************************************************************)
(* The disk stays a tree whose inner places are directories, and every     *)
(* value keeps its type, whatever the lines of clients are split into and  *)
(* in whatever order calls run.                                            *)
(***************************************************************************)
THEOREM TreeStands == FileSpec => []FileTypeOK
<1>1. FileInv => FileTypeOK
  BY DEF FileInv
<1>2. QED
  BY <1>1, Invariance, PTL

(***************************************************************************)
(* A successful write_file is found at the place its path names until it   *)
(* is written over or removed (docker.go:323-350, 453-470,                 *)
(* tools.go:205-213).                                                      *)
(***************************************************************************)
THEOREM WritesAreKept == FileSpec => []PromisesKept
<1>1. FileInv => PromisesKept
  BY DEF FileInv
<1>2. QED
  BY <1>1, Invariance, PTL

(***************************************************************************)
(* read_file answers with what the last successful write_file put under    *)
(* its path, whatever commands, copies and other calls run between the two *)
(* (docker.go:323-381, tools.go:205-213).                                  *)
\* Only the copy out of the sandbox lets a call that reads go on.
LEMMA OnlyCopyOutReads ==
  ASSUME FileInv, FileNext, NEW c \in Calls,
         call[c].pc = "read", call'[c].pc = "got"
  PROVE  CopyOut(c)
<1>1. call \in [Calls -> CallType] /\ NoCall.pc = "idle"
  BY NoCallType, TypeIs DEF FileInv
<1>2. ASSUME NEW d \in Calls, End(d) PROVE FALSE
  <2>1. call'[c] = IF d = c THEN NoCall ELSE call[c]
    BY <1>2 DEF End
  <2>2. QED
    BY <1>1, <2>1
<1>3. ASSUME NEW d \in Calls, NEW fields, Begin(d, fields) PROVE FALSE
  <2>1. d # c /\ call'[c] = call[c]
    BY <1>1, <1>3 DEF Begin
  <2>2. QED
    BY <2>1
<1>4. ASSUME NEW d \in Calls, MakeParents(d) PROVE FALSE
  <2>1. call' = [call EXCEPT ![d].pc = "copy"]
    BY <1>2, <1>4 DEF MakeParents
  <2>2. call'[c].pc \in {"copy", "read"}
    BY <1>1, <2>1 DEF CallType
  <2>3. QED
    BY <2>2
<1>5. ASSUME NEW d \in Calls, RunCommand(d) PROVE FALSE
  <2>1. d # c /\ ~End(d)
    BY <1>2, <1>5 DEF RunCommand
  <2>2. call'[c].pc = call[c].pc
    BY <1>1, <1>5, <2>1 DEF RunCommand, CallType
  <2>3. QED
    BY <2>2
<1>6. ASSUME NEW d \in Calls, CopyOut(d) PROVE d = c
  <2>1. SUFFICES ASSUME d # c PROVE FALSE
    OBVIOUS
  <2>2. call'[c] = call[c]
    BY <1>1, <1>2, <1>6, <2>1 DEF CopyOut
  <2>3. QED
    BY <2>2
<1>7. PICK d \in Calls :
         \/ StartWrite(d) \/ MakeParents(d) \/ CopyIn(d)
         \/ StartRead(d) \/ CopyOut(d) \/ Return(d)
         \/ StartExec(d) \/ RunCommand(d)
  BY DEF FileNext
<1>8. ~StartWrite(d) /\ ~StartRead(d) /\ ~StartExec(d)
  BY <1>3 DEF StartWrite, StartRead, StartExec
<1>9. ~CopyIn(d) /\ ~Return(d)
  BY <1>2 DEF CopyIn, Return
<1>10. QED
  BY <1>4, <1>5, <1>6, <1>7, <1>8, <1>9

(***************************************************************************)
THEOREM ReadsWhatWasWritten == FileSpec => ReadsBack
<1> DEFINE Faithful(c) ==
      LET place == Place(<< >>, call[c].path)
      IN  (call[c].pc = "read" /\ call'[c].pc = "got" /\ place \in DOMAIN promised) =>
             call'[c].content = promised[place]
<1>1. ASSUME FileInv, FileNext, NEW c \in Calls PROVE Faithful(c)
  <2> DEFINE place == Place(<< >>, call[c].path)
  <2>1. SUFFICES ASSUME call[c].pc = "read", call'[c].pc = "got", place \in DOMAIN promised
                 PROVE  call'[c].content = promised[place]
    OBVIOUS
  <2>2. CopyOut(c) /\ ~End(c)
    <3>1. call'[c] # NoCall
      BY <2>1, NoCallType
    <3>2. call \in [Calls -> CallType]
      BY <1>1, TypeIs DEF FileInv
    <3>3. QED
      BY <1>1, <2>1, <3>1, <3>2, OnlyCopyOutReads DEF End
  <2>3. place \in DOMAIN disk /\ disk[place] = promised[place] /\ disk[place] # Dir
    BY <1>1, <2>1, TypeIs, Assumed DEF FileInv, PromisesKept
  <2>4. call' = [call EXCEPT ![c].pc = "got", ![c].content = disk[place]]
    BY <2>2, <2>3 DEF CopyOut, IsDir
  <2>5. call'[c].content = disk[place]
    BY <1>1, <2>4, TypeIs DEF FileInv, CallType
  <2>6. QED
    BY <2>3, <2>5
<1>2. FileInv /\ [FileNext]_fileVars => [\A c \in Calls : Faithful(c)]_fileVars
  BY <1>1
<1>3. QED
  BY <1>2, Invariance, PTL DEF FileSpec, ReadsBack

(***************************************************************************)
(* For an absolute path of characters that the shell reads as themselves,  *)
(* where commands may write, the copy of write_file finds its directory    *)
(* unless a file stands in the way or something was removed since          *)
(* (tools.go:188-213).                                                     *)
(***************************************************************************)
THEOREM DirectoriesAreMade == FileSpec => []ParentsMade
<1>1. FileInv => ParentsMade
  BY DEF FileInv
<1>2. QED
  BY <1>1, Invariance, PTL

(***************************************************************************)
(* The words of a command list are the words of the program that runs      *)
(* (sandboxes.go:197-228).                                                 *)
(***************************************************************************)
THEOREM CommandsArriveWhole == FileSpec => []WordsArrive
<1>1. FileInv => WordsArrive
  <2>1. SUFFICES ASSUME FileInv, NEW c \in Calls,
                        call[c].pc = "exec", Len(call[c].cmd) > 1
                 PROVE  ShellWords(BuildCmd(call[c].cmd)) = call[c].cmd
    BY DEF WordsArrive
  <2>2. call[c].cmd \in Seq(Text)
    BY <2>1, Assumed DEF FileInv, Callers, Sent
  <2>3. QED
    BY <2>1, <2>2, QuotingRoundTrip
<1>2. QED
  BY <1>1, Invariance, PTL

=============================================================================
