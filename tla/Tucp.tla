--------------------------------- MODULE Tucp ---------------------------------
(***************************************************************************)
(* The file copier of Project 0: tucp file file, tucp file directory, tucp *)
(* file ... directory.  A path is a directory and a name in it; a file is  *)
(* the sequence of its blocks.                                             *)
(***************************************************************************)
EXTENDS Naturals, Sequences

CONSTANTS
  Directories,   \* the directories there are besides the current one
  Names,         \* the names files may have
  FileOf,        \* the words that name files, with the path
  PathFrom,      \* the path of a word behind a directory and a slash, if a file can be there
  DirectoryOf,   \* the words that name directories, with the directory
  LengthOf,      \* per word, its length
  SlashesOf,     \* per word, where in it there are slashes
  ShortOf,       \* per word for a directory, the one named without its last character
  CommandLines,  \* what tucp may be invoked with
  Disks,         \* what files there may be
  MaxInvocations \* how often it is invoked (a bound)

Here == "."
Nowhere == "nowhere"
Paths == [dir : Directories \cup {Here}, name : Names]
NoFile == <<"none">>

\* The words of command lines, and what files are made of.
Words == DOMAIN FileOf \cup DOMAIN DirectoryOf
Blocks == {"none"} \cup UNION {{disk[f][k] : k \in DOMAIN disk[f]} : disk \in Disks, f \in Paths}

\* What the proofs take of the constants: a word names a file or a directory,
\* and one with a slash at its end names the directory it does without.
ConstantsOK ==
  /\ Nowhere \notin Directories
  /\ FileOf \in [DOMAIN FileOf -> Paths]
  /\ PathFrom \in [DOMAIN PathFrom -> Paths]
  /\ \A w \in DOMAIN FileOf : <<Here, w>> \in DOMAIN PathFrom /\ PathFrom[<<Here, w>>] = FileOf[w]
  /\ \A at \in DOMAIN PathFrom : at[1] # Nowhere
  /\ DirectoryOf \in [DOMAIN DirectoryOf -> Directories \cup {Here}]
  /\ CommandLines \subseteq Seq(Words)
  /\ Disks \subseteq [Paths -> Seq(Blocks)]
  /\ \A w \in Words : LengthOf[w] \in Nat
  /\ \A w \in DOMAIN DirectoryOf :
       /\ ShortOf[w] \in Directories \cup {Here, Nowhere}
       /\ LengthOf[w] \in SlashesOf[w] => ShortOf[w] = DirectoryOf[w]

VARIABLES
  pc,           \* the next step of tucp
  args,         \* its arguments, without its name
  files,        \* the disk: per path, its blocks or NoFile
  i,            \* the argument it copies
  dest,         \* the directory copied to, as tucp understands it
  source,       \* what is left to read of the source; NoFile if it is not open
  target,       \* the path of the open destination, or NoTarget
  invocations,  \* how often tucp was invoked
  before        \* history: the disk when it was

NoTarget == [dir |-> Nowhere, name |-> "none"]
vars == <<pc, args, files, i, dest, source, target, invocations, before>>

Init ==
  /\ pc = "idle"
  /\ args = <<>>
  /\ files = [f \in Paths |-> NoFile]
  /\ i = 1
  /\ dest = Here
  /\ source = NoFile
  /\ target = NoTarget
  /\ invocations = 0
  /\ before = files

Ended == {"idle", "done", "failed", "crashed", "killed"}

\* Somebody invokes tucp, on the disk it left the last time or on another.
Invoke ==
  /\ pc \in Ended /\ invocations < MaxInvocations
  /\ args' \in CommandLines
  /\ \/ pc = "idle" /\ files' \in Disks
     \/ pc # "idle" /\ UNCHANGED files
  /\ before' = files'
  /\ invocations' = invocations + 1
  /\ pc' = "start"
  /\ i' = 1
  /\ dest' = Here
  /\ source' = NoFile
  /\ target' = NoTarget

-----------------------------------------------------------------------------
last == args[Len(args)]
IsDir(word) == word \in DOMAIN DirectoryOf

\* A word in which the last character is taken off.  The copy has no end of
\* string, so what comes out is the rest, or the rest and something behind it.
Shortened(word) == {ShortOf[word], Nowhere}

\* The directory meant by word: shortened if there is a slash at place; behind
\* the end of the word and its null there may be anything.
Destinations(word, place) ==
  (IF place \in SlashesOf[word] \/ place > LengthOf[word] + 1 THEN Shortened(word) ELSE {})
    \cup (IF place \in SlashesOf[word] THEN {} ELSE {DirectoryOf[word]})

\* With more than one source the place is the length of the second argument.
DestinationsNow ==
  IF Len(args) = 2 THEN Destinations(last, LengthOf[last]) ELSE Destinations(last, LengthOf[args[2]])

Fails ==
  /\ pc = "start"
  /\ \/ Len(args) < 2
     \/ Len(args) = 2 /\ IsDir(args[1])
     \/ Len(args) > 2 /\ ~IsDir(last)
  /\ pc' = "failed"
  /\ UNCHANGED <<args, files, i, dest, source, target, invocations, before>>

\* One file to one file, then one or more to a directory.
ToFile ==
  /\ pc = "start"
  /\ Len(args) = 2 /\ ~IsDir(args[1]) /\ ~IsDir(last)
  /\ target' = FileOf[last]
  /\ pc' = "openSource"
  /\ UNCHANGED <<args, files, i, dest, source, invocations, before>>

\* The whole word goes behind the directory, with those in it.
PathIn(dir, word) ==
  IF <<dir, word>> \in DOMAIN PathFrom THEN PathFrom[<<dir, word>>] ELSE NoTarget

ToDirectory ==
  /\ pc \in {"start", "next"}
  /\ Len(args) >= 2 /\ IsDir(last) /\ (Len(args) = 2 => ~IsDir(args[1]))
  /\ i < Len(args)
  /\ dest' \in DestinationsNow
  /\ target' = PathIn(dest', args[i])
  /\ pc' = "openSource"
  /\ UNCHANGED <<args, files, i, source, invocations, before>>

\* copyFile opens both files before it looks whether they are open.  A
\* directory can be opened for reading, and is empty.
OpenSource ==
  /\ pc = "openSource"
  /\ source' = IF IsDir(args[i]) THEN <<>> ELSE files[FileOf[args[i]]]
  /\ pc' = "openTarget"
  /\ UNCHANGED <<args, files, i, dest, target, invocations, before>>

\* "w+" empties the file, which may be the source itself.
OpenTarget ==
  /\ pc = "openTarget"
  /\ files' = IF target = NoTarget THEN files ELSE [files EXCEPT ![target] = <<>>]
  /\ source' = IF ~IsDir(args[i]) /\ FileOf[args[i]] = target /\ source # NoFile THEN <<>> ELSE source
  /\ pc' = IF source = NoFile THEN "close" ELSE "copy"
  /\ UNCHANGED <<args, i, dest, target, invocations, before>>

\* Mutant of CopyBlock: stops at what looks like the end of the file.
CopyBlockToEof ==
  /\ pc = "copy"
  /\ source # <<>> /\ target # NoTarget
  /\ files' = IF Head(source) = "EOF" THEN files ELSE [files EXCEPT ![target] = Append(@, Head(source))]
  /\ source' = IF Head(source) = "EOF" THEN <<>> ELSE Tail(source)
  /\ UNCHANGED <<pc, args, i, dest, target, invocations, before>>

CopyBlock ==
  /\ pc = "copy"
  /\ source # <<>> /\ target # NoTarget
  /\ files' = [files EXCEPT ![target] = Append(@, Head(source))]
  /\ source' = Tail(source)
  /\ UNCHANGED <<pc, args, i, dest, target, invocations, before>>

\* fputc, or fclose of an empty copy, on a null FILE.
CopyToNothing ==
  /\ pc = "copy"
  /\ target = NoTarget
  /\ pc' = "crashed"
  /\ UNCHANGED <<args, files, i, dest, source, target, invocations, before>>

EndOfSource ==
  /\ pc = "copy"
  /\ source = <<>> /\ target # NoTarget
  /\ pc' = "close"
  /\ UNCHANGED <<args, files, i, dest, source, target, invocations, before>>

\* The next source, if there is one.
Close ==
  /\ pc = "close"
  /\ i' = i + 1
  /\ pc' = IF i + 1 < Len(args) THEN "next" ELSE "done"
  /\ source' = NoFile
  /\ target' = NoTarget
  /\ UNCHANGED <<args, files, dest, invocations, before>>

\* The user interrupts tucp.
Killed ==
  /\ pc \notin Ended
  /\ pc' = "killed"
  /\ UNCHANGED <<args, files, i, dest, source, target, invocations, before>>

Next ==
  \/ Invoke \/ Fails \/ ToFile \/ ToDirectory \/ OpenSource \/ OpenTarget
  \/ CopyBlock \/ CopyToNothing \/ EndOfSource \/ Close \/ Killed

-----------------------------------------------------------------------------
\* Where the j-th argument is to be copied to.
Meant(j) == IF IsDir(last) THEN PathIn(DirectoryOf[last], args[j]) ELSE FileOf[last]

Sources == 1 .. Len(args) - 1
Targets == {Meant(j) : j \in Sources}

\* The place that main looks at for a slash at the end is one inside the word
\* (line 150 takes the length of another argument), or outside.
Misled ==
  /\ IsDir(last) /\ Len(args) > 2
  /\ LengthOf[args[2]] \in SlashesOf[last] \ {LengthOf[last]} \/ LengthOf[args[2]] > LengthOf[last] + 1

Astray == IF Misled THEN {PathIn(ShortOf[last], args[j]) : j \in Sources} ELSE {}

\* What there is to read of the j-th argument: nothing of a directory, nor of a
\* file that is its own destination, which opening has emptied (line 48).
Had(j) ==
  IF IsDir(args[j]) \/ FileOf[args[j]] = Meant(j) THEN <<>> ELSE before[FileOf[args[j]]]

\* The j-th argument was there, and no earlier copy has overwritten it.
Kept(j) ==
  IsDir(args[j]) \/ (before[FileOf[args[j]]] # NoFile /\ \A k \in 1 .. j - 1 : Meant(k) # FileOf[args[j]])

\* tucp touches no file but its destinations, also when it crashes or is
\* interrupted (or, where it looks for a slash at the wrong place, files of
\* those names in the directory above); and when it ends well, not having looked
\* at the wrong place, each destination has what its source had (of several
\* sources with a name, the last; of one copied to itself, nothing).
CopiesAreComplete ==
  pc # "idle" =>
    /\ \A f \in Paths : files[f] # before[f] => Len(args) >= 2 /\ f \in Targets \cup Astray
    /\ pc = "done" /\ ~Misled =>
         \A j \in Sources :
           Kept(j) /\ (\A k \in Sources : k > j => Meant(k) # Meant(j)) =>
             Meant(j) # NoTarget /\ files[Meant(j)] = Had(j)
==============================================================================
