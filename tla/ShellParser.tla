----------------------------- MODULE ShellParser -----------------------------
(***************************************************************************)
(* How myshell.c takes a command line apart (parse and process, lines 178  *)
(* to 328): which words are the command, which files the redirections name *)
(* and whether the line is a pipe or for the background.  A line is the    *)
(* sequence of its tokens, as strtok finds them.                           *)
(***************************************************************************)
EXTENDS Naturals, Sequences, SequencesExt

Redirections == {"<", ">", ">>"}
Operators == {"&", "|"} \cup Redirections

NoName == ""

\* process's local variables.  expect says what the loop does with the next
\* token: treat it as one of the command, take it as a file name, put it in
\* command2 whatever it is, or nothing, as the loop has ended.
Start ==
  [expect |-> "token", error |-> FALSE, isBg |-> FALSE, isPipe |-> FALSE, isAppend |-> FALSE,
   hasInput |-> FALSE, hasOutput |-> FALSE, inputName |-> NoName, outputName |-> NoName,
   command1 |-> <<>>, command2 |-> <<>>]

Refuse(st) == [st EXCEPT !.expect = "nothing", !.error = TRUE]

Redirect(st, token) ==
  IF token = "<"
  THEN IF st.hasInput THEN Refuse(st)
       ELSE [st EXCEPT !.hasInput = TRUE, !.expect = "inputName"]
  ELSE IF st.hasOutput THEN Refuse(st)
       ELSE [st EXCEPT !.hasOutput = TRUE,
                       !.expect = IF token = ">>" THEN "appendName" ELSE "outputName"]

\* Mutant of Argument: lets words follow a redirection.
ArgumentAnywhere(st, token) == [st EXCEPT !.command1 = Append(@, token)]

Argument(st, token) ==
  IF st.hasInput \/ st.hasOutput THEN Refuse(st)
  ELSE [st EXCEPT !.command1 = Append(@, token)]

\* One turn of process's loop.
Turn(st, token) ==
  CASE st.expect = "nothing" -> st
    [] st.expect = "command2" -> [st EXCEPT !.command2 = Append(@, token)]
    [] st.expect = "inputName" -> [st EXCEPT !.inputName = token, !.expect = "token"]
    [] st.expect = "outputName" -> [st EXCEPT !.outputName = token, !.expect = "token"]
    [] st.expect = "appendName" ->
         [st EXCEPT !.outputName = token, !.isAppend = TRUE, !.expect = "token"]
    [] st.expect = "token" ->
         IF token = "&" THEN [st EXCEPT !.isBg = TRUE, !.expect = "nothing"]
         ELSE IF token = "|" THEN [st EXCEPT !.isPipe = TRUE, !.expect = "command2"]
         ELSE IF token \in Redirections THEN Redirect(st, token)
         ELSE Argument(st, token)

\* The error returns: a redirection without a file name, no first command.  (A
\* pipe without a second command is only found when the first one is known.)
Process(line) ==
  LET st == FoldLeft(Turn, Start, line)
  IN  IF \/ st.expect \in {"inputName", "outputName", "appendName"}
         \/ st.command1 = <<>>
      THEN Refuse(st) ELSE st

-----------------------------------------------------------------------------
(***************************************************************************)
(* What a line means: a command, then redirections, at most one of each    *)
(* direction, then nothing, an ampersand with anything behind it, or a     *)
(* pipe sign with the second command behind it.                            *)
(***************************************************************************)
Prefix(line, n) == SubSeq(line, 1, n)
Behind(line, n) == SubSeq(line, n + 1, Len(line))

IsCommand(words) == words # <<>> /\ \A i \in DOMAIN words : words[i] \notin Operators

\* A sequence of redirections: operator, name, operator, name.
IsRedirections(part) ==
  /\ Len(part) \in {0, 2, 4}
  /\ \A i \in DOMAIN part : i % 2 = 1 => part[i] \in Redirections
  /\ Len(part) = 4 => (part[1] = "<") # (part[3] = "<")

Name(part, ops) ==
  IF \E i \in DOMAIN part : i % 2 = 1 /\ part[i] \in ops
  THEN part[1 + CHOOSE i \in DOMAIN part : i % 2 = 1 /\ part[i] \in ops] ELSE NoName

IsTail(part) == part = <<>> \/ part[1] \in {"&", "|"}

\* Words up to m, redirections up to n.
Splits(line) ==
  {s \in (0 .. Len(line)) \X (0 .. Len(line)) :
     /\ s[1] <= s[2]
     /\ IsCommand(Prefix(line, s[1]))
     /\ IsRedirections(SubSeq(line, s[1] + 1, s[2]))
     /\ IsTail(Behind(line, s[2]))}

\* The shell accepts the lines that have this form, understands each of them in
\* the only way there is, and refuses every other line (lines 209-328).
ParsesAsWritten(line) ==
  IF Splits(line) = {} THEN Process(line).error
  ELSE \A s \in Splits(line) :
         LET st == Process(line)
             files == SubSeq(line, s[1] + 1, s[2])
             tail == Behind(line, s[2])
         IN  /\ ~st.error
             /\ st.command1 = Prefix(line, s[1])
             /\ st.inputName = Name(files, {"<"})
             /\ st.outputName = Name(files, {">", ">>"})
             /\ st.isAppend <=> Name(files, {">>"}) # NoName
             /\ st.isBg <=> (tail # <<>> /\ tail[1] = "&")
             /\ st.isPipe <=> (tail # <<>> /\ tail[1] = "|")
             /\ st.command2 = IF st.isPipe THEN Tail(tail) ELSE <<>>
=============================================================================
