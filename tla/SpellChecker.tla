---------------------------- MODULE SpellChecker ----------------------------
(***************************************************************************)
(* The network spell checker (spellchecker.c).  Its queues, its main loop, *)
(* its hand-over of jobs and its log thread make the calls of the echo     *)
(* server in the same order, so their actions are those of EchoServer.     *)
(* Its own are the dictionary, the exchange with a client, and a goodbye   *)
(* ("-1") that is neither logged nor signalled.                            *)
(*                                                                         *)
(* A line is a sequence of characters, its end ("cr", "lf") included.      *)
(***************************************************************************)
EXTENDS EchoServer

CONSTANTS
  Dictionaries,       \* the files argv[2] may name, each as its lines
  DICTIONARY_LENGTH,  \* the entries of the array they are read into (99171)
  Typed               \* the lines a client may send, other than "-1" (a bound)

ASSUME DictionariesAssumption ==
  \A file \in Dictionaries : \A i \in DOMAIN file : Len(file[i]) >= 2
ASSUME LengthAssumption == DICTIONARY_LENGTH \in Nat \ {0}
ASSUME TypedAssumption == \A line \in Typed : Len(line) >= 2

VARIABLE dictionary   \* the file read at the start, main's local variable

spell_vars == <<vars, dictionary>>

\* Both the dictionary and what a client sends lose their last two bytes,
\* whatever they are: a carriage return and a line feed, or a letter and one.
Chopped(line) == SubSeq(line, 1, Len(line) - 2)

\* The dictionary losing the line feed only.
open_dictionary_keeps(file) == [i \in DOMAIN file |-> SubSeq(file[i], 1, Len(file[i]) - 1)]

open_dictionary(file) == [i \in DOMAIN file |-> Chopped(file[i])]

\* The look-up goes over DICTIONARY_LENGTH entries, however many lines were
\* read: later words are not looked at, and behind a shorter dictionary come
\* pointers nobody set, at which strcmp faults.
Found(line) ==
  \E i \in DOMAIN dictionary \cap (1 .. DICTIONARY_LENGTH) :
    open_dictionary(dictionary)[i] = Chopped(line)

LookUpFaults(line) == ~Found(line) /\ Len(dictionary) < DICTIONARY_LENGTH

Result(line) == IF Found(line) THEN "CORRECT" ELSE "INCORRECT"

EntryTexts == [line : Typed \cup {<<>>}, result : {"CORRECT", "INCORRECT"}]

ASSUME TextsAssumption == Texts = EntryTexts

-----------------------------------------------------------------------------
\* The dictionary is read, the queues, mutexes and conditions are made, then the
\* threads.
SpellInit == Init /\ dictionary \in Dictionaries

\* A dictionary with too many lines is written past the end of its array before
\* anything else happens; when that hits nothing, the server runs on.
DictionaryOverflows ==
  /\ Running
  /\ accepted = 0
  /\ Len(dictionary) > DICTIONARY_LENGTH
  /\ Halt("overwritten")

\* accept, the wait for room in the job queue, push, unlock and signal.
ServeConnections == MainThread

\* Lock, wait for a job, pop, unlock, signal, and job->client_socket.
TakeJob(w) ==
  \/ WorkerLocksJobs(w) \/ WorkerReacquiresJobs(w) \/ PopJob(w) \/ PopJobAborts(w)
  \/ SignalCond2(w) \/ ReadSocket(w) \/ ReadSocketFaults(w)

\* What recv gives a worker: a client that has gone reads as an empty line; the
\* two bytes cleared in front of the buffer then belong to the unused parameter
\* of the thread, which is NULL.
Receives(w, line) ==
  LET c == client_socket[w] IN
  /\ At(w, "serve")
  /\ \/ conn[c] = "open" /\ line \in Typed
     \/ conn[c] = "hungup" /\ line = <<>>
  /\ sent[c] < Lines[c]

\* Prompt, recv, look-up and reply, up to the log lock.
CheckWord(w, line) ==
  LET c == client_socket[w] IN
  /\ Receives(w, line)
  /\ ~LookUpFaults(line)
  /\ sent' = [sent EXCEPT ![c] = @ + 1]
  /\ word' = [word EXCEPT ![w] =
                [client |-> c, no |-> sent'[c],
                 text |-> [line |-> line, result |-> Result(line)]]]
  /\ Goto(w, "lockLog")
  /\ UNCHANGED <<locks, queues, job, client_socket, accepted, conn, log_file, halted>>

CheckWordFaults(w, line) == Receives(w, line) /\ LookUpFaults(line) /\ Halt("segv")

\* The client sends "-1": the worker closes the connection and goes back for
\* the next job; nothing is logged.
CloseClient(w) ==
  /\ At(w, "serve")
  /\ conn[client_socket[w]] = "open"
  /\ conn' = [conn EXCEPT ![client_socket[w]] = "closed"]
  /\ Goto(w, "lockJobs")
  /\ UNCHANGED <<locks, queues, locals, accepted, sent, log_file, halted>>

\* Lock, wait for room in the log queue, push and unlock.
LogWord(w) ==
  WorkerLocksLog(w) \/ WorkerReacquiresLog(w) \/ PushLog(w) \/ PushLogDies(w)

\* The worker going on with its client without waking the log thread.
NextWord(w) ==
  /\ At(w, "signalCond3")
  /\ Goto(w, "serve")
  /\ UNCHANGED <<locks, queues, locals, peers, log_file, halted>>

\* The signal, and round the loop for the client's next word.
WordLogged(w) ==
  /\ At(w, "signalCond3")
  /\ Signal(w, "waitCond3", "serve")
  /\ UNCHANGED <<locks, queues, locals, peers, log_file, halted>>

\* Lock, wait for an entry, pop, unlock, signal, and the write to the file.
WriteResults == LogThread

worker_thread(w) ==
  \/ TakeJob(w)
  \/ \E line \in Typed \cup {<<>>} : CheckWord(w, line) \/ CheckWordFaults(w, line)
  \/ CloseClient(w) \/ LogWord(w) \/ WordLogged(w)

SpellStep ==
  \/ DictionaryOverflows
  \/ ServeConnections
  \/ \E w \in Workers : worker_thread(w)
  \/ WriteResults
  \/ \E t \in SpuriousWakeups : SpuriousWakeup(t)
  \/ MainBrokenPipe \/ \E w \in Workers : WorkerBrokenPipe(w)
  \/ \E c \in Hangups : Hangup(c)

SpellNext == SpellStep /\ UNCHANGED dictionary

SpellSpec == SpellInit /\ [][SpellNext]_spell_vars

\* As for the echo server: every thread that can run keeps running, and a
\* client sends a word or "-1" sooner or later.
FairSpellSpec ==
  /\ SpellSpec
  /\ WF_vars(ServeConnections)
  /\ \A w \in Workers : WF_vars(worker_thread(w))
  /\ WF_vars(WriteResults)

-----------------------------------------------------------------------------
\* The words the look-up goes over, as lines of the file.
WordsLookedAt == {dictionary[i] : i \in DOMAIN dictionary \cap (1 .. DICTIONARY_LENGTH)}

\* The log keeps every client's words in the order it sent them, and none is
\* lost, although the worker lets go of the client at "-1" while its words may
\* still be in the queue (lines 303-306 and 338-342).  A word among the first
\* DICTIONARY_LENGTH lines of the file, sent with the line end it has there, is
\* CORRECT although both lose two bytes (lines 138 and 309).  The converse
\* fails: with a line feed alone the two bytes take a letter along, and a word
\* with another last letter passes.
ResultsInOrder ==
  ~recycled =>
    \A c \in Clients :
      /\ InOrder(c)
      /\ \A i \in PlacesOf(c) :
           Entries[i].text.line \in WordsLookedAt => Entries[i].text.result = "CORRECT"

\* Every word a client sent reaches the log file, although neither "-1" nor the
\* next job signals the log thread again (lines 303-306): the signal of the
\* word itself must not be lost, even while the log thread is writing or wakes
\* up unsignalled.
EveryWordLogged ==
  \A c \in Clients : \A n \in 1 .. Lines[c] :
    sent[c] >= n ~> \/ \E i \in DOMAIN log_file : log_file[i].client = c /\ log_file[i].no = n
                    \/ ~Running \/ recycled
=============================================================================
