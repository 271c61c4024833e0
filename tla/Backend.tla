------------------------------ MODULE Backend ------------------------------
(***************************************************************************)
(* The back end process, src/backend/main.c: a prompt, one line from       *)
(* standard input, its words, and the handler of the command they name,    *)
(* until quit or the end of input.  The lexicon command runs               *)
(* lexicon_generate of module Lexicon; the words come from WordSplit.      *)
(***************************************************************************)
EXTENDS Lexicon, WordSplit

CONSTANTS
  QuitName, LexiconsName, LexiconName,    \* the names in command_list
  Lines,          \* what a player may type
  Meant           \* sequences of words a player may want to say

VARIABLES
  pc,             \* "prompt", "dispatch", "generate" or "exit"
  words,          \* the words of the line being handled
  quit_flag,      \* static bool quit_flag
  answers         \* history: lines printed since the prompt

backendVars == <<pc, words, quit_flag, answers>>
vars == <<lexiconVars, backendVars>>

Named == {QuitName, LexiconsName, LexiconName}

ASSUME LinesAssumption ==
  /\ Lines \subseteq Seq(Nat) /\ Meant \subseteq Seq(Seq(Nat))
  /\ Cardinality(Named) = 3

Init ==
  /\ LexiconInit
  /\ pc = "prompt" /\ words = <<>> /\ quit_flag = FALSE /\ answers = 0

At(label) == status = "running" /\ pc = label

(* get_line and wordsplit.                                                 *)
GetLine(line) ==
  /\ At("prompt") /\ ~quit_flag
  /\ pc' = "dispatch" /\ words' = Words(line) /\ answers' = 0
  /\ UNCHANGED <<lexiconVars, quit_flag>>

(* The loop ends, and main gives the lexicons back.                        *)
Exit ==
  /\ At("prompt")                     \* quit_flag, or EOF
  /\ pc' = "exit"
  /\ lexicon_list' = <<>>
  /\ UNCHANGED <<task, status, words, quit_flag, answers>>

Command(name) == At("dispatch") /\ words # <<>> /\ words[1] = name

Skip ==
  /\ At("dispatch") /\ words = <<>>
  /\ pc' = "prompt"
  /\ UNCHANGED <<lexiconVars, words, quit_flag, answers>>

QuitCommand ==
  /\ Command(QuitName)
  /\ quit_flag' = TRUE /\ pc' = "prompt"
  /\ UNCHANGED <<lexiconVars, words, answers>>

LexiconsCommand ==
  /\ Command(LexiconsName)
  /\ answers' = answers + 1 /\ pc' = "prompt"
  /\ UNCHANGED <<lexiconVars, words, quit_flag>>

(* Mutant: the else is missing between the two answers.                    *)
AnswerTwice ==
  /\ At("generate") /\ task.phase = "done"
  /\ task' = Idle
  /\ answers' = IF task.at = 0 THEN answers + 2 ELSE answers + 1
  /\ pc' = "prompt"
  /\ UNCHANGED <<lexicon_list, status, words, quit_flag>>

Unrecognized ==
  /\ At("dispatch") /\ words # <<>>
  /\ words[1] \notin Named
  /\ answers' = answers + 1 /\ pc' = "prompt"
  /\ UNCHANGED <<lexiconVars, words, quit_flag>>

LexiconCommand ==
  /\ Command(LexiconName) /\ Len(words) >= 2
  /\ StartGenerate(words[2])
  /\ pc' = "generate"
  /\ UNCHANGED <<words, quit_flag, answers>>

(* With no second word the handler says so and goes on, with whatever the  *)
(* array holds beyond its length: a name, or a pointer that ends it all.   *)
LexiconOfNothing ==
  /\ Command(LexiconName) /\ Len(words) < 2
  /\ answers' = answers + 1
  /\ \/ /\ \E lang \in Languages : StartGenerate(lang)
        /\ pc' = "generate"
     \/ /\ status' = "wild"
        /\ UNCHANGED <<lexicon_list, task, pc>>
  /\ UNCHANGED <<words, quit_flag>>

(* lexicon_generate has returned a name, or nothing.                       *)
Answer ==
  /\ At("generate") /\ task.phase = "done"
  /\ task' = Idle
  /\ answers' = answers + 1 /\ pc' = "prompt"
  /\ UNCHANGED <<lexicon_list, status, words, quit_flag>>

Ended == (pc = "exit" \/ status # "running") /\ UNCHANGED vars

Handler ==
  \/ Skip \/ QuitCommand \/ LexiconsCommand \/ Unrecognized \/ LexiconCommand
  \/ LexiconOfNothing \/ Answer

Next ==
  \/ \E line \in Lines : GetLine(line)
  \/ Exit \/ Handler \/ Ended
  \/ Generating /\ UNCHANGED backendVars

Spec == Init /\ [][Next]_vars
Fairness == WF_vars(Handler) /\ LexiconFairness

-----------------------------------------------------------------------------
(* Properties.                                                             *)

(* Every command but quit is answered by one line, so that whoever drives  *)
(* the back end stays in step with it; except a lexicon command without a  *)
(* name, which is refused and answered again.                              *)
OneAnswer ==
  pc = "prompt" /\ words # <<LexiconName>> =>
    answers = IF words = <<>> \/ quit_flag THEN 0 ELSE 1

(* Whatever words a player wants to say, with spaces, quotes, backslashes,  *)
(* line ends and digits in them, can be said: spelled bare, quoted or in    *)
(* octal, the line splits into them again.                                  *)
SplitsAsMeant ==
  \A said \in Meant, style \in {"bare", "quoted", "octal"} :
    Words(LineOf(said, style)) = said

(* Every command is done with: the generator reaches the end of its name.  *)
CommandsDone == pc = "dispatch" ~> pc = "prompt" \/ status # "running"
=============================================================================
