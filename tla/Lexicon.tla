------------------------------ MODULE Lexicon ------------------------------
(***************************************************************************)
(* The name generator of the back end, src/backend/lexicon.c.  A lexicon   *)
(* is learned from a file of words on first use: histogram2 counts pairs   *)
(* of neighbouring letters and histogram3 triples, with 0 for both ends of *)
(* a word.  A name is then drawn letter by letter, each with the frequency *)
(* it has after the two before it.                                         *)
(*                                                                         *)
(* The code indexes histogram3 by a sum it trusts histogram2 to hold; when *)
(* the two disagree, the scan leaves the array, and a sum of zero is a     *)
(* division by zero.  Both end the model in status "wild".                 *)
(***************************************************************************)
EXTENDS Integers, Sequences, FiniteSets, SequencesExt

CONSTANTS
  Languages,      \* names a player may ask for
  Listed,         \* the names in the file of lexicons, in its order
  Corpus,         \* per name with a readable file, its words, in order
  Letters,        \* the 26 of the alphabet
  Unloaded        \* the null lexicon pointer

Codes == 0 .. Letters
Rows == [Codes -> Nat]
Lexicons == [histogram2 : [Codes -> Rows], histogram3 : [Codes -> [Codes -> Rows]]]

(* Words are sequences of character codes; the lexicon files hold nothing  *)
(* but lower case letters.                                                 *)
ASSUME CorpusAssumption ==
  /\ Unloaded \notin Lexicons
  /\ Letters \in 1 .. 26
  /\ Listed \in Seq(Languages)
  /\ Corpus \in [DOMAIN Corpus -> Seq(Seq(97 .. 96 + Letters))]

VARIABLES
  lexicon_list,   \* static LexiconList *lexicon_list, head first
  task,           \* lexicon_generate in progress: see Idle
  status          \* "running", "aborted" or "wild"

lexiconVars == <<lexicon_list, task, status>>

(* No call in progress.  phase: "learn" in learn, "first" and "next" before *)
(* a letter is drawn, "done" when the word is complete; at: the list entry; *)
(* words: how many learn has read; c0, c1: the letters before the next one; *)
(* length: of the name, up to 2 and more.                                   *)
Idle == [phase |-> "idle", at |-> 0, words |-> 0, c0 |-> 0, c1 |-> 0,
         length |-> 0]

(* lexicon_init: every name read is put at the head of the list.           *)
ListInit == [n \in 1 .. Len(Listed) |->
               [name |-> Reverse(Listed)[n], lexicon |-> Unloaded]]

LexiconInit == lexicon_list = ListInit /\ task = Idle /\ status = "running"

Entry == lexicon_list[task.at]
In(phase) == status = "running" /\ task.phase = phase

-----------------------------------------------------------------------------
(* learn.                                                                  *)

Empty == [histogram2 |-> [a \in Codes |-> [b \in Codes |-> 0]],
          histogram3 |-> [a \in Codes |-> [b \in Codes |-> [c \in Codes |-> 0]]]]

(* The letter of a character, and a word between its ends.                 *)
Code(char) == (char % 32) % 27
Framed(word) == <<0>> \o [k \in DOMAIN word |-> Code(word[k])] \o <<0>>

(* The lexicon with what the places P2 and P3 of a framed word f hold.     *)
Counted(lex, f, P2, P3) ==
  [histogram2 |-> [a \in Codes |-> [b \in Codes |-> lex.histogram2[a][b] +
     Cardinality({k \in P2 : f[k] = a /\ f[k + 1] = b})]],
   histogram3 |-> [a \in Codes |-> [b \in Codes |-> [c \in Codes |->
     lex.histogram3[a][b][c] +
     Cardinality({k \in P3 : f[k] = a /\ f[k + 1] = b /\ f[k + 2] = c})]]]]

(* Mutants: the loop over a word misses its last triple; the pair that     *)
(* starts a word is not counted.                                           *)
WithWordShort(lex, word) ==
  LET f == Framed(word) IN Counted(lex, f, 1 .. Len(f) - 1, 1 .. Len(f) - 3)

WithWordUnstarted(lex, word) ==
  LET f == Framed(word) IN Counted(lex, f, 2 .. Len(f) - 1, 1 .. Len(f) - 2)

(* The histograms after one more word of at least two letters.             *)
WithWord(lex, word) ==
  LET f == Framed(word) IN Counted(lex, f, 1 .. Len(f) - 1, 1 .. Len(f) - 2)

(* Mutant: one letter words are not skipped.                               *)
TooShortIfEmpty(word) == Len(word) < 1

TooShort(word) == Len(word) < 2

(* Mutant: a word that is skipped is looked at again.                      *)
LearnWordStuck ==
  /\ In("learn")
  /\ task.words < Len(Corpus[Entry.name])
  /\ LET word == Corpus[Entry.name][task.words + 1]
     IN /\ ~TooShort(word)
        /\ lexicon_list' = [lexicon_list EXCEPT ![task.at].lexicon =
                              WithWord(@, word)]
  /\ task' = [task EXCEPT !.words = @ + 1]
  /\ UNCHANGED status

(* One word of the file is read.                                           *)
LearnWord ==
  /\ In("learn")
  /\ task.words < Len(Corpus[Entry.name])
  /\ LET word == Corpus[Entry.name][task.words + 1]
     IN lexicon_list' = [lexicon_list EXCEPT ![task.at].lexicon =
                           IF TooShort(word) THEN @ ELSE WithWord(@, word)]
  /\ task' = [task EXCEPT !.words = @ + 1]
  /\ UNCHANGED status

LearnDone ==
  /\ In("learn")
  /\ task.words = Len(Corpus[Entry.name])
  /\ task' = [task EXCEPT !.phase = "first", !.words = 0]
  /\ UNCHANGED <<lexicon_list, status>>

-----------------------------------------------------------------------------
(* lexicon_generate.                                                       *)

Found(lang) == {n \in DOMAIN lexicon_list : lexicon_list[n].name = lang}

(* The linear search, and the first use of a lexicon, whose file must open. *)
StartGenerate(lang) ==
  /\ In("idle")
  /\ \/ /\ Found(lang) = {}
        /\ task' = [Idle EXCEPT !.phase = "done"]
        /\ UNCHANGED <<lexicon_list, status>>
     \/ \E n \in {m \in Found(lang) : \A k \in Found(lang) : m <= k} :
          \/ /\ lexicon_list[n].lexicon # Unloaded
             /\ task' = [Idle EXCEPT !.phase = "first", !.at = n]
             /\ UNCHANGED <<lexicon_list, status>>
          \/ /\ lexicon_list[n].lexicon = Unloaded /\ lang \in DOMAIN Corpus
             /\ task' = [Idle EXCEPT !.phase = "learn", !.at = n]
             /\ lexicon_list' = [lexicon_list EXCEPT ![n].lexicon = Empty]
             /\ UNCHANGED status
          \/ /\ lexicon_list[n].lexicon = Unloaded /\ lang \notin DOMAIN Corpus
             /\ status' = "aborted"
             /\ UNCHANGED <<lexicon_list, task>>

(* What a loop over a row has added up before each code.                   *)
Before(row) ==
  LET sum[n \in 0 .. Letters + 1] ==
        IF n = 0 THEN 0 ELSE sum[n - 1] + row[n - 1]
  IN sum

(* Mutant: the scan goes on while sel > row[c].                            *)
ScanShort(row, from, sel) ==
  LET sum == Before(row)
  IN {c \in from .. Letters : /\ sum[from] + sel <= sum[c + 1]
                              /\ \A b \in from .. c - 1 : sum[from] + sel > sum[b + 1]}

(* Where for (c = from; sel >= row[c]; ++c) sel -= row[c] stops; nowhere   *)
(* when it runs out of the row.                                            *)
Scan(row, from, sel) ==
  LET sum == Before(row)
  IN {c \in from .. Letters : /\ sum[c] <= sum[from] + sel
                              /\ sum[from] + sel < sum[c + 1]}

Pairs(a) == Entry.lexicon.histogram2[a]
Triples(a, b) == Entry.lexicon.histogram3[a][b]

Starting == Before(Pairs(0))[Letters + 1] - Before(Pairs(0))[1]
Following == Entry.lexicon.histogram2[task.c0][task.c1]

FirstLetter(letter) ==
  /\ In("first")
  /\ \E sel \in 0 .. Starting - 1 : letter \in Scan(Pairs(0), 1, sel)
  /\ task' = [task EXCEPT !.phase = "next", !.c1 = letter, !.length = 1]
  /\ UNCHANGED <<lexicon_list, status>>

NextLetter(letter) ==
  /\ In("next")
  /\ \E sel \in 0 .. Following - 1 :
       letter \in Scan(Triples(task.c0, task.c1), 0, sel)
  /\ task' = [task EXCEPT !.phase = IF letter = 0 THEN "done" ELSE "next",
                          !.c0 = task.c1, !.c1 = letter,
                          !.length = IF letter = 0 THEN @ ELSE 2]
  /\ UNCHANGED <<lexicon_list, status>>

(* random () % 0, or a scan past the end of the row.                       *)
Stray ==
  /\ \/ In("first") /\ ( \/ Starting = 0
                         \/ \E sel \in 0 .. Starting - 1 :
                              Scan(Pairs(0), 1, sel) = {} )
     \/ In("next") /\ ( \/ Following = 0
                        \/ \E sel \in 0 .. Following - 1 :
                             Scan(Triples(task.c0, task.c1), 0, sel) = {} )
  /\ status' = "wild"
  /\ UNCHANGED <<lexicon_list, task>>

Generating ==
  \/ LearnWord \/ LearnDone \/ Stray
  \/ \E letter \in Codes : FirstLetter(letter) \/ NextLetter(letter)

(* The generator runs on, and random favours no letter for ever.           *)
LexiconFairness ==
  /\ WF_<<lexiconVars>>(Generating)
  /\ \A letter \in Codes : SF_<<lexiconVars>>(NextLetter(letter))

-----------------------------------------------------------------------------
(* Properties.                                                             *)

(* After every word, the number of times a pair of letters was seen is the *)
(* number of letters seen after it: what lets the generator draw a number  *)
(* below histogram2 and scan histogram3 for it.                            *)
CountsAgree ==
  \A n \in DOMAIN lexicon_list : lexicon_list[n].lexicon # Unloaded =>
    \A a \in Codes, b \in Codes \ {0} :
      lexicon_list[n].lexicon.histogram2[a][b]
        = Before(lexicon_list[n].lexicon.histogram3[a][b])[Letters + 1]

(* The triples of letters the words of a language contain, ends included,  *)
(* and the reference for what the generator may produce.                   *)
Spoken(lang) ==
  {s \in Codes \X Codes \X Codes :
     \E j \in DOMAIN Corpus[lang] :
       LET f == Framed(Corpus[lang][j])
       IN /\ Len(Corpus[lang][j]) >= 2
          /\ \E k \in 1 .. Len(f) - 2 : s = <<f[k], f[k + 1], f[k + 2]>>}

(* Every name sounds like its language: whatever was learned before, each  *)
(* letter and the end follow two letters they follow in a word of the file. *)
NamesInLanguage ==
  [][task.phase = "next" /\ task' # task
       => <<task.c0, task.c1, task'.c1>> \in Spoken(Entry.name)]_task

(* No name of a known language is shorter than two letters, for the words   *)
(* learned have at least two.                                               *)
NamesLongEnough == task.phase = "done" /\ task.at # 0 => task.length >= 2

(* The generator divides by zero only for a file with no word to learn, and *)
(* never scans past the end of a histogram.                                 *)
StraysOnlyUntaught ==
  status = "wild" /\ task.phase # "idle" => Spoken(Entry.name) = {}
=============================================================================
