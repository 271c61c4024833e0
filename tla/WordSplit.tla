----------------------------- MODULE WordSplit -----------------------------
(***************************************************************************)
(* wordsplit of src/stringutils/wordsplit.c: a line becomes the words      *)
(* between its spaces, where "..." keeps spaces and C escapes.             *)
(*                                                                         *)
(* Characters are their codes.  A number above 255 stands for a run of     *)
(* characters that mean nothing to wordsplit, such as the name of a        *)
(* command.                                                                *)
(***************************************************************************)
EXTENDS Integers, Sequences, SequencesExt

Quote     == 34
Backslash == 92
Spaces    == {32} \cup 9 .. 13
Digits    == 48 .. 57

(* The characters \a \b \f \n \r \t \v stand for; others for themselves.   *)
Meaning(c) ==
  CASE c = 97 -> 7 [] c = 98 -> 8 [] c = 102 -> 12 [] c = 110 -> 10
    [] c = 114 -> 13 [] c = 116 -> 9 [] c = 118 -> 11 [] OTHER -> c

(* The state of the scan.  mode: "between" words, in a "word" outside of   *)
(* quotes, in a "quote", after a backslash ("escape"), in an "octal" of so *)
(* many digits.                                                            *)
Scanning == [mode |-> "between", octal |-> 0, digits |-> 0,
             word |-> <<>>, words |-> <<>>]

Add(s, c) == [s EXCEPT !.word = Append(@, c)]

EndWord(s) ==
  [s EXCEPT !.mode = "between", !.word = <<>>, !.words = Append(@, s.word)]

OutsideQuotes(s, c) ==
  CASE c \in Spaces -> IF s.mode = "word" THEN EndWord(s) ELSE s
    [] c = Quote -> [s EXCEPT !.mode = "quote"]
    [] OTHER -> [Add(s, c) EXCEPT !.mode = "word"]

InQuotes(s, c) ==
  CASE c = Quote -> [s EXCEPT !.mode = "word"]
    [] c = Backslash -> [s EXCEPT !.mode = "escape"]
    [] OTHER -> Add(s, c)

AfterBackslash(s, c) ==
  IF c \in Digits
  THEN [s EXCEPT !.mode = "octal", !.octal = c - 48, !.digits = 1]
  ELSE [Add(s, Meaning(c)) EXCEPT !.mode = "quote"]

(* The octal is complete: its low byte is added as a C string, so a zero   *)
(* byte adds nothing.                                                      *)
EndOctal(s) ==
  [IF s.octal % 256 = 0 THEN s ELSE Add(s, s.octal % 256)
     EXCEPT !.mode = "quote"]

(* Mutant: an octal goes on as long as there are digits.                   *)
InOctalUnlimited(s, c) ==
  IF c \in Digits
  THEN [s EXCEPT !.octal = @ * 8 + c - 48, !.digits = @ + 1]
  ELSE InQuotes(EndOctal(s), c)

(* At most three digits, 8 and 9 among them.                               *)
InOctal(s, c) ==
  IF c \in Digits /\ s.digits < 3
  THEN [s EXCEPT !.octal = @ * 8 + c - 48, !.digits = @ + 1]
  ELSE InQuotes(EndOctal(s), c)

Scan1(s, c) ==
  CASE s.mode \in {"between", "word"} -> OutsideQuotes(s, c)
    [] s.mode = "quote" -> InQuotes(s, c)
    [] s.mode = "escape" -> AfterBackslash(s, c)
    [] s.mode = "octal" -> InOctal(s, c)

(* The end of the line ends an octal, a quote and a word.                  *)
Words(line) ==
  LET read[n \in 0 .. Len(line)] ==
        IF n = 0 THEN Scanning ELSE Scan1(read[n - 1], line[n])
      last == read[Len(line)]
      s == IF last.mode = "octal" THEN EndOctal(last) ELSE last
  IN IF s.mode = "between" THEN s.words ELSE Append(s.words, s.word)

-----------------------------------------------------------------------------
(* The reference: how words are spelled.                                   *)

Special == Spaces \cup {Quote, Backslash}

Octal(c) ==
  <<Backslash, 48 + c \div 64, 48 + ((c \div 8) % 8), 48 + (c % 8)>>

(* One character between quotes, the special ones written out or in octal. *)
Spelled(c, style) ==
  CASE style = "octal" /\ c \in Special -> Octal(c)
    [] c \in {Quote, Backslash} -> <<Backslash, c>>
    [] c = 10 -> <<Backslash, 110>>
    [] OTHER -> <<c>>

(* A word, in quotes unless it has no need of them.                        *)
Spelling(word, style) ==
  IF style = "bare" /\ word # <<>> /\ ToSet(word) \cap Special = {} THEN word
  ELSE <<Quote>> \o FlattenSeq([k \in DOMAIN word |-> Spelled(word[k], style)])
         \o <<Quote>>

(* The words apart, with a space more at the beginning.                    *)
LineOf(words, style) ==
  FlattenSeq([k \in DOMAIN words |-> <<32>> \o Spelling(words[k], style)])
=============================================================================
