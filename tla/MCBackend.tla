----------------------------- MODULE MCBackend -----------------------------
(* A small instance of Backend for TLC: lexicons over three letters, one    *)
(* listed twice, one with no word to learn and one without a file, and      *)
(* words with repeated and cyclic letters.                                  *)
EXTENDS Backend

a == 97
b == 98
c == 99

(* Names, each one run of characters that means nothing to wordsplit.      *)
MCQuit == <<1000>>
MCLexicons == <<1001>>
MCLexicon == <<1002>>
Dwarf == <<2001>>
Elf == <<2002>>
Mute == <<2003>>
Lost == <<2004>>
Orc == <<2005>>
MCLanguages == {Dwarf, Elf, Mute, Lost, Orc}

MCListed == <<Dwarf, Elf, Dwarf, Mute, Lost>>
MCCorpus == [lang \in {Dwarf, Elf, Mute} |->
               CASE lang = Dwarf -> <<<<a, b, a, b>>, <<c>>, <<b, a>>>>
                 [] lang = Elf -> <<<<c, c, c>>, <<a, c>>, <<a, b, c>>>>
                 [] lang = Mute -> <<<<b>>>>]

(* Among the words meant: the empty one, a digit after an octal, and every  *)
(* character with a meaning of its own.                                     *)
Sayings == {<<>>, Elf, <<32>>, <<Quote, 55>>, <<10, 55>>, <<Backslash, Quote>>}
MCMeant == {<<>>} \cup {<<u>> : u \in Sayings} \cup {<<u, v>> : u, v \in Sayings}

(* Commands, bare and quoted; unknown ones; a quote that is not closed, one *)
(* inside a word, and an escape at the end of the line.                     *)
MCLines ==
  {LineOf(said, style) : style \in {"bare", "quoted"},
     said \in {<<>>, <<MCQuit>>, <<MCLexicons>>, <<Elf>>, <<MCLexicon>>, <<<<>>>>}
       \cup {<<MCLexicon, lang>> : lang \in MCLanguages}}
  \cup {<<Quote>> \o MCLexicon, MCLexicon \o <<32, Quote, Quote>> \o Elf,
        <<Quote, Backslash, 57, 55, 48, Backslash, 48, Backslash>>, <<9, 32>>}
=============================================================================
