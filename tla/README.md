# TLA+ models of Galactic Crisis

Galactic Crisis is a game in two programs: `galcry-gui`, an Allegro program
built around nested game loops, and `galcry-backend`, a line-oriented process
that generates names and is meant to hold the state of a game.  The sources
are C (and one C++ file over CGAL) under `src/src`, with the contracts of each
part in the headers under `src/inc`, and both programs keep their strings in
the `ustr` library, whose sources are under `ustr`.  There are no tests; the
documents under `src/doc` are fiction.  What the code promises is said in the
headers, and those are what the models below are held against.

All line numbers are those of the files under `src/`.

## Inventory

| part | state it keeps | operations | what is hard |
|---|---|---|---|
| game loop, `gui/loop.c` | `initialized`, `direct_video`, `target_bitmap`, `nested_calls` (three growing arrays of callbacks), `ticks`, and one C activation per running loop | `loop_execute`, `loop_subexecute`, the setters, the timer callback `inc_ticks` | re-entrance: callbacks open further loops, while the library walks arrays those loops push onto, replace and restore; a timer that interrupts `--ticks` or runs beside it; failing allocations; liveness of refresh and exit |
| name generator, `backend/lexicon.c` | the list of lexicons and the two histograms of each that was used | `lexicon_init`, `lexicon_deinit`, `lexicon_get_languages`, `lexicon_generate` with `learn` on first use | an index chosen from one histogram is looked for in the other, with no bound in the scan |
| back end commands, `backend/main.c` | `quit_flag`, the words of the current line | `command_loop`, `get_line`, three handlers | one answer per line, whatever the line; a missing `return` |
| mappings, `stringutils/mapping.c` | 256 buckets per table, chains of nodes | `mapping_init`, `_deinit`, `_ins`, `_del`, `_find`, `_keys` | pointers to links that are written through; nodes that are freed and come back |
| game state, `backend/gamestate.c` | a mapping for the game, an array of mappings for countries | getters and setters, `clear`, `save`, `load` | the array of countries grows and shrinks |
| string arrays, `stringutils/austr.c` | length, capacity, owned strings | push, pop, resize | growth, pop of nothing |
| word splitter, `stringutils/wordsplit.c` | none | `wordsplit` | quotes, escapes, ends of input inside either |
| string hash, `stringutils/stringhash.c` | none | FNV-1a | nothing |
| fonts, `gui/a4f.c` | reference-counted faces, fonts that share them, FreeType's cache keyed by face address | init, load, copy, destroy, measuring and drawing text | the cache outlives the faces it is keyed by; error paths; UTF-8 lead bytes |
| GUI client, `gui/main.c`, `gui/utils.c` | a mouse position and a quit flag; the two fonts | `simple_input`, `simple_logic`, `simple_refresh`, startup, `gui_exit`, `gui_abort` | shutdown from any point of startup |
| Voronoi and relaxation, `backend/voronoi.cxx`, `backend/lloyd.c` | two vectors with pointers into them | conversion from CGAL, Lloyd step | the vectors grow while pointers into them are kept |
| command line, `cmdline.c` | two strings | `cmdline_init`, `cmdline_deinit` | every way out gives them back |
| string representation and core, `ustr/ustr-main-code.h`, `ustr-sc-code.h` | blocks: a byte of flags, a reference count, a length, perhaps a size, the text | `ustr_dup*`, `ustr_add*`, `ustr_del*`, `ustr_realloc`, `ustr_free`, sharing, the shortcuts of `ustr_sc_*` | counts that are full, blocks of others, read-only ones and the caller's buffers behind one interface; allocations that fail half way; numbers whose width is fixed when the block is made |
| string editing, `ustr-set-code.h`, `-ins-`, `-sub-`, `-replace-`, `-fmt-`, `-io-`, `-split-` | the same blocks | one function per verb, each with a source that may be the string itself | a string that moves while it is its own source; compound edits of which one step fails |
| string search and comparison, `ustr-srch-code.h`, `-spn-`, `-cmp-` | none | pure functions | both directions, offsets, empty needles |
| numbers in strings, `ustr-parse-code.h`, `ustr-b.h` | none | `ustr_parse_*`, `ustr_add_b_*` | the overflow test, limits per type and sign |
| UTF-8, `ustr-utf8-code.h` | none | validity, lengths, positions, spans | what is overlong, a surrogate or cut off |
| memory pools, `ustr-pool-code.h` | per pool a list of blocks, links to parent, siblings and children | allocate, resize, free, clear, make and free pools | a block resized or freed out of order; pools freed in any order |
| string configuration, `ustr-cntl-code.h`, `malloc-check.h` | the defaults for new strings | `ustr_cntl_opt` | changed while strings of the old layout live |

How they meet: `gui/main.c` starts Allegro and the fonts and then calls
`loop_execute` with its three callbacks; the loop calls back into the client
(input, logic, refresh), and a logic routine may call the loop again, before it
returns.  Anything that fails in the loop ends the program through `gui_abort`
of `gui/utils.c`.  `backend/main.c` calls `lexicon_init`, then reads a line,
gives it to `wordsplit`, finds the handler by the first word and calls it; the
handlers call `lexicon.c`, which calls `wordsplit` again on each line of a
lexicon file.  `gamestate.c` puts everything into mappings; nothing calls it
yet.  The two programs do not talk to each other so far.  Every string in them
is a block of the string library, shared by count where it can be; arrays of
strings (`austr.c`) own one reference per slot.  `lloyd.c` asks `voronoi.cxx` for
a diagram and walks around its faces.

What would make each part correct:

* game loop: the array of callbacks is the C stack, always; memory is never
  used after it was freed; the right callbacks run in the right order; only
  the latest loop's own verdict ends it; refreshes are not lost; rounds are
  those the timer paid for; the loop ends when it should.
* generator: the two histograms agree after any words; generated names are
  made of what was learned; generation ends.
* commands: one answer per line; each command finishes.
* mappings, game state: finite functions, whatever collides.
* fonts: a face lives as long as a font or a cache entry refers to it.
* string arrays: the slots below the length own a string each, the others none.
* strings: a call changes the string it names as asked, or not at all and says
  so; counts match holders; nothing outside of a block is touched.
* pools: every block is in one list; clearing takes what is below and no more.
* Voronoi: every stored pointer points into the final vectors, and the copy is
  the diagram.

## Modules

`LoopContract` — what `loop.h` says of nested loops (lines 26–74), with no
timer, arrays or bitmaps: a stack of loops, and for each the call its round
has come to and the loop it begins with.  A round of a loop opened by
`loop_subexecute` calls the logic of every loop on the stack (`Subexecute`), one
of a loop opened by `loop_execute` only its own (`Execute`, 59–61).

`GameLoop` — `gui/loop.c`.  `loop_subexecute` is not one action but the
sequence of atomic steps in which a timer or a callback can get between, with
`pc` naming where the innermost activation is:

| `pc` | code | actions |
|---|---|---|
| `app`, `logic` | the application, or a logic callback, has control (119) | `Open`, `OpenFails`, `OpenWild` (135–205, 242–249), `SetDirectVideo` (89–95), `SetTicksPerSecond` (73–82), `Return` (119–130) |
| `top` | 208–220 | `RefreshAll`, `RefreshWild` |
| `poll` | `if (ticks)`, 222 | `PollTicks` |
| `while` | 225 | `TestTicks` |
| `load`, `store` | `--ticks`, 227 | `LoadTicks`, `StoreTicks` |
| `input` | 228 | `Input` |
| `call` | 117–132, 229–251 | `CallLogic`, `CallWild`, `NextRound`, `Close` |

`frame` holds the activations, outermost first: the loop (`who`), whether it
was entered by `loop_execute` (`exec`) and with which saved `nested_calls`
(`saved`), `needs_refresh`, the index and verdict of `logic_all`, and the
callback being called (`cb`).  The three parallel arrays of `Nested` are always
allocated, copied and freed together, so one block stands for the three;
`heap` is what each block holds and `live` which are allocated.  A step that
would read or free a block that is not live leads to status `"wild"`, after
which nothing happens: what the build does then is undefined.  `gui_abort`
leads to `"aborted"`.  The timer is `TimerInterrupt` (one atomic step between
any two of the loop's: a signal handler) or `TimerLoad` and `TimerStore`
(a thread), chosen by the constant `TimerIsThread`; Allegro has both kinds of
driver.  `owed` and `stale` are history variables: timer periods not spent yet,
and a refresh that was asked for and not painted.

The clients are free: input may set the quit flag of its loop, and a logic
routine answers `LOOP_STOP` once that flag is set and otherwise anything,
and may first open any loop that is not running.  This is `simple_input` and
`simple_logic` of `gui/main.c` and whatever `loop.h` lets a client be.

`MCGameLoop` adds symmetry and a constraint for TLC; `GameLoopProofs` holds the
proofs.

`Lexicon` — `backend/lexicon.c`.  `lexicon_list` is the list, head first.
`learn` is one step per word (`LearnWord`), the generator one step per letter
(`FirstLetter`, `NextLetter`), so that the file's words and the random choices
can be any.  A loop `for (c = from; sel >= row[c]; ++c) sel -= row[c]` is the
set `Scan(row, from, sel)` of the places where it can stop, none when it leaves
the row; `Stray` is that case and the division by zero.

`WordSplit` — `stringutils/wordsplit.c`.  The nested loops of the C function
are a fold of `Scan1` over the characters of the line, with the place in the
loops as the state's `mode`; below it, the reference says how words are spelled
(`Spelling`, `LineOf`).

`Backend` — `backend/main.c` and the two handlers of `lexicon.c`, on top of
`Lexicon` and `WordSplit`.  A line is its characters, where the names of
commands and lexicons, which nothing takes apart, are one symbol each.
`LexiconOfNothing` is the command `lexicon`
without a name: the handler prints a refusal, has no `return` (302–303), and
calls the generator with what lies past the end of the array, which may be the
name of an earlier line or no pointer at all.  `BackendProofs` holds the proofs
about `Backend` and `Lexicon`; `Induction` is what it and the others know of
induction.

`StringMap` — what `stringutils.h` says of mappings: finite functions, where the
insertion of a null value maps the empty array (`PutNull`, 89–90).

`Mapping` — `stringutils/mapping.c` at the level of nodes and links.  `Lookup`
returns the link (`prev`, or the bucket when `prev` is `Null`) the C function
returns a pointer to, and what it holds; `Relink` writes through it.  Freed
nodes return to `Nodes \ live` and `malloc` may hand out any of them.
`mapping_ins` aborts when there is no memory for a node, and goes on when there
is none for the copy of its key (115): the node stays in the chain, in `keyless`,
and whatever comes to it reads through a null key (`LookupWild`, `KeysWild`).
A null value is read through, too (`InsNull`, 123).
`MappingProofs` holds the proofs about it, `StringArray`, `StringMap` and
`GameState`.

`StringArray` — `stringutils/austr.c`.  An array is a block of `slot`s and a
`length`; slots beyond the length are `Stale`.  `Resize` is `austr_resize` with
its three cases, growth by half included; pushing and popping are written on it
as in the code.  Popping an empty array reads `array[UINT_MAX]`: status `"wild"`.
`Mapping` hands its results over in such an array, and a client pushes, pops
and resizes the same one between the calls (`OutPush`, `OutPop`, `OutResize`,
`OutRenew`).

`GameState` — `backend/gamestate.c` on one table, and beside it a second client
that uses the rest of `stringutils.h` on a table of its own, so that nodes move
between tables.  `gamestate_countries_put` has one behaviour from the initial
state: it writes through the null pointer (line 137).  The setters of
countries, which need a country to exist, are therefore never enabled and have
no actions.  `gamestate_global_get` goes through an array of its own.

`Fonts` — `gui/a4f.c`.  `face` and `font` are the two kinds of structures by
address; addresses that were freed may be handed out again.  FreeType is outside
of the repository: `faces` is the manager's list of open faces, `glyphs` what
its image cache holds, and of both only the file they come from is kept, for
that is what an address can get wrong.  `names` counts the copies of file names
that `face_new` makes, whoever still knows them.

`Gui` — `gui/main.c`, `gui/utils.c` and `cmdline.c`, on top of `Fonts`: `pc` is
the place in `main`, and every step of the start has its failing alternative.
The loop itself is `GameLoop`; here it draws, once in each font
(`RefreshNormal`, `RefreshBig`), and with `Extra` its callbacks make the other
calls of `a4f.h`, on fonts they made.  `GuiProofs` holds the proofs about both.

`UstrFormat` — the layout of a string block (`ustr-main.h`, and the arithmetic of
`ustr-main-code.h`): widths of counts, lengths and sizes, the graded sizes of
blocks, what can be changed in place (`RwMod`).  A byte has `Radix` values, so
that a text of a few characters reaches the limits of its fields.

`UstrHeap` — the core on a heap of such blocks.  A library function is an
operator from the state of a call to the set of states it may end in, since the
allocator may refuse any request and may move any block; `ok` in that state is
what the last function returned, and the next call is made from every state in
which the code goes on.  Memory that is used outside of its block, or after it
was given back, sets `wild`.

`UstrEdit` — the editing functions, written on `UstrHeap` call by call.  A loop is
a function of the number of rounds made, whose value is the state, or the set of
states, the loop may be in then (`ScanRounds`, `InlineRounds`, `FileRounds`,
`LineRounds`, `Swaps`, `Joins`); it has no more rounds than the text, or what is
left of the stream, has characters.

`Ustr` — the interface: handles that hold strings (of the allocator, literals,
the shared empty string, a buffer of the caller), one action per function, and
`ustr_cntl_opt` (`CntlOpt`), which changes the defaults at any time.  An action
records its request in `call`.  `most` is what a limited buffer of the caller has
room for, and `odd` marks the calls that are known to answer a request otherwise
than the headers promise; they are listed below.  The functions with `p` in their names, for
strings in pools, are the same internal functions.  `Strings` is the abstract
specification: every handle has a text of its own, a call changes the text of
one handle as asked or changes none, and a limited string never outgrows its
buffer.  Of an odd request that is granted it says only that the other handles
keep their texts.  `UstrProofs` holds the proofs.

`UstrPool` — the pools as trees of regions, with `sbeg`, `base`, `next`, `prev` as
the code has them; `Regions` is what `ustr-main.h` means by them: trees of
regions, freed from a node down.  A list of nodes is the sequence of their
blocks.  `ustr__pool_ll__clear` and `ustr__pool_ll__free` call themselves along
`sbeg` and `next`: `Ways` are the calls one pool makes, `Visited` the least set
closed under them, which is every pool the recursion comes by, and `Astray` says
that it comes by one twice, or by one that is gone.  What is done on the way
touches the pool itself and no link that is read later, so the order does not
matter unless `Astray`, and then memory is used after it was freed (`wild`).
`UstrPoolProofs` holds the proofs.

`Search`, `Numbers`, `Utf8` — functions of texts, in the loops and windows of the
code.  `Text` holds the reference definitions and the behaviour that enumerates
texts, numbers and parts.  `Utf8` also has the decoder of `gui/a4f.c`.

`VoronoiDiagram` — CGAL's side: what a diagram is, and the assumptions on it.
`Voronoi` — `backend/voronoi.cxx` and `backend/lloyd.c`.  The recursion of
`convert` is a `stack` of activations, one step per call, per field stored and
per return.  A vector has a generation `at` that changes when it moves, and a
pointer is a generation and an index, so a pointer into a block that was given
back is told from one into the present block.  In `rv->halfedges[i].twin =
convert (...)` the compiler may compute the place of the field before the call:
`early` is the set of fields for which it does, chosen at the beginning.  The
diagram is given as its faces and halfedges and how they lead to each other.
`VoronoiProofs` holds the proofs.

The `MC` modules hold the small instances.  Three of them put two parts side by
side that share no state: `MCBackEnd` (`Backend` and `Voronoi`), `MCGuiAndGame` (`Gui`
and `GameState`) and `MCStringLibrary` (`UstrPool` and `Text`).  A behaviour is one of
the first part or one of the second, chosen by its initial state, while the other
part stays as it began.  So what is checked is what two separate runs would check,
and nothing is claimed of the two together.

## Runs

Passing runs, each finished by TLC without a bound being hit unnoticed (every
bound is a constant, in the guards, or a constraint that is named below):

* **LoopNesting** — three loops opened by `loop_subexecute`, three deep; the
  arrays grow by one and then by halves, so two of three pushes replace them;
  two blocks (old and new), so a leak makes the next growth fail; up to two
  pending ticks from an interrupting timer; `malloc` may fail.  Shows
  `StackMirrorsCalls`, `NoWildAccess`, `NoArraysLeak`, `RoundsArePaid`,
  `RefreshKept`, `ClosedByOwnStop` and that `GameLoop` implements
  `LoopContract` (`KeepsContract`).  Three loops give an outermost, a middle
  and a latest one, the positions `logic_all` tells apart.
* **LoopAdversity** — two loops, both entry points, growth at every push, a timer
  thread, the video setting changed at any time, and a timer or bitmap that cannot
  be had.  Shows that things dangle only through the restore of `loop_execute`
  (`DanglesByRestore`), `TargetFollowsSetting`, and the inductive invariant `IInv`,
  which contains `TypeOK` and `StackMirrorsCalls`, in the setting that strains it
  most.
* **LoopLiveness** — two loops, under fairness (below): `QuitClosesLoop`,
  `RefreshAfterLull`.
* **BackEnd** — the two parts of `galcry-backend`, one at a time.  The commands
  (`Backend`, `Lexicon`, `WordSplit`): lexicons over three letters, one listed twice,
  one with nothing to learn, one without a file; every order of commands and every
  random choice.  `CountsAgree`, `NamesInLanguage`, `NamesLongEnough`,
  `StraysOnlyUntaught`, `OneAnswer`, `CommandsDone`.  The words of the lexicons
  have repeated letters, a cycle (`abab`, `ccc`), a word of one letter, and
  shared pairs.  The lines are the commands, bare and quoted, and a few that
  are not well formed.  `SplitsAsMeant` holds the splitter against the
  reference, for every choice of words in `Meant` and every style: words that
  need quotes or escapes, octals followed by digits, empty words.  And the
  diagrams (`Voronoi`): three and four sites around a corner, one site enclosed
  by three and by four, four sites on a line; every first face and every
  halfedge the faces named may offer, three orders of evaluation, an array of
  points of the documented size and of twice that.  `PointersLead`,
  `DiagramCopied`, `LloydAverages`.
* **GuiAndGame** — two parts, one at a time.  The life of `galcry-gui` (`Gui`,
  `Fonts`): three files, one of which cannot be opened, four fonts and three faces,
  that is the program's two fonts on one face, and two more with which faces come
  and go; `RefsCounted`, `LeavesNothing`, `NamesLostByLoads`.  FreeType keeps two
  faces, its default and one less than there are, so faces are closed and opened
  again.  And the variables of a game in `galcry-backend` (`GameState`, `Mapping`,
  `StringArray`): two tables, three keys that all collide (so a chain has a head, a
  middle and a tail), three nodes, and keys that cannot be copied; `ChainsSound`,
  `ArrayOwns`, and `KeepsPromise`: every operation of `Mapping` comes to its end and
  is a step of `StringMap`, but for those of `Beyond`.
* **Ustr** — two handles, one of them edited by every function of the library,
  five addresses, three layouts (exact, counted, counted and sized), a count
  that is full with its first holder and one that is not, a literal, the
  shared `""` and a buffer of the caller.  `CountsMatchHolders`, `NoWildAccess`,
  `RoomForText`, `FailureFlagged`, and `KeepsPromise`: the library implements
  `Strings`.
* **StringLibrary** — two more parts of `ustr`, one at a time.  The pools
  (`UstrPool`): four pools and two blocks, so that a pool has a parent, a sibling
  on each side and a child; `BlocksListedOnce`, `HoldersServed`, `LinksAgree`, and
  `KeepsPromise`: the pools implement `Regions`.  The growth of a block by a copy,
  which needs a third one where `realloc` may be used, is left to the theorems.
  And the functions that only read (`Text`): every word of up to five of three
  characters with every part of up to three (`QueriesAgree`); every number up to
  150, in a range of 64 that the last digits leave by the product or by the sum,
  in five bases and all spellings, and as bytes (`ParsesAgree`); every string of up
  to four of thirteen bytes at the limits of UTF-8, and of up to three of ten
  characters at its limits (`Utf8Agree`).

Runs that are expected to end in a violation, each a disagreement between the
code and what a header or an assertion says of it.  Where one run refutes
several promises, its property says that at least one of them is kept, so that a
state that violates it refutes them all:

* **GameNull** (`KeepsPromise`): a client that inserts null values, which
  `stringutils.h:89-90` lets it and says to map the empty array; `mapping_ins` (123)
  asks for the length of the null array, with the node already in its chain.
* **GuiFontReuse** (`ShowsItsFile`): a font is destroyed and another one loaded
  at the address of its face; `a4f_destroy` (277) has not told FreeType, which
  takes the new face for the old and draws from its file.  `main.c` itself
  destroys fonts only at the end, so the shipped program does not show it.
* **TextDrawing** (`AsEncoded`): the text of the letter A and the character 2048,
  whose lead byte is 0xE0.  `a4f_textout`, which takes UTF-8 (`a4f.h:72-74`), reads it
  as the lead of a shorter character (`a4f.c:406`, and 408 for 0xF0).  And the
  reverse spans of `ustr` skip an offset from one character too early
  (`ustr-spn-code.h:279`), so that the span starts within a character.
* **UstrSizeField** (`StoredSizeFits`): `ustr__rw_mod` compares the new length with
  the width of the length field and not the new size of the block, which is
  stored in as many bytes; `ustr__sz_set` (840) then keeps the low bytes of it,
  and what `ustr_assert_valid` asserts of sizes (88-93) does not hold.
* **VoronoiHeader** (`HeaderKept`): four sites on a line.  The vectors are resized
  where the comment says reserved (`voronoi.cxx:179-181`), so they hold as many
  blanks before the copies: `voronoi_num_faces` and `voronoi_num_halfedges` are too
  large (`voronoi.h:100`), `voronoi_get_face` returns a blank (70), and
  `lloyd_relaxation`, which writes for every face of the vector, leaves an array
  of the documented size (29-30).  The recursion from the first face does not
  reach every other (39-41).  The first three are so for any sites.

### Exceptions by name

What the code is known to do otherwise than a property says, and the property
therefore excepts:

* `NestedExecute`, in `KeepsContract` of `GameLoop`: a loop that `loop_execute` opens
  inside another one runs the routines of the outer loops too, as
  `loop_subexecute` does (`loop.c:243-252`), though `loop.h:59-61` presents that as what
  tells them apart.  While such a loop runs, nothing is said of the steps.
* `Beyond`, in `KeepsPromise` of `GameState`: memory that runs out, and `save` and
  `load`, which abort; a string popped of an empty array; the first
  `gamestate_countries_put`, which writes through null (137); and operations that
  come to a node without a key, since nobody checks the copy of it (`mapping.c:115`).
* `Odd`, in `KeepsPromise` of `Ustr`.  `Escapes`: a full buffer of the caller moves to
  the heap when text is put before its end (`ustr-ins-code.h:49-62`), though a
  limited string "cannot grow" (`ustr-main.h:427-429`).  `InsAtWrongEnd`:
  `ustr_ins_subustr` compares the position with the length of the other string and
  appends (`ustr-ins-code.h:158-159`).  `SubsPartOfItself`: `ustr_sub_subustr` of a part
  over itself cuts the text off behind it (`ustr-sub-code.h:107-108`).  `SubsItself`:
  `ustr_sub` of a string over itself inserts what lies before the place
  (`ustr-sub-code.h:70-71`), which takes the place behind the end for one within it
  and makes a limited string grow.  And `ustr_io_getdelim` does not see a delimiter
  that is the last character of what it made room for (`ustr-io-code.h:134-151`).
  Each but the last is needed: without it the run fails; with texts of two
  characters the last is not met.
* A copy made of the source of a self-edit fails without a flag, in
  `FailureFlagged`.
* `OnALine`, in `DiagramCopied`: sites on a line, of which VoronoiHeader tells.
* `Misplaced` and `Misread`, in `Utf8Agree`: the reverse spans and the decoder, of
  which TextDrawing tells.
* The command `lexicon` without a name, in `OneAnswer`: after the refusal the handler
  goes on (302–303).

### What the models show of the code besides

These are behaviours of the code that the models contain, without a run of their
own.

* Game loop.  With a timer thread, `--ticks` and `++ticks` lose updates, and a
  lost decrement runs a round twice for one period; an interrupting timer can
  lose a period and never adds one (LoopNesting, theorem `Paid`).  A
  `loop_execute` inside a loop brings back an older `nested_calls`; with the growth
  of the code (0, 4, 10, ...) the fifth loop leaves freed arrays behind it
  (`DanglesByRestore`).  A refresh asked for in the round in which the latest loop
  stops goes with that loop.
* Voronoi.  The growth the comment at 179 wants to avoid happens at the first
  append, before any pointer is kept; with a library whose vectors grow by half
  it would happen again in the middle of the recursion, and `PointersLead` fails
  when `Factor` is made so.
* Strings.  `ustr_io_put` of a whole string drops all of it even after a short
  write.
* Numbers.  The overflow test misses a wrap in the last addition, and a negative
  `short` is measured against a limit of a wider type.
* UTF-8.  The decoder of `a4f.c` can step past the end of the text.

### Fairness

`GameLoop!Fairness`: the timer ticks for ever (it is a timer), the loop's own
steps and `input` are not suspended for ever (one process, and `input` is
expected by `loop.h:50-51` only to check devices), and a logic callback at a given depth
does return in the end: it is a strong fairness, for while it opens further
loops it is not the one in control.  `QuitClosesLoop` assumes, in its own
formula, that the player does not stay for ever in a loop that runs again and
again; without it a loop nested in the one that wants to stop keeps it from
stopping, which is what the API means.  `RefreshAfterLull` assumes that the
loop sees `ticks` at zero again and again; without it the loop never paints
(lines 225–232).  Nothing in the code bounds the length of a round, so nothing
stronger would be justified.

`Backend!Fairness`: the process runs on, and `random ()` favours no letter for
ever.  It says nothing of the player, so nothing is claimed after the prompt, and
in BackEnd nothing of the diagrams: it is about the steps of the commands.

Nothing else is claimed to happen in the end: the string library, the mappings
and the conversion are sequential functions that their callers run.

### Bounds

`MaxDepth` bounds the C stack, `MaxTicks` the pending ticks (with the timer
held back at the bound), `Blocks`, `Nodes`, `Addr`, `Mem` and `Bitmaps` the
addresses; running out of blocks is `malloc` failing.  `GrowBy` is the 4 of the
loop's growth formula and is 1 where growth has to happen within a few pushes;
`LeastCapacity` is the 4 of `austr.c` and 1 for the same reason, with arrays of up
to `MaxLength` 3, so that they grow at the first, second and fourth string.
`BUCKETS` is 2 instead of 256 and `Letters` 3 instead of 26.  `MaxNames` bounds the
file names in memory, which loads that fail leave behind without end.

In Ustr, `Radix` 4 and `RefRadix` 2 stand for the 256 values of a byte: lengths
need a second byte at 4, counts are full at 1 with one byte and at 3 with two.
Texts of the caller have at most two characters and strings four (six in
UstrSizeField, whose instance `MCUstrSize` is without `SizesFit`); `FmtLocal`, `LineSz` and `BlkSz` are 2, so that texts are on both
sides of each.  Its `VIEW` forgets the addresses, which nothing but equality
depends on; its constraint `Short` keeps two different strings short and has
them made while the default is not a sized block, and explores a block that was
shared for ever and dropped while there is one other string; one string alone
goes to the full length under either default.  GuiAndGame's `VIEW` leaves out the string a caller was
handed last, which no step reads; its constraint `Few` keeps what a client made
of the array from meeting every state of the tables, and has at most one node
without a key, while the array is empty.  The `Few` of StringLibrary lets one pool at a time have other
settings than a new one.  `Wide` 64 and `Narrow` 16 stand for the ranges of the
number types, `Octet` 4 for a byte.

`CHECK_DEADLOCK FALSE` stands where the system may stop: a caller of the string
library or of a pool need not call again when every bound is reached, and the
texts of `Text` do not grow for ever.

The theorems hold for all values.

## Proofs

`GameLoopProofs` proves, with TLAPS, for any set of loops, entry points,
failures, blocks, growth step, kind of timer and bounds:

* `Invariant`: `Spec => []IInv`;
* `TypeCorrect`: `Spec => []TypeOK`;
* `StackMirrored`: `Spec => []StackMirrorsCalls`;
* `Paid`: with an interrupting timer, `Spec => []RoundsArePaid`;
* `MemorySafe` and `NoLeak`: under `SafeUse` (only `loop_subexecute`, and the
  bitmap can be had), `Spec => []NoWildAccess` and `Spec => []NoArraysLeak`;
* `OwnStop`: `Spec => ClosedByOwnStop`.

They rest on the two assumptions on the constants that `GameLoop` names
(`ParametersAssumption`, `PointersAssumption`: parameters are in their ranges,
null is not an address, the screen is not a memory bitmap).

Why an inductive invariant: that the array mirrors the stack cannot be shown
from itself, because `loop_execute` brings back an older `nested_calls`.
`StackShape` and `StackContents` say the same of every copy saved in every
activation: the copy saved by activation `d` has length `d - 1`, capacity for
it, and its arrays, if they still exist, hold the first `d - 1` loops.  Pushing
writes only the entry after those, so copies that share the arrays are not
disturbed; freeing takes an array out of `live`, so nothing is claimed of it.
`Rounds` ties the index, the callback and the verdict of each activation to
the stack: an activation that is suspended is inside the callback of entry
`idx <= d`, and a verdict `LOOP_STOP` exists only after the latest entry's own
answer, which is what `OwnStop` needs.  `Counters` carries the guards `ticks > 0`
across the two halves of `--ticks`; with a timer that interrupts,
`reg <= ticks <= owed` gives `Paid`; with a thread, `ticks` only gets
larger between them, which keeps it from going below zero.  `Ownership` is the
memory argument under `SafeUse`: nothing is ever restored, so the arrays in
`nested_calls` are the only ones.

The proofs are laid out by part: one lemma per conjunct of `IInv`, in it one
step per group of actions; `Round` and `Aside` group the actions that leave a
part alone, with frame lemmas that say so.

It also proves `Implements`: `Spec => KeepsContract`, with no further
assumption, so also while the arrays dangle.  It speaks of every `loop_subexecute`
and of a `loop_execute` that no loop runs around; while a loop runs that
`loop_execute` opened inside another one, which `NestedExecute` names, it says
nothing, for there the code breaks the contract.  The mapping is given names
(`Stack`, `Calls`), each action of `LoopContract` is restated in them
(`Opens`, `Begins`, ...), and one lemma per action of `GameLoop` shows that it
satisfies one of these, or leaves `Stack` and `Calls` alone: `StoreTicks` begins
a round, `CallLogic` calls, `Return` returns, `NextRound` goes again, `Close` and
`Open` pop and push (an `Execute` or a `Subexecute`, as the loop was entered), and
the timer, the refresh, the tests of `ticks` and the
input are stutters.  `StackShape` and `StackContents` are what make `CallLogic`
call the loop on the stack and not whatever the arrays hold; `Rounds` is what
makes the verdict the latest loop's own.

Three more each have an invariant of their own on top
of `IInv`:

* `TargetFollows`: `Spec => []TargetFollowsSetting`, from `Target` (before the
  first loop there is neither a target nor a bitmap);
* `RefreshesKept`: `Spec => []RefreshKept`, from `Remembered` (a request is in
  `need`, or in the verdict of a round that has not ended);
* `RestoreDangles`: `Spec => DanglesByRestore`, from `Ages` (of two values of
  `nested_calls` the older one has the same arrays, or smaller ones).

`GuiProofs` proves of `Gui` and `Fonts`, for any files, addresses and failures:

* `FacesCounted`: `GuiSpec => []RefsCounted`;
* `NothingLeft`: `GuiSpec => []LeavesNothing`;
* `NamesKept`: `GuiSpec => NamesLostByLoads`.

The inductive invariant adds to `RefsCounted` the types, `OwnFonts` (the two
fonts of `main` exist from the step that made each, are never the same, and are
gone when the program has ended) and `Started` (what is initialised at each
place of `main`).  Lemmas on `Cardinality` before it say how one font more or
less changes the number that share a face.  An address that `malloc` gives out
again is no exception: a face is freed only when no font leads to it.

`BackendProofs` proves of `Backend` and `Lexicon`, for any corpus, languages,
lines and numbers of letters:

* `HistogramsAgree`: `Spec => []CountsAgree`;
* `LongEnough`: `Spec => []NamesLongEnough`;
* `StaysInHistograms`: `Spec => []StraysOnlyUntaught`;
* `AnsweredOnce`: `Spec => []OneAnswer`;
* `InLanguage`: `Spec => NamesInLanguage`.

The invariant is `LexInv /\ BackOK`.  In `LexInv`, `ListOK` says of every lexicon
that has learned words: pairs are counted as often as the triples that begin
with them (`Agrees`), a triple ends in a pair and no word is one letter long
(`Linked`), and every triple is one of its language (`Knows`).  How a word
learned changes a row's sum, and that a number below the sum stops the scan of
a row at a letter that was counted, are lemmas by induction on the place in the
row.  `TaskOK` says that the letters the generator goes on from are followed by
something, so that it cannot stray, and that a name that is done has two letters
or more.  `BackOK` relates the place in the command loop to the task under way
and the lines printed.  Of the words of a line it needs only that `wordsplit`
ends with words, which is a lemma about its fold.

`VoronoiProofs` proves of `Voronoi`, for any diagrams, any growth of the vectors
and any order of evaluation the compiler may choose:

* `PointersKept`: `VoronoiSpec => []PointersLead`;
* `CopyIsDiagram`: `VoronoiSpec => []DiagramCopied`;
* `SitesAveraged`: `VoronoiSpec => []LloydAverages`.

The first two come from `Invariant`: `VoronoiSpec => []Inv`.  `CopiesOK`: the maps lead into the
present vectors, one copy per object, each in the second half of its vector, for
the constructor fills the first half with blanks; this is also why the vectors,
reserved for as many as there are, grow.  `CallsOK`: every call but the innermost
waits for what the next one returns.  `FieldsOK`: a field is the copy of what the
diagram has there, unless some activation still has it to fill.  When the stack
is empty nothing is to be filled, and what was copied is closed under `next`,
`twin`, `face` and `edge`, so it is all that can be reached from the first face;
unless the sites lie on a line that is everything.
For the third, `RelaxationKept` adds `LloydInv`: a face has its bound once its call
has returned (`BoundsOK`), and while the walk goes around a face (`OnRim`) the
halfedges behind it are different ones of that face, all that follow them are
behind or next, and all but the first have their previous one behind.  So the
next halfedge is either the first one, and then those behind are a set closed
under `next`, hence the whole ring, or one not met yet.  The code compares
pointers: that this compares halfedges is `CopiedOnce`.  The assumptions are the
three the module names: diagrams are diagrams (`VoronoiAssumption`), in one with
edges that meet all of it can be reached (`ConnectedAssumption`), and the edges of
a face are one ring, or run from one end to another (`RingAssumption`); TLC
evaluates them on the diagrams of the run.

`Induction` proves what the others need of induction.  The library's theorems on
it take an operator as a parameter; here a set stands for the property, a set of
numbers that holds 0 and is closed under adding 1 (`NatInduction1`, `UpTo`,
`FromTo`), and a recursive function over an interval is found by iterating its
step (`Iteration`).

`MappingProofs` proves of the functions of `StringArray`, for every set of
strings, every array the code can be in and every length, and any least capacity
at or above 1:

* `ResizeOwns`: an array of any length owns exactly the strings within it;
* `ResizeKeeps`: strings keep their places and new places are empty strings;
* `PushAppends`, `PopDropsLast`: pushing appends and popping takes the last,
  whether or not the block moves;
* `PushAllAppends`: the loops of `mapping_find` and `mapping_keys` append all
  the strings of another array, in order.

and of `GameState` and `Mapping`, for any hash, number of
buckets, keys, values, nodes and bound of the caller's array:

* `ArrayStaysOwned`: `Spec => []ArrayOwns`;
* `ChainsStaySound`: `Spec => []ChainsSound`;
* `PromiseKept`: `Spec => KeepsPromise`, the refinement of `StringMap`: every
  operation comes to its end and is a step of `StringMap`, but for those `Beyond` names.

`Spec` has clients that insert no null values; with those that do, `NullSpec`, the
promise is broken, as GameNull shows.  All three come from `Invariant`: `Spec => []Inv`, where `Inv` says that the
caller's array is one of those that own their strings (`Arrays`) and that the tables
are in order (`TablesOK`).  The invariant behind the links is `Rowed`: there are
finite sequences of nodes, one per bucket of each table, that the heads and the
`next` fields spell out (`Leads`), whose keys hash to their bucket and differ
(`Hashed`), and the nodes of all of them together are those that are live, each
in one table.  `ChainsSound` alone would not do: a step has to know the order of
a chain, which is what `lookup` walks along.  `KeylessOK` says that a node whose key could not
be copied is the last of its chain: nothing is put behind it, for that takes a
look-up that compares with it.  `ChainIsRow` shows that the walk
sees the sequence and then its end, and `Looks` that `lookup` returns the link
before the node of the key, or the last link of its chain.  The two writes through links
are then an `Append` to a sequence and a sequence `Without` one place
(`RowAppended`, `RowCut`), `StrungSame` and `TableTurns` say that no other bucket
and no other table notices, and `ContentsPut` and `ContentsCut` what becomes of
the function a table stands for.  For `mapping_keys`, an invariant of the walk
over the buckets says that the array lists the keys of the buckets behind it,
each once (`Lists`).  One lemma per action then names its step of `StringMap`,
or its part of `Beyond`; the end is a stutter.  The assumptions are
those that `Mapping`, `GameState` and `StringArray` name: the hash is a number,
there is a bucket, the memory is finite, `Null` is no node and no table, and the
strings of values are strings; TLC evaluates them on the run.

`UstrPoolProofs` proves of `UstrPool`, for any number of pools and blocks, any
sizes and any `free_num`:

* `BlocksStayListed`: `Spec => []BlocksListedOnce`;
* `HoldersStayServed`: `Spec => []HoldersServed`;
* `LinksStayAgreed`: `Spec => []LinksAgree`;
* `PoolsKeepPromise`: `Spec => KeepsPromise`, the refinement of `Regions`.

All four come from `PoolsStayGood`: `Spec => []Inv`.  The lists are the easy half:
`Listed` says that the lists of the pools that are there hold the blocks that are
not free, each in one place, and `Serves` that what holders hold is in the list
of its pool and large enough; each call that changes one list is an instance of
`BlockTurns` (some blocks come, some go).  The trees are the hard half, for
`LinksAgree` alone is not inductive: it holds of a ring of siblings, too, from
which no first sub pool is reached, and of a pool that is its own ancestor, whose
clearing would take all that is above it.  `Linked` therefore asks for a rank, a
number for each pool, that grows along `next` and along `base`: a pool is always
made as the first of its siblings and after the pool it is in, so the order in
which pools were made is one (`MakeTurns` gives the new pool 0 and raises the
others by one).  With it `VisitsBelow` shows what the recursion does.  A pool that
`Visited` holds is the one asked for or has its base among them; the other way
round, if the base of a pool is visited then so is the pool: else take the one
of least rank that is not, which is either the first sub pool, called for by its
base, or has a previous sibling of smaller rank, which is visited and calls for
it.  Nothing is visited twice, since `sbeg` and `next` have `prev` and `base` as
inverses, and the pool asked for is not met again, since its base is older than
all of them.  So what is taken is `Below` of `Regions`, the least set closed
downwards.  `Unlinked` and `LinkedLess` do the same for `ustr_pool_ll_free`, which
takes the pool out of its list before its tree goes: in between `Linked` holds of
all pools but this one (`LinkedBut`).  The assumptions are those of
`PoolAssumption`: `Null`, "top" and "none" are no pools, and sizes are positive;
TLC evaluates them on the run.

`UstrProofs` proves of `Ustr`, for any handles, blocks, configurations, texts and
lengths, and any allocator:

* `CountsStayRight`: `SizesFit => (Spec => []CountsMatchHolders)`;
* `MemoryStaysSafe`: `SizesFit => (Spec => []NoWildAccess)`;
* `RoomStaysForText`: `SizesFit => (Spec => []RoomForText)`.

`SizesFit` is the one hypothesis beside the assumptions the modules name.  It asks
nothing of configurations without stored sizes, which is what the program
uses; of one with stored sizes it asks that the block of the longest text has a
size that two bytes hold.  UstrSizeField shows what happens otherwise: a size
is cut to its low bytes, and then `RoomForText` does not hold.  TLC evaluates
`SizesFit` on the run Ustr (`MCUstrAssumption`).

All three follow from `InvHolds`: `Spec => []IInv`.  `IInv` says that nothing wild
has happened, that handles hold places or nothing, that the default is one of
the configurations, and `Heaps`: what lies at each place is sound (`SoundBlock`),
counts the handles that hold it (`CountOK`), the `""` and the literal are read
only and the caller's buffer is fixed or not there yet.  `RoomForText` alone would
not be inductive: that a block is reallocated in place to the size it should
have needs its size to be what its own header would ask for (`FitsConf` of
`OwnConf`), and a fixed one that its size fits the width of its length.

Inside of a call a string is counted for the pointer the call edits, too.  `Good` is
the invariant of the state of a call: blocks are sound, and count what `k` says the
other handles hold and the pointer `s` of the call once more (`With`).  `Edits` says
that there is such a string, `Post` that the call leaves it so, and that what is
there for ever stays (`Kept`), and `Got` that it has made a new string, which it
counts for as well, or none, and left all texts alone.  Then there is one lemma per function of the
library, bottom up, from the allocator (`NewBlockGood`, `ReallocGood`: what is moved
keeps its text and its count) over deleting and adding to the compositions:
exchanging a part, replacing, formatting, reading files, joining, splitting.
Each says that the function takes a `Good` state to states that are, for every
choice of the allocator, and where its caller needs it how long the text is
then.  Three of them need more than that:

* the copying loop of `ustrp__replace_buf` fills a block that was measured by an
  earlier scan.  `ScanAllOK`, by induction on the rounds, says that what the loop
  writes is as long as what the scan added up (`Gain`);
* the replacing in place goes on in the text it has changed.  `MatchMoves` and
  `FindMoves` say that a search from behind the new text finds what a search
  from behind the old one found in the text as it was, so that as many parts are
  replaced as were counted, and a fixed buffer that has room for the result has
  room for all that come between (`InlineGrows`, `InlineShrinks`);
* a string may be its own source.  `CopyOwn`, `PartOfItself` and `ViaCopyGood` follow
  the pointer through the edit: the part is copied before its block may move, and
  the copy is dropped by every way out.

The actions of `Ustr` follow: `Begin` turns `IInv` into a `Good` state, `StepKeeps` and
`NewKeeps` turn the `Good` states a call ends in back into `IInv'`, and there is one
lemma per action between them.  The assumptions are `RadixAssumption`,
`PlacesAssumption`, `EditAssumption` and `UstrAssumption`: a byte has two values or
more, the places differ, the sizes of reads are positive, handles are finitely
many, configurations have the types of the options, a caller's buffer has room
for a header, and the longest text is counted with four bytes: a string of 4 GiB
would be made a sized one (`ustr-main-code.h:486`, 558), which `InitSize` and
`InitAlloc` leave out.

Model-checked only:

* liveness (`QuitClosesLoop`, `RefreshAfterLull`, `CommandsDone`), out of the
  prover's reach with its fairness and `ENABLED`;
* `FailureFlagged` and `KeepsPromise` of `Ustr`: what the texts become, function by
  function, is a second pass over the lemmas of `UstrProofs`, which say how long
  they are and that nobody else's changes;
* `ParsesAgree`, `QueriesAgree`, `Utf8Agree` of `Text`, whose modules use recursive
  operators, for which the prover has no back end;
* `SplitsAsMeant`, a function of whole lines.

## Not modelled, and the plan

In order:

1. the texts in the lemmas of `UstrProofs`, and with them `KeepsPromise` of `Ustr`;
   the recursive operators of `Search` and `Numbers` as functions;
2. the kerning of neighbours and the blending of glyphs in `a4f_textout`.

Left out for good: FNV-1a (`Mapping` holds for any hash), the values of the
command line's options, blending glyphs into bitmaps, the geometry CGAL
computes, `a4f_file_faces` (nothing calls it), and of the string library the
replaced allocator of debug builds (`malloc-check.h`), `ustr_sc_export_subustr`
(a copy that leaves the library), files opened by name, and calls that the
library's own assertions exclude.  A few calls whose effect depends on memory
nobody wrote, or that do not end, are guarded: a replacement of the empty text,
a copy between overlapping parts of a buffer, an insertion of an empty string
into itself beyond its end.
