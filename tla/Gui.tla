-------------------------------- MODULE Gui --------------------------------
(***************************************************************************)
(* The life of galcry-gui, src/gui/main.c and src/gui/utils.c: the command *)
(* line, Allegro, the font library, the graphics mode, the two fonts, the  *)
(* loop, and the shutdown that gui_exit and gui_abort share.  Every step   *)
(* of the start may fail and leaves by a way of its own.                   *)
(*                                                                         *)
(* Inside the loop the program draws with its two fonts; Extra lets its    *)
(* routines use the rest of a4f.h as well.                                 *)
(***************************************************************************)
EXTENDS Fonts

CONSTANTS
  FreeSans,       \* the font file of main.c
  Extra           \* calls the loop makes, of "load", "copy", "destroy"

ASSUME GuiAssumption ==
  FreeSans \in Files /\ Extra \subseteq {"load", "copy", "destroy"}

VARIABLES
  place,          \* where main is
  strings,        \* cmdline.c: are pkgdatadir and bindir allocated?
  FreeSansNormal, FreeSansBig

guiVars == <<place, strings, FreeSansNormal, FreeSansBig>>
programVars == <<fontVars, guiVars>>
fontPointers == <<FreeSansNormal, FreeSansBig>>

GuiInit ==
  /\ FontsInit
  /\ place = "cmdline" /\ strings = FALSE
  /\ FreeSansNormal = NULL /\ FreeSansBig = NULL

Step(from, to) == place = from /\ place' = to

(* cmdline_deinit and exit.                                                *)
Exit(from) == Step(from, "exited") /\ strings' = FALSE

(* cmdline_init: --help, --version and what it does not know end it all.   *)
(* (Strings that cannot be set abort the process; that is left out.)       *)
CommandLine ==
  /\ \/ Step("cmdline", "allegro") /\ strings' = TRUE
     \/ Exit("cmdline")
  /\ UNCHANGED <<fontVars, fontPointers>>

AllegroInit ==
  /\ \/ Step("allegro", "fonts") /\ UNCHANGED strings
     \/ Exit("allegro")
  /\ UNCHANGED <<fontVars, fontPointers>>

FontInit ==
  /\ \/ Step("fonts", "mode") /\ A4fInit("nothing") /\ UNCHANGED strings
     \/ Exit("fonts") /\ \E fails \in InitSteps : A4fInit(fails)
  /\ UNCHANGED fontPointers

(* set_gfx_mode.                                                           *)
SetMode ==
  /\ \/ Step("mode", "load") /\ UNCHANGED <<fontVars, strings>>
     \/ Exit("mode") /\ A4fShutdown /\ UNCHANGED ownVars
  /\ UNCHANGED fontPointers

LoadNormal ==
  /\ \/ \E x \in FontBlocks, p \in FaceBlocks :
          /\ Step("load", "copy")
          /\ Load(FreeSans, x, p)
          /\ FreeSansNormal' = x
     \/ \E p \in FaceBlocks :
          /\ Step("load", "leave")
          /\ LoadFails(p)
          /\ UNCHANGED FreeSansNormal
     \/ /\ Step("load", "leave")        \* malloc: no name, font or face
        /\ UNCHANGED <<fontVars, FreeSansNormal>>
  /\ UNCHANGED <<strings, FreeSansBig>>

CopyNormal ==
  /\ \/ \E y \in FontBlocks :
          /\ Step("copy", "loop")
          /\ Copy(FreeSansNormal, y)
          /\ FreeSansBig' = y
     \/ /\ Step("copy", "leave")
        /\ UNCHANGED <<fontVars, FreeSansBig>>
  /\ UNCHANGED <<strings, FreeSansNormal>>

(* simple_refresh: a text in each font.                                    *)
RefreshNormal ==
  /\ Step("loop", "refresh") /\ Textout(FreeSansNormal)
  /\ UNCHANGED <<strings, fontPointers>>

RefreshBig ==
  /\ Step("refresh", "loop") /\ Textout(FreeSansBig)
  /\ UNCHANGED <<strings, fontPointers>>

(* Other calls of the loop's routines, on fonts of their own.              *)
Others == Existing \ {FreeSansNormal, FreeSansBig}

ExtraCall ==
  /\ place = "loop"
  /\ \/ /\ "load" \in Extra
        /\ \E file \in Files, p \in FaceBlocks :
             (\E x \in FontBlocks : Load(file, x, p)) \/ LoadFails(p)
     \/ "copy" \in Extra /\ \E x \in Existing, y \in FontBlocks : Copy(x, y)
     \/ /\ "destroy" \in Extra
        /\ \E x \in Others : Destroy(x, NULL)
        /\ UNCHANGED <<libraryVars, cacheVars>>
     \/ \E x \in Others : Textout(x)
  /\ UNCHANGED guiVars

(* loop_execute returns to gui_exit, or the loop ends in gui_abort.        *)
LeaveLoop ==
  /\ Step("loop", "leave")
  /\ UNCHANGED <<fontVars, strings, fontPointers>>

(* Mutant: the fonts are still there when the second is missing.           *)
ShutdownOfBoth ==
  /\ Exit("leave")
  /\ IF NULL \in {FreeSansNormal, FreeSansBig} THEN UNCHANGED ownVars
     ELSE Destroy(FreeSansNormal, FreeSansBig)
  /\ A4fShutdown
  /\ UNCHANGED fontPointers

(* common_gui_shutdown.                                                    *)
GuiShutdown ==
  /\ Exit("leave")
  /\ Destroy(FreeSansNormal, FreeSansBig)
  /\ A4fShutdown
  /\ UNCHANGED fontPointers

Exited == place = "exited" /\ UNCHANGED programVars

GuiNext ==
  \/ CommandLine \/ AllegroInit \/ FontInit \/ SetMode \/ LoadNormal
  \/ CopyNormal \/ RefreshNormal \/ RefreshBig \/ ExtraCall \/ LeaveLoop
  \/ GuiShutdown \/ Exited

GuiSpec == GuiInit /\ [][GuiNext]_programVars

-----------------------------------------------------------------------------
(* Properties.                                                             *)

(* By whichever way the program ends, what it made is gone: the font       *)
(* library, the strings of the command line and its own two fonts, and of  *)
(* faces only those that fonts of others share.                            *)
LeavesNothing ==
  place = "exited" =>
    /\ ~lib /\ ~manager /\ ~strings
    /\ Existing \cap {FreeSansNormal, FreeSansBig} = {}
    /\ Cardinality(LiveFaces) <= Cardinality(Existing)
=============================================================================
