---------------------------- MODULE MCGuiAndGame ----------------------------
(***************************************************************************)
(* The life of galcry-gui with its fonts, and the variables of a game,     *)
(* which galcry-backend keeps.  They share no state: a behaviour is one of *)
(* the program or one of the game, and the other part stays as it began.   *)
(***************************************************************************)
EXTENDS Gui, MCGameState

VARIABLE part

GuiAndGameInit == GuiInit /\ Init /\ part \in {"gui", "game"}

GuiPart == part = "gui" /\ GuiNext /\ UNCHANGED mappingVars
GamePart == part = "game" /\ Next /\ UNCHANGED programVars

GuiAndGameSpec ==
  /\ GuiAndGameInit
  /\ [][(GuiPart \/ GamePart) /\ UNCHANGED part]_<<part, programVars, mappingVars>>

(* The nodes of the mapping and the addresses of fonts are interchangeable. *)
Alike == Symmetry \cup Permutations(FontBlocks)

AllSeen == <<part, programVars, Seen>>
=============================================================================
