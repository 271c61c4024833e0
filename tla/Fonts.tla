------------------------------- MODULE Fonts -------------------------------
(***************************************************************************)
(* The fonts of the GUI, src/gui/a4f.c: a font refers to a face, which is  *)
(* the name of a font file; copies of a font share the face and count      *)
(* their references to it.  The face's address is its identity in          *)
(* FreeType's caches, which open the file when they do not know the        *)
(* address.                                                                *)
(***************************************************************************)
EXTENDS Integers, Sequences, FiniteSets, FiniteSetsExt, SequencesExt

CONSTANTS
  Files, Readable,        \* font files, and those FreeType can open
  FontBlocks, FaceBlocks, \* addresses malloc returns for A4F_s, A4F_Face_s
  CacheSize,              \* faces FreeType keeps open, 2 by default
  MaxNames,               \* bound: file names in memory
  NULL

ASSUME FontsAssumption ==
  /\ Readable \subseteq Files /\ CacheSize \in Nat \ {0} /\ MaxNames \in Nat
  /\ NULL \notin FontBlocks \cup FaceBlocks \cup Files
  /\ NULL \notin [file : Files, refcount : Nat] \cup [face : FaceBlocks]
  /\ IsFiniteSet(FontBlocks) /\ IsFiniteSet(FaceBlocks)

VARIABLES
  lib,        \* static FT_Library lib: is it there?
  manager,    \* static FTC_Manager face_cache and the caches in it
  face,       \* per block, the A4F_Face_s in it, or NULL
  font,       \* per block, the A4F_s in it, or NULL
  names,      \* how many copies of file names are allocated
  faces,      \* the manager's open faces, the latest used first
  glyphs      \* per address, the files its cached glyphs come from

libraryVars == <<lib, manager>>
ownVars     == <<face, font, names>>
cacheVars   == <<faces, glyphs>>
fontVars    == <<libraryVars, ownVars, cacheVars>>

FontsInit ==
  /\ lib = FALSE /\ manager = FALSE
  /\ face = [p \in FaceBlocks |-> NULL] /\ font = [x \in FontBlocks |-> NULL]
  /\ names = 0
  /\ faces = <<>> /\ glyphs = [p \in FaceBlocks |-> {}]

-----------------------------------------------------------------------------
(* FreeType.                                                               *)

Opened(p) == {k \in DOMAIN faces : faces[k].id = p}

Without(p) == SelectSeq(faces, LAMBDA open : open.id # p)

(* FTC_Manager_LookupFace: the open face of that address, whatever its     *)
(* file, or else the file that font_loader names.                          *)
LookupFace(p, named, found) ==
  /\ IF Opened(p) # {} THEN \E k \in Opened(p) : found = faces[k].file
     ELSE found = named /\ named \in Readable
  /\ faces' = SubSeq(<<[id |-> p, file |-> found]>> \o Without(p), 1,
                     Min({CacheSize, Len(Without(p)) + 1}))

(* FTC_Manager_RemoveFaceID.                                               *)
RemoveFaceID(p) ==
  faces' = Without(p) /\ glyphs' = [glyphs EXCEPT ![p] = {}]

-----------------------------------------------------------------------------
(* Start and end of the library.                                           *)

InitSteps == {"FreeType", "manager", "cmap", "image"}

(* a4f_init, whose steps are undone when a later one fails.                *)
A4fInit(fails) ==
  /\ ~lib
  /\ lib' = (fails \notin InitSteps)
  /\ manager' = (fails \notin InitSteps)
  /\ UNCHANGED <<ownVars, cacheVars>>

(* a4f_shutdown; a manager that is done closes its faces.                  *)
A4fShutdown ==
  /\ lib' = FALSE /\ manager' = FALSE
  /\ faces' = <<>> /\ glyphs' = [p \in FaceBlocks |-> {}]

-----------------------------------------------------------------------------
(* Faces and fonts.                                                        *)

(* face_ref and face_delete, on the faces fs.                              *)
FaceRef(fs, p) == [fs EXCEPT ![p].refcount = @ + 1]

FaceDelete(fs, p) ==
  [fs EXCEPT ![p] = IF fs[p].refcount = 1 THEN NULL
                    ELSE [fs[p] EXCEPT !.refcount = fs[p].refcount - 1]]

(* Mutant: the file name stays when its face is freed.                     *)
NamesAfterKept(fs) == names

(* The names left when the faces become fs: a face owns its file name.     *)
NamesAfter(fs) ==
  names - Cardinality({p \in FaceBlocks : face[p] # NULL /\ fs[p] = NULL})

(* a4f_file_load: a new font x with a new face p.                          *)
Load(file, x, p) ==
  /\ manager /\ font[x] = NULL /\ face[p] = NULL /\ names < MaxNames
  /\ \E found \in Files : LookupFace(p, file, found)
  /\ face' = [face EXCEPT ![p] = [file |-> file, refcount |-> 1]]
  /\ font' = [font EXCEPT ![x] = [face |-> p]]
  /\ names' = names + 1
  /\ UNCHANGED <<libraryVars, glyphs>>

(* The face cannot be opened: everything is given back but the file name.  *)
LoadFails(p) ==
  /\ manager /\ face[p] = NULL /\ Opened(p) = {} /\ names < MaxNames
  /\ RemoveFaceID(p)
  /\ names' = names + 1
  /\ UNCHANGED <<libraryVars, face, font>>

(* Mutant: the copy is not counted.                                        *)
CopyUncounted(x, y) ==
  /\ font[x] # NULL /\ font[y] = NULL
  /\ font' = [font EXCEPT ![y] = font[x]]
  /\ UNCHANGED <<libraryVars, face, names, cacheVars>>

(* a4f_copy.                                                               *)
Copy(x, y) ==
  /\ font[x] # NULL /\ font[y] = NULL
  /\ face' = FaceRef(face, font[x].face)
  /\ font' = [font EXCEPT ![y] = font[x]]
  /\ UNCHANGED <<libraryVars, names, cacheVars>>

(* The faces fs without the reference of the font x, if there is one.      *)
Released(fs, x) == IF x = NULL THEN fs ELSE FaceDelete(fs, font[x].face)

(* a4f_destroy of x and then of y, those that there are.                   *)
Destroy(x, y) ==
  LET left == Released(Released(face, x), y)
  IN /\ face' = left
     /\ font' = [z \in FontBlocks |-> IF z \in {x, y} THEN NULL ELSE font[z]]
     /\ names' = NamesAfter(left)

(* a4f_textout, and the glyphs it leaves in the cache; or a face that was  *)
(* closed and cannot be opened again.                                      *)
Textout(x) ==
  LET p == font[x].face IN
  /\ manager
  /\ \/ \E found \in Files, more \in {TRUE, FALSE} :
          /\ LookupFace(p, face[p].file, found)
          /\ glyphs' = [glyphs EXCEPT ![p] = IF more THEN @ \cup {found} ELSE @]
     \/ Opened(p) = {} /\ UNCHANGED cacheVars
  /\ UNCHANGED <<libraryVars, ownVars>>

-----------------------------------------------------------------------------
(* Properties.                                                             *)

Existing == {x \in FontBlocks : font[x] # NULL}
Sharing(p) == {x \in Existing : font[x].face = p}

(* A face lives exactly as long as a font refers to it, whatever the order *)
(* of loads, copies and destructions: its count is the number of fonts     *)
(* that share it, so no font is left without the face whose name           *)
(* font_loader reads, and no face without a font.                          *)
RefsCounted ==
  /\ \A x \in Existing : face[font[x].face] # NULL
  /\ \A p \in FaceBlocks : face[p] # NULL =>
       face[p].refcount = Cardinality(Sharing(p)) /\ Sharing(p) # {}

LiveFaces == {p \in FaceBlocks : face[p] # NULL}

(* No file name is lost except by a load that fails.                       *)
NamesLostByLoads ==
  [][names' - Cardinality(LiveFaces') > names - Cardinality(LiveFaces)
       => \E p \in FaceBlocks : LoadFails(p)]_fontVars

(* What a font's text is drawn from is the file the font was loaded from,  *)
(* as a4f.h says of a4f_file_load.                                         *)
ShowsItsFile ==
  \A x \in Existing :
    LET p == font[x].face
    IN /\ \A k \in Opened(p) : faces[k].file = face[p].file
       /\ glyphs[p] \subseteq {face[p].file}
=============================================================================
