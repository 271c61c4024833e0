----------------------------- MODULE GuiProofs -----------------------------
(***************************************************************************)
(* The life of the fonts of galcry-gui, for any number of files, blocks    *)
(* and calls of the loop: faces are counted as they are shared, whatever   *)
(* the program made is gone when it exits, and file names are lost only by *)
(* loads that fail.                                                        *)
(***************************************************************************)
EXTENDS Gui, TLAPS, FiniteSetTheorems

FaceRecords == [file : Files, refcount : Nat]
FontRecords == [face : FaceBlocks]

FaceTables == [FaceBlocks -> FaceRecords \cup {NULL}]
FontTables == [FontBlocks -> FontRecords \cup {NULL}]

\* What the variables of a4f.c hold.
FontTypes == face \in FaceTables /\ font \in FontTables /\ names \in Int

-----------------------------------------------------------------------------
(* Counting references, for faces fc and fonts fn.                         *)

Shares(fn, p) == {x \in FontBlocks : fn[x] # NULL /\ fn[x].face = p}

Counts(fc, fn) ==
  /\ \A x \in FontBlocks : fn[x] # NULL => fc[fn[x].face] # NULL
  /\ \A p \in FaceBlocks : fc[p] # NULL =>
       fc[p].refcount = Cardinality(Shares(fn, p)) /\ Shares(fn, p) # {}

\* The property, at the tables of faces and fonts.
LEMMA RefsAreCounts ==
  /\ RefsCounted <=> Counts(face, font)
  /\ RefsCounted' <=> Counts(face', font')
BY DEF RefsCounted, Counts, Shares, Sharing, Existing

\* Sets of fonts and of faces are finite.
LEMMA FiniteBlocks ==
  /\ \A X \in SUBSET FontBlocks : IsFiniteSet(X) /\ Cardinality(X) \in Nat
  /\ \A P \in SUBSET FaceBlocks : IsFiniteSet(P) /\ Cardinality(P) \in Nat
<1>1. IsFiniteSet(FontBlocks) /\ IsFiniteSet(FaceBlocks)
  BY FontsAssumption
<1> QED
  BY <1>1, FS_Subset, FS_CardinalityType

\* a4f_file_load: a new face has the one font that was made for it.
LEMMA LoadCounts ==
  ASSUME NEW fc \in FaceTables, NEW fn \in FontTables, Counts(fc, fn),
         NEW x \in FontBlocks, NEW p \in FaceBlocks, NEW file \in Files,
         fn[x] = NULL, fc[p] = NULL
  PROVE  LET gc == [fc EXCEPT ![p] = [file |-> file, refcount |-> 1]]
             gn == [fn EXCEPT ![x] = [face |-> p]]
         IN  gc \in FaceTables /\ gn \in FontTables /\ Counts(gc, gn) /\ gn[x] # NULL
<1> DEFINE new == [file |-> file, refcount |-> 1]
           owner == [face |-> p]
           gc == [fc EXCEPT ![p] = new]
           gn == [fn EXCEPT ![x] = owner]
<1>1. new \in FaceRecords /\ new.refcount = 1 /\ owner \in FontRecords /\ owner.face = p
  BY DEF FaceRecords, FontRecords
<1>2. new # NULL /\ owner # NULL
  BY <1>1, FontsAssumption DEF FaceRecords, FontRecords
<1> HIDE DEF new, owner
<1>3. /\ gc \in FaceTables /\ gc[p] = new /\ \A q \in FaceBlocks \ {p} : gc[q] = fc[q]
      /\ gn \in FontTables /\ gn[x] = owner /\ \A y \in FontBlocks \ {x} : gn[y] = fn[y]
  BY <1>1 DEF FaceTables, FontTables
<1> HIDE DEF gc, gn
<1>4. Shares(gn, p) = {x}
  <2>1. Shares(fn, p) = {}
    BY DEF Counts, Shares
  <2> QED
    BY <2>1, <1>1, <1>2, <1>3 DEF Shares
<1>5. \A q \in FaceBlocks \ {p} : Shares(gn, q) = Shares(fn, q)
  BY <1>1, <1>2, <1>3 DEF Shares
<1>6. \A y \in FontBlocks : gn[y] # NULL => gc[gn[y].face] # NULL
  <2> TAKE y \in FontBlocks
  <2>1. CASE y = x
    BY <2>1, <1>1, <1>2, <1>3
  <2>2. CASE y # x /\ fn[y] # NULL
    <3>1. fn[y].face \in FaceBlocks /\ fc[fn[y].face] # NULL
      BY <2>2 DEF FontTables, FontRecords, Counts
    <3> QED
      BY <3>1, <2>2, <1>3
  <2> QED
    BY <2>1, <2>2, <1>3
<1>7. \A q \in FaceBlocks : gc[q] # NULL =>
        gc[q].refcount = Cardinality(Shares(gn, q)) /\ Shares(gn, q) # {}
  <2> TAKE q \in FaceBlocks
  <2>1. CASE q = p
    BY <2>1, <1>1, <1>3, <1>4, FS_Singleton
  <2>2. CASE q # p
    BY <2>2, <1>3, <1>5 DEF Counts
  <2> QED
    BY <2>1, <2>2
<1>8. Counts(gc, gn)
  BY <1>6, <1>7 DEF Counts
<1> QED
  BY <1>2, <1>3, <1>8 DEF gc, gn, new, owner

\* a4f_copy: the copy is one more font of the face, and face_ref counts it.
LEMMA CopyCounts ==
  ASSUME NEW fc \in FaceTables, NEW fn \in FontTables, Counts(fc, fn),
         NEW x \in FontBlocks, NEW y \in FontBlocks, fn[x] # NULL, fn[y] = NULL
  PROVE  LET gc == FaceRef(fc, fn[x].face)
             gn == [fn EXCEPT ![y] = fn[x]]
         IN  /\ gc \in FaceTables /\ gn \in FontTables /\ Counts(gc, gn) /\ gn[y] # NULL
             /\ \A q \in FaceBlocks : gc[q] = NULL <=> fc[q] = NULL
<1> DEFINE p == fn[x].face
           more == [fc[p] EXCEPT !.refcount = @ + 1]
           gc == [fc EXCEPT ![p] = more]
           gn == [fn EXCEPT ![y] = fn[x]]
<1>1. p \in FaceBlocks /\ fc[p] # NULL /\ fc[p] \in FaceRecords
  BY DEF FontTables, FontRecords, FaceTables, Counts
<1>2. more \in FaceRecords /\ more.refcount = fc[p].refcount + 1 /\ more # NULL
  BY <1>1, FontsAssumption DEF FaceRecords
<1>3. fn[x].face = p /\ x # y
  OBVIOUS
<1> HIDE DEF more, p
<1>4. /\ gc \in FaceTables /\ gc[p] = more /\ \A q \in FaceBlocks \ {p} : gc[q] = fc[q]
      /\ gn \in FontTables /\ gn[y] = fn[x] /\ \A z \in FontBlocks \ {y} : gn[z] = fn[z]
  BY <1>1, <1>2 DEF FaceTables, FontTables
<1> HIDE DEF gc, gn
<1>5. Shares(gn, p) = Shares(fn, p) \cup {y} /\ y \notin Shares(fn, p)
  BY <1>3, <1>4 DEF Shares
<1>6. Cardinality(Shares(gn, p)) = Cardinality(Shares(fn, p)) + 1
  <2>1. IsFiniteSet(Shares(fn, p))
    BY FiniteBlocks DEF Shares
  <2> QED
    BY <2>1, <1>5, FS_AddElement
<1>7. \A q \in FaceBlocks \ {p} : Shares(gn, q) = Shares(fn, q)
  BY <1>3, <1>4 DEF Shares
<1>8. \A z \in FontBlocks : gn[z] # NULL => gc[gn[z].face] # NULL
  <2> TAKE z \in FontBlocks
  <2>1. CASE z = y
    BY <2>1, <1>2, <1>3, <1>4
  <2>2. CASE z # y /\ fn[z] # NULL
    <3>1. fn[z].face \in FaceBlocks /\ fc[fn[z].face] # NULL
      BY <2>2 DEF FontTables, FontRecords, Counts
    <3> QED
      BY <3>1, <2>2, <1>2, <1>4
  <2> QED
    BY <2>1, <2>2, <1>4
<1>9. \A q \in FaceBlocks : gc[q] # NULL =>
        gc[q].refcount = Cardinality(Shares(gn, q)) /\ Shares(gn, q) # {}
  <2> TAKE q \in FaceBlocks
  <2>1. CASE q = p
    <3>1. fc[p].refcount = Cardinality(Shares(fn, p))
      BY <1>1 DEF Counts
    <3> QED
      BY <2>1, <3>1, <1>2, <1>4, <1>5, <1>6
  <2>2. CASE q # p
    BY <2>2, <1>4, <1>7 DEF Counts
  <2> QED
    BY <2>1, <2>2
<1>10. Counts(gc, gn)
  BY <1>8, <1>9 DEF Counts
<1>11. \A q \in FaceBlocks : gc[q] = NULL <=> fc[q] = NULL
  BY <1>1, <1>2, <1>4
<1>12. gc = FaceRef(fc, p)
  BY DEF FaceRef, gc, more
<1> QED
  BY <1>3, <1>4, <1>10, <1>11, <1>12 DEF gn, p

\* a4f_destroy: one font of the face less; the face goes with its last font.
LEMMA ReleaseCounts ==
  ASSUME NEW fc \in FaceTables, NEW fn \in FontTables, Counts(fc, fn),
         NEW x \in FontBlocks, fn[x] # NULL
  PROVE  LET gc == FaceDelete(fc, fn[x].face)
             gn == [fn EXCEPT ![x] = NULL]
         IN  /\ gc \in FaceTables /\ gn \in FontTables /\ Counts(gc, gn)
             /\ \A q \in FaceBlocks : fc[q] = NULL => gc[q] = NULL
<1> DEFINE p == fn[x].face
           less == IF fc[p].refcount = 1 THEN NULL ELSE [fc[p] EXCEPT !.refcount = @ - 1]
           gc == [fc EXCEPT ![p] = less]
           gn == [fn EXCEPT ![x] = NULL]
<1>1. p \in FaceBlocks /\ fc[p] # NULL /\ fc[p] \in FaceRecords
  BY DEF FontTables, FontRecords, FaceTables, Counts
<1>2. fn[x].face = p
  OBVIOUS
<1>3. /\ fc[p].refcount = Cardinality(Shares(fn, p)) /\ x \in Shares(fn, p)
      /\ IsFiniteSet(Shares(fn, p))
  BY <1>1, <1>2, FiniteBlocks DEF Counts, Shares
<1>4. fc[p].refcount \in Nat \ {0}
  <2>1. Cardinality(Shares(fn, p)) # 0
    BY <1>3, FS_EmptySet
  <2> QED
    BY <1>1, <1>3, <2>1 DEF FaceRecords
<1>5. /\ fc[p].refcount = 1 => less = NULL
      /\ fc[p].refcount # 1 => /\ less \in FaceRecords /\ less # NULL
                               /\ less.refcount = fc[p].refcount - 1
  BY <1>1, <1>4, FontsAssumption DEF FaceRecords
<1> HIDE DEF less, p
<1>6. /\ gc \in FaceTables /\ gc[p] = less /\ \A q \in FaceBlocks \ {p} : gc[q] = fc[q]
      /\ gn \in FontTables /\ gn[x] = NULL /\ \A z \in FontBlocks \ {x} : gn[z] = fn[z]
  BY <1>1, <1>5 DEF FaceTables, FontTables
<1>7. gc = FaceDelete(fc, p)
  BY DEF FaceDelete, gc, less
<1> HIDE DEF gc, gn
<1>8. Shares(gn, p) = Shares(fn, p) \ {x}
  BY <1>6 DEF Shares
<1>9. Cardinality(Shares(gn, p)) = Cardinality(Shares(fn, p)) - 1 /\ IsFiniteSet(Shares(gn, p))
  BY <1>3, <1>8, FS_RemoveElement
<1>10. \A q \in FaceBlocks \ {p} : Shares(gn, q) = Shares(fn, q)
  BY <1>2, <1>6 DEF Shares
<1>11. \A z \in FontBlocks : gn[z] # NULL => gc[gn[z].face] # NULL
  <2> SUFFICES ASSUME NEW z \in FontBlocks, gn[z] # NULL
               PROVE  gc[gn[z].face] # NULL
    OBVIOUS
  <2>1. z # x /\ gn[z] = fn[z] /\ fn[z].face \in FaceBlocks /\ fc[fn[z].face] # NULL
    BY <1>6 DEF FontTables, FontRecords, Counts
  <2>2. CASE fn[z].face = p
    <3>1. z \in Shares(gn, p)
      BY <2>1, <2>2 DEF Shares
    <3>2. Cardinality(Shares(gn, p)) # 0
      BY <3>1, <1>9, FS_EmptySet
    <3> QED
      BY <3>2, <2>1, <2>2, <1>3, <1>4, <1>5, <1>6, <1>9
  <2> QED
    BY <2>1, <2>2, <1>6
<1>12. \A q \in FaceBlocks : gc[q] # NULL =>
         gc[q].refcount = Cardinality(Shares(gn, q)) /\ Shares(gn, q) # {}
  <2> SUFFICES ASSUME NEW q \in FaceBlocks, gc[q] # NULL
               PROVE  gc[q].refcount = Cardinality(Shares(gn, q)) /\ Shares(gn, q) # {}
    OBVIOUS
  <2>1. CASE q = p
    <3>1. fc[p].refcount # 1 /\ gc[p].refcount = fc[p].refcount - 1
      BY <2>1, <1>5, <1>6
    <3>2. Cardinality(Shares(gn, p)) # 0
      BY <3>1, <1>3, <1>4, <1>9
    <3> QED
      BY <2>1, <3>1, <3>2, <1>3, <1>9, FS_EmptySet
  <2>2. CASE q # p
    BY <2>2, <1>6, <1>10 DEF Counts
  <2> QED
    BY <2>1, <2>2
<1>13. \A q \in FaceBlocks : fc[q] = NULL => gc[q] = NULL
  BY <1>1, <1>6
<1>14. Counts(gc, gn)
  BY <1>11, <1>12 DEF Counts
<1> QED
  BY <1>2, <1>6, <1>7, <1>13, <1>14 DEF gn

-----------------------------------------------------------------------------
(* What the operations of a4f.c do to the fonts and their faces.           *)

\* font_load makes one font and one face, and keeps the counts.
LEMMA LoadStep ==
  ASSUME FontTypes, RefsCounted, NEW file \in Files, NEW x \in FontBlocks,
         NEW p \in FaceBlocks, Load(file, x, p)
  PROVE  /\ FontTypes' /\ RefsCounted' /\ font[x] = NULL /\ font'[x] # NULL
         /\ \A y \in FontBlocks \ {x} : font'[y] = font[y]
<1>1. font[x] = NULL /\ face[p] = NULL /\ names' \in Int
  BY DEF Load, FontTypes
<1>2. Counts(face, font)
  BY RefsAreCounts
<1>3. face \in FaceTables /\ font \in FontTables
  BY DEF FontTypes
<1>4. /\ face' = [face EXCEPT ![p] = [file |-> file, refcount |-> 1]]
      /\ font' = [font EXCEPT ![x] = [face |-> p]]
  BY DEF Load
<1>5. face' \in FaceTables /\ font' \in FontTables /\ Counts(face', font') /\ font'[x] # NULL
  BY <1>1, <1>2, <1>3, <1>4, LoadCounts
<1> QED
  BY <1>1, <1>3, <1>4, <1>5, RefsAreCounts DEF FontTypes, FontTables

\* font_copy makes one font of a face that is there, and keeps the counts.
LEMMA CopyStep ==
  ASSUME FontTypes, RefsCounted, NEW x \in FontBlocks, NEW y \in FontBlocks, Copy(x, y)
  PROVE  /\ FontTypes' /\ RefsCounted' /\ font[y] = NULL /\ font'[y] # NULL
         /\ \A z \in FontBlocks \ {y} : font'[z] = font[z]
         /\ \A q \in FaceBlocks : face'[q] = NULL <=> face[q] = NULL
<1>1. font[x] # NULL /\ font[y] = NULL /\ names' = names
  BY DEF Copy
<1>2. Counts(face, font)
  BY RefsAreCounts
<1>3. face \in FaceTables /\ font \in FontTables /\ names \in Int
  BY DEF FontTypes
<1>4. /\ face' = FaceRef(face, font[x].face)
      /\ font' = [font EXCEPT ![y] = font[x]]
  BY DEF Copy
<1>5. /\ face' \in FaceTables /\ font' \in FontTables /\ Counts(face', font') /\ font'[y] # NULL
      /\ \A q \in FaceBlocks : face'[q] = NULL <=> face[q] = NULL
  <2> DEFINE gc == FaceRef(face, font[x].face)
             gn == [font EXCEPT ![y] = font[x]]
  <2>1. /\ gc \in FaceTables /\ gn \in FontTables /\ Counts(gc, gn) /\ gn[y] # NULL
        /\ \A q \in FaceBlocks : gc[q] = NULL <=> face[q] = NULL
    BY <1>1, <1>2, <1>3, CopyCounts
  <2> HIDE DEF gc, gn
  <2>2. face' = gc /\ font' = gn
    BY <1>4 DEF gc, gn
  <2> QED
    BY <2>1, <2>2
<1> QED
  BY <1>1, <1>3, <1>4, <1>5, RefsAreCounts DEF FontTypes, FontTables

\* The two fonts may be missing, one or both, but they are not the same font.
LEMMA DestroyStep ==
  ASSUME FontTypes, RefsCounted,
         NEW x \in FontBlocks \cup {NULL}, NEW y \in FontBlocks \cup {NULL},
         x # NULL => font[x] # NULL, y # NULL => font[y] # NULL, x = y => x = NULL,
         Destroy(x, y)
  PROVE  /\ FontTypes' /\ RefsCounted'
         /\ \A z \in FontBlocks : font'[z] = IF z \in {x, y} THEN NULL ELSE font[z]
         /\ \A q \in FaceBlocks : face[q] = NULL => face'[q] = NULL
         /\ names' = names - Cardinality({q \in FaceBlocks : face[q] # NULL /\ face'[q] = NULL})
<1> DEFINE fc == Released(face, x)
           fn == [z \in FontBlocks |-> IF z = x THEN NULL ELSE font[z]]
           gc == Released(fc, y)
           gn == [z \in FontBlocks |-> IF z \in {x, y} THEN NULL ELSE font[z]]
<1>1. Counts(face, font) /\ face \in FaceTables /\ font \in FontTables /\ names \in Int
  BY RefsAreCounts DEF FontTypes
<1>2. NULL \notin FontBlocks
  BY FontsAssumption
<1>3. /\ fc \in FaceTables /\ fn \in FontTables /\ Counts(fc, fn)
      /\ \A q \in FaceBlocks : face[q] = NULL => fc[q] = NULL
  <2>1. CASE x = NULL
    <3>1. fc = face
      BY <2>1 DEF Released
    <3>2. fn = font
      BY <2>1, <1>1, <1>2 DEF FontTables
    <3> QED
      BY <3>1, <3>2, <1>1
  <2>2. CASE x # NULL
    <3>1. x \in FontBlocks /\ font[x] # NULL
      BY <2>2
    <3>2. fc = FaceDelete(face, font[x].face)
      BY <2>2 DEF Released
    <3>3. fn = [font EXCEPT ![x] = NULL]
      BY <1>1 DEF FontTables
    <3> HIDE DEF fc, fn
    <3> QED
      BY <3>1, <3>2, <3>3, <1>1, ReleaseCounts
  <2> QED
    BY <2>1, <2>2
<1>4. y # NULL => fn[y] = font[y] /\ y \in FontBlocks
  OBVIOUS
<1>5. /\ gc \in FaceTables /\ gn \in FontTables /\ Counts(gc, gn)
      /\ \A q \in FaceBlocks : fc[q] = NULL => gc[q] = NULL
  <2> HIDE DEF fc
  <2>1. CASE y = NULL
    <3>1. gc = fc
      BY <2>1 DEF Released
    <3>2. gn = fn
      BY <2>1, <1>2
    <3> QED
      BY <3>1, <3>2, <1>3
  <2>2. CASE y # NULL
    <3>1. y \in FontBlocks /\ fn[y] # NULL
      BY <2>2, <1>4
    <3>2. gc = FaceDelete(fc, fn[y].face)
      BY <2>2, <1>4 DEF Released
    <3>3. gn = [fn EXCEPT ![y] = NULL]
      OBVIOUS
    <3> HIDE DEF gc, gn, fn
    <3> QED
      BY <3>1, <3>2, <3>3, <1>3, ReleaseCounts
  <2> QED
    BY <2>1, <2>2
<1>6. face' = gc /\ font' = gn /\ names' = NamesAfter(gc)
  BY DEF Destroy
<1>7. \A z \in FontBlocks : font'[z] = IF z \in {x, y} THEN NULL ELSE font[z]
  BY <1>6
<1>8. names' = names - Cardinality({q \in FaceBlocks : face[q] # NULL /\ face'[q] = NULL})
  BY <1>6 DEF NamesAfter
<1>9. names' \in Int
  <2>1. Cardinality({q \in FaceBlocks : face[q] # NULL /\ face'[q] = NULL}) \in Nat
    BY FiniteBlocks
  <2> QED
    BY <1>1, <1>8, <2>1
<1> HIDE DEF fc, gc, gn
<1> QED
  BY <1>3, <1>5, <1>6, <1>7, <1>8, <1>9, RefsAreCounts DEF FontTypes

\* The glyphs and the faces FreeType keeps are none of the counts' business.
LEMMA SameCounts ==
  ASSUME FontTypes, RefsCounted, UNCHANGED <<face, font>>, names' \in Int
  PROVE  FontTypes' /\ RefsCounted'
BY RefsAreCounts DEF FontTypes

-----------------------------------------------------------------------------
(* The program.                                                            *)

\* What main's own fonts are at each place of the program: none before they
\* are loaded, one or two afterwards, never twice the same, and alive until
\* the shutdown, which leaves their pointers behind.
OwnFonts ==
  /\ {FreeSansNormal, FreeSansBig} \subseteq FontBlocks \cup {NULL}
  /\ place \in {"cmdline", "allegro", "fonts", "mode", "load"} =>
       FreeSansNormal = NULL /\ FreeSansBig = NULL
  /\ place = "copy" => FreeSansNormal # NULL /\ FreeSansBig = NULL
  /\ FreeSansNormal = FreeSansBig => FreeSansNormal = NULL
  /\ \A x \in {FreeSansNormal, FreeSansBig} :
       x # NULL => (place = "exited" <=> font[x] = NULL)

\* The library and the strings are there only between their start and exit.
Started ==
  /\ place \in {"cmdline", "allegro", "fonts", "exited"} => ~lib /\ ~manager
  /\ place \in {"cmdline", "exited"} => ~strings

Inv == FontTypes /\ RefsCounted /\ OwnFonts /\ Started

\* The program starts in the invariant.
LEMMA InitInv == GuiInit => Inv
<1> SUFFICES ASSUME GuiInit PROVE Inv
  OBVIOUS
<1>1. FontTypes
  BY DEF GuiInit, FontsInit, FontTypes, FaceTables, FontTables
<1>2. RefsCounted
  BY DEF GuiInit, FontsInit, RefsCounted, Existing
<1>3. OwnFonts /\ Started
  BY DEF GuiInit, FontsInit, OwnFonts, Started
<1> QED
  BY <1>1, <1>2, <1>3 DEF Inv

\* Calls of the loop on fonts that are not main's.
LEMMA ExtraInv == ASSUME Inv, ExtraCall PROVE Inv'
<1> USE DEF Inv
<1>1. place = "loop" /\ UNCHANGED guiVars
  BY DEF ExtraCall
<1>2. UNCHANGED <<place, strings, FreeSansNormal, FreeSansBig>>
  BY <1>1 DEF guiVars
<1>3. Started'
  BY <1>1, <1>2 DEF Started
<1>4. \A x \in {FreeSansNormal, FreeSansBig} : x # NULL => x \in FontBlocks /\ font[x] # NULL
  BY <1>1 DEF OwnFonts
<1>5. ASSUME \A x \in {FreeSansNormal, FreeSansBig} : x # NULL => font'[x] # NULL
      PROVE  OwnFonts'
  BY <1>1, <1>2, <1>5 DEF OwnFonts
<1>6. ASSUME NEW file \in Files, NEW p \in FaceBlocks, NEW x \in FontBlocks, Load(file, x, p)
      PROVE  Inv'
  BY <1>3, <1>4, <1>5, <1>6, LoadStep
<1>7. ASSUME NEW p \in FaceBlocks, LoadFails(p) PROVE Inv'
  <2>1. UNCHANGED <<face, font>> /\ names' \in Int
    BY <1>7 DEF LoadFails, FontTypes
  <2> QED
    BY <2>1, <1>3, <1>4, <1>5, SameCounts
<1>8. ASSUME NEW x \in Existing, NEW y \in FontBlocks, Copy(x, y) PROVE Inv'
  <2>1. x \in FontBlocks
    BY DEF Existing
  <2> QED
    BY <2>1, <1>3, <1>4, <1>5, <1>8, CopyStep
<1>9. ASSUME NEW x \in Others, Destroy(x, NULL) PROVE Inv'
  <2>1. /\ x \in FontBlocks /\ font[x] # NULL /\ x # NULL
        /\ x \notin {FreeSansNormal, FreeSansBig}
    BY FontsAssumption DEF Others, Existing
  <2>2. /\ FontTypes' /\ RefsCounted'
        /\ \A z \in FontBlocks : font'[z] = IF z \in {x, NULL} THEN NULL ELSE font[z]
    BY <1>9, <2>1, DestroyStep
  <2> QED
    BY <2>1, <2>2, <1>3, <1>4, <1>5
<1>10. ASSUME NEW x \in Others, Textout(x) PROVE Inv'
  <2>1. UNCHANGED <<face, font, names>>
    BY <1>10 DEF Textout, ownVars
  <2>2. names' \in Int
    BY <2>1 DEF FontTypes
  <2> QED
    BY <2>1, <2>2, <1>3, <1>4, <1>5, SameCounts
<1> QED
  BY <1>6, <1>7, <1>8, <1>9, <1>10 DEF ExtraCall

\* Every step keeps it.
LEMMA NextInv == Inv /\ [GuiNext]_programVars => Inv'
<1> SUFFICES ASSUME Inv, [GuiNext]_programVars PROVE Inv'
  OBVIOUS
<1> USE DEF Inv, Step
<1>1. ASSUME UNCHANGED ownVars PROVE FontTypes' /\ RefsCounted'
  BY <1>1, SameCounts DEF ownVars, FontTypes
<1>2. ASSUME UNCHANGED ownVars, OwnFonts' /\ Started' PROVE Inv'
  BY <1>1, <1>2
<1>3. UNCHANGED fontVars =>
        UNCHANGED <<lib, manager, face, font, names>> /\ UNCHANGED ownVars
  BY DEF fontVars, libraryVars, ownVars
<1>4. CASE CommandLine
  <2>1. OwnFonts' /\ Started'
    BY <1>3, <1>4 DEF CommandLine, Exit, fontPointers, OwnFonts, Started
  <2> QED
    BY <2>1, <1>2, <1>3, <1>4 DEF CommandLine
<1>5. CASE AllegroInit
  <2>1. OwnFonts' /\ Started'
    BY <1>3, <1>5 DEF AllegroInit, Exit, fontPointers, OwnFonts, Started
  <2> QED
    BY <2>1, <1>2, <1>3, <1>5 DEF AllegroInit
<1>6. CASE FontInit
  <2>1. UNCHANGED ownVars
    BY <1>6 DEF FontInit, A4fInit
  <2>2. OwnFonts' /\ Started'
    BY <1>6, <2>1 DEF FontInit, A4fInit, Exit, fontPointers, ownVars, OwnFonts, Started
  <2> QED
    BY <2>1, <2>2, <1>2
<1>7. CASE SetMode
  <2>1. UNCHANGED ownVars
    BY <1>3, <1>7 DEF SetMode
  <2>2. OwnFonts' /\ Started'
    BY <1>7, <2>1 DEF SetMode, A4fShutdown, Exit, fontPointers, ownVars, OwnFonts, Started
  <2> QED
    BY <2>1, <2>2, <1>2
<1>8. CASE LoadNormal
  <2>1. /\ place = "load" /\ UNCHANGED <<strings, FreeSansBig>>
        /\ FreeSansNormal = NULL /\ FreeSansBig = NULL
    BY <1>8 DEF LoadNormal, OwnFonts
  <2>2. ASSUME NEW x \in FontBlocks, NEW p \in FaceBlocks, place' = "copy",
               Load(FreeSans, x, p), FreeSansNormal' = x
        PROVE  Inv'
    <3>1. FontTypes' /\ RefsCounted' /\ font'[x] # NULL
      BY <2>2, LoadStep, GuiAssumption
    <3>2. x # NULL
      BY FontsAssumption
    <3> QED
      BY <2>1, <2>2, <3>1, <3>2 DEF OwnFonts, Started
  <2>3. ASSUME NEW p \in FaceBlocks, place' = "leave", LoadFails(p), UNCHANGED FreeSansNormal
        PROVE  Inv'
    <3>1. UNCHANGED <<face, font>> /\ names' \in Int
      BY <2>3 DEF LoadFails, FontTypes
    <3>2. OwnFonts' /\ Started'
      BY <2>1, <2>3 DEF OwnFonts, Started
    <3> QED
      BY <3>1, <3>2, SameCounts
  <2>4. ASSUME place' = "leave", UNCHANGED <<fontVars, FreeSansNormal>>
        PROVE  Inv'
    <3>1. OwnFonts' /\ Started'
      BY <2>1, <2>4 DEF OwnFonts, Started
    <3> QED
      BY <3>1, <2>4, <1>2, <1>3
  <2> QED
    BY <2>2, <2>3, <2>4, <1>8 DEF LoadNormal
<1>9. CASE CopyNormal
  <2>1. /\ place = "copy" /\ UNCHANGED <<strings, FreeSansNormal>>
        /\ FreeSansNormal # NULL /\ FreeSansBig = NULL
    BY <1>9 DEF CopyNormal, OwnFonts
  <2>2. ASSUME NEW y \in FontBlocks, place' = "loop", Copy(FreeSansNormal, y), FreeSansBig' = y
        PROVE  Inv'
    <3>1. y # NULL
      BY FontsAssumption
    <3>2. FreeSansNormal \in FontBlocks /\ font[FreeSansNormal] # NULL
      BY <2>1 DEF OwnFonts
    <3>3. /\ FontTypes' /\ RefsCounted' /\ font[y] = NULL /\ font'[y] # NULL
          /\ \A z \in FontBlocks \ {y} : font'[z] = font[z]
      BY <2>2, <3>2, CopyStep
    <3>4. FreeSansNormal # y /\ font'[FreeSansNormal] # NULL
      BY <3>2, <3>3
    <3> QED
      BY <2>1, <2>2, <3>1, <3>2, <3>3, <3>4 DEF OwnFonts, Started
  <2>3. ASSUME place' = "leave", UNCHANGED <<fontVars, FreeSansBig>>
        PROVE  Inv'
    <3>1. OwnFonts' /\ Started'
      BY <2>1, <2>3, <1>3 DEF OwnFonts, Started
    <3> QED
      BY <3>1, <2>3, <1>2, <1>3
  <2> QED
    BY <2>2, <2>3, <1>9 DEF CopyNormal
<1>10. CASE RefreshNormal \/ RefreshBig
  <2>1. UNCHANGED ownVars /\ UNCHANGED libraryVars
    BY <1>10 DEF RefreshNormal, RefreshBig, Textout
  <2>2. OwnFonts' /\ Started'
    BY <1>10, <2>1 DEF RefreshNormal, RefreshBig, fontPointers, ownVars, libraryVars,
                       OwnFonts, Started
  <2> QED
    BY <2>1, <2>2, <1>2
<1>11. CASE ExtraCall
  BY <1>11, ExtraInv
<1>12. CASE LeaveLoop
  <2>1. OwnFonts' /\ Started'
    BY <1>3, <1>12 DEF LeaveLoop, fontPointers, OwnFonts, Started
  <2> QED
    BY <2>1, <1>2, <1>3, <1>12 DEF LeaveLoop
<1>13. CASE GuiShutdown
  <2>1. /\ place = "leave" /\ place' = "exited" /\ ~lib' /\ ~manager' /\ ~strings'
        /\ UNCHANGED fontPointers /\ Destroy(FreeSansNormal, FreeSansBig)
    BY <1>13 DEF GuiShutdown, Exit, A4fShutdown
  <2>2. \A x \in {FreeSansNormal, FreeSansBig} :
          x \in FontBlocks \cup {NULL} /\ (x # NULL => font[x] # NULL)
    BY <2>1 DEF OwnFonts
  <2>3. FreeSansNormal = FreeSansBig => FreeSansNormal = NULL
    BY DEF OwnFonts
  <2>4. /\ FontTypes' /\ RefsCounted'
        /\ \A z \in FontBlocks :
             font'[z] = IF z \in {FreeSansNormal, FreeSansBig} THEN NULL ELSE font[z]
    BY <2>1, <2>2, <2>3, DestroyStep
  <2> QED
    BY <2>1, <2>2, <2>4 DEF OwnFonts, Started, fontPointers
<1>14. CASE UNCHANGED programVars
  <2>1. UNCHANGED fontVars /\ UNCHANGED <<place, strings, FreeSansNormal, FreeSansBig>>
    BY <1>14 DEF programVars, guiVars
  <2>2. OwnFonts' /\ Started'
    BY <1>3, <2>1 DEF OwnFonts, Started
  <2> QED
    BY <2>1, <2>2, <1>2, <1>3
<1> QED
  BY <1>4, <1>5, <1>6, <1>7, <1>8, <1>9, <1>10, <1>11, <1>12, <1>13, <1>14 DEF GuiNext, Exited

\* The invariant holds of every run.
LEMMA Invariant == GuiSpec => []Inv
BY InitInv, NextInv, PTL DEF GuiSpec

\* A face of a4f.c lives exactly as long as a font refers to it, and its count
\* is the number of fonts that share it.
THEOREM FacesCounted == GuiSpec => []RefsCounted
<1>1. Inv => RefsCounted
  BY DEF Inv
<1> QED
  BY <1>1, Invariant, PTL

\* No more faces live than fonts: each has one of its own.
LEMMA FewFaces ==
  ASSUME FontTypes, RefsCounted
  PROVE  Cardinality(LiveFaces) <= Cardinality(Existing)
<1> DEFINE f == [x \in Existing |-> font[x].face]
<1>1. \A x \in Existing : font[x].face \in LiveFaces
  BY DEF FontTypes, FontTables, FontRecords, Existing, LiveFaces, RefsCounted
<1>2. \A p \in LiveFaces : \E x \in Existing : font[x].face = p
  BY DEF LiveFaces, RefsCounted, Sharing
<1>3. f \in Surjection(Existing, LiveFaces)
  BY <1>1, <1>2 DEF Surjection
<1>4. IsFiniteSet(Existing)
  BY FiniteBlocks DEF Existing
<1> QED
  BY <1>3, <1>4, FS_Surjection

\* By whichever way the program ends, what it made is gone: the library, the
\* strings, its own fonts, and the faces but for those of others' fonts.
THEOREM NothingLeft == GuiSpec => []LeavesNothing
<1>1. Inv => LeavesNothing
  <2> SUFFICES ASSUME Inv, place = "exited"
               PROVE  /\ ~lib /\ ~manager /\ ~strings
                      /\ Existing \cap {FreeSansNormal, FreeSansBig} = {}
                      /\ Cardinality(LiveFaces) <= Cardinality(Existing)
    BY DEF LeavesNothing
  <2>1. ~lib /\ ~manager /\ ~strings
    BY DEF Inv, Started
  <2>2. Existing \cap {FreeSansNormal, FreeSansBig} = {}
    BY FontsAssumption DEF Inv, OwnFonts, Existing
  <2> QED
    BY <2>1, <2>2, FewFaces DEF Inv
<1> QED
  BY <1>1, Invariant, PTL

\* The names allocated and not owned by a face grow in no step but a load that
\* fails.
LEMMA NamesStep ==
  ASSUME Inv, GuiNext,
         names' - Cardinality(LiveFaces') > names - Cardinality(LiveFaces)
  PROVE  \E p \in FaceBlocks : LoadFails(p)
<1> DEFINE Owned == Cardinality(LiveFaces)
<1>1. /\ names \in Int /\ Owned \in Nat /\ IsFiniteSet(LiveFaces)
      /\ FontTypes /\ RefsCounted /\ font \in FontTables
  BY FiniteBlocks DEF LiveFaces, Inv, FontTypes
<1>2. ASSUME UNCHANGED <<face, names>> PROVE FALSE
  BY <1>1, <1>2 DEF LiveFaces
<1>3. ASSUME UNCHANGED ownVars \/ UNCHANGED fontVars PROVE FALSE
  BY <1>2, <1>3 DEF ownVars, fontVars
<1>4. ASSUME NEW file \in Files, NEW x \in FontBlocks, NEW p \in FaceBlocks, Load(file, x, p)
      PROVE  FALSE
  <2> DEFINE new == [file |-> file, refcount |-> 1]
  <2>1. /\ names' = names + 1 /\ face[p] = NULL /\ face \in FaceTables
        /\ face' = [face EXCEPT ![p] = new]
    BY <1>1, <1>4 DEF Load, FontTypes
  <2>2. new # NULL
    BY FontsAssumption
  <2> HIDE DEF new
  <2>3. LiveFaces' = LiveFaces \cup {p} /\ p \notin LiveFaces
    BY <2>1, <2>2 DEF LiveFaces, FaceTables
  <2>4. Cardinality(LiveFaces') = Owned + 1
    BY <2>3, <1>1, FS_AddElement
  <2> QED
    BY <2>1, <2>4, <1>1
<1>5. ASSUME NEW x \in FontBlocks, NEW y \in FontBlocks, Copy(x, y) PROVE FALSE
  <2>1. \A q \in FaceBlocks : face'[q] = NULL <=> face[q] = NULL
    BY <1>1, <1>5, CopyStep
  <2>2. LiveFaces' = LiveFaces /\ names' = names
    BY <2>1, <1>5 DEF LiveFaces, Copy
  <2> QED
    BY <2>2, <1>1
<1>6. ASSUME NEW x \in FontBlocks \cup {NULL}, NEW y \in FontBlocks \cup {NULL},
             x # NULL => font[x] # NULL, y # NULL => font[y] # NULL, x = y => x = NULL,
             Destroy(x, y)
      PROVE  FALSE
  <2> DEFINE gone == {q \in FaceBlocks : face[q] # NULL /\ face'[q] = NULL}
  <2>1. /\ \A q \in FaceBlocks : face[q] = NULL => face'[q] = NULL
        /\ names' = names - Cardinality(gone)
    BY <1>1, <1>6, DestroyStep
  <2>2. LiveFaces' = LiveFaces \ gone /\ LiveFaces \cap gone = gone
    BY <2>1 DEF LiveFaces
  <2> HIDE DEF gone
  <2>3. Cardinality(LiveFaces') = Cardinality(LiveFaces) - Cardinality(gone)
    BY <2>2, <1>1, FS_Difference
  <2>4. IsFiniteSet(gone)
    BY <2>2, <1>1, FS_Intersection
  <2>5. Cardinality(gone) \in Nat
    BY <2>4, FS_CardinalityType
  <2> QED
    BY <2>1, <2>3, <2>5, <1>1
<1>7. CASE CommandLine \/ AllegroInit \/ SetMode \/ LeaveLoop \/ Exited
  BY <1>3, <1>7 DEF CommandLine, AllegroInit, SetMode, LeaveLoop, Exited, programVars
<1>8. CASE FontInit \/ RefreshNormal \/ RefreshBig
  BY <1>3, <1>8 DEF FontInit, A4fInit, RefreshNormal, RefreshBig, Textout
<1>9. CASE LoadNormal
  BY <1>3, <1>4, <1>9, GuiAssumption DEF LoadNormal
<1>10. CASE CopyNormal
  <2>1. place = "copy" => FreeSansNormal \in FontBlocks
    BY DEF Inv, OwnFonts
  <2> QED
    BY <2>1, <1>3, <1>5, <1>10 DEF CopyNormal, Step
<1>11. CASE ExtraCall
  <2>1. ASSUME NEW x \in Others PROVE x \in FontBlocks /\ font[x] # NULL /\ x # NULL
    BY FontsAssumption DEF Others, Existing
  <2>2. \A x \in Others : ~Destroy(x, NULL)
    BY <2>1, <1>6
  <2>3. \A x \in Others : ~Textout(x)
    BY <1>3 DEF Textout
  <2>4. \A x \in Existing, y \in FontBlocks : ~Copy(x, y)
    BY <1>5 DEF Existing
  <2> QED
    BY <2>2, <2>3, <2>4, <1>4, <1>11 DEF ExtraCall
<1>12. CASE GuiShutdown
  <2>1. place = "leave" /\ Destroy(FreeSansNormal, FreeSansBig)
    BY <1>12 DEF GuiShutdown, Exit, Step
  <2>2. /\ FreeSansNormal \in FontBlocks \cup {NULL} /\ FreeSansBig \in FontBlocks \cup {NULL}
        /\ FreeSansNormal # NULL => font[FreeSansNormal] # NULL
        /\ FreeSansBig # NULL => font[FreeSansBig] # NULL
        /\ FreeSansNormal = FreeSansBig => FreeSansNormal = NULL
    BY <2>1 DEF Inv, OwnFonts
  <2> QED
    BY <2>1, <2>2, <1>6
<1> QED
  BY <1>7, <1>8, <1>9, <1>10, <1>11, <1>12 DEF GuiNext

\* In every run a file name is lost only by a load that fails.
THEOREM NamesKept == GuiSpec => NamesLostByLoads
<1>1. Inv /\ [GuiNext]_programVars =>
        [names' - Cardinality(LiveFaces') > names - Cardinality(LiveFaces)
           => \E p \in FaceBlocks : LoadFails(p)]_fontVars
  <2>1. UNCHANGED programVars => UNCHANGED fontVars
    BY DEF programVars
  <2> QED
    BY <2>1, NamesStep
<1> QED
  BY <1>1, Invariant, PTL DEF GuiSpec, NamesLostByLoads
=============================================================================
