----------------------------- MODULE FontFaces -----------------------------
(***************************************************************************)
(* Who keeps a FreeType face alive: ffi/freetype.lua, which makes faces    *)
(* and sizes, and xtext.cpp, which shares a size with HarfBuzz.  The Lua   *)
(* objects (a cdata for each face and size, a userdata for the HarfBuzz    *)
(* data of a font) hold references of FreeType's objects and give them     *)
(* back in their finalizers, which the collector runs in any order.        *)
(*                                                                         *)
(* A size stands for the font of the front end that was made with it: its  *)
(* table holds the size's cdata and the HarfBuzz userdata.  A FreeType     *)
(* object is destroyed when its count falls to 0.                          *)
(* X_... before X is a variant of X with a plausible bug.                  *)
(***************************************************************************)
EXTENDS Integers, FiniteSets

CONSTANTS
  Files,   \* the cache keys, filename:faceindex
  Faces,   \* bound: faces that exist at the same time
  Sizes,   \* bound: sizes that exist at the same time
  MaxLibrary, \* bound: references of the library when a font is made
  Nothing  \* no face

ASSUME ResourcesAssumption ==
  /\ IsFiniteSet(Faces) /\ IsFiniteSet(Sizes) /\ Nothing \notin Faces
  /\ MaxLibrary \in Nat

VARIABLES
  library,      \* the references of the FT_Library
  face_refs,    \* the references of each FT_Face
  size_refs,    \* the counter that size.generic.data points to
  size_face,    \* size.face
  libraryBox,   \* is the finalizer of the library's cdata still to run
  faceBox,      \* the face's cdata: "none", "live", or "dead" with its
                \* finalizer still to run
  sizeBox,      \* is the finalizer of the size's cdata still to run
  hbBox,        \* the same for the font's _hb_font_data
  faces_cache,  \* weak values
  fonts,        \* the fonts the front end holds
  exiting       \* the Lua state is being closed

vars == <<library, face_refs, size_refs, size_face, libraryBox, faceBox,
          sizeBox, hbBox, faces_cache, fonts, exiting>>

TypeOK ==
  /\ library \in Nat /\ face_refs \in [Faces -> Nat] /\ size_refs \in [Sizes -> Nat]
  /\ size_face \in [Sizes -> Faces \cup {Nothing}]
  /\ libraryBox \in BOOLEAN /\ faceBox \in [Faces -> {"none", "live", "dead"}]
  /\ sizeBox \in [Sizes -> BOOLEAN] /\ hbBox \in [Sizes -> BOOLEAN]
  /\ faces_cache \in [Files -> Faces \cup {Nothing}]
  /\ fonts \subseteq Sizes /\ exiting \in BOOLEAN

Init ==
  /\ library = 1 /\ libraryBox = TRUE
  /\ face_refs = [f \in Faces |-> 0] /\ faceBox = [f \in Faces |-> "none"]
  /\ size_refs = [s \in Sizes |-> 0] /\ sizeBox = [s \in Sizes |-> FALSE]
  /\ size_face = [s \in Sizes |-> Nothing] /\ hbBox = [s \in Sizes |-> FALSE]
  /\ faces_cache = [k \in Files |-> Nothing]
  /\ fonts = {} /\ exiting = FALSE

IsNewFace(f) == faceBox[f] = "none" /\ face_refs[f] = 0
IsNewSize(s) == ~sizeBox[s] /\ ~hbBox[s] /\ size_refs[s] = 0 /\ s \notin fonts

-----------------------------------------------------------------------------
(* Making fonts.                                                           *)

\* The face of newFaceSize: the cached one, or a new one and its references.
FaceFor(k, f) == IF faces_cache[k] = Nothing THEN IsNewFace(f) ELSE f = faces_cache[k]
MadeFace(k)   == IF faces_cache[k] = Nothing THEN 1 ELSE 0

\* newFaceSize, the size made and activated.
newFaceSize(k, f, s) ==
  /\ ~exiting /\ FaceFor(k, f) /\ IsNewSize(s) /\ library < MaxLibrary
  /\ library' = library + MadeFace(k) + 1
  /\ face_refs' = [face_refs EXCEPT ![f] = @ + MadeFace(k) + 1]
  /\ faceBox' = [faceBox EXCEPT ![f] = "live"]
  /\ faces_cache' = [faces_cache EXCEPT ![k] = f]
  /\ size_refs' = [size_refs EXCEPT ![s] = 1]
  /\ size_face' = [size_face EXCEPT ![s] = f]
  /\ sizeBox' = [sizeBox EXCEPT ![s] = TRUE]
  /\ fonts' = fonts \cup {s}
  /\ UNCHANGED <<libraryBox, hbBox, exiting>>

\* newFaceSize when the size cannot be made or scaled: what new_size took is
\* given back, and the face stays for the collector.
newFaceSizeFails(k, f) ==
  /\ ~exiting /\ faces_cache[k] = Nothing /\ IsNewFace(f) /\ library < MaxLibrary
  /\ library' = library + 1
  /\ face_refs' = [face_refs EXCEPT ![f] = 1]
  /\ faceBox' = [faceBox EXCEPT ![f] = "live"]
  /\ faces_cache' = [faces_cache EXCEPT ![k] = f]
  /\ UNCHANGED <<size_refs, size_face, libraryBox, sizeBox, hbBox, fonts, exiting>>

X_HbData_Unshared(s) ==
  /\ s \in fonts /\ sizeBox[s] /\ ~hbBox[s]
  /\ library' = library + 1
  /\ face_refs' = [face_refs EXCEPT ![size_face[s]] = @ + 1]
  /\ hbBox' = [hbBox EXCEPT ![s] = TRUE]
  /\ UNCHANGED <<size_refs, size_face, libraryBox, faceBox, sizeBox, faces_cache,
                 fonts, exiting>>

\* The first text measured with a font: its size, the library and, through
\* hb_font, its face are shared with HarfBuzz.
getHbFontData(s) ==
  /\ s \in fonts /\ sizeBox[s] /\ ~hbBox[s]
  /\ size_refs' = [size_refs EXCEPT ![s] = @ + 1]
  /\ library' = library + 1
  /\ face_refs' = [face_refs EXCEPT ![size_face[s]] = @ + 1]
  /\ hbBox' = [hbBox EXCEPT ![s] = TRUE]
  /\ UNCHANGED <<size_face, libraryBox, faceBox, sizeBox, faces_cache, fonts, exiting>>

-----------------------------------------------------------------------------
(* Giving them back.                                                       *)

X_done_size_Always(s) ==
  /\ sizeBox' = [sizeBox EXCEPT ![s] = FALSE]
  /\ size_refs' = [size_refs EXCEPT ![s] = @ - 1]
  /\ face_refs' = [face_refs EXCEPT ![size_face[s]] = @ - 1]
  /\ library' = library - 1
  /\ size_face' = [size_face EXCEPT ![s] = IF size_refs[s] = 1 THEN Nothing ELSE @]
  /\ UNCHANGED <<libraryBox, faceBox, hbBox, faces_cache, exiting>>

\* done_size: only the last holder of the size releases it, and what it holds.
done_size(s) ==
  /\ sizeBox' = [sizeBox EXCEPT ![s] = FALSE]
  /\ size_refs' = [size_refs EXCEPT ![s] = @ - 1]
  /\ IF size_refs[s] > 1
     THEN UNCHANGED <<library, face_refs, size_face>>
     ELSE /\ face_refs' = [face_refs EXCEPT ![size_face[s]] = @ - 1]
          /\ library' = library - 1
          /\ size_face' = [size_face EXCEPT ![s] = Nothing]
  /\ UNCHANGED <<libraryBox, faceBox, hbBox, faces_cache, exiting>>

\* The front end is done with a font: it says so, or just drops the table.
Done(s) == s \in fonts /\ sizeBox[s] /\ done_size(s) /\ fonts' = fonts \ {s}

Drop(s) ==
  /\ s \in fonts /\ fonts' = fonts \ {s}
  /\ UNCHANGED <<library, face_refs, size_refs, size_face, libraryBox, faceBox,
                 sizeBox, hbBox, faces_cache, exiting>>

\* The collector finds a face's cdata, which only the weak cache refers to
\* outside newFaceSize, and the cache forgets it.
CollectFace(f) ==
  /\ faceBox[f] = "live"
  /\ faceBox' = [faceBox EXCEPT ![f] = "dead"]
  /\ faces_cache' = [k \in Files |-> IF faces_cache[k] = f THEN Nothing ELSE faces_cache[k]]
  /\ UNCHANGED <<library, face_refs, size_refs, size_face, libraryBox, sizeBox,
                 hbBox, fonts, exiting>>

done_face(f) ==
  /\ faceBox[f] = "dead"
  /\ faceBox' = [faceBox EXCEPT ![f] = "none"]
  /\ face_refs' = [face_refs EXCEPT ![f] = @ - 1]
  /\ library' = library - 1
  /\ UNCHANGED <<size_refs, size_face, libraryBox, sizeBox, hbBox, faces_cache,
                 fonts, exiting>>

FinalizeSize(s) == sizeBox[s] /\ s \notin fonts /\ done_size(s) /\ UNCHANGED fonts

X_hb_font_data_destroy_Leaves(s) ==
  /\ hbBox[s] /\ s \notin fonts
  /\ hbBox' = [hbBox EXCEPT ![s] = FALSE]
  /\ size_refs' = [size_refs EXCEPT ![s] = @ - 1]
  /\ size_face' = [size_face EXCEPT ![s] = IF size_refs[s] = 1 THEN Nothing ELSE @]
  /\ face_refs' = [face_refs EXCEPT ![size_face[s]] = @ - 1]
  /\ library' = library - 1
  /\ UNCHANGED <<libraryBox, faceBox, sizeBox, faces_cache, fonts, exiting>>

\* The finalizer of the HarfBuzz data: HarfBuzz's reference of the face, the
\* size if this is its last holder, and one reference of the library.
xtext_hb_font_data_destroy(s) ==
  /\ hbBox[s] /\ s \notin fonts
  /\ hbBox' = [hbBox EXCEPT ![s] = FALSE]
  /\ size_refs' = [size_refs EXCEPT ![s] = @ - 1]
  /\ size_face' = [size_face EXCEPT ![s] = IF size_refs[s] = 1 THEN Nothing ELSE @]
  /\ face_refs' = [face_refs EXCEPT ![size_face[s]] = @ - (IF size_refs[s] = 1 THEN 2 ELSE 1)]
  /\ library' = library - 1
  /\ UNCHANGED <<libraryBox, faceBox, sizeBox, faces_cache, fonts, exiting>>

\* lua_close: nothing is held any more, and every finalizer runs.
Exit ==
  /\ ~exiting /\ exiting' = TRUE /\ fonts' = {}
  /\ UNCHANGED <<library, face_refs, size_refs, size_face, libraryBox, faceBox,
                 sizeBox, hbBox, faces_cache>>

FinalizeLibrary ==
  /\ exiting /\ libraryBox
  /\ libraryBox' = FALSE /\ library' = library - 1
  /\ UNCHANGED <<face_refs, size_refs, size_face, faceBox, sizeBox, hbBox,
                 faces_cache, fonts, exiting>>

Collect ==
  \/ \E f \in Faces : CollectFace(f) \/ done_face(f)
  \/ \E s \in Sizes : FinalizeSize(s) \/ xtext_hb_font_data_destroy(s)
  \/ FinalizeLibrary

Next ==
  \/ \E k \in Files, f \in Faces :
       newFaceSizeFails(k, f) \/ \E s \in Sizes : newFaceSize(k, f, s)
  \/ \E s \in Sizes : getHbFontData(s) \/ Done(s) \/ Drop(s)
  \/ Exit
  \/ Collect

\* The collector finishes its cycles, and lua_close runs what is left.
Fairness ==
  /\ \A f \in Faces : WF_vars(CollectFace(f)) /\ WF_vars(done_face(f))
  /\ \A s \in Sizes : WF_vars(FinalizeSize(s)) /\ WF_vars(xtext_hb_font_data_destroy(s))
  /\ WF_vars(FinalizeLibrary)

Spec == Init /\ [][Next]_vars /\ Fairness

-----------------------------------------------------------------------------
(* Properties.                                                             *)

\* The sizes that keep face f, and those whose HarfBuzz font keeps it too.
SizesOf(f)   == {s \in Sizes : size_face[s] = f}
HbFontsOf(f) == {s \in SizesOf(f) : hbBox[s]}

Box(b) == IF b THEN 1 ELSE 0

\* Every count is the number of those who will give a reference back: one
\* too few frees an object in use, one too many keeps it for ever.
CountsExact ==
  /\ TypeOK
  /\ \A s \in Sizes : size_refs[s] = Box(sizeBox[s]) + Box(hbBox[s])
  /\ \A f \in Faces :
       face_refs[f] = Box(faceBox[f] # "none") + Cardinality(SizesOf(f))
                      + Cardinality(HbFontsOf(f))

\* Whatever order the finalizers run in, those still to run find what they
\* release: a size that either holder has still to give back exists, with its
\* face, and the library outlives every face and size.
NothingFreedInUse ==
  /\ \A s \in Sizes : sizeBox[s] \/ hbBox[s] =>
       size_refs[s] > 0 /\ size_face[s] # Nothing /\ face_refs[size_face[s]] > 0
  /\ \A f \in Faces : faceBox[f] # "none" \/ f \in {faces_cache[k] : k \in Files} =>
       face_refs[f] > 0
  /\ libraryBox \/ (\E f \in Faces : face_refs[f] > 0) => library > 0

\* A font given up is eventually freed, by whichever holder is last; at exit
\* no face remains.
FontsReleased ==
  /\ \A s \in Sizes : []<>(size_refs[s] = 0 \/ s \in fonts)
  /\ \A f \in Faces : exiting ~> face_refs[f] = 0
=============================================================================
