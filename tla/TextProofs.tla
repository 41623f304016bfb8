----------------------------- MODULE TextProofs -----------------------------
(***************************************************************************)
(* The theorems about text: the counts of references of the fonts, for any *)
(* files, faces and sizes; for any measured text and any request, the      *)
(* lines that makeLine returns, the end of the text that fits and the      *)
(* words that are selected; and, for any text and any fallback fonts, that *)
(* measure leaves such a text and that a line is drawn as wide as it was   *)
(* measured, although the two walk the fonts by different loops.           *)
(***************************************************************************)
EXTENDS FontFaces, XText, FiniteSetTheorems, WellFoundedInduction,
        NaturalsInduction, TLAPS

-----------------------------------------------------------------------------
(* Font faces: the counts of references.                                   *)

\* The faces whose cdata has a reference to give back, the sizes that keep
\* their face, and the fonts that HarfBuzz has data of.
Boxed == {f \in Faces : faceBox[f] # "none"}
Held  == {s \in Sizes : size_face[s] # Nothing}
WithHb == {s \in Sizes : hbBox[s]}

\* A size has a face as long as one of its two holders is left.
SizesCounted ==
  \A s \in Sizes : /\ size_refs[s] = Box(sizeBox[s]) + Box(hbBox[s])
                   /\ size_face[s] # Nothing <=> sizeBox[s] \/ hbBox[s]

FacesCounted ==
  \A f \in Faces :
    face_refs[f] = Box(faceBox[f] # "none") + Cardinality(SizesOf(f))
                   + Cardinality(HbFontsOf(f))

\* The weak cache knows no face whose cdata is dead.
CacheIsLive == \A k \in Files : faces_cache[k] # Nothing => faceBox[faces_cache[k]] = "live"

\* The library has a reference for each who will give one back, or more.
LibraryCounted ==
  library >= Box(libraryBox) + Cardinality(Boxed) + Cardinality(Held)
             + Cardinality(WithHb)

FontsInv == TypeOK /\ SizesCounted /\ FacesCounted /\ CacheIsLive /\ LibraryCounted

LEMMA CardAdds ==
  ASSUME NEW S, IsFiniteSet(S), NEW x, x \notin S
  PROVE  IsFiniteSet(S \cup {x}) /\ Cardinality(S \cup {x}) = Cardinality(S) + 1
BY FS_AddElement

LEMMA CardRemoves ==
  ASSUME NEW S, IsFiniteSet(S), NEW x, x \in S
  PROVE  IsFiniteSet(S \ {x}) /\ Cardinality(S \ {x}) = Cardinality(S) - 1
BY FS_RemoveElement

\* The sets counted are finite, in this state and the next.
LEMMA CountedAreFinite ==
  /\ IsFiniteSet(Boxed) /\ Cardinality(Boxed) \in Nat
  /\ IsFiniteSet(Held) /\ Cardinality(Held) \in Nat
  /\ IsFiniteSet(WithHb) /\ Cardinality(WithHb) \in Nat
  /\ \A f : /\ IsFiniteSet(SizesOf(f)) /\ Cardinality(SizesOf(f)) \in Nat
            /\ IsFiniteSet(HbFontsOf(f)) /\ Cardinality(HbFontsOf(f)) \in Nat
<1>1. IsFiniteSet(Faces) /\ IsFiniteSet(Sizes) BY ResourcesAssumption
<1>2. \A f : SizesOf(f) \subseteq Sizes /\ HbFontsOf(f) \subseteq Sizes
  BY DEF SizesOf, HbFontsOf
<1>3. Boxed \subseteq Faces /\ Held \subseteq Sizes /\ WithHb \subseteq Sizes
  BY DEF Boxed, Held, WithHb
<1> QED BY <1>1, <1>2, <1>3, FS_Subset, FS_CardinalityType

LEMMA FontsInitially == Init => FontsInv
<1> SUFFICES ASSUME Init PROVE FontsInv OBVIOUS
<1>1. TypeOK BY DEF Init, TypeOK
<1>2. Boxed = {} /\ Held = {} /\ WithHb = {} BY DEF Init, Boxed, Held, WithHb
<1>3. \A f \in Faces : SizesOf(f) = {} /\ HbFontsOf(f) = {}
  BY ResourcesAssumption DEF Init, SizesOf, HbFontsOf
<1>4. Cardinality({}) = 0 BY FS_EmptySet
<1> QED BY <1>1, <1>2, <1>3, <1>4 DEF Init, FontsInv, SizesCounted, FacesCounted,
        CacheIsLive, LibraryCounted, Box

\* A size takes a face, and gives it back.
LEMMA FaceTaken ==
  ASSUME TypeOK, NEW s \in Sizes, NEW f \in Faces, size_face[s] = Nothing,
         size_face' = [size_face EXCEPT ![s] = f]
  PROVE  /\ Held' = Held \cup {s} /\ s \notin Held
         /\ SizesOf(f)' = SizesOf(f) \cup {s} /\ s \notin SizesOf(f)
         /\ \A g \in Faces \ {f} : SizesOf(g)' = SizesOf(g)
<1>1. f # Nothing BY ResourcesAssumption
<1>2. \A t \in Sizes : size_face'[t] = IF t = s THEN f ELSE size_face[t] BY DEF TypeOK
<1>3. Held' = Held \cup {s} /\ s \notin Held BY <1>1, <1>2 DEF Held
<1>4. SizesOf(f)' = SizesOf(f) \cup {s} BY <1>2 DEF SizesOf
<1>5. s \notin SizesOf(f) BY <1>1 DEF SizesOf
<1>6. \A g \in Faces \ {f} : SizesOf(g)' = SizesOf(g)
  <2> TAKE g \in Faces \ {f}
  <2>1. g # Nothing /\ g # f BY ResourcesAssumption
  <2> QED BY <1>2, <2>1 DEF SizesOf
<1> QED BY <1>3, <1>4, <1>5, <1>6

LEMMA FaceReleased ==
  ASSUME TypeOK, NEW s \in Sizes, NEW f \in Faces, size_face[s] = f,
         size_face' = [size_face EXCEPT ![s] = Nothing]
  PROVE  /\ Held' = Held \ {s} /\ s \in Held
         /\ SizesOf(f)' = SizesOf(f) \ {s} /\ s \in SizesOf(f)
         /\ \A g \in Faces \ {f} : SizesOf(g)' = SizesOf(g)
<1>1. \A t \in Sizes : size_face'[t] = IF t = s THEN Nothing ELSE size_face[t] BY DEF TypeOK
<1>2. f # Nothing BY ResourcesAssumption
<1>3. Held' = Held \ {s} /\ s \in Held BY <1>1, <1>2 DEF Held
<1>4. SizesOf(f)' = SizesOf(f) \ {s} BY <1>1, <1>2 DEF SizesOf
<1>5. s \in SizesOf(f) BY DEF SizesOf
<1>6. \A g \in Faces \ {f} : SizesOf(g)' = SizesOf(g)
  <2> TAKE g \in Faces \ {f}
  <2>1. g # Nothing /\ g # f BY ResourcesAssumption
  <2> QED BY <1>1, <2>1 DEF SizesOf
<1> QED BY <1>3, <1>4, <1>5, <1>6

\* A font is made, of a face that is cached or new.
LEMMA newFaceSizeKeeps ==
  ASSUME FontsInv, NEW k \in Files, NEW f \in Faces, NEW s \in Sizes, newFaceSize(k, f, s)
  PROVE  FontsInv'
<1>1. TypeOK /\ SizesCounted /\ FacesCounted /\ CacheIsLive /\ LibraryCounted
  BY DEF FontsInv
<1>2. ~sizeBox[s] /\ ~hbBox[s] /\ size_face[s] = Nothing
  BY <1>1 DEF newFaceSize, IsNewSize, SizesCounted
<1>3. f # Nothing /\ IsFiniteSet(Sizes) BY ResourcesAssumption
<1>4. MadeFace(k) \in {0, 1} BY DEF MadeFace
<1>5. TypeOK' BY <1>1, <1>4 DEF newFaceSize, TypeOK
<1>6. SizesCounted'
  BY <1>1, <1>2, <1>3 DEF newFaceSize, SizesCounted, TypeOK, Box
<1>7. /\ MadeFace(k) = 0 => faceBox[f] = "live" /\ Boxed' = Boxed
      /\ MadeFace(k) = 1 => faceBox[f] = "none" /\ Boxed' = Boxed \cup {f} /\ f \notin Boxed
  BY <1>1 DEF newFaceSize, FaceFor, MadeFace, IsNewFace, CacheIsLive, TypeOK, Boxed
<1>8. /\ Held' = Held \cup {s} /\ s \notin Held /\ WithHb' = WithHb
      /\ SizesOf(f)' = SizesOf(f) \cup {s} /\ s \notin SizesOf(f)
      /\ \A g \in Faces \ {f} : SizesOf(g)' = SizesOf(g)
      /\ \A g \in Faces : HbFontsOf(g)' = HbFontsOf(g)
  <2>1. size_face' = [size_face EXCEPT ![s] = f] /\ hbBox' = hbBox BY DEF newFaceSize
  <2>2. WithHb' = WithHb BY <2>1 DEF WithHb
  <2>3. \A t \in Sizes : size_face'[t] = IF t = s THEN f ELSE size_face[t]
    BY <2>1, <1>1 DEF TypeOK
  <2>4. \A g \in Faces : HbFontsOf(g)' = HbFontsOf(g)
    BY <2>1, <2>3, <1>2, <1>3 DEF HbFontsOf, SizesOf
  <2> QED BY <2>1, <2>2, <2>4, <1>1, <1>2, FaceTaken
<1>9. FacesCounted'
  <2> SUFFICES ASSUME NEW g \in Faces
               PROVE  face_refs'[g] = Box(faceBox'[g] # "none")
                        + Cardinality(SizesOf(g)') + Cardinality(HbFontsOf(g)')
    BY DEF FacesCounted
  <2>0. /\ Cardinality(SizesOf(g)) \in Nat /\ Cardinality(HbFontsOf(g)) \in Nat
        /\ face_refs[g] = Box(faceBox[g] # "none") + Cardinality(SizesOf(g))
                          + Cardinality(HbFontsOf(g))
    BY <1>1, CountedAreFinite DEF FacesCounted
  <2>1. CASE g = f
    <3>1. Cardinality(SizesOf(f)') = Cardinality(SizesOf(f)) + 1
      BY <1>8, CountedAreFinite, CardAdds
    <3>2. faceBox'[f] = "live" /\ face_refs'[f] = face_refs[f] + MadeFace(k) + 1
      BY <1>1 DEF newFaceSize, TypeOK
    <3> QED BY <2>0, <2>1, <3>1, <3>2, <1>4, <1>7, <1>8 DEF Box
  <2>2. CASE g # f
    BY <2>0, <2>2, <1>1, <1>8 DEF newFaceSize, TypeOK
  <2> QED BY <2>1, <2>2
<1>10. CacheIsLive'
  BY <1>1 DEF newFaceSize, CacheIsLive, TypeOK
<1>11. LibraryCounted'
  <2>1. Cardinality(Held') = Cardinality(Held) + 1 BY <1>8, CountedAreFinite, CardAdds
  <2>2. Cardinality(Boxed') = Cardinality(Boxed) + MadeFace(k)
    BY <1>4, <1>7, CountedAreFinite, CardAdds
  <2>3. library' = library + MadeFace(k) + 1 /\ libraryBox' = libraryBox BY DEF newFaceSize
  <2> QED BY <2>1, <2>2, <2>3, <1>1, <1>4, <1>8, CountedAreFinite
          DEF LibraryCounted, Box, TypeOK
<1> QED BY <1>5, <1>6, <1>9, <1>10, <1>11 DEF FontsInv

\* A face that is made stays although its size is not.
LEMMA newFaceSizeFailsKeeps ==
  ASSUME FontsInv, NEW k \in Files, NEW f \in Faces, newFaceSizeFails(k, f)
  PROVE  FontsInv'
<1>1. TypeOK /\ SizesCounted /\ FacesCounted /\ CacheIsLive /\ LibraryCounted
  BY DEF FontsInv
<1>2. f # Nothing BY ResourcesAssumption
<1>3. TypeOK' BY <1>1 DEF newFaceSizeFails, TypeOK
<1>4. SizesCounted' BY <1>1 DEF newFaceSizeFails, SizesCounted, Box
<1>5. Boxed' = Boxed \cup {f} /\ f \notin Boxed
  BY <1>1 DEF newFaceSizeFails, IsNewFace, TypeOK, Boxed
<1>6. Held' = Held /\ WithHb' = WithHb
      /\ \A g \in Faces : SizesOf(g)' = SizesOf(g) /\ HbFontsOf(g)' = HbFontsOf(g)
  BY DEF newFaceSizeFails, Held, WithHb, SizesOf, HbFontsOf
<1>7. FacesCounted'
  <2> SUFFICES ASSUME NEW g \in Faces
               PROVE  face_refs'[g] = Box(faceBox'[g] # "none")
                        + Cardinality(SizesOf(g)') + Cardinality(HbFontsOf(g)')
    BY DEF FacesCounted
  <2>0. /\ Cardinality(SizesOf(g)) \in Nat /\ Cardinality(HbFontsOf(g)) \in Nat
        /\ face_refs[g] = Box(faceBox[g] # "none") + Cardinality(SizesOf(g))
                          + Cardinality(HbFontsOf(g))
    BY <1>1, CountedAreFinite DEF FacesCounted
  <2>1. CASE g = f
    <3>1. faceBox[f] = "none" /\ face_refs[f] = 0
      BY DEF newFaceSizeFails, IsNewFace
    <3>2. faceBox'[f] = "live" /\ face_refs'[f] = 1
      BY <1>1 DEF newFaceSizeFails, TypeOK
    <3> QED BY <2>0, <2>1, <3>1, <3>2, <1>6 DEF Box
  <2>2. CASE g # f
    BY <2>0, <2>2, <1>1, <1>6 DEF newFaceSizeFails, TypeOK
  <2> QED BY <2>1, <2>2
<1>8. CacheIsLive' BY <1>1 DEF newFaceSizeFails, CacheIsLive, TypeOK
<1>9. LibraryCounted'
  <2>1. Cardinality(Boxed') = Cardinality(Boxed) + 1 BY <1>5, CountedAreFinite, CardAdds
  <2>2. library' = library + 1 /\ libraryBox' = libraryBox BY DEF newFaceSizeFails
  <2> QED BY <2>1, <2>2, <1>1, <1>6, CountedAreFinite DEF LibraryCounted, Box, TypeOK
<1> QED BY <1>3, <1>4, <1>7, <1>8, <1>9 DEF FontsInv

\* HarfBuzz becomes a holder of the size and of its face.
LEMMA getHbFontDataKeeps ==
  ASSUME FontsInv, NEW s \in Sizes, getHbFontData(s)
  PROVE  FontsInv'
<1>1. TypeOK /\ SizesCounted /\ FacesCounted /\ CacheIsLive /\ LibraryCounted
  BY DEF FontsInv
<1>2. sizeBox[s] /\ ~hbBox[s] /\ size_face[s] # Nothing
  BY <1>1 DEF getHbFontData, SizesCounted
<1>3. PICK f \in Faces : f = size_face[s] BY <1>1, <1>2 DEF TypeOK
<1>4. TypeOK' BY <1>1, <1>3 DEF getHbFontData, TypeOK
<1>5. SizesCounted'
  BY <1>1, <1>2 DEF getHbFontData, SizesCounted, TypeOK, Box
<1>6. \A t \in Sizes : hbBox'[t] = (t = s \/ hbBox[t]) BY <1>1 DEF getHbFontData, TypeOK
<1>7. WithHb' = WithHb \cup {s} /\ s \notin WithHb BY <1>2, <1>6 DEF WithHb
<1>8. /\ HbFontsOf(f)' = HbFontsOf(f) \cup {s}
      /\ s \notin HbFontsOf(f)
      /\ \A g \in Faces \ {f} : HbFontsOf(g)' = HbFontsOf(g)
      /\ \A g \in Faces : SizesOf(g)' = SizesOf(g)
  <2>1. \A g \in Faces : SizesOf(g)' = SizesOf(g) BY DEF getHbFontData, SizesOf
  <2>2. \A g \in Faces : HbFontsOf(g)' = {t \in SizesOf(g) : t = s \/ hbBox[t]}
    BY <2>1, <1>6 DEF HbFontsOf, SizesOf
  <2>3. s \in SizesOf(f) /\ \A g \in Faces \ {f} : s \notin SizesOf(g)
    BY <1>3 DEF SizesOf
  <2>4. HbFontsOf(f)' = HbFontsOf(f) \cup {s} /\ s \notin HbFontsOf(f)
    BY <1>2, <2>2, <2>3 DEF HbFontsOf
  <2>5. \A g \in Faces \ {f} : HbFontsOf(g)' = HbFontsOf(g) BY <2>2, <2>3 DEF HbFontsOf
  <2> QED BY <2>1, <2>4, <2>5
<1>9. Held' = Held /\ Boxed' = Boxed BY DEF getHbFontData, Held, Boxed
<1>10. FacesCounted'
  <2> SUFFICES ASSUME NEW g \in Faces
               PROVE  face_refs'[g] = Box(faceBox'[g] # "none")
                        + Cardinality(SizesOf(g)') + Cardinality(HbFontsOf(g)')
    BY DEF FacesCounted
  <2>0. /\ Cardinality(SizesOf(g)) \in Nat /\ Cardinality(HbFontsOf(g)) \in Nat
        /\ face_refs[g] = Box(faceBox[g] # "none") + Cardinality(SizesOf(g))
                          + Cardinality(HbFontsOf(g))
        /\ faceBox' = faceBox
    BY <1>1, CountedAreFinite DEF FacesCounted, getHbFontData
  <2>1. CASE g = f
    <3>1. Cardinality(HbFontsOf(g)') = Cardinality(HbFontsOf(g)) + 1
      <4>1. HbFontsOf(g)' = HbFontsOf(g) \cup {s} /\ s \notin HbFontsOf(g) BY <2>1, <1>8
      <4> QED BY <4>1, CountedAreFinite, CardAdds
    <3>2. face_refs'[g] = face_refs[g] + 1 BY <2>1, <1>1, <1>3 DEF getHbFontData, TypeOK
    <3> QED BY <2>0, <3>1, <3>2, <1>8 DEF Box
  <2>2. CASE g # f
    BY <2>0, <2>2, <1>1, <1>3, <1>8 DEF getHbFontData, TypeOK
  <2> QED BY <2>1, <2>2
<1>11. CacheIsLive' BY <1>1 DEF getHbFontData, CacheIsLive
<1>12. LibraryCounted'
  <2>1. Cardinality(WithHb') = Cardinality(WithHb) + 1 BY <1>7, CountedAreFinite, CardAdds
  <2>2. library' = library + 1 /\ libraryBox' = libraryBox BY DEF getHbFontData
  <2> QED BY <2>1, <2>2, <1>1, <1>9, CountedAreFinite DEF LibraryCounted, Box, TypeOK
<1> QED BY <1>4, <1>5, <1>10, <1>11, <1>12 DEF FontsInv

\* The size's cdata gives the size back, and is its last holder or not.
LEMMA done_sizeKeeps ==
  ASSUME FontsInv, NEW s \in Sizes, sizeBox[s], done_size(s),
         fonts' \in {fonts, fonts \ {s}}
  PROVE  FontsInv'
<1>1. TypeOK /\ SizesCounted /\ FacesCounted /\ CacheIsLive /\ LibraryCounted
  BY DEF FontsInv
<1>2. fonts' \subseteq Sizes BY <1>1 DEF TypeOK
<1>3. size_face[s] # Nothing /\ size_refs[s] = 1 + Box(hbBox[s])
  BY <1>1 DEF TypeOK, SizesCounted, Box
<1>f. PICK f \in Faces : f = size_face[s] BY <1>1, <1>3 DEF TypeOK
<1>4. size_refs[s] \in {1, 2} BY <1>3 DEF Box
<1>5. /\ ~sizeBox'[s] /\ size_refs'[s] = size_refs[s] - 1
      /\ \A t \in Sizes \ {s} : sizeBox'[t] = sizeBox[t] /\ size_refs'[t] = size_refs[t]
  BY <1>1 DEF done_size, TypeOK
<1>6. Boxed' = Boxed /\ WithHb' = WithHb /\ CacheIsLive'
  BY <1>1 DEF done_size, Boxed, WithHb, CacheIsLive
<1>7. CASE size_refs[s] > 1
  <2>1. hbBox[s] BY <1>3, <1>7 DEF Box
  <2>2. UNCHANGED <<library, face_refs, size_face, libraryBox, faceBox, hbBox>>
    BY <1>7 DEF done_size
  <2>3. TypeOK' BY <1>1, <1>2, <1>4, <1>7, <2>2 DEF done_size, TypeOK
  <2>4. SizesCounted'
    <3> SUFFICES ASSUME NEW t \in Sizes
                 PROVE  /\ size_refs'[t] = Box(sizeBox'[t]) + Box(hbBox[t])
                        /\ size_face[t] # Nothing <=> sizeBox'[t] \/ hbBox[t]
      BY <2>2 DEF SizesCounted
    <3>1. CASE t = s
      <4>1. Box(sizeBox'[s]) = 0 /\ Box(hbBox[s]) = 1 BY <1>5, <2>1 DEF Box
      <4>2. size_refs'[s] = 1 BY <1>3, <1>5, <4>1
      <4>3. size_refs'[s] = Box(sizeBox'[s]) + Box(hbBox[s])
        BY <4>1, <4>2
      <4> QED BY <3>1, <1>3, <2>1, <4>3
    <3>2. CASE t # s
      <4>1. sizeBox'[t] = sizeBox[t] /\ size_refs'[t] = size_refs[t] BY <3>2, <1>5
      <4> QED BY <1>1, <4>1 DEF SizesCounted
    <3> QED BY <3>1, <3>2
  <2>5. FacesCounted' /\ LibraryCounted'
    BY <1>1, <1>6, <2>2 DEF FacesCounted, LibraryCounted, SizesOf, HbFontsOf, Held, Box
  <2> QED BY <1>6, <2>3, <2>4, <2>5 DEF FontsInv
<1>8. CASE size_refs[s] = 1
  <2>1. ~hbBox[s] BY <1>3, <1>8 DEF Box
  <2>2. /\ UNCHANGED <<libraryBox, faceBox, hbBox>>
        /\ size_face' = [size_face EXCEPT ![s] = Nothing]
        /\ library' = library - 1
        /\ face_refs' = [face_refs EXCEPT ![f] = @ - 1]
    BY <1>8, <1>f DEF done_size
  <2>3. /\ Held' = Held \ {s} /\ s \in Held
        /\ SizesOf(f)' = SizesOf(f) \ {s} /\ s \in SizesOf(f)
        /\ \A g \in Faces \ {f} : SizesOf(g)' = SizesOf(g)
    BY <1>1, <1>f, <2>2, FaceReleased
  <2>4. \A t \in Sizes : size_face'[t] = IF t = s THEN Nothing ELSE size_face[t]
    BY <1>1, <2>2 DEF TypeOK
  <2>5. \A g \in Faces : HbFontsOf(g)' = HbFontsOf(g)
    BY <2>1, <2>2, <2>4, ResourcesAssumption DEF HbFontsOf, SizesOf
  <2>6. /\ Cardinality(Held') = Cardinality(Held) - 1
        /\ Cardinality(SizesOf(f)') = Cardinality(SizesOf(f)) - 1
    BY <2>3, CountedAreFinite, CardRemoves
  <2>7. Cardinality(Held') \in Nat /\ Cardinality(SizesOf(f)') \in Nat
    <3>1. IsFiniteSet(Held') /\ IsFiniteSet(SizesOf(f)')
      BY <2>3, CountedAreFinite, FS_RemoveElement
    <3> QED BY <3>1, FS_CardinalityType
  <2>8. LibraryCounted' /\ library' \in Nat
    BY <1>1, <1>6, <2>2, <2>6, <2>7, CountedAreFinite DEF LibraryCounted, Box, TypeOK
  <2>9. FacesCounted' /\ face_refs' \in [Faces -> Nat]
    <3>1. ASSUME NEW g \in Faces
          PROVE  /\ face_refs'[g] = Box(faceBox'[g] # "none")
                        + Cardinality(SizesOf(g)') + Cardinality(HbFontsOf(g)')
                 /\ face_refs'[g] \in Nat
      <4>0. /\ Cardinality(SizesOf(g)) \in Nat /\ Cardinality(HbFontsOf(g)) \in Nat
            /\ face_refs[g] = Box(faceBox[g] # "none") + Cardinality(SizesOf(g))
                              + Cardinality(HbFontsOf(g))
        BY <1>1, CountedAreFinite DEF FacesCounted
      <4>1. CASE g = f
        <5>1. face_refs'[g] = face_refs[g] - 1 BY <4>1, <1>1, <2>2 DEF TypeOK
        <5>2. /\ Cardinality(SizesOf(g)') = Cardinality(SizesOf(g)) - 1
              /\ Cardinality(SizesOf(g)') \in Nat
          BY <4>1, <2>6, <2>7
        <5> QED BY <4>0, <5>1, <5>2, <2>2, <2>5 DEF Box
      <4>2. CASE g # f
        BY <4>0, <4>2, <1>1, <2>2, <2>3, <2>5 DEF TypeOK
      <4> QED BY <4>1, <4>2
    <3>2. face_refs' = [g \in Faces |-> face_refs'[g]] BY <1>1, <2>2 DEF TypeOK
    <3> QED BY <3>1, <3>2 DEF FacesCounted
  <2>10. TypeOK' BY <1>1, <1>2, <1>8, <2>2, <2>8, <2>9 DEF done_size, TypeOK
  <2>11. SizesCounted'
    <3> SUFFICES ASSUME NEW t \in Sizes
                 PROVE  /\ size_refs'[t] = Box(sizeBox'[t]) + Box(hbBox[t])
                        /\ size_face'[t] # Nothing <=> sizeBox'[t] \/ hbBox[t]
      BY <2>2 DEF SizesCounted
    <3>1. CASE t = s
      <4>1. Box(sizeBox'[s]) = 0 /\ Box(hbBox[s]) = 0 BY <1>5, <2>1 DEF Box
      <4>2. size_refs'[s] = 0 /\ size_face'[s] = Nothing BY <1>5, <1>8, <2>4
      <4>3. size_refs'[s] = Box(sizeBox'[s]) + Box(hbBox[s])
        BY <4>1, <4>2
      <4> QED BY <3>1, <1>5, <2>1, <4>2, <4>3
    <3>2. CASE t # s
      <4>1. /\ sizeBox'[t] = sizeBox[t] /\ size_refs'[t] = size_refs[t]
            /\ size_face'[t] = size_face[t]
        BY <3>2, <1>5, <2>4
      <4> QED BY <1>1, <4>1 DEF SizesCounted
    <3> QED BY <3>1, <3>2
  <2> QED BY <1>6, <2>8, <2>9, <2>10, <2>11 DEF FontsInv
<1> QED BY <1>4, <1>7, <1>8

\* HarfBuzz's data gives back its references, and the size when it is last.
LEMMA hb_font_data_destroyKeeps ==
  ASSUME FontsInv, NEW s \in Sizes, xtext_hb_font_data_destroy(s)
  PROVE  FontsInv'
<1>1. TypeOK /\ SizesCounted /\ FacesCounted /\ CacheIsLive /\ LibraryCounted
  BY DEF FontsInv
<1>2. hbBox[s] BY DEF xtext_hb_font_data_destroy
<1>3. size_face[s] # Nothing /\ size_refs[s] = 1 + Box(sizeBox[s])
  <2>1. Box(hbBox[s]) = 1 BY <1>2 DEF Box
  <2>2. size_refs[s] = Box(sizeBox[s]) + Box(hbBox[s]) BY <1>1 DEF SizesCounted
  <2>3. Box(sizeBox[s]) \in Nat BY DEF Box
  <2> QED BY <1>1, <1>2, <2>1, <2>2, <2>3 DEF SizesCounted
<1>f. PICK f \in Faces : f = size_face[s] BY <1>1, <1>3 DEF TypeOK
<1>4. size_refs[s] \in {1, 2} BY <1>3 DEF Box
<1>5. /\ ~hbBox'[s] /\ size_refs'[s] = size_refs[s] - 1
      /\ \A t \in Sizes \ {s} : hbBox'[t] = hbBox[t] /\ size_refs'[t] = size_refs[t]
  BY <1>1 DEF xtext_hb_font_data_destroy, TypeOK
<1>6. /\ Boxed' = Boxed /\ CacheIsLive' /\ library' = library - 1
      /\ UNCHANGED <<libraryBox, faceBox, sizeBox>>
  BY <1>1 DEF xtext_hb_font_data_destroy, Boxed, CacheIsLive
<1>7. WithHb' = WithHb \ {s} /\ s \in WithHb
  BY <1>2, <1>5 DEF WithHb
<1>8. Cardinality(WithHb') = Cardinality(WithHb) - 1
  BY <1>7, CountedAreFinite, CardRemoves
<1>9. s \in SizesOf(f) /\ s \in HbFontsOf(f) BY <1>2, <1>f DEF SizesOf, HbFontsOf
<1>10. CASE size_refs[s] = 2
  <2>1. sizeBox[s] /\ Box(sizeBox[s]) = 1
    <3>1. Box(sizeBox[s]) = 1 BY <1>3, <1>10 DEF Box
    <3> QED BY <3>1 DEF Box
  <2>2. /\ size_face' = size_face
        /\ face_refs' = [face_refs EXCEPT ![f] = @ - 1]
    <3>1. size_face' = [size_face EXCEPT ![s] = size_face[s]]
          /\ face_refs' = [face_refs EXCEPT ![f] = @ - 1]
      BY <1>10, <1>f DEF xtext_hb_font_data_destroy
    <3> QED BY <3>1, <1>1 DEF TypeOK
  <2>3. Held' = Held /\ \A g \in Faces : SizesOf(g)' = SizesOf(g)
    BY <2>2 DEF Held, SizesOf
  <2>4. HbFontsOf(f)' = HbFontsOf(f) \ {s} BY <1>5, <2>3 DEF HbFontsOf, SizesOf
  <2>5. ASSUME NEW g \in Faces \ {f} PROVE HbFontsOf(g)' = HbFontsOf(g)
    <3>1. s \notin SizesOf(g) BY <1>f DEF SizesOf
    <3> QED BY <1>5, <2>3, <3>1 DEF HbFontsOf, SizesOf
  <2>6. Cardinality(HbFontsOf(f)') = Cardinality(HbFontsOf(f)) - 1
        /\ IsFiniteSet(HbFontsOf(f)')
    BY <1>9, <2>4, CountedAreFinite, CardRemoves
  <2>7. Cardinality(HbFontsOf(f)') \in Nat BY <2>6, FS_CardinalityType
  <2>8. FacesCounted' /\ face_refs' \in [Faces -> Nat]
    <3>1. ASSUME NEW g \in Faces
          PROVE  /\ face_refs'[g] = Box(faceBox'[g] # "none")
                        + Cardinality(SizesOf(g)') + Cardinality(HbFontsOf(g)')
                 /\ face_refs'[g] \in Nat
      <4>0. /\ Cardinality(SizesOf(g)) \in Nat /\ Cardinality(HbFontsOf(g)) \in Nat
            /\ face_refs[g] = Box(faceBox[g] # "none") + Cardinality(SizesOf(g))
                              + Cardinality(HbFontsOf(g))
            /\ SizesOf(g)' = SizesOf(g)
        BY <1>1, <2>3, CountedAreFinite DEF FacesCounted
      <4>1. CASE g = f
        <5>1. face_refs'[g] = face_refs[g] - 1 BY <4>1, <1>1, <2>2 DEF TypeOK
        <5>2. /\ Cardinality(HbFontsOf(g)') = Cardinality(HbFontsOf(g)) - 1
              /\ Cardinality(HbFontsOf(g)') \in Nat
          BY <4>1, <2>6, <2>7
        <5> QED BY <4>0, <5>1, <5>2, <1>6 DEF Box
      <4>2. CASE g # f
        <5>1. face_refs'[g] = face_refs[g] BY <4>2, <1>1, <2>2 DEF TypeOK
        <5>2. HbFontsOf(g)' = HbFontsOf(g) BY <4>2, <2>5
        <5> QED BY <4>0, <5>1, <5>2, <1>1, <1>6 DEF TypeOK
      <4> QED BY <4>1, <4>2
    <3>2. face_refs' = [g \in Faces |-> face_refs'[g]] BY <1>1, <2>2 DEF TypeOK
    <3> QED BY <3>1, <3>2 DEF FacesCounted
  <2>9. LibraryCounted' /\ library' \in Nat
    <3>1. Cardinality(WithHb') \in Nat
      BY <1>7, CountedAreFinite, FS_RemoveElement, FS_CardinalityType
    <3> QED BY <3>1, <1>1, <1>6, <1>8, <2>3, CountedAreFinite
            DEF LibraryCounted, Box, TypeOK
  <2>10. TypeOK'
    BY <1>1, <1>10, <2>2, <2>8, <2>9 DEF xtext_hb_font_data_destroy, TypeOK
  <2>11. SizesCounted'
    <3> SUFFICES ASSUME NEW t \in Sizes
                 PROVE  /\ size_refs'[t] = Box(sizeBox[t]) + Box(hbBox'[t])
                        /\ size_face[t] # Nothing <=> sizeBox[t] \/ hbBox'[t]
      BY <1>6, <2>2 DEF SizesCounted
    <3>1. CASE t = s
      <4>1. Box(hbBox'[s]) = 0 BY <1>5 DEF Box
      <4>2. size_refs'[s] = 1 BY <1>5, <1>10
      <4>3. Box(sizeBox[s]) = 1 BY <2>1
      <4>4. size_refs'[s] = Box(sizeBox[s]) + Box(hbBox'[s]) BY <4>1, <4>2, <4>3
      <4> QED BY <3>1, <1>3, <2>1, <4>4
    <3>2. CASE t # s
      <4>1. hbBox'[t] = hbBox[t] /\ size_refs'[t] = size_refs[t] BY <3>2, <1>5
      <4> QED BY <1>1, <4>1 DEF SizesCounted
    <3> QED BY <3>1, <3>2
  <2> QED BY <1>6, <2>8, <2>9, <2>10, <2>11 DEF FontsInv
<1>11. CASE size_refs[s] = 1
  <2>1. ~sizeBox[s] /\ Box(sizeBox[s]) = 0
    <3>1. Box(sizeBox[s]) = 0 BY <1>3, <1>11 DEF Box
    <3> QED BY <3>1 DEF Box
  <2>2. /\ size_face' = [size_face EXCEPT ![s] = Nothing]
        /\ face_refs' = [face_refs EXCEPT ![f] = @ - 2]
    BY <1>11, <1>f DEF xtext_hb_font_data_destroy
  <2>3. /\ Held' = Held \ {s} /\ s \in Held
        /\ SizesOf(f)' = SizesOf(f) \ {s} /\ s \in SizesOf(f)
        /\ \A g \in Faces \ {f} : SizesOf(g)' = SizesOf(g)
    BY <1>1, <1>f, <2>2, FaceReleased
  <2>4. HbFontsOf(f)' = HbFontsOf(f) \ {s} BY <1>5, <2>3 DEF HbFontsOf, SizesOf
  <2>5. ASSUME NEW g \in Faces \ {f} PROVE HbFontsOf(g)' = HbFontsOf(g)
    <3>1. s \notin SizesOf(g) BY <1>f DEF SizesOf
    <3> QED BY <1>5, <2>3, <3>1 DEF HbFontsOf, SizesOf
  <2>6. /\ Cardinality(HbFontsOf(f)') = Cardinality(HbFontsOf(f)) - 1
        /\ IsFiniteSet(HbFontsOf(f)')
        /\ Cardinality(SizesOf(f)') = Cardinality(SizesOf(f)) - 1
        /\ IsFiniteSet(SizesOf(f)')
        /\ Cardinality(Held') = Cardinality(Held) - 1
        /\ IsFiniteSet(Held')
    BY <1>9, <2>3, <2>4, CountedAreFinite, CardRemoves
  <2>7. /\ Cardinality(HbFontsOf(f)') \in Nat /\ Cardinality(SizesOf(f)') \in Nat
        /\ Cardinality(Held') \in Nat
    BY <2>6, FS_CardinalityType
  <2>8. FacesCounted' /\ face_refs' \in [Faces -> Nat]
    <3>1. ASSUME NEW g \in Faces
          PROVE  /\ face_refs'[g] = Box(faceBox'[g] # "none")
                        + Cardinality(SizesOf(g)') + Cardinality(HbFontsOf(g)')
                 /\ face_refs'[g] \in Nat
      <4>0. /\ Cardinality(SizesOf(g)) \in Nat /\ Cardinality(HbFontsOf(g)) \in Nat
            /\ face_refs[g] = Box(faceBox[g] # "none") + Cardinality(SizesOf(g))
                              + Cardinality(HbFontsOf(g))
        BY <1>1, CountedAreFinite DEF FacesCounted
      <4>1. CASE g = f
        <5>1. face_refs'[g] = face_refs[g] - 2 BY <4>1, <1>1, <2>2 DEF TypeOK
        <5>2. /\ Cardinality(HbFontsOf(g)') = Cardinality(HbFontsOf(g)) - 1
              /\ Cardinality(HbFontsOf(g)') \in Nat
              /\ Cardinality(SizesOf(g)') = Cardinality(SizesOf(g)) - 1
              /\ Cardinality(SizesOf(g)') \in Nat
          BY <4>1, <2>6, <2>7
        <5> QED BY <4>0, <5>1, <5>2, <1>6 DEF Box
      <4>2. CASE g # f
        <5>1. face_refs'[g] = face_refs[g] BY <4>2, <1>1, <2>2 DEF TypeOK
        <5>2. HbFontsOf(g)' = HbFontsOf(g) /\ SizesOf(g)' = SizesOf(g)
          BY <4>2, <2>3, <2>5
        <5> QED BY <4>0, <5>1, <5>2, <1>1, <1>6 DEF TypeOK
      <4> QED BY <4>1, <4>2
    <3>2. face_refs' = [g \in Faces |-> face_refs'[g]] BY <1>1, <2>2 DEF TypeOK
    <3> QED BY <3>1, <3>2 DEF FacesCounted
  <2>9. LibraryCounted' /\ library' \in Nat
    <3>1. Cardinality(WithHb') \in Nat
      BY <1>7, CountedAreFinite, FS_RemoveElement, FS_CardinalityType
    <3> QED BY <3>1, <1>1, <1>6, <1>8, <2>6, <2>7, CountedAreFinite
            DEF LibraryCounted, Box, TypeOK
  <2>10. TypeOK'
    BY <1>1, <1>11, <2>2, <2>8, <2>9 DEF xtext_hb_font_data_destroy, TypeOK
  <2>11. SizesCounted'
    <3> SUFFICES ASSUME NEW t \in Sizes
                 PROVE  /\ size_refs'[t] = Box(sizeBox[t]) + Box(hbBox'[t])
                        /\ size_face'[t] # Nothing <=> sizeBox[t] \/ hbBox'[t]
      BY <1>6 DEF SizesCounted
    <3>1. CASE t = s
      <4>1. Box(hbBox'[s]) = 0 BY <1>5 DEF Box
      <4>2. size_refs'[s] = 0 /\ size_face'[s] = Nothing BY <1>1, <1>5, <1>11, <2>2 DEF TypeOK
      <4>3. size_refs'[s] = Box(sizeBox[s]) + Box(hbBox'[s]) BY <2>1, <4>1, <4>2
      <4> QED BY <3>1, <1>5, <2>1, <4>2, <4>3
    <3>2. CASE t # s
      <4>1. /\ hbBox'[t] = hbBox[t] /\ size_refs'[t] = size_refs[t]
            /\ size_face'[t] = size_face[t]
        BY <3>2, <1>1, <1>5, <2>2 DEF TypeOK
      <4> QED BY <1>1, <4>1 DEF SizesCounted
    <3> QED BY <3>1, <3>2
  <2> QED BY <1>6, <2>8, <2>9, <2>10, <2>11 DEF FontsInv
<1> QED BY <1>4, <1>10, <1>11

\* The collector takes a face's cdata, and later its finalizer runs.
LEMMA FaceCollectedKeeps ==
  ASSUME FontsInv, NEW f \in Faces, CollectFace(f) \/ done_face(f)
  PROVE  FontsInv'
<1>1. TypeOK /\ SizesCounted /\ FacesCounted /\ CacheIsLive /\ LibraryCounted
  BY DEF FontsInv
<1>2. \A g : SizesOf(g)' = SizesOf(g) /\ HbFontsOf(g)' = HbFontsOf(g)
  BY DEF CollectFace, done_face, SizesOf, HbFontsOf
<1>3. Held' = Held /\ WithHb' = WithHb /\ SizesCounted'
  BY <1>1 DEF CollectFace, done_face, Held, WithHb, SizesCounted
<1>4. CASE CollectFace(f)
  <2>1. \A g \in Faces : faceBox'[g] # "none" <=> faceBox[g] # "none"
    BY <1>1, <1>4 DEF CollectFace, TypeOK
  <2>2. Boxed' = Boxed BY <2>1 DEF Boxed
  <2>3. TypeOK' BY <1>1, <1>4 DEF CollectFace, TypeOK
  <2>4. FacesCounted'
    <3> SUFFICES ASSUME NEW g \in Faces
                 PROVE  face_refs[g] = Box(faceBox'[g] # "none")
                          + Cardinality(SizesOf(g)) + Cardinality(HbFontsOf(g))
      BY <1>2, <1>4 DEF FacesCounted, CollectFace
    <3>1. Box(faceBox'[g] # "none") = Box(faceBox[g] # "none") BY <2>1 DEF Box
    <3> QED BY <1>1, <3>1 DEF FacesCounted
  <2>5. CacheIsLive'
    <3> SUFFICES ASSUME NEW k \in Files, faces_cache'[k] # Nothing
                 PROVE  faceBox'[faces_cache'[k]] = "live"
      BY DEF CacheIsLive
    <3>1. faces_cache'[k] = faces_cache[k] /\ faces_cache[k] # f
      BY <1>4 DEF CollectFace
    <3> QED BY <1>1, <1>4, <3>1 DEF CollectFace, CacheIsLive, TypeOK
  <2>6. LibraryCounted'
    BY <1>1, <1>3, <1>4, <2>2 DEF LibraryCounted, CollectFace
  <2> QED BY <1>3, <2>3, <2>4, <2>5, <2>6 DEF FontsInv
<1>5. CASE done_face(f)
  <2>1. Boxed' = Boxed \ {f} /\ f \in Boxed BY <1>1, <1>5 DEF done_face, TypeOK, Boxed
  <2>2. Cardinality(Boxed') = Cardinality(Boxed) - 1 /\ Cardinality(Boxed') \in Nat
    <3>1. IsFiniteSet(Boxed') BY <2>1, CountedAreFinite, FS_RemoveElement
    <3> QED BY <2>1, <3>1, CountedAreFinite, CardRemoves, FS_CardinalityType
  <2>3. LibraryCounted' /\ library' \in Nat
    BY <1>1, <1>3, <1>5, <2>2, CountedAreFinite DEF LibraryCounted, done_face, Box, TypeOK
  <2>4. FacesCounted' /\ face_refs' \in [Faces -> Nat]
    <3>1. ASSUME NEW g \in Faces
          PROVE  /\ face_refs'[g] = Box(faceBox'[g] # "none")
                        + Cardinality(SizesOf(g)') + Cardinality(HbFontsOf(g)')
                 /\ face_refs'[g] \in Nat
      <4>0. /\ Cardinality(SizesOf(g)) \in Nat /\ Cardinality(HbFontsOf(g)) \in Nat
            /\ face_refs[g] = Box(faceBox[g] # "none") + Cardinality(SizesOf(g))
                              + Cardinality(HbFontsOf(g))
            /\ SizesOf(g)' = SizesOf(g) /\ HbFontsOf(g)' = HbFontsOf(g)
        BY <1>1, <1>2, CountedAreFinite DEF FacesCounted
      <4>1. CASE g = f
        <5>1. face_refs'[g] = face_refs[g] - 1 /\ faceBox'[g] = "none" /\ faceBox[g] = "dead"
          BY <4>1, <1>1, <1>5 DEF done_face, TypeOK
        <5>2. Box(faceBox'[g] # "none") = 0 /\ Box(faceBox[g] # "none") = 1
          BY <5>1 DEF Box
        <5> QED BY <4>0, <5>1, <5>2
      <4>2. CASE g # f
        <5>1. face_refs'[g] = face_refs[g] /\ faceBox'[g] = faceBox[g]
          BY <4>2, <1>1, <1>5 DEF done_face, TypeOK
        <5> QED BY <4>0, <5>1, <1>1 DEF TypeOK
      <4> QED BY <4>1, <4>2
    <3>2. face_refs' = [g \in Faces |-> face_refs'[g]] BY <1>1, <1>5 DEF done_face, TypeOK
    <3> QED BY <3>1, <3>2 DEF FacesCounted
  <2>5. CacheIsLive' BY <1>1, <1>5 DEF done_face, CacheIsLive, TypeOK
  <2>6. TypeOK' BY <1>1, <1>5, <2>3, <2>4 DEF done_face, TypeOK
  <2> QED BY <1>3, <2>3, <2>4, <2>5, <2>6 DEF FontsInv
<1> QED BY <1>4, <1>5

\* Every count covers its holders at every step.
THEOREM FontInvariance == Spec => []FontsInv
<1>1. FontsInv /\ [Next]_vars => FontsInv'
  <2> SUFFICES ASSUME FontsInv, [Next]_vars PROVE FontsInv' OBVIOUS
  <2>a. TypeOK /\ SizesCounted /\ FacesCounted /\ CacheIsLive /\ LibraryCounted
    BY DEF FontsInv
  <2>1. ASSUME NEW k \in Files, NEW f \in Faces, newFaceSizeFails(k, f) PROVE FontsInv'
    BY <2>1, newFaceSizeFailsKeeps
  <2>2. ASSUME NEW k \in Files, NEW f \in Faces, NEW s \in Sizes, newFaceSize(k, f, s)
        PROVE  FontsInv'
    BY <2>2, newFaceSizeKeeps
  <2>3. ASSUME NEW s \in Sizes, getHbFontData(s) PROVE FontsInv'
    BY <2>3, getHbFontDataKeeps
  <2>4. ASSUME NEW s \in Sizes, Done(s) \/ FinalizeSize(s) PROVE FontsInv'
    <3>1. sizeBox[s] /\ done_size(s) /\ fonts' \in {fonts, fonts \ {s}}
      BY <2>4 DEF Done, FinalizeSize
    <3> QED BY <3>1, done_sizeKeeps
  <2>5. ASSUME NEW s \in Sizes, xtext_hb_font_data_destroy(s) PROVE FontsInv'
    BY <2>5, hb_font_data_destroyKeeps
  <2>6. ASSUME NEW f \in Faces, CollectFace(f) \/ done_face(f) PROVE FontsInv'
    BY <2>6, FaceCollectedKeeps
  <2>7. CASE FinalizeLibrary
    <3>1. /\ library' = library - 1 /\ libraryBox /\ ~libraryBox'
          /\ UNCHANGED <<face_refs, size_refs, size_face, faceBox, sizeBox, hbBox,
                          faces_cache, fonts, exiting>>
      BY <2>7 DEF FinalizeLibrary
    <3>2. Held' = Held /\ WithHb' = WithHb /\ Boxed' = Boxed
      BY <3>1 DEF Held, WithHb, Boxed
    <3>3. LibraryCounted' /\ library' \in Nat
      BY <2>a, <3>1, <3>2, CountedAreFinite DEF LibraryCounted, Box, TypeOK
    <3>4. TypeOK' BY <2>7, <2>a, <3>3 DEF FinalizeLibrary, TypeOK
    <3> QED BY <2>a, <3>1, <3>3, <3>4 DEF FontsInv, SizesCounted, FacesCounted, CacheIsLive,
               SizesOf, HbFontsOf
  <2>8. ASSUME UNCHANGED <<library, face_refs, size_refs, size_face, libraryBox, faceBox,
                           sizeBox, hbBox, faces_cache>>,
               fonts' \subseteq fonts, exiting' \in BOOLEAN
        PROVE  FontsInv'
    BY <2>8, <2>a DEF FontsInv, TypeOK, SizesCounted, FacesCounted, CacheIsLive,
       LibraryCounted, SizesOf, HbFontsOf, Held, WithHb, Boxed
  <2>9. ASSUME NEW s \in Sizes, Drop(s) PROVE FontsInv'
    BY <2>8, <2>9, <2>a DEF Drop, TypeOK
  <2>10. CASE Exit BY <2>8, <2>10, <2>a DEF Exit, TypeOK
  <2>11. CASE UNCHANGED vars BY <2>8, <2>11, <2>a DEF vars, TypeOK
  <2> QED BY <2>1, <2>2, <2>3, <2>4, <2>5, <2>6, <2>7, <2>9, <2>10, <2>11 DEF Next, Collect
<1> QED BY <1>1, FontsInitially, PTL DEF Spec

\* Every count is that of its holders: done_size, done_face and
\* xtext_hb_font_data_destroy give back what was taken, once.
THEOREM CountsAreExact == Spec => []CountsExact
<1>1. FontsInv => CountsExact BY DEF FontsInv, CountsExact, SizesCounted, FacesCounted
<1> QED BY <1>1, FontInvariance, PTL

\* In whatever order finalizers run, what they touch is still there.
THEOREM NothingIsFreedInUse == Spec => []NothingFreedInUse
<1>1. FontsInv => NothingFreedInUse
  <2> SUFFICES ASSUME FontsInv PROVE NothingFreedInUse OBVIOUS
  <2>a. TypeOK /\ SizesCounted /\ FacesCounted /\ CacheIsLive /\ LibraryCounted
    BY DEF FontsInv
  <2>1. ASSUME NEW f \in Faces PROVE face_refs[f] > 0 <=> f \in Boxed \/ SizesOf(f) # {}
    <3>0. /\ Cardinality(SizesOf(f)) \in Nat /\ Cardinality(HbFontsOf(f)) \in Nat
          /\ face_refs[f] = Box(faceBox[f] # "none") + Cardinality(SizesOf(f))
                            + Cardinality(HbFontsOf(f))
      BY <2>a, CountedAreFinite DEF FacesCounted
    <3>1. Cardinality(SizesOf(f)) = 0 <=> SizesOf(f) = {} BY CountedAreFinite, FS_EmptySet
    <3>2. SizesOf(f) = {} => HbFontsOf(f) = {} BY DEF HbFontsOf
    <3>3. Cardinality({}) = 0 BY FS_EmptySet
    <3>4. Box(faceBox[f] # "none") = IF f \in Boxed THEN 1 ELSE 0 BY DEF Box, Boxed
    <3> QED BY <3>0, <3>1, <3>2, <3>3, <3>4
  <2>2. ASSUME NEW s \in Sizes, sizeBox[s] \/ hbBox[s]
        PROVE  size_refs[s] > 0 /\ size_face[s] # Nothing /\ face_refs[size_face[s]] > 0
    <3>1. size_face[s] # Nothing /\ size_refs[s] = Box(sizeBox[s]) + Box(hbBox[s])
      BY <2>2, <2>a DEF SizesCounted
    <3>2. size_refs[s] > 0 BY <2>2, <3>1 DEF Box
    <3>3. size_face[s] \in Faces /\ s \in SizesOf(size_face[s])
      BY <2>a, <3>1 DEF TypeOK, SizesOf
    <3> QED BY <2>1, <3>1, <3>2, <3>3
  <2>3. ASSUME NEW f \in Faces, faceBox[f] # "none" \/ f \in {faces_cache[k] : k \in Files}
        PROVE  face_refs[f] > 0
    <3>1. f # Nothing BY ResourcesAssumption
    <3>2. f \in Boxed BY <2>3, <2>a, <3>1 DEF CacheIsLive, Boxed
    <3> QED BY <2>1, <3>2
  <2>4. ASSUME libraryBox \/ (\E f \in Faces : face_refs[f] > 0) PROVE library > 0
    <3>1. /\ library \in Nat /\ Cardinality(Boxed) \in Nat /\ Cardinality(Held) \in Nat
          /\ Cardinality(WithHb) \in Nat
      BY <2>a, CountedAreFinite DEF TypeOK
    <3>2. CASE libraryBox BY <2>a, <3>1, <3>2 DEF LibraryCounted, Box
    <3>3. ASSUME NEW f \in Faces, face_refs[f] > 0 PROVE library > 0
      <4>1. Boxed # {} \/ Held # {}
        <5>1. CASE f \in Boxed BY <5>1
        <5>2. CASE SizesOf(f) # {}
          <6>1. PICK s \in Sizes : size_face[s] = f BY <5>2 DEF SizesOf
          <6>2. s \in Held BY <6>1, ResourcesAssumption DEF Held
          <6> QED BY <6>2
        <5> QED BY <2>1, <3>3, <5>1, <5>2
      <4>2. Cardinality(Boxed) > 0 \/ Cardinality(Held) > 0
        BY <3>1, <4>1, CountedAreFinite, FS_EmptySet
      <4>3. Box(libraryBox) \in Nat BY DEF Box
      <4> QED BY <2>a, <3>1, <4>2, <4>3 DEF LibraryCounted
    <3> QED BY <2>4, <3>2, <3>3
  <2> QED BY <2>2, <2>3, <2>4 DEF NothingFreedInUse
<1> QED BY <1>1, FontInvariance, PTL

-----------------------------------------------------------------------------
(* Lines: what makeLine returns.                                           *)

\* A tab stop after a width is a width; the first one is after none.
LEMMA TabStop ==
  ASSUME NEW w \in Nat, NEW t \in Nat, t > 0
  PROVE  (w \div t + 1) * t \in Nat
<1>1. w \div t \in Nat BY SMT
<1>2. \A a, b \in Nat : a * b \in Nat BY SMT
<1>3. w \div t + 1 \in Nat BY <1>1
<1> QED BY <1>2, <1>3

\* The first tab stop.
LEMMA FirstTabStop ==
  ASSUME NEW t \in Nat, t > 0
  PROVE  (0 \div t + 1) * t = t
<1>1. 0 \div t = 0 BY SMT
<1> QED BY <1>1

\* What the type invariant says of the character at i.
LEMMA AtChar ==
  ASSUME LineTypeOK, i < m_length
  PROVE  /\ i \in Offsets
         /\ m_charinfo[i].width \in Nat /\ m_charinfo[i].flags \subseteq Flags
         /\ m_charinfo[i].soft \in BOOLEAN
         /\ NewWidth \in Nat
<1>1. i \in Offsets BY DEF LineTypeOK, Offsets
<1>2. m_charinfo[i] \in CharInfo BY <1>1 DEF LineTypeOK
<1>3. m_charinfo[i].width \in Nat /\ m_charinfo[i].flags \subseteq Flags
      /\ m_charinfo[i].soft \in BOOLEAN
  BY <1>2 DEF CharInfo
<1>4. request.tabstop \in Nat BY RequestsAssumption DEF LineTypeOK
<1>5. line_width \in Nat BY DEF LineTypeOK
<1>6. CASE "TAB" \in CharFlags /\ request.tabstop > 0
  <2>1. NewWidth = (line_width \div request.tabstop + 1) * request.tabstop
    BY <1>6 DEF NewWidth
  <2> QED BY <1>1, <1>3, <1>4, <1>5, <1>6, <2>1, TabStop
<1>7. CASE ~("TAB" \in CharFlags /\ request.tabstop > 0)
  <2>1. NewWidth = line_width + m_charinfo[i].width BY <1>7 DEF NewWidth
  <2> QED BY <1>1, <1>3, <1>5, <2>1
<1> QED BY <1>6, <1>7

\* What the type invariant says of the request.
LEMMA AtRequest ==
  ASSUME LineTypeOK
  PROVE  /\ request.width \in Nat /\ request.width > 0 /\ request.tabstop \in Nat
         /\ request.loose \in BOOLEAN /\ request.percent \in Nat
  BY RequestsAssumption DEF LineTypeOK

\* Where the caller goes on is an offset.
LEMMA NextOffsetIsNat == ASSUME LineTypeOK, LinesTile PROVE NextOffset \in Nat
<1>1. CASE lines = <<>> BY <1>1 DEF NextOffset
<1>2. CASE lines # <<>>
  <2>1. Len(lines) \in DOMAIN lines BY <1>2 DEF LineTypeOK
  <2>2. lines[Len(lines)] \in Line BY <2>1 DEF LineTypeOK
  <2>3. lines[Len(lines)].offset \in Nat /\ lines[Len(lines)].next \in Int
    BY <2>2 DEF Line
  <2>4. GoesOn(lines[Len(lines)],
               IF Len(lines) = 1 THEN 0 ELSE lines[Len(lines) - 1].next)
    BY <2>1 DEF LinesTile
  <2>5. lines[Len(lines)].next \in lines[Len(lines)].offset .. m_length
    BY <2>4 DEF GoesOn
  <2>6. m_length \in Nat BY DEF LineTypeOK
  <2>7. lines[Len(lines)].next \in Nat BY <2>3, <2>5, <2>6
  <2> QED BY <1>2, <2>7 DEF NextOffset
<1> QED BY <1>1, <1>2

\* Every text starts without lines.
LEMMA LineInitInvariant == AnyText => IInv
<1> SUFFICES ASSUME AnyText PROVE IInv OBVIOUS
<1>1. lines = <<>> /\ at = "idle" BY DEF AnyText, LineInit
<1>2. LineTypeOK
  <2>1. lines \in Seq(Line) BY <1>1
  <2>2. candidate_is_soft_hyphen \in BOOLEAN /\ forced_break \in BOOLEAN
    BY Zenon DEF AnyText, LineInit
  <2>3. /\ start \in Nat /\ i \in Nat /\ line_width \in Nat
        /\ candidate_end \in Int /\ candidate_line_width \in Nat
        /\ next_line_start_offset \in Int /\ extendable_width \in Nat
        /\ at \in {"idle", "scan", "end"}
    BY DEF AnyText, LineInit
  <2> QED BY <2>1, <2>2, <2>3 DEF AnyText, LineTypeOK
<1>3. LinesTile /\ LinesFit BY <1>1 DEF LinesTile, LinesFit
<1> QED BY <1>1, <1>2, <1>3 DEF IInv, AnyText

-----------------------------------------------------------------------------
\* makeLine starts a line.
LEMMA makeLineInvariant ==
  ASSUME IInv, makeLine, UNCHANGED text
  PROVE  IInv'
<1> USE DEF text
<1>1. NextOffset \in Nat BY NextOffsetIsNat DEF IInv
<1>2. LineTypeOK'
  <2>1. candidate_is_soft_hyphen' \in BOOLEAN /\ forced_break' \in BOOLEAN
    BY Zenon DEF makeLine
  <2>2. /\ start' \in Nat /\ i' \in Nat /\ line_width' \in Nat
        /\ candidate_end' \in Int /\ candidate_line_width' \in Nat
        /\ next_line_start_offset' \in Int /\ extendable_width' \in Nat
        /\ at' \in {"idle", "scan", "end"}
    BY <1>1 DEF makeLine
  <2> QED BY <2>1, <2>2 DEF IInv, LineTypeOK, makeLine, Offsets
<1>3. lines' = lines /\ start' = NextOffset /\ i' = NextOffset BY DEF makeLine
<1>4. WellMeasured' /\ LinesTile' /\ LinesFit'
  BY <1>3 DEF IInv, WellMeasured, Offsets, LinesTile, LinesFit, GoesOn
<1>5. NextOffset' = NextOffset /\ HasNextLine'
  BY <1>3 DEF NextOffset, HasNextLine, makeLine
<1>6. NextOffset < m_length /\ m_length \in Nat BY DEF makeLine, HasNextLine, IInv, LineTypeOK
<1>7. request.width \in Nat BY AtRequest DEF IInv
<1>8. Scanning'
  <2>1. NoBreakBefore(i - 1)' BY <1>1, <1>3 DEF NoBreakBefore
  <2>2. /\ start' = NextOffset' /\ i' \in start' .. m_length'
        /\ line_width' <= request.width' /\ line_width' = 0
        /\ candidate_end' = -1 /\ at' = "scan" /\ ~forced_break'
    BY <1>1, <1>3, <1>5, <1>6, <1>7 DEF makeLine
  <2> QED BY <1>5, <2>1, <2>2 DEF Scanning
<1> QED BY <1>2, <1>4, <1>8 DEF IInv

\* What a turn of the loop leaves of the candidate for the end of the line.
LEMMA CandidateKept ==
  ASSUME IInv, Scan, UNCHANGED text
  PROVE  \/ UNCHANGED candidate /\ ~IsSkipped
         \/ /\ next_line_start_offset' = i + 1
            /\ candidate_line_width' \in Nat /\ candidate_line_width' <= request.width
            /\ candidate_end' = IF IsSkipped /\ i > start THEN i - 1 ELSE i
            /\ candidate_is_soft_hyphen' \in BOOLEAN
<1>1. /\ i \in start .. m_length /\ i < m_length /\ start \in Nat /\ i \in Nat
      /\ line_width \in Nat /\ line_width <= request.width /\ m_hyphen_width \in Nat
  BY DEF IInv, LineTypeOK, Scanning, Scan
<1>2. request.width \in Nat BY AtRequest DEF IInv
<1>3. NewWidth \in Nat BY <1>1, AtChar DEF IInv
<1>4. Candidate BY DEF Scan
<1>5. CASE IsSkipped /\ SetCandidate(IF i > start THEN i - 1 ELSE start, line_width, FALSE)
  <2>1. /\ next_line_start_offset' = i + 1 /\ candidate_line_width' = line_width
        /\ candidate_end' = IF i > start THEN i - 1 ELSE start
    BY <1>5 DEF SetCandidate
  <2>2. candidate_is_soft_hyphen' \in BOOLEAN BY <1>5, Zenon DEF SetCandidate
  <2>3. i > start \/ i = start BY <1>1
  <2> QED BY <1>1, <1>5, <2>1, <2>2, <2>3
<1>6. CASE IsHyphen /\ ~Exceeds /\ ~Avoided /\ HyphenFits
           /\ SetCandidate(i, NewWidth + m_hyphen_width, TRUE)
  <2>1. /\ next_line_start_offset' = i + 1 /\ candidate_end' = i
        /\ candidate_line_width' = NewWidth + m_hyphen_width
    BY <1>6 DEF SetCandidate
  <2>2. candidate_is_soft_hyphen' \in BOOLEAN BY <1>6, Zenon DEF SetCandidate
  <2>3. ~IsSkipped BY <1>6 DEF IsHyphen
  <2>4. NewWidth + m_hyphen_width <= request.width BY <1>6 DEF HyphenFits
  <2>5. NewWidth + m_hyphen_width \in Nat BY <1>1, <1>3
  <2> QED BY <2>1, <2>2, <2>3, <2>4, <2>5
<1>7. CASE IsOther /\ ~Exceeds /\ SetCandidate(i, NewWidth, FALSE)
  <2>1. /\ next_line_start_offset' = i + 1 /\ candidate_end' = i
        /\ candidate_line_width' = NewWidth
    BY <1>7 DEF SetCandidate
  <2>2. candidate_is_soft_hyphen' \in BOOLEAN BY <1>7, Zenon DEF SetCandidate
  <2>3. ~IsSkipped BY <1>7 DEF IsOther
  <2>4. NewWidth <= request.width BY <1>2, <1>3, <1>7 DEF Exceeds
  <2> QED BY <1>3, <2>1, <2>2, <2>3, <2>4
<1>8. CASE (~CanBreak \/ (IsHyphen /\ (Stops \/ Avoided)) \/ (IsOther /\ Exceeds))
           /\ UNCHANGED candidate
  BY <1>8 DEF IsSkipped, IsHyphen, IsOther
<1> QED BY <1>4, <1>5, <1>6, <1>7, <1>8 DEF Candidate

\* A turn of the loop keeps the types.
LEMMA ScanType ==
  ASSUME IInv, Scan, UNCHANGED text
  PROVE  LineTypeOK'
<1> USE DEF text
<1>1. /\ start \in Nat /\ i \in Nat /\ i < m_length /\ line_width \in Nat
      /\ extendable_width \in Nat
  BY DEF IInv, LineTypeOK, Scan
<1>2. NewWidth \in Nat /\ m_charinfo[i].width \in Nat BY <1>1, AtChar DEF IInv
<1>3. /\ candidate_end' \in Int /\ candidate_line_width' \in Nat
      /\ next_line_start_offset' \in Int /\ candidate_is_soft_hyphen' \in BOOLEAN
  <2>1. CASE UNCHANGED candidate BY <2>1 DEF candidate, IInv, LineTypeOK
  <2>2. CASE /\ next_line_start_offset' = i + 1
             /\ candidate_line_width' \in Nat
             /\ candidate_end' = IF IsSkipped /\ i > start THEN i - 1 ELSE i
             /\ candidate_is_soft_hyphen' \in BOOLEAN
    <3>1. i + 1 \in Int /\ i - 1 \in Int /\ i \in Int BY <1>1
    <3> QED BY <2>2, <3>1
  <2> QED BY <2>1, <2>2, CandidateKept
<1>4. forced_break' \in BOOLEAN
  <2>1. forced_break' = ("MUST_BREAK_AFTER" \in CharFlags) BY DEF Scan
  <2>2. ("MUST_BREAK_AFTER" \in CharFlags) \in BOOLEAN OBVIOUS
  <2> QED BY <2>1, <2>2
<1>5. /\ i' \in Nat /\ line_width' \in Nat /\ extendable_width' \in Nat
      /\ at' \in {"scan", "end"}
  <2>1. CASE forced_break' \/ Stops BY <1>1, <2>1 DEF Scan
  <2>2. CASE ~(forced_break' \/ Stops)
    <3>1. /\ i' = i + 1 /\ line_width' = NewWidth /\ at' = "scan"
          /\ extendable_width' = extendable_width +
               (IF "CAN_EXTEND_WIDTH" \in CharFlags THEN m_charinfo[i].width ELSE 0)
      BY <2>2 DEF Scan
    <3> QED BY <1>1, <1>2, <3>1
  <2> QED BY <2>1, <2>2
<1>6. /\ start' \in Nat /\ lines' \in Seq(Line)
      /\ m_length' \in Nat /\ m_hyphen_width' \in Nat /\ request' \in Requests
      /\ m_charinfo' \in [Offsets' -> CharInfo]
  BY DEF Scan, IInv, LineTypeOK, Offsets
<1>7. at' \in {"idle", "scan", "end"} BY <1>5
<1> QED BY <1>3, <1>4, <1>5, <1>6, <1>7 DEF LineTypeOK

\* A turn of the loop keeps what is known of the line.
LEMMA ScanScanning ==
  ASSUME IInv, Scan, UNCHANGED text
  PROVE  Scanning'
<1> USE DEF text
<1>1. /\ start \in Nat /\ i \in Nat /\ m_length \in Nat /\ i < m_length /\ i >= start
      /\ line_width \in Nat /\ line_width <= request.width
      /\ HasNextLine /\ start = NextOffset /\ ~forced_break /\ at = "scan"
  BY DEF IInv, LineTypeOK, Scanning, Scan
<1>2. request.width \in Nat BY AtRequest DEF IInv
<1>3. NewWidth \in Nat /\ i \in Offsets BY <1>1, AtChar DEF IInv
<1>4. /\ start' = start /\ lines' = lines /\ m_length' = m_length
      /\ m_charinfo' = m_charinfo /\ request' = request /\ m_hyphen_width' = m_hyphen_width
  BY DEF Scan
<1>5. HasNextLine' /\ start' = NextOffset' BY <1>1, <1>4 DEF HasNextLine, NextOffset
<1>6. NoBreakBefore(i - 1) BY <1>1 DEF IInv, Scanning
<1>7. CASE forced_break'
  <2>1. /\ at' = "end" /\ i' = i /\ line_width' = line_width
        /\ "MUST_BREAK_AFTER" \in CharFlags
    BY <1>7 DEF Scan
  <2>2. "MUST_BREAK_AFTER" \in m_charinfo[i].flags BY <2>1 DEF CharFlags
  <2>3. "SKIP_ON_BREAK" \in m_charinfo[i].flags
    BY <1>3, <2>2 DEF IInv, WellMeasured
  <2>4. IsSkipped BY <2>1, <2>3 DEF IsSkipped, CanBreak, CharFlags
  <2>5. /\ next_line_start_offset' = i + 1
        /\ candidate_line_width' <= request.width
        /\ candidate_end' = IF i > start THEN i - 1 ELSE i
    BY <2>4, CandidateKept
  <2>6. IsEmpty' <=> i = start BY <1>4, <1>7, <2>1 DEF IsEmpty
  <2>7. NoBreakBefore(i - 1)' BY <1>4, <1>6, <2>1 DEF NoBreakBefore
  <2>8. ~IsEmpty' => NoBreakBefore(candidate_end)'
    <3> SUFFICES ASSUME ~IsEmpty' PROVE NoBreakBefore(candidate_end)' OBVIOUS
    <3>1. candidate_end' = i - 1 BY <1>1, <2>5, <2>6
    <3> QED BY <1>4, <1>6, <3>1 DEF NoBreakBefore
  <2>9. CandidateFits'
    <3>1. /\ candidate_line_width' <= request.width'
          /\ next_line_start_offset' \in start' + 1 .. i' + 1
          /\ at' # "scan" /\ next_line_start_offset' <= m_length'
          /\ candidate_end' \in start' .. next_line_start_offset' - 1
      BY <1>1, <1>4, <2>1, <2>5
    <3>2. candidate_end' # next_line_start_offset' - 1 =>
            /\ candidate_end' = next_line_start_offset' - 2
            /\ "SKIP_ON_BREAK" \in m_charinfo'[next_line_start_offset' - 1].flags
      <4>1. next_line_start_offset' - 1 = i /\ next_line_start_offset' - 2 = i - 1
        BY <1>1, <2>5
      <4> QED BY <1>4, <2>3, <2>5, <4>1
    <3> QED BY <2>8, <3>1, <3>2 DEF CandidateFits
  <2>10. LoopEnd'
    <3>1. candidate_end' >= 0 BY <1>1, <2>5
    <3> QED BY <1>1, <1>4, <1>7, <2>1, <2>2, <2>3, <2>5, <3>1 DEF LoopEnd, Must, Skips
  <2>11. i' \in start' .. m_length' /\ line_width' <= request.width'
         /\ (i' = start' => line_width' = 0)
    BY <1>1, <1>4, <2>1 DEF IInv, Scanning
  <2> QED BY <1>5, <2>1, <2>7, <2>9, <2>10, <2>11 DEF Scanning
<1>8. CASE ~forced_break'
  <2>1. "MUST_BREAK_AFTER" \notin m_charinfo[i].flags BY <1>8 DEF Scan, CharFlags
  <2>2. NoBreakBefore(i)
    <3> SUFFICES ASSUME NEW j \in start .. i
                 PROVE  "MUST_BREAK_AFTER" \notin m_charinfo[j].flags
      BY DEF NoBreakBefore
    <3>1. j = i \/ j \in start .. i - 1 BY <1>1
    <3> QED BY <1>6, <2>1, <3>1 DEF NoBreakBefore
  <2>3. \/ Stops /\ at' = "end" /\ i' = i /\ line_width' = line_width
        \/ ~Stops /\ at' = "scan" /\ i' = i + 1 /\ line_width' = NewWidth
    BY <1>1, <1>8 DEF Scan
  <2>4. i' \in start' .. m_length' /\ line_width' <= request.width'
        /\ (i' = start' => line_width' = 0)
    <3>1. CASE i' = i /\ line_width' = line_width
      BY <1>1, <1>4, <3>1 DEF IInv, Scanning
    <3>2. CASE ~Stops /\ i' = i + 1 /\ line_width' = NewWidth
      <4>1. NewWidth <= request.width BY <1>2, <1>3, <3>2 DEF Stops, Exceeds
      <4> QED BY <1>1, <1>4, <3>2, <4>1
    <3> QED BY <2>3, <3>1, <3>2
  <2>5. NoBreakBefore(i - 1)'
    <3>1. i' - 1 <= i /\ i' - 1 \in Int BY <1>1, <2>3
    <3>2. \A j \in start .. i' - 1 : j \in start .. i BY <1>1, <3>1
    <3> QED BY <1>4, <2>2, <3>2 DEF NoBreakBefore
  <2>6. candidate_end' = -1 \/ CandidateFits'
    <3>1. CASE UNCHANGED candidate /\ candidate_end = -1 BY <3>1 DEF candidate
    <3>2. CASE UNCHANGED candidate /\ candidate_end # -1
      <4>1. CandidateFits BY <1>1, <3>2 DEF IInv, Scanning
      <4>2. /\ next_line_start_offset' = next_line_start_offset
            /\ candidate_end' = candidate_end
            /\ candidate_line_width' = candidate_line_width
        BY <3>2 DEF candidate
      <4>3. next_line_start_offset \in start + 1 .. i BY <1>1, <4>1 DEF CandidateFits
      <4>4. next_line_start_offset' \in start' + 1 .. i' + 1
            /\ next_line_start_offset' <= i' /\ next_line_start_offset' <= m_length'
        BY <1>1, <1>4, <2>3, <4>2, <4>3
      <4>5. ~IsEmpty /\ NoBreakBefore(candidate_end)
        BY <1>1, <4>1 DEF CandidateFits, IsEmpty
      <4>6. NoBreakBefore(candidate_end)' BY <1>4, <4>2, <4>5 DEF NoBreakBefore
      <4> QED BY <1>4, <4>1, <4>2, <4>4, <4>6 DEF CandidateFits
    <3>3. CASE /\ next_line_start_offset' = i + 1
               /\ candidate_line_width' \in Nat /\ candidate_line_width' <= request.width
               /\ candidate_end' = IF IsSkipped /\ i > start THEN i - 1 ELSE i
      <4>1. /\ candidate_line_width' <= request.width'
            /\ next_line_start_offset' \in start' + 1 .. i' + 1
            /\ (at' = "scan" => next_line_start_offset' <= i')
            /\ next_line_start_offset' <= m_length'
            /\ candidate_end' \in start' .. next_line_start_offset' - 1
        BY <1>1, <1>4, <2>3, <3>3
      <4>2. candidate_end' # next_line_start_offset' - 1 =>
              /\ candidate_end' = next_line_start_offset' - 2
              /\ "SKIP_ON_BREAK" \in m_charinfo'[next_line_start_offset' - 1].flags
        <5>1. next_line_start_offset' - 1 = i /\ next_line_start_offset' - 2 = i - 1
          BY <1>1, <3>3
        <5>2. IsSkipped => "SKIP_ON_BREAK" \in m_charinfo[i].flags
          BY DEF IsSkipped, CharFlags
        <5> QED BY <1>4, <3>3, <5>1, <5>2
      <4>3. NoBreakBefore(candidate_end)'
        <5>1. candidate_end' = i \/ candidate_end' = i - 1 BY <3>3
        <5> QED BY <1>4, <1>6, <2>2, <5>1 DEF NoBreakBefore
      <4> QED BY <4>1, <4>2, <4>3 DEF CandidateFits
    <3> QED BY <3>1, <3>2, <3>3, CandidateKept
  <2>7. at' = "end" => LoopEnd'
    <3> SUFFICES ASSUME at' = "end" PROVE LoopEnd' OBVIOUS
    <3>1. Stops /\ i' = i /\ line_width' = line_width BY <2>3
    <3>2. Exceeds \/ (IsHyphen /\ ~HyphenFits) BY <3>1 DEF Stops
    <3>3. (Exceeds \/ (IsHyphen /\ ~HyphenFits))'
      BY <1>4, <3>1, <3>2
      DEF Exceeds, IsHyphen, HyphenFits, NewWidth, CharFlags, CanBreak, IsSkipped
    <3> QED BY <1>8, <3>3 DEF LoopEnd
  <2> QED BY <1>5, <1>8, <2>4, <2>5, <2>6, <2>7 DEF Scanning
<1> QED BY <1>7, <1>8

\* A turn of the loop leaves the lines made so far alone.
LEMMA ScanInvariant ==
  ASSUME IInv, Scan, UNCHANGED text
  PROVE  IInv'
<1>1. lines' = lines BY DEF Scan
<1>2. WellMeasured' /\ LinesTile' /\ LinesFit'
  BY <1>1 DEF text, IInv, WellMeasured, Offsets, LinesTile, LinesFit, GoesOn
<1> QED BY <1>2, ScanType, ScanScanning DEF IInv

\* Nor does its end with the text.
LEMMA ScanOverInvariant ==
  ASSUME IInv, ScanOver, UNCHANGED text
  PROVE  IInv'
<1> USE DEF text
<1>1. /\ at = "scan" /\ at' = "end" /\ i = m_length
      /\ UNCHANGED <<start, i, line_width, candidate_end, candidate_line_width,
                     next_line_start_offset, candidate_is_soft_hyphen,
                     extendable_width, forced_break, lines>>
  BY DEF ScanOver, candidate
<1>2. LineTypeOK' BY <1>1 DEF IInv, LineTypeOK, Offsets
<1>3. WellMeasured' /\ LinesTile' /\ LinesFit'
  BY <1>1 DEF IInv, WellMeasured, Offsets, LinesTile, LinesFit, GoesOn
<1>4. Scanning BY <1>1 DEF IInv
<1>5. HasNextLine' /\ start' = NextOffset'
  BY <1>1, <1>4 DEF Scanning, HasNextLine, NextOffset
<1>6. candidate_end' = -1 \/ CandidateFits'
  BY <1>1, <1>4 DEF Scanning, CandidateFits, IsEmpty, NoBreakBefore
<1>7. ~forced_break' /\ ~(i' < m_length')
  BY <1>1, <1>4 DEF Scanning, IInv, LineTypeOK
<1>8. NoBreakBefore(i - 1)' BY <1>1, <1>4 DEF Scanning, NoBreakBefore
<1>9. Scanning'
  BY <1>1, <1>4, <1>5, <1>6, <1>7, <1>8 DEF Scanning, LoopEnd
<1> QED BY <1>2, <1>3, <1>9 DEF IInv

-----------------------------------------------------------------------------
\* The line returned follows the last one, and fits.
LEMMA MadeLineGoesOn ==
  ASSUME IInv, at = "end"
  PROVE  MadeLine \in Line /\ GoesOn(MadeLine, start) /\ MadeLine.width <= request.width
<1>1. /\ start \in Nat /\ i \in Nat /\ m_length \in Nat /\ i \in start .. m_length
      /\ line_width \in Nat /\ line_width <= request.width /\ NoBreakBefore(i - 1)
      /\ candidate_line_width \in Nat /\ candidate_end \in Int
      /\ next_line_start_offset \in Int
      /\ HasNextLine /\ start = NextOffset /\ start < m_length
      /\ candidate_end = -1 \/ CandidateFits
      /\ LoopEnd /\ (i = start => line_width = 0)
  BY DEF IInv, LineTypeOK, Scanning, HasNextLine
<1>2. request.width \in Nat /\ request.tabstop \in Nat BY AtRequest DEF IInv
<1>3. /\ (~forced_break /\ i # m_length) \in BOOLEAN /\ (TakesAll /\ i # m_length) \in BOOLEAN
  BY DEF TakesAll
<1>4. /\ MadeLine.offset = start
      /\ MadeLine.end_offset = (CASE IsEmpty -> start - 1 [] TakesAll -> i - 1
                                  [] OTHER -> candidate_end)
      /\ MadeLine.width = (CASE IsEmpty -> 0 [] TakesAll -> line_width
                             [] OTHER -> candidate_line_width)
      /\ MadeLine.next = (IF TakesAll THEN i ELSE next_line_start_offset)
      /\ MadeLine.no_allowed_break_met = (TakesAll /\ i # m_length)
  BY DEF MadeLine
<1>5. CASE IsEmpty
  <2>1. forced_break /\ i = start /\ ~TakesAll BY <1>5 DEF IsEmpty, TakesAll
  <2>2. /\ next_line_start_offset = i + 1 /\ i < m_length
        /\ "SKIP_ON_BREAK" \in m_charinfo[i].flags
    BY <1>1, <2>1 DEF LoopEnd, Skips
  <2>3. /\ MadeLine.end_offset = start - 1 /\ MadeLine.width = 0
        /\ MadeLine.next = start + 1
    BY <1>4, <1>5, <2>1, <2>2
  <2>4. MadeLine \in Line BY <1>1, <1>3, <1>5, <2>1, <2>2 DEF MadeLine, Line
  <2>5. MadeLine.next - 1 = start BY <1>1, <2>3
  <2>6. \A j \in MadeLine.offset .. MadeLine.end_offset : FALSE BY <1>1, <1>4, <2>3
  <2>7. GoesOn(MadeLine, start)
    BY <1>1, <1>4, <2>1, <2>2, <2>3, <2>5, <2>6 DEF GoesOn
  <2> QED BY <1>2, <2>3, <2>4, <2>7
<1>6. CASE TakesAll
  <2>1. ~forced_break /\ ~IsEmpty /\ (candidate_end < 0 \/ i = m_length)
    BY <1>6 DEF TakesAll, IsEmpty
  <2>2. MadeLine.end_offset = i - 1 /\ MadeLine.width = line_width /\ MadeLine.next = i
    BY <1>4, <1>6, <2>1
  <2>3. MadeLine \in Line BY <1>1, <1>3, <1>6, <2>1 DEF MadeLine, Line
  <2>4. i = start =>
          /\ MadeLine.no_allowed_break_met
          /\ \/ m_charinfo[start].width > request.width
             \/ "TAB" \in m_charinfo[start].flags /\ request.tabstop > request.width
             \/ /\ m_charinfo[start].soft
                /\ m_charinfo[start].width + m_hyphen_width > request.width
    <3> SUFFICES ASSUME i = start
                 PROVE  /\ MadeLine.no_allowed_break_met
                        /\ \/ m_charinfo[i].width > request.width
                           \/ "TAB" \in m_charinfo[i].flags /\ request.tabstop > request.width
                           \/ /\ m_charinfo[i].soft
                              /\ m_charinfo[i].width + m_hyphen_width > request.width
      OBVIOUS
    <3>1. i < m_length /\ i # m_length BY <1>1
    <3>2. Exceeds \/ (IsHyphen /\ ~HyphenFits) BY <1>1, <2>1, <3>1 DEF LoopEnd
    <3>3. line_width = 0 BY <1>1
    <3>4. i \in Offsets /\ m_charinfo[i].width \in Nat BY <3>1, AtChar DEF IInv
    <3>5. CASE "TAB" \in m_charinfo[i].flags /\ request.tabstop > 0
      <4>1. NewWidth = (0 \div request.tabstop + 1) * request.tabstop
        BY <3>3, <3>5 DEF NewWidth, CharFlags
      <4>2. NewWidth = request.tabstop BY <1>2, <3>5, <4>1, FirstTabStop
      <4>3. ~m_charinfo[i].soft BY <3>4, <3>5 DEF IInv, WellMeasured
      <4>4. Exceeds BY <3>2, <4>3 DEF IsHyphen
      <4> QED BY <1>4, <1>6, <3>1, <3>5, <4>2, <4>4 DEF Exceeds
    <3>6. CASE ~("TAB" \in m_charinfo[i].flags /\ request.tabstop > 0)
      <4>1. NewWidth = 0 + m_charinfo[i].width BY <3>3, <3>6 DEF NewWidth, CharFlags
      <4>2. NewWidth = m_charinfo[i].width BY <3>4, <4>1
      <4>3. CASE Exceeds BY <1>4, <1>6, <3>1, <4>2, <4>3 DEF Exceeds
      <4>4. CASE IsHyphen /\ ~HyphenFits
        <5>1. m_charinfo[i].soft BY <4>4 DEF IsHyphen
        <5>2. ~(m_charinfo[i].width + m_hyphen_width <= request.width)
          BY <4>2, <4>4 DEF HyphenFits
        <5>3. m_hyphen_width \in Nat BY DEF IInv, LineTypeOK
        <5>4. m_charinfo[i].width + m_hyphen_width > request.width
          BY <1>2, <3>4, <5>2, <5>3
        <5> QED BY <1>4, <1>6, <3>1, <5>1, <5>4
      <4> QED BY <3>2, <4>3, <4>4
    <3> QED BY <3>5, <3>6
  <2>5. \A j \in start .. i - 1 : "MUST_BREAK_AFTER" \notin m_charinfo[j].flags
    BY <1>1 DEF NoBreakBefore
  <2>6. GoesOn(MadeLine, start)
    BY <1>1, <1>4, <2>2, <2>4, <2>5 DEF GoesOn
  <2> QED BY <1>1, <2>2, <2>3, <2>6
<1>7. CASE ~IsEmpty /\ ~TakesAll
  <2>1. candidate_end # -1
    <3>1. CASE forced_break BY <1>1, <3>1 DEF LoopEnd
    <3>2. CASE ~forced_break BY <1>1, <1>7, <3>2 DEF TakesAll
    <3> QED BY <3>1, <3>2
  <2>2. CandidateFits BY <1>1, <2>1
  <2>3. /\ MadeLine.end_offset = candidate_end /\ MadeLine.width = candidate_line_width
        /\ MadeLine.next = next_line_start_offset
    BY <1>4, <1>7
  <2>4. /\ candidate_line_width <= request.width
        /\ next_line_start_offset \in start + 1 .. m_length
        /\ candidate_end \in start .. next_line_start_offset - 1
        /\ candidate_end # next_line_start_offset - 1 =>
             /\ candidate_end = next_line_start_offset - 2
             /\ "SKIP_ON_BREAK" \in m_charinfo[next_line_start_offset - 1].flags
        /\ NoBreakBefore(candidate_end)
    BY <1>1, <1>7, <2>2 DEF CandidateFits
  <2>5. next_line_start_offset \in Nat BY <1>1, <2>4
  <2>6. MadeLine \in Line BY <1>1, <1>3, <1>7, <2>5 DEF MadeLine, Line
  <2>7. GoesOn(MadeLine, start)
    <3>1. /\ MadeLine.next \in MadeLine.offset .. m_length
          /\ MadeLine.end_offset \in MadeLine.offset - 1 .. MadeLine.next - 1
          /\ MadeLine.next # MadeLine.offset
      BY <1>1, <1>4, <2>3, <2>4
    <3> QED BY <1>4, <2>3, <2>4, <3>1 DEF GoesOn, NoBreakBefore
  <2> QED BY <2>3, <2>4, <2>6, <2>7
<1> QED BY <1>5, <1>6, <1>7

\* makeLine returns.
LEMMA ReturnInvariant ==
  ASSUME IInv, Return, UNCHANGED text
  PROVE  IInv'
<1> USE DEF text
<1>1. /\ at = "end" /\ at' = "idle" /\ lines' = Append(lines, MadeLine)
      /\ UNCHANGED <<start, i, line_width, candidate_end, candidate_line_width,
                     next_line_start_offset, candidate_is_soft_hyphen,
                     extendable_width, forced_break>>
  BY DEF Return, candidate
<1>2. /\ MadeLine \in Line /\ GoesOn(MadeLine, start) /\ MadeLine.width <= request.width
  BY <1>1, MadeLineGoesOn
<1>3. lines \in Seq(Line) /\ Len(lines) \in Nat BY DEF IInv, LineTypeOK
<1>4. lines' \in Seq(Line) BY <1>1, <1>2, <1>3
<1>5. LineTypeOK' BY <1>1, <1>4 DEF IInv, LineTypeOK, Offsets
<1>6. /\ DOMAIN lines' = 1 .. Len(lines) + 1 /\ DOMAIN lines = 1 .. Len(lines)
      /\ \A k \in 1 .. Len(lines) : lines'[k] = lines[k]
      /\ lines'[Len(lines) + 1] = MadeLine
  BY <1>1, <1>2, <1>3
<1>7. start = NextOffset BY <1>1 DEF IInv, Scanning
<1>8. LinesTile'
  <2> SUFFICES ASSUME NEW k \in DOMAIN lines'
               PROVE  GoesOn(lines'[k], IF k = 1 THEN 0 ELSE lines'[k - 1].next)
    BY DEF LinesTile, GoesOn
  <2>1. CASE k \in 1 .. Len(lines)
    <3>1. GoesOn(lines[k], IF k = 1 THEN 0 ELSE lines[k - 1].next)
      BY <1>6, <2>1 DEF IInv, LinesTile
    <3>2. k = 1 \/ k - 1 \in 1 .. Len(lines) BY <1>3, <2>1
    <3> QED BY <1>6, <2>1, <3>1, <3>2
  <2>2. CASE k = Len(lines) + 1
    <3>1. CASE lines = <<>>
      <4>1. k = 1 /\ NextOffset = 0 BY <2>2, <3>1 DEF NextOffset
      <4> QED BY <1>2, <1>6, <1>7, <2>2, <4>1
    <3>2. CASE lines # <<>>
      <4>1. Len(lines) # 0 BY <1>3, <3>2
      <4>2. k # 1 /\ k - 1 = Len(lines) /\ k - 1 \in 1 .. Len(lines) BY <1>3, <2>2, <4>1
      <4>3. NextOffset = lines[k - 1].next BY <3>2, <4>2 DEF NextOffset
      <4> QED BY <1>2, <1>6, <1>7, <2>2, <4>2, <4>3
    <3> QED BY <3>1, <3>2
  <2> QED BY <1>3, <1>6, <2>1, <2>2
<1>9. LinesFit'
  <2> SUFFICES ASSUME NEW k \in DOMAIN lines' PROVE lines'[k].width <= request.width
    BY DEF LinesFit
  <2>1. k \in 1 .. Len(lines) \/ k = Len(lines) + 1 BY <1>3, <1>6
  <2> QED BY <1>2, <1>6, <2>1 DEF IInv, LinesFit
<1>10. WellMeasured' BY DEF IInv, WellMeasured, Offsets
<1> QED BY <1>1, <1>5, <1>8, <1>9, <1>10 DEF IInv

\* Every step keeps what holds at every turn.
LEMMA LineNextInvariant ==
  ASSUME IInv, [LineNext /\ UNCHANGED text]_<<text, lineVars>>
  PROVE  IInv'
<1>1. CASE makeLine /\ UNCHANGED text BY <1>1, makeLineInvariant
<1>2. CASE Scan /\ UNCHANGED text BY <1>2, ScanInvariant
<1>3. CASE ScanOver /\ UNCHANGED text BY <1>3, ScanOverInvariant
<1>4. CASE Return /\ UNCHANGED text BY <1>4, ReturnInvariant
<1>5. CASE UNCHANGED <<text, lineVars>>
  <2> USE <1>5 DEF text, lineVars, candidate
  <2>1. LineTypeOK' /\ WellMeasured' /\ LinesTile' /\ LinesFit'
    BY DEF IInv, LineTypeOK, WellMeasured, Offsets, LinesTile, LinesFit, GoesOn
  <2>2. Scanning => Scanning'
    BY DEF Scanning, HasNextLine, NextOffset, NoBreakBefore, CandidateFits, IsEmpty,
           LoopEnd, Must, Skips, Exceeds, IsHyphen, HyphenFits, NewWidth, CharFlags, CanBreak,
           IsSkipped
  <2> QED BY <2>1, <2>2 DEF IInv
<1> QED BY <1>1, <1>2, <1>3, <1>4, <1>5 DEF LineNext

\* What holds at every turn holds of every line made of any text.
THEOREM LineInvariance == LineSpec => []IInv
<1>1. IInv /\ [LineNext /\ UNCHANGED text]_<<text, lineVars>> => IInv' BY LineNextInvariant
<1> QED BY <1>1, LineInitInvariant, PTL DEF LineSpec

\* Lines follow each other without losing or repeating a character, whatever
\* the text, its widths and the request.
THEOREM LinesFollow == LineSpec => []LinesTile
<1>1. IInv => LinesTile BY DEF IInv
<1> QED BY <1>1, LineInvariance, PTL

\* No line is wider than asked for, a final hyphen included.
THEOREM LinesAreNotWider == LineSpec => []LinesFit
<1>1. IInv => LinesFit BY DEF IInv
<1> QED BY <1>1, LineInvariance, PTL

-----------------------------------------------------------------------------
(* Induction, as facts about sets of numbers, and recursive functions.     *)

\* What holds of 0, and of k + 1 if of k, holds up to n.
LEMMA Induct ==
  ASSUME NEW n \in Nat, NEW T, 0 \in T, \A k \in 0 .. n - 1 : k \in T => k + 1 \in T
  PROVE  \A k \in 0 .. n : k \in T
<1> DEFINE Bad == {k \in 0 .. n : k \notin T}
<1>1. ASSUME Bad # {} PROVE FALSE
  <2>1. \E x \in Bad : \A y \in Bad : ~(<<y, x>> \in OpToRel(<, Nat))
    <3>1. Bad \in SUBSET Nat BY SMT
    <3> QED BY <1>1, <3>1, NatLessThanWellFounded, WFMin
  <2>2. \A x, y \in Nat : <<y, x>> \in OpToRel(<, Nat) <=> y < x BY DEF OpToRel
  <2>3. PICK x \in Bad : \A y \in Bad : ~(<<y, x>> \in OpToRel(<, Nat)) BY <2>1
  <2>4. x \in 0 .. n /\ x \notin T /\ x # 0 /\ x \in Nat
    <3>1. x \in Bad BY <2>3
    <3>2. x \in 0 .. n /\ x \notin T BY <3>1
    <3>3. x # 0 BY <3>2
    <3> QED BY <3>2, <3>3
  <2>5. x - 1 \in 0 .. n - 1 /\ (x - 1) + 1 = x /\ x - 1 \in Nat /\ x - 1 < x
    BY <2>4
  <2>6. x - 1 \in Bad
    <3>1. x - 1 \notin T BY <2>4, <2>5
    <3> QED BY <2>5, <3>1
  <2> QED BY <2>2, <2>3, <2>4, <2>5, <2>6
<1> QED BY <1>1

\* The function given by its first value and by a step.
Iterates(f, n, a, G) == \A k \in 0 .. n : f[k] = IF k = 0 THEN a ELSE G[<<k, f[k - 1]>>]

\* There is one.
LEMMA Recursion ==
  ASSUME NEW n \in Nat, NEW S, NEW a \in S, NEW G \in [(1 .. n) \X S -> S]
  PROVE  \E f \in [0 .. n -> S] : Iterates(f, n, a, G)
<1> DEFINE Good(m) == \E f \in [0 .. m -> S] : Iterates(f, m, a, G)
           T == {m \in Nat : Good(m)}
<1>1. 0 \in T
  <2>1. [k \in 0 .. 0 |-> a] \in [0 .. 0 -> S] OBVIOUS
  <2>2. \A k \in 0 .. 0 : k = 0 OBVIOUS
  <2> QED BY <2>1, <2>2 DEF Iterates
<1>2. ASSUME NEW m \in 0 .. n - 1, m \in T PROVE m + 1 \in T
  <2>1. PICK f \in [0 .. m -> S] :
          \A k \in 0 .. m : f[k] = IF k = 0 THEN a ELSE G[<<k, f[k - 1]>>]
    BY <1>2 DEF Iterates
  <2>2. m \in Nat /\ m \in 0 .. m /\ m + 1 \in 1 .. n /\ m + 1 # 0 /\ (m + 1) - 1 = m
    OBVIOUS
  <2>3. f[m] \in S BY <2>1, <2>2
  <2>4. <<m + 1, f[m]>> \in (1 .. n) \X S BY <2>2, <2>3
  <2>5. G[<<m + 1, f[m]>>] \in S BY <2>4
  <2> DEFINE g == [k \in 0 .. m + 1 |-> IF k = m + 1 THEN G[<<m + 1, f[m]>>] ELSE f[k]]
  <2>6. \A k \in 0 .. m + 1 : k = m + 1 \/ (k \in 0 .. m /\ k # m + 1) BY <2>2
  <2>7. g \in [0 .. m + 1 -> S]
    <3>1. \A k \in 0 .. m : f[k] \in S BY <2>1
    <3> QED BY <2>5, <2>6, <3>1
  <2>8. \A k \in 0 .. m : g[k] = f[k] /\ (k # 0 => g[k - 1] = f[k - 1])
    <3>1. \A k \in 0 .. m : /\ k \in 0 .. m + 1 /\ k # m + 1
                            /\ k # 0 => k - 1 \in 0 .. m + 1 /\ k - 1 # m + 1
      BY <2>2
    <3> QED BY <3>1
  <2>9. g[m + 1] = G[<<m + 1, g[m]>>]
    <3>1. m \in 0 .. m + 1 /\ m # m + 1 /\ m + 1 \in 0 .. m + 1 BY <2>2
    <3> QED BY <3>1
  <2>10. \A k \in 0 .. m + 1 : g[k] = IF k = 0 THEN a ELSE G[<<k, g[k - 1]>>]
    <3> HIDE DEF g
    <3> SUFFICES ASSUME NEW k \in 0 .. m + 1
                 PROVE  g[k] = IF k = 0 THEN a ELSE G[<<k, g[k - 1]>>]
      OBVIOUS
    <3>1. CASE k = m + 1 BY <2>2, <2>9, <3>1
    <3>2. CASE k # m + 1
      <4>1. k \in 0 .. m BY <2>6, <3>2
      <4>2. f[k] = IF k = 0 THEN a ELSE G[<<k, f[k - 1]>>] BY <2>1, <4>1
      <4> QED BY <2>8, <4>1, <4>2
    <3> QED BY <3>1, <3>2
  <2>11. Good(m + 1)
    <3> HIDE DEF g
    <3> QED BY <2>7, <2>10 DEF Iterates
  <2>12. m + 1 \in Nat BY <2>2
  <2> QED BY <2>11, <2>12
<1>3. \A m \in 0 .. n : m \in T
  <2> HIDE DEF T
  <2> QED BY <1>1, <1>2, Induct
<1>4. n \in 0 .. n OBVIOUS
<1> QED BY <1>3, <1>4

-----------------------------------------------------------------------------
(* Widths.                                                                 *)

IsWidths(f, info, n) ==
  f = [k \in 0 .. n |-> IF k = 0 THEN 0 ELSE f[k - 1] + info[k - 1].width]

\* The sums there are, and each adds a character's width to the last.
LEMMA WidthsAdd ==
  ASSUME NEW n \in Nat, NEW info, \A j \in 0 .. n - 1 : info[j].width \in Nat
  PROVE  /\ Widths(info, n)[0] = 0
         /\ \A k \in 0 .. n : Widths(info, n)[k] \in Nat
         /\ \A k \in 0 .. n - 1 : Widths(info, n)[k + 1] = Widths(info, n)[k] + info[k].width
<1> DEFINE G == [p \in (1 .. n) \X Nat |-> p[2] + info[p[1] - 1].width]
           F == Widths(info, n)
<1>1. G \in [(1 .. n) \X Nat -> Nat]
  <2>1. \A p \in (1 .. n) \X Nat : p[2] + info[p[1] - 1].width \in Nat
    <3> TAKE p \in (1 .. n) \X Nat
    <3>1. p[1] \in 1 .. n /\ p[2] \in Nat OBVIOUS
    <3>2. p[1] - 1 \in 0 .. n - 1 BY <3>1
    <3> QED BY <3>1, <3>2
  <2> QED BY <2>1
<1>2. \E f \in [0 .. n -> Nat] : Iterates(f, n, 0, G)
  <2> HIDE DEF G
  <2> QED BY <1>1, Recursion
<1>3. PICK f \in [0 .. n -> Nat] :
        \A k \in 0 .. n : f[k] = IF k = 0 THEN 0 ELSE G[<<k, f[k - 1]>>]
  <2> HIDE DEF G
  <2> QED BY <1>2 DEF Iterates
<1>4. \A k \in 0 .. n : k # 0 => G[<<k, f[k - 1]>>] = f[k - 1] + info[k - 1].width
  <2> SUFFICES ASSUME NEW k \in 0 .. n, k # 0
               PROVE  G[<<k, f[k - 1]>>] = f[k - 1] + info[k - 1].width
    OBVIOUS
  <2>1. k \in 1 .. n /\ k - 1 \in 0 .. n OBVIOUS
  <2>2. f[k - 1] \in Nat BY <1>3, <2>1
  <2>3. <<k, f[k - 1]>> \in (1 .. n) \X Nat BY <2>1, <2>2
  <2> QED BY <2>3
<1> HIDE DEF G
<1>5. IsWidths(f, info, n) BY <1>3, <1>4 DEF IsWidths
<1>6. F = CHOOSE g : IsWidths(g, info, n) BY DEF Widths, IsWidths
<1>7. IsWidths(F, info, n) BY <1>5, <1>6
<1> HIDE DEF F
<1>8. /\ F[0] = 0
      /\ \A k \in 0 .. n - 1 : F[k + 1] = F[k] + info[k].width
  <2>1. \A k \in 0 .. n : F[k] = IF k = 0 THEN 0 ELSE F[k - 1] + info[k - 1].width
    BY <1>7, Zenon DEF IsWidths
  <2>2. 0 \in 0 .. n OBVIOUS
  <2>3. \A k \in 0 .. n - 1 : k + 1 \in 0 .. n /\ k + 1 # 0 /\ (k + 1) - 1 = k OBVIOUS
  <2>4. F[0] = 0 BY <2>1, <2>2
  <2>5. ASSUME NEW k \in 0 .. n - 1 PROVE F[k + 1] = F[k] + info[k].width
    <3>1. F[k + 1] = F[(k + 1) - 1] + info[(k + 1) - 1].width BY <2>1, <2>3
    <3> QED BY <2>3, <3>1
  <2> QED BY <2>4, <2>5
<1>9. \A k \in 0 .. n : F[k] \in Nat
  <2> DEFINE T == {k \in 0 .. n : F[k] \in Nat}
  <2>1. 0 \in T BY <1>8
  <2>2. ASSUME NEW k \in 0 .. n - 1, k \in T PROVE k + 1 \in T
    <3>1. k + 1 \in 0 .. n OBVIOUS
    <3>2. F[k] \in Nat /\ info[k].width \in Nat BY <2>2
    <3>3. F[k + 1] = F[k] + info[k].width BY <1>8
    <3>4. F[k + 1] \in Nat BY <3>2, <3>3
    <3> QED BY <3>1, <3>4
  <2>3. \A k \in 0 .. n : k \in T
    <3> HIDE DEF T
    <3> QED BY <2>1, <2>2, Induct
  <2> QED BY <2>3
<1> QED BY <1>8, <1>9 DEF F

\* Sums of more characters are not less.
LEMMA WidthsGrow ==
  ASSUME NEW n \in Nat, NEW info, \A j \in 0 .. n - 1 : info[j].width \in Nat,
         NEW from \in 0 .. n, NEW end \in from .. n
  PROVE  Widths(info, n)[from] <= Widths(info, n)[end]
<1> DEFINE F == Widths(info, n)
           T == {d \in 0 .. n - from : F[from] <= F[from + d]}
<1>1. /\ \A k \in 0 .. n : F[k] \in Nat
      /\ \A k \in 0 .. n - 1 : F[k + 1] = F[k] + info[k].width
  BY WidthsAdd
<1> HIDE DEF F
<1>2. 0 \in T
  <2>1. from + 0 = from /\ F[from] \in Nat /\ 0 \in 0 .. n - from BY <1>1
  <2>2. F[from] <= F[from] BY <2>1
  <2> QED BY <2>1, <2>2
<1>3. ASSUME NEW d \in 0 .. (n - from) - 1, d \in T PROVE d + 1 \in T
  <2>1. /\ from + d \in 0 .. n - 1 /\ from + (d + 1) = (from + d) + 1
        /\ d + 1 \in 0 .. n - from /\ from + d \in 0 .. n
    OBVIOUS
  <2>2. F[from] <= F[from + d] BY <1>3
  <2>3. F[from + (d + 1)] = F[from + d] + info[from + d].width BY <1>1, <2>1
  <2>4. F[from] \in Nat /\ F[from + d] \in Nat /\ info[from + d].width \in Nat BY <1>1, <2>1
  <2>5. F[from] <= F[from + (d + 1)] BY <2>2, <2>3, <2>4
  <2> QED BY <2>1, <2>5
<1>4. \A d \in 0 .. n - from : d \in T
  <2>1. n - from \in Nat OBVIOUS
  <2> HIDE DEF T
  <2> QED BY <1>2, <1>3, <2>1, Induct
<1>5. end - from \in 0 .. n - from /\ from + (end - from) = end OBVIOUS
<1>6. F[from] <= F[end] BY <1>4, <1>5
<1> QED BY <1>6 DEF F

\* Widths of a text: of nothing, of one more character, of more characters.
LEMMA WidthFacts ==
  ASSUME LineTypeOK
  PROVE  /\ \A a, b \in 0 .. m_length : Width(a, b) \in Int /\ Width(a, a) = 0
         /\ \A a \in 0 .. m_length : \A k \in 0 .. m_length - 1 :
              /\ Width(a, k + 1) = Width(a, k) + m_charinfo[k].width
              /\ Width(k, a) = Width(k + 1, a) + m_charinfo[k].width
         /\ \A a, b \in 0 .. m_length : \A c \in a .. m_length :
              a <= c => Width(b, a) <= Width(b, c) /\ Width(c, b) <= Width(a, b)
<1> DEFINE n == m_length
           S == Widths(m_charinfo, n)
<1>1. n \in Nat /\ \A j \in 0 .. n - 1 : m_charinfo[j].width \in Nat
  <2>1. \A j \in 0 .. n - 1 : m_charinfo[j] \in CharInfo BY DEF LineTypeOK, Offsets
  <2> QED BY <2>1 DEF CharInfo, LineTypeOK
<1>2. /\ \A k \in 0 .. n : S[k] \in Nat
      /\ \A k \in 0 .. n - 1 : S[k + 1] = S[k] + m_charinfo[k].width
  BY <1>1, WidthsAdd
<1>3. \A h \in 0 .. n : \A j \in h .. n : S[h] <= S[j] BY <1>1, WidthsGrow
<1>4. \A a, b : Width(a, b) = S[b] - S[a] BY DEF Width, WidthOf
<1> HIDE DEF S
<1>5. ASSUME NEW a \in 0 .. n, NEW b \in 0 .. n
      PROVE  Width(a, b) \in Int /\ Width(a, a) = 0
  BY <1>2, <1>4
<1>6. ASSUME NEW a \in 0 .. n, NEW k \in 0 .. n - 1
      PROVE  /\ Width(a, k + 1) = Width(a, k) + m_charinfo[k].width
             /\ Width(k, a) = Width(k + 1, a) + m_charinfo[k].width
  <2>1. k \in 0 .. n /\ k + 1 \in 0 .. n BY <1>1
  <2>2. /\ S[a] \in Nat /\ S[k] \in Nat /\ S[k + 1] \in Nat /\ m_charinfo[k].width \in Nat
        /\ S[k + 1] = S[k] + m_charinfo[k].width
    BY <1>1, <1>2, <2>1
  <2>3. /\ Width(a, k + 1) = S[k + 1] - S[a] /\ Width(a, k) = S[k] - S[a]
        /\ Width(k, a) = S[a] - S[k] /\ Width(k + 1, a) = S[a] - S[k + 1]
    BY <1>4
  <2> QED BY <2>2, <2>3
<1>7. ASSUME NEW a \in 0 .. n, NEW b \in 0 .. n, NEW c \in a .. n
      PROVE  Width(b, a) <= Width(b, c) /\ Width(c, b) <= Width(a, b)
  <2>1. c \in 0 .. n BY <1>1
  <2>2. S[a] \in Nat /\ S[b] \in Nat /\ S[c] \in Nat /\ S[a] <= S[c] BY <1>2, <1>3, <2>1
  <2>3. /\ Width(b, a) = S[a] - S[b] /\ Width(b, c) = S[c] - S[b]
        /\ Width(c, b) = S[b] - S[c] /\ Width(a, b) = S[b] - S[a]
    BY <1>4
  <2> QED BY <2>2, <2>3
<1> QED BY <1>5, <1>6, <1>7

Plain == request.tabstop = 0 /\ request.percent = 0

\* At a character of the line, the loop's conditions are those of a place for
\* the line's end.
LEMMA AtPlace ==
  ASSUME IInv, at # "idle", i < m_length, Plain, line_width = Width(start, i)
  PROVE  /\ NewWidth = Width(start, i + 1)
         /\ CanBreak <=> Ends(i)
         /\ Must(i) <=> "MUST_BREAK_AFTER" \in CharFlags
         /\ IsSkipped => Fits(start, i)
         /\ IsHyphen => (Fits(start, i) <=> HyphenFits)
         /\ IsOther => (Fits(start, i) <=> ~Exceeds)
         /\ HyphenFits => ~Exceeds
         /\ ~Avoided
         /\ Over(start, i) <=> Must(i) \/ (IsHyphen /\ ~HyphenFits)
<1>1. /\ m_charinfo[i].width \in Nat /\ NewWidth \in Nat /\ i \in Offsets
      /\ m_hyphen_width \in Nat /\ m_length \in Nat
  BY AtChar DEF IInv, LineTypeOK
<1>2. request.width \in Nat /\ request.percent = 0 /\ request.tabstop = 0 BY AtRequest DEF IInv, Plain
<1>3. start \in 0 .. m_length /\ i \in 0 .. m_length - 1 /\ line_width <= request.width
  BY <1>1 DEF IInv, Scanning, LineTypeOK
<1>4. /\ Width(start, i + 1) = Width(start, i) + m_charinfo[i].width
  BY <1>3, WidthFacts DEF IInv
<1>5. NewWidth = Width(start, i + 1) BY <1>2, <1>4 DEF NewWidth
<1>6. CanBreak <=> Ends(i)
  <2>1. CASE request.loose BY <2>1 DEF CanBreak, CharFlags, Ends
  <2>2. CASE ~request.loose
    <3>1. CharFlags = m_charinfo[i].flags BY <2>2 DEF CharFlags
    <3> QED BY <2>2, <3>1 DEF CanBreak, Ends
  <2> QED BY <2>1, <2>2
<1>7. /\ Must(i) <=> "MUST_BREAK_AFTER" \in CharFlags
      /\ Skips(i) <=> "SKIP_ON_BREAK" \in CharFlags
  BY DEF Must, Skips, CharFlags
<1>8. m_charinfo[i].soft => ~Skips(i)
  <2>1. m_charinfo[i].soft => {"TAB", "SKIP_ON_BREAK"} \cap m_charinfo[i].flags = {}
    BY <1>1 DEF IInv, WellMeasured
  <2> QED BY <2>1 DEF Skips
<1>9. /\ IsSkipped <=> Ends(i) /\ Skips(i)
      /\ IsHyphen <=> Ends(i) /\ m_charinfo[i].soft
      /\ IsOther <=> Ends(i) /\ ~Skips(i) /\ ~m_charinfo[i].soft
  BY <1>6, <1>7, <1>8 DEF IsSkipped, IsHyphen, IsOther
<1>10. IsSkipped => Fits(start, i)
  <2> SUFFICES ASSUME IsSkipped PROVE Fits(start, i) OBVIOUS
  <2>1. Skips(i) /\ ~m_charinfo[i].soft BY <1>8, <1>9
  <2>2. Width(start, i) + 0 <= request.width
    <3>1. line_width \in Nat BY DEF IInv, LineTypeOK
    <3> QED BY <1>3, <3>1
  <2> QED BY <2>1, <2>2 DEF Fits
<1>11. IsHyphen => (Fits(start, i) <=> HyphenFits)
  <2> SUFFICES ASSUME IsHyphen PROVE Fits(start, i) <=> HyphenFits OBVIOUS
  <2>1. ~Skips(i) /\ m_charinfo[i].soft BY <1>8, <1>9
  <2> QED BY <1>5, <2>1 DEF Fits, HyphenFits
<1>12. IsOther => (Fits(start, i) <=> ~Exceeds)
  <2> SUFFICES ASSUME IsOther PROVE Fits(start, i) <=> ~Exceeds OBVIOUS
  <2>1. ~Skips(i) /\ ~m_charinfo[i].soft BY <1>9
  <2>2. Fits(start, i) <=> NewWidth + 0 <= request.width BY <1>5, <2>1 DEF Fits
  <2> QED BY <1>1, <1>2, <2>2 DEF Exceeds
<1>13. HyphenFits => ~Exceeds BY <1>1, <1>2 DEF HyphenFits, Exceeds
<1>14. ~Avoided BY <1>2 DEF Avoided
<1>15. Over(start, i) <=> Must(i) \/ (IsHyphen /\ ~HyphenFits)
  BY <1>9, <1>11 DEF Over
<1> QED BY <1>5, <1>6, <1>7, <1>10, <1>11, <1>12, <1>13, <1>14, <1>15

\* A character is the candidate if it is a place for the line's end.
LEMMA CandidateIsPlace ==
  ASSUME IInv, Scan, Plain, line_width = Width(start, i)
  PROVE  IF Ends(i) /\ Fits(start, i)
         THEN next_line_start_offset' = i + 1 /\ candidate_end' >= 0
         ELSE candidate_end' = candidate_end /\ next_line_start_offset' = next_line_start_offset
<1>1. at = "scan" /\ i < m_length /\ Candidate BY DEF Scan
<1>2. /\ CanBreak <=> Ends(i)
      /\ IsSkipped => Fits(start, i)
      /\ IsHyphen => (Fits(start, i) <=> HyphenFits)
      /\ IsOther => (Fits(start, i) <=> ~Exceeds)
      /\ HyphenFits => ~Exceeds
      /\ ~Avoided
  BY <1>1, AtPlace
<1>3. start \in Nat /\ i \in Nat /\ i >= start BY <1>1 DEF IInv, Scanning, LineTypeOK
<1>4. CASE IsSkipped /\ SetCandidate(IF i > start THEN i - 1 ELSE start, line_width, FALSE)
  <2>1. Ends(i) /\ Fits(start, i) BY <1>2, <1>4 DEF IsSkipped
  <2> QED BY <1>3, <1>4, <2>1 DEF SetCandidate
<1>5. CASE IsHyphen /\ ~Exceeds /\ ~Avoided /\ HyphenFits
           /\ SetCandidate(i, NewWidth + m_hyphen_width, TRUE)
  <2>1. Ends(i) /\ Fits(start, i) BY <1>2, <1>5 DEF IsHyphen
  <2> QED BY <1>3, <1>5, <2>1 DEF SetCandidate
<1>6. CASE IsOther /\ ~Exceeds /\ SetCandidate(i, NewWidth, FALSE)
  <2>1. Ends(i) /\ Fits(start, i) BY <1>2, <1>6 DEF IsOther
  <2> QED BY <1>3, <1>6, <2>1 DEF SetCandidate
<1>7. CASE (~CanBreak \/ (IsHyphen /\ (Stops \/ Avoided)) \/ (IsOther /\ Exceeds))
           /\ UNCHANGED candidate
  <2>1. ~(Ends(i) /\ Fits(start, i))
    <3>1. CASE IsHyphen /\ Stops
      <4>1. Exceeds \/ ~HyphenFits BY <3>1 DEF Stops
      <4> QED BY <1>2, <3>1, <4>1
    <3> QED BY <1>2, <1>7, <3>1
  <2> QED BY <1>7, <2>1 DEF candidate
<1> QED BY <1>1, <1>4, <1>5, <1>6, <1>7 DEF Candidate

\* A turn of the loop goes on with the search for the last place.
LEMMA ScanLongest ==
  ASSUME LongestInv, Scan, UNCHANGED text
  PROVE  LongestSoFar'
<1> USE DEF text
<1>1. /\ start' = start /\ m_length' = m_length /\ m_charinfo' = m_charinfo
      /\ request' = request /\ m_hyphen_width' = m_hyphen_width /\ at = "scan" /\ i < m_length
  BY DEF Scan
<1>2. SUFFICES ASSUME Plain PROVE LongestSoFar'
  BY <1>1 DEF LongestSoFar, Plain
<1>3. IInv /\ LongestSoFar BY <1>1 DEF LongestInv
<1>4. line_width = Width(start, i) /\ NotOver(start, i)
  BY <1>2, <1>3 DEF LongestSoFar, Plain
<1>5. start \in Nat /\ i \in Nat /\ i >= start /\ m_length \in Nat
  BY <1>1, <1>3 DEF IInv, Scanning, LineTypeOK
<1>6. /\ NewWidth = Width(start, i + 1)
      /\ Must(i) <=> "MUST_BREAK_AFTER" \in CharFlags
      /\ HyphenFits => ~Exceeds
      /\ ~Avoided
      /\ Over(start, i) <=> Must(i) \/ (IsHyphen /\ ~HyphenFits)
  BY <1>1, <1>2, <1>3, <1>4, AtPlace
<1>7. /\ IF Ends(i) /\ Fits(start, i)
         THEN next_line_start_offset' = i + 1 /\ candidate_end' >= 0
         ELSE candidate_end' = candidate_end /\ next_line_start_offset' = next_line_start_offset
  BY <1>2, <1>3, <1>4, CandidateIsPlace
<1>8. \/ at' = "end" /\ i' = i /\ line_width' = line_width
      \/ /\ at' = "scan" /\ i' = i + 1 /\ line_width' = NewWidth
         /\ ~("MUST_BREAK_AFTER" \in CharFlags) /\ ~Stops
  BY <1>1 DEF Scan
<1>9. Looked = i /\ Looked' = i + 1
  <2>1. Looked = i BY <1>1 DEF Looked
  <2>2. Looked' = i + 1 BY <1>1, <1>8 DEF Looked
  <2> QED BY <2>1, <2>2
<1> DEFINE Place(j) == Ends(j) /\ Fits(start, j)
<1>10. line_width' = Width(start, i') /\ NotOver(start, i')
  <2>1. CASE at' = "end" /\ i' = i /\ line_width' = line_width BY <1>4, <2>1
  <2>2. CASE /\ at' = "scan" /\ i' = i + 1 /\ line_width' = NewWidth
             /\ ~("MUST_BREAK_AFTER" \in CharFlags) /\ ~Stops
    <3>1. ~Over(start, i) BY <1>6, <2>2 DEF Stops
    <3>2. \A h \in start .. (i + 1) - 1 : h \in start .. i - 1 \/ h = i BY <1>5
    <3>3. NotOver(start, i + 1) BY <1>4, <3>1, <3>2 DEF NotOver
    <3> QED BY <1>6, <2>2, <3>3
  <2> QED BY <1>8, <2>1, <2>2
<1>11. IF candidate_end = -1 THEN \A j \in Offsets : ~(j \in start .. i - 1 /\ Place(j))
       ELSE /\ next_line_start_offset - 1 \in start .. i - 1 /\ Place(next_line_start_offset - 1)
            /\ \A j \in Offsets : j \in start .. i - 1 /\ Place(j) => j <= next_line_start_offset - 1
  <2>1. \A j : Found(j) <=> j \in start .. i - 1 /\ Place(j) BY <1>9 DEF Found
  <2> HIDE DEF Place
  <2> QED BY <1>2, <1>3, <2>1 DEF LongestSoFar, Plain
<1>12. IF candidate_end' = -1 THEN \A j \in Offsets : ~(j \in start .. i /\ Place(j))
       ELSE /\ next_line_start_offset' - 1 \in start .. i /\ Place(next_line_start_offset' - 1)
            /\ \A j \in Offsets : j \in start .. i /\ Place(j) => j <= next_line_start_offset' - 1
  <2> HIDE DEF Place
  <2>1. \A j \in Offsets : j \in start .. i <=> (j \in start .. i - 1 \/ j = i)
    BY <1>1, <1>5 DEF Offsets
  <2>2. CASE Place(i)
    <3>1. next_line_start_offset' = i + 1 /\ candidate_end' >= 0 BY <1>7, <2>2 DEF Place
    <3>2. (i + 1) - 1 = i /\ i \in start .. i /\ \A j \in start .. i : j <= i BY <1>5
    <3>3. candidate_end' # -1 BY <3>1
    <3> QED BY <2>2, <3>1, <3>2, <3>3
  <2>3. CASE ~Place(i)
    <3>1. candidate_end' = candidate_end /\ next_line_start_offset' = next_line_start_offset
      BY <1>7, <2>3 DEF Place
    <3>2. \A j \in Offsets : j \in start .. i /\ Place(j) <=> j \in start .. i - 1 /\ Place(j)
      BY <2>1, <2>3
    <3>3. start .. i - 1 \subseteq start .. i BY <1>5
    <3> QED BY <1>11, <3>1, <3>2, <3>3
  <2> QED BY <2>2, <2>3
<1>13. Offsets' = Offsets BY <1>1 DEF Offsets
<1>14. \A j : Found(j)' <=> j \in start .. i /\ Place(j)
  <2>1. \A j : Found(j)' <=> j \in start .. Looked' - 1 /\ Place(j)
    BY <1>1 DEF Found, Ends, Fits, Width, WidthOf, Skips
  <2>2. (i + 1) - 1 = i BY <1>5
  <2> QED BY <1>9, <2>1, <2>2
<1>15. (line_width = Width(start, i) /\ NotOver(start, i))'
       <=> line_width' = Width(start, i') /\ NotOver(start, i')
  BY <1>1 DEF NotOver, Over, Ends, Fits, Width, WidthOf, Skips, Must
<1> HIDE DEF Place
<1>16. (Found(next_line_start_offset - 1))'
       <=> next_line_start_offset' - 1 \in start .. i /\ Place(next_line_start_offset' - 1)
  <2>1. Place(next_line_start_offset' - 1)
        <=> (Ends(next_line_start_offset - 1) /\ Fits(start, next_line_start_offset - 1))'
    BY <1>1 DEF Place, Ends, Fits, Width, WidthOf, Skips
  <2>2. (i + 1) - 1 = i BY <1>5
  <2>3. (Found(next_line_start_offset - 1))'
        <=> /\ next_line_start_offset' - 1 \in start .. i
            /\ (Ends(next_line_start_offset - 1) /\ Fits(start, next_line_start_offset - 1))'
    BY <1>1, <1>9, <2>2 DEF Found
  <2> QED BY <2>1, <2>3
<1>17. (\A j \in Offsets : ~Found(j))' <=> \A j \in Offsets : ~(j \in start .. i /\ Place(j))
  BY <1>13, <1>14
<1>18. (\A j \in Offsets : Found(j) => j <= next_line_start_offset - 1)'
       <=> \A j \in Offsets : j \in start .. i /\ Place(j) => j <= next_line_start_offset' - 1
  BY <1>13, <1>14
<1> QED BY <1>10, <1>12, <1>15, <1>16, <1>17, <1>18 DEF LongestSoFar

\* A line starts with nothing searched.
LEMMA makeLineLongest ==
  ASSUME LongestInv, makeLine, UNCHANGED text
  PROVE  LongestSoFar'
<1> USE DEF text
<1>1. /\ start' = NextOffset /\ i' = NextOffset /\ line_width' = 0 /\ candidate_end' = -1
      /\ at' = "scan" /\ NextOffset < m_length
  BY DEF makeLine, HasNextLine
<1>2. NextOffset \in Nat /\ m_length \in Nat
  BY NextOffsetIsNat DEF LongestInv, IInv, LineTypeOK
<1>3. NextOffset \in 0 .. m_length BY <1>1, <1>2
<1>4. Width(NextOffset, NextOffset) = 0
  BY <1>3, WidthFacts DEF LongestInv, IInv
<1>5. (line_width = Width(start, i))' BY <1>1, <1>4 DEF Width
<1>6. \A h \in start' .. i' - 1 : FALSE BY <1>1, <1>2
<1>7. NotOver(start, i)' BY <1>6 DEF NotOver
<1>8. (Looked = i)' BY <1>1 DEF Looked
<1>9. (\A j \in Offsets : ~Found(j))' BY <1>6, <1>8 DEF Found
<1> QED BY <1>1, <1>5, <1>7, <1>9 DEF LongestSoFar

\* Nothing is searched where the text ends.
LEMMA ScanOverLongest ==
  ASSUME LongestInv, ScanOver, UNCHANGED text
  PROVE  LongestSoFar'
<1> USE DEF text
<1>1. /\ UNCHANGED <<start, i, line_width, candidate_end, next_line_start_offset>>
      /\ at = "scan" /\ i = m_length
  BY DEF ScanOver, candidate
<1>2. Looked = i /\ Looked' = i
  <2>1. m_length \in Nat BY DEF LongestInv, IInv, LineTypeOK
  <2>2. ~(i < m_length) /\ ~(i' < m_length') BY <1>1, <2>1
  <2> QED BY <1>1, <2>2 DEF Looked
<1>3. LongestSoFar BY <1>1 DEF LongestInv
<1> QED BY <1>1, <1>2, <1>3
    DEF LongestSoFar, NotOver, Found, Over, Ends, Fits, Width, WidthOf, Skips, Must, Offsets

\* The line returned is as long as it can be.
LEMMA MadeLineLongest ==
  ASSUME LongestInv, at = "end", Plain
  PROVE  IsLongest(MadeLine)
<1>1. IInv /\ LongestSoFar BY DEF LongestInv
<1>2. /\ start \in Nat /\ i \in Nat /\ m_length \in Nat /\ i \in start .. m_length
      /\ start < m_length /\ line_width \in Nat /\ line_width <= request.width
      /\ candidate_end \in Int /\ next_line_start_offset \in Int
      /\ candidate_end = -1 \/ CandidateFits
      /\ LoopEnd
  BY <1>1 DEF IInv, LineTypeOK, Scanning, HasNextLine
<1>3. request.width \in Nat BY <1>1, AtRequest DEF IInv
<1>4. line_width = Width(start, i) /\ NotOver(start, i) BY <1>1 DEF LongestSoFar, Plain
<1>5. IF candidate_end = -1 THEN \A j \in Offsets : ~Found(j)
      ELSE /\ Found(next_line_start_offset - 1)
           /\ \A j \in Offsets : Found(j) => j <= next_line_start_offset - 1
  BY <1>1 DEF LongestSoFar, Plain
<1>6. candidate_end # -1 => candidate_end >= 0 BY <1>2 DEF CandidateFits
<1> DEFINE l == MadeLine
           rest == Width(start, m_length) <= request.width /\ NotOver(start, m_length)
           fitting == {e \in start .. m_length : Width(start, e) <= request.width}
<1>7. /\ l.offset = start
      /\ l.end_offset = (CASE IsEmpty -> start - 1 [] TakesAll -> i - 1
                           [] OTHER -> candidate_end)
      /\ l.next = (IF TakesAll THEN i ELSE next_line_start_offset)
      /\ l.no_allowed_break_met = (TakesAll /\ i # m_length)
  BY DEF MadeLine
<1>8. SUFFICES CASE rest -> l.next = m_length /\ l.end_offset = m_length - 1
                 [] ~rest /\ Places(start) # {} ->
                      /\ l.next - 1 \in Places(start)
                      /\ \A j \in Places(start) : j <= l.next - 1
                 [] OTHER -> /\ l.no_allowed_break_met /\ l.next = l.end_offset + 1
                             /\ l.next \in fitting
                             /\ l.next + 1 \in fitting => Over(start, l.next)
  BY <1>7 DEF IsLongest
<1> HIDE DEF l, rest, fitting
<1>9. CASE i = m_length
  <2>1. ~forced_break /\ TakesAll /\ ~IsEmpty
    BY <1>2, <1>9 DEF LoopEnd, TakesAll, IsEmpty
  <2>2. l.next = m_length /\ l.end_offset = m_length - 1 BY <1>7, <1>9, <2>1
  <2>3. rest BY <1>2, <1>4, <1>9 DEF rest
  <2> QED BY <2>2, <2>3
<1>10. CASE i # m_length
  <2>1. i < m_length /\ i \in 0 .. m_length - 1 /\ i + 1 \in 0 .. m_length
        /\ start \in 0 .. m_length
    BY <1>2, <1>10
  <2>2. /\ NewWidth = Width(start, i + 1)
        /\ Over(start, i) <=> Must(i) \/ (IsHyphen /\ ~HyphenFits)
    BY <1>1, <1>4, <2>1, AtPlace
  <2>3. Looked = i + 1 BY <2>1 DEF Looked
  <2>4. \A j : Found(j) <=> j \in start .. i /\ Ends(j) /\ Fits(start, j)
    <3>1. (i + 1) - 1 = i BY <1>2
    <3> QED BY <2>3, <3>1 DEF Found
  \* The search ended at i.
  <2>5. Over(start, i) \/ Width(start, i + 1) > request.width
    <3>1. CASE forced_break
      <4>1. Must(i) BY <1>2, <3>1 DEF LoopEnd
      <4> QED BY <2>2, <3>1, <4>1
    <3>2. CASE ~forced_break
      <4>1. Exceeds \/ (IsHyphen /\ ~HyphenFits) BY <1>2, <2>1, <3>2 DEF LoopEnd
      <4> QED BY <2>2, <4>1 DEF Exceeds
    <3> QED BY <3>1, <3>2
  <2>6. /\ \A a, b \in 0 .. m_length : Width(a, b) \in Int
        /\ \A c \in i + 1 .. m_length : Width(start, i + 1) <= Width(start, c)
    <3>1. /\ \A a, b \in 0 .. m_length : Width(a, b) \in Int
          /\ \A a, b \in 0 .. m_length : \A c \in a .. m_length :
                a <= c => Width(b, a) <= Width(b, c)
      BY <1>1, WidthFacts DEF IInv
    <3>2. \A c \in i + 1 .. m_length : i + 1 <= c BY <1>2
    <3> QED BY <2>1, <3>1, <3>2
  <2>7. ASSUME Width(start, i + 1) > request.width, NEW c \in i + 1 .. m_length
        PROVE  Width(start, c) > request.width
    <3>1. c \in 0 .. m_length BY <1>2
    <3>2. Width(start, i + 1) \in Int /\ Width(start, c) \in Int BY <2>1, <2>6, <3>1
    <3> QED BY <1>3, <2>6, <2>7, <3>2
  \* The places are those that the loop found.
  <2>8. ASSUME NEW j \in Places(start) PROVE Found(j)
    <3>1. j \in start .. m_length - 1 /\ Ends(j) /\ Fits(start, j) /\ NotOver(start, j)
      BY DEF Places
    <3>2. ASSUME j \notin start .. i PROVE FALSE
      <4>1. i \in start .. j - 1 /\ j \in i + 1 .. m_length /\ j + 1 \in i + 1 .. m_length
            /\ j \in 0 .. m_length /\ j + 1 \in 0 .. m_length
        BY <1>2, <3>1, <3>2
      <4>2. Width(start, i + 1) > request.width BY <2>5, <3>1, <4>1 DEF NotOver
      <4>3. Width(start, j) > request.width /\ Width(start, j + 1) > request.width
        BY <2>7, <4>1, <4>2
      <4>4. Width(start, j) \in Int /\ Width(start, j + 1) \in Int BY <2>1, <2>6, <4>1
      <4> DEFINE hyphen == IF m_charinfo[j].soft THEN m_hyphen_width ELSE 0
      <4>5. hyphen \in Nat BY <1>1 DEF IInv, LineTypeOK
      <4>6. Width(start, IF Skips(j) THEN j ELSE j + 1) + hyphen <= request.width
        BY <3>1 DEF Fits
      <4> HIDE DEF hyphen
      <4>7. CASE Skips(j) BY <1>3, <4>3, <4>4, <4>5, <4>6, <4>7
      <4>8. CASE ~Skips(j) BY <1>3, <4>3, <4>4, <4>5, <4>6, <4>8
      <4> QED BY <4>7, <4>8
    <3> QED BY <2>4, <3>1, <3>2
  <2>9. ASSUME NEW j, Found(j) PROVE j \in Places(start) /\ j \in Offsets
    <3>1. j \in start .. i /\ Ends(j) /\ Fits(start, j) BY <2>4, <2>9
    <3>2. j \in start .. m_length - 1 /\ j \in 0 .. m_length - 1 BY <1>2, <2>1, <3>1
    <3>3. \A h \in start .. j - 1 : h \in start .. i - 1 BY <1>2, <3>1
    <3>4. NotOver(start, j) BY <1>4, <3>3 DEF NotOver
    <3> QED BY <3>1, <3>2, <3>4 DEF Places, Offsets
  <2>10. ~rest
    <3> SUFFICES ASSUME rest PROVE FALSE OBVIOUS
    <3>1. i \in start .. m_length - 1 /\ m_length \in i + 1 .. m_length
          /\ m_length \in 0 .. m_length
      BY <1>2, <2>1
    <3>2. ~Over(start, i) BY <3>1 DEF rest, NotOver
    <3>3. Width(start, m_length) > request.width BY <2>5, <2>7, <3>1, <3>2
    <3>4. Width(start, m_length) \in Int BY <2>1, <2>6, <3>1
    <3> QED BY <1>3, <3>3, <3>4 DEF rest
  <2>11. CASE candidate_end = -1
    <3>1. Places(start) = {}
      <4>1. \A j : ~Found(j) BY <1>5, <2>9, <2>11
      <4> QED BY <2>8, <4>1
    <3>2. ~forced_break BY <1>2, <2>11 DEF LoopEnd
    <3>3. TakesAll /\ ~IsEmpty BY <2>11, <3>2 DEF TakesAll, IsEmpty
    <3>4. l.next = i /\ l.end_offset = i - 1 /\ l.no_allowed_break_met
      BY <1>7, <1>10, <3>3
    <3>5. l.next = l.end_offset + 1 BY <1>2, <3>4
    <3>6. i \in fitting BY <1>2, <1>4 DEF fitting
    <3>7. i + 1 \in fitting => Over(start, i)
      <4>1. Width(start, i + 1) \in Int BY <2>1, <2>6
      <4> QED BY <1>3, <2>5, <4>1 DEF fitting
    <3> QED BY <2>10, <3>1, <3>4, <3>5, <3>6, <3>7
  <2>12. CASE candidate_end # -1
    <3>1. candidate_end >= 0 /\ ~(candidate_end < 0) BY <1>2, <1>6, <2>12
    <3>2. ~TakesAll BY <1>10, <3>1 DEF TakesAll
    <3>3. l.next = next_line_start_offset BY <1>7, <3>2
    <3>4. l.next - 1 \in Places(start) BY <1>5, <2>9, <2>12, <3>3
    <3>5. ASSUME NEW j \in Places(start) PROVE j <= l.next - 1
      <4>1. Found(j) BY <2>8
      <4>2. j \in Offsets BY <2>9, <4>1
      <4> QED BY <1>5, <2>12, <3>3, <4>1, <4>2
    <3> QED BY <2>10, <3>4, <3>5
  <2> QED BY <2>11, <2>12
<1> QED BY <1>9, <1>10

\* A turn, or none, leaves the lines made so far as long as they are.
LEMMA LinesStayLongest ==
  ASSUME LongestLine, UNCHANGED text, lines' = lines
  PROVE  LongestLine'
  BY DEF text, LongestLine, IsLongest, Places, NotOver, Over, Ends, Fits, Width, WidthOf, Skips, Must

\* The line returned joins them.
LEMMA ReturnLongest ==
  ASSUME LongestInv, Return, UNCHANGED text
  PROVE  LongestLine'
<1> USE DEF text
<1>1. at = "end" /\ lines' = Append(lines, MadeLine) BY DEF Return
<1>2. lines \in Seq(Line) /\ Len(lines) \in Nat BY DEF LongestInv, IInv, LineTypeOK
<1>3. SUFFICES ASSUME Plain, NEW k \in DOMAIN lines' PROVE IsLongest(lines'[k])
  BY DEF LongestLine, Plain, IsLongest, Places, NotOver, Over, Ends, Fits, Width, WidthOf, Skips, Must
<1>4. MadeLine \in Line BY <1>1, MadeLineGoesOn DEF LongestInv
<1>5. DOMAIN lines' = 1 .. Len(lines) + 1 BY <1>1, <1>2, <1>4
<1>6. CASE k \in 1 .. Len(lines)
  <2>1. k \in DOMAIN lines /\ lines'[k] = lines[k] BY <1>1, <1>2, <1>4, <1>6
  <2> QED BY <1>3, <2>1 DEF LongestInv, LongestLine, Plain
<1>7. CASE k = Len(lines) + 1
  <2>1. lines'[k] = MadeLine BY <1>1, <1>2, <1>4, <1>7
  <2> QED BY <1>1, <1>3, <2>1, MadeLineLongest
<1> QED BY <1>2, <1>5, <1>6, <1>7

\* Every step keeps what holds of the longest line.
LEMMA LineNextLongest ==
  ASSUME LongestInv, [LineNext /\ UNCHANGED text]_<<text, lineVars>>
  PROVE  LongestInv'
<1>0. IInv' BY LineNextInvariant DEF LongestInv
<1>1. CASE makeLine /\ UNCHANGED text
  <2>1. lines' = lines BY <1>1 DEF makeLine
  <2> QED BY <1>0, <1>1, <2>1, makeLineLongest, LinesStayLongest DEF LongestInv
<1>2. CASE Scan /\ UNCHANGED text
  <2>1. lines' = lines BY <1>2 DEF Scan
  <2> QED BY <1>0, <1>2, <2>1, ScanLongest, LinesStayLongest DEF LongestInv
<1>3. CASE ScanOver /\ UNCHANGED text
  <2>1. lines' = lines BY <1>3 DEF ScanOver
  <2> QED BY <1>0, <1>3, <2>1, ScanOverLongest, LinesStayLongest DEF LongestInv
<1>4. CASE Return /\ UNCHANGED text
  <2>1. at' = "idle" BY <1>4 DEF Return
  <2> QED BY <1>0, <1>4, <2>1, ReturnLongest DEF LongestInv
<1>5. CASE UNCHANGED <<text, lineVars>>
  <2>1. UNCHANGED text /\ UNCHANGED lineVars BY <1>5
  <2>2. lines' = lines /\ at' = at BY <2>1 DEF lineVars
  <2>3. LongestLine' BY <2>1, <2>2, LinesStayLongest DEF LongestInv
  <2>4. LongestSoFar => LongestSoFar'
    BY <2>1 DEF lineVars, text, candidate, LongestSoFar, Looked, NotOver, Found, Over, Ends,
                Fits, Width, Skips, Must, Offsets
  <2> QED BY <1>0, <2>2, <2>3, <2>4 DEF LongestInv
<1> QED BY <1>1, <1>2, <1>3, <1>4, <1>5 DEF LineNext

\* Every line is as long as it can be.
THEOREM LinesAreLongest == LineSpec => []LongestLine
<1>1. AnyText => LongestInv
  <2> SUFFICES ASSUME AnyText PROVE LongestInv OBVIOUS
  <2>1. lines = <<>> /\ at = "idle" BY DEF AnyText, LineInit
  <2>2. LongestLine BY <2>1 DEF LongestLine
  <2> QED BY <2>1, <2>2, LineInitInvariant DEF LongestInv
<1>2. LongestInv /\ [LineNext /\ UNCHANGED text]_<<text, lineVars>> => LongestInv'
  BY LineNextLongest
<1>3. LongestInv => LongestLine BY DEF LongestInv
<1> QED BY <1>1, <1>2, <1>3, PTL DEF LineSpec

-----------------------------------------------------------------------------
(* The end of the text that fits, by walking back.                         *)

Walks == [start : Nat, width : Nat, walked : Nat, over : BOOLEAN]
NoWalk == [start |-> 0, width |-> 0, walked |-> 0, over |-> FALSE]

\* A step of the walk, by cases.
LEMMA TakeBackCases ==
  ASSUME NEW walk \in Walks, NEW c, c.width \in Nat, NEW j \in Nat, NEW limit \in Nat
  PROVE  LET next == TakeBack(walk, c, j, limit)
             w    == walk.walked + c.width
         IN  /\ next \in Walks
             /\ walk.over => next = walk
             /\ ~walk.over /\ "CLUSTER_TAIL" \in c.flags =>
                  /\ ~next.over /\ next.walked = w
                  /\ next.start = walk.start /\ next.width = walk.width
             /\ ~walk.over /\ "CLUSTER_TAIL" \notin c.flags /\ w > limit =>
                  /\ next.over /\ next.start = walk.start /\ next.width = walk.width
             /\ ~walk.over /\ "CLUSTER_TAIL" \notin c.flags /\ ~(w > limit) =>
                  next = [start |-> j, width |-> w, walked |-> w, over |-> FALSE]
<1> DEFINE next == TakeBack(walk, c, j, limit)
           w    == walk.walked + c.width
           tail == "CLUSTER_TAIL" \in c.flags
<1>1. /\ walk.start \in Nat /\ walk.width \in Nat /\ walk.walked \in Nat
      /\ walk.over \in BOOLEAN /\ w \in Nat
  BY DEF Walks
<1>2. CASE walk.over
  <2>1. next = walk BY <1>2 DEF TakeBack
  <2> QED BY <1>2, <2>1
<1>3. CASE ~walk.over /\ tail
  <2>1. next = [walk EXCEPT !.walked = w] BY <1>3 DEF TakeBack
  <2>2. /\ next.start = walk.start /\ next.width = walk.width
        /\ next.walked = w /\ next.over = walk.over
        /\ next \in Walks
    BY <1>1, <2>1 DEF Walks
  <2> QED BY <1>3, <2>2
<1>4. CASE ~walk.over /\ ~tail /\ w > limit
  <2>1. next = [walk EXCEPT !.over = TRUE] BY <1>4 DEF TakeBack
  <2>2. /\ next.start = walk.start /\ next.width = walk.width
        /\ next.over = TRUE /\ next \in Walks
    BY <1>1, <2>1 DEF Walks
  <2> QED BY <1>4, <2>2
<1>5. CASE ~walk.over /\ ~tail /\ ~(w > limit)
  <2>1. next = [start |-> j, width |-> w, walked |-> w, over |-> FALSE]
    BY <1>5 DEF TakeBack
  <2>2. next \in Walks BY <1>1, <2>1 DEF Walks
  <2> QED BY <1>5, <2>1, <2>2
<1> QED BY <1>2, <1>3, <1>4, <1>5

IsWalk(f, info, n, limit) ==
  f = [k \in 0 .. n |-> IF k = 0 THEN NoWalk
                        ELSE TakeBack(f[k - 1], info[n - k], n - k, limit)]

\* The walk there is.
LEMMA WalkSteps ==
  ASSUME NEW n \in Nat, NEW info, \A j \in 0 .. n - 1 : info[j].width \in Nat,
         NEW limit \in Nat
  PROVE  /\ WalkBack(info, n, limit)[0] = NoWalk
         /\ \A k \in 1 .. n :
              WalkBack(info, n, limit)[k] =
                TakeBack(WalkBack(info, n, limit)[k - 1], info[n - k], n - k, limit)
<1> DEFINE G == [p \in (1 .. n) \X Walks |-> TakeBack(p[2], info[n - p[1]], n - p[1], limit)]
           F == WalkBack(info, n, limit)
<1>1. G \in [(1 .. n) \X Walks -> Walks]
  <2>1. ASSUME NEW p \in (1 .. n) \X Walks
        PROVE  TakeBack(p[2], info[n - p[1]], n - p[1], limit) \in Walks
    <3>1. p[1] \in 1 .. n /\ p[2] \in Walks OBVIOUS
    <3>2. n - p[1] \in 0 .. n - 1 /\ n - p[1] \in Nat BY <3>1
    <3>3. info[n - p[1]].width \in Nat BY <3>2
    <3> QED BY <3>1, <3>2, <3>3, TakeBackCases
  <2> QED BY <2>1
<1>2. NoWalk \in Walks BY DEF NoWalk, Walks
<1>3. PICK f \in [0 .. n -> Walks] : Iterates(f, n, NoWalk, G)
  <2> HIDE DEF G
  <2> QED BY <1>1, <1>2, Recursion
<1>4. \A k \in 0 .. n : f[k] = IF k = 0 THEN NoWalk ELSE G[<<k, f[k - 1]>>]
  <2> HIDE DEF G
  <2> QED BY <1>3 DEF Iterates
<1>5. ASSUME NEW k \in 0 .. n, k # 0
      PROVE  G[<<k, f[k - 1]>>] = TakeBack(f[k - 1], info[n - k], n - k, limit)
  <2>1. k \in 1 .. n /\ k - 1 \in 0 .. n BY <1>5
  <2>2. f[k - 1] \in Walks BY <1>3, <2>1
  <2>3. <<k, f[k - 1]>> \in (1 .. n) \X Walks BY <2>1, <2>2
  <2> QED BY <2>3
<1> HIDE DEF G
<1>6. IsWalk(f, info, n, limit) BY <1>3, <1>4, <1>5 DEF IsWalk
<1>7. F = CHOOSE g : IsWalk(g, info, n, limit) BY DEF WalkBack, IsWalk, NoWalk
<1>8. IsWalk(F, info, n, limit) BY <1>6, <1>7
<1> HIDE DEF F
<1>9. \A k \in 0 .. n : F[k] = IF k = 0 THEN NoWalk
                               ELSE TakeBack(F[k - 1], info[n - k], n - k, limit)
  BY <1>8, Zenon DEF IsWalk
<1>10. F[0] = NoWalk
  <2>1. 0 \in 0 .. n OBVIOUS
  <2> QED BY <1>9, <2>1
<1>11. ASSUME NEW k \in 1 .. n
       PROVE  F[k] = TakeBack(F[k - 1], info[n - k], n - k, limit)
  <2>1. k \in 0 .. n /\ k # 0 OBVIOUS
  <2> QED BY <1>9, <2>1, Zenon
<1> QED BY <1>10, <1>11 DEF F

\* getSegmentFromEnd finds the longest end of the text, in any text.
LEMMA EndIsLongest == LineTypeOK => EndSegmentLongest
<1> SUFFICES ASSUME LineTypeOK PROVE EndSegmentLongest OBVIOUS
<1> DEFINE n == m_length
           limit == request.width
           W(j) == Width(j, n)
           starts == {j \in Offsets : /\ "CLUSTER_TAIL" \notin m_charinfo[j].flags
                                      /\ W(j) <= limit}
           F == WalkBack(m_charinfo, n, limit)
<1>1. n \in Nat /\ limit \in Nat BY RequestsAssumption DEF LineTypeOK
<1>2. \A j \in 0 .. n - 1 : m_charinfo[j].width \in Nat
  <2>1. \A j \in 0 .. n - 1 : m_charinfo[j] \in CharInfo BY DEF LineTypeOK, Offsets
  <2> QED BY <2>1 DEF CharInfo
<1>3. F[0] = NoWalk /\ \A k \in 1 .. n : F[k] = TakeBack(F[k - 1], m_charinfo[n - k], n - k, limit)
  BY <1>1, <1>2, WalkSteps
<1>4. /\ W(n) = 0 /\ \A j \in 0 .. n : W(j) \in Nat
      /\ \A j \in 0 .. n - 1 : W(j) = W(j + 1) + m_charinfo[j].width
      /\ \A j \in 0 .. n : \A h \in 0 .. j : W(j) <= W(h)
  <2> DEFINE S == Widths(m_charinfo, n)
  <2>1. /\ \A k \in 0 .. n : S[k] \in Nat
        /\ \A k \in 0 .. n - 1 : S[k + 1] = S[k] + m_charinfo[k].width
    BY <1>1, <1>2, WidthsAdd
  <2>2. \A h \in 0 .. n : \A j \in h .. n : S[h] <= S[j] BY <1>1, <1>2, WidthsGrow
  <2>3. \A j : W(j) = S[n] - S[j] BY DEF Width, WidthOf
  <2> HIDE DEF S, W
  <2>4. n \in 0 .. n /\ \A j \in 0 .. n : n \in j .. n BY <1>1
  <2>5. \A j \in 0 .. n : S[j] <= S[n] BY <2>2, <2>4
  <2>6. W(n) = 0 BY <2>1, <2>3, <2>4
  <2>7. ASSUME NEW j \in 0 .. n PROVE W(j) \in Nat
    <3>1. W(j) = S[n] - S[j] BY <2>3
    <3>2. S[j] \in Nat /\ S[n] \in Nat /\ S[j] <= S[n] BY <2>1, <2>4, <2>5
    <3> QED BY <3>1, <3>2
  <2>8. ASSUME NEW j \in 0 .. n - 1 PROVE W(j) = W(j + 1) + m_charinfo[j].width
    <3>1. j \in 0 .. n /\ j + 1 \in 0 .. n BY <1>1
    <3>2. W(j) = S[n] - S[j] /\ W(j + 1) = S[n] - S[j + 1] BY <2>3
    <3>3. S[n] \in Nat /\ S[j] \in Nat /\ S[j + 1] \in Nat /\ m_charinfo[j].width \in Nat
      BY <1>2, <2>1, <2>4, <3>1
    <3>4. S[j + 1] = S[j] + m_charinfo[j].width BY <2>1
    <3> QED BY <3>2, <3>3, <3>4
  <2>9. ASSUME NEW j \in 0 .. n, NEW h \in 0 .. j PROVE W(j) <= W(h)
    <3>1. h \in 0 .. n /\ j \in h .. n BY <1>1
    <3>2. S[h] <= S[j] BY <2>2, <3>1
    <3>3. S[n] \in Nat /\ S[j] \in Nat /\ S[h] \in Nat BY <2>1, <2>4, <3>1
    <3>4. W(j) = S[n] - S[j] /\ W(h) = S[n] - S[h] BY <2>3
    <3> QED BY <3>2, <3>3, <3>4
  <2> QED BY <2>6, <2>7, <2>8, <2>9
<1>5. starts = {j \in 0 .. n - 1 : "CLUSTER_TAIL" \notin m_charinfo[j].flags /\ W(j) <= limit}
  BY DEF Offsets
<1> DEFINE Seen(walk, k) ==
             /\ walk \in Walks
             /\ ~walk.over => walk.walked = W(n - k)
             /\ walk.over => \A j \in starts : j >= n - k
             /\ (\E j \in starts : j >= n - k) =>
                  /\ walk.start \in starts /\ walk.width = W(walk.start)
                  /\ \A j \in starts : j >= n - k => walk.start <= j
           T == {k \in 0 .. n : Seen(F[k], k)}
<1> HIDE DEF n, limit, W, starts, F
<1>6. 0 \in T
  <2>1. \A j \in starts : ~(j >= n - 0) BY <1>1, <1>5
  <2>2. /\ F[0] \in Walks /\ F[0].over = FALSE /\ F[0].walked = 0
    BY <1>3 DEF NoWalk, Walks
  <2>3. n - 0 = n /\ 0 \in 0 .. n BY <1>1
  <2>4. Seen(F[0], 0) BY <1>4, <2>1, <2>2, <2>3
  <2> QED BY <2>3, <2>4
<1>7. ASSUME NEW k \in 0 .. n - 1, k \in T PROVE k + 1 \in T
  <2> DEFINE j == n - (k + 1)
             c == m_charinfo[j]
             walk == F[k]
             next == F[k + 1]
  <2>1. /\ j \in 0 .. n - 1 /\ j \in Nat /\ k + 1 \in 1 .. n /\ k + 1 \in 0 .. n
        /\ (k + 1) - 1 = k /\ n - k = j + 1 /\ k \in 0 .. n
    BY <1>1
  <2>2. next = TakeBack(walk, c, j, limit) BY <1>3, <2>1
  <2>3. Seen(walk, k) BY <1>7
  <2>4. c.width \in Nat /\ W(j) = W(j + 1) + c.width BY <1>2, <1>4, <2>1
  <2> HIDE DEF c, j
  <2>5. /\ walk \in Walks
        /\ ~walk.over => walk.walked = W(j + 1)
        /\ walk.over => \A h \in starts : h >= j + 1
        /\ (\E h \in starts : h >= j + 1) =>
                  /\ walk.start \in starts /\ walk.width = W(walk.start)
                  /\ \A h \in starts : h >= j + 1 => walk.start <= h
    BY <2>1, <2>3
  <2> DEFINE w == walk.walked + c.width
  <2>6. ~walk.over => w = W(j) BY <2>4, <2>5
  <2>7. /\ next \in Walks
        /\ walk.over => next = walk
        /\ ~walk.over /\ "CLUSTER_TAIL" \in c.flags =>
             /\ ~next.over /\ next.walked = w
             /\ next.start = walk.start /\ next.width = walk.width
        /\ ~walk.over /\ "CLUSTER_TAIL" \notin c.flags /\ w > limit =>
             /\ next.over /\ next.start = walk.start /\ next.width = walk.width
        /\ ~walk.over /\ "CLUSTER_TAIL" \notin c.flags /\ ~(w > limit) =>
             next = [start |-> j, width |-> w, walked |-> w, over |-> FALSE]
    <3>1. walk \in Walks /\ c.width \in Nat /\ j \in Nat /\ limit \in Nat
      BY <1>1, <2>1, <2>4, <2>5
    <3> HIDE DEF walk, next
    <3>2. LET to == TakeBack(walk, c, j, limit)
          IN  /\ to \in Walks
              /\ walk.over => to = walk
              /\ ~walk.over /\ "CLUSTER_TAIL" \in c.flags =>
                   /\ ~to.over /\ to.walked = w
                   /\ to.start = walk.start /\ to.width = walk.width
              /\ ~walk.over /\ "CLUSTER_TAIL" \notin c.flags /\ w > limit =>
                   /\ to.over /\ to.start = walk.start /\ to.width = walk.width
              /\ ~walk.over /\ "CLUSTER_TAIL" \notin c.flags /\ ~(w > limit) =>
                   to = [start |-> j, width |-> w, walked |-> w, over |-> FALSE]
      BY <3>1, TakeBackCases
    <3> QED BY <2>2, <3>2
  <2> HIDE DEF w, walk, next
  <2>8. starts \subseteq 0 .. n - 1 /\ \A h \in starts : h >= j <=> (h >= j + 1 \/ h = j)
    BY <1>1, <1>5, <2>1
  <2>9. j \in starts <=> "CLUSTER_TAIL" \notin c.flags /\ W(j) <= limit
    BY <1>5, <2>1 DEF c
  <2>10. /\ next \in Walks
         /\ ~next.over => next.walked = W(j)
         /\ next.over => \A h \in starts : h >= j
         /\ (\E h \in starts : h >= j) =>
                  /\ next.start \in starts /\ next.width = W(next.start)
                  /\ \A h \in starts : h >= j => next.start <= h
    <3>1. CASE walk.over
      <4>1. next = walk /\ \A h \in starts : h >= j + 1 BY <2>5, <2>7, <3>1
      <4> QED BY <2>5, <2>8, <3>1, <4>1
    <3>2. CASE ~walk.over /\ "CLUSTER_TAIL" \in c.flags
      <4>1. /\ ~next.over /\ next.walked = w
            /\ next.start = walk.start /\ next.width = walk.width
        BY <2>7, <3>2
      <4>2. j \notin starts BY <2>9, <3>2
      <4>3. \A h \in starts : h >= j <=> h >= j + 1 BY <2>8, <4>2
      <4> QED BY <2>5, <2>6, <2>7, <3>2, <4>1, <4>3
    <3>3. CASE ~walk.over /\ "CLUSTER_TAIL" \notin c.flags /\ w > limit
      <4>1. next.over /\ next.start = walk.start /\ next.width = walk.width
        BY <2>7, <3>3
      <4>2. W(j) > limit /\ W(j) \in Nat BY <1>1, <1>4, <2>1, <2>6, <3>3
      <4>3. ASSUME NEW h \in starts PROVE h >= j + 1
        <5>1. h \in 0 .. n - 1 /\ W(h) <= limit BY <1>5
        <5>2. ASSUME h <= j PROVE FALSE
          <6>1. j \in 0 .. n /\ h \in 0 .. j /\ h \in 0 .. n BY <1>1, <2>1, <5>1, <5>2
          <6>2. W(j) <= W(h) /\ W(h) \in Nat BY <1>4, <6>1
          <6> QED BY <1>1, <4>2, <5>1, <6>2
        <5> QED BY <2>1, <5>1, <5>2
      <4> QED BY <2>5, <2>7, <2>8, <4>1, <4>3
    <3>4. CASE ~walk.over /\ "CLUSTER_TAIL" \notin c.flags /\ ~(w > limit)
      <4>1. next = [start |-> j, width |-> w, walked |-> w, over |-> FALSE]
        BY <2>7, <3>4
      <4>2. next.start = j /\ next.width = w /\ next.walked = w /\ next.over = FALSE
        BY <4>1
      <4>3. W(j) \in Nat /\ W(j) <= limit BY <1>1, <1>4, <2>1, <2>6, <3>4
      <4>4. j \in starts BY <2>9, <3>4, <4>3
      <4> QED BY <2>6, <2>7, <3>4, <4>2, <4>4
    <3> QED BY <3>1, <3>2, <3>3, <3>4
  <2>11. Seen(F[k + 1], k + 1) BY <2>10 DEF next, j
  <2> QED BY <2>1, <2>11
<1>8. \A k \in 0 .. n : k \in T
  <2> HIDE DEF T
  <2> QED BY <1>1, <1>6, <1>7, Induct
<1>9. Seen(F[n], n)
  <2>1. n \in 0 .. n BY <1>1
  <2> QED BY <1>8, <2>1
<1>10. \A j \in starts : j >= n - n BY <1>1, <1>5
<1>11. starts # {} => /\ F[n].start \in starts /\ \A j \in starts : F[n].start <= j
                      /\ F[n].width = W(F[n].start)
  BY <1>9, <1>10
<1> QED BY <1>11 DEF EndSegmentLongest, getSegmentFromEnd, n, limit, W, starts, F

\* The end of the text that is kept is the longest that fits.
THEOREM EndSegmentIsLongest == LineSpec => []EndSegmentLongest
<1>1. IInv => EndSegmentLongest BY EndIsLongest DEF IInv
<1> QED BY <1>1, LineInvariance, PTL

-----------------------------------------------------------------------------
(* Words.                                                                  *)

\* The least and the greatest of numbers.
LEMMA LeastOf ==
  ASSUME NEW a \in Int, NEW b \in Int, NEW T \in SUBSET (a .. b), T # {}
  PROVE  /\ Min(T) \in T /\ \A t \in T : Min(T) <= t
         /\ Max(T) \in T /\ \A t \in T : t <= Max(T)
<1>1. PICK t0 \in T : TRUE OBVIOUS
<1>2. a <= b /\ b - a \in Nat BY <1>1
<1>3. \E x \in T : \A y \in T : x <= y
  <2> SUFFICES ASSUME ~\E x \in T : \A y \in T : x <= y PROVE FALSE OBVIOUS
  <2> DEFINE P == {d \in 0 .. b - a : \A e \in 0 .. d : a + e \notin T}
  <2>1. 0 \in P
    <3>1. a \in T => \A y \in T : a <= y OBVIOUS
    <3>2. a \notin T BY <3>1
    <3> QED BY <1>2, <3>2
  <2>2. ASSUME NEW d \in 0 .. (b - a) - 1, d \in P PROVE d + 1 \in P
    <3>1. \A e \in 0 .. d : a + e \notin T BY <2>2
    <3>2. \A y \in T : a + (d + 1) <= y
      <4> TAKE y \in T
      <4>1. y \in a .. b OBVIOUS
      <4>2. y - a \in Nat /\ a + (y - a) = y BY <4>1
      <4>3. y - a \notin 0 .. d BY <3>1, <4>2
      <4> QED BY <4>1, <4>2, <4>3
    <3>3. a + (d + 1) \notin T BY <3>2
    <3>4. \A e \in 0 .. d + 1 : e \in 0 .. d \/ e = d + 1 OBVIOUS
    <3>5. \A e \in 0 .. d + 1 : a + e \notin T BY <3>1, <3>3, <3>4
    <3>6. d + 1 \in 0 .. b - a OBVIOUS
    <3> QED BY <3>5, <3>6
  <2>3. \A d \in 0 .. b - a : d \in P
    <3> HIDE DEF P
    <3> QED BY <1>2, <2>1, <2>2, Induct
  <2>4. t0 - a \in 0 .. b - a /\ t0 - a \in 0 .. t0 - a /\ a + (t0 - a) = t0 BY <1>1
  <2>5. t0 - a \in P BY <2>3, <2>4
  <2> QED BY <1>1, <2>4, <2>5
<1>4. \E x \in T : \A y \in T : y <= x
  <2> SUFFICES ASSUME ~\E x \in T : \A y \in T : y <= x PROVE FALSE OBVIOUS
  <2> DEFINE P == {d \in 0 .. b - a : \A e \in 0 .. d : b - e \notin T}
  <2>1. 0 \in P
    <3>1. b \in T => \A y \in T : y <= b OBVIOUS
    <3>2. b \notin T BY <3>1
    <3> QED BY <1>2, <3>2
  <2>2. ASSUME NEW d \in 0 .. (b - a) - 1, d \in P PROVE d + 1 \in P
    <3>1. \A e \in 0 .. d : b - e \notin T BY <2>2
    <3>2. \A y \in T : y <= b - (d + 1)
      <4> TAKE y \in T
      <4>1. y \in a .. b OBVIOUS
      <4>2. b - y \in Nat /\ b - (b - y) = y BY <4>1
      <4>3. b - y \notin 0 .. d BY <3>1, <4>2
      <4> QED BY <4>1, <4>2, <4>3
    <3>3. b - (d + 1) \notin T BY <3>2
    <3>4. \A e \in 0 .. d + 1 : e \in 0 .. d \/ e = d + 1 OBVIOUS
    <3>5. \A e \in 0 .. d + 1 : b - e \notin T BY <3>1, <3>3, <3>4
    <3>6. d + 1 \in 0 .. b - a OBVIOUS
    <3> QED BY <3>5, <3>6
  <2>3. \A d \in 0 .. b - a : d \in P
    <3> HIDE DEF P
    <3> QED BY <1>2, <2>1, <2>2, Induct
  <2>4. b - t0 \in 0 .. b - a /\ b - t0 \in 0 .. b - t0 /\ b - (b - t0) = t0 BY <1>1
  <2>5. b - t0 \in P BY <2>3, <2>4
  <2> QED BY <1>1, <2>4, <2>5
<1>5. Min(T) \in T /\ \A t \in T : Min(T) <= t
  <2>1. Min(T) = CHOOSE x \in T : \A y \in T : x <= y BY DEF Min
  <2> QED BY <1>3, <2>1
<1>6. Max(T) \in T /\ \A t \in T : t <= Max(T)
  <2>1. Max(T) = CHOOSE x \in T : \A y \in T : x >= y BY DEF Max
  <2>2. \A x, y \in T : x >= y <=> y <= x OBVIOUS
  <2>3. \E x \in T : \A y \in T : x >= y BY <1>4, <2>2
  <2> QED BY <2>1, <2>2, <2>3
<1> QED BY <1>5, <1>6

\* The least and the greatest of two numbers.
LEMMA LeastOfTwo ==
  ASSUME NEW x \in Int, NEW y \in Int
  PROVE  /\ Min({x, y}) = IF x <= y THEN x ELSE y
         /\ Max({x, y}) = IF x <= y THEN y ELSE x
<1>1. CASE x <= y
  <2>1. {x, y} \in SUBSET (x .. y) /\ {x, y} # {} BY <1>1
  <2>2. /\ Min({x, y}) \in {x, y} /\ \A t \in {x, y} : Min({x, y}) <= t
        /\ Max({x, y}) \in {x, y} /\ \A t \in {x, y} : t <= Max({x, y})
    BY <2>1, LeastOf
  <2> QED BY <1>1, <2>2
<1>2. CASE ~(x <= y)
  <2>1. {x, y} \in SUBSET (y .. x) /\ {x, y} # {} BY <1>2
  <2>2. /\ Min({x, y}) \in {x, y} /\ \A t \in {x, y} : Min({x, y}) <= t
        /\ Max({x, y}) \in {x, y} /\ \A t \in {x, y} : t <= Max({x, y})
    BY <2>1, LeastOf
  <2> QED BY <1>2, <2>2
<1> QED BY <1>1, <1>2

\* Of all boundaries before and after, those next to a selection are found if
\* they are inspected, whichever text it is.
LEMMA WordsAreWhole == m_length \in Nat => SelectsWholeWords
<1> SUFFICES ASSUME m_length \in Nat,
                    NEW from \in 0 .. m_length - 1, NEW context \in Contexts,
                    NEW end \in from + 1 .. m_length
             PROVE  LET seg  == getSelectedWordIndices(from, end, context)
                        word == LastBoundary(from)
                    IN  /\ seg.end = Min({NextBoundary(end), end + context})
                        /\ from = 0 => seg.start = 0 \/ (seg.start = 1 /\ Boundary(1))
                        /\ from > 0 => seg.start = IF word > from - context THEN word
                                                  ELSE Max({(from - context) - 1, 0})
  BY DEF SelectsWholeWords
<1> DEFINE first == Max({from - context, 0})
           over  == Min({end + context, m_length})
           ends  == {t \in first .. over - 1 : t = over - 1 \/ WordEnds(Char(t), Char(t + 1))}
           after == ends \cap (end .. over - 1)
           before == ends \cap (first .. from - 1)
           seg   == getSelectedWordIndices(from, end, context)
           word  == LastBoundary(from)
           next  == NextBoundary(end)
<1>1. /\ context \in Nat /\ context >= 1 /\ from \in Nat /\ end \in Nat
      /\ from < end /\ end <= m_length
  BY ContextsAssumption
<1>2. first = (IF from - context <= 0 THEN 0 ELSE from - context)
  <2>1. from - context \in Int /\ 0 \in Int BY <1>1
  <2> QED BY <2>1, LeastOfTwo
<1>3. over = (IF end + context <= m_length THEN end + context ELSE m_length)
  <2>1. end + context \in Int /\ m_length \in Int BY <1>1
  <2> QED BY <2>1, LeastOfTwo
<1> HIDE DEF first, over
<1>4. first \in 0 .. from /\ over \in end .. m_length /\ (end < m_length => over > end)
  BY <1>1, <1>2, <1>3
<1>5. seg = [start |-> WordStart(from, first, ends),
             end   |-> IF after = {} THEN over ELSE Min(after) + 1]
  BY DEF getSelectedWordIndices, first, over
<1>6. seg.end = (IF after = {} THEN over ELSE Min(after) + 1) BY <1>5
<1>7. seg.start = WordStart(from, first, ends) BY <1>5
<1>8. ASSUME NEW t \in first .. over - 1
      PROVE  t \in ends <=> t = over - 1 \/ Boundary(t + 1)
  <2>1. t \in Nat /\ t + 1 <= m_length /\ t + 1 # 0 /\ (t + 1) - 1 = t BY <1>4
  <2>2. CASE t = over - 1 BY <2>2
  <2>3. CASE t # over - 1
    <3>1. t + 1 # m_length BY <1>4, <2>1, <2>3
    <3>2. Boundary(t + 1) <=> WordEnds(Char(t), Char(t + 1))
      BY <2>1, <3>1 DEF Boundary
    <3> QED BY <3>2, <2>3
  <2> QED BY <2>2, <2>3
<1> HIDE DEF ends, seg
<1>9. seg.end = Min({next, end + context})
  <2> DEFINE B == {u \in end + 1 .. m_length : Boundary(u)} \cup {m_length}
  <2>1. next = Min(B) BY DEF NextBoundary
  <2>2. B \in SUBSET (end .. m_length) /\ B # {} BY <1>1
  <2>3. end \in Int /\ m_length \in Int BY <1>1
  <2>4. Min(B) \in B /\ \A u \in B : Min(B) <= u
    <3> HIDE DEF B
    <3> QED BY <2>2, <2>3, LeastOf
  <2>5. next \in B /\ next \in end .. m_length /\ \A u \in B : next <= u BY <2>1, <2>2, <2>4
  <2>6. next \in Int /\ end + context \in Int BY <1>1, <2>5
  <2>7. Min({next, end + context}) = IF next <= end + context THEN next ELSE end + context
    <3> HIDE DEF next
    <3> QED BY <2>6, LeastOfTwo
  <2>8. m_length \in B /\ next <= m_length BY <2>5
  <2>9. CASE end = m_length
    <3>1. over = m_length /\ next = m_length BY <1>4, <2>5, <2>9
    <3>2. end .. over - 1 = {} BY <1>1, <2>9, <3>1
    <3>3. after = {} BY <3>2
    <3> QED BY <1>1, <1>6, <2>7, <2>9, <3>1, <3>3
  <2>10. CASE end < m_length
    <3>1. over - 1 \in end .. over - 1 /\ over - 1 \in first .. over - 1
      BY <1>1, <1>4, <2>10
    <3>2. over - 1 \in after BY <1>8, <3>1
    <3>3. after \in SUBSET (end .. over - 1) /\ after # {} /\ end \in Int /\ over - 1 \in Int
      BY <1>1, <1>4, <3>2
    <3> DEFINE p == Min(after)
    <3>4. p \in after /\ \A t \in after : p <= t BY <3>3, LeastOf
    <3>5. p \in end .. over - 1 /\ p \in ends /\ p <= over - 1 BY <3>2, <3>4
    <3>6. seg.end = p + 1 BY <1>6, <3>2
    <3> HIDE DEF p
    <3>7. p \in first .. over - 1 BY <1>1, <1>4, <3>5
    <3>8. p + 1 = over \/ next <= p + 1
      <4>1. p = over - 1 \/ Boundary(p + 1) BY <1>8, <3>5, <3>7
      <4>2. CASE Boundary(p + 1)
        <5>1. p + 1 \in end + 1 .. m_length BY <1>1, <1>4, <3>5
        <5>2. p + 1 \in B BY <4>2, <5>1
        <5> QED BY <2>5, <5>2
      <4>3. CASE p = over - 1 BY <1>4, <4>3
      <4> QED BY <4>1, <4>2, <4>3
    <3>9. next <= over => p + 1 <= next
      <4> SUFFICES ASSUME next <= over PROVE p + 1 <= next
        OBVIOUS
      <4>1. next \in end + 1 .. m_length /\ (Boundary(next) \/ next = m_length)
        BY <1>1, <2>5, <2>10
      <4>2. Boundary(next) BY <4>1 DEF Boundary
      <4> DEFINE t == next - 1
      <4> HIDE DEF next
      <4>3. t + 1 = next /\ t \in end .. over - 1 /\ t \in first .. over - 1
        BY <1>1, <1>4, <2>6, <4>1
      <4> HIDE DEF t
      <4>4. t \in ends BY <1>8, <4>2, <4>3
      <4>5. p <= t BY <3>4, <4>3, <4>4
      <4> QED BY <1>1, <1>4, <3>5, <4>3, <4>5
    <3> HIDE DEF next
    <3> QED BY <1>1, <1>3, <1>4, <2>6, <2>7, <2>8, <3>5, <3>6, <3>8, <3>9
  <2> QED BY <1>1, <2>9, <2>10
<1>10. from = 0 => seg.start = 0 \/ (seg.start = 1 /\ Boundary(1))
  <2> SUFFICES ASSUME from = 0 PROVE seg.start = 0 \/ (seg.start = 1 /\ Boundary(1))
    OBVIOUS
  <2>1. first = 0 BY <1>4
  <2>2. Max({from - 1, 0}) = 0 /\ Max({first - 1, 0}) = 0
    <3>1. from - 1 = -1 /\ first - 1 = -1 /\ -1 \in Int /\ 0 \in Int BY <2>1
    <3>2. Max({-1, 0}) = IF -1 <= 0 THEN 0 ELSE -1 BY <3>1, LeastOfTwo
    <3> QED BY <3>1, <3>2
  <2>3. seg.start = IF ends \cap (0 .. 0) = {} THEN 0 ELSE Max(ends \cap (0 .. 0)) + 1
    BY <1>7, <2>1, <2>2 DEF WordStart
  <2>4. CASE ends \cap (0 .. 0) = {} BY <2>3, <2>4
  <2>5. CASE ends \cap (0 .. 0) # {}
    <3>1. ends \cap (0 .. 0) \in SUBSET (0 .. 0) /\ 0 \in Int OBVIOUS
    <3>2. Max(ends \cap (0 .. 0)) \in ends \cap (0 .. 0) BY <2>5, <3>1, LeastOf
    <3>3. Max(ends \cap (0 .. 0)) = 0 /\ 0 \in ends BY <3>2
    <3>4. 0 \in first .. over - 1 BY <1>1, <1>4, <2>1
    <3>5. 0 = over - 1 \/ Boundary(0 + 1) BY <1>8, <3>3, <3>4
    <3>6. 0 = over - 1 => m_length = 1 BY <1>1, <1>3, <1>4
    <3>7. Boundary(1) BY <3>5, <3>6 DEF Boundary
    <3> QED BY <2>3, <2>5, <3>3, <3>7
  <2> QED BY <2>4, <2>5
<1>11. from > 0 => seg.start = IF word > from - context THEN word
                              ELSE Max({(from - context) - 1, 0})
  <2> SUFFICES ASSUME from > 0
               PROVE  seg.start = IF word > from - context THEN word
                                  ELSE Max({(from - context) - 1, 0})
    OBVIOUS
  <2> DEFINE B == {u \in 0 .. from : Boundary(u)}
  <2>1. word = Max(B) BY DEF LastBoundary
  <2>2. B \in SUBSET (0 .. from) /\ 0 \in B BY <1>1 DEF Boundary
  <2>3. B # {} /\ 0 \in Int /\ from \in Int BY <1>1, <2>2
  <2>4. Max(B) \in B /\ \A u \in B : u <= Max(B) BY <2>2, <2>3, LeastOf
  <2>5. word \in B /\ word \in 0 .. from /\ \A u \in B : u <= word BY <2>1, <2>4
  <2> HIDE DEF word
  <2>6. Max({from - 1, 0}) = from - 1
    <3>1. from - 1 \in Int /\ 0 \in Int /\ from - 1 >= 0 BY <1>1
    <3>2. Max({from - 1, 0}) = IF from - 1 <= 0 THEN 0 ELSE from - 1 BY <3>1, LeastOfTwo
    <3> QED BY <3>1, <3>2
  <2>7. seg.start = (IF before = {} THEN Max({first - 1, 0}) ELSE Max(before) + 1)
    <3>1. WordStart(from, first, ends) =
            IF ends \cap (first .. Max({from - 1, 0})) = {} THEN Max({first - 1, 0})
            ELSE Max(ends \cap (first .. Max({from - 1, 0}))) + 1
      BY DEF WordStart
    <3>2. WordStart(from, first, ends) =
            IF before = {} THEN Max({first - 1, 0}) ELSE Max(before) + 1
      BY <2>6, <3>1, Zenon
    <3> QED BY <1>7, <3>2
  <2>8. ASSUME NEW t \in first .. from - 1
        PROVE  t \in before <=> t + 1 \in B
    <3>1. t \in first .. over - 1 /\ t # over - 1 /\ t + 1 \in 0 .. from BY <1>1, <1>4
    <3> QED BY <1>8, <3>1
  <2>9. CASE word > first
    <3> DEFINE t == word - 1
    <3>1. t + 1 = word /\ t \in first .. from - 1 BY <1>4, <2>5, <2>9
    <3> HIDE DEF t
    <3>2. t \in before BY <2>5, <2>8, <3>1
    <3>3. before \in SUBSET (first .. from - 1) /\ before # {} /\ first \in Int /\ from - 1 \in Int
      BY <1>1, <1>4, <3>2
    <3> DEFINE p == Max(before)
    <3>4. p \in before /\ \A u \in before : u <= p BY <3>3, LeastOf
    <3>5. seg.start = p + 1 BY <2>7, <3>2
    <3> HIDE DEF p
    <3>6. p \in first .. from - 1 /\ t <= p BY <3>2, <3>4
    <3>7. p + 1 \in B BY <2>8, <3>4, <3>6
    <3>8. p + 1 <= word BY <2>5, <3>7
    <3>9. seg.start = word BY <1>1, <1>4, <2>5, <3>1, <3>5, <3>6, <3>8
    <3>10. word > from - context BY <1>1, <1>2, <1>4, <2>5, <2>9
    <3> QED BY <3>9, <3>10
  <2>10. CASE ~(word > first)
    <3>1. before = {}
      <4> SUFFICES ASSUME NEW t \in before PROVE FALSE
        OBVIOUS
      <4>1. t \in first .. from - 1 OBVIOUS
      <4>2. t + 1 <= word BY <2>5, <2>8, <4>1
      <4> QED BY <1>1, <1>4, <2>5, <2>10, <4>1, <4>2
    <3>2. seg.start = Max({first - 1, 0}) BY <2>7, <3>1
    <3>3. CASE word > from - context
      <4>1. first = 0 /\ word = 0 BY <1>1, <1>2, <1>4, <2>5, <2>10, <3>3
      <4>2. Max({-1, 0}) = IF -1 <= 0 THEN 0 ELSE -1
        <5>1. -1 \in Int /\ 0 \in Int OBVIOUS
        <5> QED BY <5>1, LeastOfTwo
      <4>3. first - 1 = -1 BY <4>1
      <4> QED BY <3>2, <3>3, <4>1, <4>2, <4>3
    <3>4. CASE ~(word > from - context)
      <4>1. first = from - context BY <1>1, <1>2, <1>4, <2>5, <2>10, <3>4
      <4> QED BY <3>2, <3>4, <4>1
    <3> QED BY <3>3, <3>4
  <2> QED BY <2>9, <2>10
<1> QED BY <1>9, <1>10, <1>11 DEF seg

\* Selections are extended to the words they cut, as far as the context goes,
\* whatever the characters and which of them are marks.
THEOREM SelectionsAreWhole == LineSpec => []SelectsWholeWords
<1>1. IInv => SelectsWholeWords BY WordsAreWhole DEF IInv, LineTypeOK
<1> QED BY <1>1, LineInvariance, PTL

-----------------------------------------------------------------------------
(* Widths of any characters or glyphs.                                     *)

\* The first n characters have a width.
HasWidths(info, n) == \A j \in 0 .. n - 1 : info[j].width \in Nat

\* The width of nothing, of one more character, of two parts.
LEMMA WidthOfFacts ==
  ASSUME NEW n \in Nat, NEW info, HasWidths(info, n)
  PROVE  /\ \A a, b \in 0 .. n : WidthOf(info, n, a, b) \in Int
         /\ \A a \in 0 .. n : WidthOf(info, n, a, a) = 0
         /\ \A a \in 0 .. n : \A k \in 0 .. n - 1 :
              WidthOf(info, n, a, k + 1) = WidthOf(info, n, a, k) + info[k].width
         /\ \A a, b, c \in 0 .. n :
              WidthOf(info, n, a, c) = WidthOf(info, n, a, b) + WidthOf(info, n, b, c)
         /\ \A a \in 0 .. n : \A b \in a .. n : WidthOf(info, n, a, b) \in Nat
<1> DEFINE S == Widths(info, n)
<1>1. /\ \A k \in 0 .. n : S[k] \in Nat
      /\ \A k \in 0 .. n - 1 : S[k + 1] = S[k] + info[k].width
  BY WidthsAdd DEF HasWidths
<1>2. \A a \in 0 .. n : \A b \in a .. n : S[a] <= S[b] BY WidthsGrow DEF HasWidths
<1>3. \A a, b : WidthOf(info, n, a, b) = S[b] - S[a] BY DEF WidthOf
<1> HIDE DEF S
<1>4. ASSUME NEW a \in 0 .. n, NEW b \in 0 .. n, NEW c \in 0 .. n
      PROVE  /\ WidthOf(info, n, a, b) \in Int /\ WidthOf(info, n, a, a) = 0
             /\ WidthOf(info, n, a, c) = WidthOf(info, n, a, b) + WidthOf(info, n, b, c)
  <2>1. S[a] \in Nat /\ S[b] \in Nat /\ S[c] \in Nat BY <1>1
  <2> QED BY <1>3, <2>1
<1>5. ASSUME NEW a \in 0 .. n, NEW k \in 0 .. n - 1
      PROVE  WidthOf(info, n, a, k + 1) = WidthOf(info, n, a, k) + info[k].width
  <2>1. k \in 0 .. n /\ k + 1 \in 0 .. n OBVIOUS
  <2>2. S[a] \in Nat /\ S[k] \in Nat /\ S[k + 1] = S[k] + info[k].width /\ info[k].width \in Nat
    BY <1>1, <2>1 DEF HasWidths
  <2> QED BY <1>3, <2>2
<1>6. ASSUME NEW a \in 0 .. n, NEW b \in a .. n PROVE WidthOf(info, n, a, b) \in Nat
  <2>1. b \in 0 .. n OBVIOUS
  <2>2. S[a] \in Nat /\ S[b] \in Nat /\ S[a] <= S[b] BY <1>1, <1>2, <2>1
  <2> QED BY <1>3, <2>2
<1> QED BY <1>4, <1>5, <1>6

\* The d widths from a on are those from b on.
Alike(info, a, other, b, d) == \A k \in 0 .. d - 1 : info[a + k].width = other[b + k].width

\* The same widths, wherever they are, are as wide together.
LEMMA SameWidths ==
  ASSUME NEW n \in Nat, NEW info, HasWidths(info, n), NEW m \in Nat, NEW other,
         HasWidths(other, m), NEW a \in 0 .. n, NEW b \in 0 .. m, NEW d \in Nat,
         a + d <= n, b + d <= m, Alike(info, a, other, b, d)
  PROVE  WidthOf(info, n, a, a + d) = WidthOf(other, m, b, b + d)
<1> USE DEF Alike
<1> DEFINE T == {k \in 0 .. d : WidthOf(info, n, a, a + k) = WidthOf(other, m, b, b + k)}
<1>a. \A h \in 0 .. n - 1 :
        WidthOf(info, n, a, h + 1) = WidthOf(info, n, a, h) + info[h].width
  BY WidthOfFacts
<1>b. \A h \in 0 .. m - 1 :
        WidthOf(other, m, b, h + 1) = WidthOf(other, m, b, h) + other[h].width
  BY WidthOfFacts
<1>1. 0 \in T
  <2>1. a + 0 = a /\ b + 0 = b /\ 0 \in 0 .. d OBVIOUS
  <2>2. WidthOf(info, n, a, a) = 0 /\ WidthOf(other, m, b, b) = 0 BY WidthOfFacts
  <2> QED BY <2>1, <2>2
<1>2. ASSUME NEW k \in 0 .. d - 1, k \in T PROVE k + 1 \in T
  <2>1. /\ a + k \in 0 .. n - 1 /\ b + k \in 0 .. m - 1 /\ k + 1 \in 0 .. d
        /\ a + (k + 1) = (a + k) + 1 /\ b + (k + 1) = (b + k) + 1
    OBVIOUS
  <2>2. /\ WidthOf(info, n, a, (a + k) + 1) = WidthOf(info, n, a, a + k) + info[a + k].width
        /\ WidthOf(other, m, b, (b + k) + 1) = WidthOf(other, m, b, b + k) + other[b + k].width
    BY <1>a, <1>b, <2>1
  <2>3. WidthOf(info, n, a, a + k) = WidthOf(other, m, b, b + k) BY <1>2
  <2>4. info[a + k].width = other[b + k].width OBVIOUS
  <2>5. WidthOf(info, n, a, (a + k) + 1) = WidthOf(other, m, b, (b + k) + 1)
    BY <2>2, <2>3, <2>4
  <2>6. WidthOf(info, n, a, a + (k + 1)) = WidthOf(other, m, b, b + (k + 1)) BY <2>1, <2>5
  <2> QED BY <2>1, <2>6
<1>3. \A k \in 0 .. d : k \in T
  <2> HIDE DEF T
  <2> QED BY <1>1, <1>2, Induct
<1>4. d \in T BY <1>3
<1> QED BY <1>4

\* The same in the same places.
LEMMA SameWidth ==
  ASSUME NEW n \in Nat, NEW info, HasWidths(info, n), NEW other, HasWidths(other, n),
         NEW a \in 0 .. n, NEW b \in a .. n,
         \A k \in a .. b - 1 : info[k].width = other[k].width
  PROVE  WidthOf(info, n, a, b) = WidthOf(other, n, a, b)
<1> DEFINE d == b - a
<1>1. d \in Nat /\ a + d <= n /\ a + d = b /\ a \in 0 .. n OBVIOUS
<1>2. Alike(info, a, other, a, d)
  <2> SUFFICES ASSUME NEW k \in 0 .. d - 1 PROVE info[a + k].width = other[a + k].width
    BY DEF Alike
  <2>1. a + k \in a .. b - 1 BY <1>1
  <2> QED BY <2>1
<1> HIDE DEF d
<1>3. WidthOf(info, n, a, a + d) = WidthOf(other, n, a, a + d)
  BY <1>1, <1>2, SameWidths
<1> QED BY <1>1, <1>3

\* Characters without a width have none together.
LEMMA NoWidth ==
  ASSUME NEW n \in Nat, NEW info, HasWidths(info, n), NEW a \in 0 .. n, NEW b \in a .. n,
         \A k \in a .. b - 1 : info[k].width = 0
  PROVE  WidthOf(info, n, a, b) = 0
<1> DEFINE T == {k \in 0 .. b - a : WidthOf(info, n, a, a + k) = 0}
<1>0. b - a \in Nat OBVIOUS
<1>1. 0 \in T
  <2>1. a + 0 = a /\ 0 \in 0 .. b - a OBVIOUS
  <2>2. WidthOf(info, n, a, a) = 0 BY WidthOfFacts
  <2> QED BY <2>1, <2>2
<1>2. ASSUME NEW k \in 0 .. (b - a) - 1, k \in T PROVE k + 1 \in T
  <2>1. /\ a + k \in 0 .. n - 1 /\ k + 1 \in 0 .. b - a /\ a + (k + 1) = (a + k) + 1
        /\ a + k \in a .. b - 1
    OBVIOUS
  <2>2. WidthOf(info, n, a, (a + k) + 1) = WidthOf(info, n, a, a + k) + info[a + k].width
    BY <2>1, WidthOfFacts
  <2>3. WidthOf(info, n, a, a + k) = 0 /\ info[a + k].width = 0 BY <1>2, <2>1
  <2> QED BY <2>1, <2>2, <2>3
<1>3. \A k \in 0 .. b - a : k \in T
  <2> HIDE DEF T
  <2> QED BY <1>0, <1>1, <1>2, Induct
<1>4. b - a \in 0 .. b - a /\ a + (b - a) = b OBVIOUS
<1>5. b - a \in T BY <1>3, <1>4
<1> QED BY <1>4, <1>5

\* The first of some numbers from a on, or b.
LEMMA FirstOf ==
  ASSUME NEW a \in Int, NEW b \in Int, a <= b, NEW T
  PROVE  /\ \E u \in a .. b : (u = b \/ u \in T) /\ \A t \in a .. u - 1 : t \notin T
         /\ \A u, v \in a .. b :
              /\ u = b \/ u \in T
              /\ \A t \in a .. u - 1 : t \notin T
              /\ v = b \/ v \in T
              /\ \A t \in a .. v - 1 : t \notin T
              => u = v
<1> DEFINE D == {t \in a .. b : t = b \/ t \in T}
<1>1. D \in SUBSET (a .. b) /\ b \in D OBVIOUS
<1>2. Min(D) \in D /\ \A t \in D : Min(D) <= t
  <2> HIDE DEF D
  <2>1. D # {} BY <1>1
  <2> QED BY <1>1, <2>1, LeastOf
<1>3. \A t \in a .. Min(D) - 1 : t \notin T
  <2> TAKE t \in a .. Min(D) - 1
  <2>1. Min(D) \in a .. b BY <1>2
  <2>2. t \in a .. b /\ ~(Min(D) <= t) BY <2>1
  <2> QED BY <1>2, <2>2
<1>4. Min(D) \in a .. b /\ (Min(D) = b \/ Min(D) \in T) BY <1>2
<1>5. ASSUME NEW u \in a .. b, NEW v \in a .. b,
             u = b \/ u \in T, \A t \in a .. u - 1 : t \notin T,
             v = b \/ v \in T, \A t \in a .. v - 1 : t \notin T, u < v
      PROVE  FALSE
  <2>1. u \in a .. v - 1 /\ u # b BY <1>5
  <2> QED BY <1>5, <2>1
<1>6. \A u, v \in a .. b : u = v \/ u < v \/ v < u OBVIOUS
<1> QED BY <1>3, <1>4, <1>5, <1>6

-----------------------------------------------------------------------------
(* Clusters: where a text may be cut, and the font of each cluster.        *)

\* The sets of values the lemmas are about: texts, fallback fonts, one font.
IsText(x) == x \in Seq(Characters)
AreFonts(fs) == fs \in Seq([Characters -> Glyph]) /\ fs # <<>>
IsFont(font) == font \in [Characters -> Glyph]

\* The character that starts a cluster in its segment, and its tail.
IsTail(x, t) == IsMark(x, t) /\ t # 0 /\ ~EndsSegment(x, t)
Cuts(x) == {t \in 0 .. Len(x) : t = Len(x) \/ ~IsTail(x, t)}
After(x, j) == CHOOSE u \in j + 1 .. Len(x) : /\ u = Len(x) \/ u \in Cuts(x)
                                              /\ \A t \in j + 1 .. u - 1 : t \notin Cuts(x)

\* A part of a segment that does not cut a cluster.
WholeRange(x, from, end) ==
  /\ from \in 0 .. Len(x) - 1 /\ end \in from + 1 .. Len(x)
  /\ from \in Cuts(x) /\ end \in Cuts(x)
  /\ \A u \in from + 1 .. end - 1 : ~EndsSegment(x, u)

\* Where the cluster after character j starts: a cut, and none before it.
LEMMA AfterIs ==
  ASSUME NEW x, IsText(x), NEW j \in Chars(x)
  PROVE  /\ After(x, j) \in j + 1 .. Len(x) /\ After(x, j) \in Cuts(x)
         /\ \A t \in j + 1 .. After(x, j) - 1 : IsTail(x, t)
         /\ \A t \in j + 1 .. Len(x) : t \in Cuts(x) => After(x, j) <= t
<1> DEFINE L == Len(x)
           u == After(x, j)
<1>1. L \in Nat /\ j + 1 \in Int /\ j + 1 <= L /\ L \in Int /\ j \in Nat BY DEF IsText, Chars
<1>2. \E v \in j + 1 .. L : (v = L \/ v \in Cuts(x)) /\ \A t \in j + 1 .. v - 1 : t \notin Cuts(x)
  <2> DEFINE T == Cuts(x)
  <2>1. \E v \in j + 1 .. L : (v = L \/ v \in T) /\ \A t \in j + 1 .. v - 1 : t \notin T
    <3> HIDE DEF L, T
    <3> QED BY <1>1, FirstOf
  <2> QED BY <2>1
<1>3. /\ u \in j + 1 .. L /\ (u = L \/ u \in Cuts(x))
      /\ \A t \in j + 1 .. u - 1 : t \notin Cuts(x)
  BY <1>2 DEF After
<1> HIDE DEF u
<1>4. u \in Cuts(x) BY <1>1, <1>3 DEF Cuts
<1>5. ASSUME NEW t \in j + 1 .. u - 1 PROVE IsTail(x, t)
  <2>1. t \in 0 .. L BY <1>1, <1>3
  <2> QED BY <1>3, <2>1 DEF Cuts
<1>6. ASSUME NEW t \in j + 1 .. L, t \in Cuts(x) PROVE u <= t
  <2>1. t \notin j + 1 .. u - 1 BY <1>3, <1>6
  <2> QED BY <1>1, <1>3, <2>1
<1> QED BY <1>3, <1>4, <1>5, <1>6 DEF u

\* Cluster j of a part that ends at end goes up to u: only marks are between.
IsClusterEnd(x, j, end, u) ==
  /\ u \in j + 1 .. end /\ (u = end \/ ~IsMark(x, u))
  /\ \A t \in j + 1 .. u - 1 : IsMark(x, t)

\* Every cluster ends, and in one place.
LEMMA ClusterEndIs ==
  ASSUME NEW x, NEW j \in Int, NEW end \in Int, j < end
  PROVE  /\ IsClusterEnd(x, j, end, ClusterEnd(x, j, end))
         /\ \A u : IsClusterEnd(x, j, end, u) => u = ClusterEnd(x, j, end)
<1> DEFINE T == {t \in j + 1 .. end : ~IsMark(x, t)}
           c == ClusterEnd(x, j, end)
<1>1. j + 1 \in Int /\ j + 1 <= end OBVIOUS
<1>2. /\ \E u \in j + 1 .. end : (u = end \/ u \in T) /\ \A t \in j + 1 .. u - 1 : t \notin T
      /\ \A u, v \in j + 1 .. end :
              /\ u = end \/ u \in T
              /\ \A t \in j + 1 .. u - 1 : t \notin T
              /\ v = end \/ v \in T
              /\ \A t \in j + 1 .. v - 1 : t \notin T
              => u = v
  <2> HIDE DEF T
  <2> QED BY <1>1, FirstOf
<1>3. \A u : IsClusterEnd(x, j, end, u) <=>
        u \in j + 1 .. end /\ (u = end \/ u \in T) /\ \A t \in j + 1 .. u - 1 : t \notin T
  BY DEF IsClusterEnd
<1>4. \E u \in j + 1 .. end : (u = end \/ ~IsMark(x, u)) /\ \A t \in j + 1 .. u - 1 : IsMark(x, t)
  BY <1>2
<1>5. IsClusterEnd(x, j, end, c) BY <1>4 DEF ClusterEnd, IsClusterEnd
<1> HIDE DEF T, c
<1>6. ASSUME NEW u, IsClusterEnd(x, j, end, u) PROVE u = c
  <2>1. /\ u \in j + 1 .. end /\ (u = end \/ u \in T) /\ \A t \in j + 1 .. u - 1 : t \notin T
        /\ c \in j + 1 .. end /\ (c = end \/ c \in T) /\ \A t \in j + 1 .. c - 1 : t \notin T
    BY <1>3, <1>5, <1>6
  <2> QED BY <1>2, <2>1
<1> QED BY <1>5, <1>6 DEF c

\* In a part that does not cut clusters, HarfBuzz's are those of the segment.
LEMMA InWhole ==
  ASSUME NEW x, IsText(x), NEW from, NEW end, WholeRange(x, from, end), NEW s \in from .. end - 1
  PROVE  /\ s \in Chars(x) /\ s \in Nat
         /\ (s > from /\ IsMark(x, s)) <=> IsTail(x, s)
         /\ ClusterEnd(x, s, end) = After(x, s)
         /\ After(x, s) \in s + 1 .. end /\ After(x, s) \in Cuts(x)
         /\ \A t \in s + 1 .. After(x, s) - 1 : IsTail(x, t)
<1>1. /\ from \in Nat /\ end \in Nat /\ Len(x) \in Nat /\ end <= Len(x) /\ from < end
      /\ s \in Nat /\ s \in Chars(x) /\ s < end /\ s \in 0 .. Len(x)
      /\ from \in Cuts(x) /\ end \in Cuts(x)
      /\ end \in s + 1 .. Len(x)
  BY DEF IsText, WholeRange, Chars
<1>2. \A t \in from + 1 .. end - 1 : IsTail(x, t) <=> IsMark(x, t)
  <2> TAKE t \in from + 1 .. end - 1
  <2>1. ~EndsSegment(x, t) BY DEF WholeRange
  <2>2. t # 0 BY <1>1
  <2> QED BY <2>1, <2>2 DEF IsTail
<1>3. ~IsTail(x, from)
  <2>1. from # Len(x) BY <1>1
  <2> QED BY <1>1, <2>1 DEF Cuts
<1>4. (s > from /\ IsMark(x, s)) <=> IsTail(x, s)
  <2>1. CASE s = from BY <1>1, <1>3, <2>1
  <2>2. CASE s # from
    <3>1. s \in from + 1 .. end - 1 /\ s > from BY <1>1, <2>2
    <3> QED BY <1>2, <3>1
  <2> QED BY <2>1, <2>2
<1> DEFINE u == After(x, s)
<1>5. /\ u \in s + 1 .. Len(x) /\ u \in Cuts(x) /\ \A t \in s + 1 .. u - 1 : IsTail(x, t)
      /\ u <= end
  BY <1>1, AfterIs
<1> HIDE DEF u
<1>6. u \in s + 1 .. end BY <1>1, <1>5
<1>7. u = end \/ ~IsMark(x, u)
  <2>1. CASE u # end
    <3>1. u \in from + 1 .. end - 1 /\ u # Len(x) BY <1>1, <1>6, <2>1
    <3>2. ~IsTail(x, u) BY <1>5, <3>1 DEF Cuts
    <3> QED BY <1>2, <3>1, <3>2
  <2> QED BY <2>1
<1>8. \A t \in s + 1 .. u - 1 : IsMark(x, t)
  <2> TAKE t \in s + 1 .. u - 1
  <2>1. IsTail(x, t) BY <1>5
  <2> QED BY <2>1 DEF IsTail
<1>9. IsClusterEnd(x, s, end, u) BY <1>6, <1>7, <1>8 DEF IsClusterEnd
<1>10. u = ClusterEnd(x, s, end)
  <2>1. s \in Int /\ end \in Int BY <1>1
  <2> QED BY <1>1, <1>9, <2>1, ClusterEndIs
<1> QED BY <1>1, <1>4, <1>5, <1>6, <1>10 DEF u

\* A part of a segment's part that cuts no cluster cuts none either.
LEMMA PartOfWhole ==
  ASSUME NEW x, IsText(x), NEW from, NEW end, WholeRange(x, from, end),
         NEW a \in from .. end - 1, NEW b \in a + 1 .. end, a \in Cuts(x), b \in Cuts(x)
  PROVE  WholeRange(x, a, b)
<1>1. /\ from \in Nat /\ end \in Nat /\ Len(x) \in Nat /\ end <= Len(x) /\ from < end
  BY DEF IsText, WholeRange
<1>2. a \in 0 .. Len(x) - 1 /\ b \in a + 1 .. Len(x) BY <1>1
<1>3. ASSUME NEW u \in a + 1 .. b - 1 PROVE ~EndsSegment(x, u)
  <2>1. u \in from + 1 .. end - 1 BY <1>1
  <2> QED BY <2>1 DEF WholeRange
<1> QED BY <1>2, <1>3 DEF WholeRange

-----------------------------------------------------------------------------
(* The font of a cluster: the first that has it all, or the last.          *)

\* The fonts that have all of the cluster at t, and the first of them from n on.
Has(x, fs, t) == {m \in DOMAIN fs : ~HasNotdef(x, fs[m], t, After(x, t))}
FontOf(x, fs, n, t) ==
  CHOOSE m \in n .. Len(fs) : /\ m = Len(fs) \/ m \in Has(x, fs, t)
                              /\ \A k \in n .. m - 1 : k \notin Has(x, fs, t)

\* The font of a cluster from font n on is n, or what it is from the next font on.
LEMMA FontOfIs ==
  ASSUME NEW x, NEW fs, AreFonts(fs), NEW n \in DOMAIN fs, NEW t
  PROVE  /\ FontOf(x, fs, n, t) \in DOMAIN fs
         /\ n = Len(fs) \/ n \in Has(x, fs, t) => FontOf(x, fs, n, t) = n
         /\ n # Len(fs) /\ n \notin Has(x, fs, t) =>
              /\ n + 1 \in DOMAIN fs
              /\ FontOf(x, fs, n, t) = FontOf(x, fs, n + 1, t)
<1> DEFINE N == Len(fs)
           H == Has(x, fs, t)
           Is(k, m) == /\ m \in k .. N /\ (m = N \/ m \in H)
                       /\ \A j \in k .. m - 1 : j \notin H
<1>1. N \in Nat /\ DOMAIN fs = 1 .. N /\ n \in 1 .. N /\ N \in Int BY DEF AreFonts
<1> HIDE DEF H, N
<1>2. ASSUME NEW k \in 1 .. N
      PROVE  /\ Is(k, FontOf(x, fs, k, t))
             /\ \A m : Is(k, m) => m = FontOf(x, fs, k, t)
  <2>1. k \in Int /\ k <= N BY <1>1
  <2>2. /\ \E m \in k .. N : (m = N \/ m \in H) /\ \A j \in k .. m - 1 : j \notin H
        /\ \A u, v \in k .. N :
              /\ u = N \/ u \in H
              /\ \A j \in k .. u - 1 : j \notin H
              /\ v = N \/ v \in H
              /\ \A j \in k .. v - 1 : j \notin H
              => u = v
    BY <1>1, <2>1, FirstOf
  <2>3. FontOf(x, fs, k, t) = CHOOSE m \in k .. N : (m = N \/ m \in H) /\ \A j \in k .. m - 1 : j \notin H
    BY DEF FontOf, H, N
  <2>4. Is(k, FontOf(x, fs, k, t)) BY <2>2, <2>3
  <2>5. ASSUME NEW m, Is(k, m) PROVE m = FontOf(x, fs, k, t)
    BY <2>2, <2>4, <2>5
  <2> QED BY <2>4, <2>5
<1>3. FontOf(x, fs, n, t) \in DOMAIN fs
  <2>1. FontOf(x, fs, n, t) \in n .. N BY <1>1, <1>2
  <2> QED BY <1>1, <2>1
<1>4. ASSUME n = N \/ n \in H PROVE FontOf(x, fs, n, t) = n
  <2>1. Is(n, n) BY <1>1, <1>4
  <2> HIDE DEF Is
  <2> QED BY <1>1, <1>2, <2>1
<1>5. ASSUME n # N, n \notin H
      PROVE  n + 1 \in DOMAIN fs /\ FontOf(x, fs, n, t) = FontOf(x, fs, n + 1, t)
  <2>1. n + 1 \in 1 .. N BY <1>1, <1>5
  <2> DEFINE m == FontOf(x, fs, n + 1, t)
  <2>2. Is(n + 1, m) BY <1>2, <2>1
  <2> HIDE DEF m
  <2>3. m \in n .. N BY <1>1, <2>2
  <2>4. ASSUME NEW j \in n .. m - 1 PROVE j \notin H
    <3>1. j = n \/ j \in n + 1 .. m - 1 BY <1>1, <2>3
    <3> QED BY <1>5, <2>2, <3>1
  <2>5. Is(n, m) BY <2>2, <2>3, <2>4
  <2> HIDE DEF Is
  <2> QED BY <1>1, <1>2, <2>1, <2>5 DEF m
<1> QED BY <1>3, <1>4, <1>5 DEF H, N

-----------------------------------------------------------------------------
(* measureSegment: types, and its loop step by step.                       *)

\* What measureSegment passes on: a width and a tail flag for each character, for
\* each part of the text.
Infos(x) == [Chars(x) -> [width : Nat, tail : BOOLEAN]]
Segs(x)  == [measured : BOOLEAN, info : Infos(x), width : Int]
Accs(x)  == [info : Infos(x), width : Int, notdef : {-1} \cup Chars(x), notdef_width : Int]
Finds(x) == [Ranges(x) -> Segs(x)]

\* A text's characters are counted by a number.
LEMMA CharsAre ==
  ASSUME NEW x, IsText(x)
  PROVE  /\ Len(x) \in Nat /\ Chars(x) = 0 .. Len(x) - 1
         /\ \A t \in Chars(x) : x[t + 1] \in Characters /\ t \in Nat
BY DEF IsText, Chars

\* Every character of such a record has a width.
LEMMA InfosHaveWidths ==
  ASSUME NEW x, NEW info \in Infos(x)
  PROVE  /\ HasWidths(info, Len(x))
         /\ DOMAIN info = Chars(x)
         /\ \A t \in Chars(x) : info[t].width \in Nat /\ info[t].tail \in BOOLEAN
<1>1. \A t \in Chars(x) : info[t] \in [width : Nat, tail : BOOLEAN] BY DEF Infos
<1> QED BY <1>1 DEF HasWidths, Chars, Infos

\* What HarfBuzz says of a cluster: the width of its glyphs.
LEMMA ClusterWidthIs ==
  ASSUME NEW x, IsText(x), NEW font, IsFont(font)
  PROVE  /\ HasWidths(Glyphs(x, font), Len(x))
         /\ \A j \in Chars(x) : \A end \in j + 1 .. Len(x) :
              /\ ClusterEnd(x, j, end) \in j + 1 .. end
              /\ ClusterWidth(x, font, j, end) \in Nat
<1>1. HasWidths(Glyphs(x, font), Len(x))
  <2>1. ASSUME NEW t \in 0 .. Len(x) - 1 PROVE Glyphs(x, font)[t].width \in Nat
    <3>1. t \in Chars(x) BY DEF Chars
    <3>2. x[t + 1] \in Characters BY <3>1, CharsAre
    <3>3. font[x[t + 1]] \in [width : Nat, found : BOOLEAN] BY <3>2 DEF IsFont, Glyph
    <3> QED BY <3>1, <3>3 DEF Glyphs
  <2> QED BY <2>1 DEF HasWidths
<1>2. ASSUME NEW j \in Chars(x), NEW end \in j + 1 .. Len(x)
      PROVE  ClusterEnd(x, j, end) \in j + 1 .. end /\ ClusterWidth(x, font, j, end) \in Nat
  <2>1. j \in Int /\ end \in Int /\ j < end /\ Len(x) \in Nat /\ j \in 0 .. Len(x) BY CharsAre
  <2>2. ClusterEnd(x, j, end) \in j + 1 .. end BY <2>1, ClusterEndIs DEF IsClusterEnd
  <2>3. ClusterEnd(x, j, end) \in j .. Len(x) BY <2>1, <2>2
  <2>4. WidthOf(Glyphs(x, font), Len(x), j, ClusterEnd(x, j, end)) \in Nat
    BY <1>1, <2>1, <2>3, WidthOfFacts
  <2> QED BY <2>2, <2>4 DEF ClusterWidth
<1> QED BY <1>1, <1>2

\* A part that was measured again replaces what was there, and nothing else.
LEMMA RemeasuredIs ==
  ASSUME NEW x, NEW info \in Infos(x), NEW seg \in Segs(x), NEW from, NEW end
  PROVE  LET new == Remeasured(info, seg, from, end)
         IN  /\ new \in Infos(x)
             /\ \A t \in Chars(x) :
                  IF t \in from .. end - 1
                  THEN new[t].width = seg.info[t].width
                       /\ new[t].tail = (info[t].tail \/ seg.info[t].tail)
                  ELSE new[t] = info[t]
<1> DEFINE new == Remeasured(info, seg, from, end)
           R == [width : Nat, tail : BOOLEAN]
<1>1. seg.info \in Infos(x) BY DEF Segs
<1>2. DOMAIN info = Chars(x) BY InfosHaveWidths
<1>3. \A t \in Chars(x) : info[t] \in R /\ seg.info[t].width \in Nat
  BY <1>1, InfosHaveWidths DEF Infos
<1>4. new = [t \in Chars(x) |->
               IF t \in from .. end - 1
               THEN [width |-> seg.info[t].width, tail |-> info[t].tail \/ seg.info[t].tail]
               ELSE info[t]]
  BY <1>2 DEF Remeasured
<1>5. \A t \in Chars(x) :
        [width |-> seg.info[t].width, tail |-> info[t].tail \/ seg.info[t].tail] \in R
  <2> TAKE t \in Chars(x)
  <2>1. (info[t].tail \/ seg.info[t].tail) \in BOOLEAN OBVIOUS
  <2> QED BY <1>3, <2>1
<1>6. new \in Infos(x)
  <2>1. \A t \in Chars(x) : new[t] \in R
    <3> HIDE DEF R
    <3> QED BY <1>3, <1>4, <1>5
  <2> QED BY <1>4, <2>1 DEF Infos
<1>7. \A t \in Chars(x) :
        IF t \in from .. end - 1
        THEN new[t].width = seg.info[t].width
             /\ new[t].tail = (info[t].tail \/ seg.info[t].tail)
        ELSE new[t] = info[t]
  BY <1>4
<1> QED BY <1>6, <1>7

\* What Fallback does, by cases.
LEMMA FallbackIs ==
  ASSUME NEW x, IsText(x), NEW acc \in Accs(x), NEW fallback \in Finds(x), NEW t \in 0 .. Len(x)
  PROVE  LET new == Fallback(acc, fallback, t)
             seg == fallback[<<acc.notdef, t>>]
         IN  /\ new \in Accs(x)
             /\ acc.notdef < 0 => new = acc
             /\ acc.notdef >= 0 =>
                  /\ new.notdef = -1 /\ new.notdef_width = 0
                  /\ seg \in Segs(x)
                  /\ seg.measured =>
                       /\ new.info = Remeasured(acc.info, seg, acc.notdef, t)
                       /\ new.width = (acc.width - acc.notdef_width) + seg.width
                  /\ ~seg.measured => new.info = acc.info /\ new.width = acc.width
<1> DEFINE new == Fallback(acc, fallback, t)
           seg == fallback[<<acc.notdef, t>>]
<1>1. /\ acc.info \in Infos(x) /\ acc.width \in Int /\ acc.notdef_width \in Int
      /\ acc.notdef \in {-1} \cup Chars(x)
  BY DEF Accs
<1>2. CASE acc.notdef < 0
  <2>2. ~(acc.notdef >= 0) BY <1>1, <1>2 DEF Chars
  <2>1. new = acc BY <1>2, <2>2 DEF Fallback
  <2> QED BY <1>2, <2>1, <2>2
<1>3. CASE ~(acc.notdef < 0)
  <2>1. acc.notdef \in Chars(x) /\ acc.notdef >= 0 BY <1>1, <1>3 DEF Chars
  <2>2. <<acc.notdef, t>> \in Ranges(x)
    <3>1. acc.notdef \in 0 .. Len(x) BY <2>1, CharsAre
    <3> QED BY <3>1 DEF Ranges
  <2>3. seg \in Segs(x) BY <2>2 DEF Finds
  <2>4. seg.width \in Int /\ seg.measured \in BOOLEAN BY <2>3 DEF Segs
  <2> HIDE DEF seg
  <2>5. CASE seg.measured
    <3> DEFINE re == Remeasured(acc.info, seg, acc.notdef, t)
    <3>1. new = [info |-> re, notdef |-> -1,
                 width |-> (acc.width - acc.notdef_width) + seg.width, notdef_width |-> 0]
      BY <1>3, <2>1, <2>5 DEF Fallback, seg
    <3>2. re \in Infos(x) BY <1>1, <2>3, RemeasuredIs
    <3> HIDE DEF re
    <3>3. new \in Accs(x)
      <4>1. (acc.width - acc.notdef_width) + seg.width \in Int BY <1>1, <2>4
      <4> QED BY <3>1, <3>2, <4>1 DEF Accs
    <3> QED BY <1>3, <2>1, <2>3, <2>5, <3>1, <3>3 DEF re, seg
  <2>6. CASE ~seg.measured
    <3>1. new = [acc EXCEPT !.notdef = -1, !.notdef_width = 0]
      BY <1>3, <2>1, <2>6 DEF Fallback, seg
    <3>2. /\ new.info = acc.info /\ new.width = acc.width /\ new.notdef = -1
          /\ new.notdef_width = 0
          /\ new = [info |-> acc.info, width |-> acc.width, notdef |-> -1, notdef_width |-> 0]
      BY <3>1 DEF Accs
    <3>3. new \in Accs(x) BY <1>1, <3>2 DEF Accs
    <3> QED BY <1>3, <2>1, <2>3, <2>6, <3>2, <3>3 DEF seg
  <2> QED BY <2>5, <2>6
<1> QED BY <1>2, <1>3

\* A character's width is put down.
Put(info, j, w) == [info EXCEPT ![j].width = w]

\* One width is put down, the rest is as it was.
LEMMA PutWidth ==
  ASSUME NEW x, NEW info \in Infos(x), NEW j \in Chars(x), NEW w \in Nat
  PROVE  /\ Put(info, j, w) \in Infos(x) /\ Put(info, j, w)[j].width = w
         /\ Put(info, j, w)[j].tail = info[j].tail
         /\ \A t \in Chars(x) : t # j => Put(info, j, w)[t] = info[t]
<1> DEFINE new == Put(info, j, w)
           R == [width : Nat, tail : BOOLEAN]
<1>1. DOMAIN info = Chars(x) /\ info \in [Chars(x) -> R] BY DEF Infos
<1>2. info[j] \in R BY <1>1
<1>3. [info[j] EXCEPT !.width = w] \in R /\ [info[j] EXCEPT !.width = w].width = w
      /\ [info[j] EXCEPT !.width = w].tail = info[j].tail
  BY <1>2
<1>4. new = [info EXCEPT ![j] = [info[j] EXCEPT !.width = w]] BY DEF Put
<1> DEFINE r == [info[j] EXCEPT !.width = w]
<1>5. /\ r \in R /\ r.width = w /\ r.tail = info[j].tail
      /\ new = [info EXCEPT ![j] = r]
  BY <1>3, <1>4
<1> HIDE DEF r, new, R
<1>6. new \in [Chars(x) -> R] /\ new[j] = r /\ \A t \in Chars(x) : t # j => new[t] = info[t]
  BY <1>1, <1>5
<1> QED BY <1>5, <1>6 DEF Infos, new, R

\* What MeasureCluster does.
LEMMA MeasureClusterIs ==
  ASSUME NEW x, IsText(x), NEW font, IsFont(font), NEW acc0 \in Accs(x),
         NEW fallback \in Finds(x), NEW j \in Chars(x), NEW end \in j + 1 .. Len(x)
  PROVE  LET acc == IF font[x[j + 1]].found THEN Fallback(acc0, fallback, j) ELSE acc0
             w   == ClusterWidth(x, font, j, end)
             bad == acc.notdef >= 0 \/ HasNotdef(x, font, j, end)
             new == MeasureCluster(acc0, x, font, fallback, j, end)
         IN  /\ new \in Accs(x) /\ acc \in Accs(x) /\ w \in Nat
             /\ new.info[j].width = w /\ new.info[j].tail = acc.info[j].tail
             /\ \A t \in Chars(x) : t # j => new.info[t] = acc.info[t]
             /\ new.width = acc.width + w
             /\ new.notdef = IF acc.notdef < 0 /\ bad THEN j ELSE acc.notdef
             /\ new.notdef_width = acc.notdef_width + (IF bad THEN w ELSE 0)
<1> DEFINE acc == IF font[x[j + 1]].found THEN Fallback(acc0, fallback, j) ELSE acc0
           w   == ClusterWidth(x, font, j, end)
           bad == acc.notdef >= 0 \/ HasNotdef(x, font, j, end)
           new == MeasureCluster(acc0, x, font, fallback, j, end)
           info == Put(acc.info, j, w)
<1>1. acc \in Accs(x)
  <2>1. j \in 0 .. Len(x) BY CharsAre
  <2>2. Fallback(acc0, fallback, j) \in Accs(x) BY <2>1, FallbackIs
  <2> QED BY <2>2
<1>2. w \in Nat BY ClusterWidthIs
<1>3. new = [info |-> info, width |-> acc.width + w,
             notdef |-> IF acc.notdef < 0 /\ bad THEN j ELSE acc.notdef,
             notdef_width |-> acc.notdef_width + (IF bad THEN w ELSE 0)]
  BY DEF MeasureCluster, Put
<1> HIDE DEF acc, w, new
<1>4. /\ acc.info \in Infos(x) /\ acc.width \in Int /\ acc.notdef_width \in Int
      /\ acc.notdef \in {-1} \cup Chars(x)
  BY <1>1 DEF Accs
<1>5. /\ info \in Infos(x) /\ info[j].width = w /\ info[j].tail = acc.info[j].tail
      /\ \A t \in Chars(x) : t # j => info[t] = acc.info[t]
  <2> DEFINE i0 == acc.info
  <2>1. i0 \in Infos(x) BY <1>4
  <2> HIDE DEF i0
  <2>2. /\ Put(i0, j, w) \in Infos(x) /\ Put(i0, j, w)[j].width = w
        /\ Put(i0, j, w)[j].tail = i0[j].tail
        /\ \A t \in Chars(x) : t # j => Put(i0, j, w)[t] = i0[t]
    BY <1>2, <2>1, PutWidth
  <2> QED BY <2>2 DEF i0
<1> HIDE DEF info, bad
<1>6. /\ acc.width + w \in Int
      /\ acc.notdef_width + (IF bad THEN w ELSE 0) \in Int
      /\ (IF acc.notdef < 0 /\ bad THEN j ELSE acc.notdef) \in {-1} \cup Chars(x)
  BY <1>2, <1>4
<1>7. new \in Accs(x) BY <1>3, <1>5, <1>6 DEF Accs
<1>8. /\ new.info = info /\ new.width = acc.width + w
      /\ new.notdef = IF acc.notdef < 0 /\ bad THEN j ELSE acc.notdef
      /\ new.notdef_width = acc.notdef_width + (IF bad THEN w ELSE 0)
  BY <1>3
<1> QED BY <1>1, <1>2, <1>5, <1>7, <1>8 DEF acc, w, new, bad

\* What MeasureTail does.
LEMMA MeasureTailIs ==
  ASSUME NEW x, NEW acc \in Accs(x), NEW j \in Chars(x)
  PROVE  LET new == MeasureTail(acc, j)
         IN  /\ new \in Accs(x) /\ new.info[j] = [width |-> 0, tail |-> TRUE]
             /\ \A t \in Chars(x) : t # j => new.info[t] = acc.info[t]
             /\ new.width = acc.width /\ new.notdef = acc.notdef
             /\ new.notdef_width = acc.notdef_width
<1> DEFINE new == MeasureTail(acc, j)
           r == [width |-> 0, tail |-> TRUE]
           info == [acc.info EXCEPT ![j] = r]
           R == [width : Nat, tail : BOOLEAN]
<1>1. /\ acc.info \in [Chars(x) -> R] /\ acc.width \in Int /\ acc.notdef_width \in Int
      /\ acc.notdef \in {-1} \cup Chars(x) /\ r \in R
  BY DEF Accs, Infos
<1>2. new = [acc EXCEPT !.info = info] BY DEF MeasureTail
<1> HIDE DEF r, R
<1>3. /\ info \in [Chars(x) -> R] /\ info[j] = r
      /\ \A t \in Chars(x) : t # j => info[t] = acc.info[t]
  BY <1>1
<1>4. /\ new.info = info /\ new.width = acc.width /\ new.notdef = acc.notdef
      /\ new.notdef_width = acc.notdef_width
      /\ new = [info |-> info, width |-> acc.width, notdef |-> acc.notdef,
                notdef_width |-> acc.notdef_width]
  <2> HIDE DEF info
  <2> QED BY <1>2 DEF Accs
<1>5. new \in Accs(x)
  <2> HIDE DEF info, new
  <2> QED BY <1>1, <1>3, <1>4 DEF Accs, Infos, R
<1> QED BY <1>3, <1>4, <1>5 DEF r

-----------------------------------------------------------------------------
(* The loops of measureSegment and of measure.                             *)

\* Before the loop nothing is measured.
LEMMA NothingMeasured ==
  ASSUME NEW x, IsText(x)
  PROVE  Unmeasured(x) \in Infos(x) /\ NotMeasured(x) \in Segs(x) /\ NoneMeasured(x) \in Accs(x)
<1>1. Unmeasured(x) \in Infos(x) BY DEF Unmeasured, Infos
<1>2. NotMeasured(x) \in Segs(x)
  <2> DEFINE i0 == Unmeasured(x)
  <2>1. NotMeasured(x) = [measured |-> FALSE, info |-> i0, width |-> 0] BY DEF NotMeasured
  <2> HIDE DEF i0
  <2>2. i0 \in Infos(x) BY <1>1 DEF i0
  <2> QED BY <2>1, <2>2 DEF Segs
<1>3. NoneMeasured(x) \in Accs(x)
  <2> DEFINE i0 == Unmeasured(x)
  <2>1. NoneMeasured(x) = [info |-> i0, width |-> 0, notdef |-> -1, notdef_width |-> 0]
    BY DEF NoneMeasured
  <2> HIDE DEF i0
  <2>2. i0 \in Infos(x) BY <1>1 DEF i0
  <2> QED BY <2>1, <2>2 DEF Accs
<1> QED BY <1>1, <1>2, <1>3

\* One turn of the loop, with what it comes to.
MeasureStep(acc, x, font, fallback, from, end, t) ==
  CASE t <= from -> NoneMeasured(x)
    [] t > from + 1 /\ IsMark(x, t - 1) -> MeasureTail(acc, t - 1)
    [] OTHER -> MeasureCluster(acc, x, font, fallback, t - 1, end)

\* One turn keeps the loop's types.
LEMMA MeasureStepIs ==
  ASSUME NEW x, IsText(x), NEW font, IsFont(font), NEW fallback \in Finds(x),
         NEW from \in Nat, NEW end \in 0 .. Len(x), NEW t \in 1 .. end, NEW acc \in Accs(x)
  PROVE  LET new == MeasureStep(acc, x, font, fallback, from, end, t)
         IN  /\ new \in Accs(x)
             /\ t <= from => new = NoneMeasured(x)
             /\ t > from + 1 /\ IsMark(x, t - 1) => new = MeasureTail(acc, t - 1)
             /\ t > from /\ ~(t > from + 1 /\ IsMark(x, t - 1)) =>
                  new = MeasureCluster(acc, x, font, fallback, t - 1, end)
<1> DEFINE new == MeasureStep(acc, x, font, fallback, from, end, t)
<1>0. t \in Nat /\ t - 1 \in Chars(x) /\ end \in (t - 1) + 1 .. Len(x)
  BY CharsAre
<1>1. CASE t <= from
  <2>1. ~(t > from) /\ ~(t > from + 1) BY <1>0, <1>1
  <2>2. new = NoneMeasured(x) BY <1>1, <2>1 DEF MeasureStep
  <2> QED BY <2>1, <2>2, NothingMeasured
<1>2. CASE t > from + 1 /\ IsMark(x, t - 1)
  <2>1. ~(t <= from) BY <1>0, <1>2
  <2>2. new = MeasureTail(acc, t - 1) BY <1>2, <2>1 DEF MeasureStep
  <2>3. MeasureTail(acc, t - 1) \in Accs(x) BY <1>0, MeasureTailIs
  <2> QED BY <1>2, <2>1, <2>2, <2>3
<1>3. CASE ~(t <= from) /\ ~(t > from + 1 /\ IsMark(x, t - 1))
  <2>1. new = MeasureCluster(acc, x, font, fallback, t - 1, end)
    BY <1>3 DEF MeasureStep
  <2>2. MeasureCluster(acc, x, font, fallback, t - 1, end) \in Accs(x)
    BY <1>0, MeasureClusterIs
  <2> QED BY <1>3, <2>1, <2>2
<1> QED BY <1>1, <1>2, <1>3

\* The loop as a function of the turns done: what it starts from and each turn.
IsMeasuring(f, x, font, fallback, from, end) ==
  f = [t \in 0 .. end |->
          CASE t <= from -> NoneMeasured(x)
            [] t > from + 1 /\ IsMark(x, t - 1) -> MeasureTail(f[t - 1], t - 1)
            [] OTHER -> MeasureCluster(f[t - 1], x, font, fallback, t - 1, end)]

\* Measuring is that function.
LEMMA MeasuringSteps ==
  ASSUME NEW x, IsText(x), NEW font, IsFont(font), NEW fallback \in Finds(x),
         NEW from \in Nat, NEW end \in 0 .. Len(x)
  PROVE  LET F == Measuring(x, font, fallback, from, end)
         IN  /\ F[0] = NoneMeasured(x)
             /\ \A t \in 0 .. end : F[t] \in Accs(x)
             /\ \A t \in 1 .. end : F[t] = MeasureStep(F[t - 1], x, font, fallback, from, end, t)
<1> DEFINE a == NoneMeasured(x)
           S == Accs(x)
           St(acc, t) == MeasureStep(acc, x, font, fallback, from, end, t)
           G == [p \in (1 .. end) \X S |-> St(p[2], p[1])]
           F == Measuring(x, font, fallback, from, end)
<1>0. end \in Nat /\ Len(x) \in Nat BY CharsAre
<1>1. G \in [(1 .. end) \X S -> S]
  <2> SUFFICES ASSUME NEW p \in (1 .. end) \X S PROVE St(p[2], p[1]) \in S OBVIOUS
  <2>1. p[1] \in 1 .. end /\ p[2] \in S OBVIOUS
  <2> QED BY <2>1, MeasureStepIs
<1>2. a \in S BY NothingMeasured
<1>3. PICK f \in [0 .. end -> S] : Iterates(f, end, a, G)
  <2> HIDE DEF G, S, a
  <2> QED BY <1>0, <1>1, <1>2, Recursion
<1>4. \A k \in 0 .. end : f[k] = IF k = 0 THEN a ELSE G[<<k, f[k - 1]>>]
  <2> HIDE DEF G
  <2> QED BY <1>3 DEF Iterates
<1>5. ASSUME NEW k \in 1 .. end PROVE f[k] = St(f[k - 1], k)
  <2>1. k \in 0 .. end /\ k - 1 \in 0 .. end /\ k # 0 OBVIOUS
  <2>2. f[k - 1] \in S BY <1>3, <2>1
  <2>3. <<k, f[k - 1]>> \in (1 .. end) \X S BY <2>2
  <2>4. f[k] = G[<<k, f[k - 1]>>] BY <1>4, <2>1
  <2> QED BY <2>3, <2>4
<1> HIDE DEF G
<1>6. f[0] = a
  <2>1. 0 \in 0 .. end BY <1>0
  <2> QED BY <1>4, <2>1
<1> DEFINE C(g, t) == CASE t <= from -> NoneMeasured(x)
                        [] t > from + 1 /\ IsMark(x, t - 1) -> MeasureTail(g[t - 1], t - 1)
                        [] OTHER -> MeasureCluster(g[t - 1], x, font, fallback, t - 1, end)
<1>7. \A g, t : C(g, t) = St(g[t - 1], t) BY DEF MeasureStep
<1>8. \A g : C(g, 0) = a BY DEF a
<1> HIDE DEF C, St, a
<1>9. \A t \in 0 .. end : f[t] = C(f, t)
  <2> TAKE t \in 0 .. end
  <2>1. CASE t = 0 BY <1>6, <1>8, <2>1
  <2>2. CASE t # 0
    <3>1. t \in 1 .. end BY <2>2
    <3> QED BY <1>5, <1>7, <3>1
  <2> QED BY <2>1, <2>2
<1>10. f = [t \in 0 .. end |-> C(f, t)]
  <2>1. f = [t \in 0 .. end |-> f[t]] BY <1>3
  <2> QED BY <1>9, <2>1
<1>11. IsMeasuring(f, x, font, fallback, from, end) BY <1>10 DEF IsMeasuring, C
<1>12. F = CHOOSE g : IsMeasuring(g, x, font, fallback, from, end) BY DEF Measuring, IsMeasuring
<1>13. IsMeasuring(F, x, font, fallback, from, end) BY <1>11, <1>12
<1> HIDE DEF F
<1>14. F = [t \in 0 .. end |-> C(F, t)] BY <1>13 DEF IsMeasuring, C
<1>15. \A t \in 0 .. end : F[t] = C(F, t) BY <1>14, Zenon
<1>16. F[0] = a
  <2>1. 0 \in 0 .. end BY <1>0
  <2> QED BY <1>8, <1>15, <2>1
<1>17. ASSUME NEW t \in 1 .. end PROVE F[t] = St(F[t - 1], t)
  <2>1. t \in 0 .. end OBVIOUS
  <2> QED BY <1>7, <1>15, <2>1
<1>18. \A t \in 0 .. end : F[t] \in S
  <2> DEFINE T == {t \in 0 .. end : F[t] \in S}
  <2>1. 0 \in T BY <1>0, <1>2, <1>16
  <2>2. ASSUME NEW t \in 0 .. end - 1, t \in T PROVE t + 1 \in T
    <3>1. t + 1 \in 1 .. end /\ t + 1 \in 0 .. end /\ (t + 1) - 1 = t BY <1>0
    <3>2. F[t + 1] = St(F[t], t + 1) BY <1>17, <3>1
    <3>3. F[t] \in Accs(x) BY <2>2
    <3>4. St(F[t], t + 1) \in S BY <3>1, <3>3, MeasureStepIs DEF St
    <3> QED BY <3>1, <3>2, <3>4
  <2>3. \A t \in 0 .. end : t \in T
    <3> HIDE DEF T
    <3> QED BY <1>0, <2>1, <2>2, Induct
  <2> QED BY <2>3
<1> QED BY <1>16, <1>17, <1>18 DEF F, St, a

\* What is left of a part has the type of what the fallback font leaves.
LEMMA MeasureRangeIs ==
  ASSUME NEW x, IsText(x), NEW font, IsFont(font), NEW fallback \in Finds(x),
         NEW from \in 0 .. Len(x), NEW end \in 0 .. Len(x)
  PROVE  LET seg  == MeasureRange(x, font, fallback, from, end)
             last == Fallback(Measuring(x, font, fallback, from, end)[end], fallback, end)
         IN  /\ seg \in Segs(x)
             /\ end <= from => seg = NotMeasured(x)
             /\ ~(end <= from) => /\ seg.measured = TRUE /\ last \in Accs(x)
                                  /\ seg.info = last.info /\ seg.width = last.width
<1> DEFINE seg  == MeasureRange(x, font, fallback, from, end)
           last == Fallback(Measuring(x, font, fallback, from, end)[end], fallback, end)
<1>1. CASE end <= from
  <2>1. seg = NotMeasured(x) BY <1>1 DEF MeasureRange
  <2> QED BY <1>1, <2>1, NothingMeasured
<1>2. CASE ~(end <= from)
  <2>1. Measuring(x, font, fallback, from, end)[end] \in Accs(x)
    <3>1. end \in 0 .. end /\ from \in Nat BY CharsAre
    <3> QED BY <3>1, MeasuringSteps
  <2>2. last \in Accs(x) BY <2>1, FallbackIs
  <2>3. seg = [measured |-> TRUE, info |-> last.info, width |-> last.width]
    BY <1>2 DEF MeasureRange
  <2> HIDE DEF last, seg
  <2>4. last.info \in Infos(x) /\ last.width \in Int BY <2>2 DEF Accs
  <2>5. seg \in Segs(x) BY <2>3, <2>4 DEF Segs
  <2> QED BY <1>2, <2>2, <2>3, <2>5 DEF last, seg
<1> QED BY <1>1, <1>2

\* What the fonts from n on find of each range.
Find(x, fs, k) == Measured(x, fs)[k]
NothingFound(x) == [r \in Ranges(x) |-> NotMeasured(x)]
FindWith(x, font, fallback) == [r \in Ranges(x) |-> MeasureRange(x, font, fallback, r[1], r[2])]

\* One more font finds something of every part.
LEMMA FindWithIs ==
  ASSUME NEW x, IsText(x), NEW font, IsFont(font), NEW fallback \in Finds(x)
  PROVE  /\ FindWith(x, font, fallback) \in Finds(x)
         /\ \A from, end \in 0 .. Len(x) :
              FindWith(x, font, fallback)[<<from, end>>] = MeasureRange(x, font, fallback, from, end)
<1>1. ASSUME NEW r \in Ranges(x) PROVE MeasureRange(x, font, fallback, r[1], r[2]) \in Segs(x)
  <2>1. r[1] \in 0 .. Len(x) /\ r[2] \in 0 .. Len(x) BY DEF Ranges
  <2> QED BY <2>1, MeasureRangeIs
<1>2. ASSUME NEW from \in 0 .. Len(x), NEW end \in 0 .. Len(x)
      PROVE  FindWith(x, font, fallback)[<<from, end>>] = MeasureRange(x, font, fallback, from, end)
  <2>1. <<from, end>> \in Ranges(x) BY DEF Ranges
  <2> QED BY <2>1 DEF FindWith
<1> QED BY <1>1, <1>2 DEF FindWith, Finds

\* The fonts one after the other, from the last back, as a function of their number.
IsMeasuredBy(f, x, fs) ==
  f = [k \in 0 .. Len(fs) |->
         [r \in Ranges(x) |->
           IF k = 0 THEN NotMeasured(x)
           ELSE MeasureRange(x, fs[Len(fs) + 1 - k], f[k - 1], r[1], r[2])]]

\* Measured is the fonts one after the other, from the last back.
LEMMA MeasuredSteps ==
  ASSUME NEW x, IsText(x), NEW fs, AreFonts(fs)
  PROVE  LET F == Measured(x, fs)
         IN  /\ F[0] = NothingFound(x)
             /\ \A k \in 0 .. Len(fs) : F[k] \in Finds(x)
             /\ \A k \in 1 .. Len(fs) : F[k] = FindWith(x, fs[Len(fs) + 1 - k], F[k - 1])
<1> DEFINE a == NothingFound(x)
           S == Finds(x)
           N == Len(fs)
           St(f, k) == FindWith(x, fs[N + 1 - k], f)
           G == [p \in (1 .. N) \X S |-> St(p[2], p[1])]
           F == Measured(x, fs)
<1>0. N \in Nat /\ DOMAIN fs = 1 .. N /\ \A k \in 1 .. N : IsFont(fs[N + 1 - k])
  <2>1. N \in Nat /\ DOMAIN fs = 1 .. N BY DEF AreFonts
  <2>2. ASSUME NEW k \in 1 .. N PROVE IsFont(fs[N + 1 - k])
    <3>1. N + 1 - k \in 1 .. N BY <2>1
    <3> QED BY <3>1 DEF AreFonts, IsFont
  <2> QED BY <2>1, <2>2
<1>t. \A k \in 1 .. N : \A f \in S : St(f, k) \in S BY <1>0, FindWithIs
<1>1. G \in [(1 .. N) \X S -> S]
  <2> SUFFICES ASSUME NEW p \in (1 .. N) \X S PROVE St(p[2], p[1]) \in S OBVIOUS
  <2>1. p[1] \in 1 .. N /\ p[2] \in S OBVIOUS
  <2> HIDE DEF St
  <2> QED BY <2>1, <1>t
<1>2. a \in S BY NothingMeasured DEF NothingFound, Finds
<1>3. PICK f \in [0 .. N -> S] : Iterates(f, N, a, G)
  <2> HIDE DEF G, S, a, N
  <2> QED BY <1>0, <1>1, <1>2, Recursion
<1>4. \A k \in 0 .. N : f[k] = IF k = 0 THEN a ELSE G[<<k, f[k - 1]>>]
  <2> HIDE DEF G
  <2> QED BY <1>3 DEF Iterates
<1>5. ASSUME NEW k \in 1 .. N PROVE f[k] = St(f[k - 1], k)
  <2>1. k \in 0 .. N /\ k - 1 \in 0 .. N /\ k # 0 OBVIOUS
  <2>2. f[k - 1] \in S BY <1>3, <2>1
  <2>3. <<k, f[k - 1]>> \in (1 .. N) \X S BY <2>2
  <2>4. f[k] = G[<<k, f[k - 1]>>] BY <1>4, <2>1
  <2> QED BY <2>3, <2>4
<1> HIDE DEF G
<1>6. f[0] = a
  <2>1. 0 \in 0 .. N BY <1>0
  <2> QED BY <1>4, <2>1
<1> DEFINE C(g, k) == [r \in Ranges(x) |->
                         IF k = 0 THEN NotMeasured(x)
                         ELSE MeasureRange(x, fs[N + 1 - k], g[k - 1], r[1], r[2])]
<1>7. \A g : \A k \in 1 .. N : C(g, k) = St(g[k - 1], k)
  <2> TAKE g
  <2> TAKE k \in 1 .. N
  <2>1. k # 0 OBVIOUS
  <2> QED BY <2>1 DEF FindWith
<1>8. \A g : C(g, 0) = a BY DEF NothingFound
<1> HIDE DEF C, St, a
<1>9. \A k \in 0 .. N : f[k] = C(f, k)
  <2> TAKE k \in 0 .. N
  <2>1. CASE k = 0 BY <1>6, <1>8, <2>1
  <2>2. CASE k # 0
    <3>1. k \in 1 .. N BY <2>2
    <3> QED BY <1>5, <1>7, <3>1
  <2> QED BY <2>1, <2>2
<1>10. f = [k \in 0 .. N |-> C(f, k)]
  <2>1. f = [k \in 0 .. N |-> f[k]] BY <1>3
  <2> QED BY <1>9, <2>1
<1>11. IsMeasuredBy(f, x, fs) BY <1>10 DEF IsMeasuredBy, C
<1>12. F = CHOOSE g : IsMeasuredBy(g, x, fs) BY DEF Measured, IsMeasuredBy
<1>13. IsMeasuredBy(F, x, fs) BY <1>11, <1>12
<1> HIDE DEF F
<1>14. F = [k \in 0 .. N |-> C(F, k)] BY <1>13 DEF IsMeasuredBy, C
<1>15. \A k \in 0 .. N : F[k] = C(F, k) BY <1>14, Zenon
<1>16. F[0] = a
  <2>1. 0 \in 0 .. N BY <1>0
  <2> QED BY <1>8, <1>15, <2>1
<1>17. ASSUME NEW k \in 1 .. N PROVE F[k] = St(F[k - 1], k)
  <2>1. k \in 0 .. N OBVIOUS
  <2> QED BY <1>7, <1>15, <2>1
<1>18. \A k \in 0 .. N : F[k] \in S
  <2> DEFINE T == {k \in 0 .. N : F[k] \in S}
  <2>1. 0 \in T BY <1>0, <1>2, <1>16
  <2>2. ASSUME NEW k \in 0 .. N - 1, k \in T PROVE k + 1 \in T
    <3>1. k + 1 \in 1 .. N /\ k + 1 \in 0 .. N /\ (k + 1) - 1 = k BY <1>0
    <3>2. F[k + 1] = St(F[k], k + 1) BY <1>17, <3>1
    <3>3. F[k] \in S BY <2>2
    <3>4. St(F[k], k + 1) \in S BY <3>1, <3>3, <1>t
    <3> QED BY <3>1, <3>2, <3>4
  <2>3. \A k \in 0 .. N : k \in T
    <3> HIDE DEF T, N
    <3> QED BY <1>0, <2>1, <2>2, Induct
  <2> QED BY <2>3
<1> QED BY <1>16, <1>17, <1>18 DEF F, St, a

-----------------------------------------------------------------------------
(* measureSegment gives each cluster the width it has in its font.         *)

\* A character's width in a font; in its cluster's font, from font n on; of all.
Own(x, font, s) == IF IsTail(x, s) THEN 0 ELSE WidthOf(Glyphs(x, font), Len(x), s, After(x, s))
BestAt(x, fs, n, s) == Own(x, fs[FontOf(x, fs, n, s)], s)
Best(x, fs, n) == [s \in Chars(x) |-> [width |-> BestAt(x, fs, n, s)]]

FontAt(fs) == \A n \in DOMAIN fs : IsFont(fs[n])

\* Fallback fonts are a sequence of fonts.
LEMMA FontsAre ==
  ASSUME NEW fs, AreFonts(fs)
  PROVE  FontAt(fs) /\ Len(fs) \in Nat /\ DOMAIN fs = 1 .. Len(fs)
BY DEF AreFonts, FontAt, IsFont

\* Widths in a font are numbers.
LEMMA OwnIsWidth ==
  ASSUME NEW x, IsText(x), NEW font, IsFont(font), NEW s \in Chars(x)
  PROVE  Own(x, font, s) \in Nat
<1>1. After(x, s) \in s + 1 .. Len(x) BY AfterIs
<1>2. s \in 0 .. Len(x) /\ After(x, s) \in s .. Len(x) /\ Len(x) \in Nat BY <1>1, CharsAre
<1>3. WidthOf(Glyphs(x, font), Len(x), s, After(x, s)) \in Nat
  BY <1>2, ClusterWidthIs, WidthOfFacts
<1> QED BY <1>3 DEF Own

\* Widths in the clusters' fonts are numbers.
LEMMA BestIsWidth ==
  ASSUME NEW x, IsText(x), NEW fs, AreFonts(fs), NEW n \in DOMAIN fs
  PROVE  /\ \A s \in Chars(x) : BestAt(x, fs, n, s) \in Nat /\ Best(x, fs, n)[s].width = BestAt(x, fs, n, s)
         /\ HasWidths(Best(x, fs, n), Len(x))
<1>1. ASSUME NEW s \in Chars(x) PROVE BestAt(x, fs, n, s) \in Nat
  <2>1. FontOf(x, fs, n, s) \in DOMAIN fs BY FontOfIs
  <2>2. IsFont(fs[FontOf(x, fs, n, s)]) BY <2>1, FontsAre DEF FontAt
  <2> QED BY <2>2, OwnIsWidth DEF BestAt
<1>2. \A s \in Chars(x) : Best(x, fs, n)[s].width = BestAt(x, fs, n, s) BY DEF Best
<1> QED BY <1>1, <1>2 DEF HasWidths, Chars

\* A cluster's width in its font, from that in font n.
LEMMA BestOfOwn ==
  ASSUME NEW x, NEW fs, AreFonts(fs), NEW n \in DOMAIN fs, NEW s
  PROVE  /\ n = Len(fs) \/ n \in Has(x, fs, s) \/ IsTail(x, s)
              => BestAt(x, fs, n, s) = Own(x, fs[n], s)
         /\ n # Len(fs) /\ n \notin Has(x, fs, s) =>
              n + 1 \in DOMAIN fs /\ BestAt(x, fs, n, s) = BestAt(x, fs, n + 1, s)
         /\ n # Len(fs) /\ IsTail(x, s) => BestAt(x, fs, n, s) = BestAt(x, fs, n + 1, s)
<1>1. IsTail(x, s) => \A font : Own(x, font, s) = 0 BY DEF Own
<1>2. IsTail(x, s) => \A m : BestAt(x, fs, m, s) = 0 BY <1>1 DEF BestAt
<1> QED BY <1>1, <1>2, FontOfIs DEF BestAt

\* A cluster is whole in the part it is measured in.
LEMMA ClusterIsOwn ==
  ASSUME NEW x, IsText(x), NEW fs, NEW n \in DOMAIN fs, NEW from, NEW end, WholeRange(x, from, end),
         NEW s \in from .. end - 1, ~IsTail(x, s)
  PROVE  /\ ClusterWidth(x, fs[n], s, end) = Own(x, fs[n], s)
         /\ HasNotdef(x, fs[n], s, end) <=> n \notin Has(x, fs, s)
         /\ ~fs[n][x[s + 1]].found => n \notin Has(x, fs, s)
<1> DEFINE u == After(x, s)
<1>1. /\ ClusterEnd(x, s, end) = u /\ u \in s + 1 .. end /\ u \in Cuts(x) /\ s \in Nat
      /\ s \in Chars(x)
  BY InWhole
<1>2. s \in Cuts(x) /\ s \in s .. u - 1
  <2>1. s \in 0 .. Len(x) BY <1>1, CharsAre
  <2> QED BY <1>1, <2>1 DEF Cuts
<1>3. WholeRange(x, s, u) BY <1>1, <1>2, PartOfWhole
<1>4. ClusterEnd(x, s, u) = u BY <1>2, <1>3, InWhole
<1> HIDE DEF u
<1>5. ClusterWidth(x, fs[n], s, end) = Own(x, fs[n], s) BY <1>1 DEF ClusterWidth, Own, u
<1>6. HasNotdef(x, fs[n], s, end) <=> HasNotdef(x, fs[n], s, u) BY <1>1, <1>4 DEF HasNotdef
<1>7. n \in Has(x, fs, s) <=> ~HasNotdef(x, fs[n], s, u) BY DEF Has, u
<1>8. ~fs[n][x[s + 1]].found => HasNotdef(x, fs[n], s, u) BY <1>2, <1>4 DEF HasNotdef
<1> QED BY <1>5, <1>6, <1>7, <1>8

\* What the font before lacks is replaced.
LEMMA WidthReplaced ==
  ASSUME NEW n \in Nat, NEW info, HasWidths(info, n), NEW new, HasWidths(new, n),
         NEW a \in 0 .. n, NEW b \in a .. n, NEW c \in b .. n,
         \A k \in a .. b - 1 : new[k].width = info[k].width
  PROVE  WidthOf(new, n, a, c) = (WidthOf(info, n, a, c) - WidthOf(info, n, b, c)) + WidthOf(new, n, b, c)
<1>1. a \in 0 .. n /\ b \in 0 .. n /\ c \in 0 .. n OBVIOUS
<1>2. WidthOf(info, n, a, c) = WidthOf(info, n, a, b) + WidthOf(info, n, b, c)
  BY <1>1, WidthOfFacts
<1>3. WidthOf(new, n, a, c) = WidthOf(new, n, a, b) + WidthOf(new, n, b, c)
  BY <1>1, WidthOfFacts
<1>4. WidthOf(new, n, a, b) = WidthOf(info, n, a, b) BY SameWidth
<1>5. WidthOf(info, n, a, b) \in Int /\ WidthOf(info, n, b, c) \in Int BY <1>1, WidthOfFacts
<1>6. WidthOf(new, n, b, c) \in Int BY <1>1, WidthOfFacts
<1> QED BY <1>2, <1>3, <1>4, <1>5, <1>6

\* The characters up to t are measured: those before the pending ones, which
\* font n lacks, as in their fonts, the pending ones in font n.
Pending(acc, t) == IF acc.notdef < 0 THEN t ELSE acc.notdef

Measures(x, fs, n, acc, from, t) ==
  /\ acc \in Accs(x)
  /\ Pending(acc, t) \in from .. t
  /\ acc.notdef >= 0 => acc.notdef < t /\ acc.notdef \in Cuts(x)
  /\ \A s \in from .. Pending(acc, t) - 1 : acc.info[s].width = BestAt(x, fs, n, s)
  /\ \A s \in Pending(acc, t) .. t - 1 : /\ acc.info[s].width = Own(x, fs[n], s)
                                         /\ IsTail(x, s) \/ n \notin Has(x, fs, s)
  /\ \A s \in from .. t - 1 : acc.info[s].tail = IsTail(x, s)
  /\ \A s \in Chars(x) : s >= t => ~acc.info[s].tail
  /\ acc.width = WidthOf(acc.info, Len(x), from, t)
  /\ acc.notdef_width = WidthOf(acc.info, Len(x), Pending(acc, t), t)

\* A part is measured, from font n on: its widths, tails and sum.
RangeMeasured(x, fs, n, seg, from, end) ==
  /\ seg.measured
  /\ \A s \in from .. end - 1 : /\ seg.info[s].width = BestAt(x, fs, n, s)
                                /\ seg.info[s].tail = IsTail(x, s)
  /\ seg.width = WidthOf(Best(x, fs, n), Len(x), from, end)

\* Every part that cuts no cluster is measured, by font n and its fallbacks.
Finding(x, fs, n, f) ==
  /\ f \in Finds(x)
  /\ IF n = Len(fs) + 1 THEN f = NothingFound(x)
     ELSE \A p, q \in 0 .. Len(x) : WholeRange(x, p, q) => RangeMeasured(x, fs, n, f[<<p, q>>], p, q)

\* A character is a tail or not.
LEMMA TailIsBoolean == ASSUME NEW x, NEW s PROVE IsTail(x, s) \in BOOLEAN
BY DEF IsTail

\* At the start of a cluster, what is pending may go to the fallback font.
LEMMA FallbackMeasures ==
  ASSUME NEW x, IsText(x), NEW fs, AreFonts(fs), NEW n \in DOMAIN fs, NEW f,
         Finding(x, fs, n + 1, f), NEW from, NEW end, WholeRange(x, from, end),
         NEW t \in from .. end, t \in Cuts(x), NEW acc, Measures(x, fs, n, acc, from, t)
  PROVE  /\ Measures(x, fs, n, Fallback(acc, f, t), from, t)
         /\ Fallback(acc, f, t).notdef < 0
<1> DEFINE L == Len(x)
           new == Fallback(acc, f, t)
           nd == acc.notdef
           seg == f[<<nd, t>>]
<1>0. /\ L \in Nat /\ from \in Nat /\ t \in 0 .. L /\ t \in Nat /\ acc \in Accs(x)
      /\ nd \in {-1} \cup Chars(x) /\ nd \in Int /\ f \in Finds(x) /\ end <= L
      /\ end \in Nat /\ from < end /\ Chars(x) = 0 .. L - 1
  BY CharsAre DEF WholeRange, Measures, Accs, Finding
<1>1. CASE nd < 0
  <2>1. new = acc
    <3>1. acc \in Accs(x) /\ f \in Finds(x) /\ t \in 0 .. Len(x) BY <1>0
    <3>2. acc.notdef < 0 => Fallback(acc, f, t) = acc BY <3>1, FallbackIs
    <3> QED BY <1>1, <3>2
  <2> QED BY <1>1, <2>1
<1>2. CASE ~(nd < 0)
  <2>1. /\ nd >= 0 /\ Pending(acc, t) = nd /\ nd \in from .. t - 1 /\ nd \in Cuts(x)
    BY <1>0, <1>2 DEF Measures, Pending
  <2>2. WholeRange(x, nd, t)
    <3>1. nd \in from .. end - 1 /\ t \in nd + 1 .. end BY <1>0, <2>1
    <3> QED BY <2>1, <3>1, PartOfWhole
  <2>3. /\ new \in Accs(x) /\ new.notdef = -1 /\ new.notdef_width = 0 /\ seg \in Segs(x)
        /\ seg.measured => /\ new.info = Remeasured(acc.info, seg, nd, t)
                           /\ new.width = (acc.width - acc.notdef_width) + seg.width
        /\ ~seg.measured => new.info = acc.info /\ new.width = acc.width
    BY <1>0, <2>1, FallbackIs
  <2>i. acc.info \in Infos(x) /\ new.info \in Infos(x) /\ seg.info \in Infos(x)
    BY <1>0, <2>3 DEF Accs, Segs
  <2>4. /\ HasWidths(acc.info, L) /\ HasWidths(new.info, L) /\ HasWidths(seg.info, L)
    BY <2>i, InfosHaveWidths
  <2>5. /\ \A s \in from .. nd - 1 : acc.info[s].width = BestAt(x, fs, n, s)
        /\ \A s \in nd .. t - 1 : /\ acc.info[s].width = Own(x, fs[n], s)
                                  /\ IsTail(x, s) \/ n \notin Has(x, fs, s)
        /\ \A s \in from .. t - 1 : acc.info[s].tail = IsTail(x, s)
        /\ \A s \in Chars(x) : s >= t => ~acc.info[s].tail
        /\ acc.width = WidthOf(acc.info, L, from, t)
        /\ acc.notdef_width = WidthOf(acc.info, L, nd, t)
    BY <2>1 DEF Measures
  <2>6. Pending(new, t) = t BY <2>3 DEF Pending
  <2>7. WidthOf(new.info, L, t, t) = 0 BY <1>0, <2>4, WidthOfFacts
  <2>8. SUFFICES /\ \A s \in from .. t - 1 : new.info[s].width = BestAt(x, fs, n, s)
                 /\ \A s \in from .. t - 1 : new.info[s].tail = IsTail(x, s)
                 /\ \A s \in Chars(x) : s >= t => ~new.info[s].tail
                 /\ new.width = WidthOf(new.info, L, from, t)
    <3> HIDE DEF new, L
    <3>1. ~(new.notdef >= 0) /\ new.notdef < 0 BY <2>3
    <3>2. t \in from .. t /\ \A s \in t .. t - 1 : FALSE BY <1>0
    <3>3. /\ Pending(new, t) \in from .. t
          /\ new.notdef >= 0 => new.notdef < t /\ new.notdef \in Cuts(x)
          /\ \A s \in from .. Pending(new, t) - 1 : new.info[s].width = BestAt(x, fs, n, s)
      BY <2>6, <2>8, <3>1, <3>2
    <3>4. \A s \in Pending(new, t) .. t - 1 : /\ new.info[s].width = Own(x, fs[n], s)
                                              /\ IsTail(x, s) \/ n \notin Has(x, fs, s)
      BY <2>6, <3>2
    <3>5. /\ new.width = WidthOf(new.info, Len(x), from, t)
          /\ new.notdef_width = WidthOf(new.info, Len(x), Pending(new, t), t)
      BY <2>3, <2>6, <2>7, <2>8 DEF L
    <3>6. Measures(x, fs, n, new, from, t)
      <4>1. new \in Accs(x) BY <2>3
      <4>2. \A s \in from .. t - 1 : new.info[s].tail = IsTail(x, s) BY <2>8
      <4>3. \A s \in Chars(x) : s >= t => ~new.info[s].tail BY <2>8
      <4> QED BY ONLY <3>3, <3>4, <3>5, <4>1, <4>2, <4>3 DEF Measures
    <3> QED BY <3>1, <3>6 DEF new
  <2>9. CASE n = Len(fs)
    <3>1. f = NothingFound(x) BY <2>9 DEF Finding
    <3>2. <<nd, t>> \in Ranges(x)
      <4>1. nd \in 0 .. L BY <1>0, <2>1
      <4> QED BY <1>0, <4>1 DEF Ranges
    <3>3. ~seg.measured BY <3>1, <3>2 DEF NothingFound, NotMeasured
    <3>4. new.info = acc.info /\ new.width = acc.width BY <2>3, <3>3
    <3>5. \A s \in from .. t - 1 : acc.info[s].width = BestAt(x, fs, n, s)
      <4> TAKE s \in from .. t - 1
      <4>1. s \in from .. nd - 1 \/ s \in nd .. t - 1 BY <1>0, <2>1
      <4>2. BestAt(x, fs, n, s) = Own(x, fs[n], s) BY <2>9, BestOfOwn
      <4> QED BY <2>5, <4>1, <4>2
    <3> QED BY <2>5, <3>4, <3>5
  <2>10. CASE n # Len(fs)
    <3>1. RangeMeasured(x, fs, n + 1, seg, nd, t)
      <4>1. nd \in 0 .. L BY <1>0, <2>1
      <4>2. n + 1 # Len(fs) + 1
        <5>1. n \in Int /\ Len(fs) \in Int BY FontsAre
        <5> QED BY <2>10, <5>1
      <4> QED BY <1>0, <2>2, <4>1, <4>2 DEF Finding
    <3>2. /\ seg.measured
          /\ \A s \in nd .. t - 1 : /\ seg.info[s].width = BestAt(x, fs, n + 1, s)
                                    /\ seg.info[s].tail = IsTail(x, s)
          /\ seg.width = WidthOf(Best(x, fs, n + 1), L, nd, t)
      BY <3>1 DEF RangeMeasured
    <3>3. /\ new.info = Remeasured(acc.info, seg, nd, t)
          /\ new.width = (acc.width - acc.notdef_width) + seg.width
      BY <2>3, <3>2
    <3>4. \A s \in Chars(x) :
            IF s \in nd .. t - 1
            THEN new.info[s].width = seg.info[s].width
                 /\ new.info[s].tail = (acc.info[s].tail \/ seg.info[s].tail)
            ELSE new.info[s] = acc.info[s]
      <4> HIDE DEF seg, new, nd
      <4>1. seg \in Segs(x) BY <2>3
      <4> QED BY <2>i, <3>3, <4>1, RemeasuredIs
    <3>n. n + 1 \in DOMAIN fs
      <4>1. n \in 1 .. Len(fs) /\ Len(fs) \in Nat /\ DOMAIN fs = 1 .. Len(fs) BY FontsAre
      <4> QED BY <2>10, <4>1
    <3> HIDE DEF new, seg, nd, L
    <3>5. ASSUME NEW s \in from .. t - 1
          PROVE  new.info[s].width = BestAt(x, fs, n, s) /\ new.info[s].tail = IsTail(x, s)
      <4>1. s \in Chars(x) BY <1>0
      <4>2. CASE s \in nd .. t - 1
        <5>1. BestAt(x, fs, n, s) = BestAt(x, fs, n + 1, s)
          BY <2>5, <2>10, <4>2, BestOfOwn
        <5>2. new.info[s].width = seg.info[s].width BY <3>4, <4>1, <4>2
        <5>3. new.info[s].tail = (acc.info[s].tail \/ seg.info[s].tail) BY <3>4, <4>1, <4>2
        <5>4. acc.info[s].tail = IsTail(x, s) /\ seg.info[s].tail = IsTail(x, s)
          BY <2>5, <3>2, <4>2
        <5>5. (IsTail(x, s) \/ IsTail(x, s)) = IsTail(x, s) BY TailIsBoolean
        <5>6. seg.info[s].width = BestAt(x, fs, n + 1, s) BY <3>2, <4>2
        <5> QED BY <5>1, <5>2, <5>3, <5>4, <5>5, <5>6
      <4>3. CASE s \notin nd .. t - 1
        <5>1. s \in from .. nd - 1 BY <1>0, <2>1, <4>3
        <5>2. new.info[s] = acc.info[s] BY <3>4, <4>1, <4>3
        <5> QED BY <2>5, <5>1, <5>2
      <4> QED BY <4>2, <4>3
    <3>6. ASSUME NEW s \in Chars(x), s >= t PROVE ~new.info[s].tail
      <4>1. s \notin nd .. t - 1 BY <1>0, <2>1, <3>6
      <4> QED BY <2>5, <3>4, <3>6, <4>1
    <3>7. new.width = WidthOf(new.info, L, from, t)
      <4>1. from \in 0 .. L /\ nd \in from .. L /\ t \in nd .. L BY <1>0, <2>1
      <4>2. \A k \in from .. nd - 1 : new.info[k].width = acc.info[k].width
        <5> TAKE k \in from .. nd - 1
        <5>1. k \in Chars(x) /\ k \notin nd .. t - 1 BY <1>0, <2>1
        <5> QED BY <3>4, <5>1
      <4>3. WidthOf(new.info, L, from, t) =
              (WidthOf(acc.info, L, from, t) - WidthOf(acc.info, L, nd, t)) + WidthOf(new.info, L, nd, t)
        <5> DEFINE I1 == acc.info
                   I2 == new.info
        <5>1. HasWidths(I1, L) /\ HasWidths(I2, L) /\ \A k \in from .. nd - 1 : I2[k].width = I1[k].width
          BY <2>4, <4>2
        <5> HIDE DEF I1, I2
        <5>2. WidthOf(I2, L, from, t) =
                (WidthOf(I1, L, from, t) - WidthOf(I1, L, nd, t)) + WidthOf(I2, L, nd, t)
          BY <1>0, <4>1, <5>1, WidthReplaced
        <5> QED BY <5>2 DEF I1, I2
      <4>4. \A k \in nd .. t - 1 : new.info[k].width = Best(x, fs, n + 1)[k].width
        <5> TAKE k \in nd .. t - 1
        <5>1. k \in Chars(x) BY <1>0, <2>1
        <5>2. new.info[k].width = BestAt(x, fs, n + 1, k) BY <3>2, <3>4, <5>1
        <5>3. Best(x, fs, n + 1)[k].width = BestAt(x, fs, n + 1, k) BY <3>n, <5>1, BestIsWidth
        <5> QED BY <5>2, <5>3
      <4>5. WidthOf(new.info, L, nd, t) = WidthOf(Best(x, fs, n + 1), L, nd, t)
        <5>1. HasWidths(Best(x, fs, n + 1), L) BY <3>n, BestIsWidth DEF L
        <5>2. nd \in 0 .. L /\ t \in nd .. L BY <1>0, <4>1
        <5> DEFINE I1 == Best(x, fs, n + 1)
                   I2 == new.info
        <5>3. HasWidths(I1, L) /\ HasWidths(I2, L) /\ \A k \in nd .. t - 1 : I2[k].width = I1[k].width
          BY <2>4, <4>4, <5>1
        <5> HIDE DEF I1, I2
        <5>4. WidthOf(I2, L, nd, t) = WidthOf(I1, L, nd, t)
          BY <1>0, <5>2, <5>3, SameWidth
        <5> QED BY <5>4 DEF I1, I2
      <4> QED BY <2>5, <3>2, <3>3, <4>3, <4>5
    <3> QED BY <3>5, <3>6, <3>7
  <2> QED BY <2>9, <2>10
<1> QED BY <1>1, <1>2

\* A sum of widths grows by the next character's.
LEMMA OneMoreWidth ==
  ASSUME NEW n \in Nat, NEW info, HasWidths(info, n), NEW new, HasWidths(new, n),
         NEW j \in 0 .. n - 1, \A t \in 0 .. j - 1 : new[t].width = info[t].width
  PROVE  \A a \in 0 .. j : WidthOf(new, n, a, j + 1) = WidthOf(info, n, a, j) + new[j].width
<1> SUFFICES ASSUME NEW a \in 0 .. j
             PROVE  WidthOf(new, n, a, j + 1) = WidthOf(info, n, a, j) + new[j].width
  OBVIOUS
<1>1. a \in 0 .. n /\ j \in a .. n OBVIOUS
<1>2. WidthOf(new, n, a, j + 1) = WidthOf(new, n, a, j) + new[j].width BY <1>1, WidthOfFacts
<1>3. \A k \in a .. j - 1 : new[k].width = info[k].width OBVIOUS
<1>4. WidthOf(new, n, a, j) = WidthOf(info, n, a, j) BY <1>1, <1>3, SameWidth
<1> QED BY <1>2, <1>4

\* One more character is measured, and the others are as they were.
MeasuredOneMore(x, acc, new, from, j) ==
  /\ new \in Accs(x)
  /\ \A t \in Chars(x) : t # j => new.info[t] = acc.info[t]
  /\ new.info[j].tail = IsTail(x, j)
  /\ new.width = acc.width + new.info[j].width

\* One more character, pending or with its font's width, leaves the part measured.
LEMMA OneMoreMeasures ==
  ASSUME NEW x, IsText(x), NEW fs, NEW n, NEW from \in Nat, NEW acc, NEW new, NEW j \in Chars(x),
         from <= j, Measures(x, fs, n, acc, from, j), MeasuredOneMore(x, acc, new, from, j),
         \/ /\ Pending(new, j + 1) = Pending(acc, j)
            /\ new.notdef = Pending(acc, j) /\ Pending(acc, j) \in Cuts(x)
            /\ new.notdef_width = acc.notdef_width + new.info[j].width
            /\ new.info[j].width = Own(x, fs[n], j)
            /\ IsTail(x, j) \/ n \notin Has(x, fs, j)
         \/ /\ acc.notdef < 0 /\ new.notdef < 0 /\ new.notdef_width = acc.notdef_width
            /\ new.info[j].width = BestAt(x, fs, n, j)
  PROVE  Measures(x, fs, n, new, from, j + 1)
<1> DEFINE L == Len(x)
           P == Pending(acc, j)
           Q == Pending(new, j + 1)
           A == acc.info
           B == new.info
<1>1. /\ L \in Nat /\ j \in 0 .. L - 1 /\ from \in 0 .. j /\ P \in from .. j
      /\ acc \in Accs(x) /\ new \in Accs(x) /\ acc.notdef \in Int /\ acc.width \in Int
      /\ acc.notdef_width \in Int
  BY CharsAre DEF Measures, MeasuredOneMore, Accs, Chars
<1>i. A \in Infos(x) /\ B \in Infos(x) BY <1>1 DEF Accs
<1>2. HasWidths(A, L) /\ HasWidths(B, L) /\ B[j].width \in Nat
  BY <1>i, InfosHaveWidths
<1>3. \A t \in 0 .. L - 1 : t # j => B[t] = A[t] BY DEF MeasuredOneMore, Chars
<1>4. /\ \A s \in from .. P - 1 : A[s].width = BestAt(x, fs, n, s)
      /\ \A s \in P .. j - 1 : /\ A[s].width = Own(x, fs[n], s)
                               /\ IsTail(x, s) \/ n \notin Has(x, fs, s)
      /\ \A s \in from .. j - 1 : A[s].tail = IsTail(x, s)
      /\ \A s \in Chars(x) : s >= j => ~A[s].tail
      /\ acc.width = WidthOf(A, L, from, j)
      /\ acc.notdef_width = WidthOf(A, L, P, j)
      /\ B[j].tail = IsTail(x, j) /\ new.width = acc.width + B[j].width
  BY DEF Measures, MeasuredOneMore
<1>5. \A a \in 0 .. j : WidthOf(B, L, a, j + 1) = WidthOf(A, L, a, j) + B[j].width
  <2> HIDE DEF A, B, L
  <2>1. \A t \in 0 .. j - 1 : B[t].width = A[t].width
    <3> TAKE t \in 0 .. j - 1
    <3>1. t \in 0 .. L - 1 /\ t # j BY <1>1
    <3> QED BY <1>3, <3>1
  <2> QED BY <1>1, <1>2, <2>1, OneMoreWidth
<1>6. new.width = WidthOf(B, L, from, j + 1) BY <1>1, <1>4, <1>5
<1>7. /\ \A s \in from .. (j + 1) - 1 : B[s].tail = IsTail(x, s)
      /\ \A s \in Chars(x) : s >= j + 1 => ~B[s].tail
  <2>1. ASSUME NEW s \in from .. (j + 1) - 1 PROVE B[s].tail = IsTail(x, s)
    <3>1. s = j \/ (s \in from .. j - 1 /\ s \in 0 .. L - 1 /\ s # j) BY <1>1
    <3> QED BY <1>3, <1>4, <3>1
  <2>2. ASSUME NEW s \in Chars(x), s >= j + 1 PROVE ~B[s].tail
    <3>1. s >= j /\ s \in 0 .. L - 1 /\ s # j BY <1>1, <2>2 DEF Chars
    <3> QED BY <1>3, <1>4, <3>1
  <2> QED BY <2>1, <2>2
<1>8. CASE /\ Q = P /\ new.notdef = P /\ P \in Cuts(x)
           /\ new.notdef_width = acc.notdef_width + B[j].width
           /\ B[j].width = Own(x, fs[n], j)
           /\ IsTail(x, j) \/ n \notin Has(x, fs, j)
  <2>1. Q \in from .. j + 1 /\ (new.notdef >= 0 => new.notdef < j + 1 /\ new.notdef \in Cuts(x))
    BY <1>1, <1>8
  <2>2. \A s \in from .. Q - 1 : B[s].width = BestAt(x, fs, n, s)
    <3> TAKE s \in from .. Q - 1
    <3>1. s \in 0 .. L - 1 /\ s # j /\ s \in from .. P - 1 BY <1>1, <1>8
    <3> QED BY <1>3, <1>4, <3>1
  <2>3. ASSUME NEW s \in Q .. (j + 1) - 1
        PROVE  B[s].width = Own(x, fs[n], s) /\ (IsTail(x, s) \/ n \notin Has(x, fs, s))
    <3>1. s = j \/ (s \in P .. j - 1 /\ s \in 0 .. L - 1 /\ s # j) BY <1>1, <1>8
    <3> QED BY <1>3, <1>4, <1>8, <3>1
  <2>4. new.notdef_width = WidthOf(B, L, Q, j + 1)
    <3>1. P \in 0 .. j BY <1>1
    <3> QED BY <1>4, <1>5, <1>8, <3>1
  <2> QED BY <1>1, <1>6, <1>7, <2>1, <2>2, <2>3, <2>4 DEF Measures
<1>9. CASE /\ acc.notdef < 0 /\ new.notdef < 0 /\ new.notdef_width = acc.notdef_width
           /\ B[j].width = BestAt(x, fs, n, j)
  <2>1. Q = j + 1 /\ P = j BY <1>9 DEF Pending
  <2>2. Q \in from .. j + 1 /\ ~(new.notdef >= 0)
    <3>1. new.notdef \in Int BY <1>1 DEF Accs, Chars
    <3> QED BY <1>1, <1>9, <2>1, <3>1
  <2>3. \A s \in from .. Q - 1 : B[s].width = BestAt(x, fs, n, s)
    <3> TAKE s \in from .. Q - 1
    <3>1. s = j \/ (s \in from .. P - 1 /\ s \in 0 .. L - 1 /\ s # j) BY <1>1, <2>1
    <3> QED BY <1>3, <1>4, <1>9, <3>1
  <2>4. \A s \in Q .. (j + 1) - 1 : /\ B[s].width = Own(x, fs[n], s)
                                    /\ IsTail(x, s) \/ n \notin Has(x, fs, s)
    BY <1>1, <2>1
  <2>5. new.notdef_width = WidthOf(B, L, Q, j + 1)
    <3>1. WidthOf(B, L, j + 1, j + 1) = 0 /\ WidthOf(A, L, j, j) = 0
      <4>1. j + 1 \in 0 .. L /\ j \in 0 .. L BY <1>1
      <4>2. WidthOf(B, L, j + 1, j + 1) = 0 BY <1>1, <1>2, <4>1, WidthOfFacts
      <4>3. WidthOf(A, L, j, j) = 0 BY <1>1, <1>2, <4>1, WidthOfFacts
      <4> QED BY <4>2, <4>3
    <3> QED BY <1>4, <1>9, <2>1, <3>1
  <2> QED BY <1>1, <1>6, <1>7, <2>2, <2>3, <2>4, <2>5 DEF Measures
<1> QED BY <1>8, <1>9

\* So it is after the first character of a cluster.
LEMMA ClusterMeasures ==
  ASSUME NEW x, IsText(x), NEW fs, AreFonts(fs), NEW n \in DOMAIN fs, NEW f,
         Finding(x, fs, n + 1, f), NEW from, NEW end, WholeRange(x, from, end),
         NEW j \in from .. end - 1, ~IsTail(x, j), NEW acc, Measures(x, fs, n, acc, from, j)
  PROVE  Measures(x, fs, n, MeasureCluster(acc, x, fs[n], f, j, end), from, j + 1)
<1> DEFINE a1  == IF fs[n][x[j + 1]].found THEN Fallback(acc, f, j) ELSE acc
           w   == ClusterWidth(x, fs[n], j, end)
           bad == a1.notdef >= 0 \/ HasNotdef(x, fs[n], j, end)
           new == MeasureCluster(acc, x, fs[n], f, j, end)
<1>1. /\ Len(x) \in Nat /\ from \in Nat /\ j \in Chars(x) /\ from <= j /\ j \in from .. end
      /\ acc \in Accs(x) /\ f \in Finds(x) /\ j \in 0 .. Len(x) /\ end \in j + 1 .. Len(x)
  BY CharsAre DEF WholeRange, Measures, Finding, Chars
<1>2. j \in Cuts(x) BY <1>1 DEF Cuts
<1>f. IsFont(fs[n]) BY FontsAre DEF FontAt
<1>3. Measures(x, fs, n, a1, from, j) /\ (fs[n][x[j + 1]].found => a1.notdef < 0)
  BY <1>1, <1>2, FallbackMeasures
<1>4. /\ new \in Accs(x) /\ a1 \in Accs(x) /\ w \in Nat
      /\ new.info[j].width = w /\ new.info[j].tail = a1.info[j].tail
      /\ \A t \in Chars(x) : t # j => new.info[t] = a1.info[t]
      /\ new.width = a1.width + w
      /\ new.notdef = IF a1.notdef < 0 /\ bad THEN j ELSE a1.notdef
      /\ new.notdef_width = a1.notdef_width + (IF bad THEN w ELSE 0)
  BY <1>1, <1>f, MeasureClusterIs
<1>5. /\ w = Own(x, fs[n], j)
      /\ HasNotdef(x, fs[n], j, end) <=> n \notin Has(x, fs, j)
      /\ ~fs[n][x[j + 1]].found => n \notin Has(x, fs, j)
  BY ClusterIsOwn
<1> HIDE DEF a1, w, new
<1>6. bad <=> n \notin Has(x, fs, j)
  <2>1. a1.notdef \in Int BY <1>4 DEF Accs, Chars
  <2>2. a1.notdef >= 0 => ~(a1.notdef < 0) BY <2>1
  <2> QED BY <1>3, <1>5, <2>2
<1> HIDE DEF bad
<1>7. MeasuredOneMore(x, a1, new, from, j)
  <2>1. ~a1.info[j].tail
    <3>1. j >= j BY <1>1
    <3> QED BY <1>1, <1>3, <3>1 DEF Measures
  <2>2. a1.info[j].tail \in BOOLEAN
    <3>1. a1.info \in Infos(x) BY <1>4 DEF Accs
    <3> QED BY <1>1, <3>1, InfosHaveWidths
  <2>3. new.info[j].tail = IsTail(x, j) BY <1>4, <2>1, <2>2, TailIsBoolean
  <2> QED BY <1>4, <2>3 DEF MeasuredOneMore
<1>8. CASE bad
  <2>1. new.notdef_width = a1.notdef_width + w BY <1>4, <1>8
  <2>2. new.notdef = IF a1.notdef < 0 THEN j ELSE a1.notdef BY <1>4, <1>8
  <2>3. new.notdef = Pending(a1, j) BY <2>2 DEF Pending
  <2>4. a1.notdef \in {-1} \cup Chars(x) BY <1>4 DEF Accs
  <2>5. ~(new.notdef < 0) BY <1>1, <2>2, <2>4 DEF Chars
  <2>6. Pending(new, j + 1) = Pending(a1, j) BY <2>3, <2>5 DEF Pending
  <2>7. Pending(a1, j) \in Cuts(x)
    <3>1. CASE a1.notdef < 0 BY <1>2, <3>1 DEF Pending
    <3>2. CASE ~(a1.notdef < 0)
      <4>1. a1.notdef >= 0 BY <2>4, <3>2 DEF Chars
      <4> QED BY <1>3, <3>2, <4>1 DEF Measures, Pending
    <3> QED BY <3>1, <3>2
  <2>8. n \notin Has(x, fs, j) BY <1>6, <1>8
  <2>9. new.info[j].width = Own(x, fs[n], j) /\ new.notdef_width = a1.notdef_width + new.info[j].width
    BY <1>4, <1>5, <2>1
  <2>10. Measures(x, fs, n, new, from, j + 1)
    BY <1>1, <1>3, <1>7, <2>3, <2>6, <2>7, <2>8, <2>9, OneMoreMeasures
  <2> QED BY <2>10 DEF new
<1>9. CASE ~bad
  <2>0. a1.notdef_width \in Int /\ a1.notdef \in Int BY <1>4 DEF Accs, Chars
  <2>1. new.notdef_width = a1.notdef_width BY <1>4, <1>9, <2>0
  <2>2. new.notdef = a1.notdef /\ a1.notdef < 0
    <3>1. ~(a1.notdef >= 0) BY <1>9 DEF bad
    <3> QED BY <1>4, <1>9, <2>0, <3>1
  <2>3. n \in Has(x, fs, j) BY <1>6, <1>9
  <2>4. new.info[j].width = BestAt(x, fs, n, j) BY <1>4, <1>5, <2>3, BestOfOwn
  <2>5. Measures(x, fs, n, new, from, j + 1)
    BY <1>1, <1>3, <1>7, <2>1, <2>2, <2>4, OneMoreMeasures
  <2> QED BY <2>5 DEF new
<1> QED BY <1>8, <1>9

\* So it is after a mark of a cluster, which has no width of its own.
LEMMA TailMeasures ==
  ASSUME NEW x, IsText(x), NEW fs, AreFonts(fs), NEW n \in DOMAIN fs,
         NEW from \in Nat, NEW j \in Chars(x), from <= j, IsTail(x, j),
         NEW acc, Measures(x, fs, n, acc, from, j)
  PROVE  Measures(x, fs, n, MeasureTail(acc, j), from, j + 1)
<1> DEFINE new == MeasureTail(acc, j)
<1>1. acc \in Accs(x) BY DEF Measures
<1>2. /\ new \in Accs(x) /\ new.info[j] = [width |-> 0, tail |-> TRUE]
      /\ \A t \in Chars(x) : t # j => new.info[t] = acc.info[t]
      /\ new.width = acc.width /\ new.notdef = acc.notdef
      /\ new.notdef_width = acc.notdef_width
  BY <1>1, MeasureTailIs
<1>3. /\ acc.notdef \in {-1} \cup Chars(x) /\ acc.width \in Int /\ acc.notdef_width \in Int
      /\ j \in Nat
  BY <1>1, CharsAre DEF Accs
<1> HIDE DEF new
<1>4. new.info[j].width = 0 /\ new.info[j].tail = TRUE BY <1>2
<1>5. MeasuredOneMore(x, acc, new, from, j)
  <2>1. new.info[j].tail = IsTail(x, j) BY <1>4, TailIsBoolean
  <2>2. new.width = acc.width + new.info[j].width BY <1>2, <1>3, <1>4
  <2> QED BY <1>2, <2>1, <2>2 DEF MeasuredOneMore
<1>6. Own(x, fs[n], j) = 0 /\ BestAt(x, fs, n, j) = 0 BY DEF Own, BestAt
<1>7. new.notdef_width = acc.notdef_width + new.info[j].width BY <1>2, <1>3, <1>4
<1>8. CASE acc.notdef < 0
  <2>1. Measures(x, fs, n, new, from, j + 1)
    BY <1>2, <1>4, <1>5, <1>6, <1>8, OneMoreMeasures
  <2> QED BY <2>1 DEF new
<1>9. CASE ~(acc.notdef < 0)
  <2>1. acc.notdef >= 0 BY <1>3, <1>9 DEF Chars
  <2>2. /\ Pending(acc, j) = acc.notdef /\ Pending(new, j + 1) = Pending(acc, j)
        /\ acc.notdef \in Cuts(x)
    BY <1>2, <1>9, <2>1 DEF Measures, Pending
  <2>3. Measures(x, fs, n, new, from, j + 1)
    BY <1>2, <1>4, <1>5, <1>6, <1>7, <2>2, OneMoreMeasures
  <2> QED BY <2>3 DEF new
<1> QED BY <1>8, <1>9

\* Nothing is measured before the loop.
LEMMA NoneMeasures ==
  ASSUME NEW x, IsText(x), NEW fs, NEW n, NEW from \in 0 .. Len(x)
  PROVE  Measures(x, fs, n, NoneMeasured(x), from, from)
<1> DEFINE none == NoneMeasured(x)
<1>1. none \in Accs(x) /\ Unmeasured(x) \in Infos(x) BY NothingMeasured
<1>2. /\ none.info = Unmeasured(x) /\ none.width = 0 /\ none.notdef = -1
      /\ none.notdef_width = 0
  BY DEF NoneMeasured
<1>3. \A s \in Chars(x) : none.info[s].tail = FALSE BY <1>2 DEF Unmeasured
<1>4. WidthOf(none.info, Len(x), from, from) = 0
  <2> DEFINE I == none.info
  <2>1. HasWidths(I, Len(x)) BY <1>1, <1>2, InfosHaveWidths
  <2> HIDE DEF I
  <2>2. WidthOf(I, Len(x), from, from) = 0 BY <2>1, CharsAre, WidthOfFacts
  <2> QED BY <2>2 DEF I
<1> HIDE DEF none
<1>5. Pending(none, from) = from /\ ~(none.notdef >= 0) BY <1>2 DEF Pending
<1>6. from \in from .. from /\ \A s \in from .. from - 1 : FALSE BY CharsAre
<1>7. Measures(x, fs, n, none, from, from) BY <1>1, <1>2, <1>3, <1>4, <1>5, <1>6 DEF Measures
<1> QED BY <1>7 DEF none

\* The loop over a part, with a fallback font that measures what is passed to it.
LEMMA RangeMeasures ==
  ASSUME NEW x, IsText(x), NEW fs, AreFonts(fs), NEW n \in DOMAIN fs, NEW f,
         Finding(x, fs, n + 1, f), NEW from, NEW end, WholeRange(x, from, end)
  PROVE  RangeMeasured(x, fs, n, MeasureRange(x, fs[n], f, from, end), from, end)
<1> DEFINE F == Measuring(x, fs[n], f, from, end)
           Good(t) == t >= from => Measures(x, fs, n, F[t], from, t)
           T == {t \in 0 .. end : Good(t)}
           L == Len(x)
<1>1. /\ L \in Nat /\ from \in Nat /\ end \in Nat /\ from \in 0 .. L - 1 /\ end \in 0 .. L
      /\ from < end /\ f \in Finds(x) /\ IsFont(fs[n]) /\ end \in Cuts(x)
  BY CharsAre, FontsAre DEF WholeRange, Finding, FontAt
<1>2. /\ F[0] = NoneMeasured(x)
      /\ \A t \in 0 .. end : F[t] \in Accs(x)
      /\ \A t \in 1 .. end : F[t] = MeasureStep(F[t - 1], x, fs[n], f, from, end, t)
  BY <1>1, MeasuringSteps
<1> HIDE DEF F
<1>3. Measures(x, fs, n, NoneMeasured(x), from, from) BY <1>1, NoneMeasures
<1>4. 0 \in T
  <2>1. 0 >= from => from = 0 BY <1>1
  <2>2. Good(0) BY <1>2, <1>3, <2>1
  <2> QED BY <1>1, <2>2
<1>5. ASSUME NEW t \in 0 .. end - 1, t \in T PROVE t + 1 \in T
  <2>1. /\ t + 1 \in 1 .. end /\ (t + 1) - 1 = t /\ t + 1 \in 0 .. end /\ F[t] \in Accs(x)
        /\ t \in Nat
    BY <1>1, <1>2
  <2>2. F[t + 1] = MeasureStep(F[t], x, fs[n], f, from, end, t + 1) BY <1>2, <2>1
  <2>3. /\ t + 1 <= from => F[t + 1] = NoneMeasured(x)
        /\ t + 1 > from + 1 /\ IsMark(x, t) => F[t + 1] = MeasureTail(F[t], t)
        /\ t + 1 > from /\ ~(t + 1 > from + 1 /\ IsMark(x, t)) =>
             F[t + 1] = MeasureCluster(F[t], x, fs[n], f, t, end)
    <3> DEFINE u == t + 1
    <3>1. u \in 1 .. end /\ u - 1 = t BY <2>1
    <3> HIDE DEF u
    <3>2. LET new == MeasureStep(F[t], x, fs[n], f, from, end, u)
          IN  /\ u <= from => new = NoneMeasured(x)
              /\ u > from + 1 /\ IsMark(x, u - 1) => new = MeasureTail(F[t], u - 1)
              /\ u > from /\ ~(u > from + 1 /\ IsMark(x, u - 1)) =>
                   new = MeasureCluster(F[t], x, fs[n], f, u - 1, end)
      BY <1>1, <2>1, <3>1, MeasureStepIs
    <3> QED BY <2>2, <3>1, <3>2 DEF u
  <2>4. CASE t < from
    <3>1. t + 1 <= from BY <1>1, <2>1, <2>4
    <3>2. t + 1 >= from => t + 1 = from BY <1>1, <2>1, <2>4
    <3>3. Good(t + 1) BY <1>3, <2>3, <3>1, <3>2
    <3> QED BY <2>1, <3>3
  <2>5. CASE ~(t < from)
    <3>1. t >= from /\ t \in from .. end - 1 /\ from <= t /\ t + 1 > from /\ t \in Chars(x)
      BY <1>1, <2>1, <2>5 DEF Chars
    <3>2. Measures(x, fs, n, F[t], from, t) BY <1>5, <3>1
    <3>3. (t > from /\ IsMark(x, t)) <=> IsTail(x, t) BY <3>1, InWhole
    <3>4. t + 1 > from + 1 <=> t > from BY <1>1, <2>1
    <3>5. Measures(x, fs, n, F[t + 1], from, t + 1)
      <4>1. CASE IsTail(x, t)
        <5>1. F[t + 1] = MeasureTail(F[t], t) BY <2>3, <3>3, <3>4, <4>1
        <5>2. Measures(x, fs, n, MeasureTail(F[t], t), from, t + 1)
          BY <1>1, <3>1, <3>2, <4>1, TailMeasures
        <5> QED BY <5>1, <5>2
      <4>2. CASE ~IsTail(x, t)
        <5>1. F[t + 1] = MeasureCluster(F[t], x, fs[n], f, t, end) BY <2>3, <3>1, <3>3, <3>4, <4>2
        <5>2. Measures(x, fs, n, MeasureCluster(F[t], x, fs[n], f, t, end), from, t + 1)
          BY <3>1, <3>2, <4>2, ClusterMeasures
        <5> QED BY <5>1, <5>2
      <4> QED BY <4>1, <4>2
    <3>6. Good(t + 1) BY <3>5
    <3> QED BY <2>1, <3>6
  <2> QED BY <2>4, <2>5
<1>6. \A t \in 0 .. end : t \in T
  <2> HIDE DEF T
  <2> QED BY <1>1, <1>4, <1>5, Induct
<1>7. Measures(x, fs, n, F[end], from, end)
  <2>1. end \in T /\ end >= from BY <1>1, <1>6
  <2> QED BY <2>1
<1> DEFINE last == Fallback(F[end], f, end)
           seg == MeasureRange(x, fs[n], f, from, end)
<1>8. Measures(x, fs, n, last, from, end) /\ last.notdef < 0
  <2>1. end \in from .. end BY <1>1
  <2> QED BY <1>1, <1>7, <2>1, FallbackMeasures
<1>9. seg.measured = TRUE /\ seg.info = last.info /\ seg.width = last.width
  <2>1. from \in 0 .. L /\ ~(end <= from) BY <1>1
  <2> QED BY <1>1, <2>1, MeasureRangeIs DEF F
<1> HIDE DEF last, seg
<1>10. Pending(last, end) = end BY <1>8 DEF Pending
<1>11. /\ \A s \in from .. end - 1 : /\ last.info[s].width = BestAt(x, fs, n, s)
                                     /\ last.info[s].tail = IsTail(x, s)
       /\ last.width = WidthOf(last.info, L, from, end) /\ last \in Accs(x)
  BY <1>8, <1>10 DEF Measures
<1>12. WidthOf(last.info, L, from, end) = WidthOf(Best(x, fs, n), L, from, end)
  <2> DEFINE I1 == last.info
             I2 == Best(x, fs, n)
  <2>1. I1 \in Infos(x) BY <1>11 DEF Accs
  <2>2. HasWidths(I1, L) BY <2>1, InfosHaveWidths
  <2>3. HasWidths(I2, L) /\ \A s \in Chars(x) : I2[s].width = BestAt(x, fs, n, s) BY BestIsWidth
  <2>4. \A k \in from .. end - 1 : I1[k].width = I2[k].width
    <3> TAKE k \in from .. end - 1
    <3>1. k \in Chars(x) BY <1>1 DEF Chars
    <3> QED BY <1>11, <2>3, <3>1
  <2>5. from \in 0 .. L /\ end \in from .. L BY <1>1
  <2> HIDE DEF I1, I2, L
  <2>6. WidthOf(I1, L, from, end) = WidthOf(I2, L, from, end)
    BY <1>1, <2>2, <2>3, <2>4, <2>5, SameWidth
  <2> QED BY <2>6 DEF I1, I2
<1>13. RangeMeasured(x, fs, n, seg, from, end) BY <1>9, <1>11, <1>12 DEF RangeMeasured
<1> QED BY <1>13 DEF seg

\* Every part of a segment that cuts no cluster is measured as it should be,
\* with any number of fonts.
LEMMA FontsMeasure ==
  ASSUME NEW x, IsText(x), NEW fs, AreFonts(fs)
  PROVE  \A k \in 0 .. Len(fs) : Finding(x, fs, (Len(fs) + 1) - k, Measured(x, fs)[k])
<1> DEFINE N == Len(fs)
           F == Measured(x, fs)
           T == {k \in 0 .. N : Finding(x, fs, (N + 1) - k, F[k])}
<1>1. N \in Nat /\ DOMAIN fs = 1 .. N BY FontsAre
<1>2. /\ F[0] = NothingFound(x)
      /\ \A k \in 0 .. N : F[k] \in Finds(x)
      /\ \A k \in 1 .. N : F[k] = FindWith(x, fs[N + 1 - k], F[k - 1])
  BY MeasuredSteps
<1> HIDE DEF F, N
<1>3. 0 \in T
  <2>1. 0 \in 0 .. N /\ (N + 1) - 0 = N + 1 BY <1>1
  <2> QED BY <1>2, <2>1 DEF Finding, N
<1>4. ASSUME NEW k \in 0 .. N - 1, k \in T PROVE k + 1 \in T
  <2> DEFINE n == N - k
             f == F[k]
  <2>1. /\ n \in 1 .. N /\ n + 1 = (N + 1) - k /\ (N + 1) - (k + 1) = n /\ (k + 1) - 1 = k
        /\ k + 1 \in 1 .. N /\ k + 1 \in 0 .. N /\ N + 1 - (k + 1) = n /\ n # N + 1
        /\ k \in 0 .. N
    BY <1>1
  <2>2. Finding(x, fs, n + 1, f) BY <1>4, <2>1
  <2>3. F[k + 1] = FindWith(x, fs[n], f) BY <1>2, <2>1
  <2>4. f \in Finds(x) /\ F[k + 1] \in Finds(x) /\ IsFont(fs[n])
    <3>1. IsFont(fs[n]) BY <1>1, <2>1, FontsAre DEF FontAt
    <3> QED BY <1>2, <2>1, <3>1
  <2> HIDE DEF n, f
  <2>5. ASSUME NEW p \in 0 .. Len(x), NEW q \in 0 .. Len(x), WholeRange(x, p, q)
        PROVE  RangeMeasured(x, fs, n, F[k + 1][<<p, q>>], p, q)
    <3>1. FindWith(x, fs[n], f)[<<p, q>>] = MeasureRange(x, fs[n], f, p, q) BY <2>4, FindWithIs
    <3>2. RangeMeasured(x, fs, n, MeasureRange(x, fs[n], f, p, q), p, q)
      BY <1>1, <2>1, <2>2, <2>5, RangeMeasures
    <3> QED BY <2>3, <3>1, <3>2
  <2>6. Finding(x, fs, n, F[k + 1]) BY <2>1, <2>4, <2>5 DEF Finding, N
  <2> QED BY <2>1, <2>6
<1>5. \A k \in 0 .. N : k \in T
  <2> HIDE DEF T
  <2> QED BY <1>1, <1>3, <1>4, Induct
<1> QED BY <1>5 DEF F, N

\* measureSegment gives each character of a segment the width of its cluster's font.
LEMMA SegmentIsMeasured ==
  ASSUME NEW x, IsText(x), NEW fs, AreFonts(fs), NEW from, NEW end, WholeRange(x, from, end)
  PROVE  measureSegment(x, fs, from, end) \in Segs(x)
         /\ RangeMeasured(x, fs, 1, measureSegment(x, fs, from, end), from, end)
<1> DEFINE N == Len(fs)
<1>1. N \in Nat /\ DOMAIN fs = 1 .. N /\ N # 0 BY DEF AreFonts
<1>2. N \in 0 .. N /\ (N + 1) - N = 1 /\ 1 # N + 1 BY <1>1
<1>3. Finding(x, fs, 1, Measured(x, fs)[N]) BY <1>2, FontsMeasure
<1>4. from \in 0 .. Len(x) /\ end \in 0 .. Len(x) /\ <<from, end>> \in Ranges(x)
  BY CharsAre DEF WholeRange, Ranges
<1>5. Measured(x, fs)[N] \in Finds(x) BY <1>3 DEF Finding
<1> QED BY <1>2, <1>3, <1>4, <1>5 DEF Finding, measureSegment, Finds

-----------------------------------------------------------------------------
(* measure gives each character the width it has in its font.              *)

\* What measure's loop over the segments keeps.
TextAccs(x) == [info : Infos(x), width : Int, start : 0 .. Len(x)]
NoText(x) == [info |-> Unmeasured(x), width |-> 0, start |-> 0]

\* Whatever the part, measureSegment leaves widths, tails and a sum.
LEMMA AnySegment ==
  ASSUME NEW x, IsText(x), NEW fs, AreFonts(fs), NEW from \in 0 .. Len(x), NEW end \in 0 .. Len(x)
  PROVE  /\ measureSegment(x, fs, from, end) \in Segs(x)
         /\ end <= from => measureSegment(x, fs, from, end) = NotMeasured(x)
<1> DEFINE N == Len(fs)
           F == Measured(x, fs)
           f == F[N - 1]
<1>1. N \in Nat /\ DOMAIN fs = 1 .. N /\ N # 0 BY DEF AreFonts
<1>2. N \in 0 .. N /\ N \in 1 .. N /\ N - 1 \in 0 .. N /\ N + 1 - N \in 1 .. N BY <1>1
<1>3. /\ F[N] \in Finds(x) /\ f \in Finds(x)
      /\ F[N] = FindWith(x, fs[N + 1 - N], f)
  BY <1>2, MeasuredSteps
<1>4. IsFont(fs[N + 1 - N]) BY <1>1, <1>2, FontsAre DEF FontAt
<1> HIDE DEF F, f, N
<1>5. F[N][<<from, end>>] = MeasureRange(x, fs[N + 1 - N], f, from, end) BY <1>3, <1>4, FindWithIs
<1>6. /\ MeasureRange(x, fs[N + 1 - N], f, from, end) \in Segs(x)
      /\ end <= from => MeasureRange(x, fs[N + 1 - N], f, from, end) = NotMeasured(x)
  BY <1>3, <1>4, MeasureRangeIs
<1> QED BY <1>5, <1>6 DEF measureSegment, F, N

\* Where the segment that ends with u ends, its hard break left out.
MeasuredEnd(x, u) == IF x[u] = "newline" THEN u - 1 ELSE u

\* One turn of measure keeps the types.
LEMMA MeasureUpToIs ==
  ASSUME NEW x, IsText(x), NEW fs, AreFonts(fs), NEW acc \in TextAccs(x), NEW u \in 1 .. Len(x)
  PROVE  LET seg == measureSegment(x, fs, acc.start, MeasuredEnd(x, u))
             new == MeasureUpTo(acc, x, fs, u)
         IN  /\ new \in TextAccs(x) /\ seg \in Segs(x)
             /\ ~EndsSegment(x, u) => new = acc
             /\ EndsSegment(x, u) =>
                  /\ new.info = Remeasured(acc.info, seg, acc.start, MeasuredEnd(x, u))
                  /\ new.width = acc.width + seg.width /\ new.start = u
<1> DEFINE end == MeasuredEnd(x, u)
           seg == measureSegment(x, fs, acc.start, end)
           new == MeasureUpTo(acc, x, fs, u)
           re  == Remeasured(acc.info, seg, acc.start, end)
<1>1. acc.info \in Infos(x) /\ acc.width \in Int /\ acc.start \in 0 .. Len(x) BY DEF TextAccs
<1>2. end \in 0 .. Len(x) /\ u \in 0 .. Len(x) BY CharsAre DEF MeasuredEnd
<1>3. seg \in Segs(x) BY <1>1, <1>2, AnySegment
<1>4. re \in Infos(x) BY <1>1, <1>3, RemeasuredIs
<1>5. seg.width \in Int BY <1>3 DEF Segs
<1>6. CASE ~EndsSegment(x, u)
  <2>1. new = acc BY <1>6 DEF MeasureUpTo
  <2> QED BY <1>3, <1>6, <2>1
<1>7. CASE EndsSegment(x, u)
  <2>1. new = [info |-> re, width |-> acc.width + seg.width, start |-> u]
    BY <1>7 DEF MeasureUpTo, MeasuredEnd
  <2> HIDE DEF new, re, seg
  <2>2. new \in TextAccs(x) BY <1>1, <1>2, <1>4, <1>5, <2>1 DEF TextAccs
  <2> QED BY <1>3, <1>7, <2>1, <2>2 DEF new, re, seg
<1> QED BY <1>6, <1>7

\* That loop as a function of the turns done.
IsMeasuringText(f, x, fs) ==
  f = [u \in 0 .. Len(x) |->
        IF u = 0 THEN [info |-> Unmeasured(x), width |-> 0, start |-> 0]
        ELSE MeasureUpTo(f[u - 1], x, fs, u)]

\* MeasuringText is that function.
LEMMA MeasuringTextSteps ==
  ASSUME NEW x, IsText(x), NEW fs, AreFonts(fs)
  PROVE  LET F == MeasuringText(x, fs)
         IN  /\ F[0] = NoText(x)
             /\ \A u \in 0 .. Len(x) : F[u] \in TextAccs(x)
             /\ \A u \in 1 .. Len(x) : F[u] = MeasureUpTo(F[u - 1], x, fs, u)
<1> DEFINE a == NoText(x)
           S == TextAccs(x)
           N == Len(x)
           St(acc, k) == MeasureUpTo(acc, x, fs, k)
           G == [p \in (1 .. N) \X S |-> St(p[2], p[1])]
           F == MeasuringText(x, fs)
<1>0. N \in Nat BY CharsAre
<1>t. \A k \in 1 .. N : \A acc \in S : St(acc, k) \in S BY MeasureUpToIs
<1>1. G \in [(1 .. N) \X S -> S]
  <2> SUFFICES ASSUME NEW p \in (1 .. N) \X S PROVE St(p[2], p[1]) \in S OBVIOUS
  <2>1. p[1] \in 1 .. N /\ p[2] \in S OBVIOUS
  <2> HIDE DEF St
  <2> QED BY <2>1, <1>t
<1>2. a \in S
  <2> DEFINE i0 == Unmeasured(x)
  <2>1. i0 \in Infos(x) /\ 0 \in 0 .. Len(x) BY <1>0, NothingMeasured
  <2>2. a = [info |-> i0, width |-> 0, start |-> 0] BY DEF NoText
  <2> HIDE DEF i0, a
  <2> QED BY <2>1, <2>2 DEF TextAccs
<1>3. PICK f \in [0 .. N -> S] : Iterates(f, N, a, G)
  <2> HIDE DEF G, S, a, N
  <2> QED BY <1>0, <1>1, <1>2, Recursion
<1>4. \A k \in 0 .. N : f[k] = IF k = 0 THEN a ELSE G[<<k, f[k - 1]>>]
  <2> HIDE DEF G
  <2> QED BY <1>3 DEF Iterates
<1>5. ASSUME NEW k \in 1 .. N PROVE f[k] = St(f[k - 1], k)
  <2>1. k \in 0 .. N /\ k - 1 \in 0 .. N /\ k # 0 OBVIOUS
  <2>2. f[k - 1] \in S BY <1>3, <2>1
  <2>3. <<k, f[k - 1]>> \in (1 .. N) \X S BY <2>2
  <2>4. f[k] = G[<<k, f[k - 1]>>] BY <1>4, <2>1
  <2> QED BY <2>3, <2>4
<1> HIDE DEF G
<1>6. f[0] = a
  <2>1. 0 \in 0 .. N BY <1>0
  <2> QED BY <1>4, <2>1
<1> DEFINE C(g, k) == IF k = 0 THEN a ELSE St(g[k - 1], k)
<1>9. \A k \in 0 .. N : f[k] = C(f, k)
  <2> HIDE DEF St, a
  <2> TAKE k \in 0 .. N
  <2>1. CASE k = 0 BY <1>6, <2>1
  <2>2. CASE k # 0
    <3>1. k \in 1 .. N BY <2>2
    <3> QED BY <1>5, <2>2, <3>1
  <2> QED BY <2>1, <2>2
<1> HIDE DEF C
<1>10. f = [k \in 0 .. N |-> C(f, k)]
  <2>1. f = [k \in 0 .. N |-> f[k]] BY <1>3
  <2> QED BY <1>9, <2>1
<1>11. IsMeasuringText(f, x, fs) BY <1>10 DEF IsMeasuringText, C, NoText
<1>12. F = CHOOSE g : IsMeasuringText(g, x, fs) BY DEF MeasuringText, IsMeasuringText
<1>13. IsMeasuringText(F, x, fs) BY <1>11, <1>12
<1> HIDE DEF F
<1>14. F = [k \in 0 .. N |-> C(F, k)] BY <1>13 DEF IsMeasuringText, C, NoText
<1>15. \A k \in 0 .. N : F[k] = C(F, k) BY <1>14, Zenon
<1> HIDE DEF St, a
<1>16. F[0] = a
  <2>1. 0 \in 0 .. N BY <1>0
  <2> QED BY <1>15, <2>1 DEF C
<1>17. ASSUME NEW k \in 1 .. N PROVE F[k] = St(F[k - 1], k)
  <2>1. k \in 0 .. N /\ k # 0 OBVIOUS
  <2> QED BY <1>15, <2>1 DEF C
<1>18. \A k \in 0 .. N : F[k] \in S
  <2> DEFINE T == {k \in 0 .. N : F[k] \in S}
  <2>1. 0 \in T BY <1>0, <1>2, <1>16
  <2>2. ASSUME NEW k \in 0 .. N - 1, k \in T PROVE k + 1 \in T
    <3>1. k + 1 \in 1 .. N /\ k + 1 \in 0 .. N /\ (k + 1) - 1 = k BY <1>0
    <3>2. F[k + 1] = St(F[k], k + 1) BY <1>17, <3>1
    <3>3. F[k] \in S BY <2>2
    <3>4. St(F[k], k + 1) \in S BY <3>1, <3>3, <1>t
    <3> QED BY <3>1, <3>2, <3>4
  <2>3. \A k \in 0 .. N : k \in T
    <3> HIDE DEF T, N
    <3> QED BY <1>0, <2>1, <2>2, Induct
  <2> QED BY <2>3
<1> QED BY <1>16, <1>17, <1>18 DEF F, St, a

\* A hard break has no width, and is no mark.
TextWidth(x, fs, s) == IF x[s + 1] = "newline" THEN 0 ELSE BestAt(x, fs, 1, s)

\* The segments that end up to u are measured, the rest is not.
MeasuresText(x, fs, acc, u) ==
  /\ acc \in TextAccs(x) /\ acc.start \in 0 .. u /\ acc.start \in Cuts(x)
  /\ \A v \in acc.start + 1 .. u : ~EndsSegment(x, v)
  /\ \A s \in 0 .. acc.start - 1 : /\ acc.info[s].width = TextWidth(x, fs, s)
                                   /\ acc.info[s].tail = IsTail(x, s)
  /\ \A s \in Chars(x) : s >= acc.start => acc.info[s].width = 0 /\ acc.info[s].tail = FALSE
  /\ acc.width = WidthOf(acc.info, Len(x), 0, acc.start)

\* A segment ends between clusters, and a hard break is a cluster.
LEMMA SegmentEnds ==
  ASSUME NEW x, IsText(x), NEW u \in 1 .. Len(x)
  PROVE  /\ EndsSegment(x, u) => u \in Cuts(x)
         /\ x[u] = "newline" => u - 1 \in Cuts(x) /\ ~IsTail(x, u - 1)
<1>1. u \in 0 .. Len(x) /\ u - 1 \in 0 .. Len(x) /\ (u - 1) + 1 = u BY CharsAre
<1>2. EndsSegment(x, u) => u \in Cuts(x) BY <1>1 DEF Cuts, IsTail
<1>3. x[u] = "newline" => ~IsTail(x, u - 1)
  <2>1. x[u] = "newline" => ~IsMark(x, u - 1) BY <1>1, TextsAssumption DEF IsMark
  <2> QED BY <2>1 DEF IsTail
<1> QED BY <1>1, <1>2, <1>3 DEF Cuts

\* One turn of measure measures one more segment, or none.
LEMMA MeasureUpToMeasures ==
  ASSUME NEW x, IsText(x), NEW fs, AreFonts(fs), NEW acc, NEW u \in 1 .. Len(x),
         MeasuresText(x, fs, acc, u - 1)
  PROVE  MeasuresText(x, fs, MeasureUpTo(acc, x, fs, u), u)
<1> DEFINE L == Len(x)
           p == acc.start
           end == MeasuredEnd(x, u)
           seg == measureSegment(x, fs, p, end)
           new == MeasureUpTo(acc, x, fs, u)
           A == acc.info
           B == new.info
<1>0. /\ acc \in TextAccs(x) /\ p \in 0 .. u - 1 /\ p \in Cuts(x) /\ L \in Nat /\ u \in 0 .. L
      /\ \A v \in p + 1 .. u - 1 : ~EndsSegment(x, v)
      /\ \A s \in 0 .. p - 1 : A[s].width = TextWidth(x, fs, s) /\ A[s].tail = IsTail(x, s)
      /\ \A s \in Chars(x) : s >= p => A[s].width = 0 /\ A[s].tail = FALSE
      /\ acc.width = WidthOf(A, L, 0, p)
  BY CharsAre DEF MeasuresText
<1>1. /\ new \in TextAccs(x) /\ seg \in Segs(x)
      /\ ~EndsSegment(x, u) => new = acc
      /\ EndsSegment(x, u) =>
           /\ B = Remeasured(A, seg, p, end)
           /\ new.width = acc.width + seg.width /\ new.start = u
  BY <1>0, MeasureUpToIs
<1>2. CASE ~EndsSegment(x, u)
  <2>1. new = acc BY <1>1, <1>2
  <2>2. \A v \in p + 1 .. u : ~EndsSegment(x, v)
    <3> TAKE v \in p + 1 .. u
    <3>1. v = u \/ v \in p + 1 .. u - 1 BY <1>0
    <3> QED BY <1>0, <1>2, <3>1
  <2>3. p \in 0 .. u BY <1>0
  <2>4. MeasuresText(x, fs, acc, u) BY <1>0, <2>2, <2>3 DEF MeasuresText
  <2> QED BY <2>1, <2>4
<1>3. CASE EndsSegment(x, u)
  <2>1. B = Remeasured(A, seg, p, end) /\ new.width = acc.width + seg.width /\ new.start = u
    BY <1>1, <1>3
  <2>2. /\ A \in Infos(x) /\ B \in Infos(x) /\ seg.info \in Infos(x) /\ seg.width \in Int
        /\ acc.width \in Int
    BY <1>0, <1>1 DEF TextAccs, Segs
  <2>3. HasWidths(A, L) /\ HasWidths(B, L) /\ HasWidths(seg.info, L)
    BY <2>2, InfosHaveWidths
  <2>4. \A t \in Chars(x) :
            IF t \in p .. end - 1
            THEN B[t].width = seg.info[t].width /\ B[t].tail = (A[t].tail \/ seg.info[t].tail)
            ELSE B[t] = A[t]
    <3> HIDE DEF seg, new, A, B, end, p
    <3> QED BY <1>1, <2>1, <2>2, RemeasuredIs
  <2>5. /\ end \in {u - 1, u} /\ (end = u - 1 <=> x[u] = "newline") /\ p <= end /\ end \in 0 .. L
        /\ u \in Cuts(x) /\ end \in Cuts(x) /\ (end = u - 1 => ~IsTail(x, u - 1))
    <3>1. u \in Cuts(x) BY <1>3, SegmentEnds
    <3>2. x[u] = "newline" => u - 1 \in Cuts(x) /\ ~IsTail(x, u - 1) BY SegmentEnds
    <3>3. u # u - 1 BY <1>0
    <3> QED BY <1>0, <3>1, <3>2, <3>3 DEF MeasuredEnd
  <2> HIDE DEF new, seg, end, p, A, B, L
  <2>6. /\ \A s \in p .. end - 1 : seg.info[s].width = BestAt(x, fs, 1, s)
                                   /\ seg.info[s].tail = IsTail(x, s)
        /\ seg.width = WidthOf(seg.info, L, p, end)
    <3>1. CASE p = end
      <4>1. seg = NotMeasured(x)
        <5>1. end <= p /\ p \in 0 .. Len(x) /\ end \in 0 .. Len(x) BY <2>5, <3>1 DEF L
        <5>2. measureSegment(x, fs, p, end) = NotMeasured(x) BY <5>1, AnySegment
        <5> QED BY <5>2 DEF seg
      <4>2. seg.width = 0 BY <4>1 DEF NotMeasured
      <4>3. WidthOf(seg.info, L, p, end) = 0
        <5> DEFINE I == seg.info
        <5>1. HasWidths(I, L) BY <2>3
        <5> HIDE DEF I
        <5>2. WidthOf(I, L, end, end) = 0 BY <1>0, <2>5, <5>1, WidthOfFacts
        <5> QED BY <3>1, <5>2 DEF I
      <4> QED BY <2>5, <3>1, <4>2, <4>3
    <3>2. CASE p # end
      <4>1. p \in 0 .. L - 1 /\ end \in p + 1 .. L BY <1>0, <2>5, <3>2
      <4>2. \A v \in p + 1 .. end - 1 : ~EndsSegment(x, v) BY <1>0, <2>5
      <4>3. WholeRange(x, p, end) BY <1>0, <2>5, <4>1, <4>2 DEF WholeRange, L
      <4>4. RangeMeasured(x, fs, 1, seg, p, end) BY <4>3, SegmentIsMeasured DEF seg
      <4>5. /\ \A s \in p .. end - 1 : seg.info[s].width = BestAt(x, fs, 1, s)
                                       /\ seg.info[s].tail = IsTail(x, s)
            /\ seg.width = WidthOf(Best(x, fs, 1), L, p, end)
        BY <4>4 DEF RangeMeasured, L
      <4>6. WidthOf(Best(x, fs, 1), L, p, end) = WidthOf(seg.info, L, p, end)
        <5> DEFINE I1 == Best(x, fs, 1)
                   I2 == seg.info
        <5>1. 1 \in DOMAIN fs BY DEF AreFonts
        <5>2. HasWidths(I1, L) /\ \A s \in Chars(x) : I1[s].width = BestAt(x, fs, 1, s)
          BY <5>1, BestIsWidth DEF L
        <5>3. \A s \in p .. end - 1 : I1[s].width = I2[s].width
          <6> TAKE s \in p .. end - 1
          <6>1. s \in Chars(x) BY <1>0, <2>5 DEF Chars, L
          <6> QED BY <4>5, <5>2, <6>1
        <5>4. HasWidths(I2, L) /\ p \in 0 .. L /\ end \in p .. L BY <1>0, <2>3, <2>5, <4>1
        <5> HIDE DEF I1, I2
        <5>5. WidthOf(I1, L, p, end) = WidthOf(I2, L, p, end)
          BY <1>0, <5>2, <5>3, <5>4, SameWidth
        <5> QED BY <5>5 DEF I1, I2
      <4> QED BY <4>5, <4>6
    <3> QED BY <3>1, <3>2
  <2>7. ASSUME NEW s \in 0 .. u - 1
        PROVE  B[s].width = TextWidth(x, fs, s) /\ B[s].tail = IsTail(x, s)
    <3>1. s \in Chars(x) BY <1>0 DEF Chars, L
    <3>2. CASE s \in p .. end - 1
      <4>1. x[s + 1] # "newline"
        <5>1. CASE s + 1 = u
          <6>1. end # u - 1 BY <1>0, <2>5, <3>2, <5>1
          <6> QED BY <2>5, <5>1, <6>1
        <5>2. CASE s + 1 # u
          <6>1. s + 1 \in p + 1 .. u - 1 BY <1>0, <2>5, <3>2, <5>2
          <6>2. ~EndsSegment(x, s + 1) BY <1>0, <6>1
          <6> QED BY <6>2 DEF EndsSegment
        <5> QED BY <5>1, <5>2
      <4>2. B[s].width = seg.info[s].width /\ B[s].tail = (A[s].tail \/ seg.info[s].tail)
        BY <2>4, <3>1, <3>2
      <4>3. seg.info[s].width = BestAt(x, fs, 1, s) /\ seg.info[s].tail = IsTail(x, s)
        BY <2>6, <3>2
      <4>4. A[s].tail = FALSE
        <5>1. s >= p BY <1>0, <2>5, <3>2
        <5> QED BY <1>0, <3>1, <5>1
      <4>5. (FALSE \/ IsTail(x, s)) = IsTail(x, s) BY TailIsBoolean
      <4> QED BY <4>1, <4>2, <4>3, <4>4, <4>5 DEF TextWidth
    <3>3. CASE s \in 0 .. p - 1
      <4>1. s \notin p .. end - 1 BY <1>0, <2>5, <3>3
      <4>2. B[s] = A[s] BY <2>4, <3>1, <4>1
      <4> QED BY <1>0, <3>3, <4>2
    <3>4. CASE s \notin p .. end - 1 /\ s \notin 0 .. p - 1
      <4>1. s = u - 1 /\ end = u - 1 /\ s >= p BY <1>0, <2>5, <3>4
      <4>2. x[s + 1] = "newline"
        <5>1. s + 1 = u BY <1>0, <4>1
        <5> QED BY <2>5, <4>1, <5>1
      <4>3. B[s] = A[s] BY <2>4, <3>1, <3>4
      <4>4. A[s].width = 0 /\ A[s].tail = FALSE BY <1>0, <3>1, <4>1
      <4>5. IsTail(x, s) = FALSE BY <2>5, <4>1, TailIsBoolean
      <4> QED BY <4>2, <4>3, <4>4, <4>5 DEF TextWidth
    <3> QED BY <3>2, <3>3, <3>4
  <2>8. ASSUME NEW s \in Chars(x), s >= u PROVE B[s].width = 0 /\ B[s].tail = FALSE
    <3>1. s \notin p .. end - 1 /\ s >= p BY <1>0, <2>5, <2>8, CharsAre
    <3>2. B[s] = A[s] BY <2>4, <3>1
    <3> QED BY <1>0, <3>1, <3>2
  <2>9. new.width = WidthOf(B, L, 0, u)
    <3>1. WidthOf(B, L, 0, p) = WidthOf(A, L, 0, p)
      <4>1. \A s \in 0 .. p - 1 : B[s].width = A[s].width
        <5> TAKE s \in 0 .. p - 1
        <5>1. s \in Chars(x) /\ s \notin p .. end - 1 BY <1>0, <2>5 DEF Chars, L
        <5> QED BY <2>4, <5>1
      <4>2. 0 \in 0 .. L /\ p \in 0 .. L BY <1>0, <2>5
      <4> QED BY <1>0, <2>3, <4>1, <4>2, SameWidth
    <3>2. WidthOf(B, L, p, end) = WidthOf(seg.info, L, p, end)
      <4> DEFINE I == seg.info
      <4>1. \A s \in p .. end - 1 : B[s].width = I[s].width
        <5> TAKE s \in p .. end - 1
        <5>1. s \in Chars(x) BY <1>0, <2>5 DEF Chars, L
        <5> QED BY <2>4, <5>1
      <4>2. p \in 0 .. L /\ end \in p .. L /\ HasWidths(I, L) BY <1>0, <2>3, <2>5
      <4> HIDE DEF I
      <4>3. WidthOf(B, L, p, end) = WidthOf(I, L, p, end)
        BY <1>0, <2>3, <4>1, <4>2, SameWidth
      <4> QED BY <4>3 DEF I
    <3>3. WidthOf(B, L, end, u) = 0
      <4>1. end \in 0 .. L /\ u \in end .. L BY <1>0, <2>5
      <4>2. \A s \in end .. u - 1 : B[s].width = 0
        <5> TAKE s \in end .. u - 1
        <5>1. s = u - 1 /\ end = u - 1 /\ s \in 0 .. u - 1 BY <1>0, <2>5
        <5>2. x[s + 1] = "newline"
          <6>1. s + 1 = u BY <1>0, <5>1
          <6> QED BY <2>5, <5>1, <6>1
        <5> QED BY <2>7, <5>1, <5>2 DEF TextWidth
      <4> QED BY <1>0, <2>3, <4>1, <4>2, NoWidth
    <3>4. /\ WidthOf(B, L, 0, u) = WidthOf(B, L, 0, p) + WidthOf(B, L, p, u)
          /\ WidthOf(B, L, p, u) = WidthOf(B, L, p, end) + WidthOf(B, L, end, u)
      <4>1. 0 \in 0 .. L /\ p \in 0 .. L /\ end \in 0 .. L /\ u \in 0 .. L BY <1>0, <2>5
      <4>2. WidthOf(B, L, 0, u) = WidthOf(B, L, 0, p) + WidthOf(B, L, p, u)
        BY <1>0, <2>3, <4>1, WidthOfFacts
      <4>3. WidthOf(B, L, p, u) = WidthOf(B, L, p, end) + WidthOf(B, L, end, u)
        BY <1>0, <2>3, <4>1, WidthOfFacts
      <4> QED BY <4>2, <4>3
    <3>5. new.width = WidthOf(A, L, 0, p) + WidthOf(seg.info, L, p, end)
      BY <1>0, <2>1, <2>6
    <3>6. WidthOf(A, L, 0, p) \in Int /\ WidthOf(seg.info, L, p, end) \in Int
      <4>1. WidthOf(A, L, 0, p) \in Int BY <1>0, <2>2
      <4>2. WidthOf(seg.info, L, p, end) \in Int BY <2>2, <2>6
      <4> QED BY <4>1, <4>2
    <3> QED BY <3>1, <3>2, <3>3, <3>4, <3>5, <3>6
  <2>10. \A v \in u + 1 .. u : FALSE BY <1>0
  <2>11. MeasuresText(x, fs, new, u)
    <3>1. new.start = u /\ new \in TextAccs(x) /\ u \in 0 .. u BY <1>0, <1>1, <2>1
    <3>2. \A v \in new.start + 1 .. u : ~EndsSegment(x, v) BY <2>10, <3>1
    <3>3. \A s \in 0 .. new.start - 1 : /\ new.info[s].width = TextWidth(x, fs, s)
                                        /\ new.info[s].tail = IsTail(x, s)
      BY <2>7, <3>1 DEF B
    <3>4. \A s \in Chars(x) : s >= new.start => new.info[s].width = 0 /\ new.info[s].tail = FALSE
      BY <2>8, <3>1 DEF B
    <3>5. new.width = WidthOf(new.info, Len(x), 0, new.start) BY <2>9, <3>1 DEF B, L
    <3> QED BY <2>5, <3>1, <3>2, <3>3, <3>4, <3>5 DEF MeasuresText
  <2> QED BY <2>11 DEF new
<1> QED BY <1>2, <1>3

\* What measure leaves of a text: the widths and the tails.
LEMMA TextIsMeasured ==
  ASSUME NEW x, IsText(x), NEW fs, AreFonts(fs)
  PROVE  LET all == MeasuringText(x, fs)[Len(x)]
         IN  /\ all.info \in Infos(x) /\ all.width \in Nat
             /\ \A s \in Chars(x) : /\ all.info[s].width = TextWidth(x, fs, s)
                                    /\ all.info[s].tail = IsTail(x, s)
             /\ all.width = WidthOf(all.info, Len(x), 0, Len(x))
<1> DEFINE L == Len(x)
           F == MeasuringText(x, fs)
           T == {u \in 0 .. L : MeasuresText(x, fs, F[u], u)}
<1>0. L \in Nat BY CharsAre
<1>1. /\ F[0] = NoText(x) /\ \A u \in 0 .. L : F[u] \in TextAccs(x)
      /\ \A u \in 1 .. L : F[u] = MeasureUpTo(F[u - 1], x, fs, u)
  BY MeasuringTextSteps
<1> HIDE DEF F
<1>2. 0 \in T
  <2>1. 0 \in 0 .. L /\ F[0] \in TextAccs(x) BY <1>0, <1>1
  <2>2. /\ F[0].start = 0 /\ F[0].width = 0 /\ F[0].info = Unmeasured(x)
    BY <1>1 DEF NoText
  <2>3. 0 \in Cuts(x) BY <1>0 DEF Cuts, IsTail
  <2>4. \A s \in Chars(x) : F[0].info[s].width = 0 /\ F[0].info[s].tail = FALSE
    BY <2>2 DEF Unmeasured
  <2>5. WidthOf(F[0].info, L, 0, 0) = 0
    <3> DEFINE I == F[0].info
    <3>1. I \in Infos(x) BY <2>1 DEF TextAccs
    <3>2. HasWidths(I, L) BY <3>1, InfosHaveWidths
    <3> HIDE DEF I
    <3>3. WidthOf(I, L, 0, 0) = 0 BY <1>0, <2>1, <3>2, WidthOfFacts
    <3> QED BY <3>3 DEF I
  <2>6. 0 \in 0 .. 0 /\ (\A v \in 0 + 1 .. 0 : FALSE) /\ (\A s \in 0 .. 0 - 1 : FALSE) OBVIOUS
  <2>7. MeasuresText(x, fs, F[0], 0)
    BY <2>1, <2>2, <2>3, <2>4, <2>5, <2>6 DEF MeasuresText
  <2> QED BY <2>1, <2>7
<1>3. ASSUME NEW u \in 0 .. L - 1, u \in T PROVE u + 1 \in T
  <2>1. u + 1 \in 1 .. L /\ (u + 1) - 1 = u /\ u + 1 \in 0 .. L BY <1>0
  <2>2. MeasuresText(x, fs, F[u], u) BY <1>3
  <2>3. F[u + 1] = MeasureUpTo(F[u], x, fs, u + 1) BY <1>1, <2>1
  <2>4. MeasuresText(x, fs, MeasureUpTo(F[u], x, fs, u + 1), u + 1)
    BY <2>1, <2>2, MeasureUpToMeasures
  <2> QED BY <2>1, <2>3, <2>4
<1>4. \A u \in 0 .. L : u \in T
  <2> HIDE DEF T
  <2> QED BY <1>0, <1>2, <1>3, Induct
<1> DEFINE all == F[L]
<1>5. MeasuresText(x, fs, all, L)
  <2>1. L \in 0 .. L BY <1>0
  <2>2. L \in T BY <1>4, <2>1
  <2> QED BY <2>2
<1> HIDE DEF all
<1>6. all.start = L
  <2>1. all.start \in 0 .. L /\ \A v \in all.start + 1 .. L : ~EndsSegment(x, v)
    BY <1>5 DEF MeasuresText
  <2>2. EndsSegment(x, L) BY DEF EndsSegment
  <2>3. L \notin all.start + 1 .. L BY <2>1, <2>2
  <2> QED BY <1>0, <2>1, <2>3
<1>7. all \in TextAccs(x) /\ all.width = WidthOf(all.info, Len(x), 0, L)
  BY <1>5, <1>6 DEF MeasuresText
<1>8. \A s \in Chars(x) : /\ all.info[s].width = TextWidth(x, fs, s)
                          /\ all.info[s].tail = IsTail(x, s)
  BY <1>5, <1>6 DEF MeasuresText, Chars
<1>9. all.info \in Infos(x) BY <1>7 DEF TextAccs
<1>10. all.width \in Nat
  <2> DEFINE I == all.info
  <2>1. HasWidths(I, L) BY <1>9, InfosHaveWidths
  <2>2. 0 \in 0 .. L /\ L \in 0 .. L BY <1>0
  <2> HIDE DEF I
  <2>3. WidthOf(I, L, 0, L) \in Nat BY <1>0, <2>1, <2>2, WidthOfFacts
  <2> QED BY <1>7, <2>3 DEF I
<1> QED BY <1>7, <1>8, <1>9, <1>10 DEF all, F

-----------------------------------------------------------------------------
(* shapeSegment draws each cluster in its font.                            *)

\* What is drawn: glyphs, and as a row of widths.
Drawn == [font : Nat, text_index : Nat, width : Nat]
Row(glyphs) == [k \in 0 .. Len(glyphs) - 1 |-> glyphs[k + 1]]

\* Glyphs in a row have widths.
LEMMA RowIs ==
  ASSUME NEW s \in Seq(Drawn)
  PROVE  /\ Len(s) \in Nat /\ HasWidths(Row(s), Len(s))
         /\ \A k \in 0 .. Len(s) - 1 : Row(s)[k] = s[k + 1]
         /\ DrawnWidth(s) = WidthOf(Row(s), Len(s), 0, Len(s)) /\ DrawnWidth(s) \in Nat
<1>1. Len(s) \in Nat /\ \A k \in 0 .. Len(s) - 1 : Row(s)[k] = s[k + 1] BY DEF Row
<1>2. HasWidths(Row(s), Len(s))
  <2> SUFFICES ASSUME NEW k \in 0 .. Len(s) - 1 PROVE Row(s)[k].width \in Nat BY DEF HasWidths
  <2>1. k + 1 \in 1 .. Len(s) BY <1>1
  <2>2. s[k + 1] \in Drawn BY <2>1
  <2> QED BY <1>1, <2>2 DEF Drawn
<1>3. DrawnWidth(s) = WidthOf(Row(s), Len(s), 0, Len(s)) BY DEF DrawnWidth, Row
<1>4. 0 \in 0 .. Len(s) /\ Len(s) \in 0 .. Len(s) BY <1>1
<1>5. WidthOf(Row(s), Len(s), 0, Len(s)) \in Nat BY <1>1, <1>2, <1>4, WidthOfFacts
<1> QED BY <1>1, <1>2, <1>3, <1>5

\* Glyphs drawn after others are as wide as both.
LEMMA DrawnAdds ==
  ASSUME NEW s \in Seq(Drawn), NEW u \in Seq(Drawn)
  PROVE  s \o u \in Seq(Drawn) /\ DrawnWidth(s \o u) = DrawnWidth(s) + DrawnWidth(u)
<1> DEFINE v == s \o u
           n == Len(s)
           m == Len(u)
           N == Len(v)
<1>1. /\ v \in Seq(Drawn) /\ n \in Nat /\ m \in Nat /\ N = n + m /\ N \in Nat
      /\ \A k \in 1 .. n : v[k] = s[k]
      /\ \A k \in 1 .. m : v[n + k] = u[k]
  OBVIOUS
<1> HIDE DEF v
<1>a. /\ HasWidths(Row(s), n) /\ \A k \in 0 .. n - 1 : Row(s)[k] = s[k + 1]
      /\ DrawnWidth(s) = WidthOf(Row(s), n, 0, n)
  BY RowIs
<1>b. /\ HasWidths(Row(u), m) /\ \A k \in 0 .. m - 1 : Row(u)[k] = u[k + 1]
      /\ DrawnWidth(u) = WidthOf(Row(u), m, 0, m)
  BY RowIs
<1>c. /\ HasWidths(Row(v), N) /\ \A k \in 0 .. N - 1 : Row(v)[k] = v[k + 1]
      /\ DrawnWidth(v) = WidthOf(Row(v), N, 0, N)
  BY <1>1, RowIs
<1> HIDE DEF n, m, N
<1>2. Alike(Row(v), 0, Row(s), 0, n)
  <2> SUFFICES ASSUME NEW k \in 0 .. n - 1 PROVE Row(v)[0 + k].width = Row(s)[0 + k].width
    BY DEF Alike
  <2>1. 0 + k = k /\ k \in 0 .. N - 1 /\ k + 1 \in 1 .. n BY <1>1
  <2> QED BY <1>1, <1>a, <1>c, <2>1
<1>3. Alike(Row(v), n, Row(u), 0, m)
  <2> SUFFICES ASSUME NEW k \in 0 .. m - 1 PROVE Row(v)[n + k].width = Row(u)[0 + k].width
    BY DEF Alike
  <2>1. 0 + k = k /\ n + k \in 0 .. N - 1 /\ k + 1 \in 1 .. m /\ (n + k) + 1 = n + (k + 1) BY <1>1
  <2> QED BY <1>1, <1>b, <1>c, <2>1
<1>4. WidthOf(Row(v), N, 0, 0 + n) = WidthOf(Row(s), n, 0, 0 + n)
  <2>1. 0 \in 0 .. N /\ 0 \in 0 .. n /\ 0 + n <= N /\ 0 + n <= n BY <1>1
  <2> QED BY <1>1, <1>2, <1>a, <1>c, <2>1, SameWidths
<1>5. WidthOf(Row(v), N, n, n + m) = WidthOf(Row(u), m, 0, 0 + m)
  <2>1. n \in 0 .. N /\ 0 \in 0 .. m /\ n + m <= N /\ 0 + m <= m BY <1>1
  <2> QED BY <1>1, <1>3, <1>b, <1>c, <2>1, SameWidths
<1>6. WidthOf(Row(v), N, 0, N) = WidthOf(Row(v), N, 0, n) + WidthOf(Row(v), N, n, N)
  <2>1. 0 \in 0 .. N /\ n \in 0 .. N /\ N \in 0 .. N BY <1>1
  <2> QED BY <1>1, <1>c, <2>1, WidthOfFacts
<1>7. 0 + n = n /\ 0 + m = m BY <1>1
<1>8. DrawnWidth(v) = DrawnWidth(s) + DrawnWidth(u)
  BY <1>1, <1>4, <1>5, <1>6, <1>7, <1>a, <1>b, <1>c
<1> QED BY <1>1, <1>8 DEF v

\* No glyph has no width.
LEMMA NothingDrawn == <<>> \in Seq(Drawn) /\ DrawnWidth(<<>>) = 0
<1>1. <<>> \in Seq(Drawn) /\ Len(<<>>) = 0 OBVIOUS
<1> DEFINE e == <<>>
<1>2. e \in Seq(Drawn) /\ Len(e) = 0 BY <1>1
<1> HIDE DEF e
<1>3. HasWidths(Row(e), 0) /\ DrawnWidth(e) = WidthOf(Row(e), 0, 0, 0) BY <1>2, RowIs
<1>4. 0 \in 0 .. 0 /\ 0 \in Nat OBVIOUS
<1>5. WidthOf(Row(e), 0, 0, 0) = 0 BY <1>3, <1>4, WidthOfFacts
<1> QED BY <1>1, <1>3, <1>5 DEF e

\* A cluster's glyphs in font n.
ClusterGlyphs(x, fs, n, j, next) ==
  [k \in 1 .. next - j |-> [font |-> n, text_index |-> j, width |-> fs[n][x[j + k]].width]]

\* A cluster's glyphs are as wide as the cluster in their font.
LEMMA ClusterIsDrawn ==
  ASSUME NEW x, IsText(x), NEW fs, NEW n \in Nat, IsFont(fs[n]),
         NEW j \in Chars(x), NEW next \in j + 1 .. Len(x)
  PROVE  LET s == ClusterGlyphs(x, fs, n, j, next)
         IN  s \in Seq(Drawn) /\ DrawnWidth(s) = WidthOf(Glyphs(x, fs[n]), Len(x), j, next)
<1> DEFINE s == ClusterGlyphs(x, fs, n, j, next)
           d == next - j
           L == Len(x)
           g == Glyphs(x, fs[n])
<1>1. L \in Nat /\ j \in Nat /\ d \in Nat /\ j + d = next /\ next <= L /\ Chars(x) = 0 .. L - 1
  BY CharsAre
<1>2. ASSUME NEW k \in 1 .. d
      PROVE  /\ j + k \in 1 .. L /\ (j + k) - 1 \in Chars(x) /\ x[j + k] \in Characters
             /\ fs[n][x[j + k]].width \in Nat
  <2>1. j + k \in 1 .. L /\ (j + k) - 1 \in Chars(x) /\ ((j + k) - 1) + 1 = j + k BY <1>1
  <2>2. x[j + k] \in Characters BY <2>1, CharsAre
  <2>3. fs[n][x[j + k]] \in [width : Nat, found : BOOLEAN] BY <2>2 DEF IsFont, Glyph
  <2> QED BY <2>1, <2>2, <2>3
<1>3. s \in Seq(Drawn) /\ Len(s) = d /\ \A k \in 1 .. d : s[k].width = fs[n][x[j + k]].width
  <2>1. \A k \in 1 .. d : [font |-> n, text_index |-> j, width |-> fs[n][x[j + k]].width] \in Drawn
    BY <1>1, <1>2 DEF Drawn
  <2>2. s = [k \in 1 .. d |-> [font |-> n, text_index |-> j, width |-> fs[n][x[j + k]].width]]
    BY DEF ClusterGlyphs
  <2>3. s \in [1 .. d -> Drawn]
    <3> HIDE DEF s, d
    <3> QED BY <2>1, <2>2
  <2>4. s \in Seq(Drawn) /\ Len(s) = d
    <3> HIDE DEF s, d
    <3>1. DOMAIN s = 1 .. d /\ \A k \in 1 .. d : s[k] \in Drawn BY <2>3
    <3>2. s \in Seq(Drawn) BY <1>1, <2>3
    <3> QED BY <1>1, <3>1, <3>2
  <2>5. \A k \in 1 .. d : s[k].width = fs[n][x[j + k]].width
    <3> HIDE DEF d
    <3> QED BY <2>2
  <2> QED BY <2>4, <2>5
<1>4. HasWidths(g, L) /\ \A t \in Chars(x) : g[t] = fs[n][x[t + 1]]
  <2>1. HasWidths(g, L) BY ClusterWidthIs
  <2> QED BY <2>1 DEF Glyphs
<1> HIDE DEF s, d, g, L
<1>5. /\ HasWidths(Row(s), d) /\ \A k \in 0 .. d - 1 : Row(s)[k] = s[k + 1]
      /\ DrawnWidth(s) = WidthOf(Row(s), d, 0, d)
  BY <1>3, RowIs
<1>6. Alike(Row(s), 0, g, j, d)
  <2> SUFFICES ASSUME NEW k \in 0 .. d - 1 PROVE Row(s)[0 + k].width = g[j + k].width
    BY DEF Alike
  <2>1. 0 + k = k /\ k + 1 \in 1 .. d /\ j + (k + 1) = (j + k) + 1
        /\ j + k = (j + (k + 1)) - 1
    BY <1>1
  <2>2. j + k \in Chars(x) BY <1>2, <2>1
  <2>3. g[j + k] = fs[n][x[j + (k + 1)]] BY <1>4, <2>1, <2>2
  <2> QED BY <1>3, <1>5, <2>1, <2>3
<1>7. WidthOf(Row(s), d, 0, 0 + d) = WidthOf(g, L, j, j + d)
  <2>1. 0 \in 0 .. d /\ j \in 0 .. L /\ 0 + d <= d /\ j + d <= L BY <1>1
  <2> QED BY <1>1, <1>4, <1>5, <1>6, <2>1, SameWidths
<1>8. 0 + d = d BY <1>1
<1>9. DrawnWidth(s) = WidthOf(g, L, j, next) BY <1>1, <1>5, <1>7, <1>8
<1> QED BY <1>3, <1>9 DEF s, g, L

\* What the loops of shapeSegment keep.
Draws(x) == [Ranges(x) -> Seq(Drawn)]
ShapeAccs(x) == [glyphs : Seq(Drawn), next : 0 .. Len(x)]

\* The next cluster the font has all of, or the end: the font lacks those before it.
LEMMA NextWholeIs ==
  ASSUME NEW x, IsText(x), NEW fs, NEW n, NEW j \in Chars(x), NEW end \in j + 1 .. Len(x)
  PROVE  LET next  == ClusterEnd(x, j, end)
             whole == NextWhole(x, fs, n, j, end)
         IN  /\ next \in j + 1 .. end /\ whole \in next .. end
             /\ whole = end \/ (~IsMark(x, whole) /\ ~Lacks(x, fs, n, whole, end))
             /\ \A t \in next .. whole - 1 : IsMark(x, t) \/ Lacks(x, fs, n, t, end)
<1> DEFINE next  == ClusterEnd(x, j, end)
           whole == NextWhole(x, fs, n, j, end)
           T == {t \in next .. end : ~IsMark(x, t) /\ ~Lacks(x, fs, n, t, end)}
<1>1. j \in Int /\ end \in Int /\ j < end BY CharsAre
<1>2. next \in j + 1 .. end BY <1>1, ClusterEndIs DEF IsClusterEnd
<1>3. next \in Int /\ next <= end BY <1>1, <1>2
<1> HIDE DEF next
<1>4. \E u \in next .. end : (u = end \/ u \in T) /\ \A t \in next .. u - 1 : t \notin T
  <2> HIDE DEF T
  <2> QED BY <1>1, <1>3, FirstOf
<1>5. \E u \in next .. end : /\ u = end \/ (~IsMark(x, u) /\ ~Lacks(x, fs, n, u, end))
                             /\ \A t \in next .. u - 1 : IsMark(x, t) \/ Lacks(x, fs, n, t, end)
  <2>1. PICK u \in next .. end : (u = end \/ u \in T) /\ \A t \in next .. u - 1 : t \notin T
    BY <1>4
  <2>2. \A t \in next .. u - 1 : t \in next .. end BY <1>1, <1>3
  <2> QED BY <2>1, <2>2
<1>6. whole = CHOOSE u \in next .. end :
                /\ u = end \/ (~IsMark(x, u) /\ ~Lacks(x, fs, n, u, end))
                /\ \A t \in next .. u - 1 : IsMark(x, t) \/ Lacks(x, fs, n, t, end)
  BY DEF NextWhole, next
<1> HIDE DEF whole
<1>7. /\ whole \in next .. end
      /\ whole = end \/ (~IsMark(x, whole) /\ ~Lacks(x, fs, n, whole, end))
      /\ \A t \in next .. whole - 1 : IsMark(x, t) \/ Lacks(x, fs, n, t, end)
  BY <1>5, <1>6
<1> QED BY <1>2, <1>7 DEF next, whole

\* What ShapeCluster does, by cases.
ClusterIsShaped(acc, x, fs, n, f, j, end) ==
  LET next  == ClusterEnd(x, j, end)
      whole == NextWhole(x, fs, n, j, end)
      new   == ShapeCluster(acc, x, fs, n, f, j, end)
  IN  /\ new \in ShapeAccs(x) /\ acc.glyphs \in Seq(Drawn) /\ f[<<j, whole>>] \in Seq(Drawn)
      /\ Lacks(x, fs, n, j, end) =>
           new.glyphs = acc.glyphs \o f[<<j, whole>>] /\ new.next = whole
      /\ ~Lacks(x, fs, n, j, end) =>
           new.glyphs = acc.glyphs \o ClusterGlyphs(x, fs, n, j, next) /\ new.next = next

\* One turn of the loop takes one of those cases.
LEMMA ShapeClusterIs ==
  ASSUME NEW x, IsText(x), NEW fs, NEW n \in Nat, IsFont(fs[n]), NEW f \in Draws(x),
         NEW j \in Chars(x), NEW end \in j + 1 .. Len(x), NEW acc \in ShapeAccs(x)
  PROVE  ClusterIsShaped(acc, x, fs, n, f, j, end)
<1> DEFINE next  == ClusterEnd(x, j, end)
           whole == NextWhole(x, fs, n, j, end)
           new   == ShapeCluster(acc, x, fs, n, f, j, end)
           own   == ClusterGlyphs(x, fs, n, j, next)
           more  == f[<<j, whole>>]
<1>1. next \in j + 1 .. end /\ whole \in next .. end BY NextWholeIs
<1> HIDE DEF next, whole
<1>2. /\ next \in j + 1 .. Len(x) /\ next \in 0 .. Len(x) /\ whole \in 0 .. Len(x)
      /\ j \in 0 .. Len(x) /\ j \in Nat
  BY <1>1, CharsAre
<1>3. own \in Seq(Drawn) BY <1>2, ClusterIsDrawn
<1>4. more \in Seq(Drawn)
  <2>1. <<j, whole>> \in Ranges(x) BY <1>2 DEF Ranges
  <2> QED BY <2>1 DEF Draws
<1>5. acc.glyphs \in Seq(Drawn) BY DEF ShapeAccs
<1>6. /\ Lacks(x, fs, n, j, end) => new = [glyphs |-> acc.glyphs \o more, next |-> whole]
      /\ ~Lacks(x, fs, n, j, end) => new = [glyphs |-> acc.glyphs \o own, next |-> next]
  BY DEF ShapeCluster, ClusterGlyphs, next, whole
<1> HIDE DEF new, own, more
<1>7. CASE Lacks(x, fs, n, j, end)
  <2>1. acc.glyphs \o more \in Seq(Drawn) BY <1>4, <1>5, DrawnAdds
  <2>2. new = [glyphs |-> acc.glyphs \o more, next |-> whole] BY <1>6, <1>7
  <2>3. new \in ShapeAccs(x) BY <1>2, <2>1, <2>2 DEF ShapeAccs
  <2>4. new.glyphs = acc.glyphs \o more /\ new.next = whole BY <2>2
  <2> QED BY <1>4, <1>5, <1>7, <2>3, <2>4 DEF new, more, whole, ClusterIsShaped
<1>8. CASE ~Lacks(x, fs, n, j, end)
  <2>1. acc.glyphs \o own \in Seq(Drawn) BY <1>3, <1>5, DrawnAdds
  <2>2. new = [glyphs |-> acc.glyphs \o own, next |-> next] BY <1>6, <1>8
  <2>3. new \in ShapeAccs(x) BY <1>2, <2>1, <2>2 DEF ShapeAccs
  <2>4. new.glyphs = acc.glyphs \o own /\ new.next = next BY <2>2
  <2> QED BY <1>4, <1>5, <1>8, <2>3, <2>4 DEF new, more, whole, own, next, ClusterIsShaped
<1> QED BY <1>7, <1>8

NothingShaped(from) == [glyphs |-> <<>>, next |-> from]

\* One turn of the loop over a part.
ShapeStep(acc, x, fs, n, f, from, end, t) ==
  CASE t <= from -> NothingShaped(from)
    [] t > from /\ acc.next # t - 1 -> acc
    [] OTHER -> ShapeCluster(acc, x, fs, n, f, t - 1, end)

\* One turn keeps the loop's types.
LEMMA ShapeStepIs ==
  ASSUME NEW x, IsText(x), NEW fs, NEW n \in Nat, IsFont(fs[n]), NEW f \in Draws(x),
         NEW from \in 0 .. Len(x), NEW end \in 0 .. Len(x), NEW t \in 1 .. end,
         NEW acc \in ShapeAccs(x)
  PROVE  LET new == ShapeStep(acc, x, fs, n, f, from, end, t)
         IN  /\ new \in ShapeAccs(x)
             /\ t <= from => new = NothingShaped(from)
             /\ t > from /\ acc.next # t - 1 => new = acc
             /\ t > from /\ acc.next = t - 1 => new = ShapeCluster(acc, x, fs, n, f, t - 1, end)
<1> DEFINE new == ShapeStep(acc, x, fs, n, f, from, end, t)
<1>0. t \in Nat /\ t - 1 \in Chars(x) /\ end \in (t - 1) + 1 .. Len(x) /\ from \in Nat
  BY CharsAre
<1>1. CASE t <= from
  <2>1. ~(t > from) BY <1>0, <1>1
  <2>2. new = NothingShaped(from) BY <1>1, <2>1 DEF ShapeStep
  <2>3. NothingShaped(from) \in ShapeAccs(x) BY NothingDrawn DEF NothingShaped, ShapeAccs
  <2> QED BY <2>1, <2>2, <2>3
<1>2. CASE ~(t <= from) /\ acc.next # t - 1
  <2>1. t > from BY <1>0, <1>2
  <2>2. new = acc BY <1>2, <2>1 DEF ShapeStep
  <2> QED BY <1>2, <2>1, <2>2
<1>3. CASE ~(t <= from) /\ acc.next = t - 1
  <2>1. new = ShapeCluster(acc, x, fs, n, f, t - 1, end)
    BY <1>3 DEF ShapeStep
  <2>2. ShapeCluster(acc, x, fs, n, f, t - 1, end) \in ShapeAccs(x)
    BY <1>0, ShapeClusterIs DEF ClusterIsShaped
  <2> QED BY <1>3, <2>1, <2>2
<1> QED BY <1>1, <1>2, <1>3

\* That loop as a function of the turns done.
IsShaping(g, x, fs, n, f, from, end) ==
  g = [t \in 0 .. end |->
        CASE t <= from -> [glyphs |-> <<>>, next |-> from]
          [] t > from /\ g[t - 1].next # t - 1 -> g[t - 1]
          [] OTHER -> ShapeCluster(g[t - 1], x, fs, n, f, t - 1, end)]

\* Shaping is that function.
LEMMA ShapingSteps ==
  ASSUME NEW x, IsText(x), NEW fs, NEW n \in Nat, IsFont(fs[n]), NEW f \in Draws(x),
         NEW from \in 0 .. Len(x), NEW end \in 0 .. Len(x)
  PROVE  LET F == Shaping(x, fs, n, f, from, end)
         IN  /\ F[0] = NothingShaped(from)
             /\ \A t \in 0 .. end : F[t] \in ShapeAccs(x)
             /\ \A t \in 1 .. end : F[t] = ShapeStep(F[t - 1], x, fs, n, f, from, end, t)
<1> DEFINE a == NothingShaped(from)
           S == ShapeAccs(x)
           St(acc, t) == ShapeStep(acc, x, fs, n, f, from, end, t)
           G == [p \in (1 .. end) \X S |-> St(p[2], p[1])]
           F == Shaping(x, fs, n, f, from, end)
<1>0. end \in Nat /\ Len(x) \in Nat /\ from \in Nat BY CharsAre
<1>t. \A t \in 1 .. end : \A acc \in S : St(acc, t) \in S BY ShapeStepIs
<1>1. G \in [(1 .. end) \X S -> S]
  <2> SUFFICES ASSUME NEW p \in (1 .. end) \X S PROVE St(p[2], p[1]) \in S OBVIOUS
  <2>1. p[1] \in 1 .. end /\ p[2] \in S OBVIOUS
  <2> HIDE DEF St
  <2> QED BY <2>1, <1>t
<1>2. a \in S BY NothingDrawn DEF NothingShaped, ShapeAccs
<1>3. PICK g \in [0 .. end -> S] : Iterates(g, end, a, G)
  <2> HIDE DEF G, S, a
  <2> QED BY <1>0, <1>1, <1>2, Recursion
<1>4. \A k \in 0 .. end : g[k] = IF k = 0 THEN a ELSE G[<<k, g[k - 1]>>]
  <2> HIDE DEF G
  <2> QED BY <1>3 DEF Iterates
<1>5. ASSUME NEW k \in 1 .. end PROVE g[k] = St(g[k - 1], k)
  <2>1. k \in 0 .. end /\ k - 1 \in 0 .. end /\ k # 0 OBVIOUS
  <2>2. g[k - 1] \in S BY <1>3, <2>1
  <2>3. <<k, g[k - 1]>> \in (1 .. end) \X S BY <2>2
  <2>4. g[k] = G[<<k, g[k - 1]>>] BY <1>4, <2>1
  <2> QED BY <2>3, <2>4
<1> HIDE DEF G
<1>6. g[0] = a
  <2>1. 0 \in 0 .. end BY <1>0
  <2> QED BY <1>4, <2>1
<1> DEFINE C(h, t) == CASE t <= from -> NothingShaped(from)
                        [] t > from /\ h[t - 1].next # t - 1 -> h[t - 1]
                        [] OTHER -> ShapeCluster(h[t - 1], x, fs, n, f, t - 1, end)
<1>7. \A h, t : C(h, t) = St(h[t - 1], t) BY DEF ShapeStep
<1>8. \A h : C(h, 0) = a
  <2>1. 0 <= from /\ ~(0 > from) BY <1>0
  <2> QED BY <2>1 DEF a
<1> HIDE DEF C, St, a
<1>9. \A t \in 0 .. end : g[t] = C(g, t)
  <2> TAKE t \in 0 .. end
  <2>1. CASE t = 0 BY <1>6, <1>8, <2>1
  <2>2. CASE t # 0
    <3>1. t \in 1 .. end BY <2>2
    <3> QED BY <1>5, <1>7, <3>1
  <2> QED BY <2>1, <2>2
<1>10. g = [t \in 0 .. end |-> C(g, t)]
  <2>1. g = [t \in 0 .. end |-> g[t]] BY <1>3
  <2> QED BY <1>9, <2>1
<1>11. IsShaping(g, x, fs, n, f, from, end) BY <1>10 DEF IsShaping, C, NothingShaped
<1>12. F = CHOOSE h : IsShaping(h, x, fs, n, f, from, end) BY DEF Shaping, IsShaping
<1>13. IsShaping(F, x, fs, n, f, from, end) BY <1>11, <1>12
<1> HIDE DEF F
<1>14. F = [t \in 0 .. end |-> C(F, t)] BY <1>13 DEF IsShaping, C, NothingShaped
<1>15. \A t \in 0 .. end : F[t] = C(F, t) BY <1>14, Zenon
<1>16. F[0] = a
  <2>1. 0 \in 0 .. end BY <1>0
  <2> QED BY <1>8, <1>15, <2>1
<1>17. ASSUME NEW t \in 1 .. end PROVE F[t] = St(F[t - 1], t)
  <2>1. t \in 0 .. end OBVIOUS
  <2> QED BY <1>7, <1>15, <2>1
<1>18. \A t \in 0 .. end : F[t] \in S
  <2> DEFINE T == {t \in 0 .. end : F[t] \in S}
  <2>1. 0 \in T BY <1>0, <1>2, <1>16
  <2>2. ASSUME NEW t \in 0 .. end - 1, t \in T PROVE t + 1 \in T
    <3>1. t + 1 \in 1 .. end /\ t + 1 \in 0 .. end /\ (t + 1) - 1 = t BY <1>0
    <3>2. F[t + 1] = St(F[t], t + 1) BY <1>17, <3>1
    <3>3. F[t] \in S BY <2>2
    <3>4. St(F[t], t + 1) \in S BY <3>1, <3>3, <1>t
    <3> QED BY <3>1, <3>2, <3>4
  <2>3. \A t \in 0 .. end : t \in T
    <3> HIDE DEF T
    <3> QED BY <1>0, <2>1, <2>2, Induct
  <2> QED BY <2>3
<1> QED BY <1>16, <1>17, <1>18 DEF F, St, a

\* What one font draws of each part, and its fallbacks of what it lacks.
ShapeRange(x, fs, n, f, from, end) == Shaping(x, fs, n, f, from, end)[end].glyphs
ShapeWith(x, fs, n, f) == [r \in Ranges(x) |-> ShapeRange(x, fs, n, f, r[1], r[2])]
NoGlyphs(x) == [r \in Ranges(x) |-> <<>>]

\* One more font draws glyphs for every part.
LEMMA ShapeWithIs ==
  ASSUME NEW x, IsText(x), NEW fs, NEW n \in Nat, IsFont(fs[n]), NEW f \in Draws(x)
  PROVE  /\ ShapeWith(x, fs, n, f) \in Draws(x)
         /\ \A from, end \in 0 .. Len(x) :
              ShapeWith(x, fs, n, f)[<<from, end>>] = ShapeRange(x, fs, n, f, from, end)
<1>1. ASSUME NEW from \in 0 .. Len(x), NEW end \in 0 .. Len(x)
      PROVE  ShapeRange(x, fs, n, f, from, end) \in Seq(Drawn)
  <2>1. end \in 0 .. end BY CharsAre
  <2>2. Shaping(x, fs, n, f, from, end)[end] \in ShapeAccs(x) BY <2>1, ShapingSteps
  <2> QED BY <2>2 DEF ShapeRange, ShapeAccs
<1>2. ASSUME NEW r \in Ranges(x) PROVE ShapeRange(x, fs, n, f, r[1], r[2]) \in Seq(Drawn)
  <2>1. r[1] \in 0 .. Len(x) /\ r[2] \in 0 .. Len(x) BY DEF Ranges
  <2> QED BY <1>1, <2>1
<1>3. ASSUME NEW from \in 0 .. Len(x), NEW end \in 0 .. Len(x)
      PROVE  ShapeWith(x, fs, n, f)[<<from, end>>] = ShapeRange(x, fs, n, f, from, end)
  <2>1. <<from, end>> \in Ranges(x) BY DEF Ranges
  <2> QED BY <2>1 DEF ShapeWith
<1> QED BY <1>2, <1>3 DEF ShapeWith, Draws

\* The fonts one after the other, from the last back.
IsShaped(f, x, fs) ==
  f = [k \in 0 .. Len(fs) |->
        [r \in Ranges(x) |->
           IF k = 0 THEN <<>>
           ELSE Shaping(x, fs, Len(fs) + 1 - k, f[k - 1], r[1], r[2])[r[2]].glyphs]]

\* Shaped is that function.
LEMMA ShapedSteps ==
  ASSUME NEW x, IsText(x), NEW fs, AreFonts(fs)
  PROVE  LET F == Shaped(x, fs)
         IN  /\ F[0] = NoGlyphs(x)
             /\ \A k \in 0 .. Len(fs) : F[k] \in Draws(x)
             /\ \A k \in 1 .. Len(fs) : F[k] = ShapeWith(x, fs, Len(fs) + 1 - k, F[k - 1])
<1> DEFINE a == NoGlyphs(x)
           S == Draws(x)
           N == Len(fs)
           St(f, k) == ShapeWith(x, fs, N + 1 - k, f)
           G == [p \in (1 .. N) \X S |-> St(p[2], p[1])]
           F == Shaped(x, fs)
<1>0. N \in Nat /\ DOMAIN fs = 1 .. N /\ \A k \in 1 .. N : IsFont(fs[N + 1 - k]) /\ N + 1 - k \in Nat
  <2>1. N \in Nat /\ DOMAIN fs = 1 .. N BY FontsAre
  <2>2. ASSUME NEW k \in 1 .. N PROVE IsFont(fs[N + 1 - k]) /\ N + 1 - k \in Nat
    <3>1. N + 1 - k \in 1 .. N BY <2>1
    <3> QED BY <2>1, <3>1, FontsAre DEF FontAt
  <2> QED BY <2>1, <2>2
<1>t. \A k \in 1 .. N : \A f \in S : St(f, k) \in S BY <1>0, ShapeWithIs
<1>1. G \in [(1 .. N) \X S -> S]
  <2> SUFFICES ASSUME NEW p \in (1 .. N) \X S PROVE St(p[2], p[1]) \in S OBVIOUS
  <2>1. p[1] \in 1 .. N /\ p[2] \in S OBVIOUS
  <2> HIDE DEF St
  <2> QED BY <2>1, <1>t
<1>2. a \in S BY NothingDrawn DEF NoGlyphs, Draws
<1>3. PICK f \in [0 .. N -> S] : Iterates(f, N, a, G)
  <2> HIDE DEF G, S, a, N
  <2> QED BY <1>0, <1>1, <1>2, Recursion
<1>4. \A k \in 0 .. N : f[k] = IF k = 0 THEN a ELSE G[<<k, f[k - 1]>>]
  <2> HIDE DEF G
  <2> QED BY <1>3 DEF Iterates
<1>5. ASSUME NEW k \in 1 .. N PROVE f[k] = St(f[k - 1], k)
  <2>1. k \in 0 .. N /\ k - 1 \in 0 .. N /\ k # 0 OBVIOUS
  <2>2. f[k - 1] \in S BY <1>3, <2>1
  <2>3. <<k, f[k - 1]>> \in (1 .. N) \X S BY <2>2
  <2>4. f[k] = G[<<k, f[k - 1]>>] BY <1>4, <2>1
  <2> QED BY <2>3, <2>4
<1> HIDE DEF G
<1>6. f[0] = a
  <2>1. 0 \in 0 .. N BY <1>0
  <2> QED BY <1>4, <2>1
<1> DEFINE C(g, k) == [r \in Ranges(x) |->
                         IF k = 0 THEN <<>>
                         ELSE Shaping(x, fs, N + 1 - k, g[k - 1], r[1], r[2])[r[2]].glyphs]
<1>7. \A g : \A k \in 1 .. N : C(g, k) = St(g[k - 1], k)
  <2> TAKE g
  <2> TAKE k \in 1 .. N
  <2>1. k # 0 OBVIOUS
  <2> QED BY <2>1 DEF ShapeWith, ShapeRange
<1>8. \A g : C(g, 0) = a BY DEF NoGlyphs
<1> HIDE DEF C, St, a
<1>9. \A k \in 0 .. N : f[k] = C(f, k)
  <2> TAKE k \in 0 .. N
  <2>1. CASE k = 0 BY <1>6, <1>8, <2>1
  <2>2. CASE k # 0
    <3>1. k \in 1 .. N BY <2>2
    <3> QED BY <1>5, <1>7, <3>1
  <2> QED BY <2>1, <2>2
<1>10. f = [k \in 0 .. N |-> C(f, k)]
  <2>1. f = [k \in 0 .. N |-> f[k]] BY <1>3
  <2> QED BY <1>9, <2>1
<1>11. IsShaped(f, x, fs) BY <1>10 DEF IsShaped, C
<1>12. F = CHOOSE g : IsShaped(g, x, fs) BY DEF Shaped, IsShaped
<1>13. IsShaped(F, x, fs) BY <1>11, <1>12
<1> HIDE DEF F
<1>14. F = [k \in 0 .. N |-> C(F, k)] BY <1>13 DEF IsShaped, C
<1>15. \A k \in 0 .. N : F[k] = C(F, k) BY <1>14, Zenon
<1>16. F[0] = a
  <2>1. 0 \in 0 .. N BY <1>0
  <2> QED BY <1>8, <1>15, <2>1
<1>17. ASSUME NEW k \in 1 .. N PROVE F[k] = St(F[k - 1], k)
  <2>1. k \in 0 .. N OBVIOUS
  <2> QED BY <1>7, <1>15, <2>1
<1>18. \A k \in 0 .. N : F[k] \in S
  <2> DEFINE T == {k \in 0 .. N : F[k] \in S}
  <2>1. 0 \in T BY <1>0, <1>2, <1>16
  <2>2. ASSUME NEW k \in 0 .. N - 1, k \in T PROVE k + 1 \in T
    <3>1. k + 1 \in 1 .. N /\ k + 1 \in 0 .. N /\ (k + 1) - 1 = k BY <1>0
    <3>2. F[k + 1] = St(F[k], k + 1) BY <1>17, <3>1
    <3>3. F[k] \in S BY <2>2
    <3>4. St(F[k], k + 1) \in S BY <3>1, <3>3, <1>t
    <3> QED BY <3>1, <3>2, <3>4
  <2>3. \A k \in 0 .. N : k \in T
    <3> HIDE DEF T, N
    <3> QED BY <1>0, <2>1, <2>2, Induct
  <2> QED BY <2>3
<1> QED BY <1>16, <1>17, <1>18 DEF F, St, a

\* What the fonts from n on draw of parts of a segment is as wide as the
\* clusters in their fonts.
Drawing(x, fs, n, f) ==
  /\ f \in Draws(x)
  /\ n # Len(fs) + 1 =>
       \A p, q \in 0 .. Len(x) :
         WholeRange(x, p, q) => DrawnWidth(f[<<p, q>>]) = WidthOf(Best(x, fs, n), Len(x), p, q)

\* The clusters up to acc.next, which is the next to draw, are drawn.
Shapes(x, fs, n, acc, from, end, t) ==
  /\ acc \in ShapeAccs(x) /\ acc.next \in t .. end /\ acc.next \in Cuts(x)
  /\ DrawnWidth(acc.glyphs) = WidthOf(Best(x, fs, n), Len(x), from, acc.next)

\* The turn at the next cluster to draw draws it, and what else the font lacks.
LEMMA ClusterShapes ==
  ASSUME NEW x, IsText(x), NEW fs, AreFonts(fs), NEW n \in DOMAIN fs, NEW f,
         Drawing(x, fs, n + 1, f), NEW from, NEW end, WholeRange(x, from, end),
         NEW j \in from .. end - 1, NEW acc, Shapes(x, fs, n, acc, from, end, j), acc.next = j
  PROVE  Shapes(x, fs, n, ShapeCluster(acc, x, fs, n, f, j, end), from, end, j + 1)
<1> DEFINE L == Len(x)
           B == Best(x, fs, n)
           next  == ClusterEnd(x, j, end)
           whole == NextWhole(x, fs, n, j, end)
           new   == ShapeCluster(acc, x, fs, n, f, j, end)
           own   == ClusterGlyphs(x, fs, n, j, next)
           more  == f[<<j, whole>>]
<1>1. /\ L \in Nat /\ from \in Nat /\ end \in Nat /\ from \in 0 .. L - 1 /\ end \in 0 .. L
      /\ from <= j /\ j < end /\ j \in Nat /\ j \in Chars(x) /\ end \in j + 1 .. L
      /\ f \in Draws(x) /\ acc \in ShapeAccs(x) /\ j \in Cuts(x) /\ end \in Cuts(x)
      /\ Chars(x) = 0 .. L - 1
  BY CharsAre DEF WholeRange, Drawing, Shapes
<1>n. n \in Nat /\ n \in 1 .. Len(fs) /\ Len(fs) \in Nat /\ IsFont(fs[n])
  BY FontsAre DEF FontAt
<1>2. ~IsTail(x, j)
  <2>1. j # L BY <1>1
  <2> QED BY <1>1, <2>1 DEF Cuts
<1>3. /\ new \in ShapeAccs(x) /\ acc.glyphs \in Seq(Drawn) /\ more \in Seq(Drawn)
      /\ Lacks(x, fs, n, j, end) => new.glyphs = acc.glyphs \o more /\ new.next = whole
      /\ ~Lacks(x, fs, n, j, end) => new.glyphs = acc.glyphs \o own /\ new.next = next
  <2>1. /\ n \in Nat /\ IsFont(fs[n]) /\ f \in Draws(x) /\ j \in Chars(x)
        /\ end \in j + 1 .. Len(x) /\ acc \in ShapeAccs(x)
    BY <1>1, <1>n
  <2>2. ClusterIsShaped(acc, x, fs, n, f, j, end)
    <3> HIDE DEF next, whole, new, own, more
    <3> QED BY <2>1, ShapeClusterIs
  <2> QED BY <2>2 DEF ClusterIsShaped
<1>4. /\ next = After(x, j) /\ next \in j + 1 .. end /\ next \in Cuts(x)
      /\ \A t \in j + 1 .. next - 1 : IsTail(x, t)
  BY InWhole
<1>5. DrawnWidth(acc.glyphs) = WidthOf(B, L, from, j) BY DEF Shapes
<1>6. HasWidths(B, L) /\ \A s \in Chars(x) : B[s].width = BestAt(x, fs, n, s) BY BestIsWidth
<1>7. \A s \in from .. end - 1 :
        s \in Chars(x) /\ (~IsTail(x, s) => (HasNotdef(x, fs[n], s, end) <=> n \notin Has(x, fs, s)))
  <2> TAKE s \in from .. end - 1
  <2>1. s \in Chars(x) BY <1>1
  <2> QED BY <2>1, ClusterIsOwn
<1> HIDE DEF new, L
<1>8. CASE ~Lacks(x, fs, n, j, end)
  <2>1. new.glyphs = acc.glyphs \o own /\ new.next = next BY <1>3, <1>8
  <2>2. own \in Seq(Drawn) /\ DrawnWidth(own) = WidthOf(Glyphs(x, fs[n]), L, j, next)
    <3>1. next \in j + 1 .. Len(x) BY <1>1, <1>4 DEF L
    <3> HIDE DEF next, own
    <3>2. n \in Nat /\ IsFont(fs[n]) /\ j \in Chars(x) BY <1>1, <1>n
    <3>3. LET s == ClusterGlyphs(x, fs, n, j, next)
          IN  s \in Seq(Drawn) /\ DrawnWidth(s) = WidthOf(Glyphs(x, fs[n]), Len(x), j, next)
      BY ONLY <3>1, <3>2, IsText(x), ClusterIsDrawn
    <3> QED BY <3>3 DEF L, own
  <2>3. n = Len(fs) \/ n \in Has(x, fs, j)
    <3>1. CASE n < Len(fs)
      <4>1. ~HasNotdef(x, fs[n], j, end) BY <1>8, <3>1 DEF Lacks
      <4> QED BY <1>2, <1>7, <4>1
    <3>2. CASE ~(n < Len(fs)) BY <1>n, <3>2
    <3> QED BY <3>1, <3>2
  <2>4. BestAt(x, fs, n, j) = WidthOf(Glyphs(x, fs[n]), L, j, next)
    <3>1. BestAt(x, fs, n, j) = Own(x, fs[n], j) BY <2>3, BestOfOwn
    <3> QED BY <1>2, <1>4, <3>1 DEF Own, L
  <2> HIDE DEF B, next, own
  <2>5. WidthOf(B, L, from, next) = WidthOf(B, L, from, j) + BestAt(x, fs, n, j)
    <3>1. WidthOf(B, L, from, j + 1) = WidthOf(B, L, from, j) + B[j].width
      <4>1. from \in 0 .. L /\ j \in 0 .. L - 1 BY <1>1
      <4> QED BY <1>1, <1>6, <4>1, WidthOfFacts
    <3>2. WidthOf(B, L, j + 1, next) = 0
      <4>1. j + 1 \in 0 .. L /\ next \in j + 1 .. L BY <1>1, <1>4
      <4>2. \A k \in j + 1 .. next - 1 : B[k].width = 0
        <5> TAKE k \in j + 1 .. next - 1
        <5>1. k \in Chars(x) /\ IsTail(x, k) BY <1>1, <1>4
        <5> QED BY <1>6, <5>1 DEF BestAt, Own
      <4> QED BY <1>1, <1>6, <4>1, <4>2, NoWidth
    <3>3. WidthOf(B, L, from, next) = WidthOf(B, L, from, j + 1) + WidthOf(B, L, j + 1, next)
      <4>1. from \in 0 .. L /\ j + 1 \in 0 .. L /\ next \in 0 .. L BY <1>1, <1>4
      <4> QED BY <1>1, <1>6, <4>1, WidthOfFacts
    <3>4. WidthOf(B, L, from, j) \in Int /\ BestAt(x, fs, n, j) \in Nat
      <4>1. from \in 0 .. L /\ j \in 0 .. L BY <1>1
      <4>2. WidthOf(B, L, from, j) \in Int BY <1>1, <1>6, <4>1, WidthOfFacts
      <4> QED BY <1>1, <4>2, BestIsWidth
    <3>5. B[j].width = BestAt(x, fs, n, j) BY <1>1, <1>6
    <3> QED BY <3>1, <3>2, <3>3, <3>4, <3>5
  <2>6. DrawnWidth(acc.glyphs \o own) = DrawnWidth(acc.glyphs) + DrawnWidth(own)
    BY <1>3, <2>2, DrawnAdds
  <2>7. DrawnWidth(new.glyphs) = WidthOf(B, L, from, next)
    BY <1>5, <2>1, <2>2, <2>4, <2>5, <2>6
  <2>8. Shapes(x, fs, n, new, from, end, j + 1) BY <1>3, <1>4, <2>1, <2>7 DEF Shapes, B, L
  <2> QED BY <2>8 DEF new
<1>9. CASE Lacks(x, fs, n, j, end)
  <2>1. new.glyphs = acc.glyphs \o more /\ new.next = whole BY <1>3, <1>9
  <2>2. /\ whole \in next .. end
        /\ whole = end \/ (~IsMark(x, whole) /\ ~Lacks(x, fs, n, whole, end))
        /\ \A t \in next .. whole - 1 : IsMark(x, t) \/ Lacks(x, fs, n, t, end)
    BY <1>1, NextWholeIs DEF L
  <2>l. n < Len(fs) /\ n # Len(fs) BY <1>9, <1>n DEF Lacks
  <2> HIDE DEF B, next, own, more, whole
  <2>3. whole \in j + 1 .. end /\ whole \in Cuts(x)
    <3>1. whole \in j + 1 .. end BY <1>1, <1>4, <2>2
    <3>2. CASE whole = end BY <1>1, <3>1, <3>2
    <3>3. CASE whole # end
      <4>1. ~IsMark(x, whole) /\ whole \in 0 .. L BY <1>1, <2>2, <3>1, <3>3
      <4> QED BY <3>1, <4>1 DEF Cuts, IsTail, L
    <3> QED BY <3>2, <3>3
  <2>4. \A s \in j .. whole - 1 : BestAt(x, fs, n, s) = BestAt(x, fs, n + 1, s)
    <3> TAKE s \in j .. whole - 1
    <3>1. s \in from .. end - 1 BY <1>1, <2>3
    <3>2. CASE IsTail(x, s) BY <2>l, <3>2, BestOfOwn
    <3>3. CASE ~IsTail(x, s)
      <4>1. Lacks(x, fs, n, s, end)
        <5>1. CASE s = j BY <1>9, <5>1
        <5>2. CASE s # j /\ s < next
          <6>1. s \in j + 1 .. next - 1 BY <1>1, <1>4, <5>2
          <6> QED BY <1>4, <3>3, <6>1
        <5>3. CASE ~(s < next)
          <6>1. s \in next .. whole - 1 BY <1>1, <1>4, <2>3, <5>3
          <6>2. ~IsMark(x, s)
            <7>1. s > from BY <1>1, <1>4, <5>3
            <7>2. (s > from /\ IsMark(x, s)) <=> IsTail(x, s) BY <3>1, InWhole
            <7> QED BY <3>3, <7>1, <7>2
          <6> QED BY <2>2, <6>1, <6>2
        <5> QED BY <5>1, <5>2, <5>3
      <4>2. HasNotdef(x, fs[n], s, end) BY <4>1 DEF Lacks
      <4>3. n \notin Has(x, fs, s) BY <1>7, <3>1, <3>3, <4>2
      <4> QED BY <2>l, <4>3, BestOfOwn
    <3> QED BY <3>2, <3>3
  <2>5. WholeRange(x, j, whole)
    <3>1. j \in from .. end - 1 BY <1>1
    <3> QED BY <1>1, <2>3, <3>1, PartOfWhole
  <2>6. n + 1 \in DOMAIN fs /\ n + 1 # Len(fs) + 1
    <3>1. n + 1 \in 1 .. Len(fs) /\ n + 1 # Len(fs) + 1 BY <1>n, <2>l
    <3> QED BY <3>1, FontsAre
  <2>7. DrawnWidth(more) = WidthOf(Best(x, fs, n + 1), L, j, whole)
    <3>1. j \in 0 .. Len(x) /\ whole \in 0 .. Len(x) BY <1>1, <2>3 DEF L
    <3> QED BY <2>5, <2>6, <3>1 DEF Drawing, more, L
  <2>8. WidthOf(Best(x, fs, n + 1), L, j, whole) = WidthOf(B, L, j, whole)
    <3> DEFINE I == Best(x, fs, n + 1)
    <3>1. HasWidths(I, L) /\ \A s \in Chars(x) : I[s].width = BestAt(x, fs, n + 1, s)
      BY <2>6, BestIsWidth DEF L
    <3>2. j \in 0 .. L /\ whole \in j .. L BY <1>1, <2>3
    <3> HIDE DEF I
    <3>3. \A k \in j .. whole - 1 : I[k].width = B[k].width
      <4> TAKE k \in j .. whole - 1
      <4>1. k \in Chars(x) BY <1>1, <2>3
      <4> QED BY <1>6, <2>4, <3>1, <4>1
    <3>4. WidthOf(I, L, j, whole) = WidthOf(B, L, j, whole)
      BY <1>1, <1>6, <3>1, <3>2, <3>3, SameWidth
    <3> QED BY <3>4 DEF I
  <2>9. WidthOf(B, L, from, whole) = WidthOf(B, L, from, j) + WidthOf(B, L, j, whole)
    <3>1. from \in 0 .. L /\ j \in 0 .. L /\ whole \in 0 .. L BY <1>1, <2>3
    <3> QED BY <1>1, <1>6, <3>1, WidthOfFacts
  <2>10. DrawnWidth(acc.glyphs \o more) = DrawnWidth(acc.glyphs) + DrawnWidth(more)
    BY <1>3, DrawnAdds
  <2>11. DrawnWidth(new.glyphs) = WidthOf(B, L, from, whole)
    BY <1>5, <2>1, <2>7, <2>8, <2>9, <2>10
  <2>12. Shapes(x, fs, n, new, from, end, j + 1)
    BY <1>3, <2>1, <2>3, <2>11 DEF Shapes, B, L
  <2> QED BY <2>12 DEF new
<1> QED BY <1>8, <1>9

\* The loop over a part, with a fallback font that draws what is passed to it.
LEMMA RangeDraws ==
  ASSUME NEW x, IsText(x), NEW fs, AreFonts(fs), NEW n \in DOMAIN fs, NEW f,
         Drawing(x, fs, n + 1, f), NEW from, NEW end, WholeRange(x, from, end)
  PROVE  DrawnWidth(ShapeRange(x, fs, n, f, from, end)) = WidthOf(Best(x, fs, n), Len(x), from, end)
<1> DEFINE F == Shaping(x, fs, n, f, from, end)
           Good(t) == t >= from => Shapes(x, fs, n, F[t], from, end, t)
           T == {t \in 0 .. end : Good(t)}
           L == Len(x)
<1>1. /\ L \in Nat /\ from \in Nat /\ end \in Nat /\ from \in 0 .. L - 1 /\ end \in 0 .. L
      /\ from < end /\ f \in Draws(x) /\ from \in 0 .. L /\ from \in Cuts(x)
  BY CharsAre DEF WholeRange, Drawing
<1>n. n \in Nat /\ IsFont(fs[n])
  <2>1. n \in 1 .. Len(fs) /\ Len(fs) \in Nat BY FontsAre
  <2> QED BY <2>1, FontsAre DEF FontAt
<1>2. /\ F[0] = NothingShaped(from)
      /\ \A t \in 0 .. end : F[t] \in ShapeAccs(x)
      /\ \A t \in 1 .. end : F[t] = ShapeStep(F[t - 1], x, fs, n, f, from, end, t)
  BY <1>1, <1>n, ShapingSteps
<1> HIDE DEF F
<1>3. Shapes(x, fs, n, NothingShaped(from), from, end, from)
  <2> DEFINE none == NothingShaped(from)
             B == Best(x, fs, n)
  <2>1. none.glyphs = <<>> /\ none.next = from BY DEF NothingShaped
  <2>2. none \in ShapeAccs(x) BY <1>1, NothingDrawn DEF NothingShaped, ShapeAccs
  <2>3. WidthOf(B, L, from, from) = 0
    <3>1. HasWidths(B, L) BY BestIsWidth
    <3> HIDE DEF B
    <3> QED BY <1>1, <3>1, WidthOfFacts
  <2>4. from \in from .. end BY <1>1
  <2> HIDE DEF none
  <2>5. Shapes(x, fs, n, none, from, end, from)
    BY <1>1, <2>1, <2>2, <2>3, <2>4, NothingDrawn DEF Shapes
  <2> QED BY <2>5 DEF none
<1>4. 0 \in T
  <2>1. 0 >= from => from = 0 BY <1>1
  <2>2. Good(0) BY <1>2, <1>3, <2>1
  <2> QED BY <1>1, <2>2
<1>5. ASSUME NEW t \in 0 .. end - 1, t \in T PROVE t + 1 \in T
  <2>1. /\ t + 1 \in 1 .. end /\ (t + 1) - 1 = t /\ t + 1 \in 0 .. end /\ F[t] \in ShapeAccs(x)
        /\ t \in Nat
    BY <1>1, <1>2
  <2>2. F[t + 1] = ShapeStep(F[t], x, fs, n, f, from, end, t + 1) BY <1>2, <2>1
  <2>3. /\ t + 1 <= from => F[t + 1] = NothingShaped(from)
        /\ t + 1 > from /\ F[t].next # t => F[t + 1] = F[t]
        /\ t + 1 > from /\ F[t].next = t => F[t + 1] = ShapeCluster(F[t], x, fs, n, f, t, end)
    <3> DEFINE u == t + 1
               a == F[t]
    <3>1. u \in 1 .. end /\ u - 1 = t /\ a \in ShapeAccs(x) BY <2>1
    <3> HIDE DEF u, a
    <3>2. LET new == ShapeStep(a, x, fs, n, f, from, end, u)
          IN  /\ u <= from => new = NothingShaped(from)
              /\ u > from /\ a.next # u - 1 => new = a
              /\ u > from /\ a.next = u - 1 => new = ShapeCluster(a, x, fs, n, f, u - 1, end)
      BY <1>1, <1>n, <3>1, ShapeStepIs
    <3> QED BY <2>2, <3>1, <3>2 DEF u, a
  <2>4. CASE t < from
    <3>1. t + 1 <= from BY <1>1, <2>1, <2>4
    <3>2. t + 1 >= from => t + 1 = from BY <1>1, <2>1, <2>4
    <3>3. Good(t + 1) BY <1>3, <2>3, <3>1, <3>2
    <3> QED BY <2>1, <3>3
  <2>5. CASE ~(t < from)
    <3>1. t >= from /\ t \in from .. end - 1 /\ t + 1 > from BY <1>1, <2>1, <2>5
    <3>2. Shapes(x, fs, n, F[t], from, end, t) BY <1>5, <3>1
    <3>3. Shapes(x, fs, n, F[t + 1], from, end, t + 1)
      <4>1. CASE F[t].next = t
        <5>1. F[t + 1] = ShapeCluster(F[t], x, fs, n, f, t, end) BY <2>3, <3>1, <4>1
        <5>2. Shapes(x, fs, n, ShapeCluster(F[t], x, fs, n, f, t, end), from, end, t + 1)
          BY <3>1, <3>2, <4>1, ClusterShapes
        <5> QED BY <5>1, <5>2
      <4>2. CASE F[t].next # t
        <5>1. F[t + 1] = F[t] BY <2>3, <3>1, <4>2
        <5>2. F[t].next \in t + 1 .. end BY <1>1, <2>1, <3>2, <4>2 DEF Shapes
        <5> QED BY <3>2, <5>1, <5>2 DEF Shapes
      <4> QED BY <4>1, <4>2
    <3>4. Good(t + 1) BY <3>3
    <3> QED BY <2>1, <3>4
  <2> QED BY <2>4, <2>5
<1>6. \A t \in 0 .. end : t \in T
  <2> HIDE DEF T
  <2> QED BY <1>1, <1>4, <1>5, Induct
<1>7. Shapes(x, fs, n, F[end], from, end, end)
  <2>1. end \in T /\ end >= from BY <1>1, <1>6
  <2> QED BY <2>1
<1>8. F[end].next = end
  <2>1. F[end].next \in end .. end BY <1>7 DEF Shapes
  <2> QED BY <1>1, <2>1
<1>9. DrawnWidth(F[end].glyphs) = WidthOf(Best(x, fs, n), L, from, end)
  BY <1>7, <1>8 DEF Shapes
<1> QED BY <1>9 DEF ShapeRange, F

\* So it is with any number of fonts.
LEMMA FontsDraw ==
  ASSUME NEW x, IsText(x), NEW fs, AreFonts(fs)
  PROVE  \A k \in 0 .. Len(fs) : Drawing(x, fs, (Len(fs) + 1) - k, Shaped(x, fs)[k])
<1> DEFINE N == Len(fs)
           F == Shaped(x, fs)
           T == {k \in 0 .. N : Drawing(x, fs, (N + 1) - k, F[k])}
<1>1. N \in Nat /\ DOMAIN fs = 1 .. N BY FontsAre
<1>2. /\ F[0] = NoGlyphs(x)
      /\ \A k \in 0 .. N : F[k] \in Draws(x)
      /\ \A k \in 1 .. N : F[k] = ShapeWith(x, fs, N + 1 - k, F[k - 1])
  BY ShapedSteps
<1> HIDE DEF F, N
<1>3. 0 \in T
  <2>1. 0 \in 0 .. N /\ (N + 1) - 0 = N + 1 BY <1>1
  <2> QED BY <1>2, <2>1 DEF Drawing, N
<1>4. ASSUME NEW k \in 0 .. N - 1, k \in T PROVE k + 1 \in T
  <2> DEFINE n == N - k
             f == F[k]
  <2>1. /\ n \in 1 .. N /\ n + 1 = (N + 1) - k /\ (N + 1) - (k + 1) = n /\ (k + 1) - 1 = k
        /\ k + 1 \in 1 .. N /\ k + 1 \in 0 .. N /\ N + 1 - (k + 1) = n /\ k \in 0 .. N /\ n \in Nat
    BY <1>1
  <2>2. Drawing(x, fs, n + 1, f) BY <1>4, <2>1
  <2>3. F[k + 1] = ShapeWith(x, fs, n, f) BY <1>2, <2>1
  <2>4. f \in Draws(x) /\ F[k + 1] \in Draws(x) /\ IsFont(fs[n])
    <3>1. IsFont(fs[n]) BY <1>1, <2>1, FontsAre DEF FontAt
    <3> QED BY <1>2, <2>1, <3>1
  <2> HIDE DEF n, f
  <2>5. ASSUME NEW p \in 0 .. Len(x), NEW q \in 0 .. Len(x), WholeRange(x, p, q)
        PROVE  DrawnWidth(F[k + 1][<<p, q>>]) = WidthOf(Best(x, fs, n), Len(x), p, q)
    <3>1. ShapeWith(x, fs, n, f)[<<p, q>>] = ShapeRange(x, fs, n, f, p, q)
      BY <2>1, <2>4, ShapeWithIs
    <3>2. DrawnWidth(ShapeRange(x, fs, n, f, p, q)) = WidthOf(Best(x, fs, n), Len(x), p, q)
      BY <1>1, <2>1, <2>2, <2>5, RangeDraws
    <3> QED BY <2>3, <3>1, <3>2
  <2>6. Drawing(x, fs, n, F[k + 1]) BY <2>4, <2>5 DEF Drawing
  <2> QED BY <2>1, <2>6
<1>5. \A k \in 0 .. N : k \in T
  <2> HIDE DEF T
  <2> QED BY <1>1, <1>3, <1>4, Induct
<1> QED BY <1>5 DEF F, N

\* shapeSegment draws a segment's part as wide as its clusters in their fonts.
LEMMA SegmentIsDrawn ==
  ASSUME NEW x, IsText(x), NEW fs, AreFonts(fs)
  PROVE  /\ \A from, end \in 0 .. Len(x) : shapeSegment(x, fs, from, end) \in Seq(Drawn)
         /\ \A from, end : WholeRange(x, from, end) =>
              DrawnWidth(shapeSegment(x, fs, from, end)) = WidthOf(Best(x, fs, 1), Len(x), from, end)
<1> DEFINE N == Len(fs)
<1>1. N \in Nat /\ DOMAIN fs = 1 .. N /\ N # 0 BY DEF AreFonts
<1>2. N \in 0 .. N /\ (N + 1) - N = 1 /\ 1 # N + 1 BY <1>1
<1>3. Drawing(x, fs, 1, Shaped(x, fs)[N]) BY <1>2, FontsDraw
<1>4. Shaped(x, fs)[N] \in Draws(x) BY <1>3 DEF Drawing
<1>5. ASSUME NEW from \in 0 .. Len(x), NEW end \in 0 .. Len(x)
      PROVE  shapeSegment(x, fs, from, end) \in Seq(Drawn)
  <2>1. <<from, end>> \in Ranges(x) BY DEF Ranges
  <2> QED BY <1>4, <2>1 DEF shapeSegment, Draws
<1>6. ASSUME NEW from, NEW end, WholeRange(x, from, end)
      PROVE  DrawnWidth(shapeSegment(x, fs, from, end)) = WidthOf(Best(x, fs, 1), Len(x), from, end)
  <2>1. from \in 0 .. Len(x) /\ end \in 0 .. Len(x) BY <1>6, CharsAre DEF WholeRange
  <2> QED BY <1>2, <1>3, <1>6, <2>1 DEF Drawing, shapeSegment
<1> QED BY <1>5, <1>6

-----------------------------------------------------------------------------
(* shapeLine draws a line's clusters in their fonts, a segment at a time.  *)

\* What shapeLine's loop over the segments keeps.
LineAccs(x) == [glyphs : Seq(Drawn), start : 0 .. Len(x)]
NoLine(from) == [glyphs |-> <<>>, start |-> from]
SplitsAt(info, u, end) == u = end \/ "SCRIPT_CHANGE" \in info[u].flags

\* One turn of that loop, and what it comes to.
LineStep(acc, x, fs, info, from, end, u) ==
  CASE u <= from -> NoLine(from)
    [] u > from /\ SplitsAt(info, u, end) ->
         [glyphs |-> acc.glyphs \o shapeSegment(x, fs, acc.start, u), start |-> u]
    [] OTHER -> acc

LineIsStepped(new, acc, x, fs, info, from, end, u) ==
  /\ new \in LineAccs(x)
  /\ u <= from => new = NoLine(from)
  /\ (u > from /\ ~SplitsAt(info, u, end)) => new = acc
  /\ (u > from /\ SplitsAt(info, u, end)) =>
       /\ new.glyphs = acc.glyphs \o shapeSegment(x, fs, acc.start, u)
       /\ new.start = u

\* One turn takes one of the two cases.
LEMMA LineStepIs ==
  ASSUME NEW x, IsText(x), NEW fs, AreFonts(fs), NEW info, NEW from \in 0 .. Len(x),
         NEW end \in 0 .. Len(x), NEW u \in 1 .. end, NEW acc \in LineAccs(x)
  PROVE  LineIsStepped(LineStep(acc, x, fs, info, from, end, u), acc, x, fs, info, from, end, u)
<1> DEFINE new == LineStep(acc, x, fs, info, from, end, u)
           more == shapeSegment(x, fs, acc.start, u)
<1>0. u \in Nat /\ u \in 0 .. Len(x) /\ from \in Nat BY CharsAre
<1>1. CASE u <= from
  <2>1. ~(u > from) BY <1>0, <1>1
  <2>2. new = NoLine(from) BY <1>1, <2>1 DEF LineStep
  <2>3. NoLine(from) \in LineAccs(x) BY NothingDrawn DEF NoLine, LineAccs
  <2> HIDE DEF new
  <2>4. LineIsStepped(new, acc, x, fs, info, from, end, u)
    BY <1>1, <2>1, <2>2, <2>3 DEF LineIsStepped
  <2> QED BY <2>4 DEF new
<1>2. CASE ~(u <= from) /\ ~SplitsAt(info, u, end)
  <2>1. u > from BY <1>0, <1>2
  <2>2. new = acc BY <1>2, <2>1 DEF LineStep
  <2> HIDE DEF new
  <2>3. LineIsStepped(new, acc, x, fs, info, from, end, u)
    BY <1>2, <2>1, <2>2 DEF LineIsStepped
  <2> QED BY <2>3 DEF new
<1>3. CASE ~(u <= from) /\ SplitsAt(info, u, end)
  <2>1. u > from BY <1>0, <1>3
  <2>2. new = [glyphs |-> acc.glyphs \o more, start |-> u] BY <1>3, <2>1 DEF LineStep
  <2>3. acc.glyphs \in Seq(Drawn) /\ acc.start \in 0 .. Len(x) BY DEF LineAccs
  <2>4. more \in Seq(Drawn) BY <1>0, <2>3, SegmentIsDrawn
  <2> HIDE DEF more, new
  <2>5. acc.glyphs \o more \in Seq(Drawn) BY <2>3, <2>4, DrawnAdds
  <2>6. new \in LineAccs(x) BY <1>0, <2>2, <2>5 DEF LineAccs
  <2>7. new.glyphs = acc.glyphs \o more /\ new.start = u BY <2>2
  <2>8. LineIsStepped(new, acc, x, fs, info, from, end, u)
    BY <1>3, <2>1, <2>6, <2>7 DEF LineIsStepped, more
  <2> QED BY <2>8 DEF new
<1> QED BY <1>1, <1>2, <1>3

\* That loop as a function of the turns done.
IsShapingLine(g, x, fs, info, from, end) ==
  g = [u \in 0 .. end |->
        CASE u <= from -> [glyphs |-> <<>>, start |-> from]
          [] u > from /\ (u = end \/ "SCRIPT_CHANGE" \in info[u].flags) ->
               [glyphs |-> g[u - 1].glyphs \o shapeSegment(x, fs, g[u - 1].start, u),
                start  |-> u]
          [] OTHER -> g[u - 1]]

\* ShapingLine is that function.
LEMMA ShapingLineSteps ==
  ASSUME NEW x, IsText(x), NEW fs, AreFonts(fs), NEW info, NEW from \in 0 .. Len(x),
         NEW end \in 0 .. Len(x)
  PROVE  LET F == ShapingLine(x, fs, info, from, end)
         IN  /\ F[0] = NoLine(from)
             /\ \A u \in 0 .. end : F[u] \in LineAccs(x)
             /\ \A u \in 1 .. end : F[u] = LineStep(F[u - 1], x, fs, info, from, end, u)
<1> DEFINE a == NoLine(from)
           S == LineAccs(x)
           St(acc, u) == LineStep(acc, x, fs, info, from, end, u)
           G == [p \in (1 .. end) \X S |-> St(p[2], p[1])]
           F == ShapingLine(x, fs, info, from, end)
<1>0. end \in Nat /\ Len(x) \in Nat /\ from \in Nat BY CharsAre
<1>t. \A u \in 1 .. end : \A acc \in S : St(acc, u) \in S BY LineStepIs DEF LineIsStepped
<1>1. G \in [(1 .. end) \X S -> S]
  <2> SUFFICES ASSUME NEW p \in (1 .. end) \X S PROVE St(p[2], p[1]) \in S OBVIOUS
  <2>1. p[1] \in 1 .. end /\ p[2] \in S OBVIOUS
  <2> HIDE DEF St
  <2> QED BY <2>1, <1>t
<1>2. a \in S BY NothingDrawn DEF NoLine, LineAccs
<1>3. PICK g \in [0 .. end -> S] : Iterates(g, end, a, G)
  <2> HIDE DEF G, S, a
  <2> QED BY <1>0, <1>1, <1>2, Recursion
<1>4. \A k \in 0 .. end : g[k] = IF k = 0 THEN a ELSE G[<<k, g[k - 1]>>]
  <2> HIDE DEF G
  <2> QED BY <1>3 DEF Iterates
<1>5. ASSUME NEW k \in 1 .. end PROVE g[k] = St(g[k - 1], k)
  <2>1. k \in 0 .. end /\ k - 1 \in 0 .. end /\ k # 0 OBVIOUS
  <2>2. g[k - 1] \in S BY <1>3, <2>1
  <2>3. <<k, g[k - 1]>> \in (1 .. end) \X S BY <2>2
  <2>4. g[k] = G[<<k, g[k - 1]>>] BY <1>4, <2>1
  <2> QED BY <2>3, <2>4
<1> HIDE DEF G
<1>6. g[0] = a
  <2>1. 0 \in 0 .. end BY <1>0
  <2> QED BY <1>4, <2>1
<1> DEFINE C(h, u) == CASE u <= from -> NoLine(from)
                        [] u > from /\ (u = end \/ "SCRIPT_CHANGE" \in info[u].flags) ->
                             [glyphs |-> h[u - 1].glyphs \o shapeSegment(x, fs, h[u - 1].start, u),
                              start  |-> u]
                        [] OTHER -> h[u - 1]
<1>7. \A h, u : C(h, u) = St(h[u - 1], u) BY DEF LineStep, SplitsAt
<1>8. \A h : C(h, 0) = a
  <2>1. 0 <= from /\ ~(0 > from) BY <1>0
  <2> QED BY <2>1 DEF a
<1> HIDE DEF C, St, a
<1>9. \A u \in 0 .. end : g[u] = C(g, u)
  <2> TAKE u \in 0 .. end
  <2>1. CASE u = 0 BY <1>6, <1>8, <2>1
  <2>2. CASE u # 0
    <3>1. u \in 1 .. end BY <2>2
    <3> QED BY <1>5, <1>7, <3>1
  <2> QED BY <2>1, <2>2
<1>10. g = [u \in 0 .. end |-> C(g, u)]
  <2>1. g = [u \in 0 .. end |-> g[u]] BY <1>3
  <2> QED BY <1>9, <2>1
<1>11. IsShapingLine(g, x, fs, info, from, end) BY <1>10 DEF IsShapingLine, C, NoLine
<1>12. F = CHOOSE h : IsShapingLine(h, x, fs, info, from, end) BY DEF ShapingLine, IsShapingLine
<1>13. IsShapingLine(F, x, fs, info, from, end) BY <1>11, <1>12
<1> HIDE DEF F
<1>14. F = [u \in 0 .. end |-> C(F, u)] BY <1>13 DEF IsShapingLine, C, NoLine
<1>15. \A u \in 0 .. end : F[u] = C(F, u) BY <1>14, Zenon
<1>16. F[0] = a
  <2>1. 0 \in 0 .. end BY <1>0
  <2> QED BY <1>8, <1>15, <2>1
<1>17. ASSUME NEW u \in 1 .. end PROVE F[u] = St(F[u - 1], u)
  <2>1. u \in 0 .. end OBVIOUS
  <2> QED BY <1>7, <1>15, <2>1
<1>18. \A u \in 0 .. end : F[u] \in S
  <2> DEFINE T == {u \in 0 .. end : F[u] \in S}
  <2>1. 0 \in T BY <1>0, <1>2, <1>16
  <2>2. ASSUME NEW u \in 0 .. end - 1, u \in T PROVE u + 1 \in T
    <3>1. u + 1 \in 1 .. end /\ u + 1 \in 0 .. end /\ (u + 1) - 1 = u BY <1>0
    <3>2. F[u + 1] = St(F[u], u + 1) BY <1>17, <3>1
    <3>3. F[u] \in S BY <2>2
    <3>4. St(F[u], u + 1) \in S BY <3>1, <3>3, <1>t
    <3> QED BY <3>1, <3>2, <3>4
  <2>3. \A u \in 0 .. end : u \in T
    <3> HIDE DEF T
    <3> QED BY <1>0, <2>1, <2>2, Induct
  <2> QED BY <2>3
<1> QED BY <1>16, <1>17, <1>18 DEF F, St, a

\* The segments of a line that end up to u are drawn.
DrawsLine(x, fs, acc, from, end, u) ==
  /\ acc \in LineAccs(x) /\ acc.start \in from .. u /\ acc.start \in Cuts(x)
  /\ \A v \in acc.start + 1 .. u : v # end /\ ~EndsSegment(x, v)
  /\ DrawnWidth(acc.glyphs) = WidthOf(Best(x, fs, 1), Len(x), from, acc.start)

\* One turn draws one more segment of the line, or none.
LEMMA LineStepDraws ==
  ASSUME NEW x, IsText(x), NEW fs, AreFonts(fs), NEW info, NEW from \in 0 .. Len(x) - 1,
         NEW end \in from + 1 .. Len(x), end \in Cuts(x),
         \A v \in from + 1 .. end - 1 : "SCRIPT_CHANGE" \in info[v].flags <=> EndsSegment(x, v),
         NEW u \in from + 1 .. end, NEW acc, DrawsLine(x, fs, acc, from, end, u - 1)
  PROVE  DrawsLine(x, fs, LineStep(acc, x, fs, info, from, end, u), from, end, u)
<1> DEFINE L == Len(x)
           B == Best(x, fs, 1)
           new == LineStep(acc, x, fs, info, from, end, u)
           p == acc.start
           more == shapeSegment(x, fs, p, u)
<1>0. /\ L \in Nat /\ from \in Nat /\ end \in Nat /\ u \in Nat /\ u \in 1 .. end /\ end \in 0 .. L
      /\ from \in 0 .. L /\ u > from /\ u \in 1 .. L /\ u \in 0 .. L
      /\ acc \in LineAccs(x) /\ p \in from .. u - 1 /\ p \in Cuts(x) /\ p \in 0 .. L
      /\ \A v \in p + 1 .. u - 1 : v # end /\ ~EndsSegment(x, v)
      /\ DrawnWidth(acc.glyphs) = WidthOf(B, L, from, p)
  BY CharsAre DEF DrawsLine
<1>s. LineIsStepped(new, acc, x, fs, info, from, end, u) BY <1>0, LineStepIs
<1> HIDE DEF new
<1>1. /\ new \in LineAccs(x)
      /\ ~SplitsAt(info, u, end) => new = acc
      /\ SplitsAt(info, u, end) => (new.glyphs = acc.glyphs \o more /\ new.start = u)
  BY <1>0, <1>s DEF LineIsStepped
<1>2. CASE ~SplitsAt(info, u, end)
  <2>1. new = acc BY <1>1, <1>2
  <2>2. u # end /\ ~EndsSegment(x, u)
    <3>1. u # end BY <1>2 DEF SplitsAt
    <3>2. u \in from + 1 .. end - 1 BY <1>0, <3>1
    <3> QED BY <1>2, <3>1, <3>2 DEF SplitsAt
  <2>3. \A v \in p + 1 .. u : v # end /\ ~EndsSegment(x, v)
    <3> TAKE v \in p + 1 .. u
    <3>1. v = u \/ v \in p + 1 .. u - 1 BY <1>0
    <3> QED BY <1>0, <2>2, <3>1
  <2>4. p \in from .. u BY <1>0
  <2>5. DrawsLine(x, fs, acc, from, end, u) BY <1>0, <2>3, <2>4 DEF DrawsLine
  <2> QED BY <2>1, <2>5 DEF new
<1>3. CASE SplitsAt(info, u, end)
  <2>2. new.glyphs = acc.glyphs \o more /\ new.start = u BY <1>1, <1>3
  <2>3. u \in Cuts(x)
    <3>1. CASE u = end BY <3>1
    <3>2. CASE u # end
      <4>1. u \in from + 1 .. end - 1 BY <1>0, <3>2
      <4>2. EndsSegment(x, u) BY <1>3, <3>2, <4>1 DEF SplitsAt
      <4> QED BY <1>0, <4>2, SegmentEnds
    <3> QED BY <3>1, <3>2
  <2>4. WholeRange(x, p, u)
    <3>1. p \in 0 .. L - 1 /\ u \in p + 1 .. L BY <1>0
    <3> QED BY <1>0, <2>3, <3>1 DEF WholeRange
  <2>5. more \in Seq(Drawn) /\ DrawnWidth(more) = WidthOf(B, L, p, u)
    <3>1. more \in Seq(Drawn) BY <1>0, SegmentIsDrawn
    <3>2. DrawnWidth(more) = WidthOf(B, L, p, u) BY <2>4, SegmentIsDrawn
    <3> QED BY <3>1, <3>2
  <2>6. acc.glyphs \in Seq(Drawn) BY <1>0 DEF LineAccs
  <2> HIDE DEF B, L, new, more, p
  <2>7. DrawnWidth(acc.glyphs \o more) = DrawnWidth(acc.glyphs) + DrawnWidth(more)
    BY <2>5, <2>6, DrawnAdds
  <2>8. WidthOf(B, L, from, u) = WidthOf(B, L, from, p) + WidthOf(B, L, p, u)
    <3>1. 1 \in DOMAIN fs BY DEF AreFonts
    <3>2. HasWidths(B, L) BY <3>1, BestIsWidth DEF B, L
    <3> QED BY <1>0, <3>2, WidthOfFacts
  <2>9. u \in from .. u /\ \A v \in u + 1 .. u : FALSE BY <1>0
  <2>10. DrawnWidth(new.glyphs) = WidthOf(B, L, from, new.start)
    BY <1>0, <2>2, <2>5, <2>7, <2>8
  <2>11. DrawsLine(x, fs, new, from, end, u)
    BY <1>1, <2>2, <2>3, <2>9, <2>10 DEF DrawsLine, B, L
  <2> QED BY <2>11 DEF new
<1> QED BY <1>2, <1>3

\* shapeLine draws a line that cuts no cluster as wide as its clusters in their fonts.
LEMMA LineIsDrawn ==
  ASSUME NEW x, IsText(x), NEW fs, AreFonts(fs), NEW info, NEW from \in 0 .. Len(x) - 1,
         NEW end \in from + 1 .. Len(x), from \in Cuts(x), end \in Cuts(x),
         \A v \in from + 1 .. end - 1 : "SCRIPT_CHANGE" \in info[v].flags <=> EndsSegment(x, v)
  PROVE  DrawnWidth(ShapingLine(x, fs, info, from, end)[end].glyphs)
           = WidthOf(Best(x, fs, 1), Len(x), from, end)
<1> DEFINE F == ShapingLine(x, fs, info, from, end)
           Good(t) == t >= from => DrawsLine(x, fs, F[t], from, end, t)
           T == {t \in 0 .. end : Good(t)}
           L == Len(x)
<1>1. /\ L \in Nat /\ from \in Nat /\ end \in Nat /\ end \in 0 .. L
      /\ from < end /\ from \in 0 .. L
  BY CharsAre
<1>2. /\ F[0] = NoLine(from)
      /\ \A t \in 0 .. end : F[t] \in LineAccs(x)
      /\ \A t \in 1 .. end : F[t] = LineStep(F[t - 1], x, fs, info, from, end, t)
  BY <1>1, ShapingLineSteps
<1> HIDE DEF F
<1>3. DrawsLine(x, fs, NoLine(from), from, end, from)
  <2> DEFINE none == NoLine(from)
             B == Best(x, fs, 1)
  <2>1. none.glyphs = <<>> /\ none.start = from BY DEF NoLine
  <2>2. none \in LineAccs(x) BY <1>1, NothingDrawn DEF NoLine, LineAccs
  <2>3. WidthOf(B, L, from, from) = 0
    <3>1. 1 \in DOMAIN fs BY DEF AreFonts
    <3>2. HasWidths(B, L) BY <3>1, BestIsWidth
    <3> HIDE DEF B
    <3> QED BY <1>1, <3>2, WidthOfFacts
  <2>4. from \in from .. from /\ \A v \in from + 1 .. from : FALSE BY <1>1
  <2> HIDE DEF none
  <2>5. DrawsLine(x, fs, none, from, end, from)
    BY <2>1, <2>2, <2>3, <2>4, NothingDrawn DEF DrawsLine
  <2> QED BY <2>5 DEF none
<1>4. 0 \in T
  <2>1. 0 >= from => from = 0 BY <1>1
  <2>2. Good(0) BY <1>2, <1>3, <2>1
  <2> QED BY <1>1, <2>2
<1>5. ASSUME NEW t \in 0 .. end - 1, t \in T PROVE t + 1 \in T
  <2>1. /\ t + 1 \in 1 .. end /\ (t + 1) - 1 = t /\ t + 1 \in 0 .. end /\ F[t] \in LineAccs(x)
        /\ t \in Nat
    BY <1>1, <1>2
  <2>2. F[t + 1] = LineStep(F[t], x, fs, info, from, end, t + 1) BY <1>2, <2>1
  <2>4. CASE t < from
    <3>1. t + 1 <= from BY <1>1, <2>1, <2>4
    <3>2. t + 1 >= from => t + 1 = from BY <1>1, <2>1, <2>4
    <3>5. LineIsStepped(F[t + 1], F[t], x, fs, info, from, end, t + 1)
      BY <1>1, <2>1, <2>2, LineStepIs
    <3>3. F[t + 1] = NoLine(from) BY <3>1, <3>5 DEF LineIsStepped
    <3>4. Good(t + 1) BY <1>3, <3>2, <3>3
    <3> QED BY <2>1, <3>4
  <2>5. CASE ~(t < from)
    <3>1. t >= from /\ t + 1 \in from + 1 .. end BY <1>1, <2>1, <2>5
    <3>2. DrawsLine(x, fs, F[t], from, end, t) BY <1>5, <3>1
    <3>3. DrawsLine(x, fs, LineStep(F[t], x, fs, info, from, end, t + 1), from, end, t + 1)
      BY <2>1, <3>1, <3>2, LineStepDraws
    <3>4. Good(t + 1) BY <2>2, <3>3
    <3> QED BY <2>1, <3>4
  <2> QED BY <2>4, <2>5
<1>6. \A t \in 0 .. end : t \in T
  <2> HIDE DEF T
  <2> QED BY <1>1, <1>4, <1>5, Induct
<1>7. DrawsLine(x, fs, F[end], from, end, end)
  <2>1. end \in T /\ end >= from BY <1>1, <1>6
  <2> QED BY <2>1
<1>8. F[end].start = end
  <2>1. F[end].start \in from .. end /\ \A v \in F[end].start + 1 .. end : v # end
    BY <1>7 DEF DrawsLine
  <2>2. end \notin F[end].start + 1 .. end BY <2>1
  <2> QED BY <1>1, <2>1, <2>2
<1>9. DrawnWidth(F[end].glyphs) = WidthOf(Best(x, fs, 1), L, from, end)
  BY <1>7, <1>8 DEF DrawsLine
<1> QED BY <1>9 DEF F

-----------------------------------------------------------------------------
(* What measure() leaves.                                                  *)

\* What the flags of a character say of it.
FlagsAre(x, j, flags) ==
  /\ flags \in SUBSET Flags
  /\ "MUST_BREAK_AFTER" \in flags <=> x[j + 1] = "newline"
  /\ "TAB" \in flags <=> x[j + 1] = "tab"
  /\ "SCRIPT_CHANGE" \in flags <=> ChangesScript(x, j)
  /\ "SKIP_ON_BREAK" \in flags =>
       /\ x[j + 1] \in {"tab", "space", "newline"}
       /\ {"CAN_WRAP_AFTER", "MUST_BREAK_AFTER"} \cap flags # {}
  /\ x[j + 1] \in {"tab", "newline"} => "SKIP_ON_BREAK" \in flags
  /\ "CAN_WRAP_AFTER" \in flags => x[j + 1] = "tab" \/ BreakAfter(x, j) = "allow"

\* The flags that measure puts down are among makeLine's, and say so.
LEMMA BreakFlagsAre ==
  ASSUME NEW x, NEW j
  PROVE  /\ BreakFlags(x, j) \in SUBSET {"CAN_WRAP_AFTER", "MUST_BREAK_AFTER", "SKIP_ON_BREAK",
                                         "CAN_EXTEND_WIDTH", "TAB"}
         /\ FlagsAre(x, j, BreakFlags(x, j)
                           \cup (IF ChangesScript(x, j) THEN {"SCRIPT_CHANGE"} ELSE {}))
<1> DEFINE c == x[j + 1]
           b == BreakAfter(x, j)
           flags == BreakFlags(x, j)
<1>1. /\ b = "must" <=> c = "newline"
      /\ b = "allow" => c # "nbsp"
  BY DEF BreakAfter, Breaks
<1> HIDE DEF b
<1>2. CASE c = "tab"
  <2>1. flags = {"CAN_WRAP_AFTER", "SKIP_ON_BREAK", "CAN_EXTEND_WIDTH", "TAB"}
    BY <1>2 DEF BreakFlags
  <2> QED BY <1>2, <2>1 DEF FlagsAre, Flags
<1>3. CASE c # "tab" /\ b = "allow"
  <2>0. c # "newline" BY <1>1, <1>3
  <2>1. flags = {"CAN_WRAP_AFTER"} \cup
                (IF c = "space" THEN {"SKIP_ON_BREAK", "CAN_EXTEND_WIDTH"} ELSE {})
    BY <1>1, <1>3 DEF BreakFlags, b
  <2> QED BY <1>3, <2>0, <2>1 DEF FlagsAre, Flags, b
<1>4. CASE c # "tab" /\ b = "must"
  <2>0. c = "newline" BY <1>1, <1>4
  <2>1. flags = {"MUST_BREAK_AFTER", "SKIP_ON_BREAK"} BY <1>4, <2>0 DEF BreakFlags, b
  <2> QED BY <1>4, <2>0, <2>1 DEF FlagsAre, Flags
<1>5. CASE c # "tab" /\ b # "allow" /\ b # "must"
  <2>0. c # "newline" BY <1>1, <1>5
  <2>1. flags \in {{"CAN_EXTEND_WIDTH"}, {}} BY <1>5 DEF BreakFlags, b
  <2> QED BY <1>5, <2>0, <2>1 DEF FlagsAre, Flags
<1> QED BY <1>2, <1>3, <1>4, <1>5

\* A text is measured.
IsMeasured(x, fs, info, width) ==
  /\ info \in [Chars(x) -> CharInfo]
  /\ width \in Nat /\ width = WidthOf(info, Len(x), 0, Len(x))
  /\ \A j \in Chars(x) :
       /\ info[j].width = TextWidth(x, fs, j)
       /\ info[j].soft <=> x[j + 1] = "shy"
       /\ FlagsAre(x, j, info[j].flags)
       /\ "CLUSTER_TAIL" \in info[j].flags <=> IsTail(x, j)

\* After measure the text is measured, whatever the fonts.
LEMMA measureIs ==
  ASSUME NEW x, IsText(x), NEW fs, AreFonts(fs)
  PROVE  IsMeasured(x, fs, measure(x, fs).info, measure(x, fs).width)
<1> DEFINE L == Len(x)
           I == MeasuringText(x, fs)[L].info
           W == MeasuringText(x, fs)[L].width
           Fl(j) == BreakFlags(x, j)
                    \cup (IF ChangesScript(x, j) THEN {"SCRIPT_CHANGE"} ELSE {})
                    \cup (IF I[j].tail THEN {"CLUSTER_TAIL"} ELSE {})
           C(j) == [width |-> I[j].width, soft |-> x[j + 1] = "shy", flags |-> Fl(j)]
           info == measure(x, fs).info
           width == measure(x, fs).width
<1>1. /\ I \in Infos(x) /\ W \in Nat
      /\ \A s \in Chars(x) : I[s].width = TextWidth(x, fs, s) /\ I[s].tail = IsTail(x, s)
      /\ W = WidthOf(I, L, 0, L)
  BY TextIsMeasured
<1>2. info = [j \in Chars(x) |-> C(j)] /\ width = W BY DEF measure
<1> HIDE DEF I, W, info, width
<1>3. \A j \in Chars(x) : /\ I[j].width \in Nat /\ I[j].tail \in BOOLEAN
  BY <1>1, InfosHaveWidths
<1>4. ASSUME NEW j \in Chars(x)
      PROVE  /\ FlagsAre(x, j, Fl(j)) /\ Fl(j) \in SUBSET Flags
             /\ "CLUSTER_TAIL" \in Fl(j) <=> IsTail(x, j)
  <2> DEFINE b == BreakFlags(x, j)
             s == IF ChangesScript(x, j) THEN {"SCRIPT_CHANGE"} ELSE {}
             t == IF I[j].tail THEN {"CLUSTER_TAIL"} ELSE {}
  <2>1. /\ b \in SUBSET {"CAN_WRAP_AFTER", "MUST_BREAK_AFTER", "SKIP_ON_BREAK",
                         "CAN_EXTEND_WIDTH", "TAB"}
        /\ FlagsAre(x, j, b \cup s)
    BY BreakFlagsAre
  <2>2. I[j].tail = IsTail(x, j) /\ IsTail(x, j) \in BOOLEAN BY <1>1, TailIsBoolean
  <2>3. s \in SUBSET {"SCRIPT_CHANGE"} OBVIOUS
  <2>4. t \in SUBSET {"CLUSTER_TAIL"} /\ ("CLUSTER_TAIL" \in t <=> IsTail(x, j)) BY <2>2
  <2>5. Fl(j) = (b \cup s) \cup t OBVIOUS
  <2> HIDE DEF b, s, t, Fl
  <2>6. "CLUSTER_TAIL" \in Fl(j) <=> IsTail(x, j) BY <2>1, <2>3, <2>4, <2>5
  <2> DEFINE u == b \cup s
  <2>7. /\ u \in SUBSET Flags /\ FlagsAre(x, j, u) BY <2>1 DEF FlagsAre
  <2>8. Fl(j) = u \cup t BY <2>5
  <2> HIDE DEF u
  <2>9. Fl(j) \in SUBSET Flags BY <2>4, <2>7, <2>8 DEF Flags
  <2>10. /\ "MUST_BREAK_AFTER" \in u <=> "MUST_BREAK_AFTER" \in Fl(j)
         /\ "TAB" \in u <=> "TAB" \in Fl(j)
         /\ "SCRIPT_CHANGE" \in u <=> "SCRIPT_CHANGE" \in Fl(j)
         /\ "SKIP_ON_BREAK" \in u <=> "SKIP_ON_BREAK" \in Fl(j)
         /\ "CAN_WRAP_AFTER" \in u <=> "CAN_WRAP_AFTER" \in Fl(j)
    BY <2>4, <2>8
  <2>11. FlagsAre(x, j, Fl(j)) BY <2>7, <2>9, <2>10 DEF FlagsAre
  <2> QED BY <2>6, <2>9, <2>11
<1>5. \A j \in Chars(x) : C(j) \in CharInfo
  <2> TAKE j \in Chars(x)
  <2>1. I[j].width \in Nat /\ Fl(j) \in SUBSET Flags BY <1>3, <1>4
  <2> HIDE DEF Fl
  <2> QED BY <2>1 DEF CharInfo
<1>6. info \in [Chars(x) -> CharInfo]
  <2> HIDE DEF C
  <2> QED BY <1>2, <1>5
<1>7. \A j \in Chars(x) : /\ info[j].width = I[j].width
                          /\ info[j].soft = (x[j + 1] = "shy")
                          /\ info[j].flags = Fl(j)
  <2> HIDE DEF Fl
  <2> QED BY <1>2
<1>8. width = WidthOf(info, L, 0, L) /\ width \in Nat
  <2>1. L \in Nat /\ Chars(x) = 0 .. L - 1 /\ 0 \in 0 .. L /\ L \in 0 .. L BY CharsAre
  <2>2. HasWidths(I, L) BY <1>1, InfosHaveWidths
  <2>3. HasWidths(info, L) BY <1>3, <1>7, <2>1 DEF HasWidths
  <2>4. \A k \in 0 .. L - 1 : info[k].width = I[k].width BY <1>7, <2>1
  <2>5. WidthOf(info, L, 0, L) = WidthOf(I, L, 0, L) BY <2>1, <2>2, <2>3, <2>4, SameWidth
  <2> QED BY <1>1, <1>2, <2>5
<1> HIDE DEF Fl
<1>9. ASSUME NEW j \in Chars(x)
      PROVE  /\ info[j].width = TextWidth(x, fs, j)
             /\ info[j].soft <=> x[j + 1] = "shy"
             /\ FlagsAre(x, j, info[j].flags)
             /\ "CLUSTER_TAIL" \in info[j].flags <=> IsTail(x, j)
  BY <1>1, <1>4, <1>7
<1>10. IsMeasured(x, fs, info, width) BY <1>6, <1>8, <1>9 DEF IsMeasured
<1> QED BY <1>10 DEF info, width

\* A character of a cluster after the first, and one before it.
LEMMA MeasuredFacts ==
  ASSUME NEW x, IsText(x), NEW fs, AreFonts(fs), NEW info, NEW width,
         IsMeasured(x, fs, info, width), NEW j \in Chars(x)
  PROVE  /\ IsTail(x, j) => /\ info[j].width = 0 /\ ~info[j].soft
                            /\ {"MUST_BREAK_AFTER", "SKIP_ON_BREAK", "TAB"} \cap info[j].flags = {}
         /\ /\ {"CAN_WRAP_AFTER", "MUST_BREAK_AFTER"} \cap info[j].flags # {}
            /\ IsTail(x, j + 1)
            => x[j + 1] = "tab"
         /\ "MUST_BREAK_AFTER" \in info[j].flags => "SKIP_ON_BREAK" \in info[j].flags
         /\ info[j].soft => {"TAB", "SKIP_ON_BREAK"} \cap info[j].flags = {}
<1> DEFINE flags == info[j].flags
<1>1. FlagsAre(x, j, flags) /\ info[j].width = TextWidth(x, fs, j)
      /\ (info[j].soft <=> x[j + 1] = "shy")
  BY DEF IsMeasured
<1> HIDE DEF flags
<1>2. ASSUME IsTail(x, j)
      PROVE  /\ info[j].width = 0 /\ ~info[j].soft
             /\ {"MUST_BREAK_AFTER", "SKIP_ON_BREAK", "TAB"} \cap flags = {}
  <2>1. x[j + 1] \in Marks BY <1>2 DEF IsTail, IsMark
  <2>2. x[j + 1] \notin {"newline", "space", "tab", "shy"} BY <2>1, TextsAssumption
  <2>3. TextWidth(x, fs, j) = 0 BY <1>2, <2>2 DEF TextWidth, BestAt, Own
  <2> QED BY <1>1, <2>2, <2>3 DEF FlagsAre
<1>3. ASSUME {"CAN_WRAP_AFTER", "MUST_BREAK_AFTER"} \cap flags # {}, IsTail(x, j + 1)
      PROVE  x[j + 1] = "tab"
  <2>0. j \in Nat /\ Len(x) \in Nat /\ j < Len(x) /\ (j + 1) + 1 = j + 2 BY CharsAre
  <2>1. x[j + 2] \in Marks /\ ~EndsSegment(x, j + 1) BY <1>3, <2>0 DEF IsTail, IsMark
  <2>2. j + 1 < Len(x) /\ x[j + 1] # "newline" BY <2>0, <2>1 DEF EndsSegment
  <2>3. BreakAfter(x, j) # "allow" BY <2>1, <2>2 DEF BreakAfter, Breaks
  <2> QED BY <1>1, <1>3, <2>2, <2>3 DEF FlagsAre
<1>4. "MUST_BREAK_AFTER" \in flags => "SKIP_ON_BREAK" \in flags BY <1>1 DEF FlagsAre
<1>5. info[j].soft => {"TAB", "SKIP_ON_BREAK"} \cap flags = {} BY <1>1 DEF FlagsAre
<1> QED BY <1>2, <1>3, <1>4, <1>5 DEF flags

-----------------------------------------------------------------------------
(* A line that ends with a soft hyphen is drawn with a hyphen there.       *)

\* A font has a hyphen.
HasHyphen(fs) == \E n \in DOMAIN fs : fs[n]["hyphen"].found

\* Texts that differ in a soft hyphen have the same clusters and segments.
LEMMA HyphenatedIs ==
  ASSUME NEW x, IsText(x), NEW end \in 1 .. Len(x), x[end] = "shy"
  PROVE  LET y == Hyphenated(x, end)
         IN  /\ IsText(y) /\ Len(y) = Len(x) /\ y[end] = "hyphen"
             /\ \A u \in 1 .. Len(x) : u # end => y[u] = x[u]
             /\ \A t \in 1 .. Len(x) : EndsSegment(y, t) <=> EndsSegment(x, t)
             /\ \A t \in 0 .. Len(x) : IsTail(y, t) <=> IsTail(x, t)
             /\ Cuts(y) = Cuts(x) /\ Chars(y) = Chars(x)
             /\ \A t : After(y, t) = After(x, t)
<1> DEFINE L == Len(x)
           y == Hyphenated(x, end)
<1>1. y = [x EXCEPT ![end] = "hyphen"] BY DEF Hyphenated
<1>2. x \in Seq(Characters) /\ L \in Nat /\ "hyphen" \in Characters BY TextsAssumption DEF IsText
<1>3. y \in Seq(Characters) /\ Len(y) = L /\ y[end] = "hyphen"
  BY <1>1, <1>2
<1>4. \A u \in 1 .. L : u # end => y[u] = x[u] BY <1>1, <1>2
<1> HIDE DEF y, L
<1>5. Chars(y) = Chars(x) BY <1>3 DEF Chars, L
<1>6. "shy" \in Characters BY <1>2 DEF L
<1>7. \A u \in 1 .. L : /\ Script[y[u]] = Script[x[u]]
                        /\ y[u] \in Marks <=> x[u] \in Marks
                        /\ y[u] = "newline" <=> x[u] = "newline"
  <2> TAKE u \in 1 .. L
  <2>1. CASE u # end BY <1>4, <2>1
  <2>2. CASE u = end BY <1>2, <1>3, <1>6, <2>2, TextsAssumption
  <2> QED BY <2>1, <2>2
<1>8. ASSUME NEW t \in 0 .. L - 1 PROVE ChangesScript(y, t) <=> ChangesScript(x, t)
  <2>1. \A p \in 0 .. t : p + 1 \in 1 .. L BY <1>2
  <2>2. Script[y[t + 1]] = Script[x[t + 1]] BY <1>2, <1>7
  <2>3. \A p \in 0 .. t - 1 : Script[y[p + 1]] = Script[x[p + 1]] BY <1>2, <1>7
  <2>4. \A p \in 0 .. t - 1 : \A q \in p + 1 .. t - 1 : q \in 0 .. t - 1 BY <1>2
  <2>5. \A p \in 0 .. t - 1 :
          (\A q \in p + 1 .. t - 1 : Script[y[q + 1]] = "common") <=>
          (\A q \in p + 1 .. t - 1 : Script[x[q + 1]] = "common")
    BY <2>3, <2>4
  <2> DEFINE a(p) == \A q \in p + 1 .. t - 1 : Script[y[q + 1]] = "common"
             b(p) == \A q \in p + 1 .. t - 1 : Script[x[q + 1]] = "common"
  <2>6. \A p \in 0 .. t - 1 : a(p) <=> b(p) BY <2>5
  <2>7. ChangesScript(y, t) <=>
          /\ Script[y[t + 1]] # "common"
          /\ \E p \in 0 .. t - 1 : Script[y[p + 1]] \notin {"common", Script[y[t + 1]]} /\ a(p)
    BY DEF ChangesScript
  <2>8. ChangesScript(x, t) <=>
          /\ Script[x[t + 1]] # "common"
          /\ \E p \in 0 .. t - 1 : Script[x[p + 1]] \notin {"common", Script[x[t + 1]]} /\ b(p)
    BY DEF ChangesScript
  <2> HIDE DEF a, b
  <2> QED BY <2>2, <2>3, <2>6, <2>7, <2>8
<1>9. ASSUME NEW t \in 1 .. L PROVE EndsSegment(y, t) <=> EndsSegment(x, t)
  <2>1. CASE t = L BY <1>3, <2>1 DEF EndsSegment, L
  <2>2. CASE t # L
    <3>1. t \in 0 .. L - 1 BY <1>2, <2>2
    <3>2. ChangesScript(y, t) <=> ChangesScript(x, t) BY <1>8, <3>1
    <3>3. y[t] = "newline" <=> x[t] = "newline" BY <1>7
    <3> QED BY <1>3, <2>2, <3>2, <3>3 DEF EndsSegment, L
  <2> QED BY <2>1, <2>2
<1>10. ASSUME NEW t \in 0 .. L PROVE IsTail(y, t) <=> IsTail(x, t)
  <2>1. CASE t = 0 BY <2>1 DEF IsTail
  <2>2. CASE t = L /\ t # 0
    <3>1. EndsSegment(y, t) /\ EndsSegment(x, t) BY <1>3, <2>2 DEF EndsSegment, L
    <3> QED BY <3>1 DEF IsTail
  <2>3. CASE t # L /\ t # 0
    <3>1. t \in 1 .. L /\ t + 1 \in 1 .. L BY <1>2, <2>3
    <3>2. EndsSegment(y, t) <=> EndsSegment(x, t) BY <1>9, <3>1
    <3>3. IsMark(y, t) <=> IsMark(x, t) BY <1>7, <3>1 DEF IsMark
    <3> QED BY <3>2, <3>3 DEF IsTail
  <2> QED BY <2>1, <2>2, <2>3
<1>11. Cuts(y) = Cuts(x) BY <1>3, <1>10 DEF Cuts, L
<1>12. \A t : After(y, t) = After(x, t)
  <2> DEFINE T == Cuts(x)
  <2>1. ASSUME NEW t PROVE After(y, t) = After(x, t)
    <3>1. After(y, t) = CHOOSE u \in t + 1 .. L : /\ u = L \/ u \in T
                                                  /\ \A s \in t + 1 .. u - 1 : s \notin T
      BY <1>3, <1>11 DEF After
    <3>2. After(x, t) = CHOOSE u \in t + 1 .. L : /\ u = L \/ u \in T
                                                  /\ \A s \in t + 1 .. u - 1 : s \notin T
      BY DEF After, L
    <3> QED BY <3>1, <3>2
  <2> QED BY <2>1
<1>13. IsText(y) BY <1>3 DEF IsText
<1> QED BY <1>3, <1>4, <1>5, <1>9, <1>10, <1>11, <1>12, <1>13 DEF y, L

\* A cluster of the same characters is in the same font.
LEMMA SameCluster ==
  ASSUME NEW x, IsText(x), NEW y, IsText(y), Len(y) = Len(x), NEW fs, AreFonts(fs),
         NEW s \in Chars(x), After(y, s) = After(x, s), IsTail(y, s) <=> IsTail(x, s),
         \A t \in s .. After(x, s) - 1 : y[t + 1] = x[t + 1]
  PROVE  BestAt(y, fs, 1, s) = BestAt(x, fs, 1, s)
<1> DEFINE L == Len(x)
           a == After(x, s)
<1>1. L \in Nat /\ s \in Nat /\ s \in 0 .. L /\ a \in s + 1 .. L /\ Chars(y) = Chars(x)
  <2>1. a \in s + 1 .. L BY AfterIs
  <2> HIDE DEF a
  <2> QED BY <2>1, CharsAre
<1>2. After(y, s) = a /\ \A t \in s .. a - 1 : y[t + 1] = x[t + 1] OBVIOUS
<1> HIDE DEF a, L
<1>3. \A t \in s + 1 .. a - 1 : IsMark(y, t) <=> IsMark(x, t)
  <2> TAKE t \in s + 1 .. a - 1
  <2>1. t \in s .. a - 1 BY <1>1
  <2> QED BY <1>2, <2>1 DEF IsMark
<1>4. ClusterEnd(y, s, a) = ClusterEnd(x, s, a)
  <2> DEFINE u == ClusterEnd(x, s, a)
  <2>0. s \in Int /\ a \in Int /\ s < a BY <1>1
  <2>1. IsClusterEnd(x, s, a, u) BY <2>0, ClusterEndIs
  <2> HIDE DEF u
  <2>2. u \in s + 1 .. a /\ (u = a \/ ~IsMark(x, u)) /\ \A t \in s + 1 .. u - 1 : IsMark(x, t)
    BY <2>1 DEF IsClusterEnd
  <2>3. u = a \/ ~IsMark(y, u)
    <3>1. u # a => u \in s + 1 .. a - 1 BY <2>0, <2>2
    <3> QED BY <1>3, <2>2, <3>1
  <2>4. \A t \in s + 1 .. u - 1 : IsMark(y, t)
    <3> TAKE t \in s + 1 .. u - 1
    <3>1. t \in s + 1 .. a - 1 BY <2>0, <2>2
    <3> QED BY <1>3, <2>2, <3>1
  <2>5. IsClusterEnd(y, s, a, u) BY <2>2, <2>3, <2>4 DEF IsClusterEnd
  <2> QED BY <2>0, <2>5, ClusterEndIs DEF u
<1>5. ASSUME NEW m \in DOMAIN fs
      PROVE  /\ HasNotdef(y, fs[m], s, a) <=> HasNotdef(x, fs[m], s, a)
             /\ Own(y, fs[m], s) = Own(x, fs[m], s)
  <2>1. IsFont(fs[m]) BY FontsAre DEF FontAt
  <2> DEFINE c == ClusterEnd(x, s, a)
             gx == Glyphs(x, fs[m])
             gy == Glyphs(y, fs[m])
  <2>2. c \in s + 1 .. a
    <3>1. s \in Int /\ a \in Int /\ s < a BY <1>1
    <3> QED BY <3>1, ClusterEndIs DEF IsClusterEnd
  <2> HIDE DEF c
  <2>3. \A t \in s .. c - 1 : y[t + 1] = x[t + 1]
    <3> TAKE t \in s .. c - 1
    <3>1. t \in s .. a - 1 BY <1>1, <2>2
    <3> QED BY <1>2, <3>1
  <2>4. HasNotdef(y, fs[m], s, a) <=> HasNotdef(x, fs[m], s, a)
    BY <1>4, <2>3 DEF HasNotdef, c
  <2>5. HasWidths(gx, L) /\ HasWidths(gy, L) BY <2>1, ClusterWidthIs DEF L
  <2>6. \A t \in s .. a - 1 : gy[t].width = gx[t].width
    <3> TAKE t \in s .. a - 1
    <3>1. t \in Chars(x) BY <1>1 DEF Chars, L
    <3> QED BY <1>1, <1>2, <3>1 DEF Glyphs
  <2> HIDE DEF gx, gy
  <2>7. WidthOf(gy, L, s, a) = WidthOf(gx, L, s, a)
    <3>1. a \in s .. L BY <1>1
    <3> QED BY <1>1, <2>5, <2>6, <3>1, SameWidth
  <2>8. Own(y, fs[m], s) = IF IsTail(x, s) THEN 0 ELSE WidthOf(gy, L, s, a)
    BY <1>2 DEF Own, gy, L
  <2>9. Own(x, fs[m], s) = IF IsTail(x, s) THEN 0 ELSE WidthOf(gx, L, s, a)
    BY DEF Own, gx, L, a
  <2> QED BY <2>4, <2>7, <2>8, <2>9
<1>6. Has(y, fs, s) = Has(x, fs, s) BY <1>2, <1>5 DEF Has, a
<1>7. FontOf(y, fs, 1, s) = FontOf(x, fs, 1, s) BY <1>6 DEF FontOf
<1>8. FontOf(x, fs, 1, s) \in DOMAIN fs
  <2>1. 1 \in DOMAIN fs BY DEF AreFonts
  <2> QED BY <2>1, FontOfIs
<1> QED BY <1>5, <1>7, <1>8 DEF BestAt

\* A character that is a cluster.
LEMMA LoneCluster ==
  ASSUME NEW x, IsText(x), NEW fs, AreFonts(fs), NEW s \in Chars(x),
         ~IsTail(x, s), After(x, s) = s + 1
  PROVE  /\ Has(x, fs, s) = {m \in DOMAIN fs : fs[m][x[s + 1]].found}
         /\ \A m \in DOMAIN fs : Own(x, fs[m], s) = fs[m][x[s + 1]].width
         /\ FontOf(x, fs, 1, s) \in DOMAIN fs
         /\ Has(x, fs, s) # {} => FontOf(x, fs, 1, s) = Min(Has(x, fs, s))
<1> DEFINE c == x[s + 1]
           H == Has(x, fs, s)
           N == Len(fs)
           f == FontOf(x, fs, 1, s)
<1>1. s \in Nat /\ Len(x) \in Nat /\ s < Len(x) /\ s \in 0 .. Len(x) BY CharsAre
<1>2. ClusterEnd(x, s, s + 1) = s + 1
  <2>1. s \in Int /\ s + 1 \in Int /\ s < s + 1 BY <1>1
  <2>2. IsClusterEnd(x, s, s + 1, ClusterEnd(x, s, s + 1)) BY <2>1, ClusterEndIs
  <2> QED BY <1>1, <2>2 DEF IsClusterEnd
<1>3. \A m \in DOMAIN fs : HasNotdef(x, fs[m], s, s + 1) <=> ~fs[m][c].found
  <2>1. s .. (s + 1) - 1 = {s} BY <1>1
  <2> QED BY <1>2, <2>1 DEF HasNotdef
<1>4. H = {m \in DOMAIN fs : fs[m][c].found} BY <1>3 DEF Has
<1>5. ASSUME NEW m \in DOMAIN fs PROVE Own(x, fs[m], s) = fs[m][c].width
  <2> DEFINE g == Glyphs(x, fs[m])
  <2>1. IsFont(fs[m]) BY FontsAre DEF FontAt
  <2>2. HasWidths(g, Len(x)) BY <2>1, ClusterWidthIs
  <2>3. g[s].width = fs[m][c].width /\ g[s].width \in Nat
    <3>1. g[s].width = fs[m][c].width BY DEF Glyphs
    <3> HIDE DEF g
    <3>2. s \in 0 .. Len(x) - 1 BY <1>1
    <3> QED BY <2>2, <3>1, <3>2 DEF HasWidths
  <2>4. Own(x, fs[m], s) = WidthOf(g, Len(x), s, s + 1) BY DEF Own
  <2> HIDE DEF g
  <2>5. s \in 0 .. Len(x) - 1 BY <1>1
  <2>6. /\ WidthOf(g, Len(x), s, s) = 0
        /\ WidthOf(g, Len(x), s, s + 1) = WidthOf(g, Len(x), s, s) + g[s].width
    BY <1>1, <2>2, <2>5, WidthOfFacts
  <2> QED BY <2>3, <2>4, <2>6
<1>6. N \in Nat /\ DOMAIN fs = 1 .. N /\ 1 <= N /\ 1 \in DOMAIN fs BY DEF AreFonts
<1>7. f \in DOMAIN fs BY <1>6, FontOfIs
<1>8. ASSUME H # {} PROVE f = Min(H)
  <2> HIDE DEF H, N
  <2>1. H \in SUBSET (1 .. N) BY <1>4, <1>6
  <2>0. 1 \in Int /\ N \in Int /\ 1 <= N BY <1>6
  <2>2. Min(H) \in H /\ \A t \in H : Min(H) <= t BY <2>0, <1>8, <2>1, LeastOf
  <2>3. \E m \in 1 .. N : (m = N \/ m \in H) /\ \A j \in 1 .. m - 1 : j \notin H
    BY <2>0, FirstOf
  <2>4. f = CHOOSE m \in 1 .. N : (m = N \/ m \in H) /\ \A j \in 1 .. m - 1 : j \notin H
    BY DEF FontOf, H, N
  <2>5. f \in 1 .. N /\ (f = N \/ f \in H) /\ \A j \in 1 .. f - 1 : j \notin H
    BY <2>3, <2>4
  <2> HIDE DEF f
  <2>6. Min(H) \in 1 .. N /\ Min(H) \notin 1 .. f - 1 BY <2>1, <2>2, <2>5
  <2>7. f <= Min(H) BY <1>6, <2>5, <2>6
  <2>8. f \in H
    <3>1. CASE f = N
      <4>1. Min(H) = N BY <1>6, <2>6, <2>7, <3>1
      <4> QED BY <2>2, <3>1, <4>1
    <3> QED BY <2>5, <3>1
  <2>9. Min(H) <= f BY <2>2, <2>8
  <2> QED BY <1>6, <2>5, <2>6, <2>7, <2>9
<1> QED BY <1>4, <1>5, <1>7, <1>8

\* No font has a glyph with a width for a soft hyphen.
SoftIsThin(fs) == "shy" \in Characters => \A n \in DOMAIN fs : fs[n]["shy"].width = 0

\* The line with its hyphen is wider by the hyphen.
LEMMA HyphenIsAdded ==
  ASSUME NEW x, IsText(x), NEW fs, AreFonts(fs), SoftIsThin(fs), HasHyphen(fs),
         NEW from \in 0 .. Len(x) - 1, NEW end \in from + 1 .. Len(x), x[end] = "shy",
         end \in Cuts(x)
  PROVE  WidthOf(Best(Hyphenated(x, end), fs, 1), Len(x), from, end)
           = WidthOf(Best(x, fs, 1), Len(x), from, end) + getHyphenWidth(fs)
<1> DEFINE L == Len(x)
           y == Hyphenated(x, end)
           e == end - 1
           bx == Best(x, fs, 1)
           by == Best(y, fs, 1)
<1>1. /\ L \in Nat /\ from \in Nat /\ end \in Nat /\ e \in Nat /\ e \in 0 .. L - 1
      /\ e \in from .. L /\ from \in 0 .. L /\ e + 1 = end /\ e \in Chars(x) /\ end \in 1 .. L
      /\ e \in 0 .. L /\ end \in 0 .. L
  BY CharsAre
<1>2. /\ IsText(y) /\ Len(y) = L /\ y[end] = "hyphen"
      /\ \A u \in 1 .. L : u # end => y[u] = x[u]
      /\ \A t \in 0 .. L : IsTail(y, t) <=> IsTail(x, t)
      /\ Chars(y) = Chars(x) /\ \A t : After(y, t) = After(x, t)
  BY <1>1, HyphenatedIs
<1> HIDE DEF y
<1>3. ~IsTail(x, e)
  <2>1. x[e + 1] \notin Marks BY <1>1, TextsAssumption
  <2> QED BY <2>1 DEF IsTail, IsMark
<1>4. After(x, e) = e + 1
  <2>1. /\ After(x, e) \in e + 1 .. L
        /\ \A t \in e + 1 .. L : t \in Cuts(x) => After(x, e) <= t
    BY <1>1, AfterIs
  <2>2. After(x, e) <= end BY <1>1, <2>1
  <2> QED BY <1>1, <2>1, <2>2
<1>5. e \in Cuts(x) BY <1>1, <1>3 DEF Cuts
<1>6. 1 \in DOMAIN fs BY DEF AreFonts
<1>7. ASSUME NEW s \in from .. e - 1 PROVE BestAt(y, fs, 1, s) = BestAt(x, fs, 1, s)
  <2> DEFINE a == After(x, s)
  <2>1. s \in Chars(x) /\ e \in s + 1 .. L /\ s \in 0 .. L /\ s \in Nat BY <1>1 DEF Chars
  <2>2. a <= e /\ a \in Nat
    <3>1. a \in s + 1 .. L /\ \A t \in s + 1 .. L : t \in Cuts(x) => a <= t BY <2>1, AfterIs
    <3> HIDE DEF a
    <3> QED BY <1>1, <1>5, <2>1, <3>1
  <2>3. \A t \in s .. a - 1 : y[t + 1] = x[t + 1]
    <3> HIDE DEF a
    <3> TAKE t \in s .. a - 1
    <3>1. t + 1 \in 1 .. L /\ t + 1 # end BY <1>1, <2>1, <2>2
    <3> QED BY <1>2, <3>1
  <2>4. IsTail(y, s) <=> IsTail(x, s) BY <1>2, <2>1
  <2> QED BY <1>2, <2>1, <2>3, <2>4, SameCluster
<1>8. BestAt(x, fs, 1, e) = 0
  <2>1. /\ \A m \in DOMAIN fs : Own(x, fs[m], e) = fs[m][x[e + 1]].width
        /\ FontOf(x, fs, 1, e) \in DOMAIN fs
    BY <1>1, <1>3, <1>4, LoneCluster
  <2>2. "shy" \in Characters BY <1>1, CharsAre
  <2> QED BY <1>1, <2>1, <2>2 DEF BestAt, SoftIsThin
<1>9. BestAt(y, fs, 1, e) = getHyphenWidth(fs)
  <2> DEFINE H == Has(y, fs, e)
  <2>1. ~IsTail(y, e) /\ After(y, e) = e + 1 BY <1>1, <1>2, <1>3, <1>4
  <2>2. /\ H = {m \in DOMAIN fs : fs[m]["hyphen"].found}
        /\ \A m \in DOMAIN fs : Own(y, fs[m], e) = fs[m]["hyphen"].width
        /\ FontOf(y, fs, 1, e) \in DOMAIN fs
        /\ H # {} => FontOf(y, fs, 1, e) = Min(H)
    <3>1. y[e + 1] = "hyphen" /\ e \in Chars(y) BY <1>1, <1>2
    <3>2. /\ H = {m \in DOMAIN fs : fs[m][y[e + 1]].found}
          /\ \A m \in DOMAIN fs : Own(y, fs[m], e) = fs[m][y[e + 1]].width
          /\ FontOf(y, fs, 1, e) \in DOMAIN fs
          /\ H # {} => FontOf(y, fs, 1, e) = Min(H)
      BY <1>2, <2>1, <3>1, LoneCluster
    <3> HIDE DEF H
    <3> QED BY <3>1, <3>2
  <2> HIDE DEF H
  <2>3. H # {} BY <2>2 DEF HasHyphen
  <2>4. getHyphenWidth(fs) = fs[Min(H)]["hyphen"].width BY <2>2, <2>3 DEF getHyphenWidth
  <2> QED BY <2>2, <2>3, <2>4 DEF BestAt
<1>10. /\ HasWidths(bx, L) /\ HasWidths(by, L)
       /\ \A s \in Chars(x) : bx[s].width = BestAt(x, fs, 1, s) /\ by[s].width = BestAt(y, fs, 1, s)
  BY <1>2, <1>6, BestIsWidth
<1> HIDE DEF bx, by, e
<1>11. \A s \in from .. e - 1 : bx[s].width = by[s].width
  <2> TAKE s \in from .. e - 1
  <2>1. s \in Chars(x) BY <1>1 DEF Chars
  <2> QED BY <1>7, <1>10, <2>1
<1>12. WidthOf(bx, L, from, e) = WidthOf(by, L, from, e) /\ WidthOf(bx, L, from, e) \in Nat
  <2>1. WidthOf(bx, L, from, e) = WidthOf(by, L, from, e) BY <1>1, <1>10, <1>11, SameWidth
  <2>2. WidthOf(bx, L, from, e) \in Nat BY <1>1, <1>10, WidthOfFacts
  <2> QED BY <2>1, <2>2
<1>13. /\ WidthOf(bx, L, from, end) = WidthOf(bx, L, from, e) + bx[e].width
       /\ WidthOf(by, L, from, end) = WidthOf(by, L, from, e) + by[e].width
  <2>1. /\ WidthOf(bx, L, from, e + 1) = WidthOf(bx, L, from, e) + bx[e].width
        /\ WidthOf(by, L, from, e + 1) = WidthOf(by, L, from, e) + by[e].width
    <3> HIDE DEF L
    <3>1. L \in Nat /\ from \in 0 .. L /\ e \in 0 .. L - 1 BY <1>1
    <3>2. WidthOf(bx, L, from, e + 1) = WidthOf(bx, L, from, e) + bx[e].width
      BY <1>10, <3>1, WidthOfFacts
    <3>3. WidthOf(by, L, from, e + 1) = WidthOf(by, L, from, e) + by[e].width
      BY <1>10, <3>1, WidthOfFacts
    <3> QED BY <3>2, <3>3
  <2>2. e + 1 = end BY <1>1
  <2> HIDE DEF L
  <2> QED BY <2>1, <2>2, Zenon
<1>14. bx[e].width = 0 /\ by[e].width = getHyphenWidth(fs) /\ by[e].width \in Nat
  BY <1>1, <1>8, <1>9, <1>10 DEF HasWidths
<1> QED BY <1>12, <1>13, <1>14 DEF bx, by, y

\* A line that cuts no cluster and has no hard break is drawn as measured.
LEMMA LineIsDrawnAsMeasured ==
  ASSUME NEW x, IsText(x), NEW fs, AreFonts(fs), SoftIsThin(fs),
         NEW info, NEW width, IsMeasured(x, fs, info, width),
         NEW from \in 0 .. Len(x) - 1, NEW end \in from + 1 .. Len(x),
         from \in Cuts(x), end \in Cuts(x),
         \A v \in from .. end - 1 : "MUST_BREAK_AFTER" \notin info[v].flags
  PROVE  /\ x[end] # "shy" =>
              DrawnWidth(shapeLine(x, fs, info, from, end)) = WidthOf(info, Len(x), from, end)
         /\ x[end] = "shy" /\ HasHyphen(fs) =>
              DrawnWidth(shapeLine(x, fs, info, from, end))
                = WidthOf(info, Len(x), from, end) + getHyphenWidth(fs)
<1> DEFINE L == Len(x)
           y == Hyphenated(x, end)
           b == Best(x, fs, 1)
           D == DrawnWidth(shapeLine(x, fs, info, from, end))
<1>1. /\ L \in Nat /\ from \in Nat /\ end \in Nat /\ end \in 1 .. L /\ from \in 0 .. L
      /\ end \in from .. L /\ from < end /\ end <= L
  BY CharsAre
<1>2. \A v \in from .. end - 1 :
        /\ v \in Chars(x) /\ x[v + 1] # "newline"
        /\ "SCRIPT_CHANGE" \in info[v].flags <=> ChangesScript(x, v)
        /\ info[v].width = BestAt(x, fs, 1, v)
  <2> TAKE v \in from .. end - 1
  <2>1. v \in Chars(x) BY <1>1 DEF Chars
  <2>2. FlagsAre(x, v, info[v].flags) /\ info[v].width = TextWidth(x, fs, v)
    BY <2>1 DEF IsMeasured
  <2>3. x[v + 1] # "newline" BY <2>2 DEF FlagsAre
  <2> QED BY <2>1, <2>2, <2>3 DEF FlagsAre, TextWidth
<1>3. \A v \in from + 1 .. end - 1 : "SCRIPT_CHANGE" \in info[v].flags <=> EndsSegment(x, v)
  <2> TAKE v \in from + 1 .. end - 1
  <2>1. v \in from .. end - 1 /\ v - 1 \in from .. end - 1 /\ (v - 1) + 1 = v /\ v # L BY <1>1
  <2>2. x[v] # "newline" BY <1>2, <2>1
  <2>3. "SCRIPT_CHANGE" \in info[v].flags <=> ChangesScript(x, v) BY <1>2, <2>1
  <2> QED BY <2>1, <2>2, <2>3 DEF EndsSegment
<1>4. WidthOf(info, L, from, end) = WidthOf(b, L, from, end)
  <2>1. 1 \in DOMAIN fs BY DEF AreFonts
  <2>2. HasWidths(b, L) /\ \A s \in Chars(x) : b[s].width = BestAt(x, fs, 1, s)
    BY <2>1, BestIsWidth
  <2>3. HasWidths(info, L)
    <3>1. info \in [0 .. L - 1 -> CharInfo] BY CharsAre DEF IsMeasured
    <3> QED BY <3>1 DEF HasWidths, CharInfo
  <2> HIDE DEF b, L
  <2>4. \A k \in from .. end - 1 : info[k].width = b[k].width BY <1>2, <2>2
  <2> QED BY <1>1, <2>2, <2>3, <2>4, SameWidth
<1>5. ASSUME x[end] # "shy" PROVE D = WidthOf(b, L, from, end)
  <2>1. shapeLine(x, fs, info, from, end) = ShapingLine(x, fs, info, from, end)[end].glyphs
    BY <1>5 DEF shapeLine, Hyphenated
  <2>2. DrawnWidth(ShapingLine(x, fs, info, from, end)[end].glyphs) = WidthOf(b, L, from, end)
    BY <1>3, LineIsDrawn
  <2> QED BY <2>1, <2>2
<1>6. ASSUME x[end] = "shy", HasHyphen(fs)
      PROVE  D = WidthOf(b, L, from, end) + getHyphenWidth(fs)
  <2>1. shapeLine(x, fs, info, from, end) = ShapingLine(y, fs, info, from, end)[end].glyphs
    BY DEF shapeLine
  <2>2. /\ IsText(y) /\ Len(y) = L /\ Cuts(y) = Cuts(x)
        /\ \A t \in 1 .. L : EndsSegment(y, t) <=> EndsSegment(x, t)
    BY <1>1, <1>6, HyphenatedIs
  <2> HIDE DEF y
  <2>3. \A v \in from + 1 .. end - 1 : "SCRIPT_CHANGE" \in info[v].flags <=> EndsSegment(y, v)
    <3> TAKE v \in from + 1 .. end - 1
    <3>1. v \in 1 .. L BY <1>1
    <3> QED BY <1>3, <2>2, <3>1
  <2>4. /\ from \in 0 .. Len(y) - 1 /\ end \in from + 1 .. Len(y)
        /\ from \in Cuts(y) /\ end \in Cuts(y)
    BY <2>2
  <2>5. DrawnWidth(ShapingLine(y, fs, info, from, end)[end].glyphs)
          = WidthOf(Best(y, fs, 1), Len(y), from, end)
    BY <2>2, <2>3, <2>4, LineIsDrawn
  <2>6. WidthOf(Best(y, fs, 1), L, from, end) = WidthOf(b, L, from, end) + getHyphenWidth(fs)
    BY <1>6, HyphenIsAdded DEF y
  <2> QED BY <2>1, <2>2, <2>5, <2>6
<1> QED BY <1>4, <1>5, <1>6

-----------------------------------------------------------------------------
(* Lines are cut between clusters, and are as wide as they are drawn.      *)

\* Where a line may start: at a cluster, or at marks that are on a tab.
StartsAt(o) == o \in Cuts(m_text) \/ (o > 0 /\ Char(o - 1) = "tab")

\* A line that ends at e, or is cut at the character before n, is as wide as it
\* is drawn.  Without line breaking rules it may stand before a mark, until
\* the mark is looked at.
EndDraws(n, e, w, j) ==
  /\ StartsAt(n) \/ (request.loose /\ n = j)
  /\ IF Skips(n - 1)
     THEN e = (IF n - 1 > start THEN n - 2 ELSE start) /\ w = Width(start, n - 1)
     ELSE e = n - 1 /\ w = Width(start, n) + (IF m_charinfo[n - 1].soft THEN m_hyphen_width ELSE 0)

CandidateDraws == EndDraws(next_line_start_offset, candidate_end, candidate_line_width, i)

\* In the loop, the line so far and its candidate are as wide as they are drawn.
DrawnSoFar ==
  request.tabstop = 0 =>
    /\ StartsAt(start) /\ line_width = Width(start, i)
    /\ at = "end" => i \in Cuts(m_text)
    /\ candidate_end # -1 => CandidateDraws

\* A line returned is cut between clusters, and as wide as it is drawn.
LineDraws(l) ==
  /\ StartsAt(l.offset) /\ StartsAt(l.next)
  /\ l.end_offset >= l.offset /\ ~LoneSpace(l) =>
       /\ l.end_offset + 1 \in Cuts(m_text)
       /\ Char(l.end_offset) # "shy" => l.width = Width(l.offset, l.end_offset + 1)
       /\ /\ Char(l.end_offset) = "shy" /\ l.next = l.end_offset + 1
          /\ l.next # m_length /\ ~l.no_allowed_break_met
          => l.width = Width(l.offset, l.end_offset + 1) + m_hyphen_width

LinesDraw == request.tabstop = 0 => \A k \in DOMAIN lines : LineDraws(lines[k])

\* An object whose text is measured.
Ready == /\ TextTypeOK /\ IInv
         /\ IsMeasured(m_text, font_list, m_charinfo, m_width)

\* The object's text and fonts are a text and fonts.
LEMMA TextIs ==
  ASSUME TextTypeOK
  PROVE  /\ IsText(m_text) /\ AreFonts(font_list) /\ SoftIsThin(font_list)
         /\ m_length = Len(m_text) /\ m_length \in Nat /\ Offsets = Chars(m_text)
<1>1. m_text \in Texts /\ font_list \in FontLists /\ m_length = Len(m_text)
  BY DEF TextTypeOK
<1>2. IsText(m_text) BY <1>1, TextsAssumption DEF IsText
<1>3. AreFonts(font_list) BY <1>1, FontsAssumption DEF AreFonts
<1>4. SoftIsThin(font_list) BY <1>1, FontsAssumption DEF SoftIsThin
<1> QED BY <1>1, <1>2, <1>3, <1>4, CharsAre DEF Offsets, Chars

\* What a character is to makeLine: a mark, a place to cut, a soft hyphen.
LEMMA AtCharacter ==
  ASSUME Ready, NEW j \in Offsets
  PROVE  /\ IsTail(m_text, j) => /\ m_charinfo[j].width = 0 /\ ~m_charinfo[j].soft
                                 /\ ~Must(j) /\ ~Skips(j) /\ "TAB" \notin m_charinfo[j].flags
         /\ ~IsTail(m_text, j) => j \in Cuts(m_text)
         /\ {"CAN_WRAP_AFTER", "MUST_BREAK_AFTER"} \cap m_charinfo[j].flags # {} => StartsAt(j + 1)
         /\ Skips(j) => {"CAN_WRAP_AFTER", "MUST_BREAK_AFTER"} \cap m_charinfo[j].flags # {}
         /\ Must(j) => Skips(j)
         /\ m_charinfo[j].soft <=> Char(j) = "shy"
         /\ m_charinfo[j].soft => ~Skips(j)
         /\ Char(j) = "tab" => Skips(j)
<1> DEFINE x == m_text
           c == m_charinfo[j]
<1>0. TextTypeOK /\ IsMeasured(x, font_list, m_charinfo, m_width) BY DEF Ready
<1>1. /\ IsText(x) /\ AreFonts(font_list) /\ j \in Chars(x) /\ j \in Nat /\ j < Len(x)
      /\ Len(x) \in Nat
  BY <1>0, TextIs, CharsAre
<1>2. FlagsAre(x, j, c.flags) /\ (c.soft <=> x[j + 1] = "shy")
  BY <1>0, <1>1 DEF IsMeasured
<1>3. /\ IsTail(x, j) => /\ c.width = 0 /\ ~c.soft
                         /\ {"MUST_BREAK_AFTER", "SKIP_ON_BREAK", "TAB"} \cap c.flags = {}
      /\ /\ {"CAN_WRAP_AFTER", "MUST_BREAK_AFTER"} \cap c.flags # {}
         /\ IsTail(x, j + 1)
         => x[j + 1] = "tab"
      /\ "MUST_BREAK_AFTER" \in c.flags => "SKIP_ON_BREAK" \in c.flags
      /\ c.soft => {"TAB", "SKIP_ON_BREAK"} \cap c.flags = {}
  BY <1>0, <1>1, MeasuredFacts
<1>4. ~IsTail(x, j) => j \in Cuts(x)
  <2>1. j \in 0 .. Len(x) BY <1>1
  <2> QED BY <2>1 DEF Cuts
<1>5. ASSUME {"CAN_WRAP_AFTER", "MUST_BREAK_AFTER"} \cap c.flags # {} PROVE StartsAt(j + 1)
  <2>1. j + 1 \in 0 .. Len(x) /\ j + 1 > 0 /\ (j + 1) - 1 = j BY <1>1
  <2>2. CASE IsTail(x, j + 1)
    <3>1. Char(j) = "tab" BY <1>3, <1>5, <2>2 DEF Char
    <3> QED BY <2>1, <3>1 DEF StartsAt
  <2>3. CASE ~IsTail(x, j + 1) BY <2>1, <2>3 DEF StartsAt, Cuts
  <2> QED BY <2>2, <2>3
<1> HIDE DEF c
<1>6. /\ "SKIP_ON_BREAK" \in c.flags => {"CAN_WRAP_AFTER", "MUST_BREAK_AFTER"} \cap c.flags # {}
      /\ x[j + 1] = "tab" => "SKIP_ON_BREAK" \in c.flags
  BY <1>2 DEF FlagsAre
<1> QED BY <1>2, <1>3, <1>4, <1>5, <1>6 DEF c, Must, Skips, Char

\* The character at i, without tab stops.
LEMMA AtCluster ==
  ASSUME Ready, at = "scan", i < m_length, request.tabstop = 0, line_width = Width(start, i)
  PROVE  /\ i \in Offsets /\ i \in Nat /\ start \in 0 .. i
         /\ NewWidth = Width(start, i + 1)
         /\ IsTail(m_text, i) => ~Exceeds /\ ~IsHyphen /\ "MUST_BREAK_AFTER" \notin CharFlags
         /\ IsSkipped <=> Skips(i)
         /\ "MUST_BREAK_AFTER" \in CharFlags => IsSkipped
         /\ (CanBreak /\ ~request.loose) \/ IsSkipped => StartsAt(i + 1)
         /\ IsHyphen => m_charinfo[i].soft
         /\ IsOther => ~m_charinfo[i].soft
         /\ request.loose => CanBreak
<1> DEFINE c == m_charinfo[i]
<1>1. /\ IInv /\ LineTypeOK /\ i \in Offsets /\ c.width \in Nat /\ Scanning
  BY AtChar DEF Ready, IInv
<1>2. i \in Nat /\ start \in 0 .. i /\ line_width \in Nat /\ line_width <= request.width
      /\ m_length \in Nat /\ request.width \in Nat
  BY <1>1, AtRequest DEF Scanning, LineTypeOK
<1>3. NewWidth = line_width + c.width BY DEF NewWidth
<1>4. NewWidth = Width(start, i + 1)
  <2>1. Width(start, i + 1) = Width(start, i) + c.width
    <3>1. start \in 0 .. m_length /\ i \in 0 .. m_length - 1 BY <1>2
    <3> QED BY <1>1, <3>1, WidthFacts
  <2> QED BY <1>3, <2>1
<1>5. /\ IsTail(m_text, i) => c.width = 0 /\ ~c.soft /\ ~Must(i)
      /\ {"CAN_WRAP_AFTER", "MUST_BREAK_AFTER"} \cap c.flags # {} => StartsAt(i + 1)
      /\ Skips(i) => {"CAN_WRAP_AFTER", "MUST_BREAK_AFTER"} \cap c.flags # {}
      /\ Must(i) => Skips(i)
      /\ c.soft => ~Skips(i)
  BY <1>1, AtCharacter
<1> HIDE DEF c
<1>6. CharFlags = c.flags \cup (IF request.loose THEN {"CAN_WRAP_AFTER"} ELSE {})
  BY DEF CharFlags, c
<1>7. /\ "MUST_BREAK_AFTER" \in CharFlags <=> Must(i)
      /\ "SKIP_ON_BREAK" \in CharFlags <=> Skips(i)
      /\ CanBreak <=> request.loose \/ {"CAN_WRAP_AFTER", "MUST_BREAK_AFTER"} \cap c.flags # {}
  BY <1>6 DEF Must, Skips, CanBreak, c
<1>8. IsSkipped <=> Skips(i) BY <1>5, <1>7 DEF IsSkipped
<1>9. IsTail(m_text, i) => ~Exceeds
  <2>1. ASSUME IsTail(m_text, i) PROVE NewWidth = line_width BY <1>2, <1>3, <1>5, <2>1
  <2> QED BY <1>2, <2>1 DEF Exceeds
<1>10. IsHyphen <=> CanBreak /\ ~IsSkipped /\ c.soft BY DEF IsHyphen, c
<1>11. IsOther <=> CanBreak /\ ~IsSkipped /\ ~IsHyphen BY DEF IsOther
<1>12. (CanBreak /\ ~request.loose) \/ IsSkipped => StartsAt(i + 1) BY <1>5, <1>7, <1>8
<1> QED BY <1>1, <1>2, <1>4, <1>5, <1>7, <1>8, <1>9, <1>10, <1>11, <1>12 DEF c

\* A turn of the loop.
LEMMA ScanDraws ==
  ASSUME Ready, at = "scan", DrawnSoFar, Scan, UNCHANGED <<text, m_text>>
  PROVE  DrawnSoFar'
<1> SUFFICES ASSUME request.tabstop = 0
             PROVE  /\ StartsAt(start)' /\ line_width' = Width(start, i)'
                    /\ at' = "end" => i' \in Cuts(m_text)
                    /\ candidate_end' # -1 => CandidateDraws'
  BY DEF text, DrawnSoFar
<1>1. /\ i < m_length /\ start' = start /\ m_text' = m_text /\ m_length' = m_length
      /\ m_charinfo' = m_charinfo /\ request' = request /\ m_hyphen_width' = m_hyphen_width
  BY DEF Scan, text
<1>2. StartsAt(start) /\ line_width = Width(start, i) /\ (candidate_end # -1 => CandidateDraws)
  BY DEF DrawnSoFar
<1>3. /\ i \in Offsets /\ i \in Nat /\ start \in 0 .. i
      /\ NewWidth = Width(start, i + 1)
      /\ IsTail(m_text, i) => ~Exceeds /\ ~IsHyphen /\ "MUST_BREAK_AFTER" \notin CharFlags
      /\ IsSkipped <=> Skips(i)
      /\ "MUST_BREAK_AFTER" \in CharFlags => IsSkipped
      /\ (CanBreak /\ ~request.loose) \/ IsSkipped => StartsAt(i + 1)
      /\ IsHyphen => m_charinfo[i].soft
      /\ IsOther => ~m_charinfo[i].soft
      /\ request.loose => CanBreak
  BY <1>1, <1>2, AtCluster
<1>4. ~IsTail(m_text, i) => i \in Cuts(m_text) BY <1>3, AtCharacter
<1>5. \/ /\ "MUST_BREAK_AFTER" \in CharFlags \/ Stops
         /\ at' = "end" /\ i' = i /\ line_width' = line_width
      \/ /\ "MUST_BREAK_AFTER" \notin CharFlags /\ ~Stops
         /\ at' = "scan" /\ i' = i + 1 /\ line_width' = NewWidth
  BY DEF Scan
<1>6. \A a, b : Width(a, b)' = Width(a, b) BY <1>1 DEF Width
<1>7. \A o : StartsAt(o)' <=> StartsAt(o) BY <1>1 DEF StartsAt, Char
<1>8. StartsAt(start)' BY <1>1, <1>2, <1>7 DEF StartsAt, Char
<1>9. line_width' = Width(start, i)' BY <1>1, <1>2, <1>3, <1>5, <1>6 DEF Width
<1>10. at' = "end" => i' \in Cuts(m_text)
  <2>1. CASE at' = "end"
    <3>1. i' = i /\ ("MUST_BREAK_AFTER" \in CharFlags \/ Stops) BY <1>5, <2>1
    <3>2. "MUST_BREAK_AFTER" \in CharFlags \/ Exceeds \/ IsHyphen BY <3>1 DEF Stops
    <3> QED BY <1>3, <1>4, <3>1, <3>2
  <2> QED BY <2>1
<1>11. ASSUME candidate_end' # -1 PROVE CandidateDraws'
  <2> DEFINE n == next_line_start_offset'
             e == candidate_end'
             w == candidate_line_width'
  <2>1. EndDraws(n, e, w, i') <=> CandidateDraws'
    BY <1>1 DEF CandidateDraws, EndDraws, Skips, Width, StartsAt, Char
  <2>2. Candidate BY DEF Scan
  <2>3. (i + 1) - 1 = i /\ (i + 1) - 2 = i - 1 BY <1>3
  <2>4. ASSUME ~IsSkipped, CanBreak, ~Exceeds, IsHyphen => Avoided \/ HyphenFits
        PROVE  StartsAt(i + 1) \/ (request.loose /\ i + 1 = i')
    <3>1. "MUST_BREAK_AFTER" \notin CharFlags /\ ~Stops BY <1>3, <2>4 DEF Stops
    <3>2. i' = i + 1 BY <1>5, <3>1
    <3> QED BY <1>3, <2>4, <3>2
  <2>5. CASE IsSkipped /\ SetCandidate(IF i > start THEN i - 1 ELSE start, line_width, FALSE)
    <3>1. n = i + 1 /\ e = (IF i > start THEN i - 1 ELSE start) /\ w = line_width
      BY <2>5 DEF SetCandidate
    <3> HIDE DEF n, e, w
    <3>2. Skips(i) /\ StartsAt(i + 1) BY <1>3, <2>5
    <3>3. EndDraws(n, e, w, i') BY <1>2, <2>3, <3>1, <3>2 DEF EndDraws
    <3> QED BY <2>1, <3>3
  <2>6. CASE IsHyphen /\ ~Exceeds /\ ~Avoided /\ HyphenFits
             /\ SetCandidate(i, NewWidth + m_hyphen_width, TRUE)
    <3>1. n = i + 1 /\ e = i /\ w = NewWidth + m_hyphen_width BY <2>6 DEF SetCandidate
    <3> HIDE DEF n, e, w
    <3>2. ~IsSkipped /\ CanBreak /\ m_charinfo[i].soft BY <1>3, <2>6 DEF IsHyphen
    <3>3. StartsAt(i + 1) \/ (request.loose /\ i + 1 = i') BY <2>4, <2>6, <3>2
    <3>4. EndDraws(n, e, w, i') BY <1>3, <2>3, <3>1, <3>2, <3>3 DEF EndDraws
    <3> QED BY <2>1, <3>4
  <2>7. CASE IsOther /\ ~Exceeds /\ SetCandidate(i, NewWidth, FALSE)
    <3>1. n = i + 1 /\ e = i /\ w = NewWidth BY <2>7 DEF SetCandidate
    <3> HIDE DEF n, e, w
    <3>2. ~IsSkipped /\ CanBreak /\ ~IsHyphen /\ ~m_charinfo[i].soft BY <1>3, <2>7 DEF IsOther
    <3>3. StartsAt(i + 1) \/ (request.loose /\ i + 1 = i') BY <2>4, <2>7, <3>2
    <3>4. Width(start, i + 1) \in Int
      <4>1. LineTypeOK BY DEF Ready, IInv
      <4>2. start \in 0 .. m_length /\ i + 1 \in 0 .. m_length BY <1>1, <1>3, <4>1 DEF LineTypeOK
      <4> QED BY <4>1, <4>2, WidthFacts
    <3>5. EndDraws(n, e, w, i') BY <1>3, <2>3, <3>1, <3>2, <3>3, <3>4 DEF EndDraws
    <3> QED BY <2>1, <3>5
  <2>8. CASE (~CanBreak \/ (IsHyphen /\ (Stops \/ Avoided)) \/ (IsOther /\ Exceeds))
             /\ UNCHANGED candidate
    <3>1. /\ n = next_line_start_offset /\ e = candidate_end /\ w = candidate_line_width
      BY <2>8 DEF candidate
    <3>2. EndDraws(n, e, w, i) BY <1>2, <1>11, <3>1 DEF CandidateDraws
    <3> HIDE DEF n, e, w
    <3>3. StartsAt(n)
      <4>1. CASE request.loose /\ n = i
        <5>1. IsHyphen \/ Exceeds BY <1>3, <2>8, <4>1
        <5>2. i \in Cuts(m_text) BY <1>3, <1>4, <5>1
        <5> QED BY <4>1, <5>2 DEF StartsAt
      <4> QED BY <3>2, <4>1 DEF EndDraws
    <3>4. EndDraws(n, e, w, i') BY <3>2, <3>3 DEF EndDraws
    <3> QED BY <2>1, <3>4
  <2> QED BY <2>2, <2>5, <2>6, <2>7, <2>8 DEF Candidate
<1> QED BY <1>1, <1>8, <1>9, <1>10, <1>11

\* The loop's end with the text.
LEMMA ScanOverDraws ==
  ASSUME Ready, DrawnSoFar, ScanOver, UNCHANGED <<text, m_text>>
  PROVE  DrawnSoFar'
<1>1. /\ i = m_length /\ start' = start /\ i' = i /\ line_width' = line_width
      /\ candidate_end' = candidate_end /\ candidate_line_width' = candidate_line_width
      /\ next_line_start_offset' = next_line_start_offset
      /\ m_text' = m_text /\ m_length' = m_length /\ m_charinfo' = m_charinfo
      /\ request' = request /\ m_hyphen_width' = m_hyphen_width
  BY DEF ScanOver, text, candidate
<1>2. i \in Cuts(m_text)
  <2>1. m_length = Len(m_text) /\ m_length \in Nat BY TextIs DEF Ready
  <2> QED BY <1>1, <2>1 DEF Cuts
<1>3. CandidateDraws => CandidateDraws'
  BY <1>1 DEF CandidateDraws, EndDraws, Skips, Width, StartsAt, Char
<1>4. StartsAt(start) => StartsAt(start)' BY <1>1 DEF StartsAt, Char
<1>5. (line_width = Width(start, i))' <=> line_width = Width(start, i) BY <1>1 DEF Width
<1> QED BY <1>1, <1>2, <1>3, <1>4, <1>5 DEF DrawnSoFar

\* The line returned.
LEMMA MadeLineDraws ==
  ASSUME Ready, at = "end", DrawnSoFar, request.tabstop = 0
  PROVE  LineDraws(MadeLine)
<1> DEFINE l == MadeLine
           n == next_line_start_offset
           e == candidate_end
<1>1. /\ start \in Nat /\ i \in Nat /\ m_length \in Nat /\ i \in start .. m_length
      /\ e \in Int /\ n \in Int /\ start < m_length
      /\ e = -1 \/ CandidateFits
      /\ LoopEnd
  BY DEF Ready, IInv, LineTypeOK, Scanning, HasNextLine
<1>2. /\ StartsAt(start) /\ line_width = Width(start, i) /\ i \in Cuts(m_text)
      /\ e # -1 => EndDraws(n, e, candidate_line_width, i)
  BY DEF DrawnSoFar, CandidateDraws
<1>3. /\ l.offset = start
      /\ l.end_offset = (CASE IsEmpty -> start - 1 [] TakesAll -> i - 1 [] OTHER -> e)
      /\ l.width = (CASE IsEmpty -> 0 [] TakesAll -> line_width [] OTHER -> candidate_line_width)
      /\ l.next = (IF TakesAll THEN i ELSE n)
      /\ l.no_allowed_break_met = (TakesAll /\ i # m_length)
  BY DEF MadeLine
<1> HIDE DEF l, n, e
<1>4. e # -1 => StartsAt(n) BY <1>2 DEF EndDraws, StartsAt
<1>5. CASE IsEmpty
  <2>1. forced_break /\ i = start /\ ~TakesAll BY <1>5 DEF IsEmpty, TakesAll
  <2>2. e >= 0 BY <1>1, <2>1 DEF LoopEnd, e
  <2>3. l.end_offset = start - 1 /\ l.next = n BY <1>3, <1>5, <2>1
  <2>4. e # -1 BY <1>1, <2>2
  <2>5. StartsAt(l.offset) /\ StartsAt(l.next) BY <1>2, <1>3, <1>4, <2>3, <2>4
  <2>6. ~(l.end_offset >= l.offset) BY <1>1, <1>3, <2>3
  <2> QED BY <2>5, <2>6 DEF LineDraws, l
<1>6. CASE TakesAll
  <2>1. ~forced_break /\ ~IsEmpty BY <1>6 DEF TakesAll, IsEmpty
  <2>2. l.end_offset = i - 1 /\ l.width = line_width /\ l.next = i BY <1>3, <1>6, <2>1
  <2>3. StartsAt(i) BY <1>2 DEF StartsAt
  <2>4. l.end_offset + 1 = i BY <1>1, <2>2
  <2>5. l.no_allowed_break_met \/ l.next = m_length BY <1>3, <1>6, <2>2
  <2> QED BY <1>2, <1>3, <2>2, <2>3, <2>4, <2>5 DEF LineDraws, l
<1>7. CASE ~IsEmpty /\ ~TakesAll
  <2>1. e # -1
    <3>1. CASE forced_break BY <1>1, <3>1 DEF LoopEnd, e
    <3>2. CASE ~forced_break BY <1>1, <1>7, <3>2 DEF TakesAll, e
    <3> QED BY <3>1, <3>2
  <2>2. l.end_offset = e /\ l.width = candidate_line_width /\ l.next = n BY <1>3, <1>7
  <2>3. n \in start + 1 .. m_length
    <3>1. CandidateFits BY <1>1, <2>1
    <3> QED BY <1>1, <3>1 DEF CandidateFits, n
  <2>4. EndDraws(n, e, candidate_line_width, i) /\ StartsAt(n) BY <1>2, <1>4, <2>1
  <2>5. n - 1 \in Offsets /\ n \in Nat /\ (n - 1) + 1 = n /\ (n - 2) + 1 = n - 1
    BY <1>1, <2>3 DEF Offsets
  <2>6. /\ IsTail(m_text, n - 1) => ~Skips(n - 1)
        /\ ~IsTail(m_text, n - 1) => n - 1 \in Cuts(m_text)
        /\ m_charinfo[n - 1].soft <=> Char(n - 1) = "shy"
        /\ Char(n - 1) = "tab" => Skips(n - 1)
    BY <2>5, AtCharacter
  <2>7. CASE Skips(n - 1) /\ n - 1 > start
    <3>1. e = n - 2 /\ candidate_line_width = Width(start, n - 1) BY <2>4, <2>7 DEF EndDraws
    <3>2. l.end_offset + 1 = n - 1 /\ l.next # l.end_offset + 1 BY <2>2, <2>5, <3>1
    <3>3. n - 1 \in Cuts(m_text) BY <2>6, <2>7
    <3> QED BY <1>2, <1>3, <2>2, <2>4, <3>1, <3>2, <3>3 DEF LineDraws, l
  <2>8. CASE Skips(n - 1) /\ ~(n - 1 > start)
    <3>1. e = start BY <2>4, <2>8 DEF EndDraws
    <3>2. n - 1 = start BY <1>1, <2>3, <2>5, <2>8
    <3>3. LoneSpace(l) BY <1>3, <2>2, <2>8, <3>1, <3>2 DEF LoneSpace, Skips
    <3> QED BY <1>2, <1>3, <2>2, <2>4, <3>3 DEF LineDraws, l
  <2>9. CASE ~Skips(n - 1)
    <3>1. /\ e = n - 1
          /\ candidate_line_width =
               Width(start, n) + (IF m_charinfo[n - 1].soft THEN m_hyphen_width ELSE 0)
      BY <2>4, <2>9 DEF EndDraws
    <3>2. n \in Cuts(m_text) BY <2>4, <2>6, <2>9 DEF StartsAt
    <3>3. l.end_offset + 1 = n /\ l.end_offset = n - 1 BY <2>2, <2>5, <3>1
    <3>4. Width(start, n) \in Int
      <4>1. LineTypeOK BY DEF Ready, IInv
      <4>2. start \in 0 .. m_length /\ n \in 0 .. m_length BY <1>1, <2>3
      <4> QED BY <4>1, <4>2, WidthFacts
    <3>5. Char(n - 1) # "shy" => l.width = Width(start, n)
      BY <2>2, <2>6, <3>1, <3>4
    <3>6. Char(n - 1) = "shy" => l.width = Width(start, n) + m_hyphen_width
      BY <2>2, <2>6, <3>1
    <3> QED BY <1>2, <1>3, <2>2, <2>4, <3>2, <3>3, <3>5, <3>6 DEF LineDraws, l
  <2> QED BY <2>7, <2>8, <2>9
<1> QED BY <1>5, <1>6, <1>7

\* The line returned joins the others.
LEMMA ReturnDraws ==
  ASSUME Ready, DrawnSoFar, LinesDraw, Return, UNCHANGED <<text, m_text>>
  PROVE  LinesDraw'
<1>1. /\ at = "end" /\ lines' = Append(lines, MadeLine) /\ m_text' = m_text
      /\ m_length' = m_length /\ m_charinfo' = m_charinfo /\ request' = request
      /\ m_hyphen_width' = m_hyphen_width
  BY DEF Return, text
<1>2. lines \in Seq(Line) /\ Len(lines) \in Nat /\ MadeLine \in Line
  BY <1>1, MadeLineGoesOn DEF Ready, IInv, LineTypeOK
<1>3. SUFFICES ASSUME request.tabstop = 0, NEW k \in DOMAIN lines'
               PROVE  LineDraws(lines'[k])
  BY <1>1 DEF LinesDraw, LineDraws, LoneSpace, StartsAt, Char, Width
<1>4. DOMAIN lines' = 1 .. Len(lines) + 1 BY <1>1, <1>2
<1>5. CASE k \in 1 .. Len(lines)
  <2>1. k \in DOMAIN lines /\ lines'[k] = lines[k] BY <1>1, <1>2, <1>5
  <2> QED BY <1>3, <2>1 DEF LinesDraw
<1>6. CASE k = Len(lines) + 1
  <2>1. lines'[k] = MadeLine BY <1>1, <1>2, <1>6
  <2> QED BY <1>1, <1>3, <2>1, MadeLineDraws
<1> QED BY <1>2, <1>4, <1>5, <1>6

\* The lines returned stay as they are while the text is not touched.
LEMMA LinesStayDrawn ==
  ASSUME LinesDraw, UNCHANGED <<text, m_text, lines>>
  PROVE  LinesDraw'
BY DEF text, LinesDraw, LineDraws, LoneSpace, StartsAt, Char, Width

\* The next line starts between clusters too.
LEMMA makeLineDraws ==
  ASSUME Ready, LinesDraw, makeLine, UNCHANGED <<text, m_text>>
  PROVE  DrawnSoFar'
<1>1. /\ start' = NextOffset /\ i' = NextOffset /\ line_width' = 0 /\ candidate_end' = -1
      /\ at' = "scan" /\ NextOffset < m_length /\ m_text' = m_text /\ m_length' = m_length
      /\ m_charinfo' = m_charinfo /\ request' = request
  BY DEF makeLine, HasNextLine, text
<1>2. NextOffset \in Nat /\ m_length \in Nat /\ LineTypeOK
  BY NextOffsetIsNat DEF Ready, IInv, LineTypeOK
<1>3. Width(NextOffset, NextOffset) = 0
  <2>1. NextOffset \in 0 .. m_length BY <1>1, <1>2
  <2> QED BY <1>2, <2>1, WidthFacts
<1>4. request.tabstop = 0 => StartsAt(NextOffset)
  <2>1. CASE lines = <<>>
    <3>1. NextOffset = 0 BY <2>1 DEF NextOffset
    <3>2. 0 \in Cuts(m_text)
      <4>1. Len(m_text) \in Nat BY TextIs DEF Ready
      <4> QED BY <4>1 DEF Cuts, IsTail
    <3> QED BY <3>1, <3>2 DEF StartsAt
  <2>2. CASE lines # <<>>
    <3>1. Len(lines) \in DOMAIN lines BY <1>2, <2>2 DEF LineTypeOK
    <3>2. request.tabstop = 0 => LineDraws(lines[Len(lines)]) BY <3>1 DEF LinesDraw
    <3> QED BY <2>2, <3>2 DEF NextOffset, LineDraws
  <2> QED BY <2>1, <2>2
<1>5. StartsAt(start)' <=> StartsAt(NextOffset) BY <1>1 DEF StartsAt, Char
<1>6. (line_width = Width(start, i))' BY <1>1, <1>3 DEF Width
<1> QED BY <1>1, <1>4, <1>5, <1>6 DEF DrawnSoFar

-----------------------------------------------------------------------------
(* The object: measured once, then cut into lines.                         *)

\* An object whose text is not measured yet has no lines.
NotYetMeasured == at = "idle" /\ lines = <<>> /\ \A j \in Offsets : m_charinfo[j] = Blank

\* The invariant: as measure leaves the text and makeLine the lines.
TextInv ==
  /\ TextTypeOK /\ LongestInv /\ LinesDraw
  /\ m_hyphen_width = getHyphenWidth(font_list)
  /\ IF m_is_measured THEN IsMeasured(m_text, font_list, m_charinfo, m_width) ELSE NotYetMeasured
  /\ at # "idle" => DrawnSoFar

\* The width of a hyphen is a number.
LEMMA HyphenIsWidth ==
  ASSUME NEW fs, AreFonts(fs)
  PROVE  getHyphenWidth(fs) \in Nat
<1> DEFINE H == {n \in DOMAIN fs : fs[n]["hyphen"].found}
           N == Len(fs)
<1>1. N \in Nat /\ DOMAIN fs = 1 .. N /\ 1 <= N BY DEF AreFonts
<1>2. \A n \in DOMAIN fs : fs[n]["hyphen"].width \in Nat
  <2> TAKE n \in DOMAIN fs
  <2>1. fs[n] \in [Characters -> Glyph] BY DEF AreFonts
  <2>2. fs[n]["hyphen"] \in Glyph BY <2>1, TextsAssumption
  <2> QED BY <2>2 DEF Glyph
<1>3. getHyphenWidth(fs) = IF H = {} THEN 0 ELSE fs[Min(H)]["hyphen"].width
  BY DEF getHyphenWidth
<1>4. H \in SUBSET (1 .. N) BY <1>1
<1> HIDE DEF H, N
<1>5. CASE H # {}
  <2>1. 1 \in Int /\ N \in Int BY <1>1
  <2>2. Min(H) \in H BY <1>4, <1>5, <2>1, LeastOf
  <2> QED BY <1>1, <1>2, <1>3, <1>4, <1>5, <2>2
<1> QED BY <1>3, <1>5

\* What is measured is what makeLine expects.
LEMMA MeasuredWell ==
  ASSUME TextTypeOK, NEW info, NEW width, IsMeasured(m_text, font_list, info, width)
  PROVE  /\ info \in [Offsets -> CharInfo] /\ width \in Nat
         /\ \A j \in Offsets :
              /\ "MUST_BREAK_AFTER" \in info[j].flags => "SKIP_ON_BREAK" \in info[j].flags
              /\ info[j].soft => {"TAB", "SKIP_ON_BREAK"} \cap info[j].flags = {}
<1>1. IsText(m_text) /\ AreFonts(font_list) /\ Offsets = Chars(m_text) BY TextIs
<1>2. info \in [Offsets -> CharInfo] /\ width \in Nat BY <1>1 DEF IsMeasured
<1>3. ASSUME NEW j \in Offsets
      PROVE  /\ "MUST_BREAK_AFTER" \in info[j].flags => "SKIP_ON_BREAK" \in info[j].flags
             /\ info[j].soft => {"TAB", "SKIP_ON_BREAK"} \cap info[j].flags = {}
  <2>1. j \in Chars(m_text) BY <1>1
  <2> QED BY <1>1, <2>1, MeasuredFacts
<1> QED BY <1>2, <1>3

\* Measure, in any method.
LEMMA MeasureKeeps ==
  ASSUME TextInv, Measure, UNCHANGED <<m_length, m_hyphen_width, request, m_text, font_list>>
  PROVE  /\ m_is_measured' = TRUE /\ Offsets' = Offsets
         /\ m_charinfo' \in [Offsets -> CharInfo] /\ m_width' \in Nat
         /\ IsMeasured(m_text, font_list, m_charinfo, m_width)' /\ WellMeasured'
         /\ m_is_measured => UNCHANGED <<text, m_width>>
<1>1. IsMeasured(m_text, font_list, m_charinfo', m_width')
  <2>1. CASE m_is_measured
    <3>1. m_charinfo' = m_charinfo /\ m_width' = m_width BY <2>1 DEF Measure
    <3> QED BY <2>1, <3>1 DEF TextInv
  <2>2. CASE ~m_is_measured
    <3>1. /\ m_charinfo' = measure(m_text, font_list).info
          /\ m_width' = measure(m_text, font_list).width
      BY <2>2 DEF Measure
    <3>2. IsText(m_text) /\ AreFonts(font_list) BY TextIs DEF TextInv
    <3> QED BY <3>1, <3>2, measureIs
  <2> QED BY <2>1, <2>2
<1>2. /\ m_charinfo' \in [Offsets -> CharInfo] /\ m_width' \in Nat
      /\ \A j \in Offsets :
           /\ "MUST_BREAK_AFTER" \in m_charinfo'[j].flags
                => "SKIP_ON_BREAK" \in m_charinfo'[j].flags
           /\ m_charinfo'[j].soft => {"TAB", "SKIP_ON_BREAK"} \cap m_charinfo'[j].flags = {}
  BY <1>1, MeasuredWell DEF TextInv
<1>3. Offsets' = Offsets BY DEF Offsets
<1>4. WellMeasured' BY <1>2, <1>3 DEF WellMeasured
<1>5. IsMeasured(m_text, font_list, m_charinfo, m_width)' BY <1>1 DEF IsMeasured
<1>6. m_is_measured' = TRUE /\ (m_is_measured => UNCHANGED <<text, m_width>>)
  BY DEF Measure, text
<1> QED BY <1>2, <1>3, <1>4, <1>5, <1>6

\* It holds of a new object.
LEMMA TextInitInvariant == TextInit => TextInv
<1> SUFFICES ASSUME TextInit PROVE TextInv OBVIOUS
<1>1. /\ m_text \in Texts /\ font_list \in FontLists /\ request \in Requests
      /\ m_length = Len(m_text) /\ m_charinfo = [j \in Chars(m_text) |-> Blank]
      /\ m_hyphen_width = getHyphenWidth(font_list) /\ m_width = 0
      /\ m_is_measured = FALSE /\ m_no_longer_usable = FALSE /\ LineInit
  BY DEF TextInit
<1>2. IsText(m_text) /\ AreFonts(font_list)
  BY <1>1, TextsAssumption, FontsAssumption DEF IsText, AreFonts
<1>3. m_length \in Nat /\ Offsets = Chars(m_text) BY <1>1, <1>2, CharsAre DEF Offsets, Chars
<1>4. m_hyphen_width \in Nat BY <1>1, <1>2, HyphenIsWidth
<1>5. Blank \in CharInfo /\ Blank.flags = {} /\ Blank.soft = FALSE BY DEF Blank, CharInfo
<1>6. \A j \in Offsets : m_charinfo[j] = Blank BY <1>1, <1>3
<1>7. m_charinfo \in [Offsets -> CharInfo] BY <1>1, <1>3, <1>5
<1>8. WellMeasured BY <1>5, <1>6 DEF WellMeasured
<1>9. AnyText BY <1>1, <1>3, <1>4, <1>7, <1>8 DEF AnyText
<1>10. IInv BY <1>9, LineInitInvariant
<1>11. lines = <<>> /\ at = "idle" BY <1>1 DEF LineInit
<1>12. LongestInv /\ LinesDraw
  BY <1>10, <1>11 DEF LongestInv, LongestLine, LinesDraw
<1>13. TextTypeOK BY <1>1, <1>10 DEF TextTypeOK, IInv
<1>14. NotYetMeasured BY <1>6, <1>11 DEF NotYetMeasured
<1> QED BY <1>1, <1>11, <1>12, <1>13, <1>14 DEF TextInv

\* The first line of a text that was not measured.
LEMMA FirstLine ==
  ASSUME TextInv, ~m_is_measured, Measure, makeLine,
         UNCHANGED <<m_length, m_hyphen_width, request, m_text, font_list>>
  PROVE  LongestInv' /\ DrawnSoFar' /\ LinesDraw'
<1>1. /\ lines = <<>> /\ LineTypeOK /\ IsText(m_text) /\ m_length = Len(m_text) /\ m_length \in Nat
  BY TextIs DEF TextInv, NotYetMeasured, TextTypeOK
<1>2. /\ at' = "scan" /\ start' = 0 /\ i' = 0 /\ line_width' = 0 /\ extendable_width' = 0
      /\ candidate_end' = -1 /\ candidate_line_width' = 0 /\ next_line_start_offset' = -1
      /\ lines' = <<>> /\ 0 < m_length
  BY <1>1 DEF makeLine, NextOffset, HasNextLine
<1>3. forced_break' = FALSE /\ candidate_is_soft_hyphen' = TRUE BY DEF makeLine
<1>4. WellMeasured' /\ m_charinfo' \in [Offsets' -> CharInfo] BY MeasureKeeps
<1>5. LineTypeOK'
  <2>1. lines' \in Seq(Line) BY <1>2
  <2>2. candidate_is_soft_hyphen' \in BOOLEAN /\ forced_break' \in BOOLEAN BY <1>3, Zenon
  <2>3. m_length' \in Nat /\ m_hyphen_width' \in Nat /\ request' \in Requests
    BY <1>1 DEF LineTypeOK
  <2> QED BY <1>2, <1>4, <2>1, <2>2, <2>3 DEF LineTypeOK
<1>6. LinesTile' /\ LinesFit' /\ LongestLine' /\ LinesDraw'
  BY <1>2 DEF LinesTile, LinesFit, LongestLine, LinesDraw
<1>7. HasNextLine' /\ start' = NextOffset' BY <1>2 DEF HasNextLine, NextOffset
<1>8. request'.width \in Nat BY AtRequest DEF TextInv, LongestInv, IInv
<1>9. Scanning'
  <2>1. NoBreakBefore(i - 1)' BY <1>2 DEF NoBreakBefore
  <2> QED BY <1>1, <1>2, <1>3, <1>7, <1>8, <2>1 DEF Scanning
<1>10. IInv' BY <1>4, <1>5, <1>6, <1>9 DEF IInv
<1>11. Width(0, 0)' = 0
  <2>1. m_length' \in Nat /\ Offsets' = 0 .. m_length' - 1 BY <1>5 DEF LineTypeOK, Offsets
  <2>2. HasWidths(m_charinfo', m_length') BY <1>4, <2>1 DEF HasWidths, CharInfo
  <2>3. 0 \in 0 .. m_length' BY <2>1
  <2>4. WidthOf(m_charinfo', m_length', 0, 0) = 0 BY <2>1, <2>2, <2>3, WidthOfFacts
  <2> QED BY <2>4 DEF Width
<1>12. (line_width = Width(start, i))' BY <1>2, <1>11 DEF Width
<1>13. LongestSoFar'
  <2>1. NotOver(start, i)' BY <1>2 DEF NotOver
  <2>2. (Looked = i)' BY <1>2 DEF Looked
  <2>3. (\A j \in Offsets : ~Found(j))' BY <1>2, <2>2 DEF Found
  <2> QED BY <1>2, <1>12, <2>1, <2>3 DEF LongestSoFar
<1>14. StartsAt(start)'
  <2>1. 0 \in Cuts(m_text) BY <1>1 DEF Cuts, IsTail
  <2> QED BY <1>2, <2>1 DEF StartsAt
<1> QED BY <1>2, <1>6, <1>10, <1>12, <1>13, <1>14 DEF LongestInv, DrawnSoFar

\* What does not touch the lines nor the text keeps what is known of them.
LEMMA SameObject ==
  ASSUME TextInv, UNCHANGED <<text, lineVars, m_text, font_list, m_is_measured, m_width>>,
         m_no_longer_usable' \in BOOLEAN
  PROVE  TextInv'
<1>1. LongestInv' BY LineNextLongest DEF TextInv
<1>2. /\ at' = at /\ start' = start /\ i' = i /\ line_width' = line_width
      /\ candidate_end' = candidate_end /\ candidate_line_width' = candidate_line_width
      /\ next_line_start_offset' = next_line_start_offset /\ lines' = lines
      /\ m_text' = m_text /\ m_length' = m_length /\ m_charinfo' = m_charinfo
      /\ request' = request /\ m_hyphen_width' = m_hyphen_width
      /\ font_list' = font_list /\ m_is_measured' = m_is_measured /\ m_width' = m_width
  BY DEF lineVars, candidate, text
<1>3. TextTypeOK' BY <1>1, <1>2 DEF TextInv, TextTypeOK, LongestInv, IInv
<1>4. LinesDraw' BY <1>2, LinesStayDrawn DEF TextInv, text
<1>5. DrawnSoFar => DrawnSoFar'
  BY <1>2 DEF DrawnSoFar, CandidateDraws, EndDraws, Skips, Width, StartsAt, Char
<1>6. (m_hyphen_width = getHyphenWidth(font_list))' BY <1>2 DEF TextInv
<1>7. CASE m_is_measured
  <2>1. IsMeasured(m_text, font_list, m_charinfo, m_width)' BY <1>2, <1>7 DEF TextInv
  <2> QED BY <1>1, <1>2, <1>3, <1>4, <1>5, <1>6, <1>7, <2>1 DEF TextInv
<1>8. CASE ~m_is_measured
  <2>1. NotYetMeasured' BY <1>2, <1>8 DEF TextInv, NotYetMeasured, Offsets
  <2> QED BY <1>1, <1>2, <1>3, <1>4, <1>5, <1>6, <1>8, <2>1 DEF TextInv
<1> QED BY <1>7, <1>8

\* It is kept when the text is measured for its width.
LEMMA XText_measureKeeps == ASSUME TextInv, XText_measure PROVE TextInv'
<1>1. /\ Measure /\ at = "idle"
      /\ UNCHANGED <<m_length, m_hyphen_width, request, m_text, font_list, m_no_longer_usable, lineVars>>
  BY DEF XText_measure
<1>2. /\ m_is_measured' = TRUE /\ Offsets' = Offsets
      /\ m_charinfo' \in [Offsets -> CharInfo] /\ m_width' \in Nat
      /\ IsMeasured(m_text, font_list, m_charinfo, m_width)' /\ WellMeasured'
      /\ m_is_measured => UNCHANGED <<text, m_width>>
  BY <1>1, MeasureKeeps
<1>3. CASE m_is_measured
  <2>1. UNCHANGED <<text, lineVars, m_text, font_list, m_is_measured, m_width>>
    BY <1>1, <1>2, <1>3 DEF TextInv, TextTypeOK
  <2>2. m_no_longer_usable' \in BOOLEAN BY <1>1 DEF TextInv, TextTypeOK
  <2> QED BY <2>1, <2>2, SameObject
<1>4. CASE ~m_is_measured
  <2>1. /\ at' = "idle" /\ lines' = <<>> /\ m_length' = m_length /\ start' = start /\ i' = i
        /\ line_width' = line_width /\ candidate_end' = candidate_end
        /\ candidate_line_width' = candidate_line_width
        /\ next_line_start_offset' = next_line_start_offset
        /\ candidate_is_soft_hyphen' = candidate_is_soft_hyphen
        /\ extendable_width' = extendable_width /\ forced_break' = forced_break
    BY <1>1, <1>4 DEF TextInv, NotYetMeasured, lineVars, candidate
  <2>2. LineTypeOK
    BY DEF TextInv, TextTypeOK
  <2>3. lines' \in Seq(Line) BY <2>1
  <2>4. LineTypeOK' BY <1>1, <1>2, <2>1, <2>2, <2>3 DEF LineTypeOK
  <2>5. LongestInv' /\ LinesDraw'
    BY <1>2, <2>1, <2>4 DEF LongestInv, IInv, LinesTile, LinesFit, LongestLine, LinesDraw
  <2>6. TextTypeOK' BY <1>1, <1>2, <2>4 DEF TextInv, TextTypeOK
  <2>7. (m_hyphen_width = getHyphenWidth(font_list))' BY <1>1 DEF TextInv
  <2> QED BY <1>2, <2>1, <2>5, <2>6, <2>7 DEF TextInv
<1> QED BY <1>3, <1>4

\* It is kept when a line is asked for.
LEMMA XText_makeLineKeeps == ASSUME TextInv, XText_makeLine PROVE TextInv'
<1>1. /\ Measure /\ makeLine
      /\ UNCHANGED <<m_length, m_hyphen_width, request, m_text, font_list, m_no_longer_usable>>
  BY DEF XText_makeLine
<1>2. /\ m_is_measured' = TRUE /\ m_width' \in Nat
      /\ IsMeasured(m_text, font_list, m_charinfo, m_width)'
      /\ m_is_measured => UNCHANGED <<text, m_width>>
  BY <1>1, MeasureKeeps
<1>3. LongestInv' /\ DrawnSoFar' /\ LinesDraw'
  <2>1. CASE m_is_measured
    <3>1. UNCHANGED text /\ UNCHANGED <<text, m_text>> BY <1>1, <1>2, <2>1
    <3>2. Ready BY <2>1 DEF TextInv, Ready, LongestInv
    <3>3. LongestInv' BY <1>1, <3>1, LineNextLongest DEF TextInv, LineNext
    <3>4. DrawnSoFar' BY <1>1, <3>1, <3>2, makeLineDraws DEF TextInv
    <3>5. lines' = lines BY <1>1 DEF makeLine
    <3>6. LinesDraw' BY <3>1, <3>5, LinesStayDrawn DEF TextInv
    <3> QED BY <3>3, <3>4, <3>6
  <2>2. CASE ~m_is_measured BY <1>1, <2>2, FirstLine
  <2> QED BY <2>1, <2>2
<1>4. TextTypeOK' BY <1>1, <1>2, <1>3 DEF TextInv, TextTypeOK, LongestInv, IInv
<1>5. (m_hyphen_width = getHyphenWidth(font_list))' BY <1>1 DEF TextInv
<1> QED BY <1>2, <1>3, <1>4, <1>5 DEF TextInv

\* It is kept by each turn of makeLine.
LEMMA MakingLineKeeps == ASSUME TextInv, MakingLine PROVE TextInv'
<1>1. /\ Scan \/ ScanOver \/ Return
      /\ UNCHANGED text /\ UNCHANGED <<text, m_text>>
      /\ UNCHANGED <<m_text, font_list, m_is_measured, m_no_longer_usable, m_width>>
  BY DEF MakingLine, textVars
<1>2. at # "idle" BY <1>1 DEF Scan, ScanOver, Return
<1>3. m_is_measured /\ IsMeasured(m_text, font_list, m_charinfo, m_width) /\ DrawnSoFar
  BY <1>2 DEF TextInv, NotYetMeasured
<1>4. Ready BY <1>3 DEF TextInv, Ready, LongestInv
<1>5. LongestInv' BY <1>1, LineNextLongest DEF TextInv, LineNext
<1>6. LinesDraw' /\ (at' # "idle" => DrawnSoFar')
  <2>1. CASE Scan
    <3>1. lines' = lines /\ at = "scan" BY <2>1 DEF Scan
    <3>2. LinesDraw' BY <1>1, <3>1, LinesStayDrawn DEF TextInv
    <3> QED BY <1>1, <1>3, <1>4, <2>1, <3>1, <3>2, ScanDraws
  <2>2. CASE ScanOver
    <3>1. lines' = lines BY <2>2 DEF ScanOver
    <3>2. LinesDraw' BY <1>1, <3>1, LinesStayDrawn DEF TextInv
    <3> QED BY <1>1, <1>3, <1>4, <2>2, <3>2, ScanOverDraws
  <2>3. CASE Return
    <3>1. at' = "idle" BY <2>3 DEF Return
    <3>2. LinesDraw' BY <1>1, <1>3, <1>4, <2>3, ReturnDraws DEF TextInv
    <3> QED BY <3>1, <3>2
  <2> QED BY <1>1, <2>1, <2>2, <2>3
<1>7. TextTypeOK' BY <1>1, <1>5 DEF TextInv, TextTypeOK, LongestInv, IInv, text
<1>8. (m_hyphen_width = getHyphenWidth(font_list))' BY <1>1 DEF TextInv, text
<1>9. IsMeasured(m_text, font_list, m_charinfo, m_width)' /\ m_is_measured'
  BY <1>1, <1>3 DEF text
<1> QED BY <1>5, <1>6, <1>7, <1>8, <1>9 DEF TextInv

\* The text is measured once, with the flags makeLine relies on, and every line
\* is cut between clusters and as wide as it is drawn.
THEOREM TextInvariance == TextSpec => []TextInv
<1>1. TextInv /\ [TextNext]_objectVars => TextInv'
  <2> SUFFICES ASSUME TextInv, [TextNext]_objectVars PROVE TextInv' OBVIOUS
  <2>1. CASE XText_measure BY <2>1, XText_measureKeeps
  <2>2. CASE XText_makeLine BY <2>2, XText_makeLineKeeps
  <2>3. CASE MakingLine BY <2>3, MakingLineKeeps
  <2>4. CASE XText_free
    <3>1. m_no_longer_usable' \in BOOLEAN BY <2>4 DEF XText_free
    <3>2. UNCHANGED <<text, lineVars, m_text, font_list, m_is_measured, m_width>>
      BY <2>4 DEF XText_free
    <3> QED BY <3>1, <3>2, SameObject
  <2>5. CASE UNCHANGED objectVars
    <3>1. UNCHANGED <<text, lineVars, m_text, font_list, m_is_measured, m_width>>
      BY <2>5 DEF objectVars, textVars
    <3>2. m_no_longer_usable' \in BOOLEAN BY <2>5 DEF objectVars, textVars, TextInv, TextTypeOK
    <3> QED BY <3>1, <3>2, SameObject
  <2> QED BY <2>1, <2>2, <2>3, <2>4, <2>5 DEF TextNext
<1> QED BY <1>1, TextInitInvariant, PTL DEF TextSpec

\* Whatever the fonts and the text, a line is drawn as wide as makeLine found
\* it, and the text is as wide as its characters.
THEOREM LinesAreDrawnAsMeasured == TextSpec => []DrawnAsMeasured
<1>1. TextInv => DrawnAsMeasured
  <2> SUFFICES ASSUME TextInv PROVE DrawnAsMeasured OBVIOUS
  <2>1. /\ TextTypeOK /\ IInv /\ LinesTile /\ LinesDraw
        /\ m_hyphen_width = getHyphenWidth(font_list)
        /\ m_is_measured => IsMeasured(m_text, font_list, m_charinfo, m_width)
        /\ ~m_is_measured => lines = <<>>
    BY DEF TextInv, LongestInv, IInv, NotYetMeasured
  <2>2. /\ IsText(m_text) /\ AreFonts(font_list) /\ SoftIsThin(font_list)
        /\ m_length = Len(m_text) /\ m_length \in Nat /\ Offsets = Chars(m_text)
    BY <2>1, TextIs
  <2>3. m_is_measured => m_width = Width(0, m_length) BY <2>1, <2>2 DEF IsMeasured, Width
  <2>4. ASSUME NEW k \in DOMAIN lines, request.tabstop = 0,
               lines[k].end_offset >= lines[k].offset,
               ~LoneSpace(lines[k]), ~KeptHyphen(lines[k]), ~LooseMarks(lines[k])
        PROVE  DrawnWidth(shapeLine(m_text, font_list, m_charinfo,
                                    lines[k].offset, lines[k].end_offset + 1)) = lines[k].width
    <3> DEFINE l == lines[k]
               from == l.offset
               end == l.end_offset + 1
               p == IF k = 1 THEN 0 ELSE lines[k - 1].next
    <3>1. m_is_measured /\ IsMeasured(m_text, font_list, m_charinfo, m_width)
      BY <2>1, <2>4
    <3>2. LineDraws(l) BY <2>1, <2>4 DEF LinesDraw
    <3>3. GoesOn(l, p) BY <2>1, <2>4 DEF LinesTile
    <3>4. l.offset \in Nat /\ l.end_offset \in Int /\ l.next \in Int
      <4>1. lines \in Seq(Line) BY <2>1 DEF IInv, LineTypeOK
      <4>2. l \in Line BY <2>4, <4>1
      <4> QED BY <4>2 DEF Line
    <3> HIDE DEF l, p
    <3>5. /\ from \in 0 .. m_length - 1 /\ end \in from + 1 .. m_length
          /\ \A v \in from .. end - 1 : "MUST_BREAK_AFTER" \notin m_charinfo[v].flags
      <4>1. /\ l.next \in l.offset .. m_length /\ l.end_offset \in l.offset - 1 .. l.next - 1
            /\ \A v \in l.offset .. l.end_offset : "MUST_BREAK_AFTER" \notin m_charinfo[v].flags
        BY <3>3 DEF GoesOn
      <4>2. l.end_offset >= l.offset BY <2>4 DEF l
      <4>3. end - 1 = l.end_offset BY <3>4
      <4>4. m_length \in Nat BY <2>2
      <4>5. from \in 0 .. m_length - 1 /\ end \in from + 1 .. m_length
        BY <3>4, <4>1, <4>2, <4>4
      <4> QED BY <4>1, <4>3, <4>5
    <3>6. end \in Cuts(m_text) /\ StartsAt(from)
      BY <2>4, <3>2 DEF LineDraws, l
    <3>7. from \in Cuts(m_text)
      <4>1. CASE from > 0 /\ Char(from - 1) = "tab"
        <5>1. Char(from) \notin Marks BY <2>4, <4>1 DEF LooseMarks, l
        <5>2. ~IsTail(m_text, from) BY <5>1 DEF IsTail, IsMark, Char
        <5>3. from \in 0 .. Len(m_text) BY <2>2, <3>5
        <5> QED BY <5>2, <5>3 DEF Cuts
      <4> QED BY <3>6, <4>1 DEF StartsAt
    <3>8. m_text[end] = Char(l.end_offset) BY DEF Char
    <3> HIDE DEF from, end
    <3>9. /\ m_text[end] # "shy" =>
               DrawnWidth(shapeLine(m_text, font_list, m_charinfo, from, end))
                 = WidthOf(m_charinfo, m_length, from, end)
          /\ m_text[end] = "shy" /\ HasHyphen(font_list) =>
               DrawnWidth(shapeLine(m_text, font_list, m_charinfo, from, end))
                 = WidthOf(m_charinfo, m_length, from, end) + getHyphenWidth(font_list)
      BY <2>2, <3>1, <3>5, <3>6, <3>7, LineIsDrawnAsMeasured
    <3>10. CASE m_text[end] # "shy"
      <4>1. l.width = Width(l.offset, l.end_offset + 1)
        BY <2>4, <3>2, <3>8, <3>10 DEF LineDraws, l
      <4> QED BY <3>9, <3>10, <4>1 DEF Width, from, end, l
    <3>11. CASE m_text[end] = "shy"
      <4>1. /\ l.next = l.end_offset + 1 /\ l.next # m_length /\ ~l.no_allowed_break_met
            /\ HasHyphen(font_list)
        BY <2>4, <3>8, <3>11 DEF KeptHyphen, HasHyphen, l
      <4>2. l.width = Width(l.offset, l.end_offset + 1) + m_hyphen_width
        BY <2>4, <3>2, <3>8, <3>11, <4>1 DEF LineDraws, l
      <4> QED BY <2>1, <3>9, <3>11, <4>1, <4>2 DEF Width, from, end, l
    <3> QED BY <3>10, <3>11
  <2> QED BY <2>3, <2>4 DEF DrawnAsMeasured
<1> QED BY <1>1, TextInvariance, PTL

\* What holds of the lines of any measured text holds of an object's, which it
\* has measured itself.
THEOREM ObjectLinesHold ==
  TextSpec => [](LinesTile /\ LinesFit /\ LongestLine /\ EndSegmentLongest /\ SelectsWholeWords)
<1>1. TextInv => LinesTile /\ LinesFit /\ LongestLine /\ EndSegmentLongest /\ SelectsWholeWords
  <2> SUFFICES ASSUME TextInv
               PROVE  LinesTile /\ LinesFit /\ LongestLine /\ EndSegmentLongest
                      /\ SelectsWholeWords
    OBVIOUS
  <2>1. LineTypeOK /\ LinesTile /\ LinesFit /\ LongestLine BY DEF TextInv, LongestInv, IInv
  <2>2. m_length \in Nat BY <2>1 DEF LineTypeOK
  <2> QED BY <2>1, <2>2, EndIsLongest, WordsAreWhole
<1> QED BY <1>1, TextInvariance, PTL
=============================================================================
