------------------------- MODULE ManifestTreeProofs -------------------------
(***************************************************************************)
(* ManifestTree, for any streams of documents and any sets of patches: the *)
(* nodes of a stream stay a tree, a second patch changes nothing, what     *)
(* parses goes on to parse, typos are found, and on Deployments of the     *)
(* API's form the patcher implements Manifest.                             *)
(***************************************************************************)
EXTENDS ManifestTree, SequenceTheorems, TLAPS

Places == Seq(Texts)

-----------------------------------------------------------------------------
(* Places: what they end in, and which ones a patch is about.               *)

LEMMA AppendFront ==
    ASSUME NEW p \in Places, NEW k \in Texts
    PROVE  /\ Append(p, k) \in Places
           /\ Append(p, k) # <<>>
           /\ Front(Append(p, k)) = p
           /\ Last(Append(p, k)) = k
<1> USE DEF Places
<1>1. /\ Append(p, k) \in Seq(Texts)
      /\ Append(p, k) # <<>>
      /\ Len(Append(p, k)) = Len(p) + 1
      /\ \A i \in 1..Len(p) : Append(p, k)[i] = p[i]
      /\ Append(p, k)[Len(p) + 1] = k
  BY AppendProperties
<1>2. Len(p) \in Nat
  BY LenProperties
<1>3. Front(Append(p, k)) = SubSeq(Append(p, k), 1, Len(p))
  BY <1>1, <1>2 DEF Front
<1>4. /\ SubSeq(Append(p, k), 1, Len(p)) \in Seq(Texts)
      /\ Len(SubSeq(Append(p, k), 1, Len(p))) = Len(p)
      /\ \A i \in 1..Len(p) : SubSeq(Append(p, k), 1, Len(p))[i] = p[i]
  BY <1>1, <1>2
<1>5. SubSeq(Append(p, k), 1, Len(p)) = p
  BY <1>4, SeqEqual
<1>6. Last(Append(p, k)) = k
  BY <1>1 DEF Last
<1>. QED BY <1>1, <1>3, <1>5, <1>6

LEMMA AppendLen ==
    ASSUME NEW p \in Places, NEW k \in Texts, NEW n \in Nat, Len(p) = n
    PROVE  Len(Append(p, k)) = n + 1
  BY AppendProperties DEF Places

LEMMA FrontIsPlace ==
    ASSUME NEW p \in Places, p # <<>>
    PROVE  /\ Front(p) \in Places
           /\ Last(p) \in Texts
           /\ Append(Front(p), Last(p)) = p
<1>1. PICK s \in Places, e \in Texts : p = Append(s, e)
  BY SequenceEmptyOrAppend DEF Places
<1>2. Front(p) = s /\ Last(p) = e
  BY <1>1, AppendFront
<1>. QED BY <1>1, <1>2

LEMMA TopIsPlace == <<>> \in Places
  BY EmptySeq DEF Places

\* What a patch is about: its sections and quantities, and their places.
LEMMA SectionIsPlace ==
    ASSUME NEW c \in Places, NEW s \in Sections
    PROVE  /\ Append(c, "resources") \in Places
           /\ Section(c, s) \in Places
           /\ Section(c, s) # <<>>
           /\ Last(Section(c, s)) = s
           /\ Front(Section(c, s)) = Append(c, "resources")
           /\ Front(Front(Section(c, s))) = c
<1>1. Append(c, "resources") \in Places /\ Front(Append(c, "resources")) = c
  BY AppendFront, TextsAssumption
<1>2. s \in Texts
  BY TextsAssumption
<1>. QED BY <1>1, <1>2, AppendFront DEF Section

LEMMA QuantityIsPlace ==
    ASSUME NEW c \in Places, NEW s \in Sections, NEW d \in Dimensions
    PROVE  /\ Append(Section(c, s), d) \in Places
           /\ Append(Section(c, s), d) # <<>>
           /\ Last(Append(Section(c, s), d)) = d
           /\ Front(Append(Section(c, s), d)) = Section(c, s)
<1>1. d \in Texts
  BY TextsAssumption
<1>. QED BY <1>1, SectionIsPlace, AppendFront

\* Functions that say what to patch in a document.
PatchFor(doc) ==
    UNION {[containers -> ContainerPatch] : containers \in SUBSET (DOMAIN doc \cap Places)}

LEMMA PatchForHas ==
    ASSUME NEW doc, NEW f \in PatchFor(doc)
    PROVE  /\ DOMAIN f \subseteq DOMAIN doc /\ DOMAIN f \subseteq Places
           /\ \A c \in DOMAIN f, s \in Sections, d \in Dimensions :
                 f[c] \in ContainerPatch /\ f[c][s][d] \in Texts
  BY DEF PatchFor, ContainerPatch

LEMMA ResourcesPlacesHave ==
    ASSUME NEW doc, NEW f \in PatchFor(doc), NEW p \in ResourcesPlaces(f)
    PROVE  p \in Places /\ p # <<>> /\ Last(p) = "resources" /\ Front(p) \in DOMAIN f
<1>1. PICK c \in DOMAIN f : p = Append(c, "resources")
  BY DEF ResourcesPlaces
<1>. QED BY <1>1, AppendFront, PatchForHas, TextsAssumption

LEMMA SectionPlacesHave ==
    ASSUME NEW doc, NEW f \in PatchFor(doc), NEW p \in SectionPlaces(f)
    PROVE  \E c \in DOMAIN f, s \in Sections : p = Section(c, s)
<1>1. PICK r \in ResourcesPlaces(f), s \in Sections : p = Append(r, s)
  BY DEF SectionPlaces
<1>2. PICK c \in DOMAIN f : r = Append(c, "resources")
  BY DEF ResourcesPlaces
<1>. QED BY <1>1, <1>2 DEF Section

LEMMA SectionPlacesAre ==
    ASSUME NEW doc, NEW f \in PatchFor(doc), NEW c \in DOMAIN f, NEW s \in Sections
    PROVE  /\ Section(c, s) \in SectionPlaces(f)
           /\ Section(c, s) \in TouchedSections(f) <=> Touches(f[c], s)
<1>1. Section(c, s) \in SectionPlaces(f)
  <2>1. Append(c, "resources") \in ResourcesPlaces(f)
    BY DEF ResourcesPlaces
  <2>2. \E r \in ResourcesPlaces(f), t \in Sections : Section(c, s) = Append(r, t)
    BY <2>1 DEF Section
  <2>. QED BY <2>2 DEF SectionPlaces
<1>2. Front(Front(Section(c, s))) = c /\ Last(Section(c, s)) = s
  BY SectionIsPlace, PatchForHas
<1>. QED BY <1>1, <1>2 DEF TouchedSections

LEMMA QuantitiesHave ==
    ASSUME NEW doc, NEW f \in PatchFor(doc), NEW q \in DOMAIN Quantities(f)
    PROVE  \E c \in DOMAIN f, s \in Sections, d \in Dimensions : q = Append(Section(c, s), d)
<1>1. PICK l \in SectionPlaces(f), d \in Dimensions : q = Append(l, d)
  BY DEF Quantities
<1>. QED BY <1>1, SectionPlacesHave

LEMMA QuantitiesAre ==
    ASSUME NEW doc, NEW f \in PatchFor(doc),
           NEW c \in DOMAIN f, NEW s \in Sections, NEW d \in Dimensions
    PROVE  /\ Append(Section(c, s), d) \in DOMAIN Quantities(f)
           /\ Quantities(f)[Append(Section(c, s), d)] = f[c][s][d]
<1> DEFINE q == Append(Section(c, s), d)
<1>1. Section(c, s) \in SectionPlaces(f)
  BY SectionPlacesAre
<1>2. q \in {Append(l, e) : l \in SectionPlaces(f), e \in Dimensions}
  BY <1>1
<1>3. Front(q) = Section(c, s) /\ Last(q) = d
  BY QuantityIsPlace, PatchForHas
<1>4. Front(Front(Front(q))) = c /\ Last(Front(q)) = s
  BY <1>3, SectionIsPlace, PatchForHas
<1>. QED BY <1>2, <1>3, <1>4 DEF Quantities

-----------------------------------------------------------------------------
(* What one patch does to the nodes of a document.                          *)

LEMMA EnsureAdds ==
    ASSUME NEW doc, NEW places
    PROVE  /\ DOMAIN doc \subseteq DOMAIN EnsureChildMapping(doc, places)
           /\ \A p \in DOMAIN doc : EnsureChildMapping(doc, places)[p] = doc[p]
           /\ \A p \in DOMAIN EnsureChildMapping(doc, places) \ DOMAIN doc :
                 /\ EnsureChildMapping(doc, places)[p] = Mapping
                 /\ p \in places /\ IsMapping(doc, Front(p))
           /\ \A p \in places :
                 p \in DOMAIN EnsureChildMapping(doc, places) \/ ~IsMapping(doc, Front(p))
  BY DEF EnsureChildMapping, Addable

\* The document with the mappings that the quantities are put in.
Ensured(doc, f) ==
    EnsureChildMapping(EnsureChildMapping(doc, ResourcesPlaces(f)), TouchedSections(f))

LEMMA EnsuredHas ==
    ASSUME NEW doc, NEW f \in PatchFor(doc)
    PROVE  /\ DOMAIN doc \subseteq DOMAIN Ensured(doc, f)
           /\ \A p \in DOMAIN doc : Ensured(doc, f)[p] = doc[p]
           /\ \A p \in DOMAIN Ensured(doc, f) \ DOMAIN doc :
                 /\ Ensured(doc, f)[p] = Mapping
                 /\ p \in ResourcesPlaces(f) \cup TouchedSections(f)
                 /\ IsMapping(Ensured(doc, f), Front(p))
           /\ \A p \in ResourcesPlaces(f) \cup TouchedSections(f) :
                 p \in DOMAIN Ensured(doc, f) \/ ~IsMapping(Ensured(doc, f), Front(p))
<1> DEFINE E1 == EnsureChildMapping(doc, ResourcesPlaces(f))
           E == EnsureChildMapping(E1, TouchedSections(f))
<1>1. /\ DOMAIN doc \subseteq DOMAIN E1
      /\ \A p \in DOMAIN doc : E1[p] = doc[p]
      /\ \A p \in DOMAIN E1 \ DOMAIN doc :
            E1[p] = Mapping /\ p \in ResourcesPlaces(f) /\ IsMapping(doc, Front(p))
      /\ \A p \in ResourcesPlaces(f) : p \in DOMAIN E1 \/ ~IsMapping(doc, Front(p))
  BY EnsureAdds
<1>2. /\ DOMAIN E1 \subseteq DOMAIN E
      /\ \A p \in DOMAIN E1 : E[p] = E1[p]
      /\ \A p \in DOMAIN E \ DOMAIN E1 :
            E[p] = Mapping /\ p \in TouchedSections(f) /\ IsMapping(E1, Front(p))
      /\ \A p \in TouchedSections(f) : p \in DOMAIN E \/ ~IsMapping(E1, Front(p))
  BY EnsureAdds
<1> HIDE DEF E1, E
<1>3. E = Ensured(doc, f)
  BY DEF E, E1, Ensured
<1>4. \A p : IsMapping(doc, p) => IsMapping(E1, p)
  BY <1>1 DEF IsMapping
<1>5. \A p : IsMapping(E1, p) => IsMapping(E, p)
  BY <1>2 DEF IsMapping
<1>6. \A p \in ResourcesPlaces(f) : p \in DOMAIN E \/ ~IsMapping(E, Front(p))
  <2> SUFFICES ASSUME NEW p \in ResourcesPlaces(f), p \notin DOMAIN E
               PROVE  ~IsMapping(E, Front(p))
    OBVIOUS
  <2>1. ~IsMapping(doc, Front(p))
    BY <1>1, <1>2
  <2>2. Front(p) \in DOMAIN doc
    BY ResourcesPlacesHave, PatchForHas
  <2>. QED BY <2>1, <2>2, <1>1, <1>2 DEF IsMapping
<1>7. \A p \in TouchedSections(f) : p \in DOMAIN E \/ ~IsMapping(E, Front(p))
  <2> SUFFICES ASSUME NEW p \in TouchedSections(f), p \notin DOMAIN E
               PROVE  ~IsMapping(E, Front(p))
    OBVIOUS
  <2>1. ~IsMapping(E1, Front(p))
    BY <1>2
  <2>2. PICK c \in DOMAIN f, s \in Sections : p = Section(c, s)
    BY SectionPlacesHave DEF TouchedSections
  <2>3. c \in Places
    BY PatchForHas
  <2>4. Front(p) = Append(c, "resources")
    BY <2>2, <2>3, SectionIsPlace
  <2>5. Last(Front(p)) = "resources"
    BY <2>3, <2>4, AppendFront, TextsAssumption
  <2>6. Front(p) \notin TouchedSections(f)
    <3>1. ASSUME Front(p) \in TouchedSections(f) PROVE FALSE
      <4>1. PICK d \in DOMAIN f, t \in Sections : Front(p) = Section(d, t)
        BY <3>1, SectionPlacesHave DEF TouchedSections
      <4>2. d \in Places
        BY PatchForHas
      <4>3. Last(Front(p)) = t
        BY <4>1, <4>2, SectionIsPlace
      <4>. QED BY <4>3, <2>5 DEF Sections
    <3>. QED BY <3>1
  <2>. QED BY <2>1, <2>6, <1>2 DEF IsMapping
<1>. QED BY <1>1, <1>2, <1>3, <1>4, <1>5, <1>6, <1>7

\* The places of what a patch writes, and what it writes there.
Written(f) == {q \in DOMAIN Quantities(f) : Quantities(f)[q] # Untouched}

LEMMA ScalarsSet ==
    ASSUME NEW doc, NEW f
    PROVE  LET E == Ensured(doc, f)
               R == PatchContainerResources(doc, f)
               Q == Quantities(f)
           IN  /\ R = [p \in DOMAIN R |-> R[p]]
               /\ DOMAIN E \subseteq DOMAIN R
               /\ \A p \in DOMAIN E :
                     R[p] = IF p \in Written(f) /\ E[p].kind \in {"scalar", "alias"}
                            THEN [E[p] EXCEPT !.value = Q[p]] ELSE E[p]
               /\ \A p \in DOMAIN R \ DOMAIN E :
                     R[p] = Scalar(Q[p]) /\ p \in Written(f) /\ IsMapping(E, Front(p))
               /\ \A p \in Written(f) : p \in DOMAIN R \/ ~IsMapping(E, Front(p))
  BY DEF PatchContainerResources, Ensured, SetScalar, Addable, Written

\* Where the keys that are added differ from those of containers and lists.
PatchKeys == {"resources"} \cup Sections \cup Dimensions

LEMMA AddedPlaces ==
    ASSUME NEW doc, NEW f \in PatchFor(doc),
           NEW p \in ResourcesPlaces(f) \cup TouchedSections(f) \cup Written(f)
    PROVE  /\ p \in Places /\ p # <<>>
           /\ Last(p) \in PatchKeys
           /\ \/ Front(p) \in DOMAIN f
              \/ Front(p) \in Places /\ Front(p) # <<>> /\ Last(Front(p)) \in PatchKeys
<1>1. CASE p \in ResourcesPlaces(f)
  BY <1>1, ResourcesPlacesHave DEF PatchKeys
<1>2. CASE p \in TouchedSections(f)
  <2>1. PICK c \in DOMAIN f, s \in Sections : p = Section(c, s)
    BY <1>2, SectionPlacesHave DEF TouchedSections
  <2>2. c \in Places
    BY PatchForHas
  <2>3. p \in Places /\ p # <<>> /\ Last(p) = s /\ Front(p) = Append(c, "resources")
    BY <2>1, <2>2, SectionIsPlace
  <2>4. Front(p) \in Places /\ Front(p) # <<>> /\ Last(Front(p)) = "resources"
    BY <2>2, <2>3, AppendFront, TextsAssumption
  <2>. QED BY <2>3, <2>4 DEF PatchKeys
<1>3. CASE p \in Written(f)
  <2>1. PICK c \in DOMAIN f, s \in Sections, d \in Dimensions : p = Append(Section(c, s), d)
    BY <1>3, QuantitiesHave DEF Written
  <2>2. c \in Places
    BY PatchForHas
  <2>3. p \in Places /\ p # <<>> /\ Last(p) = d /\ Front(p) = Section(c, s)
    BY <2>1, <2>2, QuantityIsPlace
  <2>4. Section(c, s) \in Places /\ Section(c, s) # <<>> /\ Last(Section(c, s)) = s
    BY <2>2, SectionIsPlace
  <2>. QED BY <2>3, <2>4 DEF PatchKeys
<1>. QED BY <1>1, <1>2, <1>3

LEMMA KeysAreApart ==
    /\ \A k \in PatchKeys : k \notin {"containers", "initContainers", "name", "kind"}
    /\ "resources" \notin Sections \cup Dimensions
    /\ Sections \cap Dimensions = {}
  BY DEF PatchKeys, Sections, Dimensions

LEMMA NodesAre ==
    /\ Mapping \in Node
    /\ \A v \in Texts : Scalar(v) \in Node
    /\ \A n \in Node, v \in Texts :
          /\ [n EXCEPT !.value = v] \in Node
          /\ [n EXCEPT !.value = v].kind = n.kind
          /\ [n EXCEPT !.value = v].anchor = n.anchor
          /\ [n EXCEPT !.value = v].value = v
    /\ Mapping.kind = "mapping"
    /\ \A v : Scalar(v).kind = "scalar" /\ Scalar(v).value = v
  BY TextsAssumption DEF Mapping, Scalar, Node, Untouched

LEMMA DocumentHas ==
    ASSUME NEW doc, IsDocument(doc), NEW f \in PatchFor(doc)
    PROVE  /\ \A p \in DOMAIN Ensured(doc, f) : Ensured(doc, f)[p] \in Node
           /\ \A q \in Written(f) : Quantities(f)[q] \in Texts
<1>1. \A p \in DOMAIN Ensured(doc, f) : Ensured(doc, f)[p] \in Node
  BY EnsuredHas, NodesAre DEF IsDocument
<1>2. ASSUME NEW q \in Written(f) PROVE Quantities(f)[q] \in Texts
  <2>1. PICK c \in DOMAIN f, s \in Sections, d \in Dimensions : q = Append(Section(c, s), d)
    BY QuantitiesHave DEF Written
  <2>. QED BY <2>1, QuantitiesAre, PatchForHas
<1>. QED BY <1>1, <1>2

\* Writing the quantities keeps kinds and anchors.
LEMMA WritingKeeps ==
    ASSUME NEW doc, IsDocument(doc), NEW f \in PatchFor(doc)
    PROVE  LET E == Ensured(doc, f)
               R == PatchContainerResources(doc, f)
           IN  /\ DOMAIN E \subseteq DOMAIN R
               /\ \A p \in DOMAIN E :
                     /\ R[p] \in Node /\ R[p].kind = E[p].kind /\ R[p].anchor = E[p].anchor
                     /\ p \notin Written(f) => R[p] = E[p]
               /\ \A p \in DOMAIN R \ DOMAIN E :
                     R[p] \in Node /\ R[p].kind = "scalar" /\ p \in Written(f)
               /\ \A p : IsMapping(R, p) <=> IsMapping(E, p)
               /\ \A p \in Written(f) :
                     /\ p \in DOMAIN R \/ ~IsMapping(R, Front(p))
                     /\ p \in DOMAIN R /\ R[p].kind \in {"scalar", "alias"} =>
                           R[p].value = Quantities(f)[p]
<1> DEFINE E == Ensured(doc, f)
           R == PatchContainerResources(doc, f)
           Q == Quantities(f)
<1>1. /\ DOMAIN E \subseteq DOMAIN R
      /\ \A p \in DOMAIN E :
            R[p] = IF p \in Written(f) /\ E[p].kind \in {"scalar", "alias"}
                   THEN [E[p] EXCEPT !.value = Q[p]] ELSE E[p]
      /\ \A p \in DOMAIN R \ DOMAIN E :
            R[p] = Scalar(Q[p]) /\ p \in Written(f) /\ IsMapping(E, Front(p))
      /\ \A p \in Written(f) : p \in DOMAIN R \/ ~IsMapping(E, Front(p))
  BY ScalarsSet
<1>2. (\A p \in DOMAIN E : E[p] \in Node) /\ (\A q \in Written(f) : Q[q] \in Texts)
  BY DocumentHas
<1> HIDE DEF E, R, Q
<1>3. ASSUME NEW p \in DOMAIN E
      PROVE  /\ R[p] \in Node /\ R[p].kind = E[p].kind /\ R[p].anchor = E[p].anchor
             /\ p \notin Written(f) => R[p] = E[p]
             /\ p \in Written(f) /\ R[p].kind \in {"scalar", "alias"} => R[p].value = Q[p]
  <2>1. CASE p \in Written(f) /\ E[p].kind \in {"scalar", "alias"}
    <3>1. R[p] = [E[p] EXCEPT !.value = Q[p]] /\ Q[p] \in Texts /\ E[p] \in Node
      BY <2>1, <1>1, <1>2
    <3>. QED BY <2>1, <3>1, NodesAre
  <2>2. CASE ~(p \in Written(f) /\ E[p].kind \in {"scalar", "alias"})
    BY <2>2, <1>1, <1>2
  <2>. QED BY <2>1, <2>2
<1>4. ASSUME NEW p \in DOMAIN R \ DOMAIN E
      PROVE  R[p] \in Node /\ R[p].kind = "scalar" /\ p \in Written(f) /\ R[p].value = Q[p]
  BY <1>1, <1>2, NodesAre
<1>5. \A p : IsMapping(R, p) <=> IsMapping(E, p)
  BY <1>1, <1>3, <1>4 DEF IsMapping
<1>. QED BY <1>1, <1>3, <1>4, <1>5 DEF E, R, Q

\* What is there keeps its kind and anchor, and if it is nowhere where a
\* quantity is written, all of it; what is added is a mapping or a scalar, in
\* a mapping, under one of the patch's keys.
LEMMA PatchedHas ==
    ASSUME NEW doc, IsDocument(doc), NEW f \in PatchFor(doc)
    PROVE  LET R == PatchContainerResources(doc, f)
           IN  /\ DOMAIN doc \subseteq DOMAIN R
               /\ \A p \in DOMAIN doc :
                     /\ R[p] \in Node /\ R[p].kind = doc[p].kind /\ R[p].anchor = doc[p].anchor
                     /\ p \notin Written(f) => R[p] = doc[p]
               /\ \A p \in DOMAIN R \ DOMAIN doc :
                     /\ R[p] \in Node /\ R[p].kind \in {"mapping", "scalar"}
                     /\ p \in ResourcesPlaces(f) \cup TouchedSections(f) \cup Written(f)
                     /\ IsMapping(R, Front(p))
<1> DEFINE E == Ensured(doc, f)
           R == PatchContainerResources(doc, f)
<1>1. /\ DOMAIN doc \subseteq DOMAIN E
      /\ \A p \in DOMAIN doc : E[p] = doc[p]
      /\ \A p \in DOMAIN E \ DOMAIN doc :
            /\ E[p] = Mapping
            /\ p \in ResourcesPlaces(f) \cup TouchedSections(f)
            /\ IsMapping(E, Front(p))
  BY EnsuredHas
<1>2. /\ DOMAIN E \subseteq DOMAIN R
      /\ \A p \in DOMAIN E :
            /\ R[p] \in Node /\ R[p].kind = E[p].kind /\ R[p].anchor = E[p].anchor
            /\ p \notin Written(f) => R[p] = E[p]
      /\ \A p \in DOMAIN R \ DOMAIN E :
            R[p] \in Node /\ R[p].kind = "scalar" /\ p \in Written(f)
      /\ \A p : IsMapping(R, p) <=> IsMapping(E, p)
  BY WritingKeeps
<1>3. \A p \in DOMAIN R \ DOMAIN E : IsMapping(E, Front(p))
  BY ScalarsSet
<1> HIDE DEF E, R
<1>4. \A p \in DOMAIN E \ DOMAIN doc :
         R[p] \in Node /\ R[p].kind = "mapping" /\ IsMapping(R, Front(p))
  BY <1>1, <1>2, NodesAre
<1>. QED BY <1>1, <1>2, <1>3, <1>4 DEF R

\* What is in the encoded document hangs below its top.
LEMMA DocumentStays ==
    ASSUME NEW doc, IsDocument(doc), NEW f \in PatchFor(doc)
    PROVE  IsDocument(PatchContainerResources(doc, f))
<1> DEFINE R == PatchContainerResources(doc, f)
<1>1. /\ DOMAIN doc \subseteq DOMAIN R
      /\ \A p \in DOMAIN doc : R[p] \in Node /\ R[p].kind = doc[p].kind
      /\ \A p \in DOMAIN R \ DOMAIN doc :
            /\ R[p] \in Node
            /\ p \in ResourcesPlaces(f) \cup TouchedSections(f) \cup Written(f)
            /\ IsMapping(R, Front(p))
  BY PatchedHas
<1> HIDE DEF R
<1>2. DOMAIN R \subseteq Places
  BY <1>1, AddedPlaces DEF IsDocument, Places
<1>3. ASSUME NEW p \in DOMAIN R \ {<<>>}
      PROVE  Front(p) \in DOMAIN R /\ R[Front(p)].kind \in {"mapping", "sequence"}
  <2>1. CASE p \in DOMAIN doc
    BY <2>1, <1>1, <1>3 DEF IsDocument
  <2>2. CASE p \notin DOMAIN doc
    BY <2>2, <1>1, <1>3 DEF IsMapping
  <2>. QED BY <2>1, <2>2
<1>. QED BY <1>1, <1>2, <1>3 DEF IsDocument, Places, R

\* A patch adds no lists and changes no kinds.
LEMMA ListsStay ==
    ASSUME NEW doc, IsDocument(doc), NEW f \in PatchFor(doc), NEW p
    PROVE  IsContainerList(PatchContainerResources(doc, f), p) <=> IsContainerList(doc, p)
<1> DEFINE R == PatchContainerResources(doc, f)
<1>1. /\ DOMAIN doc \subseteq DOMAIN R
      /\ \A q \in DOMAIN doc : R[q].kind = doc[q].kind
      /\ \A q \in DOMAIN R \ DOMAIN doc : R[q].kind \in {"mapping", "scalar"}
  BY PatchedHas
<1> HIDE DEF R
<1>2. CASE p \in DOMAIN doc \ {<<>>}
  <2>1. Front(p) \in DOMAIN doc
    BY <1>2 DEF IsDocument
  <2>. QED BY <1>1, <1>2, <2>1 DEF IsContainerList, IsMapping, R
<1>3. CASE p \notin DOMAIN doc \ {<<>>}
  BY <1>1, <1>3 DEF IsContainerList, R
<1>. QED BY <1>2, <1>3

\* The item of a list is itself not a list of containers: its own place is in
\* a sequence.
LEMMA ItemIsNoList ==
    ASSUME NEW doc, NEW c \in Visited(doc)
    PROVE  ~IsContainerList(doc, c)
  BY DEF Visited, IsContainerList, IsMapping

LEMMA VisitedStay ==
    ASSUME NEW doc, IsDocument(doc), NEW f \in PatchFor(doc), DOMAIN f \subseteq Visited(doc)
    PROVE  Visited(PatchContainerResources(doc, f)) = Visited(doc)
<1> DEFINE R == PatchContainerResources(doc, f)
<1>1. /\ DOMAIN doc \subseteq DOMAIN R
      /\ \A p \in DOMAIN R \ DOMAIN doc :
            p \in ResourcesPlaces(f) \cup TouchedSections(f) \cup Written(f)
  BY PatchedHas
<1>2. \A p : IsContainerList(R, p) <=> IsContainerList(doc, p)
  BY ListsStay
<1> HIDE DEF R
<1>3. ASSUME NEW p \in DOMAIN R \ DOMAIN doc
      PROVE  ~IsContainerList(doc, Front(p))
  <2>1. Front(p) \in DOMAIN f \/ Last(Front(p)) \in PatchKeys
    BY <1>1, AddedPlaces
  <2>2. CASE Front(p) \in DOMAIN f
    BY <2>2, ItemIsNoList
  <2>3. CASE Last(Front(p)) \in PatchKeys
    BY <2>3, KeysAreApart DEF IsContainerList
  <2>. QED BY <2>1, <2>2, <2>3
<1>4. \A p : p \in Visited(R) <=> p \in Visited(doc)
  BY <1>1, <1>2, <1>3 DEF Visited
<1>. QED BY <1>4 DEF R

\* Keys other than the patch's lead to what they led to before.
LEMMA OtherValuesStay ==
    ASSUME NEW doc, IsDocument(doc), NEW f \in PatchFor(doc),
           NEW p \in Places, NEW key \in Texts \ PatchKeys
    PROVE  MapValue(PatchContainerResources(doc, f), p, key) = MapValue(doc, p, key)
<1> DEFINE R == PatchContainerResources(doc, f)
           q == Append(p, key)
<1>1. /\ DOMAIN doc \subseteq DOMAIN R
      /\ \A r \in DOMAIN doc :
            R[r].kind = doc[r].kind /\ (r \notin Written(f) => R[r] = doc[r])
      /\ \A r \in DOMAIN R \ DOMAIN doc :
            r \in ResourcesPlaces(f) \cup TouchedSections(f) \cup Written(f)
  BY PatchedHas
<1>2. q \in Places /\ q # <<>> /\ Front(q) = p /\ Last(q) = key
  BY AppendFront
<1>3. q \notin ResourcesPlaces(f) \cup TouchedSections(f) \cup Written(f)
  BY <1>2, AddedPlaces
<1> HIDE DEF R, q
<1>4. CASE q \in DOMAIN doc
  <2>1. p \in DOMAIN doc
    BY <1>2, <1>4 DEF IsDocument
  <2>. QED BY <1>1, <1>3, <1>4, <2>1 DEF MapValue, IsMapping, R, q
<1>5. CASE q \notin DOMAIN doc
  BY <1>1, <1>3, <1>5 DEF MapValue, R, q
<1>. QED BY <1>4, <1>5

-----------------------------------------------------------------------------
(* Patching all the containers of a document that a set of patches names.   *)

LEMMA ByPlaceIsPatch ==
    ASSUME NEW doc, IsDocument(doc), NEW ps \in PatchSets
    PROVE  /\ ByPlace(doc, ps) \in PatchFor(doc)
           /\ DOMAIN ByPlace(doc, ps) \subseteq Visited(doc)
           /\ \A c \in Visited(doc) :
                 c \in DOMAIN ByPlace(doc, ps) <=> MapValue(doc, c, "name") \in DOMAIN ps
           /\ \A c \in DOMAIN ByPlace(doc, ps) :
                 ByPlace(doc, ps)[c] = ps[MapValue(doc, c, "name")]
<1> DEFINE hit == {v \in Visited(doc) : MapValue(doc, v, "name") \in DOMAIN ps}
<1>1. \A n \in DOMAIN ps : ps[n] \in ContainerPatch
  BY PatchSetsAssumption
<1>2. hit \subseteq DOMAIN doc \cap Places
  BY DEF Visited, IsDocument, Places
<1>3. ByPlace(doc, ps) = [c \in hit |-> ps[MapValue(doc, c, "name")]]
  BY DEF ByPlace
<1>4. ByPlace(doc, ps) \in [hit -> ContainerPatch]
  BY <1>1, <1>3
<1>. QED BY <1>2, <1>3, <1>4 DEF PatchFor

LEMMA NameIsNoPatchKey == "name" \in Texts \ PatchKeys /\ "kind" \in Texts \ PatchKeys
  BY TextsAssumption, KeysAreApart

LEMMA PatchedStays ==
    ASSUME NEW doc, IsDocument(doc), NEW ps \in PatchSets
    PROVE  /\ IsDocument(Patched(doc, ps))
           /\ Visited(Patched(doc, ps)) = Visited(doc)
           /\ \A p \in Places : MapValue(Patched(doc, ps), p, "name") = MapValue(doc, p, "name")
           /\ ByPlace(Patched(doc, ps), ps) = ByPlace(doc, ps)
<1> DEFINE f == ByPlace(doc, ps)
           R == Patched(doc, ps)
<1>1. f \in PatchFor(doc) /\ DOMAIN f \subseteq Visited(doc)
  BY ByPlaceIsPatch
<1>2. R = PatchContainerResources(doc, f)
  BY DEF Patched
<1> HIDE DEF f, R
<1>3. IsDocument(R) /\ Visited(R) = Visited(doc)
  BY <1>1, <1>2, DocumentStays, VisitedStay
<1>4. \A p \in Places : MapValue(R, p, "name") = MapValue(doc, p, "name")
  BY <1>1, <1>2, OtherValuesStay, NameIsNoPatchKey
<1>5. Visited(doc) \subseteq Places
  BY DEF Visited, IsDocument, Places
<1>6. {v \in Visited(R) : MapValue(R, v, "name") \in DOMAIN ps} =
      {v \in Visited(doc) : MapValue(doc, v, "name") \in DOMAIN ps}
  BY <1>3, <1>4, <1>5
<1>7. ByPlace(R, ps) = ByPlace(doc, ps)
  BY <1>4, <1>5, <1>6 DEF ByPlace
<1>. QED BY <1>3, <1>4, <1>7 DEF R

\* A second time there is a place for all that is written, if there is one at
\* all, and it has the value that is written.
LEMMA PatchIsIdempotent ==
    ASSUME NEW doc, IsDocument(doc), NEW f \in PatchFor(doc)
    PROVE  PatchContainerResources(PatchContainerResources(doc, f), f)
              = PatchContainerResources(doc, f)
<1> DEFINE E == Ensured(doc, f)
           R == PatchContainerResources(doc, f)
           Q == Quantities(f)
<1>1. \A p \in ResourcesPlaces(f) \cup TouchedSections(f) :
         p \in DOMAIN E \/ ~IsMapping(E, Front(p))
  BY EnsuredHas
<1>2. R = [p \in DOMAIN R |-> R[p]]
  BY ScalarsSet
<1>3. /\ DOMAIN E \subseteq DOMAIN R
      /\ \A p \in DOMAIN E : R[p] \in Node
      /\ \A p \in DOMAIN R \ DOMAIN E : R[p] \in Node
      /\ \A p : IsMapping(R, p) <=> IsMapping(E, p)
      /\ \A p \in Written(f) :
            /\ p \in DOMAIN R \/ ~IsMapping(R, Front(p))
            /\ p \in DOMAIN R /\ R[p].kind \in {"scalar", "alias"} => R[p].value = Q[p]
  BY WritingKeeps
<1> HIDE DEF E, R, Q
<1>4. ASSUME NEW places,
             \A p \in places : p \in DOMAIN R \/ ~IsMapping(R, Front(p))
      PROVE  EnsureChildMapping(R, places) = R
  <2>1. Addable(R, places) = {}
    BY <1>4 DEF Addable
  <2>2. EnsureChildMapping(R, places) = [p \in DOMAIN R |-> R[p]]
    BY <2>1 DEF EnsureChildMapping
  <2>. QED BY <2>2, <1>2
<1>5. Ensured(R, f) = R
  <2>1. EnsureChildMapping(R, ResourcesPlaces(f)) = R
    BY <1>1, <1>3, <1>4
  <2>2. EnsureChildMapping(R, TouchedSections(f)) = R
    BY <1>1, <1>3, <1>4
  <2>. QED BY <2>1, <2>2 DEF Ensured
<1>6. SetScalar(R, Q) = R
  <2>1. Written(f) = {p \in DOMAIN Q : Q[p] # Untouched}
    BY DEF Written, Q
  <2>2. Addable(R, Written(f)) = {}
    BY <1>3 DEF Addable
  <2>3. ASSUME NEW p \in DOMAIN R, p \in Written(f), R[p].kind \in {"scalar", "alias"}
        PROVE  [R[p] EXCEPT !.value = Q[p]] = R[p]
    <3>1. R[p] \in Node /\ R[p].value = Q[p]
      BY <1>3, <2>3
    <3>. QED BY <3>1 DEF Node
  <2>4. SetScalar(R, Q) = [p \in DOMAIN R |-> R[p]]
    BY <2>1, <2>2, <2>3 DEF SetScalar
  <2>. QED BY <2>4, <1>2
<1>. QED BY <1>5, <1>6 DEF PatchContainerResources, Ensured, R, Q

LEMMA StreamPatched ==
    ASSUME NEW stream, IsStream(stream), NEW ps \in PatchSets
    PROVE  /\ IsStream(ApplyDeploymentPatches(stream, ps))
           /\ Names(ApplyDeploymentPatches(stream, ps)) = Names(stream)
           /\ ApplyDeploymentPatches(ApplyDeploymentPatches(stream, ps), ps)
                 = ApplyDeploymentPatches(stream, ps)
<1> DEFINE after == ApplyDeploymentPatches(stream, ps)
<1>1. DOMAIN after = DOMAIN stream /\ \A i \in DOMAIN stream : after[i] = Patched(stream[i], ps)
  BY DEF ApplyDeploymentPatches
<1>2. \A i \in DOMAIN stream : IsDocument(stream[i])
  BY DEF IsStream
<1>3. \A i \in DOMAIN stream : Visited(stream[i]) \subseteq Places
  BY <1>2 DEF Visited, IsDocument, Places
<1>4. IsStream(after)
  BY <1>1, <1>2, PatchedStays DEF IsStream
<1>5. Names(after) = Names(stream)
  <2> DEFINE names(s, i) == {MapValue(s[i], c, "name") : c \in Visited(s[i])}
  <2>1. ASSUME NEW i \in DOMAIN stream PROVE names(after, i) = names(stream, i)
    <3>1. /\ Visited(after[i]) = Visited(stream[i])
          /\ \A p \in Places : MapValue(after[i], p, "name") = MapValue(stream[i], p, "name")
      BY <1>1, <1>2, PatchedStays
    <3>. QED BY <3>1, <1>3
  <2>2. Names(after) = UNION {names(after, i) : i \in DOMAIN stream}
    BY <1>1 DEF Names
  <2>3. Names(stream) = UNION {names(stream, i) : i \in DOMAIN stream}
    BY DEF Names
  <2> HIDE DEF names
  <2>. QED BY <2>1, <2>2, <2>3
<1>6. ASSUME NEW i \in DOMAIN stream PROVE Patched(after[i], ps) = after[i]
  <2> DEFINE doc == stream[i]
             f == ByPlace(doc, ps)
  <2>1. IsDocument(doc) /\ f \in PatchFor(doc)
    BY <1>2, ByPlaceIsPatch
  <2>2. ByPlace(Patched(doc, ps), ps) = f
    BY <1>2, PatchedStays
  <2>3. Patched(doc, ps) = PatchContainerResources(doc, f)
    BY DEF Patched
  <2>4. Patched(Patched(doc, ps), ps) = PatchContainerResources(Patched(doc, ps), f)
    BY <2>2 DEF Patched
  <2> HIDE DEF f, doc
  <2>5. Patched(Patched(doc, ps), ps) = Patched(doc, ps)
    BY <2>1, <2>3, <2>4, PatchIsIdempotent
  <2>. QED BY <2>5, <1>1 DEF doc
<1>7. ApplyDeploymentPatches(after, ps) = after
  <2>1. ApplyDeploymentPatches(after, ps) = [i \in DOMAIN stream |-> Patched(after[i], ps)]
    BY <1>1 DEF ApplyDeploymentPatches
  <2>2. after = [i \in DOMAIN stream |-> after[i]]
    BY DEF ApplyDeploymentPatches
  <2> HIDE DEF after
  <2>. QED BY <2>1, <2>2, <1>6
<1>. QED BY <1>4, <1>5, <1>7

-----------------------------------------------------------------------------
(* The specification.                                                      *)

\* TypeOK: the nodes of the stream in the base branch stay trees, however
\* often and with whatever they are patched.
THEOREM TreesStayTrees == Spec => []TypeOK
<1>1. Init => TypeOK
  BY ManifestsAssumption DEF Init, TypeOK
<1>2. TypeOK /\ [Next]_treeVars => TypeOK'
  <2> SUFFICES ASSUME TypeOK, [Next]_treeVars PROVE TypeOK'
    OBVIOUS
  <2>1. ASSUME NEW ps \in PatchSets, Patch(ps) PROVE TypeOK'
    BY <2>1, StreamPatched DEF TypeOK, Patch
  <2>2. CASE UNCHANGED treeVars
    BY <2>2 DEF TypeOK, treeVars
  <2>. QED BY <2>1, <2>2 DEF Next
<1>. QED BY <1>1, <1>2, PTL DEF Spec

\* AgainIsClean: a stream that was patched is a fixed point of the same patch,
\* which finds all its containers again (gitops.go:149).
THEOREM AgainNothingChanges == Spec => []AgainIsClean
<1>1. Init => AgainIsClean
  BY DEF Init, AgainIsClean
<1>2. TypeOK /\ AgainIsClean /\ [Next]_treeVars => AgainIsClean'
  <2> SUFFICES ASSUME TypeOK, AgainIsClean, [Next]_treeVars PROVE AgainIsClean'
    OBVIOUS
  <2>1. ASSUME NEW ps \in PatchSets, Patch(ps) PROVE AgainIsClean'
    <3>1. CASE outcome' # "patched"
      BY <3>1 DEF AgainIsClean
    <3>2. CASE outcome' = "patched"
      <4>1. /\ patches' = ps /\ docs' = ApplyDeploymentPatches(docs, ps)
            /\ DOMAIN ps \subseteq Names(docs)
        BY <2>1, <3>2 DEF Patch, ContainerNotFound
      <4>2. Names(docs') = Names(docs) /\ ApplyDeploymentPatches(docs', ps) = docs'
        BY <4>1, StreamPatched DEF TypeOK
      <4>. QED BY <4>1, <4>2 DEF AgainIsClean, ContainerNotFound
    <3>. QED BY <3>1, <3>2
  <2>2. CASE UNCHANGED treeVars
    BY <2>2 DEF AgainIsClean, treeVars, ContainerNotFound, Names, ApplyDeploymentPatches
  <2>. QED BY <2>1, <2>2 DEF Next
<1>. QED BY <1>1, <1>2, TreesStayTrees, PTL DEF Spec

\* StaysParsable: kinds and anchors stay, so only an alias that a quantity is
\* written over can lose its anchor (patch.go:203).
THEOREM PatchedStreamsParse == Spec => StaysParsable
<1>1. TypeOK /\ [Next]_treeVars =>
         [LET Unshared(doc) ==
                 \A c \in Visited(doc), s \in Sections, d \in Dimensions :
                     LET p == Append(Section(c, s), d)
                     IN  p \in DOMAIN doc => doc[p].kind # "alias"
          IN  Parses(docs) /\ (\A i \in DOMAIN docs : Unshared(docs[i])) => Parses(docs')]_treeVars
  <2> DEFINE Unshared(doc) ==
                 \A c \in Visited(doc), s \in Sections, d \in Dimensions :
                     LET p == Append(Section(c, s), d)
                     IN  p \in DOMAIN doc => doc[p].kind # "alias"
  <2> SUFFICES ASSUME TypeOK, NEW ps \in PatchSets, Patch(ps), Parses(docs),
                      \A i \in DOMAIN docs : Unshared(docs[i])
               PROVE  Parses(docs')
    BY DEF Next
  <2>1. CASE UNCHANGED docs
    BY <2>1 DEF Parses
  <2>2. CASE docs' = ApplyDeploymentPatches(docs, ps)
    <3> SUFFICES ASSUME NEW i \in DOMAIN docs, NEW p \in DOMAIN docs'[i],
                        docs'[i][p].kind = "alias"
                 PROVE  \E q \in DOMAIN docs'[i] : docs'[i][q].anchor = docs'[i][p].value
      BY <2>2 DEF Parses, ApplyDeploymentPatches
    <3> DEFINE doc == docs[i]
               f == ByPlace(doc, ps)
    <3>1. docs'[i] = PatchContainerResources(doc, f)
      BY <2>2 DEF ApplyDeploymentPatches, Patched
    <3>2. IsDocument(doc)
      BY DEF TypeOK, IsStream
    <3>3. f \in PatchFor(doc) /\ DOMAIN f \subseteq Visited(doc)
      BY <3>2, ByPlaceIsPatch
    <3>4. Unshared(doc)
      OBVIOUS
    <3>5. \A q \in DOMAIN doc :
             doc[q].kind = "alias" => \E r \in DOMAIN doc : doc[r].anchor = doc[q].value
      BY DEF Parses
    <3> HIDE DEF doc, f
    <3>6. /\ DOMAIN doc \subseteq DOMAIN docs'[i]
          /\ \A q \in DOMAIN doc :
                /\ docs'[i][q].kind = doc[q].kind /\ docs'[i][q].anchor = doc[q].anchor
                /\ q \notin Written(f) => docs'[i][q] = doc[q]
          /\ \A q \in DOMAIN docs'[i] \ DOMAIN doc : docs'[i][q].kind \in {"mapping", "scalar"}
      BY <3>1, <3>2, <3>3, PatchedHas
    <3>7. p \in DOMAIN doc /\ doc[p].kind = "alias"
      BY <3>6
    <3>8. p \notin Written(f)
      <4>1. ASSUME p \in Written(f) PROVE FALSE
        <5>1. PICK c \in DOMAIN f, s \in Sections, d \in Dimensions : p = Append(Section(c, s), d)
          BY <3>3, <4>1, QuantitiesHave DEF Written
        <5>. QED BY <5>1, <3>3, <3>4, <3>7
      <4>. QED BY <4>1
    <3>. QED BY <3>5, <3>6, <3>7, <3>8
  <2>. QED BY <2>1, <2>2 DEF Patch
<1>. QED BY <1>1, TreesStayTrees, PTL DEF Spec, StaysParsable

-----------------------------------------------------------------------------
(* Deployments.                                                            *)

LEMMA ContainerListsAre ==
    ASSUME NEW l \in ContainerLists
    PROVE  /\ l \in Places /\ l # <<>> /\ Len(l) = 4
           /\ Front(l) = PodSpec
           /\ Last(l) \in {"containers", "initContainers"}
<1>1. PodSpec \in Places /\ Len(PodSpec) = 3
  BY TextsAssumption DEF PodSpec, Places
<1>2. PICK k \in {"containers", "initContainers"} : l = Append(PodSpec, k)
  BY DEF ContainerLists
<1>3. k \in Texts
  BY TextsAssumption
<1>4. l \in Places /\ l # <<>> /\ Front(l) = PodSpec /\ Last(l) = k
  BY <1>1, <1>2, <1>3, AppendFront
<1>5. Len(l) = 4
  <2>1. Len(Append(PodSpec, k)) = 3 + 1
    BY <1>1, <1>3, AppendLen
  <2>. QED BY <2>1, <1>2
<1>. QED BY <1>4, <1>5

\* The walk finds what the API server takes for the pod's containers.
LEMMA VisitedInDeployment ==
    ASSUME NEW doc, IsDocument(doc), IsDeployment(doc)
    PROVE  Visited(doc) = PodContainers(doc)
<1>1. \A p \in DOMAIN doc : IsContainerList(doc, p) => p \in ContainerLists
  BY DEF IsDeployment
<1>2. Visited(doc) \subseteq PodContainers(doc)
  BY <1>1 DEF Visited, PodContainers, IsContainerList
<1>3. ASSUME NEW c \in PodContainers(doc) PROVE c \in Visited(doc)
  <2>1. /\ c \in DOMAIN doc \ {<<>>} /\ c \in Places
        /\ Front(c) \in ContainerLists
        /\ Front(c) \in DOMAIN doc
        /\ doc[Front(c)].kind \in {"mapping", "sequence"}
    BY <1>3 DEF PodContainers, IsDocument, Places
  <2>2. IsContainerList(doc, Front(c))
    <3>1. doc[Front(c)].kind = "sequence"
      BY <2>1 DEF IsDeployment
    <3>2. IsMapping(doc, PodSpec)
      BY DEF IsDeployment
    <3>. QED BY <2>1, <3>1, <3>2, ContainerListsAre DEF IsContainerList
  <2>3. Len(c) = 5
    <3>1. c = Append(Front(c), Last(c)) /\ Last(c) \in Texts /\ Front(c) \in Places
      BY <2>1, FrontIsPlace
    <3>2. Len(Front(c)) = 4
      BY <2>1, ContainerListsAre
    <3>3. Len(Append(Front(c), Last(c))) = 4 + 1
      BY <3>1, <3>2, AppendLen
    <3>. QED BY <3>1, <3>3
  <2>4. ASSUME NEW n \in 0..Len(c) - 2 PROVE ~IsContainerList(doc, SubSeq(c, 1, n))
    <3>1. n \in 0..3
      BY <2>3
    <3>2. Len(SubSeq(c, 1, n)) = n
      BY <2>1, <2>3, <3>1 DEF Places
    <3>3. SubSeq(c, 1, n) \notin ContainerLists
      <4>1. ASSUME SubSeq(c, 1, n) \in ContainerLists PROVE FALSE
        <5>1. Len(SubSeq(c, 1, n)) = 4
          BY <4>1, ContainerListsAre
        <5>. QED BY <5>1, <3>1, <3>2
      <4>. QED BY <4>1
    <3>. QED BY <1>1, <3>3 DEF IsContainerList
  <2>. QED BY <2>1, <2>2, <2>4 DEF Visited
<1>. QED BY <1>2, <1>3

\* TyposAreReported: in a stream of Deployments the patcher knows the names
\* that the Deployments declare (patch.go:47).
THEOREM TyposAreFound == Spec => []TyposAreReported
<1>1. TypeOK => TyposAreReported
  <2> DEFINE declared == UNION {ContainerNames(docs[i]) : i \in DOMAIN docs}
  <2> SUFFICES ASSUME TypeOK, \A i \in DOMAIN docs : IsDeployment(docs[i]), NEW ps \in PatchSets
               PROVE  ContainerNotFound(docs, ps) <=>
                          Promise!ContainerNotFound([res |-> [n \in declared |-> ps]], ps)
    BY DEF TyposAreReported
  <2>1. \A i \in DOMAIN docs : Visited(docs[i]) = PodContainers(docs[i])
    BY VisitedInDeployment DEF TypeOK, IsStream
  <2>2. Names(docs) = declared
    BY <2>1 DEF Names, ContainerNames
  <2>. QED BY <2>2 DEF ContainerNotFound, Promise!ContainerNotFound
<1>. QED BY <1>1, TreesStayTrees, PTL

LEMMA PodContainersStay ==
    ASSUME NEW doc, IsDocument(doc), IsDeployment(doc), NEW f \in PatchFor(doc),
           DOMAIN f \subseteq Visited(doc)
    PROVE  PodContainers(PatchContainerResources(doc, f)) = PodContainers(doc)
<1> DEFINE R == PatchContainerResources(doc, f)
<1>1. /\ DOMAIN doc \subseteq DOMAIN R
      /\ \A p \in DOMAIN R \ DOMAIN doc :
            p \in ResourcesPlaces(f) \cup TouchedSections(f) \cup Written(f)
  BY PatchedHas
<1> HIDE DEF R
<1>2. ASSUME NEW c \in DOMAIN f PROVE c \notin ContainerLists
  <2>1. doc[Front(c)].kind = "sequence"
    BY DEF Visited, IsContainerList
  <2>2. doc[PodSpec].kind = "mapping"
    BY DEF IsDeployment, IsMapping
  <2>. QED BY <2>1, <2>2, ContainerListsAre
<1>3. ASSUME NEW p \in DOMAIN R \ DOMAIN doc PROVE Front(p) \notin ContainerLists
  <2>1. Front(p) \in DOMAIN f \/ Last(Front(p)) \in PatchKeys
    BY <1>1, AddedPlaces
  <2>. QED BY <2>1, <1>2, ContainerListsAre, KeysAreApart
<1>4. \A p : p \in PodContainers(R) <=> p \in PodContainers(doc)
  BY <1>1, <1>3 DEF PodContainers
<1>. QED BY <1>4 DEF R

LEMMA WrittenAre ==
    ASSUME NEW doc, NEW f \in PatchFor(doc),
           NEW c \in Places, NEW s \in Sections, NEW d \in Dimensions
    PROVE  /\ Append(Section(c, s), d) \in Written(f) <=> c \in DOMAIN f /\ f[c][s][d] # Untouched
           /\ Append(Section(c, s), d) \notin ResourcesPlaces(f) \cup TouchedSections(f)
<1> DEFINE q == Append(Section(c, s), d)
<1>1. Last(q) = d /\ Front(q) = Section(c, s)
  BY QuantityIsPlace
<1>2. c \in DOMAIN f => q \in DOMAIN Quantities(f) /\ Quantities(f)[q] = f[c][s][d]
  BY QuantitiesAre
<1>3. ASSUME q \in DOMAIN Quantities(f) PROVE c \in DOMAIN f
  <2>1. PICK b \in DOMAIN f, t \in Sections, e \in Dimensions : q = Append(Section(b, t), e)
    BY <1>3, QuantitiesHave
  <2>2. b \in Places
    BY PatchForHas
  <2>3. Front(q) = Section(b, t)
    BY <2>1, <2>2, QuantityIsPlace
  <2>4. Front(Front(Section(b, t))) = b /\ Front(Front(Section(c, s))) = c
    BY <2>2, SectionIsPlace
  <2>. QED BY <1>1, <2>3, <2>4
<1>4. q \notin ResourcesPlaces(f)
  BY <1>1, ResourcesPlacesHave, KeysAreApart
<1>5. ASSUME q \in TouchedSections(f) PROVE FALSE
  <2>1. PICK b \in DOMAIN f, t \in Sections : q = Section(b, t)
    BY <1>5, SectionPlacesHave DEF TouchedSections
  <2>2. b \in Places
    BY PatchForHas
  <2>3. Last(q) = t
    BY <2>1, <2>2, SectionIsPlace
  <2>. QED BY <1>1, <2>3, KeysAreApart
<1>. QED BY <1>2, <1>3, <1>4, <1>5 DEF Written

\* Of a container whose resources have the API's form the quantities become
\* what the patch has, if it has any.
LEMMA QuantityPatched ==
    ASSUME NEW doc, IsDocument(doc), NEW f \in PatchFor(doc),
           NEW c \in Places, Writable(doc, c), NEW s \in Sections, NEW d \in Dimensions
    PROVE  MapValue(PatchContainerResources(doc, f), Section(c, s), d) =
              IF c \in DOMAIN f /\ f[c][s][d] # Untouched THEN f[c][s][d]
              ELSE MapValue(doc, Section(c, s), d)
<1> DEFINE E == Ensured(doc, f)
           R == PatchContainerResources(doc, f)
           r == Append(c, "resources")
           l == Section(c, s)
           q == Append(l, d)
<1>1. /\ DOMAIN doc \subseteq DOMAIN E
      /\ \A p \in DOMAIN doc : E[p] = doc[p]
      /\ \A p \in DOMAIN E \ DOMAIN doc :
            E[p] = Mapping /\ p \in ResourcesPlaces(f) \cup TouchedSections(f)
      /\ \A p \in ResourcesPlaces(f) \cup TouchedSections(f) :
            p \in DOMAIN E \/ ~IsMapping(E, Front(p))
  BY EnsuredHas
<1>2. /\ \A p \in DOMAIN R \ DOMAIN E : R[p].kind = "scalar"
      /\ \A p : IsMapping(R, p) <=> IsMapping(E, p)
      /\ \A p \in Written(f) :
            /\ p \in DOMAIN R \/ ~IsMapping(R, Front(p))
            /\ p \in DOMAIN R /\ R[p].kind \in {"scalar", "alias"} =>
                  R[p].value = Quantities(f)[p]
  BY WritingKeeps
<1>3. /\ DOMAIN doc \subseteq DOMAIN R
      /\ \A p \in DOMAIN doc :
            R[p].kind = doc[p].kind /\ (p \notin Written(f) => R[p] = doc[p])
      /\ \A p \in DOMAIN R \ DOMAIN doc :
            p \in ResourcesPlaces(f) \cup TouchedSections(f) \cup Written(f)
  BY PatchedHas
<1>4. /\ q # <<>> /\ Front(q) = l
      /\ Front(l) = r /\ Front(r) = c
  BY SectionIsPlace, QuantityIsPlace, AppendFront, TextsAssumption
<1>5. /\ q \in Written(f) <=> c \in DOMAIN f /\ f[c][s][d] # Untouched
      /\ q \notin ResourcesPlaces(f) \cup TouchedSections(f)
  BY WrittenAre
<1>6. /\ IsMapping(doc, c)
      /\ r \in DOMAIN doc => IsMapping(doc, r)
      /\ l \in DOMAIN doc => IsMapping(doc, l)
      /\ q \in DOMAIN doc => doc[q].kind = "scalar"
  BY DEF Writable
<1>7. c \in DOMAIN f => Quantities(f)[q] = f[c][s][d]
  BY QuantitiesAre
<1>8. c \in DOMAIN f => r \in ResourcesPlaces(f)
  BY DEF ResourcesPlaces
<1>9. c \in DOMAIN f /\ f[c][s][d] # Untouched => l \in TouchedSections(f)
  BY SectionPlacesAre DEF Touches
<1> HIDE DEF E, R, r, l, q
<1>10. \A p \in DOMAIN E : p \notin DOMAIN doc \/ IsMapping(doc, p) => IsMapping(E, p)
  BY <1>1, NodesAre DEF IsMapping
<1>11. CASE c \in DOMAIN f /\ f[c][s][d] # Untouched
  <2>1. IsMapping(E, c)
    BY <1>1, <1>6 DEF IsMapping
  <2>2. r \in DOMAIN E /\ IsMapping(E, r)
    BY <1>11, <1>1, <1>4, <1>6, <1>8, <1>10, <2>1
  <2>3. l \in DOMAIN E /\ IsMapping(E, l)
    BY <1>11, <1>1, <1>4, <1>6, <1>9, <1>10, <2>2
  <2>4. IsMapping(R, l) /\ q \in DOMAIN R
    BY <1>11, <1>2, <1>4, <1>5, <2>3
  <2>5. R[q].kind = "scalar"
    BY <2>4, <1>1, <1>2, <1>3, <1>5, <1>6
  <2>6. R[q].value = f[c][s][d]
    BY <1>11, <1>2, <1>5, <1>7, <2>4, <2>5
  <2>. QED BY <1>11, <2>4, <2>5, <2>6 DEF MapValue, R, l, q
<1>12. CASE ~(c \in DOMAIN f /\ f[c][s][d] # Untouched)
  <2>1. q \notin Written(f)
    BY <1>5, <1>12
  <2>2. CASE q \in DOMAIN doc
    <3>1. l \in DOMAIN doc
      BY <2>2, <1>4 DEF IsDocument
    <3>2. R[q] = doc[q] /\ (IsMapping(R, l) <=> IsMapping(doc, l))
      BY <2>1, <2>2, <3>1, <1>3 DEF IsMapping
    <3>. QED BY <1>12, <1>3, <2>2, <3>2 DEF MapValue, R, l, q
  <2>3. CASE q \notin DOMAIN doc
    <3>1. q \notin DOMAIN R
      BY <2>1, <2>3, <1>3, <1>5
    <3>. QED BY <1>12, <2>3, <3>1 DEF MapValue, R, l, q
  <2>. QED BY <2>2, <2>3
<1>. QED BY <1>11, <1>12

LEMMA SettingPatched ==
    ASSUME NEW doc, IsDocument(doc), NEW f \in PatchFor(doc),
           NEW c \in Places, Writable(doc, c)
    PROVE  Setting(PatchContainerResources(doc, f), c) =
              IF c \in DOMAIN f THEN Overlaid(Setting(doc, c), f[c]) ELSE Setting(doc, c)
<1> DEFINE R == PatchContainerResources(doc, f)
<1>1. \A s \in Sections, d \in Dimensions :
         MapValue(R, Section(c, s), d) =
            IF c \in DOMAIN f /\ f[c][s][d] # Untouched THEN f[c][s][d]
            ELSE MapValue(doc, Section(c, s), d)
  BY QuantityPatched
<1> HIDE DEF R
<1>2. CASE c \in DOMAIN f
  <2>1. \A s \in Sections, d \in Dimensions :
           MapValue(R, Section(c, s), d) =
              IF f[c][s][d] = Untouched THEN Setting(doc, c)[s][d] ELSE f[c][s][d]
    BY <1>1, <1>2 DEF Setting
  <2>2. Setting(R, c) = Overlaid(Setting(doc, c), f[c])
    BY <2>1 DEF Setting, Overlaid
  <2>. QED BY <1>2, <2>2 DEF R
<1>3. CASE c \notin DOMAIN f
  BY <1>1, <1>3 DEF Setting, R
<1>. QED BY <1>2, <1>3

\* What the API server reads of a patched Deployment.
LEMMA ResourcesPatched ==
    ASSUME NEW doc, IsDocument(doc), Plain(doc), NEW ps \in PatchSets
    PROVE  Resources(Patched(doc, ps)) =
              [name \in ContainerNames(doc) |->
                  IF name \in DOMAIN ps THEN Overlaid(Resources(doc)[name], ps[name])
                  ELSE Resources(doc)[name]]
<1> DEFINE f == ByPlace(doc, ps)
           R == Patched(doc, ps)
<1>1. /\ f \in PatchFor(doc) /\ DOMAIN f \subseteq Visited(doc)
      /\ \A c \in Visited(doc) : c \in DOMAIN f <=> MapValue(doc, c, "name") \in DOMAIN ps
      /\ \A c \in DOMAIN f : f[c] = ps[MapValue(doc, c, "name")]
  BY ByPlaceIsPatch
<1>2. R = PatchContainerResources(doc, f)
  BY DEF Patched
<1>3. IsDeployment(doc) /\ \A c \in PodContainers(doc) : Writable(doc, c)
  BY DEF Plain
<1>4. \A p \in Places : MapValue(R, p, "name") = MapValue(doc, p, "name")
  BY PatchedStays
<1> HIDE DEF f, R
<1>5. Visited(doc) = PodContainers(doc)
  BY <1>3, VisitedInDeployment
<1>6. PodContainers(doc) \subseteq Places
  BY DEF PodContainers, IsDocument, Places
<1>7. PodContainers(R) = PodContainers(doc)
  BY <1>1, <1>2, <1>3, PodContainersStay
<1>8. ContainerNames(R) = ContainerNames(doc)
  BY <1>4, <1>6, <1>7 DEF ContainerNames
<1>9. \A name : Declarations(R, name) = Declarations(doc, name)
  BY <1>4, <1>6, <1>7 DEF Declarations
<1>10. ASSUME NEW name \in ContainerNames(doc)
       PROVE  Resources(R)[name] =
                 IF name \in DOMAIN ps THEN Overlaid(Resources(doc)[name], ps[name])
                 ELSE Resources(doc)[name]
  <2> DEFINE c == CHOOSE c \in Declarations(doc, name) : TRUE
  <2>1. Declarations(doc, name) # {}
    BY <1>10 DEF Declarations, ContainerNames
  <2>2. c \in Declarations(doc, name)
    BY <2>1
  <2>3. Resources(R)[name] = Setting(R, c) /\ Resources(doc)[name] = Setting(doc, c)
    <3>1. Resources(doc)[name] = Setting(doc, c)
      BY <1>10 DEF Resources
    <3>2. Resources(R)[name] = Setting(R, CHOOSE x \in Declarations(R, name) : TRUE)
      BY <1>8, <1>10 DEF Resources
    <3>3. Declarations(R, name) = Declarations(doc, name)
      BY <1>9
    <3>4. (CHOOSE x \in Declarations(R, name) : TRUE) = c
      BY <3>3
    <3>. QED BY <3>1, <3>2, <3>4
  <2> HIDE DEF c
  <2>4. c \in PodContainers(doc) /\ c \in Places /\ MapValue(doc, c, "name") = name
    BY <2>2, <1>6 DEF Declarations
  <2>5. Setting(R, c) =
           IF c \in DOMAIN f THEN Overlaid(Setting(doc, c), f[c]) ELSE Setting(doc, c)
    BY <2>4, <1>1, <1>2, <1>3, SettingPatched
  <2>6. (c \in DOMAIN f <=> name \in DOMAIN ps) /\ (c \in DOMAIN f => f[c] = ps[name])
    BY <2>4, <1>1, <1>5
  <2>. QED BY <2>3, <2>5, <2>6
<1>11. Resources(R) = [name \in ContainerNames(doc) |-> Resources(R)[name]]
  BY <1>8 DEF Resources
<1> HIDE DEF R
<1>12. Resources(R) =
          [name \in ContainerNames(doc) |->
              IF name \in DOMAIN ps THEN Overlaid(Resources(doc)[name], ps[name])
              ELSE Resources(doc)[name]]
  BY <1>10, <1>11
<1>. QED BY <1>12 DEF R

\* PatchesAsPromised: on Deployments of the API's form the patcher implements
\* the ApplyDeploymentPatches that GitOps is built on.
THEOREM ImplementsManifest == Spec => PatchesAsPromised
<1> DEFINE before(i) == [canonical |-> TRUE, res |-> Resources(docs[i])]
           patch(i) == [name \in DOMAIN patches' \cap DOMAIN before(i).res |->
                           Overlaid(before(i).res[name], patches'[name])]
<1>1. TypeOK /\ [Next]_treeVars =>
         [outcome' = "patched" =>
             \A i \in DOMAIN docs : Plain(docs[i]) =>
                 Resources(docs'[i]) =
                    Promise!ApplyDeploymentPatches(before(i), patch(i)).res]_treeVars
  <2> SUFFICES ASSUME TypeOK, NEW ps \in PatchSets, Patch(ps), outcome' = "patched",
                      NEW i \in DOMAIN docs, Plain(docs[i])
               PROVE  Resources(docs'[i]) =
                         Promise!ApplyDeploymentPatches(before(i), patch(i)).res
    BY DEF Next
  <2>1. patches' = ps /\ docs' = ApplyDeploymentPatches(docs, ps)
    BY DEF Patch
  <2>2. docs'[i] = Patched(docs[i], ps)
    BY <2>1 DEF ApplyDeploymentPatches
  <2>3. IsDocument(docs[i])
    BY DEF TypeOK, IsStream
  <2> DEFINE names == ContainerNames(docs[i])
             res == Resources(docs[i])
  <2>4. Resources(docs'[i]) =
           [name \in names |->
               IF name \in DOMAIN ps THEN Overlaid(res[name], ps[name]) ELSE res[name]]
    BY <2>2, <2>3, ResourcesPatched
  <2>5. before(i).res = res /\ DOMAIN res = names
    BY DEF Resources
  <2>6. patch(i) = [name \in DOMAIN ps \cap names |-> Overlaid(res[name], ps[name])]
    BY <2>1, <2>5
  <2>7. Promise!ApplyDeploymentPatches(before(i), patch(i)).res =
           [name \in names |-> IF name \in DOMAIN patch(i) THEN patch(i)[name] ELSE res[name]]
    BY <2>5 DEF Promise!ApplyDeploymentPatches
  <2> HIDE DEF names, res
  <2>. QED BY <2>4, <2>6, <2>7
<1>. QED BY <1>1, TreesStayTrees, PTL DEF Spec, PatchesAsPromised
=============================================================================
