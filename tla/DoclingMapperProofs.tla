------------------------ MODULE DoclingMapperProofs ------------------------
(***************************************************************************)
(* The document is structurally valid at every point of the stream, for    *)
(* documents of any size: the tree is (Tree), and whatever the mapper      *)
(* remembers names an item of it (Sound). Anchors land on the paragraphs   *)
(* they start in (InText), references find what they name, and the rows of *)
(* a sheet stay in its table (RowsInv).                                    *)
(***************************************************************************)
EXTENDS DoclingMapper, FiniteSetTheorems, TLAPS

\* A tree whose arenas are filled from index 0 without a gap, whose items are listed
\* by their parents and by nobody else.
Tree(t) ==
  /\ t.size \in [Arenas -> Nat]
  /\ DOMAIN t.parent = {r \in Arenas \X Nat : r[2] < t.size[r[1]]}
  /\ DOMAIN t.children = {Body, Furniture} \cup DOMAIN t.parent
  /\ \A r \in DOMAIN t.parent :
       t.parent[r] \in DOMAIN t.children /\ r \in t.children[t.parent[r]]
  /\ \A q \in DOMAIN t.children : \A r \in t.children[q] :
       r \in DOMAIN t.parent /\ t.parent[r] = q

\* What link_child appends to, rather than to the body in its place.
Holder(t, ref) ==
  \/ ref \in {Body, Furniture}
  \/ ref \in DOMAIN t.parent /\ ref[1] \in {"groups", "field_regions", "field_items"}

LEMMA HoldersKeepTheirs ==
  ASSUME NEW t, NEW ref, Holder(t, ref)
  PROVE  LinkTarget(t, ref) = ref
BY DEF Holder, LinkTarget, GroupByRef, Has, Body, Furniture

\* One more item under a holder: the tree is a tree, and nothing of it is lost.
LEMMA Grown ==
  ASSUME NEW t, Tree(t), NEW arena \in Arenas, NEW p, Holder(t, p)
  PROVE  LET u == Add(t, arena, p)
         IN  /\ Tree(u)
             /\ DOMAIN u.parent = DOMAIN t.parent \cup {NewRef(t, arena)}
             /\ u.size = [t.size EXCEPT ![arena] = @ + 1]
<1> DEFINE u == Add(t, arena, p)
           new == NewRef(t, arena)
<1>1. LinkTarget(t, p) = p
  BY HoldersKeepTheirs
<1>2. /\ u.size = [t.size EXCEPT ![arena] = @ + 1]
      /\ u.parent = With(t.parent, new, p)
      /\ u.children = With([t.children EXCEPT ![p] = @ \cup {new}], new, {})
  <2>1. u = [size     |-> [t.size EXCEPT ![arena] = @ + 1],
             parent   |-> With(t.parent, new, p),
             children |-> With([t.children EXCEPT ![p] = @ \cup {new}], new, {})]
    BY <1>1, Zenon DEF Add
  <2> HIDE DEF u
  <2> QED BY <2>1
<1>3. p \in DOMAIN t.children
  BY DEF Tree, Holder
<1>4. new \in Arenas \X Nat /\ new \notin DOMAIN t.parent /\ new \notin {Body, Furniture}
  BY DEF Tree, NewRef, Arenas, Body, Furniture
<1>5. DOMAIN u.parent = DOMAIN t.parent \cup {new}
  BY <1>2 DEF With
<1>6. DOMAIN u.children = DOMAIN t.children \cup {new}
  BY <1>2 DEF With
<1>7. u.size \in [Arenas -> Nat]
  BY <1>2 DEF Tree
<1>8. DOMAIN u.parent = {r \in Arenas \X Nat : r[2] < u.size[r[1]]}
  <2>1. ASSUME NEW r \in Arenas \X Nat
        PROVE  (r[2] < u.size[r[1]]) <=> (r[2] < t.size[r[1]] \/ r = new)
    BY <1>2 DEF Tree, NewRef
  <2> QED BY <1>4, <1>5, <2>1 DEF Tree
<1>9. ASSUME NEW r \in DOMAIN u.parent
      PROVE  u.parent[r] \in DOMAIN u.children /\ r \in u.children[u.parent[r]]
  <2>1. CASE r = new
    BY <1>2, <1>3, <1>4, <1>6, <2>1 DEF With, Tree
  <2>2. CASE r # new
    BY <1>2, <1>3, <1>4, <1>5, <1>6, <2>2 DEF With, Tree
  <2> QED BY <2>1, <2>2
<1>10. ASSUME NEW q \in DOMAIN u.children, NEW r \in u.children[q]
       PROVE  r \in DOMAIN u.parent /\ u.parent[r] = q
  <2>1. CASE q = new
    BY <1>2, <2>1 DEF With
  <2>2. CASE q = p /\ q # new
    BY <1>2, <1>3, <1>4, <1>5, <2>2 DEF With, Tree
  <2>3. CASE q # p /\ q # new
    BY <1>2, <1>4, <1>5, <1>6, <2>3 DEF With, Tree
  <2> QED BY <2>1, <2>2, <2>3
<1>11. DOMAIN u.children = {Body, Furniture} \cup DOMAIN u.parent
  BY <1>5, <1>6 DEF Tree
<1>12. Tree(u)
  BY <1>7, <1>8, <1>9, <1>10, <1>11 DEF Tree
<1> QED BY <1>2, <1>5, <1>12

----------------------------------------------------------------------------
(* The invariant *)

SpanRecords == [start : Int, end : Int, ref : Arenas \X Nat]

\* Whatever the mapper remembers by reference is an item of the tree.
Remembered ==
  /\ \A k \in DOMAIN groups : groups[k] \in DOMAIN tree.parent /\ groups[k][1] = "groups"
  /\ fine \subseteq DOMAIN tree.parent
  /\ \A i \in 1..Len(spans) : spans[i].ref \in DOMAIN tree.parent
  /\ \A n \in DOMAIN names : names[n] \in DOMAIN tree.parent
  /\ \A a \in placed : a.ref \in DOMAIN tree.parent
  /\ \A j \in joined : j.ref \in DOMAIN tree.parent

Sound ==
  /\ offset \in Int /\ spans \in Seq(SpanRecords)
  /\ Tree(tree)
  /\ Remembered

LEMMA GroupsHold ==
  ASSUME Sound, NEW key
  PROVE  Holder(tree, Under(key))
BY DEF Sound, Remembered, Under, Holder

LEMMA BodyHolds == ASSUME NEW t PROVE Holder(t, Body) /\ Holder(t, Furniture)
BY DEF Holder

\* A step that adds items, and remembers none but items of the tree.
LEMMA StillSound ==
  ASSUME Sound, Tree(tree'), DOMAIN tree.parent \subseteq DOMAIN tree'.parent,
         UNCHANGED <<offset, spans, results>>,
         \A k \in DOMAIN groups' :
           \/ k \in DOMAIN groups /\ groups'[k] = groups[k]
           \/ groups'[k] \in DOMAIN tree'.parent /\ groups'[k][1] = "groups",
         fine' \subseteq fine \cup DOMAIN tree'.parent,
         \A n \in DOMAIN names' :
           (n \in DOMAIN names /\ names'[n] = names[n]) \/ names'[n] \in DOMAIN tree'.parent
  PROVE  Sound'
<1>1. Remembered'
  BY DEF Sound, Remembered, results
<1> QED BY <1>1 DEF Sound

\* An event that adds one item under a holder, and remembers nothing.
LEMMA LeafSound ==
  ASSUME Sound, NEW arena \in Arenas, NEW p, Holder(tree, p), Leaf(arena, p),
         UNCHANGED <<offset, spans, results, groups, fine, names>>
  PROVE  Sound'
<1>1. Tree(tree') /\ DOMAIN tree'.parent = DOMAIN tree.parent \cup {NewRef(tree, arena)}
  BY Grown DEF Leaf, Sound
<1> QED BY <1>1, StillSound

\* Two items in a row, the second under the first or under its holder.
LEMMA GrownTwice ==
  ASSUME NEW t, Tree(t), NEW first \in Arenas, NEW second \in Arenas, NEW p, Holder(t, p),
         NEW q, q \in {p, NewRef(t, first)} /\ (q # p => first \in {"groups", "field_regions", "field_items"})
  PROVE  LET u == Add(Add(t, first, p), second, q)
         IN  /\ Tree(u)
             /\ DOMAIN u.parent = DOMAIN t.parent \cup {NewRef(t, first), NewRef(Add(t, first, p), second)}
<1> DEFINE v == Add(t, first, p)
<1>1. Tree(v) /\ DOMAIN v.parent = DOMAIN t.parent \cup {NewRef(t, first)}
  BY Grown
<1>2. Holder(v, q)
  <2>1. CASE q = p
    BY <1>1, <2>1 DEF Holder
  <2>2. CASE q # p
    <3>1. q = NewRef(t, first) /\ q[1] = first
      BY <2>2 DEF NewRef
    <3> QED BY <1>1, <2>2, <3>1 DEF Holder
  <2> QED BY <2>1, <2>2
<1> HIDE DEF v
<1>3. Tree(Add(v, second, q)) /\ DOMAIN Add(v, second, q).parent = DOMAIN v.parent \cup {NewRef(v, second)}
  BY <1>1, <1>2, Grown
<1> QED BY <1>1, <1>3 DEF v

\* A new group, remembered under a key.
LEMMA OpenedSound ==
  ASSUME Sound, NEW key, NEW p, Holder(tree, p), OpenGroup(key, p),
         UNCHANGED <<offset, spans, results, fine, names>>
  PROVE  Sound'
<1> DEFINE new == NewRef(tree, "groups")
<1>1. /\ Tree(tree')
      /\ DOMAIN tree'.parent = DOMAIN tree.parent \cup {new}
  BY Grown DEF OpenGroup, Leaf, Sound, Arenas
<1>2. ASSUME NEW k \in DOMAIN groups'
      PROVE  \/ k \in DOMAIN groups /\ groups'[k] = groups[k]
             \/ groups'[k] \in DOMAIN tree'.parent /\ groups'[k][1] = "groups"
  BY <1>1, <1>2 DEF OpenGroup, Group, With, NewRef
<1> QED BY <1>1, <1>2, StillSound

\* A group with a text in it, none of them remembered.
LEMMA FramedSound ==
  ASSUME Sound, NEW p, Holder(tree, p), Framed(p),
         UNCHANGED <<offset, spans, results, groups, fine, names>>
  PROVE  Sound'
<1>1. Tree(tree') /\ DOMAIN tree.parent \subseteq DOMAIN tree'.parent
  BY GrownTwice DEF Framed, Sound, Arenas
<1> QED BY <1>1, StillSound

----------------------------------------------------------------------------
(* One lemma for each group of events *)

LEMMA ParagraphSound == ASSUME MapperAssumption, Sound, OnParagraph PROVE Sound'
<1> DEFINE new == NewRef(tree, "texts")
<1>1. PICK length \in 0..(MaxText - 1 - offset) :
        /\ offset' = offset + length + 1
        /\ Leaf("texts", Body)
        /\ spans' = Append(spans, [start |-> offset, end |-> offset + length, ref |-> new])
  BY DEF OnParagraph
<1>2. Tree(tree') /\ DOMAIN tree'.parent = DOMAIN tree.parent \cup {new}
  BY <1>1, Grown, BodyHolds DEF Leaf, Sound, Arenas
<1>3. new \in Arenas \X Nat
  BY DEF Sound, Tree, NewRef, Arenas
<1>4. offset' \in Int /\ spans' \in Seq(SpanRecords)
  BY <1>1, <1>3 DEF Sound, SpanRecords, MapperAssumption
<1>5. ASSUME NEW i \in 1..Len(spans')
      PROVE  spans'[i].ref \in DOMAIN tree'.parent
  <2> DEFINE span == [start |-> offset, end |-> offset + length, ref |-> new]
  <2>1. span.ref = new /\ span \in SpanRecords
    BY <1>3 DEF Sound, SpanRecords, MapperAssumption
  <2>2. spans' = Append(spans, span)
    BY <1>1
  <2> HIDE DEF span
  <2>3. (i \in 1..Len(spans) /\ spans'[i] = spans[i]) \/ spans'[i] = span
    BY <1>5, <2>1, <2>2 DEF Sound
  <2> QED BY <1>2, <2>1, <2>3 DEF Sound, Remembered
<1>6. Remembered'
  BY <1>2, <1>5 DEF OnParagraph, Sound, Remembered, results
<1> QED BY <1>2, <1>4, <1>6 DEF Sound

LEMMA WalkOnSound == ASSUME MapperAssumption, Sound, WalkOn PROVE Sound'
<1>1. offset' \in Int
  BY DEF WalkOn, Sound, MapperAssumption
<1>2. Remembered'
  BY DEF WalkOn, Sound, Remembered, results, anchoring
<1> QED BY <1>1, <1>2 DEF WalkOn, Sound

\* A text in a section that comes with its first text: Writer's comments and a sheet's.
LEMMA SectionSound ==
  ASSUME Sound, NEW key, NEW p, Holder(tree, p),
         LET section == IF key \in DOMAIN groups THEN groups[key] ELSE NewRef(tree, "groups")
             with == IF key \in DOMAIN groups THEN tree ELSE Add(tree, "groups", p)
         IN  groups' = Group(key, section) /\ tree' = Add(with, "texts", section)
  PROVE  LET with == IF key \in DOMAIN groups THEN tree ELSE Add(tree, "groups", p)
         IN  /\ Tree(tree')
             /\ DOMAIN tree.parent \cup {NewRef(with, "texts")} \subseteq DOMAIN tree'.parent
             /\ \A k \in DOMAIN groups' :
                  \/ k \in DOMAIN groups /\ groups'[k] = groups[k]
                  \/ groups'[k] \in DOMAIN tree'.parent /\ groups'[k][1] = "groups"
<1>1. CASE key \in DOMAIN groups
  <2>1. Holder(tree, groups[key])
    BY <1>1 DEF Sound, Remembered, Holder
  <2>2. /\ Tree(tree')
        /\ DOMAIN tree'.parent = DOMAIN tree.parent \cup {NewRef(tree, "texts")}
    BY <1>1, <2>1, Grown DEF Sound, Arenas
  <2>3. \A k \in DOMAIN groups' : k \in DOMAIN groups /\ groups'[k] = groups[k]
    BY <1>1 DEF Group, With
  <2> QED BY <1>1, <2>2, <2>3
<1>2. CASE key \notin DOMAIN groups
  <2> DEFINE section == NewRef(tree, "groups")
  <2>1. /\ tree' = Add(Add(tree, "groups", p), "texts", section)
        /\ groups' = Group(key, section)
    BY <1>2
  <2>2. /\ Tree(tree')
        /\ DOMAIN tree'.parent = DOMAIN tree.parent
                                   \cup {section, NewRef(Add(tree, "groups", p), "texts")}
    BY <2>1, GrownTwice DEF Sound, Arenas
  <2>3. section[1] = "groups"
    BY DEF NewRef
  <2> HIDE DEF section
  <2>4. \A k \in DOMAIN groups' :
          (k \in DOMAIN groups /\ groups'[k] = groups[k]) \/ groups'[k] = section
    BY <2>1 DEF Group, With
  <2> QED BY <1>2, <2>2, <2>3, <2>4
<1> QED BY <1>1, <1>2

LEMMA CommentSound == ASSUME Sound, OnComment PROVE Sound'
<1> DEFINE key == <<"comments">>
           section == IF key \in DOMAIN groups THEN groups[key] ELSE NewRef(tree, "groups")
           with == IF key \in DOMAIN groups THEN tree ELSE Add(tree, "groups", Furniture)
           ref == NewRef(with, "texts")
<1>1. /\ groups' = Group(key, section)
      /\ tree' = Add(with, "texts", section)
      /\ \E name \in Comments : names' \in {names, With(names, name, ref)}
      /\ UNCHANGED <<offset, spans, results, fine>>
  BY DEF OnComment, Kept
<1>2. /\ Tree(tree')
      /\ DOMAIN tree.parent \cup {ref} \subseteq DOMAIN tree'.parent
      /\ \A k \in DOMAIN groups' :
           \/ k \in DOMAIN groups /\ groups'[k] = groups[k]
           \/ groups'[k] \in DOMAIN tree'.parent /\ groups'[k][1] = "groups"
  BY <1>1, SectionSound, BodyHolds
<1> HIDE DEF key, section, with, ref
<1>3. \A n \in DOMAIN names' :
        (n \in DOMAIN names /\ names'[n] = names[n]) \/ names'[n] = ref
  BY <1>1 DEF With
<1> QED BY <1>1, <1>2, <1>3, StillSound

LEMMA SheetCommentSound == ASSUME Sound, OnSheetCellComment PROVE Sound'
<1>1. PICK index \in Parts :
        LET key == <<"sheet_comments", index>>
            section == IF key \in DOMAIN groups THEN groups[key] ELSE NewRef(tree, "groups")
            with == IF key \in DOMAIN groups THEN tree
                    ELSE Add(tree, "groups", Under(<<"sheet", index>>))
        IN  /\ groups' = Group(key, section)
            /\ tree' = Add(with, "texts", section)
            /\ fine' \subseteq fine \cup {NewRef(with, "texts")}
  BY DEF OnSheetCellComment
<1> DEFINE key == <<"sheet_comments", index>>
           with == IF key \in DOMAIN groups THEN tree
                   ELSE Add(tree, "groups", Under(<<"sheet", index>>))
           ref == NewRef(with, "texts")
<1>2. /\ Tree(tree')
      /\ DOMAIN tree.parent \cup {ref} \subseteq DOMAIN tree'.parent
      /\ \A k \in DOMAIN groups' :
           \/ k \in DOMAIN groups /\ groups'[k] = groups[k]
           \/ groups'[k] \in DOMAIN tree'.parent /\ groups'[k][1] = "groups"
  BY <1>1, SectionSound, GroupsHold
<1>3. fine' \subseteq fine \cup {ref}
  BY <1>1
<1> HIDE DEF key, with, ref
<1> QED BY <1>2, <1>3, StillSound DEF OnSheetCellComment, Kept, anchoring

\* The form arenas of the first field, whose region then is the region of every field.
LEMMA RegionHolds ==
  ASSUME NEW t, Tree(t)
  PROVE  LET region == <<"field_regions", 0>>
             u == IF Has(t, region) THEN t
                  ELSE Add(Add(t, "field_regions", Body), "form_items", Body)
         IN  Tree(u) /\ DOMAIN t.parent \subseteq DOMAIN u.parent /\ Holder(u, region)
<1> DEFINE region == <<"field_regions", 0>>
<1>1. CASE Has(t, region)
  BY <1>1 DEF Has, Holder
<1>2. CASE ~Has(t, region)
  <2>1. t.size["field_regions"] = 0
    BY <1>2 DEF Tree, Has, Arenas
  <2>2. NewRef(t, "field_regions") = region
    BY <2>1 DEF NewRef
  <2> DEFINE u == Add(Add(t, "field_regions", Body), "form_items", Body)
  <2>3. Tree(u) /\ DOMAIN t.parent \cup {region} \subseteq DOMAIN u.parent
    BY <2>2, GrownTwice, BodyHolds DEF Arenas
  <2>4. Holder(u, region)
    BY <2>3 DEF Holder
  <2> QED BY <1>2, <2>3, <2>4
<1> QED BY <1>1, <1>2

LEMMA FormFieldSound == ASSUME Sound, OnFormField PROVE Sound'
<1> DEFINE region == <<"field_regions", 0>>
           arena == IF Has(tree, region) THEN tree
                    ELSE Add(Add(tree, "field_regions", Body), "form_items", Body)
           field == NewRef(arena, "field_items")
           item == Add(arena, "field_items", region)
           heading(labelled) == IF labelled THEN Add(item, "texts", field) ELSE item
<1>1. PICK labelled \in BOOLEAN :
        /\ tree' = Add(heading(labelled), "texts", field)
        /\ fine' = fine \cup {NewRef(heading(labelled), "texts")}
                        \cup (IF labelled THEN {NewRef(item, "texts")} ELSE {})
  BY DEF OnFormField
<1>2. Tree(arena) /\ DOMAIN tree.parent \subseteq DOMAIN arena.parent /\ Holder(arena, region)
  BY RegionHolds DEF Sound
<1> HIDE DEF arena, region
<1>3. Tree(item) /\ DOMAIN item.parent = DOMAIN arena.parent \cup {field}
  BY <1>2, Grown DEF Arenas
<1>4. field[1] = "field_items"
  BY DEF NewRef
<1> HIDE DEF item, field
<1>5. Holder(item, field)
  BY <1>3, <1>4 DEF Holder
<1>6. /\ Tree(heading(labelled)) /\ Holder(heading(labelled), field)
      /\ DOMAIN item.parent \subseteq DOMAIN heading(labelled).parent
      /\ labelled => NewRef(item, "texts") \in DOMAIN heading(labelled).parent
  <2>1. CASE labelled
    <3>1. /\ Tree(Add(item, "texts", field))
          /\ DOMAIN Add(item, "texts", field).parent = DOMAIN item.parent \cup {NewRef(item, "texts")}
      BY <1>3, <1>5, Grown DEF Arenas
    <3>2. Holder(Add(item, "texts", field), field)
      BY <1>5, <3>1 DEF Holder
    <3> QED BY <2>1, <3>1, <3>2
  <2>2. CASE ~labelled
    BY <1>3, <1>5, <2>2
  <2> QED BY <2>1, <2>2
<1> HIDE DEF heading
<1>7. /\ Tree(tree')
      /\ DOMAIN tree'.parent = DOMAIN heading(labelled).parent
                                 \cup {NewRef(heading(labelled), "texts")}
  BY <1>1, <1>6, Grown DEF Arenas
<1>8. fine' \subseteq fine \cup DOMAIN tree'.parent
  BY <1>1, <1>6, <1>7
<1> QED BY <1>2, <1>3, <1>6, <1>7, <1>8, StillSound DEF OnFormField, Kept

LEMMA SheetSound == ASSUME Sound, OnSheet PROVE Sound'
<1> DEFINE group == NewRef(tree, "groups")
<1>1. PICK index \in Parts :
        /\ groups' = Group(<<"sheet", index>>, group)
        /\ tree' = Add(Add(tree, "groups", Body), "tables", group)
  BY DEF OnSheet
<1>2. Tree(tree') /\ DOMAIN tree.parent \cup {group} \subseteq DOMAIN tree'.parent
  BY <1>1, GrownTwice, BodyHolds DEF Sound, Arenas
<1>3. group[1] = "groups"
  BY DEF NewRef
<1> HIDE DEF group
<1>4. \A k \in DOMAIN groups' :
        (k \in DOMAIN groups /\ groups'[k] = groups[k]) \/ groups'[k] = group
  BY <1>1 DEF Group, With
<1> QED BY <1>2, <1>3, <1>4, StillSound DEF OnSheet, Kept, anchoring

LEMMA EmbeddedObjectSound == ASSUME Sound, OnEmbeddedObject PROVE Sound'
<1>1. PICK arena \in {"texts", "tables", "pictures"} :
        Leaf(arena, Body) /\ fine' = fine \cup {NewRef(tree, arena)}
  BY DEF OnEmbeddedObject
<1>2. arena \in Arenas /\ tree' = Add(tree, arena, Body)
  BY <1>1 DEF Leaf, Arenas
<1>3. Tree(tree') /\ DOMAIN tree'.parent = DOMAIN tree.parent \cup {NewRef(tree, arena)}
  BY <1>2, Grown, BodyHolds DEF Sound
<1> QED BY <1>1, <1>3, StillSound DEF OnEmbeddedObject, Kept, anchoring

\* The positions of a sequence of length n are n of them.
LEMMA PositionsCounted ==
  ASSUME NEW n \in Nat
  PROVE  IsFiniteSet(1..n) /\ Cardinality(1..n) = n
<1>1. 1 \in Int /\ n \in Int
  OBVIOUS
<1>2. /\ IsFiniteSet(1..n)
      /\ Cardinality(1..n) = IF 1 > n THEN 0 ELSE n - 1 + 1
  BY <1>1, FS_Interval, Zenon
<1> QED BY <1>2

\* What an anchor resolves to is the item of a paragraph that was emitted.
LEMMA ResolvedInTree ==
  ASSUME Sound, NEW p, Resolves(p)
  PROVE  Resolved(p).ref \in DOMAIN tree.parent
<1> DEFINE before == {i \in 1..Len(spans) : spans[i].start <= p.start}
<1>1. Len(spans) \in Nat
  BY DEF Sound
<1>2. IsFiniteSet(1..Len(spans)) /\ Cardinality(1..Len(spans)) = Len(spans)
  BY <1>1, PositionsCounted, Zenon
<1>3. Cardinality(before) <= Len(spans) /\ Cardinality(before) \in Nat
  BY <1>2, FS_Subset, FS_CardinalityType
<1>4. Before(p.start) \in 1..Len(spans)
  BY <1>1, <1>3 DEF Before, Resolves
<1> QED BY <1>4 DEF Resolved, Sound, Remembered

LEMMA StatusSound == ASSUME Sound, OnStatus PROVE Sound'
<1>1. \A a \in Anchors : a.ref \in DOMAIN tree.parent
  BY ResolvedInTree DEF Anchors
<1>2. ASSUME NEW t, NEW j \in Answers(t) PROVE j.ref \in DOMAIN tree.parent
  BY DEF Answers, Sound, Remembered
<1>3. ASSUME NEW t, NEW j \in Pointed(t) PROVE j.ref \in DOMAIN tree.parent
  BY <1>1 DEF Pointed
<1>4. \A j \in joined' : j.ref \in DOMAIN tree.parent
  BY <1>2, <1>3 DEF OnStatus
<1>5. Remembered'
  BY <1>1, <1>4 DEF OnStatus, Sound, Remembered, anchoring
<1> QED BY <1>5 DEF OnStatus, Sound

----------------------------------------------------------------------------
(* The theorem *)

LEMMA InitSound == ASSUME Init PROVE Sound
<1>1. DOMAIN tree.parent = {} /\ \A arena \in Arenas : tree.size[arena] = 0
  BY DEF Init
<1>2. Tree(tree)
  <2>1. DOMAIN tree.parent = {r \in Arenas \X Nat : r[2] < tree.size[r[1]]}
    BY <1>1
  <2> QED BY <1>1, <2>1 DEF Init, Tree
<1>3. Remembered
  BY DEF Init, Remembered
<1> QED BY <1>2, <1>3 DEF Init, Sound

\* The events that add one item, or a frame, or a group of shapes.
LEMMA BlockSound ==
  ASSUME Sound, OnBodyBlock \/ OnTextFrame \/ OnShape \/ OnDrawingShape
  PROVE  Sound'
<1> USE DEF Kept, anchoring
<1>1. CASE OnBodyBlock
  BY <1>1, LeafSound, BodyHolds DEF OnBodyBlock, Arenas
<1>2. CASE OnTextFrame
  BY <1>2, FramedSound, BodyHolds DEF OnTextFrame
<1>3. CASE OnShape
  BY <1>3, OpenedSound, FramedSound, GroupsHold DEF OnShape
<1>4. CASE OnDrawingShape
  BY <1>4, OpenedSound, LeafSound, GroupsHold DEF OnDrawingShape, Arenas
<1> QED BY <1>1, <1>2, <1>3, <1>4

LEMMA PartSound ==
  ASSUME Sound, OnEmbeddedImage \/ OnSlide \/ OnSlideShape \/ OnSheetChartOrPivot
  PROVE  Sound'
<1> USE DEF Kept, anchoring
<1>1. CASE OnEmbeddedImage
  BY <1>1, LeafSound, GroupsHold DEF OnEmbeddedImage, Arenas
<1>2. CASE OnSlide
  BY <1>2, OpenedSound, BodyHolds DEF OnSlide
<1>3. CASE OnSlideShape
  <2>1. PICK index \in Parts :
          LET slide == Under(<<"slide", index>>)
          IN  \/ \E arena \in {"tables", "pictures", "texts"} : Leaf(arena, slide)
              \/ tree' = Add(Add(tree, "texts", slide), "texts", slide)
    BY <1>3 DEF OnSlideShape
  <2> DEFINE slide == Under(<<"slide", index>>)
  <2>2. Holder(tree, slide)
    BY GroupsHold
  <2> HIDE DEF slide
  <2>3. CASE \E arena \in {"tables", "pictures", "texts"} : Leaf(arena, slide)
    BY <1>3, <2>2, <2>3, LeafSound DEF OnSlideShape, Arenas
  <2>4. CASE tree' = Add(Add(tree, "texts", slide), "texts", slide)
    <3>1. Tree(tree') /\ DOMAIN tree.parent \subseteq DOMAIN tree'.parent
      BY <2>2, <2>4, GrownTwice DEF Sound, Arenas
    <3> QED BY <1>3, <3>1, StillSound DEF OnSlideShape
  <2> QED BY <2>1, <2>3, <2>4 DEF slide
<1>4. CASE OnSheetChartOrPivot
  BY <1>4, LeafSound, GroupsHold DEF OnSheetChartOrPivot, Arenas
<1> QED BY <1>1, <1>2, <1>3, <1>4

LEMMA NextSound == ASSUME MapperAssumption, Sound, [Next]_vars PROVE Sound'
<1>1. CASE OnParagraph \/ WalkOn
  BY <1>1, ParagraphSound, WalkOnSound
<1>2. CASE OnComment \/ OnFormField
  BY <1>2, CommentSound, FormFieldSound
<1>3. CASE OnTrackedChange \/ OnBookmark
  <2>1. UNCHANGED <<offset, tree, groups, fine, spans, names, results>>
    BY <1>3 DEF OnTrackedChange, OnBookmark, Kept
  <2>2. Remembered'
    BY <2>1 DEF Sound, Remembered, results
  <2> QED BY <2>1, <2>2 DEF Sound
<1>4. CASE OnBodyBlock \/ OnTextFrame \/ OnShape \/ OnDrawingShape
  BY <1>4, BlockSound
<1>5. CASE OnEmbeddedImage \/ OnSlide \/ OnSlideShape \/ OnSheetChartOrPivot
  BY <1>5, PartSound
<1>6. CASE OnEmbeddedObject \/ OnSheet \/ OnSheetCellComment
  BY <1>6, EmbeddedObjectSound, SheetSound, SheetCommentSound
<1>7. CASE OnSheetRow
  <2>1. UNCHANGED <<offset, tree, groups, fine, spans, names, results>>
    BY <1>7 DEF OnSheetRow, Kept, anchoring
  <2>2. Remembered'
    BY <2>1 DEF Sound, Remembered, results
  <2> QED BY <2>1, <2>2 DEF Sound
<1>8. CASE OnStatus
  BY <1>8, StatusSound
<1>9. CASE UNCHANGED vars
  <2>1. Remembered'
    BY <1>9 DEF vars, anchoring, results, sheets, Sound, Remembered
  <2> QED BY <1>9, <2>1 DEF vars, Sound
<1> QED
  BY <1>1, <1>2, <1>3, <1>4, <1>5, <1>6, <1>7, <1>8, <1>9 DEF Next, Done

\* docling_map.h's "Structurally valid at any point in the stream", for documents of any
\* size and events in any order: every item is listed by its parent and by nobody else,
\* and no reference dangles.
THEOREM AlwaysStructurallyValid == Spec => []StructurallyValid
<1>1. Init => Sound
  BY InitSound
<1>2. Sound /\ [Next]_vars => Sound'
  BY NextSound, MapperAssumption
<1>3. Sound => StructurallyValid
  <2> SUFFICES ASSUME Sound PROVE StructurallyValid
    OBVIOUS
  <2>1. Refs = DOMAIN tree.children
    BY DEF Refs, Sound, Tree
  <2>2. fine \cup {a.ref : a \in placed} \cup {j.ref : j \in joined} \subseteq Refs
    BY DEF Refs, Sound, Remembered
  <2> QED BY <2>1, <2>2 DEF StructurallyValid, Sound, Tree
<1> QED BY <1>1, <1>2, <1>3, PTL DEF Spec

----------------------------------------------------------------------------
(* Where the anchors land *)

Joined == UNION {IF t.to = "comment" THEN Answers(t) ELSE Pointed(t) : t \in threads}

\* The paragraphs follow each other in the text, so that those that start at or before
\* a position are the first so many; what waits has positions; and what was resolved is
\* what waited.
InText ==
  /\ offset \in Nat
  /\ \A i \in 1..Len(spans) :
       0 <= spans[i].start /\ spans[i].start <= spans[i].end /\ spans[i].end < offset
  /\ \A i, j \in 1..Len(spans) : i < j => spans[i].end < spans[j].start
  /\ \A x \in Int : \E k \in 0..Len(spans) :
       \A i \in 1..Len(spans) : spans[i].start <= x <=> i <= k

Waiting == \A p \in pending : p.start \in Int /\ p.end \in Int

Settled == finished => placed = Anchors /\ joined = Joined

LEMMA SpansTyped ==
  ASSUME Sound, NEW i \in 1..Len(spans)
  PROVE  spans[i].start \in Int /\ spans[i].end \in Int
<1>1. spans[i] \in SpanRecords
  BY DEF Sound
<1> QED BY <1>1 DEF SpanRecords

LEMMA ParagraphInText ==
  ASSUME MapperAssumption, Sound, InText, OnParagraph PROVE InText'
<1> DEFINE n == Len(spans)
           span(length) == [start |-> offset, end |-> offset + length,
                            ref |-> NewRef(tree, "texts")]
<1>1. PICK length \in 0..(MaxText - 1 - offset) :
        /\ offset' = offset + length + 1
        /\ spans' = Append(spans, span(length))
  BY DEF OnParagraph
<1>2. length \in Nat /\ n \in Nat /\ offset \in Nat
  BY DEF MapperAssumption, InText, Sound
<1>3. NewRef(tree, "texts") \in Arenas \X Nat
  BY DEF Sound, Tree, NewRef, Arenas
<1>4. span(length) \in SpanRecords
  BY <1>2, <1>3 DEF SpanRecords
<1>5. /\ Len(spans') = n + 1 /\ spans'[n + 1] = span(length)
      /\ \A i \in 1..n : spans'[i] = spans[i]
  BY <1>1, <1>4 DEF Sound
<1>6. span(length).start = offset /\ span(length).end = offset + length
  OBVIOUS
<1>7. \A i \in 1..n : /\ spans[i].start \in Int /\ spans[i].end \in Int
                      /\ 0 <= spans[i].start /\ spans[i].start <= spans[i].end
                      /\ spans[i].end < offset
  BY SpansTyped DEF InText
<1>a. /\ \A i, j \in 1..n : i < j => spans[i].end < spans[j].start
      /\ \A x \in Int : \E k \in 0..n : \A i \in 1..n : spans[i].start <= x <=> i <= k
  BY DEF InText
<1>b. offset' = offset + length + 1
  BY <1>1
<1> HIDE DEF span, n
<1>8. ASSUME NEW i \in 1..Len(spans')
      PROVE  /\ 0 <= spans'[i].start /\ spans'[i].start <= spans'[i].end
             /\ spans'[i].end < offset'
  <2>1. CASE i = n + 1
    <3>1. spans'[i].start = offset /\ spans'[i].end = offset + length
      BY <1>5, <1>6, <2>1
    <3> QED BY <1>2, <1>b, <3>1
  <2>2. CASE i \in 1..n
    <3>1. spans'[i] = spans[i]
      BY <1>5, <2>2
    <3> QED BY <1>2, <1>7, <1>b, <2>2, <3>1
  <2> QED BY <1>2, <1>5, <2>1, <2>2
<1>9. ASSUME NEW i \in 1..Len(spans'), NEW j \in 1..Len(spans'), i < j
      PROVE  spans'[i].end < spans'[j].start
  <2>1. i \in 1..n
    BY <1>2, <1>5, <1>9
  <2>2. CASE j = n + 1
    BY <1>5, <1>6, <1>7, <2>1, <2>2
  <2>3. CASE j \in 1..n
    BY <1>5, <1>9, <1>a, <2>1, <2>3
  <2> QED BY <1>2, <1>5, <2>2, <2>3
<1>10. ASSUME NEW x \in Int
       PROVE  \E k \in 0..Len(spans') :
                \A i \in 1..Len(spans') : spans'[i].start <= x <=> i <= k
  <2>1. CASE offset <= x
    <3>1. \A i \in 1..(n + 1) : spans'[i].start <= x
      <4> TAKE i \in 1..(n + 1)
      <4>1. CASE i = n + 1
        BY <1>5, <1>6, <2>1, <4>1
      <4>2. CASE i \in 1..n
        <5>1. spans'[i] = spans[i]
          BY <1>5, <4>2
        <5>2. /\ spans[i].start \in Int /\ spans[i].end \in Int
              /\ spans[i].start <= spans[i].end /\ spans[i].end < offset
          BY <1>7, <4>2
        <5> QED BY <1>2, <2>1, <5>1, <5>2
      <4> QED BY <1>2, <4>1, <4>2
    <3>2. n + 1 \in 0..(n + 1) /\ \A i \in 1..(n + 1) : i <= n + 1
      BY <1>2
    <3> QED BY <1>5, <3>1, <3>2
  <2>2. CASE x < offset
    <3>1. PICK k \in 0..n : \A i \in 1..n : spans[i].start <= x <=> i <= k
      BY <1>a
    <3>2. ~(spans'[n + 1].start <= x)
      BY <1>2, <1>5, <1>6, <2>2
    <3>3. ASSUME NEW i \in 1..(n + 1) PROVE spans'[i].start <= x <=> i <= k
      <4>1. CASE i = n + 1
        BY <1>2, <3>2, <4>1
      <4>2. CASE i \in 1..n
        BY <1>5, <3>1, <4>2
      <4> QED BY <1>2, <4>1, <4>2
    <3>4. k \in 0..(n + 1)
      BY <1>2
    <3> QED BY <1>5, <3>3, <3>4
  <2> QED BY <1>2, <2>1, <2>2
<1>11. offset' \in Nat
  BY <1>2, <1>b
<1> QED BY <1>8, <1>9, <1>10, <1>11 DEF InText

LEMMA InTextStep ==
  ASSUME MapperAssumption, Sound, InText, [Next]_vars PROVE InText'
<1>1. CASE OnParagraph
  BY <1>1, ParagraphInText
<1>2. CASE WalkOn
  <2>1. PICK length \in 0..(MaxText - 1 - offset) : offset' = offset + length + 1
    BY <1>2 DEF WalkOn
  <2>2. MaxText \in Nat /\ offset \in Nat
    BY DEF MapperAssumption, InText
  <2>3. offset' \in Nat /\ offset < offset'
    BY <2>1, <2>2
  <2>4. spans' = spans
    BY <1>2 DEF WalkOn
  <2>5. ASSUME NEW i \in 1..Len(spans) PROVE spans[i].end < offset'
    <3>1. spans[i].end \in Int /\ spans[i].end < offset
      BY SpansTyped DEF InText
    <3> QED BY <2>2, <2>3, <3>1
  <2> QED BY <2>3, <2>4, <2>5 DEF InText
<1>3. CASE UNCHANGED <<offset, spans>>
  BY <1>3 DEF InText
<1>4. ~OnParagraph /\ ~WalkOn => UNCHANGED <<offset, spans>>
  BY DEF Next, vars, Kept, OnComment, OnTrackedChange, OnBookmark, OnFormField, OnBodyBlock,
         OnTextFrame, OnShape, OnDrawingShape, OnEmbeddedImage, OnSlide, OnSlideShape,
         OnEmbeddedObject, OnSheet, OnSheetRow, OnSheetCellComment, OnSheetChartOrPivot,
         OnStatus, Done
<1> QED BY <1>1, <1>2, <1>3, <1>4

LEMMA WaitingStep == ASSUME MapperAssumption, Waiting, [Next]_vars PROVE Waiting'
<1>1. Positions \subseteq Int
  BY DEF Positions, MapperAssumption
<1>2. ASSUME NEW kind, NEW item, NEW start \in Positions, NEW end \in Positions,
             Wait(kind, item, start, end)
      PROVE  Waiting'
  BY <1>1, <1>2 DEF Wait, Waiting
<1>3. CASE OnComment
  BY <1>2, <1>3 DEF OnComment, Waiting
<1>4. CASE OnTrackedChange \/ OnBookmark
  BY <1>2, <1>4 DEF OnTrackedChange, OnBookmark
<1>5. CASE OnFormField
  BY <1>2, <1>5 DEF OnFormField, Waiting
<1>6. ~(OnComment \/ OnTrackedChange \/ OnBookmark \/ OnFormField) => UNCHANGED pending
  BY DEF Next, vars, anchoring, OnParagraph, WalkOn, OnBodyBlock,
         OnTextFrame, OnShape, OnDrawingShape, OnEmbeddedImage, OnSlide, OnSlideShape,
         OnEmbeddedObject, OnSheet, OnSheetRow, OnSheetCellComment, OnSheetChartOrPivot,
         OnStatus, Done
<1>7. CASE UNCHANGED pending
  BY <1>7 DEF Waiting
<1> QED BY <1>3, <1>4, <1>5, <1>6, <1>7

LEMMA SettledStep == ASSUME Settled, [Next]_vars PROVE Settled'
<1>1. CASE OnStatus
  <2>1. UNCHANGED <<spans, pending, threads, names>>
    BY <1>1 DEF OnStatus, anchoring
  <2>2. placed' = Anchors /\ joined' = Joined
    BY <1>1 DEF OnStatus, Joined
  <2>3. Anchors' = Anchors
    BY <2>1 DEF Anchors, Resolved, Resolves, Before, Outside
  <2>4. Joined' = Joined
    BY <2>1, <2>3 DEF Joined, Answers, Pointed
  <2> QED BY <2>2, <2>3, <2>4 DEF Settled
<1>2. CASE UNCHANGED vars
  <2>1. UNCHANGED <<spans, pending, threads, names, placed, joined, finished>>
    BY <1>2 DEF vars, anchoring, results
  <2>2. Anchors' = Anchors
    BY <2>1 DEF Anchors, Resolved, Resolves, Before, Outside
  <2>3. Joined' = Joined
    BY <2>1, <2>2 DEF Joined, Answers, Pointed
  <2> QED BY <2>1, <2>2, <2>3 DEF Settled
<1>3. ~OnStatus => finished' = FALSE \/ UNCHANGED vars
  BY DEF Next, vars, results, Kept, Event, Anchored, OnParagraph, WalkOn, OnComment,
         OnTrackedChange, OnBookmark, OnFormField, OnBodyBlock,
         OnTextFrame, OnShape, OnDrawingShape, OnEmbeddedImage, OnSlide, OnSlideShape,
         OnEmbeddedObject, OnSheet, OnSheetRow, OnSheetCellComment, OnSheetChartOrPivot,
         Done
<1> QED BY <1>1, <1>2, <1>3 DEF Settled

LEMMA InvariantsAlways == Spec => [](Sound /\ InText /\ Waiting /\ Settled)
<1> DEFINE Inv == Sound /\ InText /\ Waiting /\ Settled
<1>1. Init => Inv
  <2> SUFFICES ASSUME Init PROVE Inv
    OBVIOUS
  <2>1. Sound
    BY InitSound
  <2>2. InText
    BY DEF Init, InText
  <2>3. Waiting /\ Settled
    BY DEF Init, Waiting, Settled
  <2> QED BY <2>1, <2>2, <2>3
<1>2. Inv /\ [Next]_vars => Inv'
  BY NextSound, InTextStep, WaitingStep, SettledStep, MapperAssumption
<1> QED BY <1>1, <1>2, PTL DEF Spec

\* The paragraphs that start at or before a position are the first Before of them.
LEMMA FirstBefore ==
  ASSUME Sound, InText, NEW x \in Int
  PROVE  /\ Before(x) \in 0..Len(spans)
         /\ \A i \in 1..Len(spans) : spans[i].start <= x <=> i <= Before(x)
<1>1. PICK k \in 0..Len(spans) : \A i \in 1..Len(spans) : spans[i].start <= x <=> i <= k
  BY DEF InText
<1>2. Len(spans) \in Nat /\ k \in Nat
  BY DEF Sound
<1>3. {i \in 1..Len(spans) : spans[i].start <= x} = 1..k
  BY <1>1, <1>2
<1>4. Cardinality(1..k) = k
  BY <1>2, PositionsCounted
<1>5. Before(x) = k
  BY <1>3, <1>4 DEF Before
<1> QED BY <1>1, <1>5

Homes(p) == {s \in Range(spans) : p.start = s.start \/ p.start \in In(s)}

\* A mark that resolves starts in the paragraph it is resolved to, and in no other.
LEMMA ResolvedHome ==
  ASSUME Sound, InText, NEW p \in pending, Waiting, Resolves(p)
  PROVE  Before(p.start) \in 1..Len(spans) /\ Homes(p) = {spans[Before(p.start)]}
<1> DEFINE k == Before(p.start)
<1>1. p.start \in Int /\ p.start >= 0 /\ k > 0
  BY DEF Waiting, Resolves
<1>2. k \in 0..Len(spans) /\ \A i \in 1..Len(spans) : spans[i].start <= p.start <=> i <= k
  BY <1>1, FirstBefore
<1>3. ~Outside(spans[k], p.start) /\ Len(spans) \in Nat
  BY DEF Resolves, Sound
<1> HIDE DEF k
<1>4. k \in 1..Len(spans)
  BY <1>1, <1>2, <1>3
<1>5. offset \in Nat
  BY DEF InText
<1>6. spans[k] \in Homes(p)
  <2>1. spans[k] \in Range(spans)
    BY <1>4 DEF Range, Sound
  <2>2. spans[k].start \in Int /\ spans[k].end \in Int /\ spans[k].end < offset
    BY <1>4, SpansTyped DEF InText
  <2>3. spans[k].start <= p.start
    BY <1>2, <1>3, <1>4
  <2>4. p.start = spans[k].start \/ p.start < spans[k].end
    BY <1>1, <1>3, <2>2 DEF Outside
  <2>5. p.start = spans[k].start \/ p.start \in In(spans[k])
    BY <1>1, <1>5, <2>2, <2>3, <2>4 DEF In
  <2> QED BY <2>1, <2>5 DEF Homes
<1>7. ASSUME NEW s \in Homes(p) PROVE s = spans[k]
  <2>1. PICK i \in 1..Len(spans) : s = spans[i]
    BY DEF Homes, Range, Sound
  <2>2. spans[i].start \in Int /\ spans[i].end \in Int /\ spans[i].start <= spans[i].end
    BY SpansTyped DEF InText
  <2>3. spans[i].start <= p.start /\ p.start <= spans[i].end
    BY <1>1, <2>1, <2>2 DEF Homes, In
  <2>4. i <= k
    BY <1>2, <2>3
  <2>5. ASSUME i < k PROVE FALSE
    <3>1. spans[i].end < spans[k].start
      BY <1>4, <2>5 DEF InText
    <3>2. spans[k].start \in Int /\ spans[k].start <= p.start
      BY <1>2, <1>3, <1>4, SpansTyped
    <3> QED BY <1>1, <2>2, <2>3, <3>1, <3>2
  <2> QED BY <1>4, <2>1, <2>4, <2>5
<1> QED BY <1>4, <1>6, <1>7 DEF k

\* A mark that does not resolve starts in no paragraph.
LEMMA UnresolvedHomeless ==
  ASSUME Sound, InText, NEW p \in pending, Waiting, ~Resolves(p)
  PROVE  Homes(p) = {}
<1> DEFINE k == Before(p.start)
<1> SUFFICES ASSUME NEW s \in Homes(p) PROVE FALSE
  OBVIOUS
<1>1. p.start \in Int
  BY DEF Waiting
<1>2. k \in 0..Len(spans) /\ \A i \in 1..Len(spans) : spans[i].start <= p.start <=> i <= k
  BY <1>1, FirstBefore
<1>3. ~(p.start >= 0 /\ k > 0 /\ ~Outside(spans[k], p.start)) /\ Len(spans) \in Nat
  BY DEF Resolves, Sound
<1> HIDE DEF k
<1>4. PICK i \in 1..Len(spans) : s = spans[i]
  BY DEF Homes, Range, Sound
<1>5. /\ spans[i].start \in Int /\ spans[i].end \in Int
      /\ 0 <= spans[i].start /\ spans[i].start <= spans[i].end
  BY SpansTyped DEF InText
<1>6. p.start = spans[i].start \/ (spans[i].start <= p.start /\ p.start < spans[i].end)
  BY <1>4 DEF Homes, In
<1>7. i <= k /\ k > 0 /\ p.start >= 0
  BY <1>1, <1>2, <1>3, <1>5, <1>6
<1>8. Outside(spans[k], p.start) /\ k \in 1..Len(spans)
  BY <1>2, <1>3, <1>7
<1>9. i # k
  BY <1>1, <1>5, <1>6, <1>8 DEF Outside
<1>10. spans[i].end < spans[k].start
  BY <1>7, <1>8, <1>9 DEF InText
<1>11. spans[k].start \in Int /\ spans[k].start <= p.start
  BY <1>2, <1>7, <1>8, SpansTyped
<1> QED BY <1>1, <1>5, <1>6, <1>10, <1>11

\* The characters of the paragraph that a resolved mark names are its own.
LEMMA ResolvedText ==
  ASSUME Sound, InText, NEW p \in pending, Waiting, Resolves(p)
  PROVE  LET s == spans[Before(p.start)]
             a == Resolved(p)
         IN  {i \in 0..(offset - 1) : s.start + a.from <= i /\ i < s.start + a.to}
               = Covered(p) \cap In(s)
<1> DEFINE k == Before(p.start)
           s == spans[k]
           a == Resolved(p)
           length == s.end - s.start
<1>1. k \in 1..Len(spans) /\ Homes(p) = {s}
  BY ResolvedHome
<1>2. p.start = s.start \/ (s.start <= p.start /\ p.start < s.end)
  BY <1>1 DEF Homes, In
<1>3. /\ a.from = Least(p.start - s.start, length)
      /\ a.to = Least((IF p.end > p.start THEN p.end ELSE p.start) - s.start, length)
  BY DEF Resolved
<1> HIDE DEF k, a
<1>4. /\ p.start \in Int /\ p.end \in Int /\ s.start \in Int /\ s.end \in Int
      /\ s.start <= s.end /\ offset \in Nat
  BY <1>1, SpansTyped DEF Waiting, InText
<1> HIDE DEF s
<1>5. a.from = p.start - s.start
  BY <1>2, <1>3, <1>4 DEF Least
<1>6. ASSUME NEW i \in 0..(offset - 1)
      PROVE  (s.start + a.from <= i /\ i < s.start + a.to)
               <=> (p.start <= i /\ i < p.end /\ s.start <= i /\ i < s.end)
  <2>1. s.start + a.from = p.start
    BY <1>4, <1>5
  <2>2. s.start + a.to = Least(IF p.end > p.start THEN p.end ELSE p.start, s.end)
    BY <1>3, <1>4 DEF Least
  <2> QED BY <1>2, <1>4, <2>1, <2>2 DEF Least
<1> QED BY <1>6 DEF Covered, In, k, s, a

\* A mark that starts in an emitted paragraph is placed on it, once, on exactly its own
\* characters there, and any other is not placed (AnchorsPlaced), in texts of any length:
\* what resolve_doc_span returns.
THEOREM AnchorsLand == Spec => []AnchorsPlaced
<1>1. Sound /\ InText /\ Waiting /\ Settled => AnchorsPlaced
  <2> SUFFICES ASSUME Sound, InText, Waiting, Settled, finished, NEW p \in pending
               PROVE  /\ Cardinality({a \in placed : a.mark = p}) = Cardinality(Homes(p))
                      /\ \A a \in placed, s \in Homes(p) : a.mark = p =>
                           /\ a.ref = s.ref
                           /\ {i \in 0..(offset - 1) : s.start + a.from <= i /\ i < s.start + a.to}
                                = Covered(p) \cap In(s)
    BY DEF AnchorsPlaced, Homes
  <2>1. placed = Anchors
    BY DEF Settled
  <2>2. \A q : Resolved(q).mark = q
    BY DEF Resolved
  <2>3. CASE Resolves(p)
    <3>1. {a \in placed : a.mark = p} = {Resolved(p)}
      BY <2>1, <2>2, <2>3 DEF Anchors
    <3>2. Homes(p) = {spans[Before(p.start)]}
      BY <2>3, ResolvedHome
    <3>3. Cardinality({a \in placed : a.mark = p}) = 1 /\ Cardinality(Homes(p)) = 1
      BY <3>1, <3>2, FS_Singleton
    <3>4. Resolved(p).ref = spans[Before(p.start)].ref
      BY DEF Resolved
    <3>5. ASSUME NEW a \in placed, NEW s \in Homes(p), a.mark = p
          PROVE  a = Resolved(p) /\ s = spans[Before(p.start)]
      BY <3>1, <3>2, <3>5
    <3> QED BY <2>3, <3>3, <3>4, <3>5, ResolvedText
  <2>4. CASE ~Resolves(p)
    <3>1. {a \in placed : a.mark = p} = {}
      BY <2>1, <2>2, <2>4 DEF Anchors
    <3>2. Homes(p) = {}
      BY <2>4, UnresolvedHomeless
    <3> QED BY <3>1, <3>2
  <2> QED BY <2>3, <2>4
<1> QED BY <1>1, InvariantsAlways, PTL

\* A reply points at the comment it answers and a cross-reference at its bookmark's
\* paragraph whenever the document has them (ReferencesFound), however many there are
\* and in whatever order they came.
THEOREM ThreadsJoin == Spec => []ReferencesFound
<1>1. Settled => ReferencesFound
  <2> SUFFICES ASSUME Settled, finished, NEW t \in threads
               PROVE  {j.ref : j \in {l \in joined : l.thread = t}} =
                        (IF t.to = "comment" THEN {names[n] : n \in {t.name} \cap DOMAIN names}
                         ELSE {a.ref : a \in {b \in placed : b.mark.kind = "bookmark"
                                                             /\ b.mark.item = t.name}})
    BY DEF ReferencesFound
  <2>1. placed = Anchors /\ joined = Joined
    BY DEF Settled
  <2>2. \A u : (\A j \in Answers(u) : j.thread = u) /\ (\A j \in Pointed(u) : j.thread = u)
    BY DEF Answers, Pointed
  <2>3. {l \in joined : l.thread = t} = IF t.to = "comment" THEN Answers(t) ELSE Pointed(t)
    BY <2>1, <2>2 DEF Joined
  <2>4. CASE t.to = "comment"
    <3>1. \A n \in {t.name} \cap DOMAIN names :
             \E j \in Answers(t) : j.ref = names[n]
      <4> TAKE n \in {t.name} \cap DOMAIN names
      <4>1. [thread |-> t, ref |-> names[n]] \in Answers(t)
        BY DEF Answers
      <4>2. [thread |-> t, ref |-> names[n]].ref = names[n]
        OBVIOUS
      <4> QED BY <4>1, <4>2
    <3>2. \A j \in Answers(t) : \E n \in {t.name} \cap DOMAIN names : j.ref = names[n]
      BY DEF Answers
    <3>3. {j.ref : j \in Answers(t)} = {names[n] : n \in {t.name} \cap DOMAIN names}
      <4>1. \A x \in {j.ref : j \in Answers(t)} :
              x \in {names[n] : n \in {t.name} \cap DOMAIN names}
        BY <3>2
      <4>2. \A x \in {names[n] : n \in {t.name} \cap DOMAIN names} :
              x \in {j.ref : j \in Answers(t)}
        BY <3>1
      <4> QED BY <4>1, <4>2
    <3> QED BY <2>3, <2>4, <3>3
  <2>5. CASE t.to # "comment"
    <3> DEFINE Marked == {b \in Anchors : b.mark.kind = "bookmark" /\ b.mark.item = t.name}
    <3>1. \A a \in Marked : \E j \in Pointed(t) : j.ref = a.ref
      <4> TAKE a \in Marked
      <4>1. [thread |-> t, ref |-> a.ref] \in Pointed(t)
        BY DEF Pointed
      <4>2. [thread |-> t, ref |-> a.ref].ref = a.ref
        OBVIOUS
      <4> QED BY <4>1, <4>2
    <3>2. \A j \in Pointed(t) : \E a \in Marked : j.ref = a.ref
      BY DEF Pointed
    <3>3. {j.ref : j \in Pointed(t)} = {a.ref : a \in Marked}
      <4> HIDE DEF Marked
      <4>1. \A x \in {j.ref : j \in Pointed(t)} : x \in {a.ref : a \in Marked}
        BY <3>2
      <4>2. \A x \in {a.ref : a \in Marked} : x \in {j.ref : j \in Pointed(t)}
        BY <3>1
      <4> QED BY <4>1, <4>2
    <3> QED BY <2>1, <2>3, <2>5, <3>3
  <2> QED BY <2>4, <2>5
<1> QED BY <1>1, InvariantsAlways, PTL

----------------------------------------------------------------------------
(* The rows of a sheet *)

\* A tree whose next references are new, and one that has grown from it.
Fresh(t) ==
  /\ t.size \in [Arenas -> Nat]
  /\ \A r \in DOMAIN t.parent : r \in Arenas \X Nat /\ r[2] < t.size[r[1]]

Grew(t, u) ==
  /\ Fresh(u)
  /\ \A r \in DOMAIN t.parent : r \in DOMAIN u.parent /\ u.parent[r] = t.parent[r]

GroupsKept == \A k \in DOMAIN groups : k \in DOMAIN groups' /\ groups'[k] = groups[k]

\* Every sheet has its table under its group, and rows are where their sheet's table is.
SheetTables ==
  \A i \in DOMAIN sheetTable :
    /\ <<"sheet", i>> \in DOMAIN groups /\ sheetTable[i] \in DOMAIN tree.parent
    /\ tree.parent[sheetTable[i]] = groups[<<"sheet", i>>]

RowsInTables ==
  \A c \in cells : c.sheet \in DOMAIN sheetTable /\ c.table = sheetTable[c.sheet]

RowsInv == Fresh(tree) /\ SheetTables /\ RowsInTables

\* An item more under whatever parent: no item there before gets another one.
LEMMA AddGrows ==
  ASSUME NEW t, Fresh(t), NEW arena \in Arenas, NEW p
  PROVE  LET u == Add(t, arena, p)
         IN  /\ Grew(t, u) /\ NewRef(t, arena) \in DOMAIN u.parent
             /\ u.parent[NewRef(t, arena)] = p
             /\ \A other \in Arenas \ {arena} : NewRef(u, other) = NewRef(t, other)
<1> DEFINE u == Add(t, arena, p)
           new == NewRef(t, arena)
<1>1. u.size = [t.size EXCEPT ![arena] = @ + 1] /\ u.parent = With(t.parent, new, p)
  BY DEF Add
<1>2. new = <<arena, t.size[arena]>> /\ new \in Arenas \X Nat
  BY DEF NewRef, Fresh
<1>3. new \notin DOMAIN t.parent
  BY <1>2 DEF Fresh
<1> HIDE DEF u
<1>4. DOMAIN u.parent = DOMAIN t.parent \cup {new}
  BY <1>1 DEF With
<1>5. u.size \in [Arenas -> Nat] /\ \A a \in Arenas : t.size[a] <= u.size[a]
  BY <1>1 DEF Fresh
<1>6. new[2] < u.size[new[1]]
  BY <1>1, <1>2 DEF Fresh
<1>7. ASSUME NEW r \in DOMAIN u.parent PROVE r \in Arenas \X Nat /\ r[2] < u.size[r[1]]
  <2>1. CASE r = new
    BY <1>2, <1>6, <2>1
  <2>2. CASE r # new
    <3>1. r \in Arenas \X Nat /\ r[2] < t.size[r[1]] /\ r[1] \in Arenas /\ r[2] \in Nat
      BY <1>4, <2>2 DEF Fresh
    <3>2. t.size[r[1]] <= u.size[r[1]] /\ t.size[r[1]] \in Nat /\ u.size[r[1]] \in Nat
      BY <1>5, <3>1 DEF Fresh
    <3> QED BY <3>1, <3>2
  <2> QED BY <2>1, <2>2
<1>8. u.parent[new] = p
  BY <1>1 DEF With
<1>9. \A r \in DOMAIN t.parent : u.parent[r] = t.parent[r]
  BY <1>1, <1>3 DEF With
<1>10. \A other \in Arenas \ {arena} : NewRef(u, other) = NewRef(t, other)
  BY <1>1 DEF NewRef, Fresh
<1> QED BY <1>3, <1>4, <1>5, <1>7, <1>8, <1>9, <1>10 DEF Grew, Fresh, u

LEMMA GrewOn ==
  ASSUME NEW t, NEW u, NEW v, Grew(t, u), Grew(u, v)
  PROVE  Grew(t, v)
BY DEF Grew

LEMMA GrewNot == ASSUME NEW t, Fresh(t) PROVE Grew(t, t)
BY DEF Grew

LEMMA LeafGrows ==
  ASSUME Fresh(tree), NEW arena \in Arenas, NEW p, Leaf(arena, p)
  PROVE  Grew(tree, tree')
BY AddGrows DEF Leaf

LEMMA TwiceGrows ==
  ASSUME NEW t, Fresh(t), NEW first \in Arenas, NEW second \in Arenas, NEW p, NEW q
  PROVE  Grew(t, Add(Add(t, first, p), second, q))
<1> DEFINE u == Add(t, first, p)
<1>1. Grew(t, u)
  BY AddGrows
<1>2. Fresh(u)
  BY <1>1 DEF Grew
<1> HIDE DEF u
<1>3. Grew(u, Add(u, second, q))
  BY <1>2, AddGrows
<1> QED BY <1>1, <1>3, GrewOn DEF u

\* A step that moves no sheet.
LEMMA SheetsStay ==
  ASSUME RowsInv, Grew(tree, tree'), GroupsKept, UNCHANGED sheets
  PROVE  RowsInv'
<1>1. UNCHANGED <<sheetTable, cells>>
  BY DEF sheets
<1>2. SheetTables'
  BY <1>1 DEF RowsInv, SheetTables, Grew, GroupsKept
<1> QED BY <1>1, <1>2 DEF RowsInv, RowsInTables, Grew

LEMMA OpenedKeeps ==
  ASSUME NEW key, key \notin DOMAIN groups, NEW ref, groups' = Group(key, ref)
  PROVE  GroupsKept
BY DEF GroupsKept, Group, With

\* A section that is there, or comes with this event.
LEMMA SectionKeeps ==
  ASSUME Fresh(tree), NEW key, NEW parent,
         LET section == IF key \in DOMAIN groups THEN groups[key] ELSE NewRef(tree, "groups")
             with == IF key \in DOMAIN groups THEN tree ELSE Add(tree, "groups", parent)
         IN  groups' = Group(key, section) /\ tree' = Add(with, "texts", section)
  PROVE  Grew(tree, tree') /\ GroupsKept
<1>1. CASE key \in DOMAIN groups
  BY <1>1, AddGrows DEF GroupsKept, Group, With, Arenas
<1>2. CASE key \notin DOMAIN groups
  BY <1>2, TwiceGrows, OpenedKeeps DEF Arenas
<1> QED BY <1>1, <1>2

LEMMA FormFieldGrows == ASSUME Fresh(tree), OnFormField PROVE Grew(tree, tree')
<1> DEFINE region == <<"field_regions", 0>>
           arena == IF Has(tree, region) THEN tree
                    ELSE Add(Add(tree, "field_regions", Body), "form_items", Body)
           field == NewRef(arena, "field_items")
           item == Add(arena, "field_items", region)
           heading(labelled) == IF labelled THEN Add(item, "texts", field) ELSE item
<1>1. PICK labelled \in BOOLEAN : tree' = Add(heading(labelled), "texts", field)
  BY DEF OnFormField
<1>2. Grew(tree, arena) /\ Fresh(arena)
  BY TwiceGrows, GrewNot DEF Arenas, Grew
<1> HIDE DEF arena
<1>3. Grew(arena, item) /\ Fresh(item)
  BY <1>2, AddGrows DEF Arenas, Grew
<1> HIDE DEF item, field
<1>4. Grew(item, tree')
  BY <1>1, <1>3, AddGrows, TwiceGrows DEF Arenas
<1> QED BY <1>2, <1>3, <1>4, GrewOn

LEMMA OnSheetRows == ASSUME RowsInv, OnSheet PROVE RowsInv'
<1> DEFINE group == NewRef(tree, "groups")
           table == NewRef(tree, "tables")
           u == Add(tree, "groups", Body)
<1>1. PICK index \in Parts \ DOMAIN sheetTable :
        /\ groups' = Group(<<"sheet", index>>, group)
        /\ tree' = Add(u, "tables", group)
        /\ sheetTable' = With(sheetTable, index, table)
        /\ UNCHANGED cells
  BY DEF OnSheet, OwnTable
<1>2. Grew(tree, u) /\ Fresh(u) /\ NewRef(u, "tables") = table
  BY AddGrows DEF RowsInv, Arenas, Grew
<1> HIDE DEF u, table, group
<1>3. Grew(u, tree') /\ table \in DOMAIN tree'.parent /\ tree'.parent[table] = group
  BY <1>1, <1>2, AddGrows DEF Arenas
<1>4. Grew(tree, tree')
  BY <1>2, <1>3, GrewOn
<1>5. SheetTables'
  <2> SUFFICES ASSUME NEW i \in DOMAIN sheetTable'
               PROVE  /\ <<"sheet", i>> \in DOMAIN groups'
                      /\ sheetTable'[i] \in DOMAIN tree'.parent
                      /\ tree'.parent[sheetTable'[i]] = groups'[<<"sheet", i>>]
    BY DEF SheetTables
  <2>1. CASE i = index
    BY <1>1, <1>3, <2>1 DEF With, Group
  <2>2. CASE i # index
    <3>1. i \in DOMAIN sheetTable /\ sheetTable'[i] = sheetTable[i]
      BY <1>1, <2>2 DEF With
    <3>2. <<"sheet", i>> \in DOMAIN groups /\ <<"sheet", i>> # <<"sheet", index>>
      BY <2>2, <3>1 DEF RowsInv, SheetTables
    <3>3. <<"sheet", i>> \in DOMAIN groups' /\ groups'[<<"sheet", i>>] = groups[<<"sheet", i>>]
      BY <1>1, <3>2 DEF Group, With
    <3> QED BY <1>4, <3>1, <3>3 DEF RowsInv, SheetTables, Grew
  <2> QED BY <2>1, <2>2
<1>6. RowsInTables'
  BY <1>1 DEF RowsInv, RowsInTables, With
<1> QED BY <1>4, <1>5, <1>6 DEF RowsInv, Grew

LEMMA OnSheetRowRows == ASSUME RowsInv, OnSheetRow PROVE RowsInv'
<1>1. UNCHANGED <<tree, groups, sheetTable>>
  BY DEF OnSheetRow
<1>2. \A c \in cells' :
        c \in cells \/ (c.sheet \in DOMAIN sheetTable /\ c.table = sheetTable[c.sheet])
  BY DEF OnSheetRow
<1> QED BY <1>1, <1>2 DEF RowsInv, Fresh, SheetTables, RowsInTables

\* The events that open no group.
LEMMA LeavesKeepRows ==
  ASSUME RowsInv,
         \/ OnParagraph \/ OnFormField \/ OnBodyBlock \/ OnTextFrame \/ OnEmbeddedImage
         \/ OnSlideShape \/ OnEmbeddedObject \/ OnSheetChartOrPivot
  PROVE  RowsInv'
<1>1. UNCHANGED sheets /\ UNCHANGED groups
  BY DEF OnParagraph, OnFormField, OnBodyBlock, OnTextFrame, OnEmbeddedImage,
         OnSlideShape, OnEmbeddedObject, OnSheetChartOrPivot
<1>2. Fresh(tree) /\ {"texts", "tables", "pictures", "groups"} \subseteq Arenas
  BY DEF RowsInv, Arenas
<1>3. ASSUME OnParagraph \/ OnBodyBlock \/ OnEmbeddedImage \/ OnEmbeddedObject \/ OnSheetChartOrPivot
      PROVE  Grew(tree, tree')
  BY <1>2, <1>3, LeafGrows DEF OnParagraph, OnBodyBlock, OnEmbeddedImage, OnEmbeddedObject,
                               OnSheetChartOrPivot
<1>4. ASSUME OnTextFrame PROVE Grew(tree, tree')
  BY <1>2, <1>4, TwiceGrows DEF OnTextFrame, Framed
<1>5. ASSUME OnSlideShape PROVE Grew(tree, tree')
  BY <1>2, <1>5, LeafGrows, TwiceGrows DEF OnSlideShape
<1>6. ASSUME OnFormField PROVE Grew(tree, tree')
  BY <1>2, <1>6, FormFieldGrows
<1>7. GroupsKept
  BY <1>1 DEF GroupsKept
<1>8. Grew(tree, tree')
  BY <1>3, <1>4, <1>5, <1>6
<1> QED BY <1>1, <1>7, <1>8, SheetsStay

\* The events that open a group, none of them that of a sheet.
LEMMA GroupsKeepRows ==
  ASSUME RowsInv, OnComment \/ OnShape \/ OnDrawingShape \/ OnSlide \/ OnSheetCellComment
  PROVE  RowsInv'
<1>1. UNCHANGED sheets
  BY DEF OnComment, OnShape, OnDrawingShape, OnSlide, OnSheetCellComment
<1>2. Fresh(tree) /\ {"texts", "pictures", "groups"} \subseteq Arenas
  BY DEF RowsInv, Arenas
<1>3. ASSUME NEW key, NEW p, key \notin DOMAIN groups, OpenGroup(key, p)
      PROVE  Grew(tree, tree') /\ GroupsKept
  BY <1>2, <1>3, LeafGrows, OpenedKeeps DEF OpenGroup
<1>4. ASSUME UNCHANGED groups PROVE GroupsKept
  BY <1>4 DEF GroupsKept
<1>5. CASE OnComment
  <2>1. LET key == <<"comments">>
            section == IF key \in DOMAIN groups THEN groups[key] ELSE NewRef(tree, "groups")
            with == IF key \in DOMAIN groups THEN tree ELSE Add(tree, "groups", Furniture)
        IN  groups' = Group(key, section) /\ tree' = Add(with, "texts", section)
    BY <1>5 DEF OnComment
  <2> QED BY <1>1, <1>2, <2>1, SectionKeeps, SheetsStay
<1>6. CASE OnSheetCellComment
  <2>1. PICK index \in Parts :
          LET key == <<"sheet_comments", index>>
              section == IF key \in DOMAIN groups THEN groups[key] ELSE NewRef(tree, "groups")
              with == IF key \in DOMAIN groups THEN tree
                      ELSE Add(tree, "groups", Under(<<"sheet", index>>))
          IN  groups' = Group(key, section) /\ tree' = Add(with, "texts", section)
    BY <1>6 DEF OnSheetCellComment
  <2> QED BY <1>1, <1>2, <2>1, SectionKeeps, SheetsStay
<1>7. CASE OnShape
  <2>1. PICK path \in Paths :
          \/ /\ <<"writer", Append(path, 0)>> \notin DOMAIN groups
             /\ OpenGroup(<<"writer", Append(path, 0)>>, Under(<<"writer", path>>))
          \/ Framed(Under(<<"writer", path>>)) /\ UNCHANGED groups
    BY <1>7 DEF OnShape
  <2>2. ASSUME NEW p, Framed(p) PROVE Grew(tree, tree')
    BY <1>2, <2>2, TwiceGrows DEF Framed
  <2> QED BY <1>1, <1>3, <1>4, <2>1, <2>2, SheetsStay
<1>8. CASE OnDrawingShape
  <2>1. PICK page \in Parts, path \in Paths :
          LET container == Under(<<"draw", page, path>>)
          IN  \/ /\ <<"draw", page, Append(path, 0)>> \notin DOMAIN groups
                 /\ OpenGroup(<<"draw", page, Append(path, 0)>>, container)
              \/ (Leaf("texts", container) \/ Leaf("pictures", container)) /\ UNCHANGED groups
    BY <1>8 DEF OnDrawingShape
  <2>2. ASSUME NEW p, Leaf("texts", p) \/ Leaf("pictures", p) PROVE Grew(tree, tree')
    BY <1>2, <2>2, LeafGrows
  <2> QED BY <1>1, <1>3, <1>4, <2>1, <2>2, SheetsStay
<1>9. CASE OnSlide
  BY <1>1, <1>3, <1>9, SheetsStay DEF OnSlide
<1> QED BY <1>5, <1>6, <1>7, <1>8, <1>9

LEMMA RowsStep == ASSUME RowsInv, [Next]_vars PROVE RowsInv'
<1>1. CASE OnSheet \/ OnSheetRow
  BY <1>1, OnSheetRows, OnSheetRowRows
<1>2. CASE \/ OnParagraph \/ OnFormField \/ OnBodyBlock \/ OnTextFrame \/ OnEmbeddedImage
           \/ OnSlideShape \/ OnEmbeddedObject \/ OnSheetChartOrPivot
  BY <1>2, LeavesKeepRows
<1>3. CASE OnComment \/ OnShape \/ OnDrawingShape \/ OnSlide \/ OnSheetCellComment
  BY <1>3, GroupsKeepRows
<1>4. ASSUME OnTrackedChange \/ OnBookmark \/ WalkOn \/ OnStatus \/ UNCHANGED vars
      PROVE  UNCHANGED <<tree, groups, sheetTable, cells>>
  BY <1>4 DEF OnTrackedChange, OnBookmark, WalkOn, OnStatus, vars, sheets
<1>5. CASE UNCHANGED <<tree, groups, sheetTable, cells>>
  BY <1>5 DEF RowsInv, Fresh, SheetTables, RowsInTables
<1> QED BY <1>1, <1>2, <1>3, <1>4, <1>5 DEF Next, Done

\* The rows of a sheet are in the table under the sheet's own group
\* (SheetsKeepTheirRows), whatever else a workbook has and however it is interleaved.
THEOREM RowsStayWithTheirSheet == Spec => []SheetsKeepTheirRows
<1>1. Init => RowsInv
  <2> SUFFICES ASSUME Init PROVE RowsInv
    OBVIOUS
  <2>1. DOMAIN tree.parent = {} /\ DOMAIN sheetTable = {} /\ cells = {}
    BY DEF Init
  <2>2. tree.size \in [Arenas -> Nat]
    BY DEF Init
  <2> QED BY <2>1, <2>2 DEF RowsInv, Fresh, SheetTables, RowsInTables
<1>2. RowsInv /\ [Next]_vars => RowsInv'
  BY RowsStep
<1>3. RowsInv => SheetsKeepTheirRows
  BY DEF RowsInv, SheetTables, RowsInTables, SheetsKeepTheirRows
<1> QED BY <1>1, <1>2, <1>3, PTL DEF Spec

----------------------------------------------------------------------------
(* Types *)

Kinds == {"comment", "change", "bookmark", "field"}

\* What of the types the tree and the sheets do not already say.
Plain ==
  /\ type \in Types /\ offset \in 0..MaxText /\ finished \in BOOLEAN
  /\ DOMAIN sheetTable \subseteq Parts
  /\ \A p \in pending : p.kind \in Kinds

LEMMA PlainStep == ASSUME MapperAssumption, Plain, [Next]_vars PROVE Plain'
<1>1. CASE OnParagraph \/ WalkOn
  <2>1. PICK length \in 0..(MaxText - 1 - offset) : offset' = offset + length + 1
    BY <1>1 DEF OnParagraph, WalkOn
  <2>2. offset' \in 0..MaxText
    BY <2>1 DEF Plain, MapperAssumption
  <2>3. UNCHANGED <<type, finished, sheetTable, pending>>
    BY <1>1 DEF OnParagraph, WalkOn, sheets, anchoring, results
  <2> QED BY <2>2, <2>3 DEF Plain
<1>2. ASSUME NEW kind \in Kinds, NEW item, NEW start, NEW end, Wait(kind, item, start, end)
      PROVE  \A p \in pending' : p.kind \in Kinds
  BY <1>2 DEF Wait, Plain
<1>3. CASE OnComment \/ OnTrackedChange \/ OnBookmark \/ OnFormField
  <2>1. \A p \in pending' : p.kind \in Kinds
    <3>1. CASE OnComment
      BY <1>2, <3>1 DEF OnComment, Kinds, Plain
    <3>2. CASE OnTrackedChange \/ OnBookmark
      BY <1>2, <3>2 DEF OnTrackedChange, OnBookmark, Kinds
    <3>3. CASE OnFormField
      BY <1>2, <3>3 DEF OnFormField, Kinds, Plain
    <3> QED BY <1>3, <3>1, <3>2, <3>3
  <2>2. UNCHANGED <<type, offset, finished, sheetTable>>
    BY <1>3 DEF OnComment, OnTrackedChange, OnBookmark, OnFormField, Kept, sheets, results
  <2> QED BY <2>1, <2>2 DEF Plain
<1>4. CASE OnSheet
  <2>1. DOMAIN sheetTable' \subseteq Parts
    BY <1>4 DEF OnSheet, With, Plain
  <2>2. UNCHANGED <<type, offset, finished, pending>>
    BY <1>4 DEF OnSheet, Kept, anchoring, results
  <2> QED BY <2>1, <2>2 DEF Plain
<1>5. CASE OnStatus
  BY <1>5 DEF OnStatus, sheets, anchoring, Plain
<1>6. ASSUME ~(OnParagraph \/ WalkOn \/ OnComment \/ OnTrackedChange \/ OnBookmark
               \/ OnFormField \/ OnSheet \/ OnStatus)
      PROVE  UNCHANGED <<type, offset, finished, sheetTable, pending>>
  BY <1>6 DEF Next, vars, Kept, sheets, anchoring, results, OnBodyBlock, OnTextFrame, OnShape,
              OnDrawingShape, OnEmbeddedImage, OnSlide, OnSlideShape, OnEmbeddedObject,
              OnSheetRow, OnSheetCellComment, OnSheetChartOrPivot, Done
<1>7. CASE UNCHANGED <<type, offset, finished, sheetTable, pending>>
  BY <1>7 DEF Plain
<1> QED BY <1>1, <1>3, <1>4, <1>5, <1>6, <1>7

\* The type invariant, for documents of any size: what the mapper remembers names an
\* item by its arena and an index in it.
THEOREM TypeCorrect == Spec => []TypeOK
<1>1. Init => Plain /\ RowsInv
  <2> SUFFICES ASSUME Init PROVE Plain /\ RowsInv
    OBVIOUS
  <2>1. DOMAIN tree.parent = {} /\ DOMAIN sheetTable = {} /\ cells = {} /\ pending = {}
    BY DEF Init
  <2>2. tree.size \in [Arenas -> Nat]
    BY DEF Init
  <2>3. RowsInv
    BY <2>1, <2>2 DEF RowsInv, Fresh, SheetTables, RowsInTables
  <2>4. MaxText \in Nat
    BY MapperAssumption DEF MapperAssumption
  <2>5. type \in Types /\ offset = 0 /\ finished \in BOOLEAN
    BY Zenon DEF Init
  <2>6. Plain
    BY <2>1, <2>4, <2>5 DEF Plain
  <2> QED BY <2>3, <2>6
<1>2. Plain /\ RowsInv /\ [Next]_vars => (Plain /\ RowsInv)'
  BY PlainStep, RowsStep, MapperAssumption
<1>3. Sound /\ Plain /\ RowsInv => TypeOK
  <2> SUFFICES ASSUME Sound, Plain, RowsInv PROVE TypeOK
    OBVIOUS
  <2>1. \A r \in DOMAIN tree.parent : r[1] \in Arenas /\ r[2] \in 0..(tree.size[r[1]] - 1)
    <3> TAKE r \in DOMAIN tree.parent
    <3>1. r \in Arenas \X Nat /\ r[2] < tree.size[r[1]] /\ tree.size \in [Arenas -> Nat]
      BY DEF RowsInv, Fresh
    <3> QED BY <3>1
  <2>2. DOMAIN tree.children = Refs
    BY DEF Sound, Tree, Refs
  <2>3. \A key \in DOMAIN groups : groups[key] \in DOMAIN tree.parent /\ groups[key][1] = "groups"
    BY DEF Sound, Remembered
  <2>4. \A i \in DOMAIN sheetTable : i \in Parts /\ sheetTable[i] \in DOMAIN tree.parent
    BY DEF Plain, RowsInv, SheetTables
  <2> QED BY <2>1, <2>2, <2>3, <2>4 DEF TypeOK, Plain, Kinds
<1> QED BY <1>1, <1>2, <1>3, InvariantsAlways, PTL DEF Spec
=============================================================================
