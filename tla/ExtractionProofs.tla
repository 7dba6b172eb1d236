-------------------------- MODULE ExtractionProofs --------------------------
(***************************************************************************)
(* What is proved of the extraction of a document.                         *)
(*                                                                         *)
(* The typed walk (TypedContent), for documents of any size, every         *)
(* selection of parts and every failure of the office core: no refusal of  *)
(* emit_fn is lost, the events of each kind are numbered without a gap,    *)
(* nothing leaves a redacted document that the scan has not seen, and a    *)
(* selection of parts leaves out whole kinds and nothing else.             *)
(*                                                                         *)
(* The grid of its text tables (TableGrid), for tables and tolerances of   *)
(* any size and for every order in which the sort may leave edges at one   *)
(* position: the merge of the rows' edges keeps the edges of each row      *)
(* apart and the order of the page, and the cells lie side by side on the  *)
(* grid they make, and aligned if no row is narrow.                        *)
(***************************************************************************)
EXTENDS TypedContent, TableGrid, FiniteSetTheorems, WellFoundedInduction, TLAPS

\* The order of the numbers, by which what holds of none below holds of all.
Below == {pair \in Nat \X Nat : pair[1] < pair[2]}

\* Every set of naturals that is not empty has a least element.
LEMMA LeastNumber ==
  ASSUME NEW N, N \subseteq Nat, N # {}
  PROVE  \E n \in N : \A m \in N : n <= m
<1>1. IsWellFoundedOn(Below, Nat)
  BY NatLessThanWellFounded DEF OpToRel, Below
<1>2. PICK n \in N : \A m \in N : <<m, n>> \notin Below
  BY <1>1, WFMin
<1>3. ASSUME NEW m \in N PROVE n <= m
  <2>1. m \in Nat /\ n \in Nat /\ ~(m < n)
    BY <1>2 DEF Below
  <2> QED BY <2>1
<1> QED BY <1>3

\* Induction, over a set of numbers.
LEMMA AllNumbers ==
  ASSUME NEW S, 0 \in S, \A n \in Nat : n \in S => n + 1 \in S
  PROVE  Nat \subseteq S
<1> DEFINE N == Nat \ S
<1> SUFFICES ASSUME N # {} PROVE FALSE
  OBVIOUS
<1>1. PICK n \in N : \A m \in N : n <= m
  <2>1. N \subseteq Nat
    OBVIOUS
  <2> HIDE DEF N
  <2> QED BY <2>1, LeastNumber
<1>2. n \in Nat /\ n # 0
  BY <1>1
<1>3. n - 1 \in Nat /\ n - 1 \in S
  <2>1. n - 1 \in Nat /\ n - 1 \notin N
    <3> HIDE DEF N
    <3> QED BY <1>1, <1>2
  <2> QED BY <2>1
<1>4. (n - 1) + 1 = n
  BY <1>2
<1>5. (n - 1) + 1 \in S
  BY <1>3
<1> QED BY <1>1, <1>4, <1>5

----------------------------------------------------------------------------
(* The elements of a document, and what they tell *)

\* Every walk begins with the metadata and the objects, which carry no mark.
LEMMA WalkParts ==
  ASSUME NEW type \in {"text", "spreadsheet", "presentation", "drawing"}
  PROVE  /\ Len(Walk(type)) \in Nat /\ Len(Walk(type)) > 2
         /\ Walk(type)[1] = "metadata" /\ Walk(type)[2] = "objects"
<1>1. CASE type = "text"
  BY <1>1 DEF Walk
<1>2. CASE type = "spreadsheet"
  BY <1>2 DEF Walk
<1>3. CASE type = "presentation"
  BY <1>3 DEF Walk
<1>4. CASE type = "drawing"
  BY <1>4 DEF Walk
<1> QED BY <1>1, <1>2, <1>3, <1>4

\* A text document is walked in ten stages, of which each is wanted by some part
\* and the last is the sweep.
LEMMA TextWalk ==
  /\ Len(Walk("text")) = 10 /\ Walk("text")[10] = "finish"
  /\ \A s \in 1..9 : Walk("text")[s] # "finish"
  /\ \A s \in 1..10 : Wanted[Walk("text")[s]] \cap Kinds # {}
BY DEF Walk, Wanted, Kinds

\* An element of any stage, and one of the stages before the text.
Sorts == Kinds \cup {"annotation", "chart", "control", "database", "group", "named", "note",
                     "notes", "odd", "other", "page", "picture", "pivot", "row"}
AnyElement == [is : Sorts, depth : Nat, mark : {"none", "comment", "field"}]
Unmarked == {e \in AnyElement : e.mark = "none" /\ e.is \in {"metadata", "object", "other", "odd"}}

\* A stage of a walk has an entry among what is met and what is wanted.
LEMMA StagesAreMet ==
  ASSUME NEW type \in {"text", "spreadsheet", "presentation", "drawing"}, NEW s \in Stages(type)
  PROVE  s \in DOMAIN Met /\ Element(type, s) \subseteq AnyElement
<1>1. s \in DOMAIN Met
  <2>1. PICK n \in 1..Len(Walk(type)) : s = Walk(type)[n]
    BY DEF Stages
  <2>2. CASE type = "text"
    BY <2>1, <2>2 DEF Walk, Met
  <2>3. CASE type = "spreadsheet"
    BY <2>1, <2>3 DEF Walk, Met
  <2>4. CASE type = "presentation"
    BY <2>1, <2>4 DEF Walk, Met
  <2>5. CASE type = "drawing"
    BY <2>1, <2>5 DEF Walk, Met
  <2> QED BY <2>2, <2>3, <2>4, <2>5
<1>2. Met[s] \cup {"other", "odd"} \subseteq Sorts
  BY <1>1 DEF Sorts, Met, Kinds
<1> QED BY <1>1, <1>2 DEF Element, AnyElement

\* What the assumption on documents says of the stage that is walked.
LEMMA ElementParts ==
  ASSUME TypeOK
  PROVE  /\ Name \in Stages(doc.type) /\ Elements \in Seq(AnyElement)
         /\ Elements \in Seq(Element(doc.type, Name))
         /\ Name \in DOMAIN doc.of /\ Len(Elements) \in Nat
         /\ stage <= 2 => Elements \in Seq(Unmarked)
<1>1. doc \in Documents /\ stage \in 1..Len(Walk(doc.type))
  BY DEF TypeOK
<1>2. Name \in Stages(doc.type)
  BY <1>1 DEF Name, Stages
<1>3. /\ doc.type \in {"text", "spreadsheet", "presentation", "drawing"}
      /\ DOMAIN doc.of = Stages(doc.type)
      /\ Elements \in Seq(Element(doc.type, Name))
  BY <1>1, <1>2, TypedContentAssumption DEF Elements
<1>4. stage <= 2 => Name \in {"metadata", "objects"}
  BY <1>1, <1>3, WalkParts DEF Name
<1>5. Element(doc.type, Name) \subseteq AnyElement
  BY <1>2, <1>3, StagesAreMet
<1>6. Elements \in Seq(AnyElement)
  BY <1>3, <1>5
<1>7. Len(Elements) \in Nat
  BY <1>6
<1>8. Name \in {"metadata", "objects"} => Element(doc.type, Name) \subseteq Unmarked
  <2>1. Name \in {"metadata", "objects"} => Met[Name] \subseteq {"metadata", "object"}
    BY DEF Met
  <2>2. Name \in {"metadata", "objects"} =>
          \A e \in Element(doc.type, Name) :
            e.mark = "none" /\ e.is \in {"metadata", "object", "other", "odd"}
    BY <2>1 DEF Element
  <2> QED BY <1>5, <2>2 DEF Unmarked
<1>9. stage <= 2 => Elements \in Seq(Unmarked)
  BY <1>3, <1>4, <1>8
<1> QED BY <1>2, <1>3, <1>6, <1>7, <1>9

\* What an element tells is a sequence of kinds.
LEMMA OwnKinds ==
  ASSUME NEW s, NEW e \in AnyElement
  PROVE  /\ Own(s, e) \in Seq(Kinds) /\ Marks(s, e) \in Seq(Kinds)
         /\ Tells(s, e) \in Seq(Kinds)
<1>0. \A kind \in Kinds : <<kind>> \in Seq(Kinds)
  OBVIOUS
<1>a. <<>> \in Seq(Kinds)
  OBVIOUS
<1>1. Drawn(s) \in Seq(Kinds)
  <2>1. {"slide", "shape"} \subseteq Kinds
    BY DEF Kinds
  <2> QED BY <1>0, <1>a, <2>1 DEF Drawn
<1>2. Own(s, e) \in Seq(Kinds)
  <2>1. CASE e.is \in {"odd", "page", "other"}
    BY <1>a, <2>1 DEF Own
  <2>2. CASE e.is \in {"shape", "group"}
    BY <1>1, <2>2 DEF Own
  <2>3. CASE e.is = "picture"
    <3>1. "image" \in Kinds
      BY DEF Kinds
    <3>2. Own(s, e) = (IF s = "shapes" THEN <<>> ELSE Drawn(s)) \o <<"image">>
      BY <2>3 DEF Own
    <3>3. (IF s = "shapes" THEN <<>> ELSE Drawn(s)) \in Seq(Kinds)
      BY <1>1, <1>a
    <3>4. <<"image">> \in Seq(Kinds)
      BY <1>0, <3>1
    <3> QED BY <3>2, <3>3, <3>4
  <2>4. CASE e.is \in {"control", "annotation", "notes",
                       "named", "database", "row", "note", "chart", "pivot"}
    <3>1. {"field", "comment", "slide", "sheet"} \subseteq Kinds
      BY DEF Kinds
    <3> QED BY <1>0, <2>4, <3>1 DEF Own
  <2>5. CASE e.is \in Kinds \ {"shape"}
    <3>1. Own(s, e) = <<e.is>>
      BY <2>5 DEF Own, Kinds
    <3> QED BY <1>0, <2>5, <3>1
  <2> QED BY <2>1, <2>2, <2>3, <2>4, <2>5 DEF AnyElement, Sorts
<1>3. Marks(s, e) \in Seq(Kinds)
  <2>1. {"field", "comment"} \subseteq Kinds
    BY DEF Kinds
  <2>2. e.mark \in {"none", "comment", "field"}
    BY DEF AnyElement
  <2> QED BY <1>0, <1>a, <2>1, <2>2 DEF Marks
<1> QED BY <1>2, <1>3 DEF Tells

\* The events that Told gives of the first m kinds: one for each kind that is
\* selected, in their order, and no other.
Tale(told, kinds, m) ==
  /\ told \in Seq([kind : Kinds \cap parts, item : {Item}])
  /\ \A i \in 1..Len(told) : \E j \in 1..m : told[i].kind = kinds[j]
  /\ \A j \in 1..m :
       kinds[j] \in parts => \E i \in 1..Len(told) : told[i].kind = kinds[j]
  /\ \A i, k \in 1..Len(told) :
       i < k => \E j, l \in 1..m : j < l /\ told[i].kind = kinds[j] /\ told[k].kind = kinds[l]

\* Told selects: it loses no kind that is selected, and adds none.
LEMMA ToldIsTale ==
  ASSUME NEW kinds \in Seq(Kinds)
  PROVE  Tale(Told(kinds), kinds, Len(kinds))
<1> DEFINE More(told, n) ==
             IF kinds[n] \in parts THEN Append(told, [kind |-> kinds[n], item |-> Item])
             ELSE told
           Chain(f, m) == f = [n \in 0..m |-> IF n = 0 THEN <<>> ELSE More(f[n - 1], n)]
           L == Len(kinds)
<1>1. L \in Nat /\ \A n \in 1..L : kinds[n] \in Kinds
  OBVIOUS
<1>2. \A m \in Nat : \E f : Chain(f, m)
  <2> DEFINE S == {m \in Nat : \E f : Chain(f, m)}
  <2>1. 0 \in S
    <3>1. [n \in 0..0 |-> <<>>] = [n \in 0..0 |->
            IF n = 0 THEN <<>> ELSE More([k \in 0..0 |-> <<>>][n - 1], n)]
      OBVIOUS
    <3>2. Chain([n \in 0..0 |-> <<>>], 0)
      <4> HIDE DEF More
      <4> QED BY <3>1
    <3> HIDE DEF Chain
    <3> QED BY <3>2
  <2>2. ASSUME NEW m \in Nat, m \in S PROVE m + 1 \in S
    <3>1. PICK f : Chain(f, m)
      BY <2>2
    <3> DEFINE g == [n \in 0..(m + 1) |-> IF n = 0 THEN <<>> ELSE More(f[n - 1], n)]
    <3>2. ASSUME NEW n \in 0..(m + 1), n # 0 PROVE g[n - 1] = f[n - 1]
      <4>1. n - 1 \in 0..m /\ n - 1 \in 0..(m + 1)
        BY <3>2
      <4> HIDE DEF More
      <4> QED BY <3>1, <4>1
    <3>3. g = [n \in 0..(m + 1) |-> IF n = 0 THEN <<>> ELSE More(g[n - 1], n)]
      <4> HIDE DEF More
      <4> QED BY <3>2
    <3>4. Chain(g, m + 1)
      <4> HIDE DEF g, More
      <4> QED BY <3>3
    <3> HIDE DEF Chain
    <3> QED BY <3>4
  <2> HIDE DEF S
  <2>3. Nat \subseteq S
    BY <2>1, <2>2, AllNumbers
  <2> QED BY <2>3 DEF S
<1> DEFINE f == CHOOSE g : Chain(g, L)
<1>3. Told(kinds) = f[L]
  BY Zenon DEF Told
<1>4. Chain(f, L)
  <2>1. \E g : Chain(g, L)
    BY <1>1, <1>2
  <2> HIDE DEF Chain
  <2> QED BY Zenon, <2>1
<1> HIDE DEF f
<1>5. f[0] = <<>> /\ \A n \in 1..L : f[n] = More(f[n - 1], n)
  <2>1. \A n \in 0..L : f[n] = IF n = 0 THEN <<>> ELSE More(f[n - 1], n)
    <3> HIDE DEF More
    <3> QED BY <1>4
  <2> HIDE DEF More
  <2> QED BY <1>1, <2>1
<1>6. \A m \in 0..L : Tale(f[m], kinds, m)
  <2> DEFINE S == {m \in Nat : m <= L => Tale(f[m], kinds, m)}
  <2>1. 0 \in S
    <3>1. Tale(<<>>, kinds, 0)
      BY DEF Tale
    <3> QED BY <1>5, <3>1
  <2>2. ASSUME NEW m \in Nat, m \in S PROVE m + 1 \in S
    <3> SUFFICES ASSUME m + 1 <= L PROVE Tale(f[m + 1], kinds, m + 1)
      OBVIOUS
    <3> DEFINE old == f[m]
               new == f[m + 1]
    <3>1. Tale(old, kinds, m)
      BY <1>1, <2>2
    <3>2. m + 1 \in 1..L /\ (m + 1) - 1 = m
      BY <1>1
    <3>3. new = IF kinds[m + 1] \in parts
                THEN Append(old, [kind |-> kinds[m + 1], item |-> Item]) ELSE old
      <4>1. new = More(old, m + 1)
        <5> HIDE DEF More
        <5> QED BY <1>5, <3>2
      <4> HIDE DEF old, new
      <4> QED BY <4>1
    <3>4. kinds[m + 1] \in Kinds
      BY <1>1, <3>2
    <3> HIDE DEF old, new, More
    <3>5. ASSUME kinds[m + 1] \in parts PROVE Tale(new, kinds, m + 1)
      <4> DEFINE event == [kind |-> kinds[m + 1], item |-> Item]
      <4>1. event \in [kind : Kinds \cap parts, item : {Item}] /\ event.kind = kinds[m + 1]
        BY <3>4, <3>5
      <4>2. new = Append(old, event)
        BY <3>3, <3>5
      <4> HIDE DEF event
      <4>3. /\ new \in Seq([kind : Kinds \cap parts, item : {Item}])
            /\ Len(new) = Len(old) + 1 /\ Len(old) \in Nat /\ new[Len(old) + 1] = event
            /\ \A i \in 1..Len(old) : new[i] = old[i]
        BY <3>1, <4>1, <4>2 DEF Tale
      <4>4. ASSUME NEW i \in 1..Len(new) PROVE \E j \in 1..(m + 1) : new[i].kind = kinds[j]
        <5>1. CASE i = Len(old) + 1
          BY <4>1, <4>3, <5>1
        <5>2. CASE i \in 1..Len(old)
          <6>1. PICK j \in 1..m : old[i].kind = kinds[j]
            BY <3>1, <5>2 DEF Tale
          <6>2. j \in 1..(m + 1) /\ new[i] = old[i]
            BY <4>3, <5>2
          <6> QED BY <6>1, <6>2
        <5> QED BY <4>3, <5>1, <5>2
      <4>5. ASSUME NEW j \in 1..(m + 1), kinds[j] \in parts
            PROVE  \E i \in 1..Len(new) : new[i].kind = kinds[j]
        <5>1. CASE j = m + 1
          BY <4>1, <4>3, <5>1
        <5>2. CASE j \in 1..m
          <6>1. PICK i \in 1..Len(old) : old[i].kind = kinds[j]
            BY <3>1, <4>5, <5>2 DEF Tale
          <6>2. i \in 1..Len(new) /\ new[i] = old[i]
            BY <4>3
          <6> QED BY <6>1, <6>2
        <5> QED BY <5>1, <5>2
      <4>6. ASSUME NEW i \in 1..Len(new), NEW k \in 1..Len(new), i < k
            PROVE  \E j, l \in 1..(m + 1) :
                     j < l /\ new[i].kind = kinds[j] /\ new[k].kind = kinds[l]
        <5>1. i \in 1..Len(old) /\ new[i] = old[i]
          BY <4>3, <4>6
        <5>2. CASE k = Len(old) + 1
          <6>1. PICK j \in 1..m : old[i].kind = kinds[j]
            BY <3>1, <5>1 DEF Tale
          <6>2. j \in 1..(m + 1) /\ m + 1 \in 1..(m + 1) /\ j < m + 1
            OBVIOUS
          <6>3. new[i].kind = kinds[j] /\ new[k].kind = kinds[m + 1]
            BY <4>1, <4>3, <5>1, <5>2, <6>1
          <6> QED BY Zenon, <6>2, <6>3
        <5>3. CASE k \in 1..Len(old)
          <6>1. PICK j \in 1..m, l \in 1..m :
                  j < l /\ old[i].kind = kinds[j] /\ old[k].kind = kinds[l]
            BY <3>1, <4>6, <5>1, <5>3 DEF Tale
          <6>2. j \in 1..(m + 1) /\ l \in 1..(m + 1)
            OBVIOUS
          <6>3. new[i].kind = kinds[j] /\ new[k].kind = kinds[l]
            BY <4>3, <5>1, <5>3, <6>1
          <6> QED BY Zenon, <6>1, <6>2, <6>3
        <5>4. k = Len(old) + 1 \/ k \in 1..Len(old)
          BY <4>3
        <5> QED BY <5>2, <5>3, <5>4
      <4> QED BY Zenon, <4>3, <4>4, <4>5, <4>6 DEF Tale
    <3>6. ASSUME kinds[m + 1] \notin parts PROVE Tale(new, kinds, m + 1)
      <4>1. new = old
        BY <3>3, <3>6
      <4>2. ASSUME NEW j \in 1..(m + 1), kinds[j] \in parts PROVE j \in 1..m
        BY <3>6, <4>2
      <4>3. 1..m \subseteq 1..(m + 1)
        OBVIOUS
      <4>4. /\ old \in Seq([kind : Kinds \cap parts, item : {Item}])
            /\ \A i \in 1..Len(old) : \E j \in 1..(m + 1) : old[i].kind = kinds[j]
        BY <3>1, <4>3 DEF Tale
      <4>5. \A j \in 1..(m + 1) :
              kinds[j] \in parts => \E i \in 1..Len(old) : old[i].kind = kinds[j]
        BY <3>1, <4>2 DEF Tale
      <4>6. ASSUME NEW i \in 1..Len(old), NEW k \in 1..Len(old), i < k
            PROVE  \E j, l \in 1..(m + 1) :
                     j < l /\ old[i].kind = kinds[j] /\ old[k].kind = kinds[l]
        <5>1. PICK j \in 1..m, l \in 1..m :
                j < l /\ old[i].kind = kinds[j] /\ old[k].kind = kinds[l]
          BY <3>1, <4>6 DEF Tale
        <5>2. j \in 1..(m + 1) /\ l \in 1..(m + 1)
          BY <4>3
        <5> QED BY <5>1, <5>2
      <4>7. Tale(old, kinds, m + 1)
        BY Zenon, <4>4, <4>5, <4>6 DEF Tale
      <4> QED BY Zenon, <4>1, <4>7
    <3>7. Tale(new, kinds, m + 1)
      BY <3>5, <3>6
    <3> QED BY <3>7 DEF new
  <2> HIDE DEF S
  <2>3. Nat \subseteq S
    BY <2>1, <2>2, AllNumbers
  <2>4. ASSUME NEW m \in 0..L PROVE m \in S
    BY <1>1, <2>3
  <2> QED BY <2>4 DEF S
<1>7. Tale(f[L], kinds, L)
  BY <1>1, <1>6
<1> QED BY <1>3, <1>7

----------------------------------------------------------------------------
\* What a function gives of finitely many arguments is finite.
LEMMA ImageFinite ==
  ASSUME NEW f, IsFiniteSet(DOMAIN f)
  PROVE  IsFiniteSet({f[x] : x \in DOMAIN f})
<1> DEFINE T == {f[x] : x \in DOMAIN f}
           g == [x \in DOMAIN f |-> f[x]]
<1>1. g \in Surjection(DOMAIN f, T)
  BY DEF Surjection
<1> HIDE DEF g, T
<1>2. IsFiniteSet(T)
  BY <1>1, FS_Surjection
<1> QED BY <1>2 DEF T

\* The sweep can put the comments in order: they are finitely many.
LEMMA CommentsFinite ==
  ASSUME TypeOK PROVE IsFiniteSet(Commented) /\ Commented \subseteq Places
<1>1. doc \in Documents
  BY DEF TypeOK
<1>2. /\ DOMAIN doc.of = Stages(doc.type)
      /\ doc.type \in {"text", "spreadsheet", "presentation", "drawing"}
      /\ \A s \in DOMAIN doc.of : Len(doc.of[s]) \in Nat
  BY <1>1, TypedContentAssumption
<1>3. IsFiniteSet(DOMAIN doc.of)
  <2> DEFINE w == [s \in 1..Len(Walk(doc.type)) |-> Walk(doc.type)[s]]
  <2>1. IsFiniteSet(DOMAIN w)
    BY <1>2, WalkParts, FS_Interval
  <2>2. IsFiniteSet({w[s] : s \in DOMAIN w})
    <3> HIDE DEF w
    <3> QED BY <2>1, ImageFinite
  <2>3. {w[s] : s \in DOMAIN w} = Stages(doc.type)
    BY DEF Stages
  <2> QED BY <1>2, <2>2, <2>3
<1> DEFINE In(s) == {i \in 1..Len(doc.of[s]) : doc.of[s][i].mark = "comment"}
           Of(s) == {<<s, i>> : i \in In(s)}
           of == [s \in DOMAIN doc.of |-> Of(s)]
<1>4. ASSUME NEW s \in DOMAIN doc.of PROVE IsFiniteSet(Of(s))
  <2> DEFINE f == [i \in In(s) |-> <<s, i>>]
  <2>1. IsFiniteSet(In(s))
    <3>1. In(s) \subseteq 1..Len(doc.of[s]) /\ Len(doc.of[s]) \in Int
      BY <1>2
    <3>2. IsFiniteSet(1..Len(doc.of[s]))
      BY <3>1, FS_Interval
    <3> HIDE DEF In
    <3> QED BY <3>1, <3>2, FS_Subset
  <2>2. DOMAIN f = In(s) /\ {f[i] : i \in DOMAIN f} = Of(s)
    OBVIOUS
  <2> HIDE DEF f, Of, In
  <2> QED BY <2>1, <2>2, ImageFinite
<1>5. IsFiniteSet({of[s] : s \in DOMAIN of})
  <2>1. DOMAIN of = DOMAIN doc.of
    OBVIOUS
  <2> HIDE DEF of
  <2> QED BY <1>3, <2>1, ImageFinite
<1>6. {of[s] : s \in DOMAIN of} = {Of(s) : s \in DOMAIN doc.of}
  <2> HIDE DEF Of
  <2> QED OBVIOUS
<1>7. IsFiniteSet(UNION {Of(s) : s \in DOMAIN doc.of})
  <2>1. \A T \in {Of(s) : s \in DOMAIN doc.of} : IsFiniteSet(T)
    <3> HIDE DEF Of
    <3> QED BY <1>4
  <2> HIDE DEF Of, of
  <2> QED BY <1>5, <1>6, <2>1, FS_UNION
<1>8. Commented = UNION {Of(s) : s \in DOMAIN doc.of}
  BY DEF Commented
<1>9. Commented \subseteq Places
  BY DEF Commented, Places
<1> QED BY <1>7, <1>8, <1>9

\* The end of what is skipped lies behind the element that is read.
LEMMA FirstAfter ==
  ASSUME TypeOK, at <= Len(Elements), NEW found \in SUBSET ((at + 1)..Len(Elements))
  PROVE  First(found) \in Nat /\ First(found) > at
<1>1. at \in Nat /\ Len(Elements) \in Nat
  <2>1. Len(Elements) \in Nat
    BY ElementParts
  <2> QED BY <2>1 DEF TypeOK
<1>2. CASE found = {}
  BY <1>1, <1>2 DEF First
<1>3. CASE found # {}
  <2>1. found \subseteq Nat
    BY <1>1
  <2>2. \E n \in found : \A m \in found : n <= m
    BY <1>3, <2>1, LeastNumber
  <2>3. First(found) \in found
    BY <1>3, <2>2 DEF First
  <2>4. \A n \in found : n \in Nat /\ n > at
    BY <1>1
  <2> QED BY <2>3, <2>4
<1> QED BY <1>2, <1>3

\* Where the walk goes on lies behind the element it has read.
LEMMA OnlyOnwards ==
  ASSUME TypeOK, at <= Len(Elements)
  PROVE  /\ Enclosed \in Nat /\ Enclosed > at
         /\ \A e : \A p \in LostTo(e) : p \in Nat /\ p > at
<1>1. Enclosed \in Nat /\ Enclosed > at
  BY FirstAfter DEF Enclosed
<1>2. Series \in Nat /\ Series > at
  BY FirstAfter DEF Series
<1>3. PageEnd \in Nat /\ PageEnd > at
  BY FirstAfter DEF PageEnd
<1> QED BY <1>1, <1>2, <1>3 DEF LostTo

----------------------------------------------------------------------------
\* The walk begins within the types.
LEMMA TypeInit == ASSUME Init PROVE TypeOK
<1>1. doc \in Documents
  BY DEF Init
<1>2. doc.type \in {"text", "spreadsheet", "presentation", "drawing"}
  BY <1>1, TypedContentAssumption
<1>3. stage \in 1..Len(Walk(doc.type))
  BY <1>2, WalkParts DEF Init
<1>4. parts \subseteq Kinds
  BY TypedContentAssumption DEF Init
<1>5. /\ offers \in Seq(Offered)
      /\ sent \in Seq(Event)
      /\ shown \subseteq Kinds \X Places
  BY DEF Init
<1>6. at \in Nat \ {0} /\ count \in [Kinds -> Nat] /\ seen \subseteq Commented
  BY DEF Init
<1>7. /\ pass \in {"scan", "send", "redacted", "refused"}
      /\ failed \in BOOLEAN /\ warnings \in Nat
      /\ result \in {"none", "true", "false", "aborted"}
  BY DEF Init
<1> QED BY Zenon, <1>1, <1>3, <1>4, <1>5, <1>6, <1>7 DEF TypeOK

\* An element that is read is one of the places of the document.
LEMMA ItemIsPlace ==
  ASSUME TypeOK, at <= Len(Elements)
  PROVE  Item \in Places /\ Elements[at] \in AnyElement
<1>1. at \in 1..Len(Elements)
  <2>1. at \in Nat \ {0}
    BY DEF TypeOK
  <2> QED BY <2>1, ElementParts
<1>2. Elements[at] \in AnyElement
  BY <1>1, ElementParts
<1>3. Item \in Places
  BY <1>1, ElementParts DEF Item, Places, Elements
<1> QED BY <1>2, <1>3

\* What is told of an element keeps the types.
LEMMA ReadTyped ==
  ASSUME TypeOK, Ready, UNCHANGED doc, NEW kinds \in Seq(Kinds), ReadAs(kinds)
  PROVE  /\ offers' \in Seq(Offered')
         /\ at' \in Nat \ {0} /\ seen' \subseteq Commented'
<1>1. at <= Len(Elements)
  BY DEF Ready
<1>2. offers' = Told(kinds)
  BY DEF ReadAs
<1>3. Told(kinds) \in Seq([kind : Kinds \cap parts, item : {Item}])
  BY ToldIsTale DEF Tale
<1>4. Offered' = Offered /\ Commented' = Commented
  BY DEF Places, Commented, Offered
<1>5. offers' \in Seq(Offered')
  <2>1. Item \in Places
    BY <1>1, ItemIsPlace
  <2> DEFINE These == [kind : Kinds \cap parts, item : {Item}]
  <2>2. These \subseteq Offered
    BY <2>1 DEF Offered
  <2> HIDE DEF These
  <2>3. Told(kinds) \in Seq(These)
    BY <1>3 DEF These
  <2>4. Told(kinds) \in Seq(Offered)
    BY <2>2, <2>3
  <2> QED BY Zenon, <1>2, <1>4, <2>4
<1>6. at' \in Nat \ {0}
  <2>1. at \in Nat \ {0}
    BY DEF TypeOK
  <2>2. at' \in {at + 1, Enclosed}
    BY DEF ReadAs
  <2> QED BY <1>1, <2>1, <2>2, OnlyOnwards
<1>7. seen' \subseteq Commented'
  <2>1. CASE Marks(Name, Elements[at]) = <<"comment">>
    <3>1. Elements[at].mark = "comment"
      <4>1. Marks(Name, Elements[at]) = <<Elements[at].mark>>
        BY <2>1 DEF Marks
      <4> QED BY <2>1, <4>1
    <3>2. at \in 1..Len(Elements) /\ Name \in DOMAIN doc.of
      <4>1. at \in Nat \ {0}
        BY DEF TypeOK
      <4> QED BY <1>1, <4>1, ElementParts
    <3>3. Item \in Commented
      BY <3>1, <3>2 DEF Item, Commented, Elements
    <3>4. seen \subseteq Commented
      BY DEF TypeOK
    <3> QED BY <1>4, <3>3, <3>4 DEF ReadAs
  <2>2. CASE Marks(Name, Elements[at]) # <<"comment">>
    BY <1>4, <2>2 DEF ReadAs, TypeOK
  <2> QED BY <2>1, <2>2
<1> QED BY <1>5, <1>6, <1>7

\* A sequence with one more value.
LEMMA AppendTyped ==
  ASSUME NEW Values, NEW list \in Seq(Values), NEW value \in Values
  PROVE  Append(list, value) \in Seq(Values)
OBVIOUS

\* Each step keeps the types: the offers are of places of the document, and the
\* walk stays within its stages.
LEMMA TypeStep == ASSUME TypeOK, [Next]_vars PROVE TypeOK'
<1> DEFINE Results == {"none", "true", "false", "aborted"}
           Passes == {"scan", "send", "redacted", "refused"}
<1>1. UNCHANGED doc /\ Places' = Places /\ Commented' = Commented /\ Offered' = Offered
      /\ Event' = Event
  <2>1. UNCHANGED doc
    BY DEF Next, vars, NextStage, Read, ReadInPart, GiveUp, NoBody, Abort, Sweep, Offer,
           Redacted, Done
  <2> QED BY <2>1 DEF Places, Commented, Offered, Event
<1>2. /\ doc \in Documents /\ parts \subseteq Kinds
      /\ offers \in Seq(Offered) /\ sent \in Seq(Event) /\ shown \subseteq Kinds \X Places
      /\ pass \in Passes /\ stage \in 1..Len(Walk(doc.type)) /\ at \in Nat \ {0}
      /\ count \in [Kinds -> Nat] /\ seen \subseteq Commented
      /\ failed \in BOOLEAN /\ warnings \in Nat /\ result \in Results
  BY Zenon DEF TypeOK
<1>3. SUFFICES /\ parts' \subseteq Kinds
               /\ offers' \in Seq(Offered) /\ sent' \in Seq(Event) /\ shown' \subseteq Kinds \X Places
               /\ pass' \in Passes /\ stage' \in 1..Len(Walk(doc.type)) /\ at' \in Nat \ {0}
               /\ count' \in [Kinds -> Nat] /\ seen' \subseteq Commented
               /\ failed' \in BOOLEAN /\ warnings' \in Nat /\ result' \in Results
  BY Zenon, <1>1, <1>2 DEF TypeOK
<1>4. CASE UNCHANGED vars
  BY <1>2, <1>4 DEF vars
<1>5. CASE NextStage
  <2>1. Len(Walk(doc.type)) \in Nat
    BY <1>2, TypedContentAssumption, WalkParts
  <2>2. stage' \in 1..Len(Walk(doc.type)) /\ at' \in Nat \ {0}
    BY <1>2, <1>5, <2>1 DEF NextStage, place
  <2>3. result' \in Results
    BY <1>2, <1>5 DEF NextStage, Finish
  <2>4. UNCHANGED <<parts, pass, offers, count, seen, failed, sent, shown, warnings>>
    BY <1>5 DEF NextStage
  <2> QED BY Zenon, <1>2, <2>2, <2>3, <2>4
<1>6. ASSUME NEW kinds \in Seq(Kinds), Ready, ReadAs(kinds)
      PROVE  offers' \in Seq(Offered) /\ at' \in Nat \ {0} /\ seen' \subseteq Commented
  BY Zenon, <1>1, <1>6, ReadTyped
<1>7. CASE Read
  <2>1. at <= Len(Elements)
    BY <1>7 DEF Read, Ready
  <2>2. PICK kinds \in Seq(Kinds) : ReadAs(kinds)
    <3>1. Tells(Name, Elements[at]) \in Seq(Kinds) /\ <<>> \in Seq(Kinds)
      BY <2>1, ItemIsPlace, OwnKinds
    <3> QED BY <1>7, <3>1 DEF Read
  <2>3. offers' \in Seq(Offered) /\ at' \in Nat \ {0} /\ seen' \subseteq Commented
    BY <1>6, <1>7, <2>2 DEF Read
  <2> QED BY <1>2, <1>7, <2>3 DEF Read
<1>8. CASE ReadInPart
  <2>1. at <= Len(Elements)
    BY <1>8 DEF ReadInPart, Ready
  <2>2. PICK kinds \in Seq(Kinds) : ReadAs(kinds)
    <3>1. /\ Tells(Name, Elements[at]) \in Seq(Kinds)
          /\ Own(Name, Elements[at]) \in Seq(Kinds)
      BY <2>1, ItemIsPlace, OwnKinds
    <3> QED BY <1>8, <3>1 DEF ReadInPart
  <2>3. offers' \in Seq(Offered) /\ at' \in Nat \ {0} /\ seen' \subseteq Commented
    BY <1>6, <1>8, <2>2 DEF ReadInPart
  <2> QED BY <1>2, <1>8, <2>3 DEF ReadInPart
<1>9. CASE GiveUp
  <2>1. at' \in Nat \ {0}
    <3>1. at' \in LostTo(Elements[at]) /\ at <= Len(Elements) /\ at \in Nat
      BY <1>2, <1>9 DEF GiveUp, Ready
    <3> QED BY <3>1, OnlyOnwards
  <2> QED BY <1>2, <1>9, <2>1 DEF GiveUp
<1>10. CASE NoBody \/ Abort
  BY <1>2, <1>10 DEF NoBody, Abort, place
<1>11. CASE Sweep
  <2> DEFINE rest == IF "comment" \in parts THEN Commented \ seen ELSE {}
  <2>1. IsFiniteSet(rest) /\ rest \subseteq Places
    BY CommentsFinite, FS_Difference, FS_EmptySet
  <2>2. Cardinality(rest) \in Nat
    <3> HIDE DEF rest
    <3> QED BY <2>1, FS_CardinalityType
  <2> DEFINE size == Cardinality(rest)
  <2>3. PICK order \in [1..size -> rest] :
          offers' = [i \in 1..Len(order) |-> [kind |-> "comment", item |-> order[i]]]
    BY <1>11 DEF Sweep
  <2> HIDE DEF size, rest
  <2>4. Len(order) = size /\ size \in Nat
    BY <2>2, <2>3 DEF size
  <2>5. \A i \in 1..size : order[i] \in Places
    BY <2>1, <2>3
  <2>6. offers' \in Seq(Offered)
    <3>1. "comment" \in Kinds
      BY DEF Kinds
    <3>2. \A i \in 1..size : [kind |-> "comment", item |-> order[i]] \in Offered
      BY <2>5, <3>1 DEF Offered
    <3> QED BY <2>3, <2>4, <3>2
  <2>7. at' \in Nat \ {0}
    BY <1>2, <1>11 DEF Sweep
  <2> QED BY <1>2, <1>11, <2>6, <2>7 DEF Sweep
<1>12. CASE Offer
  <2> DEFINE next == Head(offers)
  <2>1. next \in Offered /\ Tail(offers) \in Seq(Offered)
    BY <1>2, <1>12 DEF Offer
  <2>2. next.kind \in Kinds /\ next.item \in Places /\ next.item[2] \in Nat
    BY <2>1 DEF Places, Offered
  <2> HIDE DEF next
  <2>3. count' \in [Kinds -> Nat]
    <3>1. count' = [count EXCEPT ![next.kind] = @ + 1]
      BY <1>12 DEF Offer, next
    <3> QED BY <1>2, <2>2, <3>1
  <2>4. Index(next.kind, next.item) \in Nat
    BY <1>2, <2>2 DEF Index
  <2>5. sent' \in Seq(Event)
    <3>1. PICK taken \in BOOLEAN :
            sent' = sent \/ sent' = Append(sent, [kind |-> next.kind, item |-> next.item,
                                index |-> Index(next.kind, next.item), taken |-> taken])
      BY <1>12 DEF Offer, next
    <3> DEFINE event == [kind |-> next.kind, item |-> next.item,
                         index |-> Index(next.kind, next.item), taken |-> taken]
    <3>2. event \in Event
      BY <2>2, <2>4 DEF Event
    <3>3. sent' = sent \/ sent' = Append(sent, event)
      BY <3>1
    <3>4. sent \in Seq(Event)
      BY Zenon, <1>2
    <3> HIDE DEF event
    <3>5. Append(sent, event) \in Seq(Event)
      BY <3>2, <3>4, AppendTyped
    <3> QED BY Zenon, <3>3, <3>4, <3>5
  <2>6. failed' \in BOOLEAN /\ result' \in Results
    BY <1>2, <1>12 DEF Offer, IsMark
  <2>7. /\ offers' \in Seq(Offered)
        /\ UNCHANGED <<parts, pass, stage, at, seen, shown, warnings>>
    BY <1>12, <2>1 DEF Offer, place, next
  <2> QED BY Zenon, <1>2, <2>3, <2>5, <2>6, <2>7
<1>13. CASE Redacted
  <2>1. CASE Passed
    <3>1. PICK wanted \in Selections : Start("redacted", wanted)
      BY <1>13, <2>1 DEF Redacted
    <3>2. parts' \subseteq Kinds
      BY <3>1, TypedContentAssumption DEF Start
    <3>3. 1 \in 1..Len(Walk(doc.type))
      BY <1>2
    <3>4. shown' \subseteq Kinds \X Places
      <4>1. \A i \in 1..Len(sent) : sent[i].kind \in Kinds /\ sent[i].item \in Places
        <5>1. \A i \in 1..Len(sent) : sent[i] \in Event
          BY <1>2
        <5> QED BY <5>1 DEF Event
      <4>2. shown' = {<<sent[i].kind, sent[i].item>> : i \in 1..Len(sent)}
        BY <1>13, <2>1 DEF Redacted
      <4> QED BY <4>1, <4>2
    <3>5. offers' \in Seq(Offered) /\ sent' \in Seq(Event) /\ count' \in [Kinds -> Nat]
      BY <3>1 DEF Start
    <3>6. pass' \in Passes /\ stage' \in 1..Len(Walk(doc.type)) /\ at' \in Nat \ {0}
      BY <3>1, <3>3 DEF Start
    <3>7. /\ seen' \subseteq Commented /\ failed' \in BOOLEAN /\ warnings' \in Nat
          /\ result' \in Results
      BY <3>1 DEF Start
    <3> QED BY Zenon, <3>2, <3>4, <3>5, <3>6, <3>7
  <2>2. CASE ~Passed
    BY <1>2, <1>13, <2>2 DEF Redacted, place
  <2> QED BY <2>1, <2>2
<1>14. CASE Done
  BY <1>4, <1>14 DEF Done
<1> QED BY <1>4, <1>5, <1>7, <1>8, <1>9, <1>10, <1>11, <1>12, <1>13, <1>14 DEF Next

\* The type invariant of the typed walk, for documents of any size and any
\* selection of parts.
THEOREM TypeCorrect == Spec => []TypeOK
BY TypeInit, TypeStep, PTL DEF Spec

----------------------------------------------------------------------------
(* Refusals *)

\* Before the body, nothing that is offered is a mark, and the collector has
\* met no refusal.
Early == stage <= 2 \/ (stage = 3 /\ at = 1)
EarlyIsUnmarked ==
  Early => ~failed /\ \A i \in 1..Len(offers) : offers[i].kind \notin {"comment", "field"}

\* Marks are asked about in the body, which is the third stage, or at the end.
LEMMA BodyIsThird ==
  ASSUME NEW type \in {"text", "spreadsheet", "presentation", "drawing"},
         NEW s \in 1..Len(Walk(type)), Walk(type)[s] \in {"body", "finish"}
  PROVE  s > 2 /\ (Walk(type)[s] = "body" => s = 3)
<1>1. CASE type = "text"
  BY <1>1 DEF Walk
<1>2. CASE type = "spreadsheet"
  BY <1>2 DEF Walk
<1>3. CASE type = "presentation"
  BY <1>3 DEF Walk
<1>4. CASE type = "drawing"
  BY <1>4 DEF Walk
<1> QED BY <1>1, <1>2, <1>3, <1>4

\* What carries no mark tells none.
LEMMA UnmarkedTells ==
  ASSUME NEW s, NEW e \in Unmarked
  PROVE  /\ \A i \in 1..Len(Tells(s, e)) : Tells(s, e)[i] \in {"metadata", "object"}
         /\ \A i \in 1..Len(Own(s, e)) : Own(s, e)[i] \in {"metadata", "object"}
<1>1. e.mark = "none" /\ e.is \in {"metadata", "object", "other", "odd"}
  BY DEF Unmarked
<1>2. Own(s, e) = <<>> \/ (Own(s, e) = <<e.is>> /\ e.is \in {"metadata", "object"})
  BY <1>1 DEF Own
<1>3. Marks(s, e) = <<>>
  BY <1>1 DEF Marks
<1>4. Tells(s, e) = Own(s, e)
  BY <1>1, <1>2, <1>3 DEF Tells
<1> QED BY <1>2, <1>4

\* An element that is read offers some of what it tells.
LEMMA ReadKinds ==
  ASSUME TypeOK, Ready, Read \/ ReadInPart
  PROVE  \E kinds \in Seq(Kinds) :
           /\ ReadAs(kinds)
           /\ kinds \in {<<>>, Tells(Name, Elements[at]), Own(Name, Elements[at])}
           /\ kinds # <<>> => IsRead(Name, Elements[at])
<1>1. at <= Len(Elements)
  BY DEF Ready
<1>2. /\ Tells(Name, Elements[at]) \in Seq(Kinds) /\ <<>> \in Seq(Kinds)
      /\ Own(Name, Elements[at]) \in Seq(Kinds)
  BY <1>1, ItemIsPlace, OwnKinds
<1>3. CASE Read
  BY <1>2, <1>3 DEF Read
<1>4. CASE ReadInPart
  BY <1>2, <1>4 DEF ReadInPart
<1> QED BY <1>3, <1>4

\* Nothing that is offered before the body is a mark.
LEMMA EarlyStep == ASSUME TypeOK, EarlyIsUnmarked, [Next]_vars PROVE EarlyIsUnmarked'
<1>1. stage \in Nat /\ at \in Nat /\ at # 0 /\ offers \in Seq(Offered) /\ doc \in Documents
      /\ stage \in 1..Len(Walk(doc.type))
  BY DEF TypeOK
<1>2. doc.type \in {"text", "spreadsheet", "presentation", "drawing"}
  BY <1>1, TypedContentAssumption
<1> SUFFICES ASSUME Early'
             PROVE  ~failed' /\ \A i \in 1..Len(offers') : offers'[i].kind \notin {"comment", "field"}
  BY DEF EarlyIsUnmarked
<1> USE DEF EarlyIsUnmarked, Early
<1>3. CASE UNCHANGED vars
  BY <1>3 DEF vars
<1>4. CASE NextStage
  BY <1>1, <1>4 DEF NextStage, place
<1>5. CASE Read \/ ReadInPart
  <2>1. Ready /\ at <= Len(Elements) /\ UNCHANGED <<stage, failed>>
    BY <1>5 DEF Read, ReadInPart, Ready
  <2>2. PICK kinds \in Seq(Kinds) :
           /\ ReadAs(kinds)
           /\ kinds \in {<<>>, Tells(Name, Elements[at]), Own(Name, Elements[at])}
    BY <1>5, <2>1, ReadKinds
  <2>3. at' > at
    <3>1. at' \in {at + 1, Enclosed}
      BY <2>2 DEF ReadAs
    <3> QED BY <1>1, <2>1, <3>1, OnlyOnwards
  <2>4. stage <= 2
    BY <1>1, <2>1, <2>3
  <2>5. Elements[at] \in Unmarked
    <3>1. Elements \in Seq(Unmarked) /\ at \in 1..Len(Elements)
      BY <1>1, <2>1, <2>4, ElementParts
    <3> QED BY <3>1
  <2>6. \A j \in 1..Len(kinds) : kinds[j] \in {"metadata", "object"}
    <3>1. CASE kinds = <<>>
      BY <3>1
    <3> QED BY <2>2, <2>5, <3>1, UnmarkedTells
  <2>7. offers' = Told(kinds) /\ Tale(Told(kinds), kinds, Len(kinds))
    BY <2>2, ToldIsTale DEF ReadAs
  <2>8. \A i \in 1..Len(offers') : \E j \in 1..Len(kinds) : offers'[i].kind = kinds[j]
    BY Zenon, <2>7 DEF Tale
  <2> QED BY <2>1, <2>4, <2>6, <2>8
<1>6. CASE GiveUp
  BY <1>1, <1>6, OnlyOnwards DEF GiveUp, Ready
<1>7. CASE NoBody \/ Abort
  BY <1>7 DEF NoBody, Abort, place
<1>8. CASE Sweep
  BY <1>1, <1>2, <1>8, BodyIsThird DEF Sweep, Name
<1>9. CASE Offer
  <2>1. Head(offers).kind \notin {"comment", "field"} /\ ~failed /\ UNCHANGED <<stage, at>>
    BY <1>1, <1>9 DEF Offer, place
  <2>2. ~failed'
    BY <1>9, <2>1 DEF Offer, IsMark
  <2>3. offers' = Tail(offers) /\ offers # <<>>
    BY <1>9 DEF Offer
  <2>4. \A i \in 1..Len(offers') : offers'[i] = offers[i + 1] /\ i + 1 \in 1..Len(offers)
    BY <1>1, <2>3
  <2> QED BY <2>1, <2>2, <2>4, <1>9 DEF Offer, place
<1>10. CASE Redacted
  BY <1>10 DEF Redacted, Start, place
<1>11. CASE Done
  BY <1>11 DEF Done, vars
<1> QED BY <1>3, <1>4, <1>5, <1>6, <1>7, <1>8, <1>9, <1>10, <1>11 DEF Next

\* What is known of refusals while the walk goes on: the collector has failed
\* if one was met, and each was of a mark.
Known ==
  /\ failed => \E i \in 1..Len(sent) : ~sent[i].taken
  /\ ~failed /\ result = "none" => \A i \in 1..Len(sent) : sent[i].taken
  /\ result = "none" => \A i \in 1..Len(sent) : sent[i].taken \/ IsMark(sent[i].kind)

\* What is known of refusals survives each step.
LEMMA RefusalStep ==
  ASSUME TypeOK, EarlyIsUnmarked, Known, RefusalReported, [Next]_vars
  PROVE  Known' /\ RefusalReported'
<1>1. /\ stage \in 1..Len(Walk(doc.type)) /\ at \in Nat /\ offers \in Seq(Offered)
      /\ sent \in Seq(Event) /\ doc \in Documents /\ failed \in BOOLEAN
      /\ result \in {"none", "true", "false", "aborted"}
  BY DEF TypeOK
<1>2. doc.type \in {"text", "spreadsheet", "presentation", "drawing"} /\ Len(sent) \in Nat
  BY <1>1, TypedContentAssumption
<1>3. UNCHANGED doc /\ \A kind : IsMark(kind)' = IsMark(kind)
  <2>1. UNCHANGED doc
    BY DEF Next, vars, NextStage, Read, ReadInPart, GiveUp, NoBody, Abort, Sweep, Offer,
           Redacted, Done
  <2> QED BY <2>1 DEF IsMark
<1>4. CASE UNCHANGED <<sent, failed, result>>
  BY <1>3, <1>4 DEF Known, RefusalReported
<1>5. CASE NextStage
  BY <1>1, <1>2, <1>3, <1>5 DEF NextStage, Finish, Known, RefusalReported, place
<1>6. CASE NoBody \/ Abort
  <2>1. CASE NoBody
    <3>1. ~failed
      BY <1>1, <1>2, <2>1, BodyIsThird DEF NoBody, Name, Early, EarlyIsUnmarked
    <3> QED BY <1>2, <1>3, <2>1, <3>1 DEF NoBody, Ready, Reading, Known, RefusalReported
  <2>2. CASE Abort
    BY <1>2, <1>3, <2>2 DEF Abort, Ready, Reading, Known, RefusalReported
  <2> QED BY <1>6, <2>1, <2>2
<1>7. CASE Offer
  <2> DEFINE next == Head(offers)
             silent == failed /\ IsMark(next.kind)
  <2>1. result = "none"
    BY <1>7 DEF Offer, Reading
  <2>2. PICK taken \in BOOLEAN :
          /\ silent => taken
          /\ sent' = IF silent THEN sent
                     ELSE Append(sent, [kind |-> next.kind, item |-> next.item,
                                        index |-> Index(next.kind, next.item), taken |-> taken])
          /\ failed' = (failed \/ (~taken /\ IsMark(next.kind)))
          /\ result' \in {"none", "false"}
          /\ result' = "false" => (~taken /\ ~IsMark(next.kind)) \/ failed'
          /\ result' = "none" => taken \/ IsMark(next.kind)
    <3>1. PICK taken \in BOOLEAN :
          /\ silent => taken
          /\ sent' = IF silent THEN sent
                     ELSE Append(sent, [kind |-> next.kind, item |-> next.item,
                                        index |-> Index(next.kind, next.item), taken |-> taken])
          /\ failed' = (failed \/ (~taken /\ IsMark(next.kind)))
          /\ result' = IF \/ ~taken /\ ~IsMark(next.kind)
                          \/ failed' /\ Len(offers) = 1 /\ Checked(next.item)
                       THEN "false" ELSE "none"
      BY Zenon, <1>7 DEF Offer
    <3> HIDE DEF next
    <3> QED BY <3>1
  <2> HIDE DEF next
  <2>3. CASE silent
    BY <1>2, <1>3, <2>1, <2>2, <2>3 DEF Known, RefusalReported
  <2>4. CASE ~silent
    <3> DEFINE event == [kind |-> next.kind, item |-> next.item,
                         index |-> Index(next.kind, next.item), taken |-> taken]
    <3>1. /\ sent' = Append(sent, event) /\ event.taken = taken /\ event.kind = next.kind
      BY <2>2, <2>4
    <3> HIDE DEF event
    <3>2. /\ Len(sent') = Len(sent) + 1 /\ sent'[Len(sent) + 1] = event
          /\ \A i \in 1..Len(sent) : sent'[i] = sent[i]
      BY <1>1, <3>1
    <3>3. \A i \in 1..Len(sent) : i \in 1..Len(sent') /\ sent'[i] = sent[i]
      BY <1>2, <3>2
    <3>4. Len(sent') \in 1..Len(sent') /\ sent'[Len(sent')] = event
      BY <1>2, <3>2
    <3>5. \A i \in 1..Len(sent') : i = Len(sent') \/ i \in 1..Len(sent)
      BY <1>2, <3>2
    <3>6. failed' => \E i \in 1..Len(sent') : ~sent'[i].taken
      <4>1. CASE failed
        BY <3>3, <4>1 DEF Known
      <4>2. CASE ~failed
        BY <2>2, <3>1, <3>4, <4>2
      <4> QED BY <4>1, <4>2
    <3>7. ~failed' /\ result' = "none" => \A i \in 1..Len(sent') : sent'[i].taken
      BY <2>1, <2>2, <3>1, <3>3, <3>4, <3>5 DEF Known
    <3>8. result' = "none" => \A i \in 1..Len(sent') : sent'[i].taken \/ IsMark(sent'[i].kind)
      BY <2>1, <2>2, <3>1, <3>3, <3>4, <3>5 DEF Known
    <3>9. result' = "false" => \E i \in 1..Len(sent') : ~sent'[i].taken
      BY <2>2, <3>1, <3>4, <3>6
    <3>10. \A i \in 1..(Len(sent') - 1) : sent'[i].taken \/ IsMark(sent'[i].kind)
      BY <1>2, <2>1, <3>2 DEF Known
    <3>11. result' # "true"
      BY <2>2
    <3> QED BY <1>3, <3>6, <3>7, <3>8, <3>9, <3>10, <3>11 DEF Known, RefusalReported
  <2> QED BY <2>3, <2>4
<1>8. CASE Redacted
  <2>1. CASE Passed
    <3>1. sent' = <<>> /\ ~failed' /\ result' = "none"
      BY <1>8, <2>1 DEF Redacted, Start
    <3> QED BY <3>1 DEF Known, RefusalReported
  <2>2. CASE ~Passed
    BY <1>4, <1>8, <2>2 DEF Redacted
  <2> QED BY <2>1, <2>2
<1> QED
  BY <1>4, <1>5, <1>6, <1>7, <1>8
     DEF Next, vars, Read, ReadInPart, GiveUp, Sweep, Done

\* No refusal of emit_fn is lost: of an event or of a mark, in whichever stage.
THEOREM RefusalsReported == Spec => []RefusalReported
<1>1. Init => EarlyIsUnmarked /\ Known /\ RefusalReported
  BY DEF Init, EarlyIsUnmarked, Known, RefusalReported
<1> QED BY <1>1, EarlyStep, RefusalStep, TypeCorrect, PTL DEF Spec

----------------------------------------------------------------------------
(* Numbers *)

\* The counter of a kind says how many events of it were offered, until the
\* collector, having met a refusal, offers its marks no more.
OfKindTo(n, kind) == {j \in 1..n : sent[j].kind = kind}
CountsSent ==
  \A kind \in Kinds :
    Counted(kind) /\ ~(failed /\ IsMark(kind))
      => count[kind] = Cardinality(OfKindTo(Len(sent), kind))

\* Each event takes the next number of its kind, and the counter follows.
LEMMA NumberStep ==
  ASSUME TypeOK, CountsSent, NumberedInOrder, [Next]_vars
  PROVE  CountsSent' /\ NumberedInOrder'
<1>1. /\ offers \in Seq(Offered) /\ sent \in Seq(Event) /\ failed \in BOOLEAN
      /\ count \in [Kinds -> Nat]
  BY DEF TypeOK
<1>2. UNCHANGED doc /\ (\A kind : IsMark(kind)' = IsMark(kind))
      /\ \A kind : Counted(kind)' = Counted(kind)
  <2>1. UNCHANGED doc
    BY DEF Next, vars, NextStage, Read, ReadInPart, GiveUp, NoBody, Abort, Sweep, Offer,
           Redacted, Done
  <2> QED BY <2>1 DEF IsMark, Counted
<1>3. CASE UNCHANGED <<sent, failed, count>>
  BY <1>2, <1>3 DEF CountsSent, NumberedInOrder, OfKindTo
<1>4. CASE Offer
  <2> DEFINE next == Head(offers)
             silent == failed /\ IsMark(next.kind)
             index == Index(next.kind, next.item)
  <2>1. PICK taken \in BOOLEAN :
          /\ sent' = IF silent THEN sent
                     ELSE Append(sent, [kind |-> next.kind, item |-> next.item,
                                        index |-> index, taken |-> taken])
          /\ failed' = (failed \/ (~taken /\ IsMark(next.kind)))
    BY Zenon, <1>4 DEF Offer
  <2>2. next \in Offered /\ next.kind \in Kinds
    <3>1. next \in Offered
      BY <1>1, <1>4 DEF Offer
    <3> QED BY <3>1 DEF Offered
  <2>3. count' = [count EXCEPT ![next.kind] = @ + 1]
    BY <1>4 DEF Offer
  <2>4. Counted(next.kind) => index = count[next.kind]
    BY DEF Index
  <2> HIDE DEF next, index
  <2>5. CASE silent
    <3>1. sent' = sent /\ failed' = failed /\ failed
      BY <2>1, <2>5
    <3>2. ASSUME NEW kind \in Kinds, Counted(kind), ~IsMark(kind)
          PROVE  count'[kind] = count[kind]
      BY <1>1, <2>2, <2>3, <2>5, <3>2
    <3> QED BY <1>2, <3>1, <3>2 DEF CountsSent, NumberedInOrder, OfKindTo
  <2>6. CASE ~silent
    <3> DEFINE event == [kind |-> next.kind, item |-> next.item,
                         index |-> index, taken |-> taken]
    <3>0. PICK n \in Nat : n = Len(sent)
      BY <1>1
    <3>1. sent' = Append(sent, event) /\ event.kind = next.kind /\ event.index = index
      BY <2>1, <2>6
    <3> HIDE DEF event
    <3>2. /\ Len(sent') = n + 1 /\ n \in Nat /\ sent'[n + 1] = event
          /\ \A i \in 1..n : sent'[i] = sent[i]
      BY <1>1, <3>0, <3>1
    <3>3. ASSUME NEW m \in 0..n, NEW kind PROVE OfKindTo(m, kind)' = OfKindTo(m, kind)
      BY <3>2 DEF OfKindTo
    <3>4. ASSUME NEW kind
          PROVE  /\ Cardinality(OfKindTo(n, kind)) \in Nat
                 /\ Cardinality(OfKindTo(n + 1, kind)') =
                      Cardinality(OfKindTo(n, kind)) + (IF kind = next.kind THEN 1 ELSE 0)
      <4>1. IsFiniteSet(OfKindTo(n, kind)) /\ n + 1 \notin OfKindTo(n, kind)
        <5>1. IsFiniteSet(1..n) /\ OfKindTo(n, kind) \subseteq 1..n
          BY <3>2, FS_Interval DEF OfKindTo
        <5> QED BY <3>2, <5>1, FS_Subset
      <4>2. OfKindTo(n + 1, kind)' =
              IF kind = next.kind THEN OfKindTo(n, kind) \cup {n + 1} ELSE OfKindTo(n, kind)
        <5>1. sent'[n + 1].kind = next.kind
          BY <3>1, <3>2
        <5>2. 1..(n + 1) = 1..n \cup {n + 1}
          BY <3>2
        <5> QED BY <3>2, <5>1, <5>2 DEF OfKindTo
      <4>3. Cardinality(OfKindTo(n, kind)) \in Nat
        BY <4>1, FS_CardinalityType
      <4>4. CASE kind = next.kind
        BY <4>1, <4>2, <4>3, <4>4, FS_AddElement
      <4>5. CASE kind # next.kind
        BY <4>2, <4>3, <4>5
      <4> QED BY <4>4, <4>5
    <3>5. CountsSent'
      <4> SUFFICES ASSUME NEW kind \in Kinds, Counted(kind), ~(failed' /\ IsMark(kind))
                   PROVE  count'[kind] = Cardinality(OfKindTo(Len(sent), kind)')
        BY <1>2 DEF CountsSent
      <4>1. count[kind] = Cardinality(OfKindTo(n, kind))
        BY <1>1, <2>1, <3>0 DEF CountsSent
      <4>2. count'[kind] = count[kind] + (IF kind = next.kind THEN 1 ELSE 0)
        BY <1>1, <2>2, <2>3
      <4>3. OfKindTo(Len(sent), kind)' = OfKindTo(n + 1, kind)'
        BY <3>2 DEF OfKindTo
      <4> QED BY <3>4, <4>1, <4>2, <4>3
    <3>6. NumberedInOrder'
      <4> SUFFICES ASSUME NEW i \in 1..(n + 1), Counted(sent'[i].kind)
                   PROVE  sent'[i].index = Cardinality(OfKindTo(i - 1, sent[i].kind)')
        BY <1>2, <3>2 DEF NumberedInOrder, OfKindTo
      <4>1. CASE i \in 1..n
        <5>1. sent'[i] = sent[i] /\ i - 1 \in 0..n
          BY <3>2, <4>1
        <5>2. sent[i].index = Cardinality(OfKindTo(i - 1, sent[i].kind))
          BY <3>0, <4>1, <5>1 DEF NumberedInOrder, OfKindTo
        <5>3. OfKindTo(i - 1, sent[i].kind)' = OfKindTo(i - 1, sent[i].kind)
          BY <3>3, <5>1 DEF OfKindTo
        <5> QED BY <5>1, <5>2, <5>3
      <4>2. CASE i = n + 1
        <5>1. sent'[i] = event /\ i - 1 = n
          BY <3>2, <4>2
        <5>2. sent'[i].index = count[next.kind]
          BY <2>4, <3>1, <5>1
        <5>3. count[next.kind] = Cardinality(OfKindTo(n, next.kind))
          BY <2>2, <2>6, <3>0, <3>1, <5>1 DEF CountsSent
        <5>4. OfKindTo(i - 1, sent[i].kind)' = OfKindTo(n, next.kind)
          BY <3>1, <3>2, <5>1 DEF OfKindTo
        <5> QED BY <5>2, <5>3, <5>4
      <4> QED BY <3>2, <4>1, <4>2
    <3> QED BY <3>5, <3>6
  <2> QED BY <2>5, <2>6
<1>5. CASE Redacted
  <2>1. CASE Passed
    <3>1. sent' = <<>> /\ count' = [kind \in Kinds |-> 0]
      BY <1>5, <2>1 DEF Redacted, Start
    <3>2. \A kind : OfKindTo(Len(sent), kind)' = {}
      BY <3>1 DEF OfKindTo
    <3>3. CountsSent'
      BY <3>1, <3>2, FS_EmptySet DEF CountsSent
    <3>4. NumberedInOrder'
      BY <3>1 DEF NumberedInOrder
    <3> QED BY <3>3, <3>4
  <2>2. CASE ~Passed
    BY <1>3, <1>5, <2>2 DEF Redacted
  <2> QED BY <2>1, <2>2
<1> QED
  BY <1>3, <1>4, <1>5
     DEF Next, vars, NextStage, Read, ReadInPart, GiveUp, NoBody, Abort, Sweep, Done

\* Every index space has no gap and gives no number twice, whatever is
\* selected, fails or is refused.
THEOREM NumbersInOrder == Spec => []NumberedInOrder
<1>1. Init => CountsSent /\ NumberedInOrder
  <2> SUFFICES ASSUME Init PROVE CountsSent /\ NumberedInOrder
    OBVIOUS
  <2>1. sent = <<>> /\ count = [kind \in Kinds |-> 0]
    BY DEF Init
  <2>2. \A kind : OfKindTo(Len(sent), kind) = {}
    BY <2>1 DEF OfKindTo
  <2> QED BY <2>1, <2>2, FS_EmptySet DEF CountsSent, NumberedInOrder
<1> QED BY <1>1, NumberStep, TypeCorrect, PTL DEF Spec

----------------------------------------------------------------------------
(* The scan and the walk that sends *)

\* What an element tells when every part is selected.
Tellable(s, i) ==
  LET e == doc.of[s][i]
  IN  IF s # "finish" /\ (s = "body" \/ Own(s, e) # <<>>)
      THEN {Tells(s, e)[j] : j \in 1..Len(Tells(s, e))} ELSE {}

\* What was offered to emit_fn, and what is about to be.
Gone == {<<sent[i].kind, sent[i].item>> : i \in 1..Len(sent)}
Waiting == {<<offers[i].kind, offers[i].item>> : i \in 1..Len(offers)}
Out == Gone \cup Waiting

\* A scan that has met no failure and no refusal has told all that lies
\* behind it, and after the sweep every comment; it is passed at its end only.
Unharmed == warnings = 0 /\ ~failed /\ result \in {"none", "true"}
Behind(t, i) == t < stage \/ (t = stage /\ i < at)
ScanTellsAll ==
  pass = "scan" =>
    /\ parts = Kinds /\ doc.type = "text"
    /\ Unharmed =>
         /\ \A t \in 1..Len(Walk(doc.type)) :
              \A i \in 1..Len(doc.of[Walk(doc.type)[t]]) :
                Behind(t, i) =>
                  \A kind \in Tellable(Walk(doc.type)[t], i) :
                    <<kind, <<Walk(doc.type)[t], i>>>> \in Out
         /\ \A c \in seen : <<"comment", c>> \in Out
         /\ Name = "finish" /\ at > 1 => \A c \in Commented : <<"comment", c>> \in Out
    /\ Passed => /\ ~failed /\ offers = <<>>
                 /\ stage = Len(Walk(doc.type)) /\ at > Len(Elements)

\* After a redaction, all that an element can tell was shown.
AllShown ==
  pass = "redacted" =>
    /\ \A s \in DOMAIN doc.of : \A i \in 1..Len(doc.of[s]) : \A kind \in Tellable(s, i) :
         <<kind, <<s, i>>>> \in shown
    /\ \A c \in Commented : <<"comment", c>> \in shown
    /\ Out \subseteq shown

\* The first event that waits goes; nothing else comes or goes.
LEMMA OfferMoves ==
  ASSUME TypeOK, Offer
  PROVE  /\ Out' \subseteq Out
         /\ ~(failed /\ IsMark(Head(offers).kind)) => Out \subseteq Out'
<1> DEFINE next == Head(offers)
           silent == failed /\ IsMark(next.kind)
           pair == <<next.kind, next.item>>
<1>1. offers \in Seq(Offered) /\ offers # <<>> /\ sent \in Seq(Event) /\ offers' = Tail(offers)
  BY DEF TypeOK, Offer
<1>2. PICK event : /\ sent' = IF silent THEN sent ELSE Append(sent, event)
                   /\ event.kind = next.kind /\ event.item = next.item
  <2>1. PICK taken \in BOOLEAN :
          sent' = IF silent THEN sent
                  ELSE Append(sent, [kind |-> next.kind, item |-> next.item,
                                     index |-> Index(next.kind, next.item), taken |-> taken])
    BY Zenon DEF Offer
  <2> DEFINE event == [kind |-> next.kind, item |-> next.item,
                       index |-> Index(next.kind, next.item), taken |-> taken]
  <2>2. event.kind = next.kind /\ event.item = next.item
    OBVIOUS
  <2>3. sent' = IF silent THEN sent ELSE Append(sent, event)
    BY <2>1
  <2> HIDE DEF event
  <2> QED BY Zenon, <2>2, <2>3
<1>3. Waiting = Waiting' \cup {pair}
  <2>1. /\ Len(offers) \in Nat /\ Len(offers') = Len(offers) - 1 /\ next = offers[1]
        /\ \A i \in 1..Len(offers') : offers'[i] = offers[i + 1]
    BY <1>1
  <2> HIDE DEF next
  <2>2. \A i \in 1..Len(offers) : i = 1 \/ (i - 1 \in 1..Len(offers') /\ (i - 1) + 1 = i)
    BY <2>1
  <2>3. \A i \in 1..Len(offers) : i = 1 \/ (i - 1 \in 1..Len(offers') /\ offers[i] = offers'[i - 1])
    BY <2>1, <2>2
  <2>4. 1 \in 1..Len(offers) /\ \A i \in 1..Len(offers') : i + 1 \in 1..Len(offers)
    BY <1>1, <2>1
  <2>5. pair = <<offers[1].kind, offers[1].item>>
    BY <2>1
  <2> HIDE DEF pair
  <2>6. ASSUME NEW i \in 1..Len(offers)
        PROVE  <<offers[i].kind, offers[i].item>> \in Waiting' \cup {pair}
    BY <2>3, <2>5 DEF Waiting
  <2>7. ASSUME NEW i \in 1..Len(offers')
        PROVE  <<offers'[i].kind, offers'[i].item>> \in Waiting
    BY <2>1, <2>4 DEF Waiting
  <2>8. pair \in Waiting
    BY <2>4, <2>5 DEF Waiting
  <2>9. Waiting \subseteq Waiting' \cup {pair}
    BY <2>6 DEF Waiting
  <2>10. Waiting' \subseteq Waiting
    BY <2>7 DEF Waiting
  <2> QED BY <2>8, <2>9, <2>10
<1>4. CASE silent
  <2>1. Gone' = Gone
    BY <1>2, <1>4 DEF Gone
  <2> HIDE DEF pair, next
  <2> QED BY <1>3, <1>4, <2>1 DEF Out, next
<1>5. CASE ~silent
  <2>1. Gone' = Gone \cup {pair}
    <3>1. sent' = Append(sent, event)
      BY <1>2, <1>5
    <3>2. /\ Len(sent) \in Nat /\ Len(sent') = Len(sent) + 1 /\ sent'[Len(sent) + 1] = event
          /\ \A i \in 1..Len(sent) : sent'[i] = sent[i]
      BY <1>1, <3>1
    <3>3. 1..Len(sent') = 1..Len(sent) \cup {Len(sent) + 1}
      BY <3>2
    <3>4. pair = <<event.kind, event.item>>
      BY <1>2
    <3> HIDE DEF pair
    <3> QED BY <3>2, <3>3, <3>4 DEF Gone
  <2> HIDE DEF pair
  <2> QED BY <1>3, <2>1 DEF Out
<1> QED BY <1>4, <1>5

\* An element that is read tells nothing but what is tellable of it.
LEMMA ReadTellable ==
  ASSUME TypeOK, Read \/ ReadInPart
  PROVE  \A p \in Waiting' : \E kind \in Tellable(Name, at) : p = <<kind, <<Name, at>>>>
<1>1. Ready /\ at <= Len(Elements) /\ Name # "finish"
  BY DEF Read, ReadInPart, Ready
<1> DEFINE e == Elements[at]
<1>2. PICK kinds \in Seq(Kinds) :
         /\ ReadAs(kinds)
         /\ kinds \in {<<>>, Tells(Name, e), Own(Name, e)}
         /\ kinds # <<>> => IsRead(Name, e)
  BY <1>1, ReadKinds
<1>3. offers' = Told(kinds) /\ Tale(Told(kinds), kinds, Len(kinds))
  BY <1>2, ToldIsTale DEF ReadAs
<1> SUFFICES ASSUME NEW n \in 1..Len(offers')
             PROVE  /\ offers'[n].kind \in Tellable(Name, at)
                    /\ offers'[n].item = <<Name, at>>
  BY DEF Waiting
<1>4. offers'[n].item = <<Name, at>>
  <2> DEFINE These == [kind : Kinds \cap parts, item : {Item}]
  <2>1. offers' \in Seq(These)
    BY <1>3 DEF Tale
  <2> HIDE DEF These
  <2>2. offers'[n] \in These
    BY <2>1
  <2> QED BY <2>2 DEF These, Item
<1>5. PICK j \in 1..Len(kinds) : offers'[n].kind = kinds[j]
  BY <1>3 DEF Tale
<1>6. kinds # <<>>
  BY <1>5
<1>7. e \in AnyElement /\ Own(Name, e) \in Seq(Kinds) /\ Marks(Name, e) \in Seq(Kinds)
  BY <1>1, ItemIsPlace, OwnKinds
<1> HIDE DEF e
<1>8. Name = "body" \/ Own(Name, e) # <<>>
  BY <1>2, <1>6, <1>7 DEF IsRead
<1>9. \E k \in 1..Len(Tells(Name, e)) : kinds[j] = Tells(Name, e)[k]
  <2>1. CASE kinds = Tells(Name, e)
    BY <2>1
  <2>2. CASE kinds = Own(Name, e)
    <3> DEFINE own == Own(Name, e)
               marks == Marks(Name, e)
    <3>1. /\ own \in Seq(Kinds) /\ marks \in Seq(Kinds) /\ kinds = own
          /\ Tells(Name, e) \in {own \o marks, marks \o own}
      BY <1>7, <2>2 DEF Tells
    <3> HIDE DEF own, marks
    <3>2. j \in 1..Len(own \o marks) /\ (own \o marks)[j] = kinds[j]
      BY <3>1
    <3>3. Len(marks) + j \in 1..Len(marks \o own) /\ (marks \o own)[Len(marks) + j] = kinds[j]
      BY <3>1
    <3> QED BY <3>1, <3>2, <3>3
  <2> QED BY <1>2, <1>6, <2>1, <2>2
<1>10. doc.of[Name][at] = e
  BY DEF Elements, e
<1>11. offers'[n].kind \in Tellable(Name, at)
  BY <1>1, <1>5, <1>8, <1>9, <1>10 DEF Tellable
<1> QED BY <1>4, <1>11

\* The walk that sends offers only what a passed scan has shown.
LEMMA UnshownStep ==
  ASSUME TypeOK, AllShown, ScanTellsAll, [Next]_vars PROVE AllShown'
<1> SUFFICES ASSUME pass' = "redacted"
             PROVE  /\ \A s \in DOMAIN doc'.of : \A i \in 1..Len(doc'.of[s]) :
                         \A kind \in Tellable(s, i)' : <<kind, <<s, i>>>> \in shown'
                    /\ \A c \in Commented' : <<"comment", c>> \in shown'
                    /\ Out' \subseteq shown'
  BY DEF AllShown
<1>1. UNCHANGED doc /\ Commented' = Commented /\ \A s, i : Tellable(s, i)' = Tellable(s, i)
  <2>1. UNCHANGED doc
    BY DEF Next, vars, NextStage, Read, ReadInPart, GiveUp, NoBody, Abort, Sweep, Offer,
           Redacted, Done
  <2> QED BY <2>1 DEF Commented, Tellable
<1>2. ASSUME pass = "redacted", UNCHANGED shown, Out' \subseteq shown
      PROVE  /\ \A s \in DOMAIN doc'.of : \A i \in 1..Len(doc'.of[s]) :
                  \A kind \in Tellable(s, i)' : <<kind, <<s, i>>>> \in shown'
             /\ \A c \in Commented' : <<"comment", c>> \in shown'
             /\ Out' \subseteq shown'
  BY <1>1, <1>2 DEF AllShown
<1>3. ASSUME pass = "redacted" PROVE Out \subseteq shown
  BY <1>3 DEF AllShown
<1>4. CASE Redacted
  <2>1. Passed /\ pass = "scan"
    BY <1>4 DEF Redacted
  <2>2. PICK wanted : Start("redacted", wanted)
    BY <1>4, <2>1 DEF Redacted
  <2>3. /\ ~failed /\ offers = <<>> /\ doc.type = "text"
        /\ stage = Len(Walk(doc.type)) /\ at > Len(Elements)
    BY <2>1 DEF ScanTellsAll
  <2>4. Unharmed
    BY <2>1, <2>3 DEF Unharmed, Passed
  <2>5. shown' = Gone /\ Out = Gone
    BY <1>4, <2>1, <2>3 DEF Redacted, Gone, Out, Waiting
  <2>6. Out' = {}
    BY <2>2 DEF Start, Out, Gone, Waiting
  <2>7. doc \in Documents
    BY DEF TypeOK
  <2>8. ASSUME NEW s \in DOMAIN doc.of, NEW i \in 1..Len(doc.of[s]), NEW kind \in Tellable(s, i)
        PROVE  <<kind, <<s, i>>>> \in Out
    <3>1. DOMAIN doc.of = Stages(doc.type) /\ Len(doc.of[s]) \in Nat
      BY <2>7, TypedContentAssumption
    <3>2. PICK t \in 1..Len(Walk(doc.type)) : s = Walk(doc.type)[t]
      BY <3>1 DEF Stages
    <3>3. Behind(t, i)
      <4>1. CASE t = stage
        <5>1. s = Name
          BY <3>2, <4>1 DEF Name
        <5>2. i < at
          BY <2>3, <5>1 DEF Elements, TypeOK
        <5> QED BY <4>1, <5>2 DEF Behind
      <4>2. CASE t # stage
        BY <2>3, <3>2, <4>2, TextWalk DEF Behind
      <4> QED BY <4>1, <4>2
    <3> QED BY <2>1, <2>4, <3>2, <3>3 DEF ScanTellsAll
  <2>9. ASSUME NEW c \in Commented PROVE <<"comment", c>> \in Out
    <3>1. Name = "finish"
      BY <2>3, TextWalk DEF Name
    <3>2. Len(Elements) = 1
      BY <2>3, <2>7, <3>1, TypedContentAssumption DEF Elements
    <3>3. at > 1
      BY <2>3, <3>2
    <3> QED BY <2>1, <2>4, <3>1, <3>3 DEF ScanTellsAll
  <2> QED BY <1>1, <2>5, <2>6, <2>8, <2>9
<1>5. CASE UNCHANGED <<pass, offers, sent, shown>>
  <2>1. Out' = Out
    BY <1>5 DEF Out, Gone, Waiting
  <2> QED BY <1>2, <1>3, <1>5, <2>1
<1>6. CASE Read \/ ReadInPart
  <2>1. /\ UNCHANGED <<pass, sent, shown>> /\ pass = "redacted"
        /\ Name \in DOMAIN doc.of /\ at \in 1..Len(doc.of[Name])
    <3>1. UNCHANGED <<pass, sent, shown>> /\ at <= Len(Elements)
      BY <1>6 DEF Read, ReadInPart, Ready
    <3>2. at \in Nat \ {0}
      BY DEF TypeOK
    <3> QED BY <3>1, <3>2, ElementParts DEF Elements
  <2>2. Waiting' \subseteq shown
    <3>1. \A kind \in Tellable(Name, at) : <<kind, <<Name, at>>>> \in shown
      BY <2>1 DEF AllShown
    <3> QED BY <1>6, <3>1, ReadTellable
  <2>3. Gone' = Gone
    BY <2>1 DEF Gone
  <2> QED BY <1>2, <1>3, <2>1, <2>2, <2>3 DEF Out
<1>7. CASE Sweep
  <2>1. UNCHANGED <<pass, sent, shown>>
    BY <1>7 DEF Sweep
  <2> DEFINE rest == IF "comment" \in parts THEN Commented \ seen ELSE {}
             size == Cardinality(rest)
  <2>2. PICK order \in [1..size -> rest] :
          offers' = [i \in 1..Len(order) |-> [kind |-> "comment", item |-> order[i]]]
    BY <1>7 DEF Sweep
  <2>3. size \in Nat
    <3>1. IsFiniteSet(rest)
      BY CommentsFinite, FS_Difference, FS_EmptySet
    <3> HIDE DEF rest
    <3> QED BY <3>1, FS_CardinalityType
  <2>4. rest \subseteq Commented
    OBVIOUS
  <2> HIDE DEF size, rest
  <2>5. Len(order) = size /\ Len(offers') = size /\ \A i \in 1..size : order[i] \in Commented
    BY <2>2, <2>3, <2>4
  <2>6. \A i \in 1..Len(offers') : offers'[i].kind = "comment" /\ offers'[i].item \in Commented
    BY <2>2, <2>5
  <2>7. Waiting' \subseteq shown
    BY <2>1, <2>6 DEF Waiting, AllShown
  <2>8. Gone' = Gone
    BY <2>1 DEF Gone
  <2> QED BY <1>2, <1>3, <2>1, <2>7, <2>8 DEF Out
<1>8. CASE Offer
  <2>1. UNCHANGED <<pass, shown>>
    BY <1>8 DEF Offer
  <2> QED BY <1>2, <1>3, <1>8, <2>1, OfferMoves
<1> QED
  BY <1>4, <1>5, <1>6, <1>7, <1>8
     DEF Next, vars, NextStage, GiveUp, NoBody, Abort, Done

\* In a scan, where every part is selected, an element that is read tells all
\* that is tellable of it.
LEMMA ScanReads ==
  ASSUME TypeOK, parts = Kinds, Read
  PROVE  /\ \A kind \in Tellable(Name, at) : <<kind, <<Name, at>>>> \in Waiting'
         /\ \A c \in seen' \ seen : <<"comment", c>> \in Waiting'
<1>1. Ready /\ at <= Len(Elements)
  BY DEF Read, Ready
<1> DEFINE e == Elements[at]
           tells == Tells(Name, e)
           kinds == IF IsRead(Name, e) THEN tells ELSE <<>>
<1>2. ReadAs(kinds) /\ doc.of[Name][at] = e
  BY DEF Read, Elements
<1>3. e \in AnyElement /\ tells \in Seq(Kinds) /\ Own(Name, e) \in Seq(Kinds)
      /\ Marks(Name, e) \in Seq(Kinds) /\ <<>> \in Seq(Kinds)
  BY <1>1, ItemIsPlace, OwnKinds
<1>4. kinds \in Seq(Kinds)
  BY <1>3
<1>5. offers' = Told(kinds) /\ Tale(Told(kinds), kinds, Len(kinds))
  <2> HIDE DEF kinds
  <2> QED BY <1>2, <1>4, ToldIsTale DEF ReadAs
<1>6. \A n \in 1..Len(offers') : offers'[n].item = Item
  <2> DEFINE These == [kind : Kinds \cap parts, item : {Item}]
  <2>1. offers' \in Seq(These)
    <3> HIDE DEF kinds
    <3> QED BY <1>5 DEF Tale
  <2> HIDE DEF These
  <2>2. \A n \in 1..Len(offers') : offers'[n] \in These
    BY <2>1
  <2> QED BY <2>2 DEF These
<1>7. ASSUME NEW j \in 1..Len(kinds) PROVE <<kinds[j], Item>> \in Waiting'
  <2> HIDE DEF kinds
  <2>1. kinds[j] \in parts
    BY <1>4
  <2>2. PICK n \in 1..Len(offers') : offers'[n].kind = kinds[j]
    BY <1>5, <2>1 DEF Tale
  <2> QED BY <1>6, <2>2 DEF Waiting
<1>8. ASSUME NEW kind \in Tellable(Name, at) PROVE <<kind, <<Name, at>>>> \in Waiting'
  <2> HIDE DEF e, kinds
  <2>1. /\ Name = "body" \/ Own(Name, e) # <<>>
        /\ \E j \in 1..Len(tells) : kind = tells[j]
    BY <1>2 DEF Tellable
  <2>2. IsRead(Name, e)
    <3>1. CASE Own(Name, e) # <<>>
      <4> DEFINE own == Own(Name, e)
      <4>1. own \in Seq(Kinds) /\ own # <<>>
        BY <1>3, <3>1
      <4> HIDE DEF own
      <4>2. 1 \in 1..Len(own) /\ own[1] \in parts
        BY <4>1
      <4> QED BY <4>2 DEF IsRead, own
    <3> QED BY <2>1, <3>1 DEF IsRead
  <2>3. kinds = tells
    BY <2>2 DEF kinds
  <2>4. PICK j \in 1..Len(kinds) : kind = kinds[j]
    BY <2>1, <2>3
  <2> QED BY <1>7, <2>4 DEF Item
<1>9. ASSUME NEW c \in seen' \ seen PROVE <<"comment", c>> \in Waiting'
  <2> HIDE DEF kinds
  <2>1. kinds = tells /\ Marks(Name, e) = <<"comment">> /\ c = Item
    BY <1>2, <1>9 DEF ReadAs
  <2>2. \E j \in 1..Len(tells) : tells[j] = "comment"
    <3> DEFINE own == Own(Name, e)
               marks == Marks(Name, e)
    <3>1. own \in Seq(Kinds) /\ marks = <<"comment">> /\ tells \in {own \o marks, marks \o own}
      BY <1>3, <2>1 DEF Tells
    <3> HIDE DEF own, marks, tells
    <3>2. Len(own) + 1 \in 1..Len(own \o marks) /\ (own \o marks)[Len(own) + 1] = "comment"
      BY <3>1
    <3>3. 1 \in 1..Len(marks \o own) /\ (marks \o own)[1] = "comment"
      BY <3>1
    <3> QED BY <3>1, <3>2, <3>3
  <2> HIDE DEF tells
  <2> QED BY <1>7, <2>1, <2>2
<1> QED BY <1>8, <1>9

\* The scan leaves nothing behind it untold, unless it warns or fails.
LEMMA ScanStep == ASSUME TypeOK, ScanTellsAll, [Next]_vars PROVE ScanTellsAll'
<1> DEFINE Names == Walk(doc.type)
           TellsBehind ==
             \A t \in 1..Len(Names) : \A i \in 1..Len(doc.of[Names[t]]) :
               Behind(t, i) =>
                 \A kind \in Tellable(Names[t], i) : <<kind, <<Names[t], i>>>> \in Out
           TellsSeen == \A c \in seen : <<"comment", c>> \in Out
           TellsSwept ==
             Name = "finish" /\ at > 1 => \A c \in Commented : <<"comment", c>> \in Out
           Over == Passed => /\ ~failed /\ offers = <<>>
                             /\ stage = Len(Names) /\ at > Len(Elements)
<1>1. UNCHANGED doc /\ Commented' = Commented /\ \A s, i : Tellable(s, i)' = Tellable(s, i)
  <2>1. UNCHANGED doc
    BY DEF Next, vars, NextStage, Read, ReadInPart, GiveUp, NoBody, Abort, Sweep, Offer,
           Redacted, Done
  <2> QED BY <2>1 DEF Commented, Tellable
<1>2. CASE pass' # "scan"
  BY <1>2 DEF ScanTellsAll
<1>3. CASE pass' = "scan"
  <2>1. pass = "scan" /\ UNCHANGED parts
    BY <1>3 DEF Next, vars, NextStage, Read, ReadInPart, GiveUp, NoBody, Abort, Sweep, Offer,
                Redacted, Done, Start
  <2>2. /\ parts = Kinds /\ doc.type = "text"
        /\ Unharmed => TellsBehind /\ TellsSeen /\ TellsSwept
        /\ Over
    BY <2>1 DEF ScanTellsAll
  <2>3. SUFFICES /\ Unharmed' => TellsBehind' /\ TellsSeen' /\ TellsSwept'
                 /\ Over'
    BY <1>1, <2>1, <2>2 DEF ScanTellsAll
  <2>4. /\ stage \in 1..Len(Names) /\ at \in Nat \ {0} /\ warnings \in Nat
        /\ failed \in BOOLEAN /\ Len(Elements) \in Nat /\ Len(Names) = 10
        /\ Names' = Names
    BY <1>1, <2>2, ElementParts, TextWalk DEF TypeOK
  <2>5. ASSUME warnings' > 0 PROVE ~Unharmed' /\ Over'
    BY <2>5 DEF Unharmed, Passed
  <2>6. ASSUME Out \subseteq Out', UNCHANGED <<stage, at, seen>>
        PROVE  TellsBehind /\ TellsSeen /\ TellsSwept => TellsBehind' /\ TellsSeen' /\ TellsSwept'
    BY <1>1, <2>6 DEF Behind, Name
  <2>7. CASE UNCHANGED vars
    <3>1. Out' = Out /\ Unharmed' = Unharmed /\ Over' = Over
      BY <2>4, <2>7 DEF vars, Out, Gone, Waiting, Unharmed, Passed, Elements, Name
    <3> HIDE DEF TellsBehind, TellsSeen, TellsSwept, Over
    <3> QED BY <2>2, <2>6, <2>7, <3>1 DEF vars
  <2>8. CASE NextStage
    <3>1. /\ result = "none" /\ offers = <<>> /\ at > Len(Elements)
          /\ UNCHANGED <<offers, sent, seen, failed, warnings>>
      <4>1. Visited(stage)
        BY <2>2, <2>4, TextWalk DEF Visited
      <4> QED BY <2>4, <2>8, <4>1 DEF NextStage
    <3>2. Out' = Out
      BY <3>1 DEF Out, Gone, Waiting
    <3>3. CASE stage < Len(Names)
      <4>1. stage' = stage + 1 /\ at' = 1 /\ result' = "none"
        BY <2>8, <3>1, <3>3 DEF NextStage
      <4>2. Over'
        BY <4>1 DEF Passed
      <4>3. SUFFICES ASSUME Unharmed' PROVE TellsBehind' /\ TellsSeen' /\ TellsSwept'
        BY <4>2
      <4>4. TellsBehind /\ TellsSeen
        BY <2>2, <3>1, <4>3 DEF Unharmed
      <4>5. ASSUME NEW t \in 1..Len(Names), NEW i \in 1..Len(doc.of[Names[t]]), Behind(t, i)'
            PROVE  Behind(t, i)
        <5>1. t < stage + 1
          BY <2>4, <4>1, <4>5 DEF Behind
        <5>2. CASE t = stage
          <6>1. Names[t] = Name
            BY <5>2 DEF Name
          <6>2. i < at
            BY <2>4, <3>1, <6>1 DEF Elements
          <6> QED BY <5>2, <6>2 DEF Behind
        <5> QED BY <2>4, <5>1, <5>2 DEF Behind
      <4>6. TellsBehind'
        BY <1>1, <2>4, <3>2, <4>4, <4>5
      <4>7. TellsSeen' /\ TellsSwept'
        BY <3>1, <3>2, <4>1, <4>4
      <4> QED BY <4>6, <4>7
    <3>4. CASE ~(stage < Len(Names))
      <4>1. UNCHANGED <<stage, at>> /\ stage = Len(Names) /\ result' = Finish
        BY <2>4, <2>8, <3>4 DEF NextStage, place
      <4>2. result' = "true" => ~failed'
        BY <3>1, <4>1 DEF Finish
      <4>3. Elements' = Elements
        BY <1>1, <4>1 DEF Elements, Name
      <4>4. Over'
        BY <2>4, <3>1, <4>1, <4>2, <4>3 DEF Passed
      <4>5. Unharmed' => Unharmed
        BY <3>1 DEF Unharmed
      <4> HIDE DEF TellsBehind, TellsSeen, TellsSwept, Over
      <4> QED BY <2>2, <2>6, <3>1, <3>2, <4>1, <4>4, <4>5
    <3> QED BY <3>3, <3>4
  <2>9. CASE Read
    <3>1. /\ Ready /\ at <= Len(Elements) /\ result = "none" /\ Name # "finish"
          /\ UNCHANGED <<stage, sent, failed, result>>
      BY <2>9 DEF Read, Ready, Reading
    <3>2. Over'
      BY <3>1 DEF Passed
    <3>3. SUFFICES ASSUME Unharmed' PROVE TellsBehind' /\ TellsSeen' /\ TellsSwept'
      BY <3>2
    <3>4. warnings' = 0
      BY <3>3 DEF Unharmed
    <3>5. warnings = 0 /\ at' = at + 1
      <4>1. warnings' = IF Elements[at].is = "odd" \/ TooDeep(Elements[at])
                        THEN warnings + 1 ELSE warnings
        BY <2>9 DEF Read
      <4>2. ~TooDeep(Elements[at]) /\ warnings = 0
        BY <2>4, <3>4, <4>1
      <4> QED BY <2>9, <4>2 DEF Read, ReadAs, Entered
    <3>6. TellsBehind /\ TellsSeen
      BY <2>2, <3>1, <3>3, <3>5 DEF Unharmed
    <3>7. Out \subseteq Out'
      <4>1. Waiting = {} /\ Gone' = Gone
        BY <3>1 DEF Waiting, Gone, Ready
      <4> QED BY <4>1 DEF Out
    <3>8. /\ \A kind \in Tellable(Name, at) : <<kind, <<Name, at>>>> \in Out'
          /\ \A c \in seen' \ seen : <<"comment", c>> \in Out'
      BY <2>2, <2>9, ScanReads DEF Out
    <3>9. TellsBehind'
      <4> SUFFICES ASSUME NEW t \in 1..Len(Names), NEW i \in 1..Len(doc.of[Names[t]]),
                          Behind(t, i)', NEW kind \in Tellable(Names[t], i)
                   PROVE  <<kind, <<Names[t], i>>>> \in Out'
        BY <1>1, <2>4
      <4>1. CASE Behind(t, i)
        BY <3>6, <3>7, <4>1
      <4>2. CASE ~Behind(t, i)
        <5>1. t = stage /\ i = at
          BY <2>4, <3>1, <3>5, <4>2 DEF Behind
        <5>2. Names[t] = Name
          BY <5>1 DEF Name
        <5> QED BY <3>8, <5>1, <5>2
      <4> QED BY <4>1, <4>2
    <3>10. TellsSeen'
      BY <3>6, <3>7, <3>8
    <3>11. TellsSwept'
      BY <1>1, <3>1 DEF Name
    <3> QED BY <3>9, <3>10, <3>11
  <2>10. CASE ReadInPart \/ GiveUp \/ NoBody \/ Abort
    <3>1. warnings' > 0
      BY <2>4, <2>10 DEF ReadInPart, GiveUp, NoBody, Abort
    <3> HIDE DEF TellsBehind, TellsSeen, TellsSwept, Over
    <3> QED BY <2>5, <3>1
  <2>11. CASE Sweep
    <3>1. /\ Ready /\ result = "none" /\ Name = "finish" /\ at' = at + 1
          /\ UNCHANGED <<stage, sent, failed, result, seen, warnings>>
      BY <2>11 DEF Sweep, Ready, Reading
    <3>2. Over'
      BY <3>1 DEF Passed
    <3>3. SUFFICES ASSUME Unharmed' PROVE TellsBehind' /\ TellsSeen' /\ TellsSwept'
      BY <3>2
    <3>4. TellsBehind /\ TellsSeen
      BY <2>2, <3>1, <3>3 DEF Unharmed
    <3>5. Out \subseteq Out'
      <4>1. Waiting = {} /\ Gone' = Gone
        BY <3>1 DEF Waiting, Gone, Ready
      <4> QED BY <4>1 DEF Out
    <3>6. TellsBehind'
      <4> SUFFICES ASSUME NEW t \in 1..Len(Names), NEW i \in 1..Len(doc.of[Names[t]]),
                          Behind(t, i)', NEW kind \in Tellable(Names[t], i)
                   PROVE  <<kind, <<Names[t], i>>>> \in Out'
        BY <1>1, <2>4
      <4>1. CASE Behind(t, i)
        BY <3>4, <3>5, <4>1
      <4>2. CASE ~Behind(t, i)
        <5>1. t = stage
          BY <2>4, <3>1, <4>2 DEF Behind
        <5>2. Names[t] = "finish"
          BY <3>1, <5>1 DEF Name
        <5>3. Tellable("finish", i) = {}
          BY DEF Tellable
        <5> QED BY <5>2, <5>3
      <4> QED BY <4>1, <4>2
    <3>7. TellsSeen'
      BY <3>1, <3>4, <3>5
    <3>8. \A c \in Commented \ seen : <<"comment", c>> \in Out'
      <4> DEFINE rest == Commented \ seen
                 size == Cardinality(rest)
      <4>1. "comment" \in parts
        BY <2>2 DEF Kinds
      <4>2. PICK order \in [1..size -> rest] :
              /\ \A i \in 1..Len(order), j \in 1..Len(order) : order[i] = order[j] => i = j
              /\ offers' = [i \in 1..Len(order) |-> [kind |-> "comment", item |-> order[i]]]
        BY <2>11, <4>1 DEF Sweep
      <4>3. IsFiniteSet(rest)
        BY CommentsFinite, FS_Difference
      <4> HIDE DEF rest
      <4>4. size \in Nat
        BY <4>3, FS_CardinalityType
      <4>5. IsFiniteSet(1..size) /\ Cardinality(1..size) = size
        BY <4>4, FS_Interval
      <4>6. Len(order) = size /\ Len(offers') = size
        BY <4>2, <4>4
      <4>7. order \in Injection(1..size, rest)
        BY <4>2, <4>6 DEF Injection, IsInjective
      <4>8. order \in Surjection(1..size, rest)
        BY <4>3, <4>5, <4>7, FS_Injection
      <4>9. ASSUME NEW c \in rest PROVE <<"comment", c>> \in Waiting'
        <5>1. PICK i \in 1..size : order[i] = c
          BY <4>8 DEF Surjection
        <5>2. i \in 1..Len(offers') /\ offers'[i].kind = "comment" /\ offers'[i].item = c
          BY <4>2, <4>6, <5>1
        <5> QED BY <5>2 DEF Waiting
      <4> QED BY <4>9 DEF Out, rest
    <3>9. TellsSwept'
      BY <1>1, <3>4, <3>5, <3>8
    <3> QED BY <3>6, <3>7, <3>9
  <2>12. CASE Offer
    <3>1. UNCHANGED <<stage, at, seen, warnings>> /\ result = "none"
      BY <2>12 DEF Offer, Reading, place
    <3>2. PICK taken \in BOOLEAN :
            /\ failed' = (failed \/ (~taken /\ IsMark(Head(offers).kind)))
            /\ result' \in {"none", "false"}
      BY <2>12 DEF Offer
    <3>3. Over'
      BY <3>2 DEF Passed
    <3>4. SUFFICES ASSUME Unharmed' PROVE TellsBehind' /\ TellsSeen' /\ TellsSwept'
      BY <3>3
    <3>5. Unharmed /\ ~failed
      BY <2>4, <3>1, <3>2, <3>4 DEF Unharmed
    <3>6. Out \subseteq Out'
      BY <2>12, <3>5, OfferMoves
    <3> HIDE DEF TellsBehind, TellsSeen, TellsSwept, Over
    <3> QED BY <2>2, <2>6, <3>1, <3>5, <3>6
  <2>13. CASE Redacted
    BY <1>3, <2>13 DEF Redacted, Start
  <2>14. CASE Done
    BY <2>1, <2>14 DEF Done
  <2> HIDE DEF TellsBehind, TellsSeen, TellsSwept, Over
  <2> QED BY <2>7, <2>8, <2>9, <2>10, <2>11, <2>12, <2>13, <2>14 DEF Next
<1> QED BY <1>2, <1>3

\* Nothing leaves a redacted document that was not looked at: the scan tells
\* every element whole, or it is not passed.
THEOREM ScannedBeforeSent == Spec => []NothingUnscanned
<1>1. Init => ScanTellsAll
  <2> SUFFICES ASSUME Init PROVE ScanTellsAll
    OBVIOUS
  <2>1. /\ pass = "scan" => parts = Kinds /\ doc.type = "text"
        /\ stage = 1 /\ at = 1 /\ seen = {} /\ result = "none"
    BY DEF Init
  <2>2. doc \in Documents
    BY DEF Init
  <2>3. doc.type \in {"text", "spreadsheet", "presentation", "drawing"}
    BY <2>2, TypedContentAssumption
  <2>4. ASSUME NEW t \in 1..Len(Walk(doc.type)), NEW i \in Nat, i # 0 PROVE ~Behind(t, i)
    BY <2>1, <2>4 DEF Behind
  <2>5. \A t \in 1..Len(Walk(doc.type)) : \A i \in 1..Len(doc.of[Walk(doc.type)[t]]) :
          ~Behind(t, i)
    BY <2>1 DEF Behind
  <2> QED BY <2>1, <2>5 DEF ScanTellsAll, Passed
<1>2. Init => AllShown
  BY DEF Init, AllShown
<1>3. AllShown => NothingUnscanned
  BY DEF AllShown, NothingUnscanned, Out, Gone
<1> QED BY <1>1, <1>2, <1>3, ScanStep, UnshownStep, TypeCorrect, PTL DEF Spec

----------------------------------------------------------------------------
(* The selection *)

\* No walk comes to a stage twice.
LEMMA StagesApart ==
  ASSUME NEW type \in {"text", "spreadsheet", "presentation", "drawing"},
         NEW s \in 1..Len(Walk(type)), NEW t \in 1..Len(Walk(type)), Walk(type)[s] = Walk(type)[t]
  PROVE  s = t
<1>1. CASE type = "text"
  BY <1>1 DEF Walk
<1>2. CASE type = "spreadsheet"
  BY <1>2 DEF Walk
<1>3. CASE type = "presentation"
  BY <1>3 DEF Walk
<1>4. CASE type = "drawing"
  BY <1>4 DEF Walk
<1> QED BY <1>1, <1>2, <1>3, <1>4

\* What there is of a kind at a place of the document, if not a mark.
LEMMA ElementAt ==
  ASSUME doc \in Documents, NEW s \in Stages(doc.type), NEW i \in 1..Len(doc.of[s])
  PROVE  /\ doc.of[s][i] \in Element(doc.type, s) /\ doc.of[s][i] \in AnyElement
         /\ doc.type \in {"text", "spreadsheet", "presentation", "drawing"}
<1>1. doc.type \in {"text", "spreadsheet", "presentation", "drawing"}
      /\ doc.of[s] \in Seq(Element(doc.type, s))
  BY TypedContentAssumption
<1>2. doc.of[s][i] \in Element(doc.type, s)
  BY <1>1
<1> QED BY <1>1, <1>2, StagesAreMet

\* Where the sorts are met that tell of more than themselves.
LEMMA WhereMet ==
  ASSUME NEW type \in {"text", "spreadsheet", "presentation", "drawing"}, NEW s \in Stages(type),
         NEW is \in Met[s]
  PROVE  /\ is \in {"control", "paragraph", "frame"} => type = "text"
         /\ is = "control" => s = "shapes"
         /\ is = "annotation" => type = "presentation" /\ s = "slides"
         /\ is \notin {"image", "comment", "field"}
<1>1. PICK n \in 1..Len(Walk(type)) : s = Walk(type)[n]
  BY DEF Stages
<1>2. CASE type = "text"
  BY <1>1, <1>2 DEF Walk, Met
<1>3. CASE type = "spreadsheet"
  BY <1>1, <1>3 DEF Walk, Met
<1>4. CASE type = "presentation"
  BY <1>1, <1>4 DEF Walk, Met
<1>5. CASE type = "drawing"
  BY <1>1, <1>5 DEF Walk, Met
<1> QED BY <1>2, <1>3, <1>4, <1>5

\* The kinds of events an element is read for.
Mine(s, e) == {Own(s, e)[j] : j \in 1..Len(Own(s, e))}
DrawnKinds(s) == CASE s = "sheets" -> {} [] s = "slides" -> {"slide"} [] OTHER -> {"shape"}

\* An element tells of one kind, of itself and its picture, or of none; of no
\* kind twice.
LEMMA OwnIs ==
  ASSUME NEW s, NEW e
  PROVE  /\ e.is \in {"odd", "page", "other"} => Mine(s, e) = {}
         /\ e.is \in {"shape", "group"} => Mine(s, e) = DrawnKinds(s)
         /\ e.is = "picture" =>
              Mine(s, e) = (IF s = "shapes" THEN {} ELSE DrawnKinds(s)) \cup {"image"}
         /\ e.is = "control" => Mine(s, e) = {"field"}
         /\ e.is = "annotation" => Mine(s, e) = {"comment"}
         /\ e.is = "notes" => Mine(s, e) = {"slide"}
         /\ e.is \in {"named", "database", "row", "note", "chart", "pivot"} =>
              Mine(s, e) = {"sheet"}
         /\ e.is \notin {"odd", "page", "other", "shape", "group", "picture", "control",
                         "annotation", "notes", "named", "database", "row", "note", "chart",
                         "pivot"} => Mine(s, e) = {e.is}
         /\ \A j, l \in 1..Len(Own(s, e)) : Own(s, e)[j] = Own(s, e)[l] => j = l
<1> DEFINE own == Own(s, e)
           Once == \A j, l \in 1..Len(own) : own[j] = own[l] => j = l
<1>1. ASSUME own = <<>> PROVE Mine(s, e) = {} /\ Once
  BY <1>1 DEF Mine
<1>2. ASSUME NEW k, own = <<k>> PROVE Mine(s, e) = {k} /\ Once
  <2>1. Len(own) = 1 /\ own[1] = k
    BY <1>2
  <2> HIDE DEF own
  <2>2. 1..Len(own) = {1}
    BY <2>1
  <2> QED BY <2>1, <2>2 DEF Mine, own
<1>3. ASSUME NEW k, own = <<k>> \o <<"image">>, k # "image" PROVE Mine(s, e) = {k, "image"} /\ Once
  <2>1. Len(own) = 2 /\ own[1] = k /\ own[2] = "image"
    BY <1>3
  <2> HIDE DEF own
  <2>2. 1..Len(own) = {1, 2}
    BY <2>1
  <2> QED BY <1>3, <2>1, <2>2 DEF Mine, own
<1>4. \/ s = "sheets" /\ Drawn(s) = <<>> /\ DrawnKinds(s) = {}
      \/ s = "slides" /\ Drawn(s) = <<"slide">> /\ DrawnKinds(s) = {"slide"}
      \/ s \notin {"sheets", "slides"} /\ Drawn(s) = <<"shape">> /\ DrawnKinds(s) = {"shape"}
  BY DEF Drawn, DrawnKinds
<1>5. CASE e.is \in {"odd", "page", "other"}
  <2>1. own = <<>>
    BY <1>5 DEF Own
  <2> HIDE DEF own
  <2> QED BY <1>1, <1>5, <2>1 DEF own
<1>6. CASE e.is \in {"shape", "group"}
  <2>1. own = Drawn(s)
    BY <1>6 DEF Own
  <2>2. Mine(s, e) = DrawnKinds(s) /\ Once
    <3> HIDE DEF own, Once
    <3> QED BY <1>1, <1>2, <1>4, <2>1
  <2> QED BY <1>6, <2>2
<1>7. CASE e.is = "picture"
  <2>1. own = (IF s = "shapes" THEN <<>> ELSE Drawn(s)) \o <<"image">>
    BY <1>7 DEF Own
  <2>2. <<>> \o <<"image">> = <<"image">>
    OBVIOUS
  <2>3. Mine(s, e) = (IF s = "shapes" THEN {} ELSE DrawnKinds(s)) \cup {"image"} /\ Once
    <3> HIDE DEF own, Once
    <3>1. CASE s \in {"shapes", "sheets"}
      <4>1. own = <<"image">>
        BY <1>4, <2>1, <2>2, <3>1
      <4>2. Mine(s, e) = {"image"} /\ Once
        BY <1>2, <4>1
      <4> QED BY <1>4, <3>1, <4>2
    <3>2. CASE s = "slides"
      <4>1. own = <<"slide">> \o <<"image">>
        BY <1>4, <2>1, <3>2
      <4>2. Mine(s, e) = {"slide", "image"} /\ Once
        BY <1>3, <4>1
      <4> QED BY <1>4, <3>2, <4>2
    <3>3. CASE s \notin {"shapes", "sheets", "slides"}
      <4>1. own = <<"shape">> \o <<"image">>
        BY <1>4, <2>1, <3>3
      <4>2. Mine(s, e) = {"shape", "image"} /\ Once
        BY <1>3, <4>1
      <4> QED BY <1>4, <3>3, <4>2
    <3> QED BY <3>1, <3>2, <3>3
  <2> QED BY <1>7, <2>3
<1>8. CASE e.is \in {"control", "annotation", "notes"}
  <2>1. own = IF e.is = "control" THEN <<"field">>
              ELSE IF e.is = "annotation" THEN <<"comment">> ELSE <<"slide">>
    BY <1>8 DEF Own
  <2> HIDE DEF own, Once
  <2>2. /\ Once
        /\ Mine(s, e) = IF e.is = "control" THEN {"field"}
                        ELSE IF e.is = "annotation" THEN {"comment"} ELSE {"slide"}
    BY <1>2, <1>8, <2>1
  <2> QED BY <1>8, <2>2 DEF Once, own
<1>9. CASE e.is \in {"named", "database", "row", "note", "chart", "pivot"}
  <2>1. own = <<"sheet">>
    BY <1>9 DEF Own
  <2> HIDE DEF own, Once
  <2>2. Mine(s, e) = {"sheet"} /\ Once
    BY <1>2, <2>1
  <2> QED BY <1>9, <2>2 DEF Once, own
<1>10. CASE e.is \notin {"odd", "page", "other", "shape", "group", "picture", "control",
                         "annotation", "notes", "named", "database", "row", "note", "chart",
                         "pivot"}
  <2>1. own = <<e.is>>
    BY <1>10 DEF Own
  <2> HIDE DEF own, Once
  <2>2. Mine(s, e) = {e.is} /\ Once
    BY <1>2, <2>1
  <2> QED BY <1>10, <2>2 DEF Once, own
<1> QED BY <1>5, <1>6, <1>7, <1>8, <1>9, <1>10

\* What an element is read for is what the document holds there.
LEMMA MineIsHeld ==
  ASSUME doc \in Documents, NEW s \in Stages(doc.type), NEW i \in 1..Len(doc.of[s]),
         NEW kind \in Kinds, ~IsMark(kind)
  PROVE  kind \in Mine(s, doc.of[s][i]) <=> Holds(s, i, kind)
<1> DEFINE e == doc.of[s][i]
<1>1. /\ e \in Element(doc.type, s) /\ e \in AnyElement
      /\ doc.type \in {"text", "spreadsheet", "presentation", "drawing"}
  BY ElementAt
<1>2. e.is \in Met[s] \cup {"other", "odd"} /\ (doc.type # "text" => e.mark = "none")
  BY <1>1 DEF Element
<1> SUFFICES kind \in Mine(s, e) <=> Holds(s, i, kind)
  OBVIOUS
<1> HIDE DEF e
<1>3. /\ e.is \in {"control", "paragraph", "frame"} => doc.type = "text"
      /\ e.is = "control" => s = "shapes"
      /\ e.is = "annotation" => doc.type = "presentation" /\ s = "slides"
      /\ e.is \notin {"image", "comment", "field"}
  BY <1>1, <1>2, WhereMet
<1>4. e.is \in {"shape", "group", "picture"} => s \in {"shapes", "sheets", "slides", "pages"}
  BY <1>1, <1>2, StagesAreMet DEF Met
<1>5. DrawnKinds(s) = CASE s = "sheets" -> {} [] s = "slides" -> {"slide"} [] OTHER -> {"shape"}
  BY DEF DrawnKinds
<1>6. CASE e.is \in {"shape", "group"}
  <2>1. Holds(s, i, kind) <=>
          (kind = "slide" /\ s = "slides") \/ (kind = "shape" /\ s \in {"shapes", "pages"})
    BY <1>2, <1>4, <1>6 DEF Holds, e, IsMark, Kinds
  <2>2. kind \in DrawnKinds(s) <=>
          (kind = "slide" /\ s = "slides") \/ (kind = "shape" /\ s \in {"shapes", "pages"})
    BY <1>4, <1>5, <1>6
  <2>3. Mine(s, e) = DrawnKinds(s)
    BY <1>6, OwnIs
  <2> QED BY <2>1, <2>2, <2>3
<1>7. CASE e.is = "picture"
  <2>1. Holds(s, i, kind) <=>
          kind = "image" \/ (kind = "slide" /\ s = "slides") \/ (kind = "shape" /\ s = "pages")
    BY <1>2, <1>4, <1>7 DEF Holds, e, IsMark, Kinds
  <2>2. s # "shapes" /\ kind \in DrawnKinds(s) <=>
          (kind = "slide" /\ s = "slides") \/ (kind = "shape" /\ s = "pages")
    BY <1>4, <1>5, <1>7
  <2>3. Mine(s, e) = (IF s = "shapes" THEN {} ELSE DrawnKinds(s)) \cup {"image"}
    BY <1>7, OwnIs
  <2> QED BY <2>1, <2>2, <2>3
<1>8. CASE e.is \notin {"shape", "group", "picture"}
  <2>1. Holds(s, i, kind) <=>
          CASE e.is \in {"odd", "page", "other"} -> FALSE
            [] e.is = "control" -> kind = "field"
            [] e.is = "annotation" -> kind = "comment"
            [] e.is = "notes" -> kind = "slide"
            [] e.is \in {"named", "database", "row", "note", "chart", "pivot"} -> kind = "sheet"
            [] OTHER -> kind = e.is
    BY <1>2, <1>3, <1>8 DEF Holds, e, IsMark, Kinds
  <2>2. CASE e.is \in {"odd", "page", "other"}
    <3>1. Mine(s, e) = {}
      BY <2>2, OwnIs
    <3> QED BY <2>1, <2>2, <3>1
  <2>3. CASE e.is = "control"
    <3>1. Mine(s, e) = {"field"}
      BY <2>3, OwnIs
    <3> QED BY <2>1, <2>3, <3>1
  <2>4. CASE e.is = "annotation"
    <3>1. Mine(s, e) = {"comment"}
      BY <2>4, OwnIs
    <3> QED BY <2>1, <2>4, <3>1
  <2>5. CASE e.is = "notes"
    <3>1. Mine(s, e) = {"slide"}
      BY <2>5, OwnIs
    <3> QED BY <2>1, <2>5, <3>1
  <2>6. CASE e.is \in {"named", "database", "row", "note", "chart", "pivot"}
    <3>1. Mine(s, e) = {"sheet"}
      BY <2>6, OwnIs
    <3> QED BY <2>1, <2>6, <3>1
  <2>7. CASE e.is \notin {"odd", "page", "other", "control", "annotation", "notes",
                          "named", "database", "row", "note", "chart", "pivot"}
    <3>1. Mine(s, e) = {e.is}
      BY <1>8, <2>7, OwnIs
    <3> QED BY <2>1, <2>7, <3>1
  <2> QED BY <2>2, <2>3, <2>4, <2>5, <2>6, <2>7
<1> QED BY <1>6, <1>7, <1>8

\* A part is selected, or nothing of its kind is held by the stages it does not
\* have walked; but for the tables of text frames, which come with the frames.
LEMMA HeldIsWanted ==
  ASSUME doc \in Documents, NEW s \in Stages(doc.type), NEW i \in 1..Len(doc.of[s]),
         NEW kind \in Kinds, ~IsMark(kind), Holds(s, i, kind)
  PROVE  kind \in Wanted[s] \/ (kind = "table" /\ s = "frames")
<1> DEFINE e == doc.of[s][i]
<1>1. /\ e \in Element(doc.type, s) /\ e \in AnyElement /\ s \in DOMAIN Met
      /\ doc.type \in {"text", "spreadsheet", "presentation", "drawing"}
  BY ElementAt, StagesAreMet
<1>2. e.is \in Met[s] \cup {"other", "odd"} /\ (doc.type # "text" => e.mark = "none")
  BY <1>1 DEF Element
<1>3. kind \in Mine(s, e)
  BY MineIsHeld
<1> HIDE DEF e
<1>4. s \in {"metadata", "objects", "body", "footnotes", "endnotes", "indexes", "styles",
             "frames", "shapes", "finish", "ranges", "sheets", "slides", "pages"}
  BY <1>1 DEF Met
<1>5. CASE e.is \in {"odd", "page", "other"}
  BY <1>3, <1>5, OwnIs
<1>6. CASE e.is \in {"shape", "group", "picture"}
  <2>1. s \in {"shapes", "sheets", "slides", "pages"}
    BY <1>2, <1>4, <1>6 DEF Met
  <2>2. kind \in DrawnKinds(s) \/ kind = "image"
    BY <1>3, <1>6, OwnIs
  <2> QED BY <2>1, <2>2 DEF DrawnKinds, Wanted
<1>7. CASE e.is \in {"control", "annotation", "notes", "named", "database", "row", "note",
                     "chart", "pivot"}
  <2>1. kind = CASE e.is = "control" -> "field" [] e.is = "annotation" -> "comment"
                 [] e.is = "notes" -> "slide" [] OTHER -> "sheet"
    BY <1>3, <1>7, OwnIs
  <2>2. CASE e.is \in {"control", "annotation", "notes"}
    <3>1. /\ e.is = "control" => s = "shapes"
          /\ e.is \in {"annotation", "notes"} => s = "slides"
      BY <1>2, <1>4, <2>2 DEF Met
    <3> QED BY <2>1, <2>2, <3>1 DEF Wanted
  <2>3. CASE e.is \in {"named", "database", "row", "note", "chart", "pivot"}
    <3>1. s \in {"ranges", "sheets"}
      BY <1>2, <1>4, <2>3 DEF Met
    <3> QED BY <2>1, <2>3, <3>1 DEF Wanted
  <2> QED BY <1>7, <2>2, <2>3
<1>8. CASE e.is \notin {"odd", "page", "other", "shape", "group", "picture", "control",
                        "annotation", "notes", "named", "database", "row", "note", "chart", "pivot"}
  <2>1. kind = e.is /\ e.is \in Met[s]
    BY <1>2, <1>3, <1>8, OwnIs
  <2> QED BY <1>4, <1>8, <2>1 DEF Met, Wanted
<1> QED BY <1>5, <1>6, <1>7, <1>8

\* A stage that is over, or that is not walked, leaves nothing of a selected kind.
LEMMA NothingLeft ==
  ASSUME TypeOK, ~(Visited(stage) /\ at <= Len(Elements)),
         NEW kind \in parts, ~IsMark(kind), NEW p \in PlacesOf(kind), p[1] = Name
  PROVE  p[2] < at
<1>1. doc \in Documents /\ kind \in Kinds /\ at \in Nat /\ Name \in Stages(doc.type)
  BY ElementParts DEF TypeOK
<1>2. /\ p[2] \in 1..Len(Elements) /\ Holds(Name, p[2], kind) /\ Len(Elements) \in Nat
      /\ kind = "table" /\ Name = "frames" => "frame" \in parts
  BY ElementParts DEF PlacesOf, Places, Elements
<1>3. kind \in Wanted[Name] \/ (kind = "table" /\ Name = "frames")
  BY <1>1, <1>2, HeldIsWanted DEF Elements
<1>4. Visited(stage)
  <2>1. Wanted["frames"] = {"frame"}
    BY DEF Wanted
  <2> QED BY <1>2, <1>3, <2>1 DEF Visited, Name
<1> QED BY <1>1, <1>2, <1>4

\* What an element tells: its own kinds and its mark. It tells one kind twice only if
\* its mark is of its own kind.
LEMMA TellsIs ==
  ASSUME NEW s, NEW e \in AnyElement
  PROVE  /\ \A kind : (\E j \in 1..Len(Tells(s, e)) : Tells(s, e)[j] = kind)
                        <=> kind \in Mine(s, e) \/ Marks(s, e) = <<kind>>
         /\ \A j, l \in 1..Len(Tells(s, e)) :
              Tells(s, e)[j] = Tells(s, e)[l] /\ j # l =>
                Tells(s, e)[j] \in Mine(s, e) /\ Marks(s, e) = <<Tells(s, e)[j]>>
<1> DEFINE own == Own(s, e)
           marks == Marks(s, e)
           tells == Tells(s, e)
<1>1. /\ own \in Seq(Kinds) /\ marks \in Seq(Kinds) /\ tells \in {own \o marks, marks \o own}
      /\ marks = <<>> \/ marks = <<e.mark>>
  BY OwnKinds DEF Tells, Marks
<1>2. /\ \A j, l \in 1..Len(own) : own[j] = own[l] => j = l
      /\ Mine(s, e) = {own[j] : j \in 1..Len(own)}
  BY OwnIs DEF Mine
<1> HIDE DEF own, marks, tells
<1>3. CASE marks = <<>>
  <2>1. own \o marks = own /\ marks \o own = own
    BY <1>1, <1>3
  <2>2. tells = own
    BY <1>1, <2>1
  <2> QED BY <1>2, <1>3, <2>2 DEF own, marks, tells
<1>4. ASSUME NEW m, marks = <<m>>
      PROVE  /\ \A kind : (\E j \in 1..Len(tells) : tells[j] = kind)
                            <=> kind \in Mine(s, e) \/ kind = m
             /\ \A j, l \in 1..Len(tells) :
                  tells[j] = tells[l] /\ j # l => tells[j] \in Mine(s, e) /\ tells[j] = m
  <2>0. Len(own) \in Nat /\ Len(marks) = 1 /\ marks[1] = m /\ m \in Kinds
    BY <1>1, <1>4
  <2>1. CASE tells = own \o marks
    <3>1. /\ Len(tells) = Len(own) + 1 /\ tells[Len(own) + 1] = m
          /\ \A j \in 1..Len(own) : tells[j] = own[j]
      <4>1. tells = own \o <<m>> /\ own \in Seq(Kinds) /\ <<m>> \in Seq(Kinds)
        BY <1>1, <1>4, <2>1
      <4> QED BY <4>1
    <3>2. 1..Len(tells) = 1..Len(own) \cup {Len(own) + 1}
      BY <2>0, <3>1
    <3> QED BY <1>2, <2>0, <3>1, <3>2
  <2>2. CASE tells = marks \o own
    <3>1. /\ Len(tells) = Len(own) + 1 /\ tells[1] = m
          /\ \A j \in 1..Len(own) : tells[j + 1] = own[j]
      <4>1. tells = <<m>> \o own /\ own \in Seq(Kinds) /\ <<m>> \in Seq(Kinds)
        BY <1>1, <1>4, <2>2
      <4>2. Len(tells) = Len(own) + 1
        BY <4>1
      <4>3. tells[1] = m
        BY <4>1
      <4>4. ASSUME NEW j \in 1..Len(own) PROVE tells[j + 1] = own[j]
        BY <4>1
      <4> QED BY <4>2, <4>3, <4>4
    <3>2. \A j \in 1..Len(tells) :
            j = 1 \/ (j - 1 \in 1..Len(own) /\ tells[j] = own[j - 1])
      <4>1. \A j \in 1..Len(tells) : j = 1 \/ (j - 1 \in 1..Len(own) /\ (j - 1) + 1 = j)
        BY <2>0, <3>1
      <4> QED BY <3>1, <4>1
    <3>3. 1 \in 1..Len(tells) /\ \A j \in 1..Len(own) : j + 1 \in 1..Len(tells)
      BY <2>0, <3>1
    <3>4. \A kind : (\E j \in 1..Len(tells) : tells[j] = kind) <=> kind \in Mine(s, e) \/ kind = m
      BY <1>2, <3>1, <3>2, <3>3
    <3>5. ASSUME NEW j \in 1..Len(tells), NEW l \in 1..Len(tells), tells[j] = tells[l], j # l
          PROVE  tells[j] \in Mine(s, e) /\ tells[j] = m
      <4>1. CASE j = 1
        BY <1>2, <3>1, <3>2, <3>5, <4>1
      <4>2. CASE l = 1
        BY <1>2, <3>1, <3>2, <3>5, <4>2
      <4>3. CASE j # 1 /\ l # 1
        <5>1. j - 1 \in 1..Len(own) /\ l - 1 \in 1..Len(own) /\ own[j - 1] = own[l - 1]
          BY <3>2, <3>5, <4>3
        <5>2. j - 1 = l - 1
          BY <1>2, <5>1
        <5> QED BY <3>5, <5>2
      <4> QED BY <4>1, <4>2, <4>3
    <3> QED BY <3>4, <3>5
  <2> QED BY <1>1, <2>1, <2>2
<1>5. CASE marks = <<e.mark>>
  <2>1. \A kind : marks = <<kind>> <=> kind = e.mark
    BY <1>5
  <2> QED BY <1>4, <1>5, <2>1 DEF tells, marks
<1> QED BY <1>1, <1>3, <1>5

\* The walk has passed a place.
LeftBehind(p) ==
  \E t \in 1..Len(Walk(doc.type)) : p[1] = Walk(doc.type)[t] /\ Behind(t, p[2])

\* As long as nothing failed and no event was refused, what is told is what is
\* selected of the places that the walk has passed, in the order of the document.
Clean == warnings = 0 /\ \A i \in 1..Len(sent) : sent[i].taken
Selected ==
  /\ \A i \in 1..Len(sent) : sent[i].kind \in parts
  /\ \A i \in 1..Len(offers) : offers[i].kind \in parts
ToldSoFar ==
  /\ \A kind \in parts : ~IsMark(kind) =>
       \A p \in Places : <<kind, p>> \in Out <=> p \in PlacesOf(kind) /\ LeftBehind(p)
  /\ doc.type = "text" /\ "comment" \in parts =>
       \A p \in Places :
         <<"comment", p>> \in Out <=> p \in IF Name = "finish" /\ at > 1 THEN Commented ELSE seen
  /\ \A p \in seen : LeftBehind(p)
InTurn(a, b) == a.kind = b.kind => Follows(a.kind, a.item, b.item)
InOrder ==
  /\ \A i, j \in 1..Len(sent) : i < j => InTurn(sent[i], sent[j])
  /\ \A i, j \in 1..Len(offers) : i < j => InTurn(offers[i], offers[j])
  /\ \A i \in 1..Len(sent), j \in 1..Len(offers) : InTurn(sent[i], offers[j])
Filtering == Clean /\ result = "none" => ToldSoFar /\ InOrder

\* Of an element that is read there is told what the document holds there of the
\* kinds that are selected, each once.
LEMMA ReadOffers ==
  ASSUME TypeOK, Read
  PROVE  /\ \A n \in 1..Len(offers') : offers'[n].item = Item /\ offers'[n].kind \in parts
         /\ \A kind \in parts :
              ~IsMark(kind) => (<<kind, Item>> \in Waiting' <=> Item \in PlacesOf(kind))
         /\ doc.type = "text" /\ "comment" \in parts =>
              seen' = IF <<"comment", Item>> \in Waiting' THEN seen \cup {Item} ELSE seen
         /\ seen' \in {seen, seen \cup {Item}}
         /\ \A n, m \in 1..Len(offers') :
              n < m /\ offers'[n].kind = offers'[m].kind =>
                IsMark(offers'[n].kind) /\ offers'[n].kind = "field"
<1>1. /\ Ready /\ at <= Len(Elements) /\ Visited(stage) /\ doc \in Documents
      /\ at \in Nat \ {0} /\ parts \subseteq Kinds
  BY DEF Read, Ready, TypeOK
<1> DEFINE e == Elements[at]
           tells == Tells(Name, e)
           kinds == IF IsRead(Name, e) THEN tells ELSE <<>>
<1>2. ReadAs(kinds) /\ doc.of[Name][at] = e
  BY DEF Read, Elements
<1>3. /\ e \in AnyElement /\ tells \in Seq(Kinds) /\ <<>> \in Seq(Kinds)
      /\ Name \in Stages(doc.type) /\ at \in 1..Len(doc.of[Name]) /\ Item \in Places
  BY <1>1, ItemIsPlace, OwnKinds, ElementParts DEF Elements
<1>4. kinds \in Seq(Kinds)
  BY <1>3
<1>5. /\ \A kind : (\E j \in 1..Len(tells) : tells[j] = kind)
                     <=> kind \in Mine(Name, e) \/ Marks(Name, e) = <<kind>>
      /\ \A j, l \in 1..Len(tells) :
           tells[j] = tells[l] /\ j # l =>
             tells[j] \in Mine(Name, e) /\ Marks(Name, e) = <<tells[j]>>
  BY <1>3, TellsIs
<1>6. offers' = Told(kinds) /\ Tale(Told(kinds), kinds, Len(kinds))
  <2> HIDE DEF kinds
  <2> QED BY <1>2, <1>4, ToldIsTale DEF ReadAs
<1>7. \A n \in 1..Len(offers') : offers'[n].item = Item /\ offers'[n].kind \in parts
  <2> DEFINE These == [kind : Kinds \cap parts, item : {Item}]
  <2>1. offers' \in Seq(These)
    <3> HIDE DEF kinds
    <3> QED BY <1>6 DEF Tale
  <2> HIDE DEF These
  <2>2. \A n \in 1..Len(offers') : offers'[n] \in These
    BY <2>1
  <2> QED BY <2>2 DEF These
<1>8. ASSUME NEW kind \in parts
      PROVE  <<kind, Item>> \in Waiting' <=> \E j \in 1..Len(kinds) : kinds[j] = kind
  <2> HIDE DEF kinds
  <2>1. <<kind, Item>> \in Waiting' <=> \E n \in 1..Len(offers') : offers'[n].kind = kind
    BY <1>7 DEF Waiting
  <2>2. (\E n \in 1..Len(offers') : offers'[n].kind = kind)
          => \E j \in 1..Len(kinds) : kinds[j] = kind
    BY <1>6 DEF Tale
  <2>3. (\E j \in 1..Len(kinds) : kinds[j] = kind)
          => \E n \in 1..Len(offers') : offers'[n].kind = kind
    BY <1>6 DEF Tale
  <2> QED BY <2>1, <2>2, <2>3
<1>9. IsRead(Name, e) <=> Name = "body" \/ Mine(Name, e) \cap parts # {}
  BY DEF IsRead, Mine
<1> HIDE DEF e
<1>10. e \in Element(doc.type, Name)
  BY <1>1, <1>2, <1>3, ElementAt
<1>11. \/ Marks(Name, e) = <<>>
       \/ Marks(Name, e) = <<e.mark>> /\ e.mark \in {"comment", "field"} /\ doc.type = "text"
  BY <1>10 DEF Marks, Element
<1>12. ASSUME NEW kind \in parts, ~IsMark(kind)
       PROVE  <<kind, Item>> \in Waiting' <=> Item \in PlacesOf(kind)
  <2>1. kind \in Mine(Name, e) <=> Holds(Name, at, kind)
    BY <1>1, <1>2, <1>3, <1>12, MineIsHeld
  <2>2. Name = "frames" => "frame" \in parts
    <3>1. Wanted["frames"] = {"frame"}
      BY DEF Wanted
    <3> QED BY <1>1, <3>1 DEF Visited, Name
  <2>3. Item \in PlacesOf(kind) <=> Holds(Name, at, kind)
    BY <1>3, <2>2 DEF PlacesOf, Item
  <2>4. Marks(Name, e) # <<kind>>
    BY <1>11, <1>12 DEF IsMark
  <2>5. (\E j \in 1..Len(kinds) : kinds[j] = kind) <=> kind \in Mine(Name, e)
    <3>1. CASE IsRead(Name, e)
      <4>1. kinds = tells
        BY <3>1
      <4> HIDE DEF kinds, tells
      <4> QED BY <1>5, <2>4, <4>1 DEF tells
    <3>2. CASE ~IsRead(Name, e)
      BY <1>9, <1>12, <3>2
    <3> QED BY <3>1, <3>2
  <2> HIDE DEF kinds
  <2> QED BY <1>8, <2>1, <2>3, <2>5
<1>13. doc.type = "text" => "comment" \notin Mine(Name, e)
  <2>1. e.is \in Met[Name] \cup {"other", "odd"}
    BY <1>10 DEF Element
  <2>2. doc.type = "text" => e.is \notin {"annotation", "comment"}
    BY <1>3, <2>1, WhereMet, TypedContentAssumption
  <2>3. "comment" \notin DrawnKinds(Name)
    BY DEF DrawnKinds
  <2>4. "comment" \in Mine(Name, e) => e.is \in {"annotation", "comment"}
    BY <2>3, OwnIs
  <2> QED BY <2>2, <2>4
<1>14. kinds = tells /\ Marks(Name, e) = <<"comment">> => IsRead(Name, e)
  <2>1. Marks(Name, e) = <<"comment">> => tells # <<>>
    <3> HIDE DEF tells
    <3> QED BY <1>5
  <2> QED BY <2>1
<1>15. seen' = IF kinds = tells /\ Marks(Name, e) = <<"comment">> THEN seen \cup {Item} ELSE seen
  <2> HIDE DEF kinds, tells
  <2> QED BY <1>2 DEF ReadAs, tells, e
<1>16. ASSUME doc.type = "text", "comment" \in parts
       PROVE  seen' = IF <<"comment", Item>> \in Waiting' THEN seen \cup {Item} ELSE seen
  <2>1. CASE IsRead(Name, e)
    <3>1. kinds = tells
      BY <2>1
    <3> HIDE DEF kinds, tells
    <3> QED BY <1>5, <1>8, <1>13, <1>15, <1>16, <3>1 DEF tells
  <2>2. CASE ~IsRead(Name, e)
    <3>1. kinds = <<>>
      BY <2>2
    <3> HIDE DEF kinds, tells
    <3>2. <<"comment", Item>> \notin Waiting'
      BY <1>8, <1>16, <3>1
    <3> QED BY <1>14, <1>15, <2>2, <3>2
  <2> QED BY <2>1, <2>2
<1>17. ASSUME NEW n \in 1..Len(offers'), NEW m \in 1..Len(offers'), n < m,
              offers'[n].kind = offers'[m].kind
       PROVE  IsMark(offers'[n].kind) /\ offers'[n].kind = "field"
  <2>1. \E j, l \in 1..Len(kinds) :
          j < l /\ offers'[n].kind = kinds[j] /\ offers'[m].kind = kinds[l]
    <3> HIDE DEF kinds
    <3> QED BY <1>6, <1>17 DEF Tale
  <2>2. PICK j \in 1..Len(tells), l \in 1..Len(tells) :
           j < l /\ offers'[n].kind = tells[j] /\ offers'[m].kind = tells[l]
    BY <2>1
  <2> HIDE DEF tells, kinds
  <2>3. tells[j] \in Mine(Name, e) /\ Marks(Name, e) = <<tells[j]>>
    <3>1. tells[j] = tells[l]
      BY <1>17, <2>2
    <3>2. Len(tells) \in Nat
      BY <1>3
    <3>3. j # l
      BY <2>2, <3>2
    <3> QED BY <1>5, <3>1, <3>3
  <2> QED BY <1>11, <1>13, <2>2, <2>3 DEF IsMark
<1> QED
  <2> HIDE DEF kinds, tells
  <2> QED BY <1>7, <1>12, <1>15, <1>16, <1>17

\* A place is behind the walk if its stage is, or it is before the element to be read.
LEMMA BehindIs ==
  ASSUME TypeOK, NEW t \in 1..Len(Walk(doc.type)), NEW p, p[1] = Walk(doc.type)[t]
  PROVE  /\ LeftBehind(p) <=> Behind(t, p[2])
         /\ p[1] = Name <=> t = stage
<1>1. /\ doc.type \in {"text", "spreadsheet", "presentation", "drawing"}
      /\ stage \in 1..Len(Walk(doc.type))
  BY TypedContentAssumption DEF TypeOK
<1>2. \A u \in 1..Len(Walk(doc.type)) : p[1] = Walk(doc.type)[u] => u = t
  BY <1>1, StagesApart
<1> QED BY <1>1, <1>2 DEF LeftBehind, Name

\* Every place is of some stage of the walk.
LEMMA PlaceIsMet ==
  ASSUME doc \in Documents, NEW p \in Places
  PROVE  /\ \E t \in 1..Len(Walk(doc.type)) : p[1] = Walk(doc.type)[t]
         /\ p = <<p[1], p[2]>> /\ p[1] \in Stages(doc.type) /\ p[2] \in 1..Len(doc.of[p[1]])
         /\ p[2] \in Nat
<1>1. DOMAIN doc.of = Stages(doc.type)
  BY TypedContentAssumption
<1>2. PICK s \in DOMAIN doc.of : \E i \in 1..Len(doc.of[s]) : p = <<s, i>>
  BY DEF Places
<1>3. p[1] = s /\ p = <<p[1], p[2]>> /\ p[2] \in 1..Len(doc.of[s])
  BY <1>2
<1> QED BY <1>1, <1>3 DEF Stages

\* Each place that the walk has passed precedes the element to be read.
LEMMA PassedPrecedes ==
  ASSUME TypeOK, at <= Len(Elements), NEW p \in Places, LeftBehind(p)
  PROVE  Precedes(p, Item) /\ p # Item
<1>1. PICK t \in 1..Len(Walk(doc.type)) : p[1] = Walk(doc.type)[t] /\ Behind(t, p[2])
  BY DEF LeftBehind
<1>2. stage \in 1..Len(Walk(doc.type)) /\ Item[1] = Walk(doc.type)[stage] /\ Item[2] = at
  BY DEF TypeOK, Item, Name
<1>3. t < stage \/ (t = stage /\ p[2] < at)
  BY <1>1 DEF Behind
<1>4. Precedes(p, Item)
  BY <1>1, <1>2, <1>3 DEF Precedes
<1>5. p # Item
  <2>1. CASE t = stage
    BY <1>2, <1>3, <2>1 DEF TypeOK
  <2>2. CASE t # stage
    <3>1. p[1] # Name
      BY <1>1, <2>2, BehindIs
    <3> QED BY <3>1 DEF Item
  <2> QED BY <2>1, <2>2
<1> QED BY <1>4, <1>5

\* What precedes, and what there is of a kind, depends on the document and the selection.
LEMMA SameDocument ==
  ASSUME UNCHANGED doc
  PROVE  /\ Places' = Places /\ Commented' = Commented
         /\ \A kind : IsMark(kind)' = IsMark(kind)
         /\ \A kind, a, b : Follows(kind, a, b)' = Follows(kind, a, b)
         /\ parts' = parts => \A kind : PlacesOf(kind)' = PlacesOf(kind)
<1>1. Places' = Places /\ Commented' = Commented /\ \A kind : IsMark(kind)' = IsMark(kind)
  BY DEF Places, Commented, IsMark
<1>2. \A kind, a, b : Follows(kind, a, b)' = Follows(kind, a, b)
  BY DEF Follows, IsMark, Precedes
<1>3. ASSUME parts' = parts, NEW kind PROVE PlacesOf(kind)' = PlacesOf(kind)
  <2>1. \A s, i : Holds(s, i, kind)' = Holds(s, i, kind)
    BY DEF Holds
  <2> QED BY <1>1, <1>3, <2>1 DEF PlacesOf
<1> QED BY <1>1, <1>2, <1>3

\* An element that is read adds itself, in turn.
LEMMA ReadFilters ==
  ASSUME TypeOK, Selected, Read, ToldSoFar, InOrder, warnings' = 0
  PROVE  ToldSoFar' /\ InOrder'
<1>1. /\ offers = <<>> /\ at <= Len(Elements) /\ Name # "finish" /\ doc \in Documents
      /\ stage \in 1..Len(Walk(doc.type)) /\ at \in Nat /\ warnings \in Nat /\ parts \subseteq Kinds
      /\ UNCHANGED <<doc, parts, stage, sent>>
  BY DEF Read, Ready, TypeOK
<1>2. at' = at + 1
  <2>1. warnings' = IF Elements[at].is = "odd" \/ TooDeep(Elements[at])
                    THEN warnings + 1 ELSE warnings
    BY DEF Read
  <2>2. ~TooDeep(Elements[at])
    BY <1>1, <2>1
  <2> QED BY <2>2 DEF Read, ReadAs, Entered
<1>3. /\ Places' = Places /\ \A kind : IsMark(kind)' = IsMark(kind)
      /\ \A kind, a, b : Follows(kind, a, b)' = Follows(kind, a, b)
      /\ \A kind : PlacesOf(kind)' = PlacesOf(kind)
  BY <1>1, SameDocument
<1>4. Item \in Places /\ Item[1] = Name /\ Item[2] = at /\ Name' = Name
  BY <1>1, ItemIsPlace DEF Item, Name
<1>5. ASSUME NEW p \in Places PROVE LeftBehind(p)' <=> LeftBehind(p) \/ p = Item
  <2>1. PICK t \in 1..Len(Walk(doc.type)) : p[1] = Walk(doc.type)[t]
    BY <1>1, PlaceIsMet
  <2>2. /\ LeftBehind(p) <=> Behind(t, p[2])
        /\ p[1] = Name <=> t = stage
    BY <2>1, BehindIs
  <2>3. p[2] \in Nat /\ p = <<p[1], p[2]>>
    BY <1>1, PlaceIsMet
  <2>4. LeftBehind(p)' <=> Behind(t, p[2])'
    <3>1. \A u \in 1..Len(Walk(doc.type)) : p[1] = Walk(doc.type)[u] => u = t
      BY <1>1, <2>1, StagesApart, TypedContentAssumption
    <3> QED BY <1>1, <2>1, <3>1 DEF LeftBehind
  <2>5. Behind(t, p[2])' <=> Behind(t, p[2]) \/ (t = stage /\ p[2] = at)
    BY <1>1, <1>2, <2>3 DEF Behind
  <2>6. p = Item <=> t = stage /\ p[2] = at
    BY <1>4, <2>2, <2>3 DEF Item
  <2> QED BY <2>2, <2>4, <2>5, <2>6
<1>6. /\ Out = Gone /\ Gone' = Gone /\ Out' = Gone \cup Waiting'
  BY <1>1 DEF Out, Gone, Waiting
<1>7. /\ \A n \in 1..Len(offers') : offers'[n].item = Item /\ offers'[n].kind \in parts
      /\ \A kind \in parts :
           ~IsMark(kind) => (<<kind, Item>> \in Waiting' <=> Item \in PlacesOf(kind))
      /\ doc.type = "text" /\ "comment" \in parts =>
           seen' = IF <<"comment", Item>> \in Waiting' THEN seen \cup {Item} ELSE seen
      /\ seen' \in {seen, seen \cup {Item}}
      /\ \A n, m \in 1..Len(offers') :
           n < m /\ offers'[n].kind = offers'[m].kind =>
             IsMark(offers'[n].kind) /\ offers'[n].kind = "field"
  BY ReadOffers
<1>8. \A pair \in Waiting' : pair[2] = Item
  BY <1>7 DEF Waiting
<1>9. \A p \in Places : LeftBehind(p) => Precedes(p, Item) /\ p # Item
  BY <1>1, PassedPrecedes
<1>10. ASSUME NEW kind \in parts, ~IsMark(kind), NEW p \in Places
       PROVE  <<kind, p>> \in Out' <=> p \in PlacesOf(kind) /\ LeftBehind(p)'
  <2>1. <<kind, p>> \in Gone <=> p \in PlacesOf(kind) /\ LeftBehind(p)
    BY <1>6, <1>10 DEF ToldSoFar
  <2>2. <<kind, p>> \in Waiting' <=> p = Item /\ p \in PlacesOf(kind)
    BY <1>7, <1>8, <1>10
  <2> QED BY <1>5, <1>6, <2>1, <2>2
<1>11. ASSUME doc.type = "text", "comment" \in parts, NEW p \in Places
       PROVE  <<"comment", p>> \in Out' <=> p \in seen'
  <2>1. <<"comment", p>> \in Gone <=> p \in seen
    BY <1>1, <1>6, <1>11 DEF ToldSoFar
  <2>2. <<"comment", p>> \in Waiting' <=> p = Item /\ <<"comment", Item>> \in Waiting'
    BY <1>8
  <2> QED BY <1>6, <1>7, <1>11, <2>1, <2>2
<1>12. ASSUME NEW p \in seen' PROVE LeftBehind(p)'
  <2>1. seen \subseteq Places
    BY CommentsFinite DEF TypeOK
  <2>2. p = Item \/ (p \in seen /\ LeftBehind(p))
    BY <1>7, <1>12 DEF ToldSoFar
  <2> QED BY <1>4, <1>5, <2>1, <2>2
<1>13. ToldSoFar'
  BY <1>1, <1>3, <1>4, <1>10, <1>11, <1>12 DEF ToldSoFar
<1>14. ASSUME NEW i \in 1..Len(sent), NEW j \in 1..Len(offers'), sent[i].kind = offers'[j].kind
       PROVE  Follows(sent[i].kind, sent[i].item, offers'[j].item)
  <2> DEFINE kind == sent[i].kind
             p == sent[i].item
  <2>1. kind \in parts /\ p \in Places /\ <<kind, p>> \in Out /\ offers'[j].item = Item
    <3>1. sent[i] \in Event
      BY DEF TypeOK
    <3> QED BY <1>6, <1>7, <3>1 DEF Event, Selected, Gone
  <2> HIDE DEF kind, p
  <2>2. CASE ~IsMark(kind)
    <3>1. LeftBehind(p)
      BY <2>1, <2>2 DEF ToldSoFar
    <3>2. Precedes(p, Item)
      BY <1>9, <2>1, <3>1
    <3> QED BY <2>1, <2>2, <3>2 DEF Follows, kind, p
  <2>3. CASE IsMark(kind) /\ kind = "comment"
    <3>1. p \in seen
      BY <1>1, <2>1, <2>3 DEF ToldSoFar, IsMark
    <3>2. p # Item
      BY <1>9, <2>1, <3>1 DEF ToldSoFar
    <3> QED BY <2>1, <2>3, <3>2 DEF Follows, kind, p
  <2>4. CASE IsMark(kind) /\ kind # "comment"
    BY <2>4 DEF Follows, kind, p
  <2> QED BY <2>2, <2>3, <2>4
<1>15. ASSUME NEW i \in 1..Len(offers'), NEW j \in 1..Len(offers'), i < j,
              offers'[i].kind = offers'[j].kind
       PROVE  Follows(offers'[i].kind, offers'[i].item, offers'[j].item)
  <2>1. IsMark(offers'[i].kind) /\ offers'[i].kind # "comment"
    BY <1>7, <1>15
  <2> QED BY <2>1 DEF Follows
<1>16. InOrder'
  BY <1>1, <1>3, <1>14, <1>15 DEF InOrder, InTurn
<1> QED BY <1>13, <1>16

\* Ending a stage leaves nothing of it that is selected; the next has not begun.
LEMMA NextFilters ==
  ASSUME TypeOK, NextStage, result' = "none", ToldSoFar, InOrder
  PROVE  ToldSoFar' /\ InOrder'
<1>1. /\ ~(Visited(stage) /\ at <= Len(Elements)) /\ doc \in Documents
      /\ stage \in 1..Len(Walk(doc.type)) /\ at \in Nat /\ parts \subseteq Kinds
      /\ UNCHANGED <<doc, parts, offers, sent, seen>>
  BY DEF NextStage, TypeOK
<1>2. stage < Len(Walk(doc.type)) /\ stage' = stage + 1 /\ at' = 1
  BY DEF NextStage, Finish
<1>3. /\ Places' = Places /\ \A kind : IsMark(kind)' = IsMark(kind)
      /\ \A kind, a, b : Follows(kind, a, b)' = Follows(kind, a, b)
      /\ \A kind : PlacesOf(kind)' = PlacesOf(kind)
  BY <1>1, SameDocument
<1>4. ASSUME NEW p \in Places
      PROVE  LeftBehind(p)' <=> LeftBehind(p) \/ (p[1] = Name /\ p[2] >= at)
  <2>1. PICK t \in 1..Len(Walk(doc.type)) : p[1] = Walk(doc.type)[t]
    BY <1>1, PlaceIsMet
  <2>2. /\ LeftBehind(p) <=> Behind(t, p[2])
        /\ p[1] = Name <=> t = stage
    BY <2>1, BehindIs
  <2>3. p[2] \in 1..Len(doc.of[p[1]]) /\ p[2] \in Nat
    BY <1>1, PlaceIsMet
  <2>4. LeftBehind(p)' <=> Behind(t, p[2])'
    <3>1. \A u \in 1..Len(Walk(doc.type)) : p[1] = Walk(doc.type)[u] => u = t
      BY <1>1, <2>1, StagesApart, TypedContentAssumption
    <3> QED BY <1>1, <2>1, <3>1 DEF LeftBehind
  <2>5. Behind(t, p[2])' <=> Behind(t, p[2]) \/ (t = stage /\ p[2] >= at)
    BY <1>1, <1>2, <2>3 DEF Behind
  <2> QED BY <2>2, <2>4, <2>5
<1>5. Out' = Out
  BY <1>1 DEF Out, Gone, Waiting
<1>6. ASSUME NEW kind \in parts, ~IsMark(kind), NEW p \in Places
      PROVE  <<kind, p>> \in Out' <=> p \in PlacesOf(kind) /\ LeftBehind(p)'
  <2>1. <<kind, p>> \in Out <=> p \in PlacesOf(kind) /\ LeftBehind(p)
    BY <1>6 DEF ToldSoFar
  <2>2. p \in PlacesOf(kind) /\ p[1] = Name => p[2] < at /\ p[2] \in Nat
    BY <1>1, <1>6, NothingLeft, PlaceIsMet
  <2> QED BY <1>1, <1>4, <1>5, <2>1, <2>2
<1>7. ASSUME doc.type = "text"
      PROVE  Name # "finish" /\ ~(Name' = "finish" /\ at' > 1)
  <2>1. Name = Walk("text")[stage]
    BY <1>7 DEF Name
  <2>2. stage \in 1..9
    <3>1. Len(Walk(doc.type)) = 10
      BY <1>7, TextWalk
    <3> QED BY <1>1, <1>2, <3>1
  <2>3. ~(at' > 1)
    BY <1>2
  <2> QED BY <2>1, <2>2, <2>3, TextWalk
<1>8. \A p \in seen' : LeftBehind(p)'
  <2>1. seen \subseteq Places
    BY CommentsFinite DEF TypeOK
  <2> QED BY <1>1, <1>4, <2>1 DEF ToldSoFar
<1>9. ASSUME doc.type = "text", "comment" \in parts, NEW p \in Places
      PROVE  <<"comment", p>> \in Out' <=> p \in seen'
  BY <1>1, <1>5, <1>7, <1>9 DEF ToldSoFar
<1>10. ToldSoFar'
  BY <1>1, <1>3, <1>6, <1>7, <1>8, <1>9 DEF ToldSoFar
<1>11. InOrder'
  BY <1>1, <1>3 DEF InOrder, InTurn
<1> QED BY <1>10, <1>11

\* The sweep tells the comments that were not met, each once, and nothing else.
LEMMA SweepFilters ==
  ASSUME TypeOK, Sweep, ToldSoFar, InOrder
  PROVE  ToldSoFar' /\ InOrder'
<1>1. /\ offers = <<>> /\ at <= Len(Elements) /\ Name = "finish" /\ doc \in Documents
      /\ stage \in 1..Len(Walk(doc.type)) /\ at \in Nat \ {0} /\ at' = at + 1
      /\ UNCHANGED <<doc, parts, stage, sent, seen>>
  BY DEF Sweep, Ready, TypeOK
<1>2. doc.type = "text"
  <2>1. CASE doc.type = "spreadsheet"
    BY <1>1, <2>1 DEF Name, Walk
  <2>2. CASE doc.type = "presentation"
    BY <1>1, <2>2 DEF Name, Walk
  <2>3. CASE doc.type = "drawing"
    BY <1>1, <2>3 DEF Name, Walk
  <2> QED BY <1>1, <2>1, <2>2, <2>3, TypedContentAssumption
<1>3. at = 1
  <2>1. Len(Elements) = 1
    BY <1>1, <1>2, TypedContentAssumption DEF Elements
  <2> QED BY <1>1, <2>1
<1>4. /\ Places' = Places /\ \A kind : IsMark(kind)' = IsMark(kind)
      /\ \A kind, a, b : Follows(kind, a, b)' = Follows(kind, a, b)
      /\ \A kind : PlacesOf(kind)' = PlacesOf(kind)
      /\ Commented' = Commented /\ Name' = Name
  BY <1>1, SameDocument DEF Name
<1> DEFINE rest == IF "comment" \in parts THEN Commented \ seen ELSE {}
           size == Cardinality(rest)
<1>5. PICK order \in [1..size -> rest] :
        /\ \A i \in 1..Len(order), j \in 1..Len(order) : order[i] = order[j] => i = j
        /\ offers' = [i \in 1..Len(order) |-> [kind |-> "comment", item |-> order[i]]]
  BY DEF Sweep
<1>6. IsFiniteSet(rest)
  BY CommentsFinite, FS_Difference, FS_EmptySet
<1>7. rest \subseteq Commented \ seen /\ ("comment" \in parts => rest = Commented \ seen)
  OBVIOUS
<1> HIDE DEF rest
<1>8. size \in Nat
  BY <1>6, FS_CardinalityType
<1>9. IsFiniteSet(1..size) /\ Cardinality(1..size) = size
  BY <1>8, FS_Interval
<1>10. Len(order) = size /\ Len(offers') = size
  BY <1>5, <1>8
<1>11. order \in Injection(1..size, rest)
  BY <1>5, <1>10 DEF Injection, IsInjective
<1>12. order \in Surjection(1..size, rest)
  BY <1>6, <1>9, <1>11, FS_Injection
<1> HIDE DEF size
<1>13. \A n \in 1..Len(offers') :
         offers'[n].kind = "comment" /\ offers'[n].item = order[n] /\ order[n] \in rest
  BY <1>5, <1>10
<1>14. \A p : <<"comment", p>> \in Waiting' <=> p \in rest
  <2>1. ASSUME NEW p \in rest PROVE <<"comment", p>> \in Waiting'
    <3>1. PICK i \in 1..size : order[i] = p
      BY <1>12 DEF Surjection
    <3>2. i \in 1..Len(offers') /\ offers'[i].kind = "comment" /\ offers'[i].item = p
      BY <1>10, <1>13, <3>1
    <3> QED BY <3>2 DEF Waiting
  <2>2. ASSUME NEW p, <<"comment", p>> \in Waiting' PROVE p \in rest
    BY <1>13, <2>2 DEF Waiting
  <2> QED BY <2>1, <2>2
<1>15. \A pair \in Waiting' : pair[1] = "comment"
  BY <1>13 DEF Waiting
<1>16. Out = Gone /\ Gone' = Gone /\ Out' = Gone \cup Waiting'
  BY <1>1 DEF Out, Gone, Waiting
<1>17. ASSUME NEW p \in Places
       PROVE  LeftBehind(p)' <=> LeftBehind(p) \/ p = <<"finish", 1>>
  <2>1. PICK t \in 1..Len(Walk(doc.type)) : p[1] = Walk(doc.type)[t]
    BY <1>1, PlaceIsMet
  <2>2. /\ LeftBehind(p) <=> Behind(t, p[2])
        /\ p[1] = "finish" <=> t = stage
    BY <1>1, <2>1, BehindIs
  <2>3. p[2] \in 1..Len(doc.of[p[1]]) /\ p[2] \in Nat /\ p = <<p[1], p[2]>>
    BY <1>1, PlaceIsMet
  <2>4. LeftBehind(p)' <=> Behind(t, p[2])'
    <3>1. \A u \in 1..Len(Walk(doc.type)) : p[1] = Walk(doc.type)[u] => u = t
      BY <1>1, <2>1, StagesApart, TypedContentAssumption
    <3> QED BY <1>1, <2>1, <3>1 DEF LeftBehind
  <2>5. Behind(t, p[2])' <=> Behind(t, p[2]) \/ (t = stage /\ p[2] = 1)
    BY <1>1, <1>3, <2>3 DEF Behind
  <2>6. p = <<"finish", 1>> <=> t = stage /\ p[2] = 1
    BY <2>2, <2>3
  <2> QED BY <2>2, <2>4, <2>5, <2>6
<1>18. ASSUME NEW kind \in parts, ~IsMark(kind), NEW p \in Places
       PROVE  <<kind, p>> \in Out' <=> p \in PlacesOf(kind) /\ LeftBehind(p)'
  <2>1. <<kind, p>> \in Gone <=> p \in PlacesOf(kind) /\ LeftBehind(p)
    BY <1>16, <1>18 DEF ToldSoFar
  <2>2. <<kind, p>> \notin Waiting'
    BY <1>2, <1>15, <1>18 DEF IsMark
  <2>3. p = <<"finish", 1>> => p \notin PlacesOf(kind)
    <3> SUFFICES ASSUME p = <<"finish", 1>>, Holds("finish", 1, kind) PROVE FALSE
      BY DEF PlacesOf
    <3>1. kind \in Kinds /\ "finish" \in Stages(doc.type) /\ 1 \in 1..Len(doc.of["finish"])
      BY <1>1, PlaceIsMet DEF TypeOK
    <3>2. doc.of["finish"][1] \in Element(doc.type, "finish")
      BY <1>1, <3>1, ElementAt
    <3>3. doc.of["finish"][1].is \in {"other", "odd"}
      BY <3>2 DEF Element, Met
    <3>4. kind \in Mine("finish", doc.of["finish"][1])
      BY <1>1, <1>18, <3>1, MineIsHeld
    <3> QED BY <3>3, <3>4, OwnIs
  <2> QED BY <1>16, <1>17, <2>1, <2>2, <2>3
<1>19. ASSUME "comment" \in parts, NEW p \in Places
       PROVE  <<"comment", p>> \in Out' <=> p \in Commented
  <2>1. <<"comment", p>> \in Gone <=> p \in seen
    BY <1>2, <1>3, <1>16, <1>19 DEF ToldSoFar
  <2>2. seen \subseteq Commented
    BY DEF TypeOK
  <2> QED BY <1>7, <1>14, <1>16, <1>19, <2>1, <2>2
<1>20. \A p \in seen : LeftBehind(p)'
  <2>1. seen \subseteq Places
    BY CommentsFinite DEF TypeOK
  <2> QED BY <1>17, <2>1 DEF ToldSoFar
<1>21. ToldSoFar'
  BY <1>1, <1>3, <1>4, <1>18, <1>19, <1>20 DEF ToldSoFar
<1>22. ASSUME NEW i \in 1..Len(sent), NEW j \in 1..Len(offers'), sent[i].kind = offers'[j].kind
       PROVE  Follows(sent[i].kind, sent[i].item, offers'[j].item)
  <2>1. sent[i].kind = "comment" /\ offers'[j].item \in Commented \ seen /\ "comment" \in parts
    <3>1. rest # {} => "comment" \in parts
      BY DEF rest
    <3> QED BY <1>7, <1>13, <1>22, <3>1
  <2>2. sent[i].item \in Places /\ <<"comment", sent[i].item>> \in Out
    <3>1. sent[i] \in Event
      BY DEF TypeOK
    <3> QED BY <1>16, <2>1, <3>1 DEF Event, Gone
  <2>3. sent[i].item \in seen
    BY <1>2, <1>3, <2>1, <2>2 DEF ToldSoFar
  <2> QED BY <1>2, <2>1, <2>3 DEF Follows, IsMark
<1>23. ASSUME NEW i \in 1..Len(offers'), NEW j \in 1..Len(offers'), i < j
       PROVE  Follows(offers'[i].kind, offers'[i].item, offers'[j].item)
  <2>1. offers'[i].item # offers'[j].item
    BY <1>5, <1>10, <1>13, <1>23
  <2> QED BY <1>2, <1>13, <2>1 DEF Follows, IsMark
<1>24. InOrder'
  BY <1>1, <1>4, <1>22, <1>23 DEF InOrder, InTurn
<1> QED BY <1>21, <1>24

\* The event that goes was the first to wait: nothing changes of what is told, or
\* of its order.
LEMMA OfferFilters ==
  ASSUME TypeOK, Offer, ~failed, ToldSoFar, InOrder
  PROVE  ToldSoFar' /\ InOrder'
<1>1. /\ UNCHANGED <<doc, parts, stage, at, seen>> /\ doc \in Documents
      /\ offers \in Seq(Offered) /\ offers # <<>> /\ sent \in Seq(Event) /\ offers' = Tail(offers)
  BY DEF Offer, place, TypeOK
<1>2. /\ Places' = Places /\ \A kind : IsMark(kind)' = IsMark(kind)
      /\ \A kind, a, b : Follows(kind, a, b)' = Follows(kind, a, b)
      /\ \A kind : PlacesOf(kind)' = PlacesOf(kind)
      /\ Commented' = Commented /\ Name' = Name
  BY <1>1, SameDocument DEF Name
<1>3. Out' = Out
  BY OfferMoves
<1>4. \A p : LeftBehind(p)' = LeftBehind(p)
  BY <1>1 DEF LeftBehind, Behind
<1>5. ToldSoFar'
  BY <1>1, <1>2, <1>3, <1>4 DEF ToldSoFar
<1>6. PICK event : /\ sent' = Append(sent, event)
                   /\ event.kind = Head(offers).kind /\ event.item = Head(offers).item
  <2> DEFINE next == Head(offers)
  <2>1. PICK taken \in BOOLEAN :
          sent' = IF failed /\ IsMark(next.kind) THEN sent
                  ELSE Append(sent, [kind |-> next.kind, item |-> next.item,
                                     index |-> Index(next.kind, next.item), taken |-> taken])
    BY Zenon DEF Offer
  <2> DEFINE event == [kind |-> next.kind, item |-> next.item,
                       index |-> Index(next.kind, next.item), taken |-> taken]
  <2>2. event.kind = next.kind /\ event.item = next.item
    OBVIOUS
  <2>3. sent' = Append(sent, event)
    BY <2>1
  <2> HIDE DEF event
  <2> QED BY Zenon, <2>2, <2>3
<1>7. /\ Len(sent) \in Nat /\ Len(sent') = Len(sent) + 1 /\ sent'[Len(sent) + 1] = event
      /\ \A i \in 1..Len(sent) : sent'[i] = sent[i]
  BY <1>1, <1>6
<1>8. /\ Len(offers) \in Nat /\ Len(offers) > 0 /\ Len(offers') = Len(offers) - 1
      /\ Head(offers) = offers[1] /\ \A i \in 1..Len(offers') : offers'[i] = offers[i + 1]
  BY <1>1
<1>9. \A a : InTurn(a, event) <=> InTurn(a, offers[1])
  BY <1>6, <1>8 DEF InTurn
<1>10. \A a : InTurn(event, a) <=> InTurn(offers[1], a)
  BY <1>6, <1>8 DEF InTurn
<1>11. \A a, b : InTurn(a, b)' <=> InTurn(a, b)
  BY <1>2 DEF InTurn
<1>12. /\ \A i, j \in 1..Len(sent) : i < j => InTurn(sent[i], sent[j])
       /\ \A i, j \in 1..Len(offers) : i < j => InTurn(offers[i], offers[j])
       /\ \A i \in 1..Len(sent), j \in 1..Len(offers) : InTurn(sent[i], offers[j])
  BY DEF InOrder
<1>13. ASSUME NEW i \in 1..Len(sent'), NEW j \in 1..Len(sent'), i < j
       PROVE  InTurn(sent'[i], sent'[j])
  <2>1. i \in 1..Len(sent) /\ sent'[i] = sent[i]
    BY <1>7, <1>13
  <2>2. CASE j \in 1..Len(sent)
    BY <1>7, <1>12, <1>13, <2>1, <2>2
  <2>3. CASE j = Len(sent) + 1
    <3>1. 1 \in 1..Len(offers)
      BY <1>8
    <3> QED BY <1>7, <1>9, <1>12, <2>1, <2>3, <3>1
  <2> QED BY <1>7, <2>2, <2>3
<1>14. \A i \in 1..Len(offers') :
         i + 1 \in 1..Len(offers) /\ i + 1 > 1 /\ offers'[i] = offers[i + 1]
  BY <1>8
<1>15. ASSUME NEW i \in 1..Len(offers'), NEW j \in 1..Len(offers'), i < j
       PROVE  InTurn(offers'[i], offers'[j])
  <2>1. i + 1 < j + 1
    BY <1>8, <1>15
  <2> QED BY <1>12, <1>14, <2>1
<1>16. ASSUME NEW i \in 1..Len(sent'), NEW j \in 1..Len(offers')
       PROVE  InTurn(sent'[i], offers'[j])
  <2>1. CASE i \in 1..Len(sent)
    BY <1>7, <1>12, <1>14, <2>1
  <2>2. CASE i = Len(sent) + 1
    <3>1. 1 \in 1..Len(offers)
      BY <1>8
    <3> QED BY <1>7, <1>10, <1>12, <1>14, <2>2, <3>1
  <2> QED BY <1>7, <2>1, <2>2
<1>17. InOrder'
  <2>1. /\ \A i, j \in 1..Len(sent') : i < j => InTurn(sent'[i], sent'[j])
        /\ \A i, j \in 1..Len(offers') : i < j => InTurn(offers'[i], offers'[j])
        /\ \A i \in 1..Len(sent'), j \in 1..Len(offers') : InTurn(sent'[i], offers'[j])
    BY <1>13, <1>15, <1>16
  <2> QED BY <1>11, <2>1 DEF InOrder
<1> QED BY <1>5, <1>17

\* A walk that has not begun has told nothing and left nothing behind.
Fresh ==
  doc \in Documents /\ stage = 1 /\ at = 1 /\ offers = <<>> /\ sent = <<>> /\ seen = {}
LEMMA FreshFilters == Fresh => ToldSoFar /\ InOrder /\ Selected
<1> SUFFICES ASSUME Fresh PROVE ToldSoFar /\ InOrder /\ Selected
  OBVIOUS
<1> USE DEF Fresh
<1>1. Out = {}
  BY DEF Out, Gone, Waiting
<1>2. ASSUME NEW p \in Places PROVE ~LeftBehind(p)
  <2>1. p[2] \in 1..Len(doc.of[p[1]])
    BY PlaceIsMet
  <2> QED BY <2>1 DEF LeftBehind, Behind
<1>3. ToldSoFar
  BY <1>1, <1>2 DEF ToldSoFar
<1> QED BY <1>3 DEF InOrder, Selected

\* Nothing is offered that is not selected.
LEMMA SelectedStep == ASSUME TypeOK, Selected, [Next]_vars PROVE Selected'
<1>1. offers \in Seq(Offered) /\ sent \in Seq(Event)
  BY DEF TypeOK
<1>2. CASE UNCHANGED <<parts, offers, sent>>
  BY <1>2 DEF Selected
<1>3. CASE Read \/ ReadInPart
  <2>1. Ready /\ UNCHANGED <<parts, sent>>
    BY <1>3 DEF Read, ReadInPart
  <2>2. PICK kinds \in Seq(Kinds) : ReadAs(kinds)
    BY <1>3, <2>1, ReadKinds
  <2>3. offers' = Told(kinds) /\ Tale(Told(kinds), kinds, Len(kinds))
    BY <2>2, ToldIsTale DEF ReadAs
  <2> DEFINE These == [kind : Kinds \cap parts, item : {Item}]
  <2>4. offers' \in Seq(These)
    BY <2>3 DEF Tale
  <2> HIDE DEF These
  <2>5. \A n \in 1..Len(offers') : offers'[n] \in These
    BY <2>4
  <2>6. \A n \in 1..Len(offers') : offers'[n].kind \in parts
    BY <2>5 DEF These
  <2> QED BY <2>1, <2>6 DEF Selected
<1>4. CASE Sweep
  <2>1. UNCHANGED <<parts, sent>>
    BY <1>4 DEF Sweep
  <2> DEFINE rest == IF "comment" \in parts THEN Commented \ seen ELSE {}
             size == Cardinality(rest)
  <2>2. PICK order \in [1..size -> rest] :
          offers' = [i \in 1..Len(order) |-> [kind |-> "comment", item |-> order[i]]]
    BY <1>4 DEF Sweep
  <2>3. size \in Nat
    <3>1. IsFiniteSet(rest)
      BY CommentsFinite, FS_Difference, FS_EmptySet
    <3> HIDE DEF rest
    <3> QED BY <3>1, FS_CardinalityType
  <2>4. rest # {} => "comment" \in parts
    OBVIOUS
  <2> HIDE DEF size, rest
  <2>5. Len(order) = size /\ Len(offers') = size /\ \A i \in 1..size : order[i] \in rest
    BY <2>2, <2>3
  <2>6. \A i \in 1..Len(offers') : offers'[i].kind \in parts
    BY <2>2, <2>4, <2>5
  <2> QED BY <2>1, <2>6 DEF Selected
<1>5. CASE Offer
  <2>1. parts' = parts /\ offers # <<>> /\ offers' = Tail(offers)
    BY <1>5 DEF Offer
  <2>2. PICK event : /\ sent' = sent \/ sent' = Append(sent, event)
                     /\ event.kind = Head(offers).kind
    <3> DEFINE next == Head(offers)
    <3>1. PICK taken \in BOOLEAN :
            sent' = IF failed /\ IsMark(next.kind) THEN sent
                    ELSE Append(sent, [kind |-> next.kind, item |-> next.item,
                                       index |-> Index(next.kind, next.item), taken |-> taken])
      BY Zenon, <1>5 DEF Offer
    <3> DEFINE event == [kind |-> next.kind, item |-> next.item,
                         index |-> Index(next.kind, next.item), taken |-> taken]
    <3>2. event.kind = next.kind
      OBVIOUS
    <3>3. sent' = sent \/ sent' = Append(sent, event)
      BY <3>1
    <3> HIDE DEF event
    <3> QED BY Zenon, <3>2, <3>3
  <2>3. /\ Len(offers) \in Nat /\ Head(offers) = offers[1] /\ 1 \in 1..Len(offers)
        /\ \A i \in 1..Len(offers') : i + 1 \in 1..Len(offers) /\ offers'[i] = offers[i + 1]
    BY <1>1, <2>1
  <2>4. event.kind \in parts /\ \A i \in 1..Len(offers') : offers'[i].kind \in parts
    BY <2>2, <2>3 DEF Selected
  <2>5. CASE sent' = Append(sent, event)
    <3>1. /\ Len(sent) \in Nat /\ Len(sent') = Len(sent) + 1 /\ sent'[Len(sent) + 1] = event
          /\ \A i \in 1..Len(sent) : sent'[i] = sent[i]
      BY <1>1, <2>5
    <3>2. 1..Len(sent') = 1..Len(sent) \cup {Len(sent) + 1}
      BY <3>1
    <3> QED BY <2>1, <2>4, <3>1, <3>2 DEF Selected
  <2> QED BY <2>1, <2>2, <2>4, <2>5 DEF Selected
<1>6. CASE Redacted
  <2>1. CASE Passed
    BY <1>6, <2>1 DEF Redacted, Start, Selected
  <2>2. CASE ~Passed
    BY <1>2, <1>6, <2>2 DEF Redacted
  <2> QED BY <2>1, <2>2
<1> QED
  BY <1>2, <1>3, <1>4, <1>5, <1>6
     DEF Next, vars, NextStage, GiveUp, NoBody, Abort, Done

\* The filter holds as long as nothing fails.
LEMMA FilteringStep ==
  ASSUME TypeOK, Selected, Known, Filtering, [Next]_vars
  PROVE  Filtering'
<1> SUFFICES ASSUME Clean', result' = "none" PROVE ToldSoFar' /\ InOrder'
  BY DEF Filtering
<1>1. doc \in Documents /\ warnings \in Nat /\ warnings' = 0 /\ UNCHANGED doc
  <2>1. UNCHANGED doc
    BY DEF Next, vars, NextStage, Read, ReadInPart, GiveUp, NoBody, Abort, Sweep, Offer,
           Redacted, Done
  <2> QED BY <2>1 DEF TypeOK, Clean
<1>2. ASSUME UNCHANGED sent, warnings = 0, result = "none" PROVE ToldSoFar /\ InOrder
  <2>1. Clean
    BY <1>2 DEF Clean
  <2> QED BY <1>2, <2>1 DEF Filtering
<1>3. CASE UNCHANGED vars
  <2>1. ToldSoFar /\ InOrder
    BY <1>1, <1>2, <1>3 DEF vars
  <2>2. UNCHANGED <<doc, parts, stage, at, offers, sent, seen>>
    BY <1>3 DEF vars
  <2>3. /\ Places' = Places /\ \A kind : IsMark(kind)' = IsMark(kind)
        /\ \A kind, a, b : Follows(kind, a, b)' = Follows(kind, a, b)
        /\ \A kind : PlacesOf(kind)' = PlacesOf(kind)
        /\ Commented' = Commented
    BY <2>2, SameDocument
  <2>4. Out' = Out /\ Name' = Name /\ \A p : LeftBehind(p)' = LeftBehind(p)
    BY <2>2 DEF Out, Gone, Waiting, Name, LeftBehind, Behind
  <2>5. ToldSoFar'
    BY <2>1, <2>2, <2>3, <2>4 DEF ToldSoFar
  <2>6. InOrder'
    BY <2>1, <2>2, <2>3 DEF InOrder, InTurn
  <2> QED BY <2>5, <2>6
<1>4. CASE NextStage
  <2>1. result = "none" /\ UNCHANGED <<sent, warnings>>
    BY <1>4 DEF NextStage
  <2> QED BY <1>1, <1>2, <1>4, <2>1, NextFilters
<1>5. CASE Read
  <2>1. result = "none" /\ UNCHANGED sent /\ warnings = 0
    BY <1>1, <1>5 DEF Read, Ready, Reading
  <2> QED BY <1>1, <1>2, <1>5, <2>1, ReadFilters
<1>6. CASE ReadInPart \/ GiveUp \/ NoBody \/ Abort
  BY <1>1, <1>6 DEF ReadInPart, GiveUp, NoBody, Abort
<1>7. CASE Sweep
  <2>1. result = "none" /\ UNCHANGED <<sent, warnings>>
    BY <1>7 DEF Sweep, Ready, Reading
  <2> QED BY <1>1, <1>2, <1>7, <2>1, SweepFilters
<1>8. CASE Offer
  <2>1. result = "none" /\ warnings = 0
    BY <1>1, <1>8 DEF Offer, Reading
  <2>2. \A i \in 1..Len(sent) : sent[i].taken
    <3>1. sent \in Seq(Event)
      BY DEF TypeOK
    <3>2. sent' = sent \/ \E event : sent' = Append(sent, event)
      BY <1>8 DEF Offer
    <3>3. \A i \in 1..Len(sent) : i \in 1..Len(sent') /\ sent'[i] = sent[i]
      BY <3>1, <3>2
    <3> QED BY <3>3 DEF Clean
  <2>3. ~failed /\ Clean
    BY <2>1, <2>2 DEF Known, Clean
  <2> QED BY <1>8, <2>1, <2>3, OfferFilters DEF Filtering
<1>9. CASE Redacted
  <2>1. Passed
    BY <1>9 DEF Redacted
  <2>2. PICK wanted : Start("redacted", wanted)
    BY <1>9, <2>1 DEF Redacted
  <2>3. /\ doc' \in Documents /\ stage' = 1 /\ at' = 1 /\ offers' = <<>> /\ sent' = <<>>
        /\ seen' = {}
    BY <1>1, <2>2 DEF Start
  <2>4. Fresh'
    BY <2>3 DEF Fresh
  <2> QED BY <2>4, FreshFilters, PTL
<1>10. CASE Done
  BY <1>3, <1>10 DEF Done
<1> QED BY <1>3, <1>4, <1>5, <1>6, <1>7, <1>8, <1>9, <1>10 DEF Next

\* What was told when the last stage is over is the whole of what is selected.
LEMMA EndFilters ==
  ASSUME TypeOK, Selected, Filtering, NextStage, result' # "none", Whole'
  PROVE  /\ \A kind \in parts \ {"field"} : Sent(kind) = PlacesOf(kind)
         /\ \A i, j \in 1..Len(sent) :
              i < j /\ sent[i].kind = sent[j].kind =>
                Follows(sent[i].kind, sent[i].item, sent[j].item)
<1>1. /\ ~(Visited(stage) /\ at <= Len(Elements)) /\ doc \in Documents /\ offers = <<>>
      /\ stage = Len(Walk(doc.type)) /\ at \in Nat \ {0} /\ parts \subseteq Kinds
      /\ result = "none" /\ UNCHANGED <<sent, warnings>>
  BY DEF NextStage, TypeOK
<1>2. ToldSoFar /\ InOrder
  BY <1>1 DEF Whole, Clean, Filtering
<1>3. Out = Gone
  BY <1>1 DEF Out, Gone, Waiting
<1>4. ASSUME NEW kind PROVE Sent(kind) = {p \in Places : <<kind, p>> \in Gone}
  <2>1. \A i \in 1..Len(sent) : sent[i].item \in Places
    <3>1. \A i \in 1..Len(sent) : sent[i] \in Event
      BY DEF TypeOK
    <3> QED BY <3>1 DEF Event
  <2> QED BY <2>1 DEF Sent, Gone
<1>5. ASSUME NEW kind \in parts, ~IsMark(kind) PROVE Sent(kind) = PlacesOf(kind)
  <2>1. ASSUME NEW p \in PlacesOf(kind) PROVE LeftBehind(p)
    <3>1. p \in Places
      BY DEF PlacesOf
    <3>2. PICK t \in 1..Len(Walk(doc.type)) : p[1] = Walk(doc.type)[t]
      BY <1>1, <3>1, PlaceIsMet
    <3>3. /\ LeftBehind(p) <=> Behind(t, p[2])
          /\ p[1] = Name <=> t = stage
      BY <3>2, BehindIs
    <3>4. t = stage => p[2] < at
      BY <1>1, <1>5, <2>1, <3>3, NothingLeft
    <3>5. t # stage => t < stage
      BY <1>1, <3>2
    <3> QED BY <3>3, <3>4, <3>5 DEF Behind
  <2>2. PlacesOf(kind) \subseteq Places
    BY DEF PlacesOf
  <2> QED BY <1>2, <1>3, <1>4, <1>5, <2>1, <2>2 DEF ToldSoFar
<1>6. ASSUME doc.type = "text", "comment" \in parts PROVE Sent("comment") = PlacesOf("comment")
  <2>1. Name = "finish" /\ Visited(stage)
    <3>1. Walk("text")[10] = "finish" /\ Len(Walk("text")) = 10
      BY TextWalk
    <3>2. "comment" \in Wanted["finish"]
      BY DEF Wanted
    <3> QED BY <1>1, <1>6, <3>1, <3>2 DEF Name, Visited
  <2>2. at > 1
    <3>1. Len(Elements) = 1
      BY <1>1, <1>6, <2>1, TypedContentAssumption DEF Elements
    <3> QED BY <1>1, <2>1, <3>1
  <2>3. \A p \in Places : <<"comment", p>> \in Gone <=> p \in Commented
    BY <1>2, <1>3, <1>6, <2>1, <2>2 DEF ToldSoFar
  <2>4. ASSUME NEW p \in Places PROVE p \in Commented <=> p \in PlacesOf("comment")
    <3>1. /\ p = <<p[1], p[2]>> /\ p[1] \in Stages(doc.type) /\ p[2] \in 1..Len(doc.of[p[1]])
          /\ DOMAIN doc.of = Stages(doc.type)
      BY <1>1, PlaceIsMet, TypedContentAssumption
    <3>2. p \in Commented <=> doc.of[p[1]][p[2]].mark = "comment"
      BY <3>1 DEF Commented
    <3>3. doc.of[p[1]][p[2]] \in Element(doc.type, p[1])
      BY <1>1, <3>1, ElementAt
    <3>4. doc.of[p[1]][p[2]].is \in Met[p[1]] \cup {"other", "odd"}
      BY <3>3 DEF Element
    <3>5. doc.of[p[1]][p[2]].is # "annotation"
      BY <1>6, <3>1, <3>4, WhereMet
    <3>6. p \in PlacesOf("comment") <=> doc.of[p[1]][p[2]].mark = "comment"
      BY <3>5 DEF PlacesOf, Holds
    <3> QED BY <3>2, <3>6
  <2>5. PlacesOf("comment") \subseteq Places
    BY DEF PlacesOf
  <2> QED BY <1>4, <2>3, <2>4, <2>5
<1>7. \A kind \in parts \ {"field"} : Sent(kind) = PlacesOf(kind)
  BY <1>5, <1>6 DEF IsMark
<1> QED BY <1>2, <1>7 DEF InOrder, InTurn

\* The property is kept by each step.
LEMMA FilterStep ==
  ASSUME TypeOK, Selected, Selected', Filtering, SelectionOnlyFilters, [Next]_vars
  PROVE  SelectionOnlyFilters'
<1>1. UNCHANGED doc
  BY DEF Next, vars, NextStage, Read, ReadInPart, GiveUp, NoBody, Abort, Sweep, Offer,
         Redacted, Done
<1>2. CASE UNCHANGED <<parts, sent, result, warnings>>
  <2>1. /\ \A kind : Sent(kind)' = Sent(kind) /\ PlacesOf(kind)' = PlacesOf(kind)
        /\ \A kind, a, b : Follows(kind, a, b)' = Follows(kind, a, b)
    BY <1>1, <1>2, SameDocument DEF Sent
  <2>2. Whole' = Whole
    BY <1>2 DEF Whole
  <2> QED BY <1>2, <2>1, <2>2 DEF SelectionOnlyFilters
<1>3. CASE ~Whole'
  BY <1>3 DEF SelectionOnlyFilters, Selected
<1>4. CASE NextStage
  <2>1. CASE result' = "none"
    BY <1>3, <2>1 DEF Whole
  <2>2. CASE result' # "none" /\ Whole'
    <3>1. UNCHANGED <<parts, sent>>
      BY <1>4 DEF NextStage
    <3>2. /\ \A kind : Sent(kind)' = Sent(kind) /\ PlacesOf(kind)' = PlacesOf(kind)
          /\ \A kind, a, b : Follows(kind, a, b)' = Follows(kind, a, b)
      BY <1>1, <3>1, SameDocument DEF Sent
    <3>3. /\ \A kind \in parts \ {"field"} : Sent(kind) = PlacesOf(kind)
          /\ \A i, j \in 1..Len(sent) :
               i < j /\ sent[i].kind = sent[j].kind =>
                 Follows(sent[i].kind, sent[i].item, sent[j].item)
      BY <1>4, <2>2, EndFilters
    <3> QED BY <3>1, <3>2, <3>3 DEF SelectionOnlyFilters, Selected
  <2> QED BY <1>3, <2>1, <2>2
<1>5. CASE Read \/ ReadInPart \/ GiveUp \/ Sweep \/ Offer
  <2>1. result' # "true"
    BY <1>5 DEF Read, ReadInPart, GiveUp, Sweep, Offer, Ready, Reading
  <2> QED BY <1>3, <2>1 DEF Whole
<1>6. CASE NoBody \/ Abort
  <2>1. warnings' # 0
    BY <1>6 DEF NoBody, Abort, TypeOK
  <2> QED BY <1>3, <2>1 DEF Whole
<1>7. CASE Redacted
  <2>1. CASE Passed
    <3>1. result' = "none"
      BY <1>7, <2>1 DEF Redacted, Start
    <3> QED BY <1>3, <3>1 DEF Whole
  <2>2. CASE ~Passed
    BY <1>2, <1>7, <2>2 DEF Redacted
  <2> QED BY <2>1, <2>2
<1> QED BY <1>2, <1>4, <1>5, <1>6, <1>7 DEF Next, Done, vars

\* A selection leaves out whole kinds and nothing else, whatever the document holds
\* and whichever parts are selected.
THEOREM SelectionFilters == Spec => []SelectionOnlyFilters
<1>1. Init => EarlyIsUnmarked /\ Known /\ RefusalReported
  BY DEF Init, EarlyIsUnmarked, Known, RefusalReported
<1>2. Init => Selected /\ Filtering /\ SelectionOnlyFilters
  <2> SUFFICES ASSUME Init PROVE Selected /\ Filtering /\ SelectionOnlyFilters
    OBVIOUS
  <2>1. ToldSoFar /\ InOrder /\ Selected
    BY FreshFilters DEF Init, Fresh
  <2> QED BY <2>1 DEF Init, Filtering, Selected, SelectionOnlyFilters, Whole
<1> QED
  BY <1>1, <1>2, EarlyStep, RefusalStep, SelectedStep, FilteringStep, FilterStep, TypeCorrect, PTL
     DEF Spec

----------------------------------------------------------------------------
(* The grid of a text table *)

\* What the proof needs of the types.
MergeTyped ==
  /\ table \in Tables /\ pending \subseteq Edges(table)
  /\ lines \in Nat /\ start \in Nat
  /\ line \in [Edges(table) \ pending -> Nat]

\* The sweep goes from left to right: what is merged lies left of what is not.
Frontier ==
  \A f \in pending :
    start <= Position(f) /\ \A e \in DOMAIN line : Position(e) <= Position(f)

\* The line begun last holds the edges of rows, from start on; those on the
\* lines before it lie no further right than start.
LastLine ==
  \A e \in DOMAIN line :
    /\ lines > 0 /\ line[e] <= lines - 1
    /\ line[e] = lines - 1 => e[1] \in rows /\ start <= Position(e)

MergeInv ==
  MergeTyped /\ Frontier /\ LastLine /\ RowsKeepTheirEdges /\ LinesFollowThePage

----------------------------------------------------------------------------
LEMMA ToleranceIsNat == Tolerance \in Nat
BY GridAssumption DEF Tolerance

\* Positions are numbers, and do not decrease along a row.
LEMMA RowIsSequence ==
  ASSUME NEW t \in Tables, NEW r \in Rows(t)
  PROVE  Row(t, r) \in Seq(Nat)
<1>1. t.separators \in Seq(Seq(Nat)) /\ Sum \in Nat
  BY GridAssumption
<1>2. t.separators[r] \in Seq(Nat)
  BY <1>1 DEF Rows
<1>3. <<0>> \in Seq(Nat) /\ <<Sum>> \in Seq(Nat)
  BY <1>1
<1>4. <<0>> \o t.separators[r] \in Seq(Nat)
  BY <1>2, <1>3
<1> QED BY <1>3, <1>4 DEF Row

LEMMA PositionIsNat ==
  ASSUME MergeTyped, NEW e \in Edges(table)
  PROVE  Position(e) \in Nat
<1>1. PICK r \in Rows(table) : \E i \in 1..Len(Row(table, r)) : e = <<r, i>>
  BY DEF Edges
<1>a. PICK i \in 1..Len(Row(table, r)) : e = <<r, i>>
  BY <1>1
<1>2. Row(table, r) \in Seq(Nat)
  BY RowIsSequence DEF MergeTyped
<1>3. Row(table, r)[i] \in Nat
  BY <1>2
<1> QED BY <1>a, <1>3 DEF Position

LEMMA EdgesArePairs ==
  ASSUME NEW e \in Edges(table)
  PROVE  /\ e = <<e[1], e[2]>> /\ e[1] \in Rows(table)
         /\ e[2] \in 1..Len(Row(table, e[1])) /\ Position(e) = Row(table, e[1])[e[2]]
<1>1. PICK r \in Rows(table) : \E i \in 1..Len(Row(table, r)) : e = <<r, i>>
  BY DEF Edges
<1>2. PICK i \in 1..Len(Row(table, r)) : e = <<r, i>>
  BY <1>1
<1> QED BY <1>2 DEF Position

LEMMA RowAscends ==
  ASSUME MergeTyped, NEW e \in Edges(table), NEW f \in Edges(table),
         e[1] = f[1], e[2] < f[2]
  PROVE  Position(e) <= Position(f)
<1>1. PICK r \in Rows(table) : \E i \in 1..Len(Row(table, r)) : e = <<r, i>>
  BY DEF Edges
<1>a. PICK i \in 1..Len(Row(table, r)) : e = <<r, i>>
  BY <1>1
<1>2. PICK s \in Rows(table) : \E j \in 1..Len(Row(table, s)) : f = <<s, j>>
  BY DEF Edges
<1>b. PICK j \in 1..Len(Row(table, s)) : f = <<s, j>>
  BY <1>2
<1>3. s = r /\ i < j
  BY <1>a, <1>b
<1>4. Ascending(Row(table, r))
  BY GridAssumption DEF MergeTyped
<1> QED BY <1>a, <1>b, <1>3, <1>4 DEF Position, Ascending

----------------------------------------------------------------------------
LEMMA MergeInit == ASSUME GridInit PROVE MergeInv
<1>1. DOMAIN line = {} /\ Edges(table) \ pending = {}
  BY DEF GridInit
<1>2. line \in [Edges(table) \ pending -> Nat]
  BY <1>1 DEF GridInit
<1>3. MergeTyped
  BY <1>2 DEF GridInit, MergeTyped
<1>4. \A f \in pending : Position(f) \in Nat
  BY <1>3, PositionIsNat DEF GridInit
<1>5. Frontier
  BY <1>1, <1>4 DEF GridInit, Frontier
<1> QED BY <1>1, <1>3, <1>5 DEF MergeInv, LastLine, RowsKeepTheirEdges, LinesFollowThePage

\* One edge more: it is the leftmost of those that were left.
LEMMA MergeStep == ASSUME MergeInv, Merge PROVE MergeInv'
<1>1. PICK edge \in pending :
        /\ \A other \in pending : Position(edge) <= Position(other)
        /\ pending' = pending \ {edge}
        /\ start' = StartOf(edge)
        /\ lines' = IF Begins(edge) THEN lines + 1 ELSE lines
        /\ rows' = (IF Begins(edge) THEN {} ELSE rows) \cup {edge[1]}
        /\ line' = [e \in (Edges(table) \ pending) \cup {edge} |->
                      IF e = edge THEN lines' - 1 ELSE line[e]]
  BY DEF Merge
<1>2. table' = table
  BY DEF Merge
<1>3. /\ table \in Tables /\ pending \subseteq Edges(table) /\ edge \in Edges(table)
      /\ lines \in Nat /\ start \in Nat /\ line \in [Edges(table) \ pending -> Nat]
      /\ DOMAIN line = Edges(table) \ pending
  BY DEF MergeInv, MergeTyped
<1>4. \A e \in Edges(table) : Position(e) \in Nat /\ Position(e)' = Position(e)
  BY <1>2, PositionIsNat DEF MergeInv, Position
<1>5. Tolerance \in Nat
  BY ToleranceIsNat
<1>6. /\ DOMAIN line' = DOMAIN line \cup {edge} /\ edge \notin DOMAIN line
      /\ DOMAIN line' \subseteq Edges(table)
      /\ line'[edge] = lines' - 1
      /\ \A e \in DOMAIN line : line'[e] = line[e]
  BY <1>1, <1>3
<1>7. \A e \in DOMAIN line : Position(e) <= Position(edge)
  BY <1>1 DEF MergeInv, Frontier
<1>8. CASE Begins(edge)
  <2>1. /\ lines' = lines + 1 /\ rows' = {edge[1]} /\ start' = Position(edge)
        /\ line'[edge] = lines
    BY <1>1, <1>3, <1>6, <1>8 DEF StartOf
  <2>2. \A e \in DOMAIN line : line[e] < lines /\ line[e] \in Nat
    BY <1>3 DEF MergeInv, LastLine
  <2>3. MergeTyped'
    <3>1. line' \in [Edges(table) \ pending' -> Nat]
      BY <1>1, <1>3, <1>6, <2>1
    <3> QED BY <1>1, <1>2, <1>3, <1>4, <2>1, <3>1 DEF MergeTyped
  <2>4. Frontier'
    <3> SUFFICES ASSUME NEW f \in pending'
                 PROVE  /\ start' <= Position(f)'
                        /\ \A e \in DOMAIN line' : Position(e)' <= Position(f)'
      BY DEF Frontier
    <3>1. f \in pending /\ f \in Edges(table) /\ Position(edge) <= Position(f)
      BY <1>1, <1>3
    <3>2. start' <= Position(f)
      BY <2>1, <3>1
    <3>3. ASSUME NEW e \in DOMAIN line' PROVE Position(e) <= Position(f)
      <4>1. e = edge \/ e \in DOMAIN line
        BY <1>6
      <4> QED BY <3>1, <4>1 DEF MergeInv, Frontier
    <3>4. \A e \in DOMAIN line' : Position(e)' = Position(e)
      BY <1>4, <1>6
    <3> QED BY <1>4, <3>1, <3>2, <3>3, <3>4
  <2>5. LastLine'
    BY <1>3, <1>4, <1>6, <2>1, <2>2 DEF LastLine
  <2>6. RowsKeepTheirEdges'
    <3> SUFFICES ASSUME NEW e \in DOMAIN line', NEW f \in DOMAIN line',
                        e[1] = f[1], e[2] < f[2]
                 PROVE  /\ line'[e] # line'[f]
                        /\ Position(e) < Position(f) => line'[e] < line'[f]
      BY <1>4, <1>6 DEF RowsKeepTheirEdges
    <3>0. Position(e) \in Nat /\ Position(f) \in Nat /\ e # f
      BY <1>4, <1>6, EdgesArePairs
    <3>1. CASE e \in DOMAIN line /\ f \in DOMAIN line
      BY <1>6, <3>1 DEF MergeInv, RowsKeepTheirEdges
    <3>2. CASE e \in DOMAIN line /\ f = edge
      BY <1>6, <2>1, <2>2, <3>2
    <3>3. CASE e = edge
      <4>1. f \in DOMAIN line /\ Position(f) <= Position(e)
        BY <1>6, <1>7, <3>0, <3>3
      <4>2. line'[f] < line'[e]
        BY <1>6, <2>1, <2>2, <3>3, <4>1
      <4> QED BY <1>6, <2>1, <2>2, <3>0, <3>3, <4>1, <4>2
    <3> QED BY <1>6, <3>1, <3>2, <3>3
  <2>7. LinesFollowThePage'
    <3> SUFFICES ASSUME NEW e \in DOMAIN line', NEW f \in DOMAIN line'
                 PROVE  /\ Position(e) < Position(f) => line'[e] <= line'[f]
                        /\ Position(e) + Tolerance < Position(f) => line'[e] < line'[f]
      BY <1>4, <1>5, <1>6 DEF LinesFollowThePage
    <3>1. CASE e \in DOMAIN line /\ f \in DOMAIN line
      BY <1>6, <3>1 DEF MergeInv, LinesFollowThePage
    <3>2. CASE e \in DOMAIN line /\ f = edge
      BY <1>3, <1>6, <2>1, <2>2, <3>2
    <3>3. CASE e = edge
      BY <1>3, <1>4, <1>5, <1>6, <1>7, <3>3
    <3> QED BY <1>6, <3>1, <3>2, <3>3
  <2> QED BY <2>3, <2>4, <2>5, <2>6, <2>7 DEF MergeInv
<1>9. CASE ~Begins(edge)
  <2>1. /\ lines' = lines /\ rows' = rows \cup {edge[1]} /\ start' = start
        /\ line'[edge] = lines - 1 /\ lines > 0
        /\ Position(edge) - start <= Tolerance /\ edge[1] \notin rows
    BY <1>1, <1>3, <1>4, <1>5, <1>6, <1>9 DEF StartOf, Begins
  <2>2. \A e \in DOMAIN line :
          /\ line[e] <= lines - 1 /\ line[e] \in Nat
          /\ line[e] = lines - 1 => e[1] \in rows /\ start <= Position(e)
    BY <1>3 DEF MergeInv, LastLine
  <2>3. MergeTyped'
    <3>1. line' \in [Edges(table) \ pending' -> Nat]
      BY <1>1, <1>3, <1>6, <2>1
    <3> QED BY <1>1, <1>2, <1>3, <2>1, <3>1 DEF MergeTyped
  <2>4. Frontier'
    <3> SUFFICES ASSUME NEW f \in pending'
                 PROVE  /\ start' <= Position(f)'
                        /\ \A e \in DOMAIN line' : Position(e)' <= Position(f)'
      BY DEF Frontier
    <3>1. f \in pending /\ f \in Edges(table) /\ Position(edge) <= Position(f)
      BY <1>1, <1>3
    <3>2. start' <= Position(f)
      BY <2>1, <3>1 DEF MergeInv, Frontier
    <3>3. ASSUME NEW e \in DOMAIN line' PROVE Position(e) <= Position(f)
      <4>1. e = edge \/ e \in DOMAIN line
        BY <1>6
      <4> QED BY <3>1, <4>1 DEF MergeInv, Frontier
    <3>4. \A e \in DOMAIN line' : Position(e)' = Position(e)
      BY <1>4, <1>6
    <3> QED BY <1>4, <3>1, <3>2, <3>3, <3>4
  <2>5. LastLine'
    <3>1. start <= Position(edge)
      BY DEF MergeInv, Frontier
    <3> QED BY <1>3, <1>4, <1>6, <2>1, <2>2, <3>1 DEF LastLine
  <2>6. RowsKeepTheirEdges'
    <3> SUFFICES ASSUME NEW e \in DOMAIN line', NEW f \in DOMAIN line',
                        e[1] = f[1], e[2] < f[2]
                 PROVE  /\ line'[e] # line'[f]
                        /\ Position(e) < Position(f) => line'[e] < line'[f]
      BY <1>4, <1>6 DEF RowsKeepTheirEdges
    <3>0. Position(e) \in Nat /\ Position(f) \in Nat /\ e # f
      BY <1>4, <1>6, EdgesArePairs
    <3>1. CASE e \in DOMAIN line /\ f \in DOMAIN line
      BY <1>6, <3>1 DEF MergeInv, RowsKeepTheirEdges
    <3>2. CASE e \in DOMAIN line /\ f = edge
      <4>1. line[e] # lines - 1
        BY <2>1, <2>2, <3>2
      <4> QED BY <1>3, <1>6, <2>1, <2>2, <3>2, <4>1
    <3>3. CASE e = edge
      <4>1. f \in DOMAIN line /\ Position(f) <= Position(e)
        BY <1>6, <1>7, <3>0, <3>3
      <4>2. line[f] # lines - 1
        BY <2>1, <2>2, <3>3, <4>1
      <4> QED BY <1>6, <2>1, <3>0, <3>3, <4>1, <4>2
    <3> QED BY <1>6, <3>1, <3>2, <3>3
  <2>7. LinesFollowThePage'
    <3> SUFFICES ASSUME NEW e \in DOMAIN line', NEW f \in DOMAIN line'
                 PROVE  /\ Position(e) < Position(f) => line'[e] <= line'[f]
                        /\ Position(e) + Tolerance < Position(f) => line'[e] < line'[f]
      BY <1>4, <1>5, <1>6 DEF LinesFollowThePage
    <3>1. CASE e \in DOMAIN line /\ f \in DOMAIN line
      BY <1>6, <3>1 DEF MergeInv, LinesFollowThePage
    <3>2. CASE e \in DOMAIN line /\ f = edge
      <4>1. ASSUME Position(e) + Tolerance < Position(f) PROVE line[e] # lines - 1
        BY <1>3, <1>4, <1>5, <2>1, <2>2, <3>2, <4>1
      <4> QED BY <1>3, <1>6, <2>1, <2>2, <3>2, <4>1
    <3>3. CASE e = edge
      BY <1>3, <1>4, <1>5, <1>6, <1>7, <3>3
    <3> QED BY <1>6, <3>1, <3>2, <3>3
  <2> QED BY <2>3, <2>4, <2>5, <2>6, <2>7 DEF MergeInv
<1> QED BY <1>8, <1>9

\* The other steps leave the merge alone.
LEMMA NextStep == ASSUME MergeInv, [GridNext]_gridVars PROVE MergeInv'
<1>1. CASE Merge
  BY <1>1, MergeStep
<1>2. CASE NoGrid \/ Place \/ SpanByNames \/ Finished \/ UNCHANGED gridVars
  <2>1. UNCHANGED <<table, pending, lines, start, rows, line>>
    BY <1>2 DEF NoGrid, Place, SpanByNames, Finished, gridVars
  <2> QED BY <2>1 DEF MergeInv, MergeTyped, Frontier, LastLine, RowsKeepTheirEdges,
                      LinesFollowThePage, Position
<1> QED BY <1>1, <1>2 DEF GridNext

LEMMA MergeInvAlways == GridSpec => []MergeInv
<1>1. GridInit => MergeInv
  BY MergeInit
<1>2. MergeInv /\ [GridNext]_gridVars => MergeInv'
  BY NextStep
<1> QED BY <1>1, <1>2, PTL DEF GridSpec

\* No box of a row is lost between two edges, and none overlaps the next,
\* however narrow it is.
THEOREM EdgesOfARowStayApart == GridSpec => []RowsKeepTheirEdges
<1>1. MergeInv => RowsKeepTheirEdges
  BY DEF MergeInv
<1> QED BY <1>1, MergeInvAlways, PTL

\* The columns follow the page, across all rows.
THEOREM ColumnsFollowThePage == GridSpec => []LinesFollowThePage
<1>1. MergeInv => LinesFollowThePage
  BY DEF MergeInv
<1> QED BY <1>1, MergeInvAlways, PTL

----------------------------------------------------------------------------
(* Tables whose rows have no edges within the tolerance of each other *)

\* The edges on the last line are within reach of its start, each row on it
\* has one there, and of a wide table no edge from start on is elsewhere.
Reach == \A e \in DOMAIN line : Position(e) - start <= Tolerance
RowsOnLine == \A r \in rows : \E e \in DOMAIN line : e[1] = r /\ start <= Position(e)
OnLastLine == \A e \in DOMAIN line : start <= Position(e) => line[e] = lines - 1
OneLine ==
  \A e \in DOMAIN line, f \in DOMAIN line : Position(e) = Position(f) => line[e] = line[f]

WideInv == Reach /\ RowsOnLine /\ (~Narrow => OnLastLine /\ OneLine)

\* Two edges of a row of a wide table are apart, neighbours or not.
LEMMA ApartAlongARow ==
  ASSUME NEW row \in Seq(Nat), Ascending(row), NEW tolerance \in Nat,
         NEW i \in 1..Len(row), NEW j \in 1..Len(row), i < j,
         ~(row[i + 1] - row[i] <= tolerance)
  PROVE  row[j] - row[i] > tolerance
<1>1. Len(row) \in Nat /\ i + 1 \in 1..Len(row) /\ i + 1 <= j
  OBVIOUS
<1>2. row[i] \in Nat /\ row[i + 1] \in Nat /\ row[j] \in Nat
  BY <1>1
<1>3. i + 1 = j \/ row[i + 1] <= row[j]
  BY <1>1 DEF Ascending
<1> QED BY <1>2, <1>3

LEMMA WideRows ==
  ASSUME MergeTyped, ~Narrow, NEW e \in Edges(table), NEW f \in Edges(table),
         e[1] = f[1], e[2] < f[2]
  PROVE  Position(f) - Position(e) > Tolerance
<1>1. PICK r : r = e[1]
  OBVIOUS
<1>2. /\ r \in Rows(table) /\ e[2] \in 1..Len(Row(table, r)) /\ f[2] \in 1..Len(Row(table, r))
      /\ Position(e) = Row(table, r)[e[2]] /\ Position(f) = Row(table, r)[f[2]]
  BY <1>1, EdgesArePairs
<1>3. Row(table, r) \in Seq(Nat) /\ Ascending(Row(table, r)) /\ Tolerance \in Nat
  BY <1>2, RowIsSequence, GridAssumption, ToleranceIsNat DEF MergeTyped
<1>4. Len(Row(table, r)) \in Nat /\ e[2] \in 1..(Len(Row(table, r)) - 1)
  BY <1>2, <1>3
<1>5. ~(Row(table, r)[e[2] + 1] - Row(table, r)[e[2]] <= Tolerance)
  BY <1>2, <1>4 DEF Narrow
<1> QED BY <1>2, <1>3, <1>5, ApartAlongARow

LEMMA WideIncreases ==
  ASSUME MergeTyped, ~Narrow, NEW r \in Rows(table)
  PROVE  Increasing(Row(table, r))
<1> SUFFICES ASSUME NEW i \in 1..Len(Row(table, r)), NEW j \in 1..Len(Row(table, r)), i < j
             PROVE  Row(table, r)[i] < Row(table, r)[j]
  BY DEF Increasing
<1>1. <<r, i>> \in Edges(table) /\ <<r, j>> \in Edges(table)
  BY DEF Edges
<1>2. Position(<<r, j>>) - Position(<<r, i>>) > Tolerance
  BY <1>1, WideRows
<1>3. Position(<<r, i>>) = Row(table, r)[i] /\ Position(<<r, j>>) = Row(table, r)[j]
  BY DEF Position
<1> QED BY <1>1, <1>2, <1>3, PositionIsNat, ToleranceIsNat

LEMMA WideInit == ASSUME GridInit PROVE WideInv
BY DEF GridInit, WideInv, Reach, RowsOnLine, OnLastLine, OneLine

LEMMA WideMerge == ASSUME MergeInv, WideInv, Merge PROVE WideInv'
<1>1. PICK edge \in pending :
        /\ pending' = pending \ {edge}
        /\ start' = StartOf(edge)
        /\ lines' = IF Begins(edge) THEN lines + 1 ELSE lines
        /\ rows' = (IF Begins(edge) THEN {} ELSE rows) \cup {edge[1]}
        /\ line' = [e \in (Edges(table) \ pending) \cup {edge} |->
                      IF e = edge THEN lines' - 1 ELSE line[e]]
  BY DEF Merge
<1>2. table' = table
  BY DEF Merge
<1>3. /\ MergeTyped /\ pending \subseteq Edges(table) /\ edge \in Edges(table)
      /\ lines \in Nat /\ start \in Nat /\ line \in [Edges(table) \ pending -> Nat]
      /\ DOMAIN line = Edges(table) \ pending
  BY DEF MergeInv, MergeTyped
<1>4. \A e \in Edges(table) : Position(e) \in Nat /\ Position(e)' = Position(e)
  BY <1>2, <1>3, PositionIsNat DEF Position
<1>5. Tolerance \in Nat /\ Tolerance' = Tolerance /\ Narrow' = Narrow
  BY <1>2, ToleranceIsNat DEF Narrow, Tolerance
<1>6. /\ DOMAIN line' = DOMAIN line \cup {edge} /\ edge \notin DOMAIN line
      /\ DOMAIN line' \subseteq Edges(table) /\ DOMAIN line \subseteq Edges(table)
      /\ line'[edge] = lines' - 1
      /\ \A e \in DOMAIN line : line'[e] = line[e]
  BY <1>1, <1>3
<1>7. /\ \A e \in DOMAIN line : Position(e) <= Position(edge) /\ lines > 0
      /\ start <= Position(edge)
  BY DEF MergeInv, Frontier, LastLine
<1>8. /\ Reach /\ RowsOnLine
      /\ ~Narrow => OnLastLine /\ OneLine
  BY DEF WideInv
\* In a wide table a line begins only for its place.
<1>9. ASSUME ~Narrow, Begins(edge), lines > 0 PROVE Position(edge) - start > Tolerance
  <2>1. CASE Position(edge) - start > Tolerance
    BY <2>1
  <2>2. CASE edge[1] \in rows
    <3>1. PICK g \in DOMAIN line : g[1] = edge[1] /\ start <= Position(g)
      BY <1>8, <2>2 DEF RowsOnLine
    <3>2. g \in Edges(table) /\ g # edge
      BY <1>6
    <3>3. /\ g[2] \in Nat /\ edge[2] \in Nat /\ g[2] # edge[2]
      BY <1>3, <3>1, <3>2, EdgesArePairs
    <3>4. ~(edge[2] < g[2])
      <4> SUFFICES ASSUME edge[2] < g[2] PROVE FALSE
        OBVIOUS
      <4>1. Position(g) - Position(edge) > Tolerance
        BY <1>3, <1>9, <3>1, <3>2, WideRows
      <4> QED BY <1>3, <1>4, <1>5, <1>7, <3>1, <3>2, <4>1
    <3>5. Position(edge) - Position(g) > Tolerance
      BY <1>3, <1>9, <3>1, <3>2, <3>3, <3>4, WideRows
    <3> QED BY <1>3, <1>4, <1>5, <3>1, <3>2, <3>5
  <2> QED BY <1>3, <1>9, <2>1, <2>2 DEF Begins
<1>10. Reach'
  <2>1. \A e \in DOMAIN line' : Position(e) - start' <= Tolerance
    BY <1>1, <1>3, <1>4, <1>5, <1>6, <1>7, <1>8 DEF StartOf, Begins, Reach
  <2> QED BY <1>4, <1>5, <1>6, <2>1 DEF Reach
<1>11. RowsOnLine'
  <2> SUFFICES ASSUME NEW r \in rows'
               PROVE  \E e \in DOMAIN line' : e[1] = r /\ start' <= Position(e)
    BY <1>4, <1>6 DEF RowsOnLine
  <2>1. CASE r = edge[1]
    BY <1>1, <1>3, <1>4, <1>6, <1>7, <2>1 DEF StartOf
  <2>2. CASE r # edge[1]
    <3>1. ~Begins(edge) /\ r \in rows
      BY <1>1, <2>2
    <3>2. PICK e \in DOMAIN line : e[1] = r /\ start <= Position(e)
      BY <1>8, <3>1 DEF RowsOnLine
    <3> QED BY <1>1, <1>6, <3>1, <3>2 DEF StartOf
  <2> QED BY <2>1, <2>2
<1>12. ASSUME ~Narrow PROVE OnLastLine' /\ OneLine'
  <2>1. OnLastLine /\ OneLine
    BY <1>8, <1>12
  <2>2. CASE Begins(edge)
    <3>1. start' = Position(edge) /\ lines' = lines + 1
      BY <1>1, <2>2 DEF StartOf
    <3>2. \A e \in DOMAIN line : Position(e) < Position(edge)
      BY <1>3, <1>4, <1>5, <1>6, <1>7, <1>8, <1>9, <1>12, <2>2 DEF Reach
    <3>3. \A e \in DOMAIN line' : start' <= Position(e) => line'[e] = lines' - 1
      BY <1>3, <1>4, <1>6, <3>1, <3>2
    <3>4. \A e \in DOMAIN line', f \in DOMAIN line' :
            Position(e) = Position(f) => line'[e] = line'[f]
      BY <1>3, <1>4, <1>6, <2>1, <3>2 DEF OneLine
    <3> QED BY <1>4, <1>6, <3>3, <3>4 DEF OnLastLine, OneLine
  <2>3. CASE ~Begins(edge)
    <3>1. start' = start /\ lines' = lines
      BY <1>1, <2>3 DEF StartOf
    <3>2. \A e \in DOMAIN line' : start' <= Position(e) => line'[e] = lines' - 1
      BY <1>6, <2>1, <3>1 DEF OnLastLine
    <3>3. \A e \in DOMAIN line', f \in DOMAIN line' :
            Position(e) = Position(f) => line'[e] = line'[f]
      BY <1>6, <1>7, <2>1, <3>1, <3>2 DEF OneLine
    <3> QED BY <1>4, <1>6, <3>2, <3>3 DEF OnLastLine, OneLine
  <2> QED BY <2>2, <2>3
<1> QED BY <1>5, <1>10, <1>11, <1>12 DEF WideInv

LEMMA WideStep == ASSUME MergeInv, WideInv, [GridNext]_gridVars PROVE WideInv'
<1>1. CASE Merge
  BY <1>1, WideMerge
<1>2. CASE NoGrid \/ Place \/ SpanByNames \/ Finished \/ UNCHANGED gridVars
  <2>1. UNCHANGED <<table, pending, lines, start, rows, line>>
    BY <1>2 DEF NoGrid, Place, SpanByNames, Finished, gridVars
  <2> QED BY <2>1 DEF WideInv, Reach, RowsOnLine, OnLastLine, OneLine, Narrow, Position,
                      Tolerance
<1> QED BY <1>1, <1>2 DEF GridNext

----------------------------------------------------------------------------
(* The cells *)

LEMMA CellsArePairs ==
  ASSUME MergeTyped, NEW c \in Cells(table)
  PROVE  /\ c = <<c[1], c[2]>> /\ c[1] \in Rows(table) /\ c[2] \in Nat
         /\ c[2] \in table.named[c[1]]
<1>1. PICK r \in Rows(table) : \E box \in table.named[r] : c = <<r, box>>
  BY DEF Cells
<1>2. PICK box \in table.named[r] : c = <<r, box>>
  BY <1>1
<1>3. table.named[r] \subseteq Nat
  BY GridAssumption DEF MergeTyped
<1> QED BY <1>2, <1>3

\* A cell is where its name says until its table's grid, or the lack of one,
\* places it; what it spans by names lies side by side.
ByNames == cells = [c \in Cells(table) |-> [column |-> c[2], span |-> 1]]
CountedBoxes(r) == \A box \in table.named[r] : box < columns
BesideByNames ==
  \A c \in Cells(table) :
    /\ CountedBoxes(c[1]) => cells[c].column + cells[c].span <= columns
    /\ \A d \in Cells(table) :
         c[1] = d[1] /\ c[2] < d[2] => cells[c].column + cells[c].span <= cells[d].column
CellsInv ==
  /\ step \in {"merge", "names", "done"}
  /\ step = "merge" => ByNames
  /\ step = "names" =>
       ByNames /\ pending = Edges(table) /\ columns \in Nat
  /\ step = "done" =>
       \/ /\ pending = {} /\ columns = lines - 1
          /\ \A c \in Cells(table) : Agrees(c[1]) => cells[c] = Placed(c)
       \/ pending = Edges(table) /\ BesideByNames

LEMMA SpansByNames ==
  ASSUME MergeTyped, CellsInv, SpanByNames
  PROVE  BesideByNames'
<1> DEFINE after(c) == {box \in table.named[c[1]] : box > c[2]}
<1> DEFINE next(c) == IF after(c) = {} THEN columns
                      ELSE CHOOSE box \in after(c) : \A other \in after(c) : box <= other
<1>1. /\ table' = table /\ columns' = columns
      /\ columns \in Nat
      /\ cells' = [c \in Cells(table) |->
                     [column |-> c[2], span |-> IF next(c) - c[2] > 1 THEN next(c) - c[2] ELSE 1]]
  BY DEF SpanByNames, CellsInv
<1>2. ASSUME NEW c \in Cells(table)
      PROVE  /\ next(c) \in Nat
             /\ CountedBoxes(c[1]) => c[2] < next(c) /\ next(c) <= columns
             /\ \A d \in Cells(table) :
                  c[1] = d[1] /\ c[2] < d[2] => c[2] < next(c) /\ next(c) <= d[2]
  <2>1. c[1] \in Rows(table) /\ c[2] \in Nat /\ table.named[c[1]] \subseteq Nat
        /\ c[2] \in table.named[c[1]]
    BY CellsArePairs, GridAssumption DEF MergeTyped
  <2>2. \A d \in Cells(table) : c[1] = d[1] /\ c[2] < d[2] => d[2] \in after(c)
    BY <2>1, CellsArePairs
  <2>3. CASE after(c) = {}
    BY <1>1, <2>1, <2>2, <2>3 DEF CountedBoxes
  <2>4. CASE after(c) # {}
    <3>1. after(c) \subseteq Nat
      BY <2>1
    <3>2. \E box \in after(c) : \A other \in after(c) : box <= other
      BY <2>4, <3>1, LeastNumber
    <3>3. next(c) \in after(c) /\ \A other \in after(c) : next(c) <= other
      BY <2>4, <3>2
    <3>4. next(c) \in Nat /\ c[2] < next(c) /\ next(c) \in table.named[c[1]]
      BY <2>1, <3>1, <3>3
    <3>5. CountedBoxes(c[1]) => next(c) <= columns
      BY <1>1, <3>4 DEF CountedBoxes
    <3>6. \A d \in Cells(table) : c[1] = d[1] /\ c[2] < d[2] => next(c) <= d[2]
      BY <2>2, <3>3
    <3> QED BY <3>4, <3>5, <3>6
  <2> QED BY <2>3, <2>4
<1>3. Cells(table)' = Cells(table) /\ \A c \in Cells(table) : CountedBoxes(c[1])' = CountedBoxes(c[1])
  BY <1>1 DEF Cells, Rows, CountedBoxes
<1> HIDE DEF next
<1>4. ASSUME NEW c \in Cells(table), c[2] < next(c)
      PROVE  cells'[c].column + cells'[c].span = next(c)
  <2>1. c[2] \in Nat /\ next(c) \in Nat
    BY <1>2, CellsArePairs
  <2> QED BY <1>1, <1>4, <2>1
<1>5. \A c \in Cells(table) : cells'[c].column = c[2]
  BY <1>1
<1>6. ASSUME NEW c \in Cells(table), CountedBoxes(c[1])
      PROVE  cells'[c].column + cells'[c].span <= columns
  BY <1>2, <1>4, <1>6
<1>7. ASSUME NEW c \in Cells(table), NEW d \in Cells(table), c[1] = d[1], c[2] < d[2]
      PROVE  cells'[c].column + cells'[c].span <= cells'[d].column
  BY <1>2, <1>4, <1>5, <1>7
<1> QED BY <1>1, <1>3, <1>6, <1>7 DEF BesideByNames

LEMMA CellsStep == ASSUME MergeInv, CellsInv, [GridNext]_gridVars PROVE CellsInv'
<1>2. CASE NoGrid
  <2>1. /\ table' = table /\ pending' = pending /\ cells' = cells /\ step' = "names"
        /\ step = "merge" /\ pending = Edges(table)
        /\ columns' \in 0..(Sum + 1)
    BY <1>2 DEF NoGrid
  <2>2. Edges(table)' = Edges(table) /\ Cells(table)' = Cells(table)
    BY <2>1 DEF Edges, Cells, Rows, Row
  <2>3. columns' \in Nat
    BY <2>1, GridAssumption
  <2> QED BY <2>1, <2>2, <2>3 DEF CellsInv, ByNames
<1>3. CASE Merge
  <2>1. table' = table /\ cells' = cells /\ step' = step /\ step = "merge"
    BY <1>3 DEF Merge
  <2> QED BY <2>1 DEF CellsInv, ByNames, Cells, Rows
<1>4. CASE Place
  <2>1. /\ UNCHANGED <<table, pending, lines, line>> /\ pending = {}
        /\ columns' = lines - 1 /\ step' = "done"
        /\ cells' = [c \in Cells(table) |-> IF Agrees(c[1]) THEN Placed(c) ELSE cells[c]]
    BY <1>4 DEF Place, Columns
  <2>2. Cells(table)' = Cells(table)
    BY <2>1 DEF Cells, Rows
  <2>3. \A c \in Cells(table) : Agrees(c[1])' = Agrees(c[1]) /\ Placed(c)' = Placed(c)
    BY <2>1 DEF Agrees, Placed, Box, Row
  <2>4. \A c \in Cells(table)' : Agrees(c[1])' => cells'[c] = Placed(c)'
    BY <2>1, <2>2, <2>3
  <2> QED BY <2>1, <2>4 DEF CellsInv
<1>5. CASE SpanByNames
  <2>1. /\ UNCHANGED <<table, pending>> /\ step = "names" /\ step' = "done"
    BY <1>5 DEF SpanByNames
  <2>2. pending' = Edges(table)'
    BY <2>1 DEF CellsInv, Edges, Rows, Row
  <2> QED BY <1>5, <2>1, <2>2, SpansByNames DEF CellsInv, MergeInv
<1>6. CASE Finished \/ UNCHANGED gridVars
  <2>1. UNCHANGED <<table, pending, lines, line, cells, columns, step>>
    BY <1>6 DEF Finished, gridVars
  <2>2. Cells(table)' = Cells(table) /\ Edges(table)' = Edges(table)
    BY <2>1 DEF Cells, Edges, Rows, Row
  <2>3. \A c \in Cells(table) : Agrees(c[1])' = Agrees(c[1]) /\ Placed(c)' = Placed(c)
    BY <2>1 DEF Agrees, Placed, Box, Row
  <2>4. (\A c \in Cells(table) : Agrees(c[1]) => cells[c] = Placed(c))
          => \A c \in Cells(table)' : Agrees(c[1])' => cells'[c] = Placed(c)'
    BY <2>1, <2>2, <2>3
  <2>5. BesideByNames' = BesideByNames /\ ByNames' = ByNames
    BY <2>1, <2>2 DEF BesideByNames, ByNames, CountedBoxes
  <2> QED BY <2>1, <2>2, <2>4, <2>5 DEF CellsInv
<1> QED BY <1>2, <1>3, <1>4, <1>5, <1>6 DEF GridNext

LEMMA CellsInit == ASSUME GridInit PROVE CellsInv
BY DEF GridInit, CellsInv, ByNames

GridInv == MergeInv /\ WideInv /\ CellsInv
LEMMA GridInvAlways == GridSpec => []GridInv
<1>1. GridInit => GridInv
  BY MergeInit, WideInit, CellsInit DEF GridInv
<1>2. GridInv /\ [GridNext]_gridVars => GridInv'
  BY NextStep, WideStep, CellsStep DEF GridInv
<1> QED BY <1>1, <1>2, PTL DEF GridSpec

\* Where a cell that is on the grid lies: between the lines of its edges.
LEMMA PlacedLies ==
  ASSUME GridInv, step = "done", pending = {}, NEW c \in Cells(table), Agrees(c[1]),
         Increasing(Row(table, c[1])), cells[c] = Placed(c)
  PROVE  /\ <<c[1], c[2] + 1>> \in DOMAIN line /\ <<c[1], c[2] + 2>> \in DOMAIN line
         /\ cells[c].column = line[<<c[1], c[2] + 1>>]
         /\ cells[c].column + cells[c].span = line[<<c[1], c[2] + 2>>]
<1>1. /\ MergeTyped /\ DOMAIN line = Edges(table) /\ line \in [Edges(table) -> Nat]
      /\ RowsKeepTheirEdges
  BY DEF GridInv, MergeInv, MergeTyped
<1>2. c[1] \in Rows(table) /\ c[2] \in Nat /\ c[2] \in table.named[c[1]]
  BY <1>1, CellsArePairs
<1>3. Row(table, c[1]) \in Seq(Nat)
  BY <1>1, <1>2, RowIsSequence DEF MergeTyped
<1>4. c[2] + 1 \in 1..Len(Row(table, c[1])) /\ c[2] + 2 \in 1..Len(Row(table, c[1]))
  BY <1>2, <1>3 DEF Agrees
<1>5. <<c[1], c[2] + 1>> \in Edges(table) /\ <<c[1], c[2] + 2>> \in Edges(table)
  BY <1>2, <1>4 DEF Edges
<1> DEFINE left == line[<<c[1], c[2] + 1>>]
           right == line[<<c[1], c[2] + 2>>]
<1>6. left \in Nat /\ right \in Nat /\ left < right
  <2>1. Position(<<c[1], c[2] + 1>>) < Position(<<c[1], c[2] + 2>>)
    BY <1>2, <1>4 DEF Position, Increasing
  <2> QED BY <1>1, <1>2, <1>5, <2>1 DEF RowsKeepTheirEdges
<1>7. cells[c] = [column |-> left, span |-> IF right - left > 1 THEN right - left ELSE 1]
  BY DEF Placed, Box
<1> HIDE DEF left, right
<1>8. cells[c].column = left /\ cells[c].column + cells[c].span = right
  BY <1>6, <1>7
<1> QED BY <1>1, <1>5, <1>8 DEF left, right

\* A table with a cell has edges.
LEMMA CellsHaveEdges ==
  ASSUME MergeTyped, NEW c \in Cells(table)
  PROVE  Edges(table) # {}
<1>1. c[1] \in Rows(table) /\ Row(table, c[1]) \in Seq(Nat)
  BY CellsArePairs, RowIsSequence DEF MergeTyped
<1>2. table.separators \in Seq(Seq(Nat)) /\ table.separators[c[1]] \in Seq(Nat) /\ Sum \in Nat
  BY <1>1, GridAssumption DEF MergeTyped, Rows
<1>3. Len(Row(table, c[1])) >= 1
  BY <1>2 DEF Row
<1>4. <<c[1], 1>> \in Edges(table)
  BY <1>1, <1>3 DEF Edges
<1> QED BY <1>4

\* The cells of a row lie side by side (SideBySide), placed on the grid or by
\* their names: no two of them claim a column in fill_column_spans.
THEOREM CellsSideBySide == GridSpec => []SideBySide
<1>1. ASSUME GridInv PROVE SideBySide
  <2> SUFFICES ASSUME step = "done", NEW c \in Cells(table)
               PROVE  \/ Misplaced(c[1])
                      \/ /\ Within(c[1]) => cells[c].column + cells[c].span <= columns
                         /\ \A d \in Cells(table) :
                              c[1] = d[1] /\ c[2] < d[2] =>
                                cells[c].column + cells[c].span <= cells[d].column
    BY DEF SideBySide
  <2>1. MergeTyped /\ LastLine /\ RowsKeepTheirEdges /\ CellsInv
    BY <1>1 DEF GridInv, MergeInv
  <2>2. CASE pending = Edges(table) /\ BesideByNames
    <3>1. ~OnGrid
      BY <2>1, <2>2, CellsHaveEdges DEF OnGrid
    <3> QED BY <2>2, <3>1 DEF BesideByNames, Within, CountedBoxes
  <2>3. CASE /\ pending = {} /\ columns = lines - 1
             /\ \A d \in Cells(table) : Agrees(d[1]) => cells[d] = Placed(d)
    <3>1. CASE ~(Agrees(c[1]) /\ Increasing(Row(table, c[1])))
      BY <2>3, <3>1 DEF OnGrid, Misplaced
    <3>2. CASE Agrees(c[1]) /\ Increasing(Row(table, c[1]))
      <4>1. /\ <<c[1], c[2] + 2>> \in DOMAIN line
            /\ cells[c].column + cells[c].span = line[<<c[1], c[2] + 2>>]
        BY <1>1, <2>3, <3>2, PlacedLies
      <4>2. line[<<c[1], c[2] + 2>>] <= columns
        BY <2>1, <2>3, <4>1 DEF LastLine
      <4>3. ASSUME NEW d \in Cells(table), c[1] = d[1], c[2] < d[2]
            PROVE  cells[c].column + cells[c].span <= cells[d].column
        <5>1. /\ <<d[1], d[2] + 1>> \in DOMAIN line
              /\ cells[d].column = line[<<d[1], d[2] + 1>>]
          BY <1>1, <2>3, <3>2, <4>3, PlacedLies
        <5>2. c[2] \in Nat /\ d[2] \in Nat
          BY <2>1, CellsArePairs
        <5>3. line[<<d[1], d[2] + 1>>] \in Nat
          BY <2>1, <5>1 DEF MergeTyped
        <5>4. CASE c[2] + 1 = d[2]
          <6>1. <<c[1], c[2] + 2>> = <<d[1], d[2] + 1>>
            BY <4>3, <5>2, <5>4
          <6> QED BY <4>1, <5>1, <5>3, <6>1
        <5>5. CASE c[2] + 2 < d[2] + 1
          <6>a. <<c[1], c[2] + 2>> \in Edges(table) /\ <<d[1], d[2] + 1>> \in Edges(table)
            BY <2>1, <4>1, <5>1 DEF MergeTyped
          <6>b. Position(<<c[1], c[2] + 2>>) < Position(<<d[1], d[2] + 1>>)
            BY <3>2, <4>3, <5>5, <6>a, EdgesArePairs DEF Position, Increasing
          <6>1. line[<<c[1], c[2] + 2>>] < line[<<d[1], d[2] + 1>>]
            BY <2>1, <4>1, <4>3, <5>1, <5>5, <6>b DEF RowsKeepTheirEdges
          <6>2. line[<<c[1], c[2] + 2>>] \in Nat
            BY <2>1, <4>1 DEF MergeTyped
          <6> QED BY <4>1, <5>1, <5>3, <6>1, <6>2
        <5> QED BY <4>3, <5>2, <5>4, <5>5
      <4> QED BY <4>1, <4>2, <4>3
    <3> QED BY <3>1, <3>2
  <2> QED BY <2>1, <2>2, <2>3 DEF CellsInv
<1> QED BY <1>1, GridInvAlways, PTL

\* In a table that is wide everywhere, what is aligned on the page is aligned in
\* the columns (AlignedIfWide), whatever the order of the edges in the sort.
THEOREM WideTablesAlign == GridSpec => []AlignedIfWide
<1>1. ASSUME GridInv, ~Narrow PROVE Aligned
  <2> SUFFICES ASSUME NEW c \in PlacedCells, NEW d \in PlacedCells
               PROVE  /\ Left(c) = Left(d) => cells[c].column = cells[d].column
                      /\ Right(c) = Right(d) =>
                           cells[c].column + cells[c].span = cells[d].column + cells[d].span
    BY DEF Aligned
  <2>1. MergeTyped /\ CellsInv /\ OneLine
    BY <1>1 DEF GridInv, MergeInv, WideInv
  <2>2. /\ step = "done" /\ pending = {} /\ c \in Cells(table) /\ d \in Cells(table)
        /\ Agrees(c[1]) /\ Agrees(d[1])
    BY DEF PlacedCells, OnGrid
  <2>a. Increasing(Row(table, c[1])) /\ Increasing(Row(table, d[1]))
    BY <1>1, <2>1, <2>2, CellsArePairs, WideIncreases
  <2>3. pending # Edges(table)
    BY <2>1, <2>2, CellsHaveEdges
  <2>4. cells[c] = Placed(c) /\ cells[d] = Placed(d)
    BY <2>1, <2>2, <2>3 DEF CellsInv
  <2>5. /\ <<c[1], c[2] + 1>> \in DOMAIN line /\ <<c[1], c[2] + 2>> \in DOMAIN line
        /\ cells[c].column = line[<<c[1], c[2] + 1>>]
        /\ cells[c].column + cells[c].span = line[<<c[1], c[2] + 2>>]
    BY <1>1, <2>2, <2>4, <2>a, PlacedLies
  <2>6. /\ <<d[1], d[2] + 1>> \in DOMAIN line /\ <<d[1], d[2] + 2>> \in DOMAIN line
        /\ cells[d].column = line[<<d[1], d[2] + 1>>]
        /\ cells[d].column + cells[d].span = line[<<d[1], d[2] + 2>>]
    BY <1>1, <2>2, <2>4, <2>a, PlacedLies
  <2>7. /\ Position(<<c[1], c[2] + 1>>) = Left(c) /\ Position(<<d[1], d[2] + 1>>) = Left(d)
        /\ Position(<<c[1], c[2] + 2>>) = Right(c) /\ Position(<<d[1], d[2] + 2>>) = Right(d)
    BY DEF Position, Left, Right
  <2> QED BY <2>1, <2>5, <2>6, <2>7 DEF OneLine
<1>2. GridInv => AlignedIfWide
  BY <1>1 DEF AlignedIfWide
<1> QED BY <1>2, GridInvAlways, PTL

----------------------------------------------------------------------------
(* Types *)

\* What the grid does not already say of the types.
Typed ==
  /\ rows \subseteq Rows(table) /\ columns \in Int
  /\ cells \in [Cells(table) -> [column : Nat, span : Nat \ {0}]]

LEMMA TypedStep == ASSUME GridInv, Typed, [GridNext]_gridVars PROVE Typed'
<1>0. MergeTyped /\ CellsInv
  BY DEF GridInv, MergeInv
<1>1. CASE Merge
  <2>1. PICK edge \in pending : rows' = (IF Begins(edge) THEN {} ELSE rows) \cup {edge[1]}
    BY <1>1 DEF Merge
  <2>2. edge[1] \in Rows(table)
    BY <1>0, <2>1, EdgesArePairs DEF MergeTyped
  <2>3. rows' \subseteq Rows(table)
    BY <2>1, <2>2 DEF Typed
  <2> QED BY <1>1, <2>3 DEF Merge, Typed
<1>2. CASE NoGrid
  <2>1. columns' \in 0..(Sum + 1) /\ Sum \in Nat
    BY <1>2, GridAssumption DEF NoGrid
  <2> QED BY <1>2, <2>1 DEF NoGrid, Typed
<1>3. CASE Place
  <2>1. UNCHANGED <<table, rows, line, pending>> /\ columns' \in Int
    BY <1>0, <1>3 DEF Place, Columns, MergeTyped
  <2>2. cells' = [c \in Cells(table) |-> IF Agrees(c[1]) THEN Placed(c) ELSE cells[c]]
    BY <1>3 DEF Place
  <2>3. ASSUME NEW c \in Cells(table), Agrees(c[1])
        PROVE  Placed(c) \in [column : Nat, span : Nat \ {0}]
    <3>1. c[1] \in Rows(table) /\ c[2] \in Nat /\ c[2] \in table.named[c[1]]
      BY <1>0, CellsArePairs
    <3>2. Row(table, c[1]) \in Seq(Nat)
      BY <1>0, <3>1, RowIsSequence DEF MergeTyped
    <3>3. c[2] + 1 \in 1..Len(Row(table, c[1])) /\ c[2] + 2 \in 1..Len(Row(table, c[1]))
      BY <2>3, <3>1, <3>2 DEF Agrees
    <3>4. <<c[1], c[2] + 1>> \in Edges(table) /\ <<c[1], c[2] + 2>> \in Edges(table)
      BY <3>1, <3>3 DEF Edges
    <3>5. line \in [Edges(table) -> Nat]
      BY <1>0, <1>3 DEF Place, MergeTyped
    <3>6. line[<<c[1], c[2] + 1>>] \in Nat /\ line[<<c[1], c[2] + 2>>] \in Nat
      BY <3>4, <3>5
    <3> QED BY <3>6 DEF Placed, Box
  <2>4. cells' \in [Cells(table) -> [column : Nat, span : Nat \ {0}]]
    BY <2>2, <2>3 DEF Typed
  <2> QED BY <2>1, <2>4 DEF Typed
<1>4. CASE SpanByNames
  <2> DEFINE after(c) == {box \in table.named[c[1]] : box > c[2]}
             next(c) == IF after(c) = {} THEN columns
                        ELSE CHOOSE box \in after(c) : \A other \in after(c) : box <= other
  <2>1. /\ cells' = [c \in Cells(table) |->
                       [column |-> c[2], span |-> IF next(c) - c[2] > 1 THEN next(c) - c[2] ELSE 1]]
        /\ UNCHANGED <<table, rows, columns>> /\ columns \in Nat
    BY <1>0, <1>4 DEF SpanByNames, CellsInv
  <2>2. ASSUME NEW c \in Cells(table) PROVE c[2] \in Nat /\ next(c) \in Nat
    <3>1. c[1] \in Rows(table) /\ c[2] \in Nat /\ table.named[c[1]] \subseteq Nat
      BY <1>0, CellsArePairs, GridAssumption DEF MergeTyped
    <3>2. CASE after(c) = {}
      BY <2>1, <3>1, <3>2
    <3>3. CASE after(c) # {}
      <4>1. \E x \in after(c) : \A y \in after(c) : x <= y
        BY <3>1, <3>3, LeastNumber
      <4>2. next(c) \in after(c)
        BY <3>3, <4>1
      <4> QED BY <3>1, <4>2
    <3> QED BY <3>2, <3>3
  <2> HIDE DEF next
  <2>3. \A c \in Cells(table) :
          [column |-> c[2], span |-> IF next(c) - c[2] > 1 THEN next(c) - c[2] ELSE 1]
            \in [column : Nat, span : Nat \ {0}]
    BY <2>2
  <2>4. cells' \in [Cells(table) -> [column : Nat, span : Nat \ {0}]]
    BY <2>1, <2>3
  <2> QED BY <2>1, <2>4 DEF Typed
<1>5. CASE Finished \/ UNCHANGED gridVars
  <2>1. UNCHANGED <<table, rows, columns, cells>>
    BY <1>5 DEF Finished, gridVars
  <2> QED BY <2>1 DEF Typed
<1> QED BY <1>1, <1>2, <1>3, <1>4, <1>5 DEF GridNext

\* The type invariant, for tables of any size: a cell always has a column and
\* spans at least one.
THEOREM GridTypeCorrect == GridSpec => []GridTypeOK
<1>1. GridInit => GridInv /\ Typed
  <2> SUFFICES ASSUME GridInit PROVE GridInv /\ Typed
    OBVIOUS
  <2>1. GridInv
    BY MergeInit, WideInit, CellsInit DEF GridInv
  <2>2. \A c \in Cells(table) : c[2] \in Nat
    BY <2>1, CellsArePairs DEF GridInv, MergeInv
  <2>3. \A c \in Cells(table) : [column |-> c[2], span |-> 1] \in [column : Nat, span : Nat \ {0}]
    BY <2>2
  <2>4. Typed
    BY <2>3 DEF GridInit, Typed
  <2> QED BY <2>1, <2>4
<1>2. GridInv /\ Typed /\ [GridNext]_gridVars => (GridInv /\ Typed)'
  BY NextStep, WideStep, CellsStep, TypedStep DEF GridInv
<1>3. GridInv /\ Typed => GridTypeOK
  BY DEF GridInv, MergeInv, MergeTyped, CellsInv, Typed, GridTypeOK
<1> QED BY <1>1, <1>2, <1>3, PTL DEF GridSpec
=============================================================================
