------------------------ MODULE RenderServiceProofs ------------------------
(***************************************************************************)
(* RenderService for any number of calls, slots and bytes: what its runs   *)
(* check on two calls, proved for every value of the constants.            *)
(***************************************************************************)
EXTENDS RenderService, TLAPS, FiniteSetTheorems, WellFoundedInduction

USE DEF Steps, Codes, Counters, Files

\* Each counter and each code an answer may carry is one of the service's.
LEMMA AnswersTyped ==
  \A kind \in DOMAIN Answer : Answer[kind][1] \in Counters /\ Answer[kind][2] \in Codes
BY DEF Answer, CancelledAnswer

\* Every variable keeps its type through whatever a call does.
LEMMA TypeStep == ASSUME TypeOK, [Next]_vars PROVE TypeOK'
<1> USE LimitsAssumption DEF TypeOK, Return, Reject, Fail, Goto, NoAnswer, callVars,
        environment, shared, dirs
<1>1. CASE UNCHANGED vars
  BY <1>1 DEF vars
<1>2. ASSUME NEW c \in Calls, Begin(c) PROVE TypeOK'
  BY <1>2 DEF Begin
<1>3. ASSUME NEW c \in Calls, ReadChunk(c) PROVE TypeOK'
  BY <1>3 DEF ReadChunk
<1>4. ASSUME NEW c \in Calls, Reserve(c) PROVE TypeOK'
  BY <1>4 DEF Reserve
<1>5. ASSUME NEW c \in Calls, Append(c) PROVE TypeOK'
  BY <1>5 DEF Append
<1>6. ASSUME NEW c \in Calls, EndUpload(c) PROVE TypeOK'
  BY <1>6 DEF EndUpload
<1>7. ASSUME NEW c \in Calls, Acquire(c) PROVE TypeOK'
  <2>1. CASE /\ busy' = busy + 1
             /\ held' = [held EXCEPT ![c] = TRUE]
             /\ Goto(c, "mkdir")
             /\ NoAnswer
    BY <1>7, <2>1 DEF Acquire
  <2>2. CASE /\ \/ Reject(c, "CANCELLED", "free")
                \/ Reject(c, "DEADLINE_EXCEEDED", "free")
                \/ Goto(c, "asleep") /\ NoAnswer
             /\ UNCHANGED <<busy, held>>
    <3>1. pc' \in [Calls -> Steps] /\ status' \in [Calls -> Codes \cup {"none"}]
      BY <2>2
    <3>2. answers' \in [Counters -> Nat]
      BY <2>2
    <3> QED
      BY <1>7, <2>2, <3>1, <3>2 DEF Acquire
  <2> QED
    BY <1>7, <2>1, <2>2 DEF Acquire
<1>8. ASSUME NEW c \in Calls, Wake(c) PROVE TypeOK'
  BY <1>8 DEF Wake
<1>9. ASSUME NEW c \in Calls, MakeWorkDir(c) PROVE TypeOK'
  BY <1>9 DEF MakeWorkDir
<1>10. ASSUME NEW c \in Calls, Stage(c) PROVE TypeOK'
  BY <1>10 DEF Stage
<1>11. ASSUME NEW c \in Calls, Launch(c) PROVE TypeOK'
  BY <1>11 DEF Launch
<1>12. ASSUME NEW c \in Calls, Finish(c) PROVE TypeOK'
  BY <1>12, AnswersTyped DEF Finish
<1>13. ASSUME NEW c \in Calls, RemoveWorkDir(c) PROVE TypeOK'
  BY <1>13 DEF RemoveWorkDir, DirsWithout
<1>14. ASSUME NEW c \in Calls, ReleaseSlot(c) PROVE TypeOK'
  BY <1>14 DEF ReleaseSlot, BusyWithoutOne
<1>15. ASSUME NEW c \in Calls, FreeBytes(c) PROVE TypeOK'
  BY <1>15 DEF FreeBytes
<1>16. ASSUME NEW c \in Calls, Unreserve(c) PROVE TypeOK'
  BY <1>16 DEF Unreserve, Counted
<1>17. ASSUME NEW c \in Calls, Cancel(c) \/ Expire(c) PROVE TypeOK'
  BY <1>17 DEF Cancel, Expire
<1> QED
  BY <1>1, <1>2, <1>3, <1>4, <1>5, <1>6, <1>7, <1>8, <1>9, <1>10, <1>11, <1>12,
     <1>13, <1>14, <1>15, <1>16, <1>17
     DEF Next, AllDone, Upload, Wait, Render, Unwind

\* Every variable stays within its type, whatever the calls do.
THEOREM TypeCorrect == Spec => []TypeOK
<1>1. Init => TypeOK
  BY DEF Init, TypeOK
<1> QED
  BY <1>1, TypeStep, PTL DEF Spec

----------------------------------------------------------------------------
(* What SumFunction adds up: no order of the calls, whatever CHOOSE picks *)

Below == {pair \in Nat \X Nat : pair[1] < pair[2]}

\* Every set of naturals that is not empty has a least element.
LEMMA LeastNumber ==
  ASSUME NEW N, N \subseteq Nat, N # {}
  PROVE  \E n \in N : \A m \in N : n <= m
<1>1. IsWellFoundedOn(Below, Nat)
  BY NatLessThanWellFounded DEF OpToRel, Below
<1>2. PICK n \in N : \A m \in N : <<m, n>> \notin Below
  BY <1>1, WFMin
<1>3. ASSUME NEW m \in N PROVE n <= m
  <2>1. m \in Nat /\ n \in Nat /\ ~(m < n)
    BY <1>2 DEF Below
  <2> QED BY <2>1
<1> QED BY <1>3

\* Among sets of subsets of a finite set one has no member with an element
\* less: the counterexample an induction over those subsets would refute.
LEMMA SmallestSet ==
  ASSUME NEW S, IsFiniteSet(S), NEW Bad \in SUBSET SUBSET S, Bad # {}
  PROVE  \E s \in Bad : /\ IsFiniteSet(s)
                        /\ \A x \in s : s \ {x} \notin Bad
<1> DEFINE Sizes == {Cardinality(s) : s \in Bad}
<1>1. \A s \in Bad : IsFiniteSet(s) /\ Cardinality(s) \in Nat
  BY FS_Subset, FS_CardinalityType
<1>2. Sizes \subseteq Nat /\ Sizes # {}
  BY <1>1
<1>3. PICK n \in Sizes : \A m \in Sizes : n <= m
  <2> HIDE DEF Sizes
  <2> QED BY <1>2, LeastNumber
<1>4. PICK s \in Bad : n = Cardinality(s)
  BY <1>3
<1>5. ASSUME NEW x \in s, s \ {x} \in Bad PROVE FALSE
  <2>1. Cardinality(s \ {x}) = Cardinality(s) - 1
    BY <1>1, FS_RemoveElement
  <2>2. Cardinality(s) <= Cardinality(s \ {x})
    BY <1>3, <1>4, <1>5
  <2> QED BY <1>1, <2>1, <2>2
<1> QED BY <1>1, <1>5

First(s) == CHOOSE x \in s : TRUE
LessFirst(s) == s \ {First(s)}

\* g holds the sum of f over each set of D, adding one element at a time.
Adds(g, f, D) == g = [s \in D |-> IF s = {} THEN 0 ELSE f[First(s)] + g[LessFirst(s)]]

\* Removing the element that is added first leaves a set one smaller.
LEMMA LessFirstSmaller ==
  ASSUME NEW s, IsFiniteSet(s), s # {}
  PROVE  /\ First(s) \in s
         /\ LessFirst(s) \subseteq s
         /\ IsFiniteSet(LessFirst(s))
         /\ Cardinality(LessFirst(s)) = Cardinality(s) - 1
<1>1. First(s) \in s
  BY DEF First
<1> QED BY <1>1, FS_RemoveElement DEF LessFirst

\* The recursion SumFunction stands for has a solution on a finite set.
LEMMA SumsExist ==
  ASSUME NEW f, NEW S, IsFiniteSet(S)
  PROVE  \E g : Adds(g, f, SUBSET S)
<1> DEFINE UpTo(n) == {s \in SUBSET S : Cardinality(s) <= n}
           Failed == {n \in Nat : ~ \E g : Adds(g, f, UpTo(n))}
<1>1. \A s \in SUBSET S : IsFiniteSet(s) /\ Cardinality(s) \in Nat
  BY FS_Subset, FS_CardinalityType
<1>2. 0 \notin Failed
  <2>1. \A s \in UpTo(0) : s = {}
    BY <1>1, FS_EmptySet
  <2>2. [s \in UpTo(0) |-> 0]
          = [s \in UpTo(0) |-> IF s = {} THEN 0
                               ELSE f[First(s)] + [t \in UpTo(0) |-> 0][LessFirst(s)]]
    <3> HIDE DEF UpTo
    <3> QED BY <2>1
  <2>3. Adds([s \in UpTo(0) |-> 0], f, UpTo(0))
    BY <2>2 DEF Adds
  <2> QED BY <2>3
<1>3. ASSUME NEW n \in Nat, n \notin Failed PROVE n + 1 \notin Failed
  <2>1. PICK g : Adds(g, f, UpTo(n))
    BY <1>3
  <2> DEFINE next == [s \in UpTo(n + 1) |-> IF s = {} THEN 0
                                            ELSE f[First(s)] + g[LessFirst(s)]]
  <2>2. ASSUME NEW s \in UpTo(n + 1), s # {} PROVE next[LessFirst(s)] = g[LessFirst(s)]
    <3>1. LessFirst(s) \in UpTo(n) /\ LessFirst(s) \in UpTo(n + 1)
      BY <1>1, <2>2, LessFirstSmaller
    <3> HIDE DEF UpTo
    <3> QED BY <2>1, <3>1 DEF Adds
  <2> HIDE DEF UpTo
  <2>3. next = [s \in UpTo(n + 1) |-> IF s = {} THEN 0
                                      ELSE f[First(s)] + next[LessFirst(s)]]
    BY <2>2
  <2>4. Adds(next, f, UpTo(n + 1))
    <3> HIDE DEF next
    <3> QED BY <2>3 DEF Adds
  <2> QED BY <2>4
<1>4. Failed = {}
  <2> SUFFICES ASSUME Failed # {} PROVE FALSE
    OBVIOUS
  <2>1. Failed \subseteq Nat
    OBVIOUS
  <2>2. PICK n \in Failed : \A m \in Failed : n <= m
    <3> HIDE DEF Failed
    <3> QED BY <2>1, LeastNumber
  <2> HIDE DEF Failed
  <2>3. n - 1 \in Nat /\ n - 1 \notin Failed
    BY <1>2, <2>1, <2>2
  <2>4. (n - 1) + 1 \notin Failed
    BY <1>3, <2>3
  <2>5. (n - 1) + 1 = n
    BY <2>1, <2>2
  <2> QED BY <2>2, <2>4, <2>5
<1>5. Cardinality(S) \in Nat /\ UpTo(Cardinality(S)) = SUBSET S
  BY <1>1, FS_Subset, FS_CardinalityType
<1>6. Cardinality(S) \notin Failed
  BY <1>4
<1> QED BY <1>5, <1>6

\* What SumFunctionOnSet unfolds to: one of those solutions.
LEMMA SumUnfolds ==
  ASSUME NEW f, NEW S
  PROVE  SumFunctionOnSet(f, S) = (CHOOSE g : Adds(g, f, SUBSET S))[S]
BY Zenon DEF SumFunctionOnSet, FoldFunctionOnSet, MapThenFoldSet, Adds, First, LessFirst

\* The sums are integers, and which element is taken out of a set first
\* makes no difference.
Sums(g, f, S) == /\ g[{}] = 0
                 /\ \A s \in SUBSET S : g[s] \in Int
                 /\ \A s \in SUBSET S : \A x \in s : g[s] = f[x] + g[s \ {x}]

LEMMA AnyOrder ==
  ASSUME NEW S, IsFiniteSet(S), NEW f \in [S -> Int], NEW g, Adds(g, f, SUBSET S)
  PROVE  Sums(g, f, S)
<1>1. \A s \in SUBSET S : g[s] = IF s = {} THEN 0 ELSE f[First(s)] + g[LessFirst(s)]
  BY DEF Adds
<1>2. g[{}] = 0
  BY <1>1
<1>3. \A s \in SUBSET S : s # {} => First(s) \in s /\ LessFirst(s) = s \ {First(s)}
  BY DEF First, LessFirst
<1>4. \A s \in SUBSET S : g[s] \in Int
  <2> DEFINE Bad == {s \in SUBSET S : g[s] \notin Int}
  <2> SUFFICES ASSUME Bad # {} PROVE FALSE
    OBVIOUS
  <2>1. Bad \in SUBSET SUBSET S
    OBVIOUS
  <2>2. PICK s \in Bad : \A x \in s : s \ {x} \notin Bad
    <3> HIDE DEF Bad
    <3> QED BY <2>1, SmallestSet
  <2>3. s \in SUBSET S /\ g[s] \notin Int
    BY <2>2
  <2>4. s # {}
    <3>1. 0 \in Int
      OBVIOUS
    <3> QED BY Zenon, <1>2, <2>3, <3>1
  <2>5. First(s) \in s /\ LessFirst(s) = s \ {First(s)}
    BY <1>3, <2>3, <2>4
  <2>6. g[LessFirst(s)] \in Int /\ f[First(s)] \in Int
    BY <2>2, <2>3, <2>5
  <2>7. g[s] = f[First(s)] + g[LessFirst(s)]
    BY <1>1, <2>3, <2>4
  <2> QED BY <2>3, <2>6, <2>7
<1>5. \A s \in SUBSET S : \A x \in s : g[s] = f[x] + g[s \ {x}]
  <2> DEFINE Bad == {s \in SUBSET S : \E x \in s : g[s] # f[x] + g[s \ {x}]}
  <2> SUFFICES ASSUME Bad # {} PROVE FALSE
    OBVIOUS
  <2>1. Bad \in SUBSET SUBSET S
    OBVIOUS
  <2>2. PICK s \in Bad : \A x \in s : s \ {x} \notin Bad
    <3> HIDE DEF Bad
    <3> QED BY <2>1, SmallestSet
  <2>3. PICK x \in s : g[s] # f[x] + g[s \ {x}]
    BY <2>2
  <2> DEFINE p == First(s)
             both == s \ {x, p}
  <2>4. s \in SUBSET S /\ p \in s /\ g[s] = f[p] + g[s \ {p}]
    <3>1. s \in SUBSET S /\ s # {}
      BY <2>2, <2>3
    <3> QED BY <1>1, <1>3, <3>1
  <2> HIDE DEF p
  <2>5. x # p
    BY <2>3, <2>4
  <2>6. (s \ {p}) \ {x} = both /\ (s \ {x}) \ {p} = both
    OBVIOUS
  <2>7. g[s \ {p}] = f[x] + g[(s \ {p}) \ {x}]
    BY <2>2, <2>3, <2>4, <2>5
  <2>8. g[s \ {x}] = f[p] + g[(s \ {x}) \ {p}]
    BY <2>2, <2>3, <2>4, <2>5
  <2>9. f[x] \in Int /\ f[p] \in Int /\ g[both] \in Int
    BY <1>4, <2>3, <2>4
  <2> HIDE DEF both
  <2>10. g[s] = f[p] + (f[x] + g[both])
    BY <2>4, <2>6, <2>7
  <2>11. f[x] + g[s \ {x}] = f[x] + (f[p] + g[both])
    BY <2>6, <2>8
  <2> QED BY <2>3, <2>9, <2>10, <2>11
<1> QED BY Zenon, <1>2, <1>4, <1>5 DEF Sums

\* A change of one value changes the sum by as much.
LEMMA SumChanges ==
  ASSUME NEW S, IsFiniteSet(S), NEW f \in [S -> Int], NEW c \in S, NEW v \in Int
  PROVE  /\ SumFunction(f) \in Int
         /\ SumFunction([f EXCEPT ![c] = v]) = SumFunction(f) - f[c] + v
<1> DEFINE h == [f EXCEPT ![c] = v]
           gf == CHOOSE g : Adds(g, f, SUBSET S)
           gh == CHOOSE g : Adds(g, h, SUBSET S)
<1>1. h \in [S -> Int] /\ h[c] = v /\ \A x \in S \ {c} : h[x] = f[x]
  OBVIOUS
<1>2. SumFunction(f) = gf[S] /\ SumFunction(h) = gh[S]
  <2>1. DOMAIN f = S /\ DOMAIN h = S
    BY <1>1
  <2>2. SumFunctionOnSet(f, S) = gf[S] /\ SumFunctionOnSet(h, S) = gh[S]
    <3> HIDE DEF h
    <3> QED BY SumUnfolds
  <2> HIDE DEF h, gf, gh
  <2> QED BY <2>1, <2>2 DEF SumFunction
<1>3. Adds(gf, f, SUBSET S) /\ Adds(gh, h, SUBSET S)
  <2> HIDE DEF h
  <2>1. \E g : Adds(g, f, SUBSET S)
    BY SumsExist
  <2>2. \E g : Adds(g, h, SUBSET S)
    BY SumsExist
  <2> QED BY Zenon, <2>1, <2>2
<1> HIDE DEF gf, gh, h
<1>4. Sums(gf, f, S) /\ Sums(gh, h, S)
  BY Zenon, <1>1, <1>3, AnyOrder
<1>5. /\ gf[{}] = 0 /\ gh[{}] = 0
      /\ \A s \in SUBSET S : gf[s] \in Int /\ gh[s] \in Int
      /\ \A s \in SUBSET S : \A x \in s : /\ gf[s] = f[x] + gf[s \ {x}]
                                         /\ gh[s] = h[x] + gh[s \ {x}]
  BY <1>4 DEF Sums
<1>6. \A s \in SUBSET (S \ {c}) : gh[s] = gf[s]
  <2> DEFINE Bad == {s \in SUBSET (S \ {c}) : gh[s] # gf[s]}
  <2> SUFFICES ASSUME Bad # {} PROVE FALSE
    OBVIOUS
  <2>1. Bad \in SUBSET SUBSET S
    OBVIOUS
  <2>2. PICK s \in Bad : \A x \in s : s \ {x} \notin Bad
    <3> HIDE DEF Bad
    <3> QED BY <2>1, SmallestSet
  <2>3. s \in SUBSET S /\ c \notin s /\ s # {}
    BY <1>5, <2>2
  <2>4. PICK x \in s : TRUE
    BY <2>3
  <2>5. gh[s \ {x}] = gf[s \ {x}]
    BY <2>2, <2>3, <2>4
  <2>6. gh[s] = gf[s]
    BY <1>1, <1>5, <2>3, <2>4, <2>5
  <2> QED BY <2>2, <2>6
<1>7. gf[S] = f[c] + gf[S \ {c}] /\ gh[S] = v + gh[S \ {c}]
  BY <1>1, <1>5
<1>8. gf[S] \in Int /\ gf[S \ {c}] \in Int /\ gh[S \ {c}] = gf[S \ {c}] /\ f[c] \in Int
  BY <1>5, <1>6
<1>9. SumFunction(h) = SumFunction(f) - f[c] + v
  BY <1>2, <1>7, <1>8
<1> QED BY <1>2, <1>8, <1>9 DEF h

\* A sum of zeros is zero.
LEMMA SumOfZeros ==
  ASSUME NEW S, IsFiniteSet(S), NEW f \in [S -> Int], \A x \in S : f[x] = 0
  PROVE  SumFunction(f) = 0
<1> DEFINE gf == CHOOSE g : Adds(g, f, SUBSET S)
<1>1. SumFunction(f) = gf[S]
  <2>1. SumFunctionOnSet(f, S) = gf[S]
    BY SumUnfolds
  <2> HIDE DEF gf
  <2> QED BY <2>1 DEF SumFunction
<1>2. Adds(gf, f, SUBSET S)
  <2>1. \E g : Adds(g, f, SUBSET S)
    BY SumsExist
  <2> QED BY Zenon, <2>1
<1> HIDE DEF gf
<1>3. /\ gf[{}] = 0
      /\ \A s \in SUBSET S : \A x \in s : gf[s] = f[x] + gf[s \ {x}]
  <2>1. Sums(gf, f, S)
    BY Zenon, <1>2, AnyOrder
  <2> QED BY <2>1 DEF Sums
<1>4. gf[S] = 0
  <2> DEFINE Bad == {s \in SUBSET S : gf[s] # 0}
  <2> SUFFICES ASSUME Bad # {} PROVE FALSE
    OBVIOUS
  <2>1. Bad \in SUBSET SUBSET S
    OBVIOUS
  <2>2. PICK s \in Bad : \A x \in s : s \ {x} \notin Bad
    <3> HIDE DEF Bad
    <3> QED BY <2>1, SmallestSet
  <2>3. PICK x \in s : TRUE
    BY <1>3, <2>2
  <2>4. gf[s \ {x}] = 0 /\ x \in S /\ gf[s] = f[x] + gf[s \ {x}]
    BY <1>3, <2>2, <2>3
  <2> QED BY <2>2, <2>4
<1> QED BY <1>1, <1>4

----------------------------------------------------------------------------
(* The upload buffer *)

\* The counter never passes the cap: the compare-exchange writes only the
\* sum it has just checked, and everything else takes away.
THEOREM CapHolds == Spec => []BufferCapped
<1>1. Init => BufferCapped
  BY LimitsAssumption DEF Init, BufferCapped, UploadCap
<1>2. TypeOK /\ BufferCapped /\ [Next]_vars => BufferCapped'
  <2> SUFFICES ASSUME TypeOK, BufferCapped, [Next]_vars PROVE BufferCapped'
    OBVIOUS
  <2> USE LimitsAssumption DEF BufferCapped
  <2>1. UploadCap \in Int /\ UploadCap' = UploadCap
    BY DEF UploadCap
  <2>2. CASE UNCHANGED buffered
    BY <2>1, <2>2
  <2>3. ASSUME NEW c \in Calls, Reserve(c) PROVE BufferCapped'
    <3>1. CASE UNCHANGED buffered
      BY <2>1, <3>1
    <3>2. CASE /\ ~OverCap(c)
               /\ CounterStillAsLoaded(c)
               /\ buffered' = buffered + chunk[c]
      BY <2>1, <3>2 DEF OverCap, CounterStillAsLoaded, TypeOK
    <3> QED
      BY <2>3, <3>1, <3>2 DEF Reserve
  <2>4. ASSUME NEW c \in Calls, Unreserve(c) PROVE BufferCapped'
    BY <2>1, <2>4 DEF Unreserve, Counted, TypeOK
  <2> QED
    BY <2>2, <2>3, <2>4
       DEF Next, vars, shared, dirs, AllDone, Upload, Wait, Render, Unwind, Begin, ReadChunk,
           Append, EndUpload, Acquire, Wake, MakeWorkDir, Stage, Launch, Finish,
           RemoveWorkDir, ReleaseSlot, FreeBytes, Cancel, Expire
<1> QED
  BY <1>1, <1>2, TypeCorrect, PTL DEF Spec

\* The bytes of a call are counted from before they are appended until
\* after they are freed: the inductive form of BytesCounted.
CountedThroughout ==
  \A c \in Calls :
    /\ bytes[c] <= reserved[c]
    /\ pc[c] = "append" => bytes[c] + chunk[c] <= reserved[c]
    /\ pc[c] = "unreserve" => bytes[c] = 0

\* No call holds a byte it has not counted.
THEOREM UploadsCounted == Spec => []BytesCounted
<1>1. Init => CountedThroughout
  BY DEF Init, CountedThroughout
<1>2. TypeOK /\ CountedThroughout /\ [Next]_vars => CountedThroughout'
  <2> SUFFICES ASSUME TypeOK, CountedThroughout, [Next]_vars, NEW d \in Calls
               PROVE  /\ bytes'[d] <= reserved'[d]
                      /\ pc'[d] = "append" => bytes'[d] + chunk'[d] <= reserved'[d]
                      /\ pc'[d] = "unreserve" => bytes'[d] = 0
    BY DEF CountedThroughout
  <2> DEFINE Held == /\ bytes'[d] <= reserved'[d]
                     /\ pc'[d] = "append" => bytes'[d] + chunk'[d] <= reserved'[d]
                     /\ pc'[d] = "unreserve" => bytes'[d] = 0
  <2> USE DEF CountedThroughout, TypeOK, Return, Reject, Fail, Goto, callVars
  <2>1. CASE UNCHANGED vars
    BY <2>1 DEF vars
  <2>2. ASSUME NEW c \in Calls, Begin(c) \/ ReadChunk(c) PROVE Held
    BY <2>2 DEF Begin, ReadChunk
  <2>3. ASSUME NEW c \in Calls, Reserve(c) PROVE Held
    BY <2>3 DEF Reserve, NoAnswer
  <2>4. ASSUME NEW c \in Calls, Append(c) PROVE Held
    BY <2>4 DEF Append
  <2>5. ASSUME NEW c \in Calls, FreeBytes(c) PROVE Held
    BY <2>5 DEF FreeBytes
  <2>6. ASSUME NEW c \in Calls, Unreserve(c) PROVE Held
    BY <2>6 DEF Unreserve
  <2>7. ASSUME NEW c \in Calls, EndUpload(c) \/ Wait(c) PROVE Held
    BY <2>7 DEF EndUpload, Wait, Acquire, Wake
  <2>8. ASSUME NEW c \in Calls, Render(c) PROVE Held
    BY <2>8 DEF Render, MakeWorkDir, Stage, Launch, Finish
  <2>9. ASSUME NEW c \in Calls, RemoveWorkDir(c) PROVE Held
    BY <2>9 DEF RemoveWorkDir
  <2>10. ASSUME NEW c \in Calls, ReleaseSlot(c) PROVE Held
    BY <2>10 DEF ReleaseSlot
  <2>11. ASSUME NEW c \in Calls, Cancel(c) \/ Expire(c) PROVE Held
    BY <2>11 DEF Cancel, Expire
  <2> QED
    BY <2>1, <2>2, <2>3, <2>4, <2>5, <2>6, <2>7, <2>8, <2>9, <2>10, <2>11
       DEF Next, AllDone, Upload, Unwind
<1>3. CountedThroughout => BytesCounted
  BY DEF CountedThroughout, BytesCounted
<1> QED
  BY <1>1, <1>2, <1>3, TypeCorrect, PTL DEF Spec

\* The server-wide counter is the sum of the live reservations, however the
\* compare-exchange loops of the uploads interleave.
THEOREM ReservationsSummed == Spec => []BufferExact
<1> DEFINE Summed == buffered = SumFunction(reserved)
<1>1. Init => Summed
  <2> SUFFICES ASSUME Init PROVE buffered = SumFunction(reserved)
    OBVIOUS
  <2>1. reserved \in [Calls -> Int] /\ buffered = 0 /\ \A c \in Calls : reserved[c] = 0
    BY DEF Init
  <2> QED BY <2>1, SumOfZeros, LimitsAssumption
<1>2. TypeOK /\ Summed /\ [Next]_vars => Summed'
  <2> SUFFICES ASSUME TypeOK, Summed, [Next]_vars PROVE buffered' = SumFunction(reserved')
    OBVIOUS
  <2>1. CASE UNCHANGED <<buffered, reserved>>
    BY <2>1
  <2>2. reserved \in [Calls -> Int] /\ buffered \in Int /\ chunk \in [Calls -> Nat]
    BY DEF TypeOK
  <2>3. ASSUME NEW c \in Calls, Reserve(c) PROVE buffered' = SumFunction(reserved')
    <3>1. CASE UNCHANGED <<buffered, reserved>>
      BY <3>1
    <3>2. CASE /\ buffered' = buffered + chunk[c]
               /\ reserved' = [reserved EXCEPT ![c] = @ + chunk[c]]
      <4>1. reserved[c] \in Int /\ chunk[c] \in Int /\ reserved[c] + chunk[c] \in Int
        BY <2>2
      <4> DEFINE total == reserved[c] + chunk[c]
      <4>2. reserved' = [reserved EXCEPT ![c] = total] /\ total \in Int
        BY <3>2, <4>1
      <4> HIDE DEF total
      <4>3. SumFunction(reserved') = SumFunction(reserved) - reserved[c] + total
        BY Zenon, <2>2, <4>2, SumChanges, LimitsAssumption
      <4>4. SumFunction(reserved) \in Int
        BY <2>2, <3>2
      <4> QED BY <3>2, <4>1, <4>3, <4>4 DEF total
    <3> QED BY <2>3, <3>1, <3>2 DEF Reserve
  <2>4. ASSUME NEW c \in Calls, Unreserve(c) PROVE buffered' = SumFunction(reserved')
    <3>1. /\ buffered' = buffered - reserved[c]
          /\ reserved' = [reserved EXCEPT ![c] = 0]
      BY <2>4 DEF Unreserve, Counted
    <3>2. 0 \in Int /\ reserved[c] \in Int
      BY <2>2
    <3>3. SumFunction(reserved') = SumFunction(reserved) - reserved[c] + 0
      BY Zenon, <2>2, <3>1, <3>2, SumChanges, LimitsAssumption
    <3>4. SumFunction(reserved') = SumFunction(reserved) - reserved[c]
      BY <2>2, <3>2, <3>3
    <3> QED BY <3>1, <3>4
  <2> QED
    BY <2>1, <2>3, <2>4
       DEF Next, vars, callVars, shared, dirs, AllDone, Upload, Wait, Render, Unwind, Begin,
           ReadChunk, Append, EndUpload, Acquire, Wake, MakeWorkDir, Stage, Launch,
           Finish, RemoveWorkDir, ReleaseSlot, FreeBytes, Cancel, Expire
<1>3. Summed /\ BytesCounted => BufferExact
  BY DEF BufferExact
<1> HIDE DEF Summed
<1> QED
  BY <1>1, <1>2, <1>3, TypeCorrect, UploadsCounted, PTL DEF Spec

----------------------------------------------------------------------------
(* The slots and the work dirs *)

SlotSteps == {"mkdir", "stage", "launch", "running", "rmdir", "release"}
DirSteps == SlotSteps \ {"mkdir", "release"}

\* Where a call is says what it holds: the destructors run in the reverse
\* order of the constructors on every way out of render.
HoldsByPlace ==
  \A c \in Calls : /\ held[c] <=> pc[c] \in SlotSteps
                   /\ pc[c] \in DirSteps => c \in workDirs
                   /\ c \in workDirs => pc[c] \in DirSteps \/ c \in undeleted
                   /\ pc[c] \in {"launch", "running"} => staged[c] = needs[c]

\* Every step keeps what a call holds in line with where it is.
LEMMA PlaceStep == ASSUME TypeOK, HoldsByPlace, [Next]_vars PROVE HoldsByPlace'
<1> SUFFICES ASSUME NEW d \in Calls
             PROVE  /\ held'[d] <=> pc'[d] \in SlotSteps
                    /\ pc'[d] \in DirSteps => d \in workDirs'
                    /\ d \in workDirs' => pc'[d] \in DirSteps \/ d \in undeleted'
                    /\ pc'[d] \in {"launch", "running"} => staged'[d] = needs'[d]
  BY DEF HoldsByPlace
<1> DEFINE Kept == /\ held'[d] <=> pc'[d] \in SlotSteps
                   /\ pc'[d] \in DirSteps => d \in workDirs'
                   /\ d \in workDirs' => pc'[d] \in DirSteps \/ d \in undeleted'
                   /\ pc'[d] \in {"launch", "running"} => staged'[d] = needs'[d]
<1> USE DEF HoldsByPlace, SlotSteps, DirSteps, TypeOK, Return, Reject, Fail, Goto,
            callVars, shared, dirs
<1>1. CASE UNCHANGED vars
  BY <1>1 DEF vars
<1>2. ASSUME NEW c \in Calls, Begin(c) \/ ReadChunk(c) PROVE Kept
  BY <1>2 DEF Begin, ReadChunk
<1>3. ASSUME NEW c \in Calls, Reserve(c) \/ Append(c) \/ EndUpload(c) PROVE Kept
  BY <1>3 DEF Reserve, Append, EndUpload
<1>4. ASSUME NEW c \in Calls, Acquire(c) PROVE Kept
  BY <1>4 DEF Acquire
<1>5. ASSUME NEW c \in Calls, Wake(c) PROVE Kept
  BY <1>5 DEF Wake
<1>6. ASSUME NEW c \in Calls, MakeWorkDir(c) PROVE Kept
  BY <1>6 DEF MakeWorkDir
<1>7. ASSUME NEW c \in Calls, Stage(c) PROVE Kept
  BY <1>7 DEF Stage, AllWhole
<1>8. ASSUME NEW c \in Calls, Launch(c) \/ Finish(c) PROVE Kept
  BY <1>8 DEF Launch, Finish
<1>9. ASSUME NEW c \in Calls, RemoveWorkDir(c) PROVE Kept
  BY <1>9 DEF RemoveWorkDir, DirsWithout
<1>10. ASSUME NEW c \in Calls, ReleaseSlot(c) PROVE Kept
  BY <1>10 DEF ReleaseSlot
<1>11. ASSUME NEW c \in Calls, FreeBytes(c) \/ Unreserve(c) PROVE Kept
  BY <1>11 DEF FreeBytes, Unreserve
<1>12. ASSUME NEW c \in Calls, Cancel(c) \/ Expire(c) PROVE Kept
  BY <1>12 DEF Cancel, Expire
<1> QED
  BY <1>1, <1>2, <1>3, <1>4, <1>5, <1>6, <1>7, <1>8, <1>9, <1>10, <1>11, <1>12
     DEF Next, AllDone, Upload, Wait, Render, Unwind

\* So it is in every reachable state.
LEMMA PlacesHold == Spec => []HoldsByPlace
<1>1. Init => HoldsByPlace
  BY DEF Init, HoldsByPlace, SlotSteps, DirSteps
<1> QED
  BY <1>1, PlaceStep, TypeCorrect, PTL DEF Spec

\* A work dir exists only under a held slot, unless it could not be removed.
THEOREM DirsUnderSlots == Spec => []WorkDirsHoldSlots
<1>1. TypeOK /\ HoldsByPlace => WorkDirsHoldSlots
  BY DEF TypeOK, HoldsByPlace, WorkDirsHoldSlots, Holders, SlotSteps, DirSteps
<1> QED
  BY <1>1, TypeCorrect, PlacesHold, PTL

\* A worker starts only with every file its call depends on written whole.
THEOREM WorkersBriefed == Spec => []WorkerBriefed
<1>1. HoldsByPlace => WorkerBriefed
  BY DEF HoldsByPlace, WorkerBriefed, SlotSteps, DirSteps
<1> QED
  BY <1>1, PlacesHold, PTL

\* busy_slots_ counts the slot holders, and there are never too many.
LEMMA SlotStep ==
  ASSUME TypeOK, HoldsByPlace, SlotsBounded, [Next]_vars PROVE SlotsBounded'
<1> USE LimitsAssumption DEF SlotsBounded
<1>1. IsFiniteSet(Holders) /\ Cardinality(Holders) \in Nat
  BY FS_Subset, FS_CardinalityType DEF Holders
<1>2. CASE UNCHANGED <<busy, held>>
  BY <1>2 DEF Holders
<1>3. ASSUME NEW c \in Calls, Acquire(c) PROVE SlotsBounded'
  <2>1. CASE SlotFree /\ busy' = busy + 1 /\ held' = [held EXCEPT ![c] = TRUE]
    <3>1. c \notin Holders
      BY <1>3 DEF Acquire, HoldsByPlace, SlotSteps, Holders
    <3>2. Holders' = Holders \cup {c}
      BY <2>1 DEF Holders, TypeOK
    <3>3. Cardinality(Holders') = Cardinality(Holders) + 1
      BY <1>1, <3>1, <3>2, FS_AddElement
    <3> QED
      BY <2>1, <3>3 DEF SlotFree, TypeOK
  <2> QED
    BY <1>2, <1>3, <2>1 DEF Acquire
<1>4. ASSUME NEW c \in Calls, ReleaseSlot(c) PROVE SlotsBounded'
  <2>1. c \in Holders
    BY <1>4 DEF ReleaseSlot, HoldsByPlace, SlotSteps, Holders
  <2>2. Holders' = Holders \ {c}
    BY <1>4 DEF ReleaseSlot, Holders, TypeOK
  <2>3. Cardinality(Holders') = Cardinality(Holders) - 1
    BY <1>1, <2>1, <2>2, FS_RemoveElement
  <2> QED
    BY <1>4, <2>3 DEF ReleaseSlot, BusyWithoutOne, TypeOK
<1> QED
  BY <1>2, <1>3, <1>4
     DEF Next, vars, callVars, shared, dirs, AllDone, Upload, Wait, Render, Unwind, Begin,
         ReadChunk, Reserve, Append, EndUpload, Wake, MakeWorkDir, Stage, Launch,
         Finish, RemoveWorkDir, FreeBytes, Unreserve, Cancel, Expire

\* No more workers run at once than there are slots, and busy_slots_ is the
\* number of calls that hold one.
THEOREM SlotsNeverExceeded == Spec => []SlotsBounded
<1>1. Init => SlotsBounded
  <2>1. Init => Holders = {}
    BY DEF Init, Holders
  <2> QED
    BY <2>1, FS_EmptySet, LimitsAssumption DEF Init, SlotsBounded
<1> QED
  BY <1>1, SlotStep, TypeCorrect, PlacesHold, PTL DEF Spec

\* A call that has not begun or is over reserves no byte.
NothingReserved == \A c \in Calls : ~InFlight(c) => reserved[c] = 0

\* When no call is in flight, whatever way each one ended, the server holds
\* no byte, no slot and no work dir but those the file system kept: the
\* reservations summed, the slots counted and the work dirs are those of calls
\* in flight.
THEOREM ServerIdleIsEmpty == Spec => []NothingLeftBehind
<1>1. Init => NothingReserved
  BY DEF Init, NothingReserved
<1>2. TypeOK /\ NothingReserved /\ [Next]_vars => NothingReserved'
  <2> SUFFICES ASSUME TypeOK, NothingReserved, [Next]_vars, NEW d \in Calls
               PROVE  pc'[d] \in {"idle", "done"} => reserved'[d] = 0
    BY DEF NothingReserved, InFlight
  <2> DEFINE Freed == pc'[d] \in {"idle", "done"} => reserved'[d] = 0
  <2> USE DEF NothingReserved, InFlight, TypeOK, Return, Reject, Fail, Goto, callVars
  <2>1. CASE UNCHANGED vars
    BY <2>1 DEF vars
  <2>2. ASSUME NEW c \in Calls, Begin(c) \/ ReadChunk(c) PROVE Freed
    BY <2>2 DEF Begin, ReadChunk
  <2>3. ASSUME NEW c \in Calls, Reserve(c) PROVE Freed
    BY <2>3 DEF Reserve, NoAnswer
  <2>4. ASSUME NEW c \in Calls, Append(c) \/ EndUpload(c) \/ Wait(c) PROVE Freed
    BY <2>4 DEF Append, EndUpload, Wait, Acquire, Wake
  <2>5. ASSUME NEW c \in Calls, Render(c) PROVE Freed
    BY <2>5 DEF Render, MakeWorkDir, Stage, Launch, Finish
  <2>6. ASSUME NEW c \in Calls, RemoveWorkDir(c) \/ ReleaseSlot(c) PROVE Freed
    BY <2>6 DEF RemoveWorkDir, ReleaseSlot
  <2>7. ASSUME NEW c \in Calls, FreeBytes(c) \/ Unreserve(c) PROVE Freed
    BY <2>7 DEF FreeBytes, Unreserve
  <2>8. ASSUME NEW c \in Calls, Cancel(c) \/ Expire(c) PROVE Freed
    BY <2>8 DEF Cancel, Expire
  <2> QED
    BY <2>1, <2>2, <2>3, <2>4, <2>5, <2>6, <2>7, <2>8 DEF Next, AllDone, Upload, Unwind
<1>3. TypeOK /\ NothingReserved /\ BufferExact /\ HoldsByPlace /\ SlotsBounded
        => NothingLeftBehind
  <2> SUFFICES ASSUME TypeOK, NothingReserved, BufferExact, HoldsByPlace, SlotsBounded,
                      \A c \in Calls : ~InFlight(c)
               PROVE  buffered = 0 /\ busy = 0 /\ workDirs \subseteq undeleted
    BY DEF NothingLeftBehind
  <2>1. buffered = 0
    <3>1. reserved \in [Calls -> Int] /\ \A c \in Calls : reserved[c] = 0
      BY DEF TypeOK, NothingReserved
    <3> QED BY <3>1, SumOfZeros, LimitsAssumption DEF BufferExact
  <2>2. \A c \in Calls : pc[c] \notin SlotSteps \cup DirSteps
    BY DEF InFlight, SlotSteps, DirSteps
  <2>3. Holders = {} /\ workDirs \subseteq undeleted
    BY <2>2 DEF HoldsByPlace, Holders, TypeOK
  <2> QED BY <2>1, <2>3, FS_EmptySet DEF SlotsBounded
<1> QED
  BY <1>1, <1>2, <1>3, TypeCorrect, PlacesHold, SlotsNeverExceeded, ReservationsSummed,
     PTL DEF Spec

----------------------------------------------------------------------------
(* The answers *)

AnsweredSteps == {"rmdir", "release", "free", "unreserve", "done"}

\* A call has a status from its return statement on, and not before.
AnsweredByPlace == \A c \in Calls : status[c] = "none" <=> pc[c] \notin AnsweredSteps

\* The calls whose status is in S.
Having(S) == {c \in Calls : status[c] \in S}

\* One return statement counts the call it answers, in the right counter.
LEMMA ReturnCounts ==
  ASSUME TypeOK, AnsweredOnce, NEW c \in Calls, status[c] = "none",
         NEW counter \in Counters, NEW code \in Codes, NEW step,
         counter = "rendered" <=> code = "OK",
         Return(c, counter, code, step)
  PROVE  AnsweredOnce'
<1> USE LimitsAssumption DEF Return, TypeOK
<1>1. \A S : /\ IsFiniteSet(Having(S))
             /\ Cardinality(Having(S)) \in Nat
  BY FS_Subset, FS_CardinalityType DEF Having
<1>2. ASSUME NEW S \in {Codes, {"OK"}}
      PROVE  Cardinality(Having(S)') = Cardinality(Having(S)) + (IF code \in S THEN 1 ELSE 0)
  <2>1. c \notin Having(S)
    BY <1>2 DEF Having
  <2>2. CASE code \in S
    <3>1. Having(S)' = Having(S) \cup {c}
      BY <2>2 DEF Having
    <3>2. Cardinality(Having(S) \cup {c}) = Cardinality(Having(S)) + 1
      BY <1>1, <2>1, FS_AddElement
    <3> QED
      BY <2>2, <3>1, <3>2
  <2>3. CASE code \notin S
    <3>1. Having(S)' = Having(S)
      BY <2>3 DEF Having
    <3> QED
      BY <1>1, <2>3, <3>1
  <2> QED
    BY <2>2, <2>3
<1>3. /\ Cardinality(Having(Codes)') = Cardinality(Having(Codes)) + 1
      /\ Cardinality(Having({"OK"})') = Cardinality(Having({"OK"}))
                                          + (IF counter = "rendered" THEN 1 ELSE 0)
  BY <1>2
<1>4. /\ answers'["rendered"] = answers["rendered"] + (IF counter = "rendered" THEN 1 ELSE 0)
      /\ answers'["rendered"] + answers'["rejected"] + answers'["failed"]
           = answers["rendered"] + answers["rejected"] + answers["failed"] + 1
  OBVIOUS
<1>5. /\ answers["rendered"] + answers["rejected"] + answers["failed"]
           = Cardinality(Having(Codes))
      /\ answers["rendered"] = Cardinality(Having({"OK"}))
  BY DEF AnsweredOnce, Having
<1>6. /\ answers'["rendered"] + answers'["rejected"] + answers'["failed"]
           = Cardinality(Having(Codes)')
      /\ answers'["rendered"] = Cardinality(Having({"OK"})')
  BY <1>1, <1>3, <1>4, <1>5
<1> QED
  BY <1>6 DEF AnsweredOnce, Having

\* Nothing but a return statement sets a status, and none is set twice.
LEMMA AnsweredPlaceStep ==
  ASSUME TypeOK, AnsweredByPlace, [Next]_vars PROVE AnsweredByPlace'
<1> SUFFICES ASSUME NEW d \in Calls PROVE status'[d] = "none" <=> pc'[d] \notin AnsweredSteps
  BY DEF AnsweredByPlace
<1> DEFINE Kept == status'[d] = "none" <=> pc'[d] \notin AnsweredSteps
<1> USE DEF AnsweredByPlace, AnsweredSteps, TypeOK, Return, Reject, Fail, Goto, NoAnswer
<1>1. CASE UNCHANGED vars
  BY <1>1 DEF vars
<1>2. ASSUME NEW c \in Calls, Begin(c) \/ ReadChunk(c) PROVE Kept
  BY <1>2 DEF Begin, ReadChunk
<1>3. ASSUME NEW c \in Calls, Reserve(c) \/ Append(c) \/ EndUpload(c) PROVE Kept
  BY <1>3 DEF Reserve, Append, EndUpload
<1>4. ASSUME NEW c \in Calls, Acquire(c) \/ Wake(c) PROVE Kept
  BY <1>4 DEF Acquire, Wake
<1>5. ASSUME NEW c \in Calls, MakeWorkDir(c) \/ Stage(c) \/ Launch(c) PROVE Kept
  BY <1>5 DEF MakeWorkDir, Stage, Launch
<1>6. ASSUME NEW c \in Calls, Finish(c) PROVE Kept
  BY <1>6, AnswersTyped DEF Finish
<1>7. ASSUME NEW c \in Calls, RemoveWorkDir(c) \/ ReleaseSlot(c) PROVE Kept
  BY <1>7 DEF RemoveWorkDir, ReleaseSlot
<1>8. ASSUME NEW c \in Calls, FreeBytes(c) \/ Unreserve(c) PROVE Kept
  BY <1>8 DEF FreeBytes, Unreserve
<1>9. ASSUME NEW c \in Calls, Cancel(c) \/ Expire(c) PROVE Kept
  BY <1>9 DEF Cancel, Expire
<1> QED
  BY <1>1, <1>2, <1>3, <1>4, <1>5, <1>6, <1>7, <1>8, <1>9
     DEF Next, AllDone, Upload, Wait, Render, Unwind

\* Every step keeps the counters in line with the statuses.
LEMMA AnsweredStep ==
  ASSUME TypeOK, AnsweredByPlace, AnsweredOnce, [Next]_vars PROVE AnsweredOnce'
<1>1. CASE UNCHANGED <<status, answers>>
  BY <1>1 DEF AnsweredOnce
<1>2. ASSUME NEW c \in Calls, pc[c] \notin AnsweredSteps, NEW step,
             NEW code \in Codes \ {"OK"},
             Reject(c, code, step) \/ Fail(c, code, step)
      PROVE  AnsweredOnce'
  BY <1>2, ReturnCounts DEF AnsweredByPlace, Reject, Fail
<1>3. ASSUME NEW c \in Calls, Finish(c) PROVE AnsweredOnce'
  <2>1. status[c] = "none"
    BY <1>3 DEF Finish, AnsweredByPlace, AnsweredSteps
  <2>2. PICK kind \in DOMAIN Answer : Return(c, Answer[kind][1], Answer[kind][2], "rmdir")
    BY <1>3 DEF Finish
  <2>3. Answer[kind][1] = "rendered" <=> Answer[kind][2] = "OK"
    BY DEF Answer, CancelledAnswer
  <2> QED
    BY <2>1, <2>2, <2>3, AnswersTyped, ReturnCounts
<1>4. ASSUME NEW c \in Calls, Begin(c) \/ ReadChunk(c) \/ Reserve(c) \/ Append(c)
      PROVE  AnsweredOnce'
  BY <1>1, <1>2, <1>4
     DEF Begin, ReadChunk, Reserve, Append, NoAnswer, AnsweredSteps
<1>5. ASSUME NEW c \in Calls, EndUpload(c) \/ Acquire(c) PROVE AnsweredOnce'
  BY <1>1, <1>2, <1>5 DEF EndUpload, Acquire, NoAnswer, AnsweredSteps
<1>6. ASSUME NEW c \in Calls, MakeWorkDir(c) \/ Stage(c) \/ Launch(c) PROVE AnsweredOnce'
  BY <1>1, <1>2, <1>6 DEF MakeWorkDir, Stage, Launch, NoAnswer, AnsweredSteps
<1> QED
  BY <1>1, <1>3, <1>4, <1>5, <1>6
     DEF Next, vars, AllDone, Upload, Wait, Render, Unwind, Wake, RemoveWorkDir,
         ReleaseSlot, FreeBytes, Unreserve, Cancel, Expire

\* rendered, rejected and failed count each answered call once.
THEOREM AnswersCounted == Spec => []AnsweredOnce
<1>1. Init => AnsweredByPlace
  BY DEF Init, AnsweredByPlace, AnsweredSteps
<1>2. Init => AnsweredOnce
  <2>1. Init => \A S \in {Codes, {"OK"}} : Having(S) = {}
    BY DEF Init, Having
  <2> QED
    BY <2>1, FS_EmptySet DEF Init, AnsweredOnce, Having
<1> QED
  BY <1>1, <1>2, AnsweredPlaceStep, AnsweredStep, TypeCorrect, PTL DEF Spec
=============================================================================
