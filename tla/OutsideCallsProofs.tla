--------------------------- MODULE OutsideCallsProofs ---------------------------
(***************************************************************************)
(* Proofs about OutsideCalls, for every call, tool, output and comparison: *)
(* that only what the entries permit is run, what a tool that runs on      *)
(* after its call owes it to, that a result is all its lines yield or      *)
(* nothing, that subdomains stay in scope, and that alerts add up.  First  *)
(* what the folds of the model compute, then what holds at each place of a *)
(* call.                                                                   *)
(***************************************************************************)
EXTENDS OutsideCalls, ScopeProofs, TLAPS

-----------------------------------------------------------------------------
(* Folds over a sequence *)

\* Numbers of an interval, if any, have a greatest.
LEMMA GreatestIsMax ==
    ASSUME NEW n \in Nat, NEW s \in SUBSET (1 .. n), s # {}
    PROVE  Max(s) \in s /\ \A i \in s : i <= Max(s)
<1> DEFINE S == {k \in Nat : \A t \in SUBSET (1 .. k) : t # {} => \E m \in t : \A i \in t : m >= i}
<1>1. 0 \in S
  <2>1. \A t \in SUBSET (1 .. 0) : t = {}
    OBVIOUS
  <2> QED  BY <2>1
<1>2. ASSUME NEW k \in Nat, k \in S
      PROVE  k + 1 \in S
  <2> SUFFICES ASSUME NEW t \in SUBSET (1 .. k + 1), t # {}
               PROVE  \E m \in t : \A i \in t : m >= i
    OBVIOUS
  <2>1. CASE k + 1 \in t
    BY <2>1
  <2>2. CASE k + 1 \notin t
    <3>1. t \in SUBSET (1 .. k)
      BY <2>2
    <3> QED  BY <1>2, <3>1
  <2> QED  BY <2>1, <2>2
<1> HIDE DEF S
<1>3. \A k \in Nat : k \in S
  BY <1>1, <1>2, AllNumbers
<1>4. \E m \in s : \A i \in s : m >= i
  BY <1>3 DEF S
<1>5. Max(s) \in s /\ \A i \in s : Max(s) >= i
  BY <1>4 DEF Max
<1> QED  BY <1>5

\* What a fold goes through: a value for each set of places, got from that of
\* the set without its last place.
IsFoldOver(f, n, A, base, step) ==
    /\ f \in [SUBSET (1 .. n) -> A]
    /\ \A s \in SUBSET (1 .. n) :
           f[s] = IF s = {} THEN base ELSE step[Max(s)][f[s \ {Max(s)}]]

\* It exists, for any steps.
LEMMA FoldsExist ==
    ASSUME NEW A, NEW base \in A, NEW n \in Nat, NEW step \in [1 .. n -> [A -> A]]
    PROVE  \E f : IsFoldOver(f, n, A, base, step)
<1> USE DEF IsFoldOver
<1> DEFINE Folds(f, k) == IsFoldOver(f, k, A, base, step)
           S == {k \in Nat : k <= n => \E f : Folds(f, k)}
<1>1. 0 \in S
  <2> DEFINE f == [s \in SUBSET (1 .. 0) |-> base]
  <2>1. \A s \in SUBSET (1 .. 0) : s = {}
    OBVIOUS
  <2>2. f \in [SUBSET (1 .. 0) -> A] /\ \A s \in SUBSET (1 .. 0) : f[s] = base
    OBVIOUS
  <2> HIDE DEF f
  <2>3. Folds(f, 0)
    BY <2>1, <2>2
  <2> QED  BY <2>3
<1>2. ASSUME NEW k \in Nat, k \in S
      PROVE  k + 1 \in S
  <2> HIDE DEF Folds
  <2> SUFFICES ASSUME k + 1 <= n PROVE \E f : Folds(f, k + 1)
    OBVIOUS
  <2>1. PICK f : Folds(f, k)
    <3>1. k <= n
      OBVIOUS
    <3> QED  BY <1>2, <3>1
  <2> USE DEF Folds
  <2> DEFINE g == [s \in SUBSET (1 .. k + 1) |->
                      IF k + 1 \in s THEN step[k + 1][f[s \ {k + 1}]] ELSE f[s]]
  <2>2. k + 1 \in 1 .. n
    OBVIOUS
  <2>3. ASSUME NEW s \in SUBSET (1 .. k + 1)
        PROVE  s \ {k + 1} \in SUBSET (1 .. k) /\ (k + 1 \notin s => s \in SUBSET (1 .. k))
    OBVIOUS
  <2>4. \A s \in SUBSET (1 .. k) : f[s] \in A
    BY <2>1
  <2>5. ASSUME NEW s \in SUBSET (1 .. k + 1)
        PROVE  /\ k + 1 \in s => g[s] = step[k + 1][f[s \ {k + 1}]]
               /\ k + 1 \notin s => g[s] = f[s]
               /\ g[s] \in A
    BY <2>2, <2>3, <2>4
  <2>6. g \in [SUBSET (1 .. k + 1) -> A]
    BY <2>5
  <2> HIDE DEF g
  <2>7. ASSUME NEW s \in SUBSET (1 .. k + 1)
        PROVE  g[s] = IF s = {} THEN base ELSE step[Max(s)][g[s \ {Max(s)}]]
    <3>1. CASE k + 1 \in s
      <4>1. Max(s) = k + 1
        <5>1. k + 1 \in Nat /\ s # {}
          BY <3>1
        <5>2. Max(s) \in s /\ \A i \in s : i <= Max(s)
          BY <5>1, GreatestIsMax
        <5>3. Max(s) \in 1 .. k + 1 /\ k + 1 <= Max(s)
          BY <3>1, <5>2
        <5> QED  BY <5>3
      <4>2. s \ {k + 1} \in SUBSET (1 .. k + 1) /\ k + 1 \notin s \ {k + 1}
        OBVIOUS
      <4>3. g[s \ {k + 1}] = f[s \ {k + 1}]
        BY <2>5, <4>2
      <4> QED  BY <2>5, <3>1, <4>1, <4>3
    <3>2. CASE k + 1 \notin s /\ s # {}
      <4>1. s \in SUBSET (1 .. k) /\ s \ {Max(s)} \in SUBSET (1 .. k)
        BY <2>3, <3>2
      <4>2. s \ {Max(s)} \in SUBSET (1 .. k + 1) /\ k + 1 \notin s \ {Max(s)}
        BY <3>2
      <4>3. g[s] = f[s] /\ g[s \ {Max(s)}] = f[s \ {Max(s)}]
        BY <2>5, <3>2, <4>2
      <4>4. f[s] = step[Max(s)][f[s \ {Max(s)}]]
        BY <2>1, <3>2, <4>1
      <4> QED  BY <3>2, <4>3, <4>4
    <3>3. CASE s = {}
      <4>1. {} \in SUBSET (1 .. k) /\ {} \in SUBSET (1 .. k + 1)
        OBVIOUS
      <4>2. f[{}] = base
        BY <2>1, <4>1
      <4>3. g[{}] = f[{}]
        BY <2>5, <4>1
      <4> QED  BY <3>3, <4>2, <4>3
    <3> QED  BY <3>1, <3>2, <3>3
  <2>8. Folds(g, k + 1)
    BY <2>6, <2>7
  <2> HIDE DEF Folds
  <2> QED  BY <2>8
<1> HIDE DEF S, Folds
<1>3. \A k \in Nat : k \in S
  BY <1>1, <1>2, AllNumbers
<1>4. \E f : Folds(f, n)
  BY <1>3 DEF S
<1> QED  BY <1>4 DEF Folds

\* The prefixes of what a fold goes through.
LEMMA PrefixesOfFolds ==
    ASSUME NEW n \in Nat, NEW k \in 1 .. n
    PROVE  /\ 1 .. k \in SUBSET (1 .. n) /\ 1 .. k # {} /\ Max(1 .. k) = k
           /\ (1 .. k) \ {Max(1 .. k)} = 1 .. k - 1
<1>1. 1 .. k \in SUBSET (1 .. n) /\ 1 .. k # {} /\ k \in 1 .. k
  OBVIOUS
<1>2. Max(1 .. k) \in 1 .. k /\ \A i \in 1 .. k : i <= Max(1 .. k)
  BY <1>1, GreatestIsMax
<1>3. Max(1 .. k) = k
  BY <1>1, <1>2
<1>4. (1 .. k) \ {k} = 1 .. k - 1
  OBVIOUS
<1> QED  BY <1>1, <1>3, <1>4

-----------------------------------------------------------------------------
(* The alert *)

\* The lengths and sums of groups, as far as the sections go through them.
LEMMA CountAccumulates ==
    ASSUME NEW groups \in Groups
    PROVE  \E sum \in [0 .. Len(groups) -> Nat] :
               /\ sum[0] = 0
               /\ \A k \in 1 .. Len(groups) : sum[k] = sum[k - 1] + groups[k].count
               /\ CountOf(groups) = sum[Len(groups)]
<1> DEFINE n == Len(groups)
           step == [i \in 1 .. n |-> [a \in Nat |-> a + groups[i].count]]
           Folds(f) == f = [s \in SUBSET (DOMAIN groups) |->
                               IF s = {} THEN 0 ELSE f[s \ {Max(s)}] + groups[Max(s)].count]
           fold == CHOOSE f : Folds(f)
           sum == [k \in 0 .. n |-> fold[1 .. k]]
<1>1. n \in Nat /\ DOMAIN groups = 1 .. n /\ \A i \in 1 .. n : groups[i].count \in Nat
  <2>1. n \in Nat /\ DOMAIN groups = 1 .. n /\ groups \in [1 .. n -> [count : Nat \ {0}, width : Nat \ {0}]]
    BY LenProperties DEF Groups
  <2> QED  BY <2>1
<1>2. CountOf(groups) = fold[DOMAIN groups]
  BY Zenon DEF CountOf, FoldLeft, MapThenFoldSet
<1> HIDE DEF n
<1>3. step \in [1 .. n -> [Nat -> Nat]]
  BY <1>1
<1>4. \E f : Folds(f)
  <2> HIDE DEF step
  <2>0. PICK f : IsFoldOver(f, n, Nat, 0, step)
    BY <1>1, <1>3, FoldsExist
  <2>1. /\ f \in [SUBSET (1 .. n) -> Nat]
        /\ \A s \in SUBSET (1 .. n) :
               f[s] = IF s = {} THEN 0 ELSE step[Max(s)][f[s \ {Max(s)}]]
    BY <2>0 DEF IsFoldOver
  <2>2. ASSUME NEW s \in SUBSET (1 .. n), s # {}
        PROVE  step[Max(s)][f[s \ {Max(s)}]] = f[s \ {Max(s)}] + groups[Max(s)].count
    <3>1. Max(s) \in 1 .. n
      BY <1>1, <2>2, GreatestIsMax
    <3>2. f[s \ {Max(s)}] \in Nat
      BY <2>1
    <3> QED  BY <3>1, <3>2 DEF step
  <2>3. f = [s \in SUBSET (1 .. n) |-> f[s]]
    BY <2>1
  <2>4. f = [s \in SUBSET (1 .. n) |->
                 IF s = {} THEN 0 ELSE f[s \ {Max(s)}] + groups[Max(s)].count]
    BY <2>1, <2>2, <2>3
  <2> QED  BY <1>1, <2>4
<1>5. Folds(fold)
  <2> HIDE DEF Folds
  <2> QED  BY <1>4
<1> HIDE DEF fold
<1>6. \A s \in SUBSET (1 .. n) :
          fold[s] = IF s = {} THEN 0 ELSE fold[s \ {Max(s)}] + groups[Max(s)].count
  BY <1>1, <1>5
<1> HIDE DEF Folds
<1>7. sum[0] = 0
  <2>1. 1 .. 0 = {} /\ {} \in SUBSET (1 .. n) /\ 0 \in 0 .. n
    BY <1>1
  <2> QED  BY <1>6, <2>1
<1>8. ASSUME NEW k \in 1 .. n
      PROVE  sum[k] = sum[k - 1] + groups[k].count
  <2>1. k \in 0 .. n /\ k - 1 \in 0 .. n
    BY <1>1
  <2>2. fold[1 .. k] = fold[1 .. k - 1] + groups[k].count
    <3>1. /\ 1 .. k \in SUBSET (1 .. n) /\ 1 .. k # {} /\ Max(1 .. k) = k
          /\ (1 .. k) \ {Max(1 .. k)} = 1 .. k - 1
      BY <1>1, PrefixesOfFolds
    <3>2. fold[1 .. k] = fold[(1 .. k) \ {Max(1 .. k)}] + groups[Max(1 .. k)].count
      BY <1>6, <3>1
    <3> QED  BY <3>1, <3>2
  <2> QED  BY <2>1, <2>2
<1>9. CountOf(groups) = sum[n]
  BY <1>1, <1>2
<1>10. sum \in [0 .. n -> Nat]
  <2> DEFINE S == {k \in Nat : k <= n => sum[k] \in Nat}
  <2>1. 0 \in S
    BY <1>7
  <2> HIDE DEF sum
  <2>2. ASSUME NEW k \in Nat, k \in S
        PROVE  k + 1 \in S
    <3> SUFFICES ASSUME k + 1 <= n PROVE sum[k + 1] \in Nat
      OBVIOUS
    <3>1. k + 1 \in 1 .. n /\ k + 1 - 1 = k /\ sum[k] \in Nat
      BY <1>1, <2>2
    <3>2. sum[k + 1] = sum[k] + groups[k + 1].count
      BY <1>8, <3>1
    <3> QED  BY <1>1, <3>1, <3>2
  <2> HIDE DEF S
  <2>3. \A k \in Nat : k \in S
    BY <2>1, <2>2, AllNumbers
  <2>4. \A k \in 0 .. n : sum[k] \in Nat
    BY <1>1, <2>3 DEF S
  <2>5. sum = [k \in 0 .. n |-> sum[k]]
    BY DEF sum
  <2> QED  BY <2>4, <2>5
<1> HIDE DEF sum
<1> QED  BY <1>7, <1>8, <1>9, <1>10 DEF n

\* A list as far as it is rendered.
Lists == [listed : 0 .. Cap, more : Int, length : Nat, stopped : BOOLEAN]

\* One more type keeps it one.
LEMMA GroupKeepsList ==
    ASSUME NEW total \in Nat, NEW done \in Lists,
           NEW group \in [count : Nat \ {0}, width : Nat \ {0}]
    PROVE  RenderGroup(total, done, group) \in Lists
<1> DEFINE n == SmallerOf(group.count, Cap - done.listed)
           stops == n < group.count
<1>1. /\ done.listed \in 0 .. Cap /\ done.length \in Nat /\ Cap \in Nat
      /\ group.count \in Nat /\ group.width \in Nat
  BY CapsArePositive DEF Lists
<1>2. n \in Nat /\ done.listed + n \in 0 .. Cap
  BY <1>1 DEF SmallerOf
<1>3. stops \in BOOLEAN
  OBVIOUS
<1> HIDE DEF n, stops
<1>4. n * (ItemLine + group.width) \in Nat
  BY <1>1, <1>2 DEF ItemLine
<1>5. /\ done.length + GroupLine + n * (ItemLine + group.width)
           + (IF stops THEN MoreLine ELSE 0) \in Nat
      /\ (IF stops THEN total - (done.listed + n) ELSE 0) \in Int
  <2> DEFINE all == n * (ItemLine + group.width)
  <2> HIDE DEF all
  <2>1. all \in Nat
    BY <1>4 DEF all
  <2>2. /\ done.length + GroupLine + all + (IF stops THEN MoreLine ELSE 0) \in Nat
        /\ (IF stops THEN total - (done.listed + n) ELSE 0) \in Int
    BY <1>1, <1>2, <2>1 DEF GroupLine, MoreLine
  <2> QED  BY <2>2 DEF all
<1>6. RenderGroup(total, done, group) =
          IF done.stopped THEN done
          ELSE [listed |-> done.listed + n,
                more |-> IF stops THEN total - (done.listed + n) ELSE 0,
                length |-> done.length + GroupLine + n * (ItemLine + group.width)
                           + (IF stops THEN MoreLine ELSE 0),
                stopped |-> stops]
  BY DEF RenderGroup, n, stops
<1> QED  BY <1>2, <1>3, <1>5, <1>6 DEF Lists

\* The list of a section, type by type.
LEMMA RenderAccumulates ==
    ASSUME NEW groups \in Groups
    PROVE  \E list \in [0 .. Len(groups) -> Lists] :
               /\ list[0] = Rendering
               /\ \A k \in 1 .. Len(groups) :
                      list[k] = RenderGroup(CountOf(groups), list[k - 1], groups[k])
               /\ RenderAssets(groups) = list[Len(groups)]
<1> DEFINE n == Len(groups)
           total == CountOf(groups)
           step == [i \in 1 .. n |-> [a \in Lists |-> RenderGroup(total, a, groups[i])]]
           Folds(f) == f = [s \in SUBSET (DOMAIN groups) |->
                               IF s = {} THEN Rendering
                               ELSE RenderGroup(total, f[s \ {Max(s)}], groups[Max(s)])]
           fold == CHOOSE f : Folds(f)
           list == [k \in 0 .. n |-> fold[1 .. k]]
<1>1. /\ n \in Nat /\ DOMAIN groups = 1 .. n
      /\ \A i \in 1 .. n : groups[i] \in [count : Nat \ {0}, width : Nat \ {0}]
  BY LenProperties, ElementOfSeq DEF Groups
<1>2. RenderAssets(groups) = fold[DOMAIN groups]
  BY Zenon DEF RenderAssets, FoldLeft, MapThenFoldSet
<1>3. total \in Nat
  <2>1. PICK sum \in [0 .. n -> Nat] : CountOf(groups) = sum[n]
    BY CountAccumulates
  <2> QED  BY <1>1, <2>1
<1>4. Rendering \in Lists
  BY CapsArePositive DEF Rendering, Lists
<1> HIDE DEF n, total
<1>5. \A i \in 1 .. n : \A a \in Lists : RenderGroup(total, a, groups[i]) \in Lists
  BY <1>1, <1>3, GroupKeepsList
<1>6. step \in [1 .. n -> [Lists -> Lists]]
  BY <1>5
<1>7. \E f : Folds(f)
  <2> HIDE DEF step
  <2>1. PICK f : IsFoldOver(f, n, Lists, Rendering, step)
    BY <1>1, <1>4, <1>6, FoldsExist
  <2>2. /\ f \in [SUBSET (1 .. n) -> Lists]
        /\ \A s \in SUBSET (1 .. n) :
               f[s] = IF s = {} THEN Rendering ELSE step[Max(s)][f[s \ {Max(s)}]]
    BY <2>1 DEF IsFoldOver
  <2>3. ASSUME NEW s \in SUBSET (1 .. n), s # {}
        PROVE  step[Max(s)][f[s \ {Max(s)}]] = RenderGroup(total, f[s \ {Max(s)}], groups[Max(s)])
    <3>1. Max(s) \in 1 .. n
      BY <1>1, <2>3, GreatestIsMax
    <3>2. f[s \ {Max(s)}] \in Lists
      BY <2>2
    <3> QED  BY <3>1, <3>2 DEF step
  <2>4. f = [s \in SUBSET (1 .. n) |-> f[s]]
    BY <2>2
  <2>5. f = [s \in SUBSET (1 .. n) |->
                 IF s = {} THEN Rendering ELSE RenderGroup(total, f[s \ {Max(s)}], groups[Max(s)])]
    BY <2>2, <2>3, <2>4
  <2> QED  BY <1>1, <2>5
<1>8. Folds(fold)
  <2> HIDE DEF Folds
  <2> QED  BY <1>7
<1> HIDE DEF fold
<1>9. \A s \in SUBSET (1 .. n) :
          fold[s] = IF s = {} THEN Rendering
                    ELSE RenderGroup(total, fold[s \ {Max(s)}], groups[Max(s)])
  BY <1>1, <1>8
<1> HIDE DEF Folds
<1>10. list[0] = Rendering
  <2>1. 1 .. 0 = {} /\ {} \in SUBSET (1 .. n) /\ 0 \in 0 .. n
    BY <1>1
  <2> QED  BY <1>9, <2>1
<1>11. ASSUME NEW k \in 1 .. n
       PROVE  list[k] = RenderGroup(total, list[k - 1], groups[k])
  <2>1. k \in 0 .. n /\ k - 1 \in 0 .. n
    BY <1>1
  <2>2. fold[1 .. k] = RenderGroup(total, fold[1 .. k - 1], groups[k])
    <3>1. /\ 1 .. k \in SUBSET (1 .. n) /\ 1 .. k # {} /\ Max(1 .. k) = k
          /\ (1 .. k) \ {Max(1 .. k)} = 1 .. k - 1
      BY <1>1, PrefixesOfFolds
    <3>2. fold[1 .. k] = RenderGroup(total, fold[(1 .. k) \ {Max(1 .. k)}], groups[Max(1 .. k)])
      BY <1>9, <3>1
    <3> QED  BY <3>1, <3>2
  <2> QED  BY <2>1, <2>2
<1>12. RenderAssets(groups) = list[n]
  BY <1>1, <1>2
<1>13. list \in [0 .. n -> Lists]
  <2> DEFINE S == {k \in Nat : k <= n => list[k] \in Lists}
  <2>1. 0 \in S
    BY <1>4, <1>10
  <2> HIDE DEF list
  <2>2. ASSUME NEW k \in Nat, k \in S
        PROVE  k + 1 \in S
    <3> SUFFICES ASSUME k + 1 <= n PROVE list[k + 1] \in Lists
      OBVIOUS
    <3>1. k + 1 \in 1 .. n /\ k + 1 - 1 = k /\ list[k] \in Lists
      BY <1>1, <2>2
    <3>2. list[k + 1] = RenderGroup(total, list[k], groups[k + 1])
      BY <1>11, <3>1
    <3> QED  BY <1>5, <3>1, <3>2
  <2> HIDE DEF S
  <2>3. \A k \in Nat : k \in S
    BY <2>1, <2>2, AllNumbers
  <2>4. \A k \in 0 .. n : list[k] \in Lists
    BY <1>1, <2>3 DEF S
  <2>5. list = [k \in 0 .. n |-> list[k]]
    BY DEF list
  <2> QED  BY <2>4, <2>5
<1> HIDE DEF list
<1> QED  BY <1>10, <1>11, <1>12, <1>13 DEF n, total

\* A section lists what there is up to Cap and counts the rest, in at most a line
\* per type, one per asset and one for the rest.
LEMMA SectionAddsUp ==
    ASSUME NEW groups \in Groups
    PROVE  /\ RenderAssets(groups) \in Lists
           /\ RenderAssets(groups).listed + RenderAssets(groups).more = CountOf(groups)
           /\ RenderAssets(groups).more # 0 => RenderAssets(groups).listed = Cap
           /\ \A width \in Nat : NoneWider(groups, width) =>
                  RenderAssets(groups).length <=
                      Len(groups) * GroupLine + Cap * (ItemLine + width) + MoreLine
<1> DEFINE n == Len(groups)
           total == CountOf(groups)
<1>1. /\ n \in Nat /\ DOMAIN groups = 1 .. n
      /\ \A i \in 1 .. n : groups[i] \in [count : Nat \ {0}, width : Nat \ {0}]
  BY LenProperties, ElementOfSeq DEF Groups
<1>2. PICK sum \in [0 .. n -> Nat] :
          /\ sum[0] = 0
          /\ \A k \in 1 .. n : sum[k] = sum[k - 1] + groups[k].count
          /\ total = sum[n]
  BY CountAccumulates
<1>3. PICK list \in [0 .. n -> Lists] :
          /\ list[0] = Rendering
          /\ \A k \in 1 .. n : list[k] = RenderGroup(total, list[k - 1], groups[k])
          /\ RenderAssets(groups) = list[n]
  BY RenderAccumulates
<1> HIDE DEF n, total
<1>4. total \in Nat
  BY <1>1, <1>2
<1> DEFINE S == {k \in Nat : k <= n =>
                    /\ IF list[k].stopped
                       THEN list[k].listed + list[k].more = total /\ list[k].listed = Cap
                       ELSE list[k].listed = sum[k] /\ list[k].more = 0
                    /\ \A width \in Nat : NoneWider(groups, width) =>
                           list[k].length <= k * GroupLine + list[k].listed * (ItemLine + width)
                                             + (IF list[k].stopped THEN MoreLine ELSE 0)}
<1>5. 0 \in S
  <2>1. \A width \in Nat : 0 * (ItemLine + width) = 0
    BY DEF ItemLine
  <2> QED  BY <1>2, <1>3, <2>1 DEF Rendering, GroupLine
<1>6. ASSUME NEW k \in Nat, k \in S
      PROVE  k + 1 \in S
  <2> SUFFICES ASSUME k + 1 <= n PROVE k + 1 \in S
    OBVIOUS
  <2>1. k + 1 \in 1 .. n /\ k + 1 - 1 = k /\ k \in 0 .. n /\ k + 1 \in 0 .. n
    BY <1>1
  <2> DEFINE done == list[k]
             next == list[k + 1]
             group == groups[k + 1]
             m == SmallerOf(group.count, Cap - done.listed)
             stops == m < group.count
  <2>2. next = RenderGroup(total, done, group)
    BY <1>3, <2>1
  <2>3. done \in Lists /\ next \in Lists
    BY <1>3, <2>1
  <2>4. group.count \in Nat /\ group.width \in Nat
    BY <1>1, <2>1
  <2>5. sum[k + 1] = sum[k] + group.count /\ sum[k] \in Nat
    BY <1>2, <2>1
  <2>6. /\ IF done.stopped THEN done.listed + done.more = total /\ done.listed = Cap
           ELSE done.listed = sum[k] /\ done.more = 0
        /\ \A width \in Nat : NoneWider(groups, width) =>
               done.length <= k * GroupLine + done.listed * (ItemLine + width)
                              + (IF done.stopped THEN MoreLine ELSE 0)
    BY <1>6, <2>1
  <2>7. \A width \in Nat : NoneWider(groups, width) => group.width <= width
    BY <1>1, <2>1 DEF NoneWider, ToSet
  <2>8. /\ done.listed \in Nat /\ done.length \in Nat /\ done.more \in Int
        /\ done.stopped \in BOOLEAN /\ Cap \in Nat /\ done.listed <= Cap
    BY <2>3, CapsArePositive DEF Lists
  <2>9. m \in Nat /\ m <= group.count /\ (stops => done.listed + m = Cap)
    BY <2>4, <2>8 DEF SmallerOf
  <2>10. done.stopped => next = done
    BY <2>2 DEF RenderGroup
  <2>11. ~done.stopped =>
             /\ next.listed = done.listed + m
             /\ next.more = IF stops THEN total - (done.listed + m) ELSE 0
             /\ next.length = done.length + GroupLine + m * (ItemLine + group.width)
                              + (IF stops THEN MoreLine ELSE 0)
             /\ next.stopped = stops
    BY <2>2 DEF RenderGroup
  <2> HIDE DEF done, next, group, m
  <2>12. IF next.stopped THEN next.listed + next.more = total /\ next.listed = Cap
         ELSE next.listed = sum[k + 1] /\ next.more = 0
    <3>1. CASE done.stopped
      BY <2>6, <2>10, <3>1
    <3>2. CASE ~done.stopped
      <4>1. CASE stops
        <5>1. next.listed = done.listed + m /\ next.more = total - (done.listed + m)
          BY <2>11, <3>2, <4>1
        <5>2. next.stopped
          BY <2>11, <3>2, <4>1
        <5>3. next.listed + next.more = total /\ next.listed = Cap
          BY <1>4, <2>8, <2>9, <4>1, <5>1
        <5> QED  BY <5>2, <5>3
      <4>2. CASE ~stops
        <5>1. m = group.count /\ next.listed = done.listed + m
          BY <2>4, <2>9, <2>11, <3>2, <4>2
        <5>2. next.listed = sum[k + 1] /\ next.more = 0 /\ ~next.stopped
          BY <2>5, <2>6, <2>11, <3>2, <4>2, <5>1
        <5> QED  BY <5>2
      <4> QED  BY <4>1, <4>2
    <3> QED  BY <3>1, <3>2
  <2>13. ASSUME NEW width \in Nat, NoneWider(groups, width)
         PROVE  next.length <= (k + 1) * GroupLine + next.listed * (ItemLine + width)
                               + (IF next.stopped THEN MoreLine ELSE 0)
    <3> DEFINE line == ItemLine + width
               old == done.listed * line
               all == m * (ItemLine + group.width)
               rest == IF next.stopped THEN MoreLine ELSE 0
    <3>1. /\ line \in Nat /\ ItemLine + group.width \in Nat /\ ItemLine + group.width <= line
          /\ (k + 1) * GroupLine = k * GroupLine + GroupLine
          /\ k * GroupLine \in Nat /\ GroupLine \in Nat /\ rest \in Nat
      BY <2>4, <2>7, <2>13 DEF ItemLine, GroupLine, MoreLine
    <3> HIDE DEF line
    <3>2. old \in Nat /\ all \in Nat /\ all <= m * line
      <4>1. ASSUME NEW i \in Nat, NEW p \in Nat, NEW q \in Nat, p <= q
            PROVE  i * p \in Nat /\ i * p <= i * q
        BY <4>1
      <4> DEFINE item == ItemLine + group.width
      <4>2. item \in Nat /\ item <= line
        BY <3>1
      <4> HIDE DEF item
      <4>3. m * item \in Nat /\ m * item <= m * line
        BY <2>9, <3>1, <4>1, <4>2
      <4>4. done.listed * line \in Nat
        BY <2>8, <3>1, <4>1
      <4> QED  BY <4>3, <4>4 DEF item
    <3>3. (done.listed + m) * line = old + m * line /\ m * line \in Nat
      <4>1. ASSUME NEW i \in Nat, NEW p \in Nat, NEW q \in Nat
            PROVE  (i + p) * q = i * q + p * q /\ p * q \in Nat
        OBVIOUS
      <4> QED  BY <2>8, <2>9, <3>1, <4>1
    <3>4. done.length <= k * GroupLine + old + (IF done.stopped THEN MoreLine ELSE 0)
      BY <2>6, <2>13 DEF line
    <3>5. CASE done.stopped
      <4>1. next.length <= k * GroupLine + old + rest /\ next.listed * line = old
        BY <2>10, <3>4, <3>5
      <4> HIDE DEF old, rest
      <4>2. next.length \in Nat
        BY <2>3 DEF Lists
      <4> QED  BY <3>1, <3>2, <4>1, <4>2 DEF line, rest
    <3>6. CASE ~done.stopped
      <4>1. next.length = done.length + GroupLine + all + rest /\ next.listed = done.listed + m
        BY <2>11, <3>6
      <4>2. done.length <= k * GroupLine + old
        <5>1. k * GroupLine + old + 0 = k * GroupLine + old
          BY <3>1, <3>2
        <5> QED  BY <3>4, <3>6, <5>1
      <4> HIDE DEF old, all, rest
      <4>3. next.length <= k * GroupLine + GroupLine + (old + m * line) + rest
        BY <2>8, <3>1, <3>2, <3>3, <4>1, <4>2
      <4> QED  BY <3>1, <3>3, <4>1, <4>3 DEF line, rest
    <3> QED  BY <3>5, <3>6
  <2> QED  BY <2>12, <2>13 DEF next
<1> HIDE DEF S
<1>7. \A k \in Nat : k \in S
  BY <1>5, <1>6, AllNumbers
<1>8. /\ list[n] \in Lists
      /\ IF list[n].stopped THEN list[n].listed + list[n].more = total /\ list[n].listed = Cap
         ELSE list[n].listed = sum[n] /\ list[n].more = 0
      /\ \A width \in Nat : NoneWider(groups, width) =>
             list[n].length <= n * GroupLine + list[n].listed * (ItemLine + width)
                               + (IF list[n].stopped THEN MoreLine ELSE 0)
  BY <1>1, <1>3, <1>7 DEF S
<1>9. /\ list[n].listed \in Nat /\ list[n].listed <= Cap /\ Cap \in Nat
      /\ list[n].length \in Nat /\ list[n].more \in Int
  BY <1>8, CapsArePositive DEF Lists
<1>10. list[n].listed + list[n].more = total
  BY <1>2, <1>4, <1>8, <1>9
<1>11. list[n].more # 0 => list[n].listed = Cap
  BY <1>8
<1>12. ASSUME NEW width \in Nat, NoneWider(groups, width)
       PROVE  list[n].length <= n * GroupLine + Cap * (ItemLine + width) + MoreLine
  <2> DEFINE listed == list[n].listed * (ItemLine + width)
             full == Cap * (ItemLine + width)
             rest == IF list[n].stopped THEN MoreLine ELSE 0
  <2>1. listed \in Nat /\ full \in Nat /\ listed <= full
    <3>1. ASSUME NEW i \in Nat, NEW j \in Nat, NEW p \in Nat, i <= j
          PROVE  i * p \in Nat /\ j * p \in Nat /\ i * p <= j * p
      BY <3>1
    <3>2. ItemLine + width \in Nat
      BY DEF ItemLine
    <3> QED  BY <1>9, <3>1, <3>2
  <2>2. list[n].length <= n * GroupLine + listed + rest
    BY <1>8, <1>12
  <2>3. rest \in Nat /\ rest <= MoreLine /\ n * GroupLine \in Nat /\ MoreLine \in Nat
    BY <1>1 DEF MoreLine, GroupLine
  <2> HIDE DEF listed, full, rest
  <2>4. list[n].length <= n * GroupLine + full + MoreLine
    BY <1>9, <2>1, <2>2, <2>3
  <2> QED  BY <2>4 DEF full
<1> QED  BY <1>3, <1>8, <1>10, <1>11, <1>12 DEF n, total

\* The message of a comparison has a length.
LEMMA MessagesHaveLength ==
    ASSUME NEW c \in Comparisons
    PROVE  RenderChangeAlert(c) \in Nat
<1>1. c.head \in Nat /\ c.new \in Groups /\ c.removed \in Groups
  BY ComparisonsType
<1>2. ASSUME NEW groups \in Groups
      PROVE  Section(groups) \in Nat
  <2>1. RenderAssets(groups).length \in Nat
    BY SectionAddsUp DEF Lists
  <2> QED  BY <2>1 DEF Section, SectionLines
<1> QED  BY <1>1, <1>2 DEF RenderChangeAlert

-----------------------------------------------------------------------------
(* What a line yields *)

RawAssets == [type : AssetTypes, value : Seq(STRING)]

\* What a parser has found so far: assets that validate, and findings.
Found ==
    [raised : BOOLEAN, assets : SUBSET {a \in RawAssets : IsValid(a.value)},
     findings : SUBSET [severity : Severities, title : STRING, at : STRING]]

\* A line adds to what was found what it yields by itself.
AddsUp(found, all, alone) ==
    /\ all \in Found /\ alone \in Found
    /\ all.raised <=> alone.raised
    /\ ~alone.raised => /\ all.assets = found.assets \cup alone.assets
                        /\ all.findings = found.findings \cup alone.findings

\* A list of words of any kind.
LEMMA ListsOfWords ==
    ASSUME NEW S
    PROVE  /\ <<>> \in Seq(S)
           /\ \A a \in S : <<a>> \in Seq(S)
           /\ \A a, b \in S : <<a, b>> \in Seq(S)
           /\ \A a, b, c \in S : <<a, b, c>> \in Seq(S)
OBVIOUS

\* Nothing is a beginning.
LEMMA NothingIsFound == Nothing \in Found /\ ~Nothing.raised
BY DEF Nothing, Found

\* Nothing added adds nothing.
LEMMA NoneAddsUp ==
    ASSUME NEW found \in Found, ~found.raised
    PROVE  AddsUp(found, found, Nothing)
BY NothingIsFound DEF AddsUp, Found, Nothing

\* An exception is one whatever was found before it.
LEMMA RaiseAddsUp ==
    ASSUME NEW found \in Found
    PROVE  AddsUp(found, Raise(found), Raise(Nothing))
BY NothingIsFound DEF AddsUp, Found, Raise, Nothing

\* Assets that validate are added, and one that does not raises.
LEMMA EmitAddsUp ==
    ASSUME NEW found \in Found, ~found.raised, NEW assets \in SUBSET RawAssets
    PROVE  AddsUp(found, Emit(found, assets), Emit(Nothing, assets))
<1>1. CASE \A a \in assets : IsValid(a.value)
  <2>1. /\ Emit(found, assets) = [found EXCEPT !.assets = @ \cup assets]
        /\ Emit(Nothing, assets) = [Nothing EXCEPT !.assets = @ \cup assets]
    BY <1>1 DEF Emit
  <2>2. assets \subseteq {a \in RawAssets : IsValid(a.value)}
    BY <1>1
  <2> QED  BY <2>1, <2>2, NothingIsFound DEF AddsUp, Found, Nothing
<1>2. CASE ~(\A a \in assets : IsValid(a.value))
  <2>1. Emit(found, assets) = Raise(found) /\ Emit(Nothing, assets) = Raise(Nothing)
    BY <1>2 DEF Emit
  <2> QED  BY <2>1, RaiseAddsUp
<1> QED  BY <1>1, <1>2

\* subfinder: a name that was found before is left out, and was valid then.
LEMMA SubfinderAddsUp ==
    ASSUME NEW target \in TargetRecords, NEW found \in Found, ~found.raised,
           NEW line \in LinesOf("subfinder")
    PROVE  AddsUp(found, SubfinderLine(target, found, line), SubfinderLine(target, Nothing, line))
<1> DEFINE host == Lower(line.host)
           asset == Asset("subdomain", host)
           leftOut == host = <<>> \/ ~IsUnder(host, Lower(target.text))
<1>1. line.json \in {"object", "none", "other"} /\ line.host \in Seq(STRING)
  BY DEF LinesOf
<1>2. host \in Seq(STRING)
  BY <1>1, LowerKeepsLength
<1>3. asset \in RawAssets
  BY <1>2 DEF Asset, RawAssets, AssetTypes
<1>4. asset \notin Nothing.assets
  BY DEF Nothing
<1>5. SubfinderLine(target, found, line) =
          CASE line.json = "none" -> found
            [] line.json = "other" -> Raise(found)
            [] line.json = "object" ->
                  IF (host = <<>> \/ asset \in found.assets) \/ ~IsUnder(host, Lower(target.text))
                  THEN found ELSE Emit(found, {asset})
  BY DEF SubfinderLine
<1>6. SubfinderLine(target, Nothing, line) =
          CASE line.json = "none" -> Nothing
            [] line.json = "other" -> Raise(Nothing)
            [] line.json = "object" ->
                  IF (host = <<>> \/ asset \in Nothing.assets) \/ ~IsUnder(host, Lower(target.text))
                  THEN Nothing ELSE Emit(Nothing, {asset})
  BY DEF SubfinderLine
<1> HIDE DEF host, asset
<1>7. CASE line.json = "none"
  BY <1>5, <1>6, <1>7, NoneAddsUp
<1>8. CASE line.json = "other"
  BY <1>5, <1>6, <1>8, RaiseAddsUp
<1>9. CASE line.json = "object" /\ leftOut
  <2>1. SubfinderLine(target, found, line) = found /\ SubfinderLine(target, Nothing, line) = Nothing
    BY <1>5, <1>6, <1>9
  <2> QED  BY <2>1, NoneAddsUp
<1>10. CASE line.json = "object" /\ ~leftOut /\ asset \in found.assets
  <2>1. /\ SubfinderLine(target, found, line) = found
        /\ SubfinderLine(target, Nothing, line) = Emit(Nothing, {asset})
    BY <1>4, <1>5, <1>6, <1>10
  <2>2. IsValid(asset.value)
    BY <1>10 DEF Found
  <2>3. Emit(Nothing, {asset}) = [Nothing EXCEPT !.assets = {asset}]
    BY <2>2 DEF Emit, Nothing
  <2>4. Emit(Nothing, {asset}) \in Found
    BY <1>3, <2>2, <2>3, NothingIsFound DEF Found, Nothing
  <2> QED  BY <1>10, <2>1, <2>3, <2>4 DEF AddsUp, Nothing, Found
<1>11. CASE line.json = "object" /\ ~leftOut /\ asset \notin found.assets
  <2>1. /\ SubfinderLine(target, found, line) = Emit(found, {asset})
        /\ SubfinderLine(target, Nothing, line) = Emit(Nothing, {asset})
    BY <1>4, <1>5, <1>6, <1>11
  <2>2. {asset} \in SUBSET RawAssets
    BY <1>3
  <2> QED  BY <2>1, <2>2, EmitAddsUp
<1> QED  BY <1>1, <1>7, <1>8, <1>9, <1>10, <1>11

\* theHarvester
LEMMA HarvesterAddsUp ==
    ASSUME NEW target \in TargetRecords, NEW found \in Found, ~found.raised,
           NEW line \in LinesOf("theharvester")
    PROVE  AddsUp(found, HarvesterMatch(target, found, line), HarvesterMatch(target, Nothing, line))
<1> DEFINE domain == Lower(target.text)
           host == Lower(line.host)
           named == (IF IsUnder(host, domain) THEN {Asset("subdomain", host)} ELSE {})
                    \cup (IF line.kind = "email" /\ (host = domain \/ IsUnder(host, domain))
                          THEN {Asset("email", <<"@">> \o host)} ELSE {})
<1>1. line.host \in Seq(STRING)
  BY DEF LinesOf
<1>2. host \in Seq(STRING)
  BY <1>1, LowerKeepsLength
<1>3. <<"@">> \o host \in Seq(STRING)
  <2>1. "@" \in STRING
    BY WordsAreStrings
  <2> HIDE DEF host
  <2> QED  BY <1>2, <2>1, WordBefore
<1>4. {Asset("host", line.host)} \in SUBSET RawAssets
  BY <1>1 DEF Asset, RawAssets, AssetTypes
<1>5. Asset("subdomain", host) \in RawAssets /\ Asset("email", <<"@">> \o host) \in RawAssets
  BY <1>2, <1>3 DEF Asset, RawAssets, AssetTypes
<1>6. \A f : HarvesterMatch(target, f, line) =
                 IF line.kind = "address"
                 THEN IF line.host[1] \in {"0", "127", "255"} THEN f
                      ELSE Emit(f, {Asset("host", line.host)})
                 ELSE Emit(f, named)
  BY DEF HarvesterMatch
<1>7. named \in SUBSET RawAssets
  BY <1>5
<1> HIDE DEF named
<1>8. CASE line.kind = "address" /\ line.host[1] \in {"0", "127", "255"}
  BY <1>6, <1>8, NoneAddsUp
<1>9. CASE line.kind = "address" /\ line.host[1] \notin {"0", "127", "255"}
  BY <1>4, <1>6, <1>9, EmitAddsUp
<1>10. CASE line.kind # "address"
  BY <1>6, <1>7, <1>10, EmitAddsUp
<1> QED  BY <1>8, <1>9, <1>10

\* gobuster
LEMMA GobusterAddsUp ==
    ASSUME NEW target \in TargetRecords, NEW found \in Found, ~found.raised,
           NEW line \in LinesOf("gobuster")
    PROVE  AddsUp(found, GobusterLine(target, found, line), GobusterLine(target, Nothing, line))
<1>1. line.path \in STRING
  BY DEF LinesOf
<1>2. target.text \in Seq(STRING) /\ <<line.path>> \in Seq(STRING)
  BY <1>1, ListsOfWords DEF TargetRecords
<1>3. target.text \o <<line.path>> \in Seq(STRING)
  BY <1>2, ConcatProperties
<1>4. {Asset("url", target.text \o <<line.path>>)} \in SUBSET RawAssets
  BY <1>3 DEF Asset, RawAssets, AssetTypes
<1> QED  BY <1>4, EmitAddsUp, NoneAddsUp DEF GobusterLine

\* nuclei: a template that matched is a finding, and where it did a URL.
LEMMA NucleiAddsUp ==
    ASSUME NEW found \in Found, ~found.raised, NEW line \in LinesOf("nuclei")
    PROVE  AddsUp(found, NucleiLine(found, line), NucleiLine(Nothing, line))
<1> DEFINE finding == [severity |-> SeverityOf(line.severity), title |-> line.name, at |-> line.at]
           urls == {Asset("url", <<line.at>>)}
           With(f) == [f EXCEPT !.findings = @ \cup {finding}]
<1>1. /\ line.json \in {"object", "none", "other"}
      /\ line.name \in STRING /\ line.at \in STRING
  BY DEF LinesOf
<1>2. finding \in [severity : Severities, title : STRING, at : STRING]
  <2>1. SeverityOf(line.severity) \in Severities
    BY DEF SeverityOf, Severities
  <2> QED  BY <1>1, <2>1
<1>3. urls \in SUBSET RawAssets
  <2>1. <<line.at>> \in Seq(STRING)
    BY <1>1, ListsOfWords
  <2> QED  BY <2>1 DEF Asset, RawAssets, AssetTypes
<1>4. \A f : NucleiLine(f, line) =
                 CASE line.json = "none" -> f
                   [] line.json = "other" -> Raise(f)
                   [] line.json = "object" ->
                         IF line.template = "" \/ line.at = "" THEN f
                         ELSE IF ~IsValid(Word(line.name)) THEN Raise(f)
                         ELSE Emit(With(f), urls)
  BY DEF NucleiLine
<1> HIDE DEF finding, urls
<1>5. ASSUME NEW f \in Found
      PROVE  /\ With(f) \in Found /\ With(f).raised = f.raised
             /\ With(f).assets = f.assets /\ With(f).findings = f.findings \cup {finding}
  BY <1>2 DEF Found
<1> HIDE DEF With
<1>6. CASE line.json = "object" /\ ~(line.template = "" \/ line.at = "") /\ IsValid(Word(line.name))
  <2>1. /\ NucleiLine(found, line) = Emit(With(found), urls)
        /\ NucleiLine(Nothing, line) = Emit(With(Nothing), urls)
    BY <1>4, <1>6
  <2>2. /\ With(found) \in Found /\ ~With(found).raised
        /\ With(Nothing) \in Found /\ ~With(Nothing).raised
    BY <1>5, NothingIsFound
  <2>3. /\ AddsUp(With(found), Emit(With(found), urls), Emit(Nothing, urls))
        /\ AddsUp(With(Nothing), Emit(With(Nothing), urls), Emit(Nothing, urls))
    BY <1>3, <2>2, EmitAddsUp
  <2>4. ~Emit(Nothing, urls).raised => Emit(Nothing, urls).findings = {}
    BY DEF Emit, Nothing, Raise
  <2>5. /\ With(found).assets = found.assets /\ With(found).findings = found.findings \cup {finding}
        /\ With(Nothing).assets = {} /\ With(Nothing).findings = {finding}
    BY <1>5, NothingIsFound DEF Nothing
  <2> DEFINE a == Emit(With(found), urls)
             b == Emit(With(Nothing), urls)
             c == Emit(Nothing, urls)
  <2> HIDE DEF a, b, c
  <2>6. /\ a \in Found /\ b \in Found /\ (a.raised <=> b.raised) /\ (b.raised <=> c.raised)
        /\ ~b.raised => /\ a.assets = found.assets \cup c.assets /\ b.assets = c.assets
                        /\ a.findings = found.findings \cup {finding} /\ b.findings = {finding}
    BY <2>3, <2>4, <2>5 DEF AddsUp, a, b, c
  <2> QED  BY <2>1, <2>6 DEF AddsUp, a, b
<1>7. CASE line.json = "object" /\ ~(line.template = "" \/ line.at = "") /\ ~IsValid(Word(line.name))
  BY <1>4, <1>7, RaiseAddsUp
<1>8. CASE line.json = "none" \/ (line.json = "object" /\ (line.template = "" \/ line.at = ""))
  <2>1. NucleiLine(found, line) = found /\ NucleiLine(Nothing, line) = Nothing
    BY <1>4, <1>8
  <2> QED  BY <2>1, NoneAddsUp
<1>9. CASE line.json = "other"
  <2>1. NucleiLine(found, line) = Raise(found) /\ NucleiLine(Nothing, line) = Raise(Nothing)
    BY <1>4, <1>9
  <2> QED  BY <2>1, RaiseAddsUp
<1> QED  BY <1>1, <1>6, <1>7, <1>8, <1>9

\* Two words are a list of at most two.
LEMMA WordsAreWords ==
    ASSUME NEW first \in STRING, NEW second, second = "" \/ second \in STRING
    PROVE  Words(first, second) \in Seq(STRING)
<1>1. Word(first) \in Seq(STRING) /\ Word(second) \in Seq(STRING)
  BY ListsOfWords DEF Word
<1> QED  BY <1>1, ConcatProperties DEF Words

\* Numbers from 1 on, if any, have a least.
LEMMA LeastIsMin ==
    ASSUME NEW n \in Nat, NEW s \in SUBSET (1 .. n), s # {}
    PROVE  Min(s) \in s
<1> DEFINE S == {k \in Nat : \A t \in SUBSET (1 .. k) : t # {} => \E m \in t : \A i \in t : m <= i}
<1>1. 0 \in S
  <2>1. \A t \in SUBSET (1 .. 0) : t = {}
    OBVIOUS
  <2> QED  BY <2>1
<1>2. ASSUME NEW k \in Nat, k \in S
      PROVE  k + 1 \in S
  <2> SUFFICES ASSUME NEW t \in SUBSET (1 .. k + 1), t # {}
               PROVE  \E m \in t : \A i \in t : m <= i
    OBVIOUS
  <2>1. CASE t = {k + 1}
    BY <2>1
  <2>2. CASE t # {k + 1}
    <3> DEFINE u == t \ {k + 1}
    <3>1. u \in SUBSET (1 .. k) /\ u # {}
      BY <2>2
    <3>2. PICK m \in u : \A i \in u : m <= i
      BY <1>2, <3>1
    <3>3. m \in t /\ m <= k + 1
      BY <3>1, <3>2
    <3>4. \A i \in t : m <= i
      BY <3>2, <3>3
    <3> QED  BY <3>3, <3>4
  <2> QED  BY <2>1, <2>2
<1> HIDE DEF S
<1>3. \A k \in Nat : k \in S
  BY <1>1, <1>2, AllNumbers
<1>4. \E m \in s : \A i \in s : m <= i
  BY <1>3 DEF S
<1> QED  BY <1>4 DEF Min

\* The version of a plugin is one of its own, or none.
LEMMA FirstVersionIsAWord ==
    ASSUME NEW versions \in Seq(STRING)
    PROVE  FirstVersion(versions) = "" \/ FirstVersion(versions) \in STRING
<1> DEFINE usable == {i \in DOMAIN versions : versions[i] # ""}
<1>1. Len(versions) \in Nat /\ DOMAIN versions = 1 .. Len(versions)
  BY LenProperties
<1>2. CASE usable = {}
  BY <1>2 DEF FirstVersion
<1>3. CASE usable # {}
  <2>1. Min(usable) \in usable
    <3>1. usable \in SUBSET (1 .. Len(versions))
      BY <1>1
    <3> HIDE DEF usable
    <3> QED  BY <1>1, <1>3, <3>1, LeastIsMin
  <2>2. Min(usable) \in 1 .. Len(versions)
    BY <1>1, <2>1
  <2>3. FirstVersion(versions) = versions[Min(usable)]
    BY <1>3 DEF FirstVersion
  <2> QED  BY <2>2, <2>3, ElementOfSeq
<1> QED  BY <1>2, <1>3

\* whatweb
LEMMA WhatWebAddsUp ==
    ASSUME NEW target \in TargetRecords, NEW found \in Found, ~found.raised,
           NEW line \in LinesOf("whatweb")
    PROVE  AddsUp(found, WhatWebRecord(target, found, line), WhatWebRecord(target, Nothing, line))
<1> DEFINE url == IF line.url = "" THEN target.text ELSE <<line.url>>
           technologies == {Asset("technology", Words(p.name, FirstVersion(p.versions))) :
                                p \in line.plugins}
           assets == (IF line.status THEN {Asset("host", url)} ELSE {}) \cup technologies
<1>1. /\ line.url \in STRING
      /\ line.plugins \in SUBSET [name : STRING, versions : Seq(STRING)]
  BY DEF LinesOf
<1>2. url \in Seq(STRING)
  BY <1>1, ListsOfWords DEF TargetRecords
<1>3. Asset("host", url) \in RawAssets
  <2> HIDE DEF url
  <2> QED  BY <1>2 DEF Asset, RawAssets, AssetTypes
<1>4. ASSUME NEW p \in line.plugins
      PROVE  Asset("technology", Words(p.name, FirstVersion(p.versions))) \in RawAssets
  <2>1. p.name \in STRING /\ p.versions \in Seq(STRING)
    BY <1>1
  <2>2. Words(p.name, FirstVersion(p.versions)) \in Seq(STRING)
    BY <2>1, FirstVersionIsAWord, WordsAreWords
  <2> QED  BY <2>2 DEF Asset, RawAssets, AssetTypes
<1>5. assets \in SUBSET RawAssets
  <2> HIDE DEF url
  <2> QED  BY <1>3, <1>4
<1>6. \A f : WhatWebRecord(target, f, line) =
                 IF line.json # "object" THEN f ELSE Emit(f, assets)
  BY DEF WhatWebRecord
<1> HIDE DEF assets
<1> QED  BY <1>5, <1>6, EmitAddsUp, NoneAddsUp

\* wafw00f
LEMMA WafW00fAddsUp ==
    ASSUME NEW found \in Found, ~found.raised, NEW line \in LinesOf("wafw00f")
    PROVE  AddsUp(found, WafW00fRecord(found, line), WafW00fRecord(Nothing, line))
<1> DEFINE assets == {Asset("technology", <<"WAF:", line.firewall>>)}
           leftOut == ~line.detected \/ line.firewall \in {"", "none", "generic"}
<1>1. line.json \in {"object", "none", "other"} /\ line.firewall \in STRING
  BY DEF LinesOf
<1>2. assets \in SUBSET RawAssets
  <2>1. "WAF:" \in STRING
    BY WordsAreStrings
  <2>2. <<"WAF:", line.firewall>> \in Seq(STRING)
    BY <1>1, <2>1, ListsOfWords
  <2> QED  BY <2>2 DEF Asset, RawAssets, AssetTypes
<1>3. \A f : WafW00fRecord(f, line) =
                 CASE line.json = "none" -> f
                   [] line.json = "other" -> Raise(f)
                   [] line.json = "object" -> IF leftOut THEN f ELSE Emit(f, assets)
  BY DEF WafW00fRecord
<1> HIDE DEF assets, leftOut
<1>4. CASE line.json = "none" \/ (line.json = "object" /\ leftOut)
  <2>1. WafW00fRecord(found, line) = found /\ WafW00fRecord(Nothing, line) = Nothing
    BY <1>3, <1>4
  <2> QED  BY <2>1, NoneAddsUp
<1>5. CASE line.json = "other"
  <2>1. WafW00fRecord(found, line) = Raise(found) /\ WafW00fRecord(Nothing, line) = Raise(Nothing)
    BY <1>3, <1>5
  <2> QED  BY <2>1, RaiseAddsUp
<1>6. CASE line.json = "object" /\ ~leftOut
  <2>1. /\ WafW00fRecord(found, line) = Emit(found, assets)
        /\ WafW00fRecord(Nothing, line) = Emit(Nothing, assets)
    BY <1>3, <1>6
  <2> QED  BY <1>2, <2>1, EmitAddsUp
<1> QED  BY <1>1, <1>4, <1>5, <1>6

\* nmap
LEMMA NmapAddsUp ==
    ASSUME NEW found \in Found, ~found.raised, NEW line \in LinesOf("nmap")
    PROVE  AddsUp(found, NmapHost(found, line), NmapHost(Nothing, line))
<1> DEFINE ports == {p \in line.ports : p.open /\ p.id # ""}
           assets == {Asset("host", <<line.addr>>)}
                     \cup UNION {PortAssets(line.addr, p) : p \in ports}
<1>1. /\ line.addr \in STRING
      /\ line.ports \in SUBSET [open : BOOLEAN, id : STRING, service : STRING,
                                product : STRING, version : STRING]
  BY DEF LinesOf
<1>2. ASSUME NEW p \in ports
      PROVE  PortAssets(line.addr, p) \in SUBSET RawAssets
  <2>1. p.id \in STRING /\ p.service \in STRING /\ p.product \in STRING /\ p.version \in STRING
    BY <1>1
  <2>2. /\ <<line.addr, p.id>> \in Seq(STRING)
        /\ <<p.service, line.addr, p.id>> \in Seq(STRING)
    BY <1>1, <2>1, ListsOfWords
  <2>3. Words(p.product, p.version) \in Seq(STRING)
    BY <2>1, WordsAreWords
  <2>4. /\ Asset("port", <<line.addr, p.id>>) \in RawAssets
        /\ Asset("service", <<p.service, line.addr, p.id>>) \in RawAssets
        /\ Asset("technology", Words(p.product, p.version)) \in RawAssets
    BY <2>2, <2>3 DEF Asset, RawAssets, AssetTypes
  <2> QED  BY <2>4 DEF PortAssets
<1>3. Asset("host", <<line.addr>>) \in RawAssets
  <2>1. <<line.addr>> \in Seq(STRING)
    BY <1>1, ListsOfWords
  <2> QED  BY <2>1 DEF Asset, RawAssets, AssetTypes
<1>4. assets \in SUBSET RawAssets
  <2> HIDE DEF ports
  <2> QED  BY <1>2, <1>3
<1>5. \A f : NmapHost(f, line) =
                 IF line.addr = "" THEN f
                 ELSE IF \E p \in ports : p.id = "word" THEN Raise(f)
                 ELSE Emit(f, assets)
  BY DEF NmapHost
<1> HIDE DEF assets, ports
<1>6. CASE line.addr = ""
  <2>1. NmapHost(found, line) = found /\ NmapHost(Nothing, line) = Nothing
    BY <1>5, <1>6
  <2> QED  BY <2>1, NoneAddsUp
<1>7. CASE line.addr # "" /\ \E p \in ports : p.id = "word"
  <2>1. NmapHost(found, line) = Raise(found) /\ NmapHost(Nothing, line) = Raise(Nothing)
    BY <1>5, <1>7
  <2> QED  BY <2>1, RaiseAddsUp
<1>8. CASE line.addr # "" /\ ~\E p \in ports : p.id = "word"
  <2>1. /\ NmapHost(found, line) = Emit(found, assets)
        /\ NmapHost(Nothing, line) = Emit(Nothing, assets)
    BY <1>5, <1>8
  <2> QED  BY <1>4, <2>1, EmitAddsUp
<1> QED  BY <1>6, <1>7, <1>8

\* Whatever the tool.
LEMMA LineAddsUp ==
    ASSUME NEW tool \in Tools, NEW target \in TargetRecords, NEW found \in Found, ~found.raised,
           NEW line \in LinesOf(tool)
    PROVE  AddsUp(found, ParseLine(tool, target, found, line), ParseLine(tool, target, Nothing, line))
<1>1. CASE tool = "subfinder"
  BY <1>1, SubfinderAddsUp DEF ParseLine
<1>2. CASE tool = "theharvester"
  BY <1>2, HarvesterAddsUp DEF ParseLine
<1>3. CASE tool = "gobuster"
  BY <1>3, GobusterAddsUp DEF ParseLine
<1>4. CASE tool = "nuclei"
  BY <1>4, NucleiAddsUp DEF ParseLine
<1>5. CASE tool = "whatweb"
  BY <1>5, WhatWebAddsUp DEF ParseLine
<1>6. CASE tool = "wafw00f"
  BY <1>6, WafW00fAddsUp DEF ParseLine
<1>7. CASE tool = "nmap"
  BY <1>7, NmapAddsUp DEF ParseLine
<1> QED  BY <1>1, <1>2, <1>3, <1>4, <1>5, <1>6, <1>7 DEF Tools

\* A subdomain is one of the target, in lower case, whatever the tool.
LEMMA SubdomainsAreUnder ==
    ASSUME NEW tool \in Tools, NEW target \in TargetRecords, NEW line \in LinesOf(tool),
           NEW asset \in ParseLine(tool, target, Nothing, line).assets, asset.type = "subdomain"
    PROVE  /\ IsUnder(asset.value, Lower(target.text))
           /\ \E text \in Seq(STRING) : asset.value = Lower(text)
<1>1. ASSUME NEW assets, NEW found, found.assets = {}, asset \in Emit(found, assets).assets
      PROVE  asset \in assets
  BY <1>1 DEF Emit, Raise
<1>2. Nothing.assets = {} /\ Raise(Nothing).assets = {}
  BY DEF Nothing, Raise
<1>0. \A type, value : Asset(type, value).type = type
  BY DEF Asset
<1>3. CASE tool = "subfinder"
  <2>1. line.host \in Seq(STRING) /\ line.json \in {"object", "none", "other"}
    BY <1>3 DEF LinesOf
  <2>2. asset \in SubfinderLine(target, Nothing, line).assets
    BY <1>3 DEF ParseLine
  <2>3. /\ IsUnder(Lower(line.host), Lower(target.text))
        /\ asset \in Emit(Nothing, {Asset("subdomain", Lower(line.host))}).assets
    BY <1>2, <2>1, <2>2 DEF SubfinderLine
  <2>4. asset = Asset("subdomain", Lower(line.host))
    BY <1>1, <1>2, <2>3
  <2> QED  BY <2>1, <2>3, <2>4 DEF Asset
<1>4. CASE tool = "theharvester"
  <2>1. line.host \in Seq(STRING)
    BY <1>4 DEF LinesOf
  <2>2. asset \in HarvesterMatch(target, Nothing, line).assets
    BY <1>4 DEF ParseLine
  <2>3. asset = Asset("subdomain", Lower(line.host)) /\ IsUnder(Lower(line.host), Lower(target.text))
    BY <1>1, <1>2, <2>2 DEF HarvesterMatch, Asset
  <2> QED  BY <2>1, <2>3 DEF Asset
<1>5. CASE tool = "gobuster"
  BY <1>1, <1>2, <1>5 DEF ParseLine, GobusterLine, Asset
<1>6. CASE tool = "nuclei"
  <2>1. line.json \in {"object", "none", "other"}
    BY <1>6 DEF LinesOf
  <2>2. asset \in NucleiLine(Nothing, line).assets
    BY <1>6 DEF ParseLine
  <2> DEFINE found == [Nothing EXCEPT !.findings =
                           @ \cup {[severity |-> SeverityOf(line.severity),
                                    title |-> line.name, at |-> line.at]}]
  <2>3. found.assets = {}
    BY DEF Nothing
  <2> HIDE DEF found
  <2>4. asset \in Emit(found, {Asset("url", <<line.at>>)}).assets
    BY <1>2, <2>1, <2>2 DEF NucleiLine, found
  <2>5. asset = Asset("url", <<line.at>>)
    BY <1>1, <2>3, <2>4
  <2> QED  BY <2>5 DEF Asset
<1>7. CASE tool = "whatweb"
  <2>1. asset \in WhatWebRecord(target, Nothing, line).assets
    BY <1>7 DEF ParseLine
  <2> DEFINE url == IF line.url = "" THEN target.text ELSE <<line.url>>
             assets == (IF line.status THEN {Asset("host", url)} ELSE {})
                       \cup {Asset("technology", Words(p.name, FirstVersion(p.versions))) :
                                 p \in line.plugins}
  <2>2. asset \in Emit(Nothing, assets).assets
    BY <1>2, <2>1 DEF WhatWebRecord
  <2>3. asset \in assets
    <3> HIDE DEF assets
    <3> QED  BY <1>1, <1>2, <2>2
  <2>4. \A a \in assets : a.type \in {"host", "technology"}
    BY <1>0
  <2> HIDE DEF assets
  <2> QED  BY <2>3, <2>4
<1>8. CASE tool = "wafw00f"
  <2>1. line.json \in {"object", "none", "other"}
    BY <1>8 DEF LinesOf
  <2>2. asset \in WafW00fRecord(Nothing, line).assets
    BY <1>8 DEF ParseLine
  <2>3. asset \in Emit(Nothing, {Asset("technology", <<"WAF:", line.firewall>>)}).assets
    BY <1>2, <2>1, <2>2 DEF WafW00fRecord
  <2>4. asset = Asset("technology", <<"WAF:", line.firewall>>)
    BY <1>1, <1>2, <2>3
  <2> QED  BY <2>4 DEF Asset
<1>9. CASE tool = "nmap"
  <2>1. asset \in NmapHost(Nothing, line).assets
    BY <1>9 DEF ParseLine
  <2> DEFINE ports == {p \in line.ports : p.open /\ p.id # ""}
             assets == {Asset("host", <<line.addr>>)}
                       \cup UNION {PortAssets(line.addr, p) : p \in ports}
  <2>2. asset \in Emit(Nothing, assets).assets
    BY <1>2, <2>1 DEF NmapHost
  <2>3. asset \in assets
    <3> HIDE DEF assets
    <3> QED  BY <1>1, <1>2, <2>2
  <2>4. ASSUME NEW p, NEW a \in PortAssets(line.addr, p)
        PROVE  a.type # "subdomain"
    <3>1. \/ a = Asset("port", <<line.addr, p.id>>)
          \/ a = Asset("service", <<p.service, line.addr, p.id>>)
          \/ a = Asset("technology", Words(p.product, p.version))
      BY DEF PortAssets
    <3> QED  BY <1>0, <3>1
  <2>5. Asset("host", <<line.addr>>).type # "subdomain"
    BY <1>0
  <2>6. \A a \in assets : a.type # "subdomain"
    <3> HIDE DEF ports
    <3> QED  BY <2>4, <2>5
  <2> HIDE DEF assets
  <2> QED  BY <2>3, <2>6
<1> QED  BY <1>3, <1>4, <1>5, <1>6, <1>7, <1>8, <1>9 DEF Tools
-----------------------------------------------------------------------------
(* What an output yields *)

LinesRead(tool, output) == IF IsReadable(tool, output) THEN output.lines ELSE <<>>

\* What a parser has found after each of the lines.
IsParse(acc, tool, target, lines) ==
    /\ acc \in [0 .. Len(lines) -> Found]
    /\ acc[0] = Nothing
    /\ \A k \in 1 .. Len(lines) :
           acc[k] = IF acc[k - 1].raised THEN acc[k - 1]
                    ELSE ParseLine(tool, target, acc[k - 1], lines[k])

\* A parser goes through the lines it reads, one by one.
LEMMA ParseAccumulates ==
    ASSUME NEW tool \in Tools, NEW target \in TargetRecords, NEW output \in OutputsOf(tool)
    PROVE  \E acc : /\ IsParse(acc, tool, target, LinesRead(tool, output))
                    /\ Parse(tool, target, output) = acc[Len(LinesRead(tool, output))]
<1> DEFINE lines == LinesRead(tool, output)
           n == Len(lines)
           Goes(f, i) == IF f.raised THEN f ELSE ParseLine(tool, target, f, lines[i])
           step == [i \in 1 .. n |-> [f \in Found |-> Goes(f, i)]]
           Folds(f) == f = [s \in SUBSET (DOMAIN lines) |->
                               IF s = {} THEN Nothing
                               ELSE IF f[s \ {Max(s)}].raised THEN f[s \ {Max(s)}]
                                    ELSE ParseLine(tool, target, f[s \ {Max(s)}], lines[Max(s)])]
           fold == CHOOSE f : Folds(f)
           acc == [k \in 0 .. n |-> fold[1 .. k]]
<1>1. n \in Nat /\ DOMAIN lines = 1 .. n /\ \A i \in 1 .. n : lines[i] \in LinesOf(tool)
  <2>1. lines \in Seq(LinesOf(tool))
    BY DEF LinesRead, OutputsOf
  <2> HIDE DEF lines
  <2> QED  BY <2>1, LenProperties, ElementOfSeq
<1>2. Parse(tool, target, output) = fold[DOMAIN lines]
  BY Zenon DEF Parse, LinesRead, FoldLeft, MapThenFoldSet
<1> HIDE DEF n, lines
<1>3. ASSUME NEW f \in Found, NEW i \in 1 .. n
      PROVE  Goes(f, i) \in Found
  <2>1. CASE f.raised
    BY <2>1
  <2>2. CASE ~f.raised
    <3>1. ParseLine(tool, target, f, lines[i]) \in Found
      BY <1>1, <2>2, LineAddsUp DEF AddsUp
    <3> QED  BY <2>2, <3>1
  <2> QED  BY <2>1, <2>2
<1>4. Nothing \in Found
  BY NothingIsFound
<1>5. \E f : Folds(f)
  <2>1. step \in [1 .. n -> [Found -> Found]]
    <3> HIDE DEF Goes
    <3> QED  BY <1>3
  <2> HIDE DEF step
  <2>2. PICK f : IsFoldOver(f, n, Found, Nothing, step)
    BY <1>1, <1>4, <2>1, FoldsExist
  <2>3. /\ f \in [SUBSET (1 .. n) -> Found]
        /\ \A s \in SUBSET (1 .. n) :
               f[s] = IF s = {} THEN Nothing ELSE step[Max(s)][f[s \ {Max(s)}]]
    BY <2>2 DEF IsFoldOver
  <2>4. ASSUME NEW s \in SUBSET (1 .. n), s # {}
        PROVE  step[Max(s)][f[s \ {Max(s)}]] = Goes(f[s \ {Max(s)}], Max(s))
    <3> HIDE DEF Goes
    <3>1. Max(s) \in 1 .. n
      BY <1>1, <2>4, GreatestIsMax
    <3>2. f[s \ {Max(s)}] \in Found
      BY <2>3
    <3> QED  BY <3>1, <3>2 DEF step
  <2>5. f = [s \in SUBSET (1 .. n) |-> f[s]]
    BY <2>3
  <2>6. f = [s \in SUBSET (1 .. n) |->
                 IF s = {} THEN Nothing ELSE Goes(f[s \ {Max(s)}], Max(s))]
    <3> HIDE DEF Goes
    <3> QED  BY <2>3, <2>4, <2>5
  <2> QED  BY <1>1, <2>6
<1>6. Folds(fold)
  <2> HIDE DEF Folds
  <2> QED  BY <1>5
<1> HIDE DEF fold
<1>7. \A s \in SUBSET (1 .. n) :
          fold[s] = IF s = {} THEN Nothing ELSE Goes(fold[s \ {Max(s)}], Max(s))
  BY <1>1, <1>6
<1> HIDE DEF Folds, Goes
<1>8. acc[0] = Nothing
  <2>1. 1 .. 0 = {} /\ {} \in SUBSET (1 .. n) /\ 0 \in 0 .. n
    BY <1>1
  <2> QED  BY <1>7, <2>1
<1>9. ASSUME NEW k \in 1 .. n
      PROVE  acc[k] = Goes(acc[k - 1], k)
  <2>1. k \in 0 .. n /\ k - 1 \in 0 .. n
    BY <1>1
  <2>2. fold[1 .. k] = Goes(fold[1 .. k - 1], k)
    <3>1. /\ 1 .. k \in SUBSET (1 .. n) /\ 1 .. k # {} /\ Max(1 .. k) = k
          /\ (1 .. k) \ {Max(1 .. k)} = 1 .. k - 1
      BY <1>1, PrefixesOfFolds
    <3>2. fold[1 .. k] = Goes(fold[(1 .. k) \ {Max(1 .. k)}], Max(1 .. k))
      BY <1>7, <3>1
    <3> QED  BY <3>1, <3>2
  <2> QED  BY <2>1, <2>2
<1>10. Parse(tool, target, output) = acc[n]
  BY <1>1, <1>2
<1>11. acc \in [0 .. n -> Found]
  <2> DEFINE S == {k \in Nat : k <= n => acc[k] \in Found}
  <2>1. 0 \in S
    BY <1>4, <1>8
  <2> HIDE DEF acc
  <2>2. ASSUME NEW k \in Nat, k \in S
        PROVE  k + 1 \in S
    <3> SUFFICES ASSUME k + 1 <= n PROVE acc[k + 1] \in Found
      OBVIOUS
    <3>1. k + 1 \in 1 .. n /\ k + 1 - 1 = k /\ acc[k] \in Found
      BY <1>1, <2>2
    <3>2. acc[k + 1] = Goes(acc[k], k + 1)
      BY <1>9, <3>1
    <3> QED  BY <1>3, <3>1, <3>2
  <2> HIDE DEF S
  <2>3. \A k \in Nat : k \in S
    BY <2>1, <2>2, AllNumbers
  <2>4. \A k \in 0 .. n : acc[k] \in Found
    BY <1>1, <2>3 DEF S
  <2>5. acc = [k \in 0 .. n |-> acc[k]]
    BY DEF acc
  <2> QED  BY <2>4, <2>5
<1> HIDE DEF acc
<1>12. IsParse(acc, tool, target, lines)
  BY <1>8, <1>9, <1>11 DEF IsParse, Goes, n
<1> QED  BY <1>10, <1>12 DEF n, lines

\* An output without lines yields nothing, and one of a line what it yields.
LEMMA ParseOfFew ==
    ASSUME NEW tool \in Tools, NEW target \in TargetRecords, NEW output \in OutputsOf(tool)
    PROVE  /\ LinesRead(tool, output) = <<>> => Parse(tool, target, output) = Nothing
           /\ \A line \in LinesOf(tool) : LinesRead(tool, output) = <<line>> =>
                  Parse(tool, target, output) = ParseLine(tool, target, Nothing, line)
<1>1. PICK acc : /\ IsParse(acc, tool, target, LinesRead(tool, output))
                 /\ Parse(tool, target, output) = acc[Len(LinesRead(tool, output))]
  BY ParseAccumulates
<1>2. CASE LinesRead(tool, output) = <<>>
  <2>1. Len(LinesRead(tool, output)) = 0
    BY <1>2
  <2>2. acc[0] = Nothing
    BY <1>1 DEF IsParse
  <2>3. Parse(tool, target, output) = Nothing
    BY <1>1, <2>1, <2>2
  <2> QED  BY <1>2, <2>3
<1>3. ASSUME NEW line \in LinesOf(tool), LinesRead(tool, output) = <<line>>
      PROVE  Parse(tool, target, output) = ParseLine(tool, target, Nothing, line)
  <2>1. Len(<<line>>) = 1 /\ <<line>>[1] = line /\ 1 \in 1 .. 1
    OBVIOUS
  <2>2. IsParse(acc, tool, target, <<line>>) /\ Parse(tool, target, output) = acc[1]
    BY <1>1, <1>3, <2>1
  <2>3. acc[0] = Nothing
    BY <2>2 DEF IsParse
  <2>4. acc[1] = IF acc[0].raised THEN acc[0] ELSE ParseLine(tool, target, acc[0], line)
    BY <2>1, <2>2 DEF IsParse
  <2> QED  BY <2>2, <2>3, <2>4, NothingIsFound
<1>4. LinesRead(tool, output) = <<>> => Parse(tool, target, output) = Nothing
  BY <1>2
<1> QED  BY <1>3, <1>4

\* What an output yields is what each of its lines yields by itself; and if one
\* of them raises, it raises.
LEMMA ParseAddsUp ==
    ASSUME NEW tool \in Tools, NEW target \in TargetRecords, NEW output \in OutputsOf(tool),
           NEW parts,
           parts = {Parse(tool, target, [output EXCEPT !.lines = <<l>>]) : l \in ToSet(output.lines)}
    PROVE  /\ Parse(tool, target, output) \in Found
           /\ Parse(tool, target, output).raised <=> \E p \in parts : p.raised
           /\ ~Parse(tool, target, output).raised =>
                  /\ Parse(tool, target, output).assets = UNION {p.assets : p \in parts}
                  /\ Parse(tool, target, output).findings = UNION {p.findings : p \in parts}
<1> DEFINE lines == output.lines
           n == Len(lines)
           alone == [i \in 1 .. n |-> Parse(tool, target, [output EXCEPT !.lines = <<lines[i]>>])]
           all == Parse(tool, target, output)
<1>1. /\ n \in Nat /\ DOMAIN lines = 1 .. n /\ \A i \in 1 .. n : lines[i] \in LinesOf(tool)
      /\ output.shape \in {"lines", "document"}
      /\ ToSet(lines) = {lines[i] : i \in 1 .. n}
  <2>1. lines \in Seq(LinesOf(tool)) /\ output.shape \in {"lines", "document"}
    BY DEF OutputsOf
  <2> HIDE DEF lines
  <2>2. n \in Nat /\ DOMAIN lines = 1 .. n /\ \A i \in 1 .. n : lines[i] \in LinesOf(tool)
    BY <2>1, LenProperties, ElementOfSeq
  <2> QED  BY <2>1, <2>2 DEF ToSet
<1>2. ASSUME NEW line \in LinesOf(tool)
      PROVE  /\ [output EXCEPT !.lines = <<line>>] \in OutputsOf(tool)
             /\ LinesRead(tool, [output EXCEPT !.lines = <<line>>]) =
                    IF IsReadable(tool, output) THEN <<line>> ELSE <<>>
  <2>1. <<line>> \in Seq(LinesOf(tool))
    BY ListsOfWords
  <2>2. [output EXCEPT !.lines = <<line>>] = [shape |-> output.shape, lines |-> <<line>>]
    BY DEF OutputsOf
  <2> QED  BY <1>1, <2>1, <2>2 DEF OutputsOf, LinesRead, IsReadable
<1>3. parts = {alone[i] : i \in 1 .. n}
  <2> HIDE DEF lines, n
  <2> QED  BY <1>1 DEF lines
<1>4. CASE ~IsReadable(tool, output)
  <2>1. all = Nothing
    BY <1>4, ParseOfFew DEF LinesRead
  <2>2. ASSUME NEW i \in 1 .. n
        PROVE  alone[i] = Nothing
    BY <1>1, <1>2, <1>4, <2>2, ParseOfFew
  <2> HIDE DEF alone, all
  <2>3. \A p \in parts : p = Nothing
    BY <1>3, <2>2
  <2>4. ~Nothing.raised /\ Nothing.assets = {} /\ Nothing.findings = {}
    BY DEF Nothing
  <2>5. UNION {p.assets : p \in parts} = {} /\ UNION {p.findings : p \in parts} = {}
    BY <2>3, <2>4
  <2>6. /\ all \in Found /\ ~all.raised /\ ~\E p \in parts : p.raised
        /\ all.assets = UNION {p.assets : p \in parts}
        /\ all.findings = UNION {p.findings : p \in parts}
    BY <2>1, <2>3, <2>4, <2>5, NothingIsFound
  <2> QED  BY <2>6 DEF all
<1>5. CASE IsReadable(tool, output)
  <2>1. PICK acc : IsParse(acc, tool, target, lines) /\ all = acc[n]
    BY <1>5, ParseAccumulates DEF LinesRead
  <2>2. /\ acc \in [0 .. n -> Found]
        /\ acc[0] = Nothing
        /\ \A k \in 1 .. n : acc[k] = IF acc[k - 1].raised THEN acc[k - 1]
                                      ELSE ParseLine(tool, target, acc[k - 1], lines[k])
    BY <2>1 DEF IsParse
  <2>3. ASSUME NEW i \in 1 .. n
        PROVE  alone[i] = ParseLine(tool, target, Nothing, lines[i])
    BY <1>1, <1>2, <1>5, <2>3, ParseOfFew
  <2> HIDE DEF lines, n, alone, all
  <2> DEFINE S == {k \in Nat : k <= n =>
                      /\ acc[k].raised <=> \E i \in 1 .. k : alone[i].raised
                      /\ ~acc[k].raised =>
                             /\ acc[k].assets = UNION {alone[i].assets : i \in 1 .. k}
                             /\ acc[k].findings = UNION {alone[i].findings : i \in 1 .. k}}
  <2>4. 0 \in S
    <3>1. 1 .. 0 = {}
      OBVIOUS
    <3>2. ~acc[0].raised /\ acc[0].assets = {} /\ acc[0].findings = {}
      BY <2>2 DEF Nothing
    <3> QED  BY <3>1, <3>2
  <2>5. ASSUME NEW k \in Nat, k \in S
        PROVE  k + 1 \in S
    <3> SUFFICES ASSUME k + 1 <= n
                 PROVE  /\ acc[k + 1].raised <=> \E i \in 1 .. k + 1 : alone[i].raised
                        /\ ~acc[k + 1].raised =>
                               /\ acc[k + 1].assets = UNION {alone[i].assets : i \in 1 .. k + 1}
                               /\ acc[k + 1].findings = UNION {alone[i].findings : i \in 1 .. k + 1}
      OBVIOUS
    <3>1. k + 1 \in 1 .. n /\ k + 1 - 1 = k /\ k \in 0 .. n /\ k <= n
      BY <1>1
    <3>2. /\ acc[k].raised <=> \E i \in 1 .. k : alone[i].raised
          /\ ~acc[k].raised =>
                 /\ acc[k].assets = UNION {alone[i].assets : i \in 1 .. k}
                 /\ acc[k].findings = UNION {alone[i].findings : i \in 1 .. k}
      BY <2>5, <3>1
    <3> HIDE DEF S
    <3>3. 1 .. k + 1 = (1 .. k) \cup {k + 1}
      OBVIOUS
    <3>4. acc[k + 1] = IF acc[k].raised THEN acc[k] ELSE ParseLine(tool, target, acc[k], lines[k + 1])
      BY <2>2, <3>1
    <3>5. CASE acc[k].raised
      BY <3>2, <3>3, <3>4, <3>5
    <3>6. CASE ~acc[k].raised
      <4>1. acc[k] \in Found /\ lines[k + 1] \in LinesOf(tool)
        BY <1>1, <2>2, <3>1
      <4>2. AddsUp(acc[k], acc[k + 1], alone[k + 1])
        <5>1. AddsUp(acc[k], ParseLine(tool, target, acc[k], lines[k + 1]),
                     ParseLine(tool, target, Nothing, lines[k + 1]))
          BY <3>6, <4>1, LineAddsUp
        <5> QED  BY <2>3, <3>1, <3>4, <3>6, <5>1
      <4>3. /\ acc[k + 1].raised <=> alone[k + 1].raised
            /\ ~acc[k + 1].raised =>
                   /\ acc[k + 1].assets = acc[k].assets \cup alone[k + 1].assets
                   /\ acc[k + 1].findings = acc[k].findings \cup alone[k + 1].findings
        BY <4>2 DEF AddsUp
      <4>4. /\ UNION {alone[i].assets : i \in 1 .. k + 1} =
                   (UNION {alone[i].assets : i \in 1 .. k}) \cup alone[k + 1].assets
            /\ UNION {alone[i].findings : i \in 1 .. k + 1} =
                   (UNION {alone[i].findings : i \in 1 .. k}) \cup alone[k + 1].findings
        BY <3>3
      <4>5. acc[k + 1].raised <=> \E i \in 1 .. k + 1 : alone[i].raised
        BY <3>2, <3>3, <3>6, <4>3
      <4> QED  BY <3>2, <3>6, <4>3, <4>4, <4>5
    <3> QED  BY <3>5, <3>6
  <2> HIDE DEF S
  <2>6. \A k \in Nat : k \in S
    BY <2>4, <2>5, AllNumbers
  <2>7. /\ all.raised <=> \E i \in 1 .. n : alone[i].raised
        /\ ~all.raised => /\ all.assets = UNION {alone[i].assets : i \in 1 .. n}
                          /\ all.findings = UNION {alone[i].findings : i \in 1 .. n}
    BY <1>1, <2>1, <2>6 DEF S
  <2>8. all \in Found
    BY <1>1, <2>1, <2>2
  <2>9. /\ UNION {p.assets : p \in parts} = UNION {alone[i].assets : i \in 1 .. n}
        /\ UNION {p.findings : p \in parts} = UNION {alone[i].findings : i \in 1 .. n}
        /\ (\E p \in parts : p.raised) <=> \E i \in 1 .. n : alone[i].raised
    BY <1>3
  <2> QED  BY <2>7, <2>8, <2>9 DEF all
<1> QED  BY <1>4, <1>5

-----------------------------------------------------------------------------
(* What holds of a call at each place *)

CallPlaces == {"idle", "construct", "begin"} \cup Awaits \cup CallEnds

\* What is known of the process at each place the call can be at: none before
\* it is spawned, killed or exited once wait is reached, and ended for good
\* when wait has returned or the connection was given up.
ProcessByPlace ==
    /\ pc \in CallPlaces /\ process \in ProcessStates
    /\ cancelled \in {"no"} \cup Awaits
    /\ pc \in {"idle", "construct", "begin", "invalid", "refused"} => process = "none"
    /\ pc \in {"construct", "begin"} \cup Awaits => cancelled = "no"
    /\ pc \in {"spawning", "communicate", "expired"} => process \in {"running", "exited"}
    /\ pc = "reap" => process \in {"exited", "killed", "dead"}
    /\ pc = "raised" => process \in {"none", "exited"}
    /\ pc = "returned" => process \in {"exited", "killed", "dead"}
    /\ pc = "cancelled" => cancelled # "no"
    /\ cancelled = "spawning" => process \in {"exited", "dead"}
    /\ cancelled = "reap" => pc = "returned"

\* The tool in a container starts while its client runs, and a client that
\* exits other than by a signal has seen it end.
InsideByProcess ==
    /\ inside = "running" =>
           process \in {"running", "killed", "dead"} \/ (process = "exited" /\ exitCode = -1)
    /\ inside \in {"none", "running", "ended"} /\ (inside # "none" => call.docker)

\* A process is there only when the enforcer was built and allowed the target,
\* and a refusal only when it did not.
StartedWhenAllowed ==
    /\ pc \notin {"idle", "construct", "invalid"} => Constructs(call.authorized)
    /\ process # "none" => Allowed
    /\ pc = "refused" => ~Allowed

\* What a call is given is one of the calls, and what its process writes is what
\* its tool can write.
GivenAndWritten ==
    /\ call \in Calls \/ (call = NoCall /\ pc = "idle")
    /\ stdout = NoOutput \/ stdout \in Outputs[call.tool]
    /\ exitCode \in {-1, 0, 1}

\* A result is there when the call returned: of what a process wrote that has
\* exited by itself and is therefore final, or of no output at all.
ResultByPlace ==
    /\ result.made <=> pc = "returned"
    /\ pc # "returned" => result = NoResult
    /\ pc = "returned" =>
           \/ /\ process = "exited" /\ cancelled = "no"
              /\ result = RunResult(Parse(call.tool, call.target, stdout), exitCode, FALSE)
           \/ result = RunResult(Parse(call.tool, call.target, NoOutput), -1, TRUE)

CallInv ==
    ProcessByPlace /\ InsideByProcess /\ StartedWhenAllowed /\ GivenAndWritten /\ ResultByPlace

\* What is posted is the message of the comparison, cut.
AlertInv ==
    /\ comparison \in Comparisons \/ (comparison = NoComparison /\ at = "idle")
    /\ at \in {"idle", "render", "post", "ended"}
    /\ message \in Nat /\ sent \in 0 .. MessageCap
    /\ outcome \in {"none", "true", "false", "raised"} /\ (outcome # "none" <=> at = "ended")
    /\ at = "post" => message = RenderChangeAlert(comparison) /\ sent = SmallerOf(message, MessageCap)

OutsideInv == CallInv /\ AlertInv

-----------------------------------------------------------------------------

\* What holds before the call has begun.
LEMMA InitInv == Init => OutsideInv
<1> SUFFICES ASSUME Init PROVE OutsideInv
  OBVIOUS
<1>1. CallInv
  <2>1. PICK c : CallInit(c) /\ (c \in Calls \/ c = NoCall)
    BY DEF Init
  <2>2. c \in Calls => c # NoCall
    BY CallsType DEF NoCall, Tools
  <2> QED  BY <2>1, <2>2 DEF CallInit, CallInv, ProcessByPlace, InsideByProcess, StartedWhenAllowed,
                             GivenAndWritten, ResultByPlace, NoResult, CallPlaces, Awaits, CallEnds,
                             ProcessStates
<1>2. AlertInv
  <2>1. PICK c : AlertInit(c) /\ (c \in Comparisons \/ c = NoComparison)
    BY DEF Init
  <2> QED  BY <2>1, CapsArePositive DEF AlertInit, AlertInv
<1> QED  BY <1>1, <1>2 DEF OutsideInv

\* A run's result is one, whatever the parser found.
LEMMA ResultIsMade ==
    ASSUME NEW found, NEW code, NEW timedOut
    PROVE  RunResult(found, code, timedOut).made /\ RunResult(found, code, timedOut).code = code
BY DEF RunResult

\* A step leaves a result alone that is there, and the output it is of.
LEMMA ResultStep ==
    ASSUME ProcessByPlace, ResultByPlace, CallNext
    PROVE  ResultByPlace'
<1>1. call' = call
  BY DEF CallNext, CallStep, BuildEnforcer, Refuse, Spawn, Connected, Communicated,
         TimerExpires, Kill, Reaped, Cancel, ToolStarts, ProcessExits, ProcessDies,
         ToolEnds, Ends
<1>. USE <1>1
<1>2. ASSUME ReturnParsed(stdout, exitCode, FALSE), process = "exited", cancelled = "no",
             UNCHANGED <<process, stdout, exitCode, cancelled>>
      PROVE  ResultByPlace'
  BY <1>2, ResultIsMade DEF ReturnParsed, ResultByPlace
<1>3. ASSUME ReturnParsed(NoOutput, -1, TRUE)
      PROVE  ResultByPlace'
  BY <1>3, ResultIsMade DEF ReturnParsed, ResultByPlace
<1>4. ASSUME UNCHANGED result, pc # "returned", pc' # "returned"
      PROVE  ResultByPlace'
  BY <1>4 DEF ResultByPlace
<1>5. ASSUME UNCHANGED <<pc, result, stdout, exitCode, cancelled>>,
             process = "exited" => process' = "exited"
      PROVE  ResultByPlace'
  BY <1>5 DEF ResultByPlace
<1>6. CASE BuildEnforcer \/ Refuse \/ Spawn \/ Connected \/ TimerExpires \/ Kill
  <2>1. UNCHANGED result /\ pc # "returned" /\ pc' # "returned"
    BY <1>6 DEF BuildEnforcer, Refuse, Spawn, Connected, TimerExpires, Kill, Ends
  <2>. QED
    BY <1>4, <2>1
<1>7. CASE Communicated
  BY <1>2, <1>7 DEF Communicated, ProcessByPlace, Awaits
<1>8. CASE Reaped
  BY <1>3, <1>8 DEF Reaped
<1>9. CASE Cancel
  <2>1. CASE pc = "reap"
    BY <1>3, <1>9, <2>1 DEF Cancel
  <2>2. CASE pc # "reap"
    BY <1>4, <1>9, <2>2 DEF Cancel, Awaits
  <2>. QED
    BY <2>1, <2>2
<1>10. CASE ProcessExits
  <2>1. process = "running" /\ UNCHANGED <<pc, cancelled, result>>
    BY <1>10 DEF ProcessExits
  <2>2. pc # "returned"
    BY <2>1 DEF ProcessByPlace
  <2>. QED
    BY <1>4, <2>1, <2>2
<1>11. CASE ToolStarts \/ ProcessDies \/ ToolEnds
  <2>1. /\ UNCHANGED <<pc, result, stdout, exitCode, cancelled>>
        /\ process = "exited" => process' = "exited"
    BY <1>11 DEF ToolStarts, ProcessDies, ToolEnds
  <2>. QED
    BY <1>5, <2>1
<1>. QED
  BY <1>6, <1>7, <1>8, <1>9, <1>10, <1>11 DEF CallNext, CallStep

\* What a call is given stays what it is, and with it the verdict.
LEMMA CallIsFixed ==
    ASSUME CallNext
    PROVE  call' = call /\ (Allowed' <=> Allowed)
<1>1. call' = call
  BY DEF CallNext, CallStep, BuildEnforcer, Refuse, Spawn, Connected, Communicated,
         TimerExpires, Kill, Reaped, Cancel, ToolStarts, ProcessExits, ProcessDies,
         ToolEnds, Ends
<1>. QED
  BY <1>1 DEF Allowed

\* A step of the call or of its process, action by action.
LEMMA CallNextInv ==
    ASSUME CallInv, CallNext
    PROVE  ProcessByPlace' /\ InsideByProcess' /\ StartedWhenAllowed'
<1>0. call' = call /\ (Allowed' <=> Allowed)
  BY CallIsFixed
<1>. USE <1>0 DEF CallInv, ProcessByPlace, InsideByProcess, CallPlaces, Awaits, CallEnds,
                  ProcessStates
<1>1. CASE BuildEnforcer
  <2>1. ProcessByPlace' /\ InsideByProcess'
    BY <1>1 DEF BuildEnforcer, Ends
  <2>2. StartedWhenAllowed'
    BY <1>1 DEF BuildEnforcer, Ends, StartedWhenAllowed
  <2>. QED
    BY <2>1, <2>2
<1>2. CASE Refuse
  <2>1. ProcessByPlace' /\ InsideByProcess'
    BY <1>2 DEF Refuse, Ends
  <2>2. StartedWhenAllowed'
    BY <1>2 DEF Refuse, Ends, StartedWhenAllowed
  <2>. QED
    BY <2>1, <2>2
<1>3. CASE Spawn
  <2>1. ProcessByPlace' /\ InsideByProcess'
    BY <1>3 DEF Spawn, Ends
  <2>2. StartedWhenAllowed'
    BY <1>3 DEF Spawn, Ends, StartedWhenAllowed
  <2>. QED
    BY <2>1, <2>2
<1>4. CASE Connected
  <2>1. ProcessByPlace' /\ InsideByProcess'
    BY <1>4 DEF Connected, Ends
  <2>2. StartedWhenAllowed'
    BY <1>4 DEF Connected, Ends, StartedWhenAllowed
  <2>. QED
    BY <2>1, <2>2
<1>5. CASE Communicated
  <2>1. ProcessByPlace' /\ InsideByProcess'
    BY <1>5 DEF Communicated, ReturnParsed
  <2>2. StartedWhenAllowed'
    BY <1>5 DEF Communicated, ReturnParsed, StartedWhenAllowed
  <2>. QED
    BY <2>1, <2>2
<1>6. CASE TimerExpires
  <2>1. ProcessByPlace' /\ InsideByProcess'
    BY <1>6 DEF TimerExpires, Ends
  <2>2. StartedWhenAllowed'
    BY <1>6 DEF TimerExpires, Ends, StartedWhenAllowed
  <2>. QED
    BY <2>1, <2>2
<1>7. CASE Kill
  <2>1. ProcessByPlace' /\ InsideByProcess'
    BY <1>7 DEF Kill, Ends
  <2>2. StartedWhenAllowed'
    BY <1>7 DEF Kill, Ends, StartedWhenAllowed
  <2>. QED
    BY <2>1, <2>2
<1>8. CASE Reaped
  <2>1. ProcessByPlace' /\ InsideByProcess'
    BY <1>8 DEF Reaped, ReturnParsed
  <2>2. StartedWhenAllowed'
    BY <1>8 DEF Reaped, ReturnParsed, StartedWhenAllowed
  <2>. QED
    BY <2>1, <2>2
<1>9. CASE Cancel
  <2>1. ProcessByPlace' /\ InsideByProcess'
    BY <1>9 DEF Cancel, ReturnParsed
  <2>2. StartedWhenAllowed'
    BY <1>9 DEF Cancel, ReturnParsed, StartedWhenAllowed
  <2>. QED
    BY <2>1, <2>2
<1>10. CASE ToolStarts
  <2>1. ProcessByPlace' /\ InsideByProcess'
    BY <1>10 DEF ToolStarts
  <2>2. StartedWhenAllowed'
    BY <1>10 DEF ToolStarts, StartedWhenAllowed
  <2>. QED
    BY <2>1, <2>2
<1>11. CASE ProcessExits
  <2>1. ProcessByPlace' /\ InsideByProcess'
    BY <1>11 DEF ProcessExits
  <2>2. StartedWhenAllowed'
    BY <1>11 DEF ProcessExits, StartedWhenAllowed
  <2>. QED
    BY <2>1, <2>2
<1>12. CASE ProcessDies
  <2>1. ProcessByPlace' /\ InsideByProcess'
    BY <1>12 DEF ProcessDies
  <2>2. StartedWhenAllowed'
    BY <1>12 DEF ProcessDies, StartedWhenAllowed
  <2>. QED
    BY <2>1, <2>2
<1>13. CASE ToolEnds
  <2>1. ProcessByPlace' /\ InsideByProcess'
    BY <1>13 DEF ToolEnds
  <2>2. StartedWhenAllowed'
    BY <1>13 DEF ToolEnds, StartedWhenAllowed
  <2>. QED
    BY <2>1, <2>2
<1>. QED
  BY <1>1, <1>2, <1>3, <1>4, <1>5, <1>6, <1>7, <1>8, <1>9, <1>10, <1>11, <1>12, <1>13
     DEF CallNext, CallStep

\* A process writes what its tool can write, and only the process of a call is
\* there to write.
LEMMA GivenStep ==
    ASSUME ProcessByPlace, InsideByProcess, GivenAndWritten, CallNext
    PROVE  GivenAndWritten'
<1>1. call' = call
  BY CallIsFixed
<1>2. pc # "idle"
  BY DEF CallNext, CallStep, BuildEnforcer, Refuse, Spawn, Connected, Communicated,
         TimerExpires, Kill, Reaped, Cancel, ToolStarts, ProcessExits, ProcessDies,
         ToolEnds, ProcessByPlace, InsideByProcess, Awaits
<1>3. call' \in Calls
  BY <1>1, <1>2 DEF GivenAndWritten
<1>4. CASE ProcessExits
  BY <1>1, <1>3, <1>4 DEF ProcessExits, GivenAndWritten
<1>5. CASE ~ProcessExits
  <2>1. UNCHANGED <<stdout, exitCode>>
    BY <1>5 DEF CallNext, CallStep, BuildEnforcer, Refuse, Spawn, Connected, Communicated,
                TimerExpires, Kill, Reaped, Cancel, ToolStarts, ProcessDies, ToolEnds, Ends
  <2> QED  BY <1>1, <1>3, <2>1 DEF GivenAndWritten
<1> QED  BY <1>4, <1>5

\* A message is rendered of a comparison, and cut.
LEMMA AlertStep ==
    ASSUME AlertInv, AlertNext
    PROVE  AlertInv'
<1>1. CASE Skip
  BY <1>1 DEF Skip, AlertReturns, AlertInv
<1>2. CASE Render
  <2>1. comparison \in Comparisons /\ comparison' = comparison
    BY <1>2 DEF Render, AlertInv
  <2>2. RenderChangeAlert(comparison) \in Nat
    BY <2>1, MessagesHaveLength
  <2>3. message' = RenderChangeAlert(comparison) /\ sent' = SmallerOf(message', MessageCap)
    BY <1>2 DEF Render
  <2>4. message' \in Nat /\ sent' \in 0 .. MessageCap
    BY <2>2, <2>3, CapsArePositive DEF SmallerOf
  <2>5. at = "render" /\ at' = "post" /\ outcome' = outcome
    BY <1>2 DEF Render
  <2>6. outcome \in {"none", "true", "false", "raised"} /\ (outcome # "none" <=> at = "ended")
    BY DEF AlertInv
  <2>7. message' = RenderChangeAlert(comparison')
    BY <2>1, <2>3
  <2> HIDE DEF AlertInv
  <2> QED  BY <2>1, <2>3, <2>4, <2>5, <2>6, <2>7 DEF AlertInv
<1>3. CASE Post
  BY <1>3 DEF Post, AlertReturns, AlertInv
<1> QED  BY <1>1, <1>2, <1>3 DEF AlertNext

\* Every step of the composition.
LEMMA NextInv == OutsideInv /\ [Next]_vars => OutsideInv'
<1> SUFFICES ASSUME OutsideInv, [Next]_vars PROVE OutsideInv'
  OBVIOUS
<1>1. CallInv /\ AlertInv
  BY DEF OutsideInv
<1>3. ASSUME UNCHANGED callVars
      PROVE  CallInv'
  BY <1>1, <1>3 DEF callVars, CallInv, ProcessByPlace, InsideByProcess, StartedWhenAllowed, Allowed,
                    GivenAndWritten, ResultByPlace
<1>4. ASSUME UNCHANGED alertVars
      PROVE  AlertInv'
  BY <1>1, <1>4 DEF alertVars, AlertInv
<1>5. CallInv'
  BY <1>1, <1>3, CallNextInv, ResultStep, GivenStep DEF CallInv, Next, vars
<1>6. AlertInv'
  BY <1>1, <1>4, AlertStep DEF Next, vars
<1> QED  BY <1>5, <1>6 DEF OutsideInv

\* The strengthening that carries what follows.
THEOREM Invariance == Spec => []OutsideInv
<1>. QED
  BY InitInv, NextInv, PTL DEF Spec

\* Whatever the tool, its output, the timer and the moment of a cancellation:
\* a tool that runs on after its call was left by a cancellation at communicate,
\* or is in a container whose client was killed or signalled (runners.py 108-115).
THEOREM OrphansAreExplained == Spec => []OrphansHaveACause
<1>1. OutsideInv => OrphansHaveACause
  BY DEF OutsideInv, CallInv, ProcessByPlace, InsideByProcess, OrphansHaveACause, ToolIsRunning,
         CallPlaces, Awaits, CallEnds, ProcessStates
<1>. QED
  BY <1>1, Invariance, PTL

\* No process is started before the enforcer was built from entries that are
\* all rules, or for a target it does not allow, whatever else the call does
\* (tools/__init__.py run, scope.py).
THEOREM NothingStartsUnasked ==
    Spec => [](process # "none" => Constructs(call.authorized) /\ Allowed)
<1>1. OutsideInv => (process # "none" => Constructs(call.authorized) /\ Allowed)
  BY DEF OutsideInv, CallInv, ProcessByPlace, StartedWhenAllowed
<1>. QED
  BY <1>1, Invariance, PTL

\* A call that returned has a result, no other has, and the result is what its
\* parser makes of all a process wrote that had exited before the timeout, under
\* its exit code, or of no output under the code -1 after it: never of the output
\* of a process the runner killed, and never of an output if the call was
\* cancelled (tools/__init__.py run, runners.py 106-131).
THEOREM ResultsAreOfFinalOutput ==
    Spec => [](/\ result.made <=> pc = "returned"
               /\ pc = "returned" =>
                      \/ /\ process = "exited" /\ cancelled = "no"
                         /\ result = RunResult(Parse(call.tool, call.target, stdout),
                                               exitCode, FALSE)
                      \/ result = RunResult(Parse(call.tool, call.target, NoOutput), -1, TRUE))
<1>1. OutsideInv => ResultByPlace
  BY DEF OutsideInv, CallInv
<1>. QED
  BY <1>1, Invariance, PTL DEF ResultByPlace
-----------------------------------------------------------------------------
(* What a call may do, and what it returns *)

\* A call that is under way is one of the calls, and what its process wrote its
\* tool can write.
LEMMA CallsAreGiven ==
    ASSUME OutsideInv, pc # "idle"
    PROVE  /\ call \in Calls /\ call.tool \in Tools /\ call.docker \in BOOLEAN
           /\ call.authorized \subseteq EntryRecords /\ call.target \in TargetRecords
           /\ NoOutput \in OutputsOf(call.tool) /\ stdout \in OutputsOf(call.tool)
<1>1. call \in Calls /\ (stdout = NoOutput \/ stdout \in Outputs[call.tool])
  BY DEF OutsideInv, CallInv, GivenAndWritten
<1>2. /\ call.tool \in Tools /\ call.docker \in BOOLEAN
      /\ call.authorized \subseteq EntryRecords /\ call.target \in TargetRecords
  BY <1>1, CallsType
<1>3. NoOutput \in OutputsOf(call.tool)
  <2>1. <<>> \in Seq(LinesOf(call.tool))
    BY EmptySeq
  <2> QED  BY <2>1 DEF NoOutput, OutputsOf
<1>4. stdout \in OutputsOf(call.tool)
  BY <1>1, <1>2, <1>3, OutputsOfTools
<1> QED  BY <1>1, <1>2, <1>3, <1>4

\* A process is started for a target only when an entry covers it, by its labels
\* or its range of addresses, and a call is refused only when none does, for
\* every list of entries and every target (scope.py, tools/__init__.py 62).
THEOREM AuthorizedOnly == Spec => []OnlyAuthorizedRun
<1>1. OutsideInv => OnlyAuthorizedRun
  <2> SUFFICES ASSUME OutsideInv PROVE OnlyAuthorizedRun
    OBVIOUS
  <2>1. /\ process # "none" => Allowed /\ pc \notin {"idle", "invalid"}
        /\ pc = "refused" => ~Allowed
    BY DEF OutsideInv, CallInv, StartedWhenAllowed, ProcessByPlace
  <2>2. pc # "idle" => (Allowed <=> Permitted(call.authorized, call.target))
    BY CallsAreGiven, VerdictIsPermitted DEF Allowed
  <2> QED  BY <2>1, <2>2 DEF OnlyAuthorizedRun
<1> QED  BY <1>1, Invariance, PTL

\* The result of a call that returned: all of what its tool's parser found in
\* the lines of a final output, or nothing.
LEMMA WhatIsReturned ==
    ASSUME OutsideInv, pc = "returned",
           NEW parts, parts = {Alone(l) : l \in ToSet(stdout.lines)}
    PROVE  /\ result \in Results
           /\ \/ /\ ~result.timedOut
                 /\ process = "exited" /\ cancelled = "no" /\ result.code = exitCode
                 /\ IF \A p \in parts : ~p.raised
                    THEN /\ result.assets = UNION {p.assets : p \in parts}
                         /\ result.findings = UNION {p.findings : p \in parts}
                    ELSE result.assets = {} /\ result.findings = {}
              \/ /\ result.timedOut
                 /\ result.code = -1 /\ result.assets = {} /\ result.findings = {}
<1> DEFINE whole == Parse(call.tool, call.target, stdout)
           none == Parse(call.tool, call.target, NoOutput)
<1>1. /\ call.tool \in Tools /\ call.target \in TargetRecords
      /\ NoOutput \in OutputsOf(call.tool) /\ stdout \in OutputsOf(call.tool)
  BY CallsAreGiven
<1>2. /\ exitCode \in {-1, 0, 1}
      /\ \/ /\ process = "exited" /\ cancelled = "no"
            /\ result = RunResult(whole, exitCode, FALSE)
         \/ result = RunResult(none, -1, TRUE)
  BY DEF OutsideInv, CallInv, GivenAndWritten, ResultByPlace
<1>3. none = Nothing
  <2>1. LinesRead(call.tool, NoOutput) = <<>>
    BY DEF LinesRead, NoOutput
  <2> QED  BY <1>1, <2>1, ParseOfFew
<1>4. parts = {Parse(call.tool, call.target, [stdout EXCEPT !.lines = <<l>>]) : l \in ToSet(stdout.lines)}
  BY DEF Alone
<1>5. /\ whole \in Found
      /\ whole.raised <=> \E p \in parts : p.raised
      /\ ~whole.raised => /\ whole.assets = UNION {p.assets : p \in parts}
                          /\ whole.findings = UNION {p.findings : p \in parts}
  BY <1>1, <1>4, ParseAddsUp
<1> HIDE DEF whole, none
<1>6. ASSUME NEW found \in Found, NEW code \in -1 .. 1, NEW timedOut \in BOOLEAN,
             result = RunResult(found, code, timedOut)
      PROVE  /\ result \in Results /\ result.code = code /\ result.timedOut = timedOut
             /\ found.raised => result.assets = {} /\ result.findings = {}
             /\ ~found.raised => /\ result.assets = found.assets
                                 /\ result.findings = found.findings
  <2>1. /\ found.assets \in SUBSET [type : AssetTypes, value : Seq(STRING)]
        /\ found.findings \in SUBSET [severity : Severities, title : STRING, at : STRING]
    BY DEF Found, RawAssets
  <2> QED  BY <1>6, <2>1 DEF RunResult, Results
<1>7. CASE process = "exited" /\ cancelled = "no"
              /\ result = RunResult(whole, exitCode, FALSE)
  <2>1. exitCode \in -1 .. 1
    BY <1>2
  <2> QED  BY <1>2, <1>5, <1>6, <1>7, <2>1
<1>8. CASE result = RunResult(none, -1, TRUE)
  <2>1. Nothing \in Found /\ ~Nothing.raised /\ Nothing.assets = {} /\ Nothing.findings = {}
    BY NothingIsFound DEF Nothing
  <2>2. -1 \in -1 .. 1
    OBVIOUS
  <2> QED  BY <1>3, <1>6, <1>8, <2>1, <2>2
<1> QED  BY <1>2, <1>7, <1>8

\* What a call returns without a timeout is of the whole output of a process that
\* has exited, under its exit code, whatever that is: nothing but what its lines
\* yield, and all of it unless one of them raises; after a timeout it is nothing.
\* For every tool, every target and every output (tools/__init__.py 76-88, the
\* parsers, runners.py 106-131).
THEOREM ResultsAreOfTheirOutput == Spec => []ResultIsOfItsOutput
<1>1. OutsideInv => ResultIsOfItsOutput
  <2> SUFFICES ASSUME OutsideInv, pc = "returned" PROVE ResultIsOfItsOutput
    BY DEF ResultIsOfItsOutput
  <2> DEFINE parts == {Alone(l) : l \in ToSet(stdout.lines)}
             assets == UNION {p.assets : p \in parts}
             findings == UNION {p.findings : p \in parts}
  <2>1. \/ /\ ~result.timedOut
           /\ process = "exited" /\ cancelled = "no" /\ result.code = exitCode
           /\ IF \A p \in parts : ~p.raised
              THEN result.assets = assets /\ result.findings = findings
              ELSE result.assets = {} /\ result.findings = {}
        \/ /\ result.timedOut
           /\ result.code = -1 /\ result.assets = {} /\ result.findings = {}
    <3> DEFINE all == {Alone(l) : l \in ToSet(stdout.lines)}
    <3>1. parts = all
      OBVIOUS
    <3> HIDE DEF parts
    <3> QED  BY <3>1, WhatIsReturned
  <2>2. IF result.timedOut
        THEN result.code = -1 /\ result.assets = {} /\ result.findings = {}
        ELSE /\ process = "exited" /\ cancelled = "no" /\ result.code = exitCode
             /\ result.assets \subseteq assets /\ result.findings \subseteq findings
             /\ \/ \E p \in parts : p.raised
                \/ result.assets = assets /\ result.findings = findings
    <3> HIDE DEF parts, assets, findings
    <3> QED  BY <2>1
  <2> QED  BY <2>2 DEF ResultIsOfItsOutput
<1> QED  BY <1>1, Invariance, PTL

\* A subdomain a tool reports lies below the target's text by its labels, and is
\* itself permitted by the entry that permitted the target if both are host names:
\* for every tool, every output and every list of entries (subfinder.py 67-72,
\* harvester.py 69-74).
THEOREM SubdomainsInScope == Spec => []SubdomainsStayInScope
<1>1. OutsideInv => SubdomainsStayInScope
  <2> SUFFICES ASSUME OutsideInv, NEW a \in result.assets, a.type = "subdomain"
               PROVE  /\ IsStrictSuffix(Labels(Lower(call.target.text)), Labels(a.value))
                      /\ call.target.family = 0 /\ IsHostName(a.value) =>
                             Permitted(call.authorized, NameOfHost(a.value))
    BY DEF SubdomainsStayInScope
  <2> DEFINE parts == {Alone(l) : l \in ToSet(stdout.lines)}
  <2>1. pc = "returned"
    BY DEF OutsideInv, CallInv, ResultByPlace, NoResult
  <2>2. /\ call.tool \in Tools /\ call.authorized \subseteq EntryRecords
        /\ call.target \in TargetRecords /\ stdout \in OutputsOf(call.tool)
    BY <2>1, CallsAreGiven
  <2>3. process = "exited" /\ result.assets = UNION {p.assets : p \in parts}
    <3>1. parts = {Alone(l) : l \in ToSet(stdout.lines)}
      OBVIOUS
    <3> HIDE DEF parts
    <3> QED  BY <2>1, <3>1, WhatIsReturned
  <2>4. PICK line \in ToSet(stdout.lines) : a \in Alone(line).assets
    BY <2>3
  <2>5. line \in LinesOf(call.tool)
    <3>1. stdout.lines \in Seq(LinesOf(call.tool))
      BY <2>2 DEF OutputsOf
    <3> QED  BY <3>1, LenProperties, ElementOfSeq DEF ToSet
  <2>6. a \in ParseLine(call.tool, call.target, Nothing, line).assets
    <3> DEFINE one == [stdout EXCEPT !.lines = <<line>>]
    <3>1. one \in OutputsOf(call.tool)
      <4>1. <<line>> \in Seq(LinesOf(call.tool))
        BY <2>5, ListsOfWords
      <4> QED  BY <2>2, <4>1 DEF OutputsOf
    <3>2. LinesRead(call.tool, one) = <<line>> \/ LinesRead(call.tool, one) = <<>>
      BY <2>2 DEF LinesRead, OutputsOf
    <3>3. a \in Parse(call.tool, call.target, one).assets
      BY <2>4 DEF Alone
    <3> HIDE DEF one
    <3>4. Nothing.assets = {}
      BY DEF Nothing
    <3> QED  BY <2>2, <2>5, <3>1, <3>2, <3>3, <3>4, ParseOfFew
  <2>7. IsUnder(a.value, Lower(call.target.text)) /\ \E text \in Seq(STRING) : a.value = Lower(text)
    BY <2>2, <2>5, <2>6, SubdomainsAreUnder
  <2>8. PICK text \in Seq(STRING) : a.value = Lower(text)
    BY <2>7
  <2>9. Lower(call.target.text) \in Seq(STRING) /\ Lower(text) \in Seq(STRING)
    <3>1. call.target.text \in Seq(STRING)
      BY <2>2 DEF TargetRecords
    <3> QED  BY <3>1, LowerKeepsLength
  <2>10. IsStrictSuffix(Labels(Lower(call.target.text)), Labels(a.value))
    BY <2>7, <2>8, <2>9, LabelsDecide
  <2>11. Permitted(call.authorized, call.target)
    <3>1. Allowed
      BY <2>3 DEF OutsideInv, CallInv, StartedWhenAllowed
    <3> QED  BY <2>2, <3>1, VerdictIsPermitted DEF Allowed
  <2>12. call.target.family = 0 /\ IsHostName(a.value) =>
             Permitted(call.authorized, NameOfHost(a.value))
    BY <2>2, <2>7, <2>8, <2>11, BelowIsPermitted
  <2> QED  BY <2>10, <2>12
<1> QED  BY <1>1, Invariance, PTL

\* The assets a section lists and its "more" are all there are, what is left out
\* is left out because Cap are listed, and the length of the section is bounded
\* whatever the number of assets: for every comparison and every cap (telegram.py
\* 297-323).
THEOREM AlertsAddUp == Spec => []AlertAddsUp
<1>1. OutsideInv => AlertAddsUp
  <2> SUFFICES ASSUME OutsideInv, at = "post",
                      NEW groups \in {comparison.new, comparison.removed}
               PROVE  LET list == RenderAssets(groups) IN
                      /\ list.listed + list.more = CountOf(groups)
                      /\ list.listed <= Cap /\ (list.more # 0 => list.listed = Cap)
                      /\ \A g \in ToSet(groups) : NoneWider(groups, g.width) =>
                             list.length <= Len(groups) * GroupLine
                                            + Cap * (ItemLine + g.width) + MoreLine
    BY DEF AlertAddsUp
  <2>1. comparison \in Comparisons
    BY DEF OutsideInv, AlertInv
  <2>2. groups \in Groups
    BY <2>1, ComparisonsType
  <2>3. \A g \in ToSet(groups) : g.width \in Nat
    <3>1. groups \in Seq([count : Nat \ {0}, width : Nat \ {0}])
      BY <2>2 DEF Groups
    <3>2. /\ DOMAIN groups = 1 .. Len(groups)
          /\ \A i \in 1 .. Len(groups) : groups[i] \in [count : Nat \ {0}, width : Nat \ {0}]
      BY <3>1, LenProperties, ElementOfSeq
    <3> QED  BY <3>2 DEF ToSet
  <2>4. RenderAssets(groups).listed <= Cap
    BY <2>2, SectionAddsUp, CapsArePositive DEF Lists
  <2> QED  BY <2>2, <2>3, <2>4, SectionAddsUp
<1> QED  BY <1>1, Invariance, PTL

\* Every variable holds a value of its kind, whatever the call and the comparison
\* (tools/__init__.py run, telegram.py send_change_alert).
THEOREM TypeCorrect == Spec => []TypeOK
<1>1. OutsideInv => TypeOK
  <2> SUFFICES ASSUME OutsideInv PROVE TypeOK
    OBVIOUS
  <2>1. result = NoResult \/ result \in Results
    <3>1. pc = "returned" => result \in Results
      BY WhatIsReturned
    <3> QED  BY <3>1 DEF OutsideInv, CallInv, ResultByPlace
  <2>2. CallTypeOK
    BY <2>1 DEF OutsideInv, CallInv, ProcessByPlace, InsideByProcess, ResultByPlace, CallTypeOK, CallPlaces
  <2>3. AlertTypeOK
    BY DEF OutsideInv, AlertInv, AlertTypeOK
  <2> QED  BY <2>2, <2>3 DEF TypeOK
<1> QED  BY <1>1, Invariance, PTL

==============================================================================
