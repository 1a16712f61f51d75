--------------------------- MODULE ScanStoreProofs ---------------------------
(***************************************************************************)
(* What the operations of ScanStore do, for every value of its constants:  *)
(* the facts the proofs about the agents rest on.                          *)
(***************************************************************************)
EXTENDS ScanStore, SequenceTheorems, FiniteSetTheorems, WellFoundedInduction, TLAPS

\* A nonempty set of numbers has a least element.
LEMMA LeastExists ==
    ASSUME NEW S \in SUBSET Nat, S # {}
    PROVE  \E m \in S : \A k \in S : m <= k
<1> DEFINE R == OpToRel(<, Nat)
<1>1. IsWellFoundedOn(R, Nat)
  BY NatLessThanWellFounded
<1>2. PICK m \in S : \A k \in S : <<k, m>> \notin R
  <2> HIDE DEF R
  <2> QED  BY <1>1, WFMin
<1>3. \A k \in S : m <= k
  <2> TAKE k \in S
  <2>1. m \in Nat /\ k \in Nat
    OBVIOUS
  <2>2. k < m => <<k, m>> \in R
    <3>1. R = {ss \in Nat \X Nat : ss[1] < ss[2]}
      BY DEF OpToRel
    <3> HIDE DEF R
    <3> QED  BY <2>1, <3>1
  <2>3. ~(k < m)
    BY <1>2, <2>2
  <2> HIDE DEF R
  <2> QED  BY <2>1, <2>3
<1> QED  BY <1>3

\* One of numbers up to n has a greatest one too.
LEMMA GreatestExists ==
    ASSUME NEW n \in Nat, NEW S \in SUBSET (1 .. n), S # {}
    PROVE  \E m \in S : \A k \in S : m >= k
<1> DEFINE D == {n - k : k \in S}
<1>1. D \subseteq Nat /\ D # {}
  <2>1. \A k \in S : n - k \in Nat
    OBVIOUS
  <2> QED  BY <2>1
<1>2. PICK d \in D : \A e \in D : d <= e
  <2> HIDE DEF D
  <2> QED  BY <1>1, LeastExists
<1>3. PICK m \in S : d = n - m
  BY <1>2
<1>4. \A k \in S : m >= k
  BY <1>2, <1>3
<1> QED  BY <1>4

\* Max picks it.
LEMMA MaxIsGreatest ==
    ASSUME NEW n \in Nat, NEW S \in SUBSET (1 .. n), S # {}
    PROVE  /\ Max(S) \in S
           /\ \A k \in S : Max(S) >= k
  BY GreatestExists, Zenon DEF Max

\* The rows of a scan log are records, and its ids an interval.
LEMMA ScansAreRows ==
    ASSUME StoreTypeOK
    PROVE  /\ Len(scans) \in Nat
           /\ DOMAIN scans = 1 .. Len(scans)
           /\ \A i \in 1 .. Len(scans) : scans[i] \in ScanRow
  BY LenProperties, ElementOfSeq DEF StoreTypeOK

\* previous_completed_scan returns an earlier completed scan of the target that
\* no other such scan comes after, or none when there is none.
LEMMA PreviousIsLatest ==
    ASSUME StoreTypeOK, NEW target, NEW before \in Nat
    PROVE  LET found == PreviousCompletedScan(target, before)
               done == DoneScansBefore(target, before)
           IN  \/ found = NoScan /\ done = {}
               \/ found \in done /\ \A i \in done : i <= found
<1> DEFINE done == DoneScansBefore(target, before)
<1>1. CASE done = {}
  BY <1>1 DEF PreviousCompletedScan
<1>2. CASE done # {}
  <2>1. done \subseteq 1 .. Len(scans) /\ Len(scans) \in Nat
    BY ScansAreRows DEF DoneScansBefore
  <2>2. Max(done) \in done /\ \A i \in done : Max(done) >= i
    <3> HIDE DEF done
    <3> QED  BY <1>2, <2>1, MaxIsGreatest
  <2>3. PreviousCompletedScan(target, before) = Max(done)
    BY <1>2 DEF PreviousCompletedScan
  <2> QED  BY <2>1, <2>2, <2>3
<1> QED  BY <1>1, <1>2

\* get_latest_completed_scan_id returns a completed scan of the target, or none.
LEMMA LatestIsCompleted ==
    ASSUME StoreTypeOK, NEW target
    PROVE  LET latest == LatestCompletedScan(target)
           IN  \/ latest = NoScan
               \/ /\ latest \in 1 .. Len(scans)
                  /\ scans[latest].target = target /\ scans[latest].status = "done"
<1>1. Len(scans) \in Nat /\ DOMAIN scans = 1 .. Len(scans)
  BY ScansAreRows
<1>2. NextScanId \in Nat
  BY <1>1 DEF NextScanId
<1>3. \/ LatestCompletedScan(target) = NoScan
      \/ LatestCompletedScan(target) \in DoneScansBefore(target, NextScanId)
  BY <1>2, PreviousIsLatest DEF LatestCompletedScan
<1> QED  BY <1>1, <1>3 DEF DoneScansBefore

\* create_scan adds one pending row, at the next id, and keeps the others.
LEMMA CreateScanEffect ==
    ASSUME StoreTypeOK, NEW target \in Targets, NEW ag \in Agents,
           CreateScan(target, ag)
    PROVE  /\ StoreTypeOK'
           /\ Len(scans') = Len(scans) + 1
           /\ \A i \in 1 .. Len(scans) : scans'[i] = scans[i]
           /\ scans'[Len(scans) + 1] =
                  [target |-> target, agent |-> ag, status |-> "pending"]
<1> DEFINE row == [target |-> target, agent |-> ag, status |-> "pending"]
<1>1. row \in ScanRow
  BY DEF ScanRow, Statuses
<1>2. scans \in Seq(ScanRow) /\ scans' = Append(scans, row)
  BY DEF StoreTypeOK, CreateScan
<1>3. /\ Append(scans, row) \in Seq(ScanRow)
      /\ Len(Append(scans, row)) = Len(scans) + 1
      /\ \A i \in 1 .. Len(scans) : Append(scans, row)[i] = scans[i]
      /\ Append(scans, row)[Len(scans) + 1] = row
  <2> HIDE DEF row
  <2> QED  BY <1>1, <1>2, AppendProperties
<1> QED  BY <1>2, <1>3 DEF StoreTypeOK, CreateScan

\* mark_* change the status of one row, and nothing else of it or of others.
LEMMA SetStatusEffect ==
    ASSUME StoreTypeOK, NEW id \in 1 .. Len(scans), NEW status \in Statuses,
           SetStatus(id, status)
    PROVE  /\ StoreTypeOK'
           /\ Len(scans') = Len(scans)
           /\ \A i \in 1 .. Len(scans) : i # id => scans'[i] = scans[i]
           /\ scans'[id].status = status
           /\ scans'[id].target = scans[id].target
           /\ scans'[id].agent = scans[id].agent
<1> DEFINE row == [scans[id] EXCEPT !.status = status]
<1>1. scans[id] \in ScanRow
  BY ScansAreRows
<1>2. /\ row \in ScanRow
      /\ row.status = status /\ row.target = scans[id].target
      /\ row.agent = scans[id].agent
  BY <1>1 DEF ScanRow
<1>3. scans \in Seq(ScanRow) /\ scans' = [scans EXCEPT ![id] = row]
  BY DEF StoreTypeOK, SetStatus
<1>4. /\ [scans EXCEPT ![id] = row] \in Seq(ScanRow)
      /\ Len([scans EXCEPT ![id] = row]) = Len(scans)
      /\ \A j \in 1 .. Len(scans) :
             [scans EXCEPT ![id] = row][j] = IF j = id THEN row ELSE scans[j]
  <2> HIDE DEF row
  <2> QED  BY <1>2, <1>3, ExceptSeq
<1> QED  BY <1>2, <1>3, <1>4 DEF StoreTypeOK, SetStatus

\* What a list of lists of assets holds are assets.
LEMMA PlacesHoldElements ==
    ASSUME NEW S, NEW D, NEW batches \in [D -> Seq(S)], NEW p \in Places(batches)
    PROVE  /\ p = <<p[1], p[2]>> /\ p[1] \in D /\ p[2] \in Nat
           /\ batches[p[1]][p[2]] \in S
<1>1. PICK i \in D : p \in {<<i, j>> : j \in DOMAIN batches[i]}
  BY DEF Places
<1>2. PICK j \in DOMAIN batches[i] : p = <<i, j>>
  BY <1>1
<1>3. batches[i] \in Seq(S)
  OBVIOUS
<1>4. j \in 1 .. Len(batches[i]) /\ Len(batches[i]) \in Nat
  BY <1>2, <1>3, LenProperties
<1>5. batches[i][j] \in S
  BY <1>3, <1>4, ElementOfSeq
<1> QED  BY <1>1, <1>2, <1>4, <1>5

\* Finitely many lists have finitely many places.
LEMMA PlacesAreFinite ==
    ASSUME NEW S, NEW D, IsFiniteSet(D), NEW batches \in [D -> Seq(S)]
    PROVE  IsFiniteSet(Places(batches))
<1> DEFINE In(i) == {<<i, j>> : j \in DOMAIN batches[i]}
           All == {In(i) : i \in D}
<1>1. ASSUME NEW i \in D PROVE IsFiniteSet(In(i))
  <2> DEFINE f == [j \in DOMAIN batches[i] |-> <<i, j>>]
  <2>1. DOMAIN batches[i] = 1 .. Len(batches[i]) /\ Len(batches[i]) \in Nat
    BY LenProperties
  <2>2. IsFiniteSet(DOMAIN batches[i])
    BY <2>1, FS_Interval
  <2>3. f \in Surjection(DOMAIN batches[i], In(i))
    BY DEF Surjection
  <2> QED  BY <2>2, <2>3, FS_Surjection
<1>2. IsFiniteSet(All)
  <2> DEFINE f == [i \in D |-> In(i)]
  <2> HIDE DEF In
  <2>1. \A T \in All : \E i \in D : f[i] = T
    OBVIOUS
  <2>2. f \in [D -> All]
    OBVIOUS
  <2>3. f \in Surjection(D, All)
    <3> HIDE DEF f, All
    <3> QED  BY <2>1, <2>2 DEF Surjection
  <2> HIDE DEF f, All
  <2> QED  BY <2>3, FS_Surjection
<1>3. \A T \in All : IsFiniteSet(T)
  BY <1>1
<1>4. Places(batches) = UNION All
  BY DEF Places
<1> QED
  <2> HIDE DEF All
  <2> QED  BY <1>2, <1>3, <1>4, FS_UNION

\* So what is read off at those places is finite.
LEMMA ImageOfPlacesIsFinite ==
    ASSUME NEW P, IsFiniteSet(P), NEW f, DOMAIN f = P
    PROVE  IsFiniteSet({f[p] : p \in P})
<1> DEFINE T == {f[p] : p \in P}
<1>1. [p \in P |-> f[p]] \in Surjection(P, T)
  BY DEF Surjection
<1>2. IsFiniteSet(T)
  <2> HIDE DEF T
  <2> QED  BY <1>1, FS_Surjection
<1> QED  BY <1>2

\* Deduplication leaves one asset per identity, and only what was reported.
LEMMA FirstOfEachKeyIsUnique ==
    ASSUME NEW D \in SUBSET Nat, NEW batches \in [D -> Seq(Assets)]
    PROVE  /\ FirstOfEachKey(batches) \subseteq Assets
           /\ \A a, b \in FirstOfEachKey(batches) : KeyOf[a] = KeyOf[b] => a = b
<1> DEFINE At(p) == batches[p[1]][p[2]]
           First == {q \in Places(batches) :
                        \A e \in Places(batches) :
                            Before(e, q) => KeyOf[At(e)] # KeyOf[At(q)]}
<1>1. FirstOfEachKey(batches) = {At(p) : p \in First}
  BY DEF FirstOfEachKey
<1>2. FirstOfEachKey(batches) \subseteq Assets
  BY <1>1, PlacesHoldElements
<1>3. ASSUME NEW a \in FirstOfEachKey(batches), NEW b \in FirstOfEachKey(batches),
             KeyOf[a] = KeyOf[b]
      PROVE  a = b
  <2>1. PICK p \in First : a = At(p)
    BY <1>1
  <2>2. PICK q \in First : b = At(q)
    BY <1>1
  <2>3. ~Before(p, q) /\ ~Before(q, p)
    BY <2>1, <2>2, <1>3
  <2>4. /\ p = <<p[1], p[2]>> /\ p[1] \in Nat /\ p[2] \in Nat
        /\ q = <<q[1], q[2]>> /\ q[1] \in Nat /\ q[2] \in Nat
    BY PlacesHoldElements
  <2>5. p[1] = q[1] /\ p[2] = q[2]
    BY <2>3, <2>4 DEF Before
  <2> QED  BY <2>1, <2>2, <2>5
<1> QED  BY <1>2, <1>3

\* It leaves an asset of every identity that was reported.
LEMMA FirstCoversEveryKey ==
    ASSUME NEW D \in SUBSET Nat, NEW batches \in [D -> Seq(Assets)],
           NEW p \in Places(batches)
    PROVE  \E a \in FirstOfEachKey(batches) : KeyOf[a] = KeyOf[batches[p[1]][p[2]]]
<1> DEFINE At(q) == batches[q[1]][q[2]]
           Same == {q \in Places(batches) : KeyOf[At(q)] = KeyOf[At(p)]}
           Lists == {q[1] : q \in Same}
<1>1. \A q \in Places(batches) : q = <<q[1], q[2]>> /\ q[1] \in Nat /\ q[2] \in Nat
  BY PlacesHoldElements
<1>2. PICK i \in Lists : \A k \in Lists : i <= k
  <2>1. Lists \subseteq Nat /\ Lists # {}
    BY <1>1
  <2> HIDE DEF Lists
  <2> QED  BY <2>1, LeastExists
<1> DEFINE InList == {q[2] : q \in {e \in Same : e[1] = i}}
<1>3. PICK j \in InList : \A k \in InList : j <= k
  <2>1. InList \subseteq Nat /\ InList # {}
    BY <1>1
  <2> HIDE DEF InList
  <2> QED  BY <2>1, LeastExists
<1>4. PICK q \in Same : q[1] = i /\ q[2] = j
  BY <1>3
<1>5. \A e \in Places(batches) : Before(e, q) => KeyOf[At(e)] # KeyOf[At(q)]
  <2> SUFFICES ASSUME NEW e \in Same, Before(e, q) PROVE FALSE
    BY <1>4
  <2>1. /\ e[1] \in Nat /\ e[2] \in Nat /\ q[1] \in Nat /\ q[2] \in Nat
    BY <1>1
  <2>2. i <= e[1] /\ (e[1] = i => j <= e[2])
    BY <1>2, <1>3
  <2> QED  BY <1>4, <2>1, <2>2 DEF Before
<1>6. At(q) \in FirstOfEachKey(batches)
  BY <1>4, <1>5 DEF FirstOfEachKey
<1> QED  BY <1>4, <1>6

-----------------------------------------------------------------------------
(* What a transaction of an agent leaves alone *)

\* The statuses of a scan that has run.
Closed == {"done", "failed"}

\* A step that works for scan `id` loses no row, changes no row of table scans
\* but that one, files rows under that one only while it runs, and opens no
\* scan again that was closed.
Touches(id) ==
    /\ StoreTypeOK'
    /\ Len(scans') \in Nat /\ Len(scans) <= Len(scans')
    /\ \A i \in 1 .. Len(scans) :
           /\ scans'[i].target = scans[i].target
           /\ scans'[i].agent = scans[i].agent
           /\ i # id => scans'[i] = scans[i]
           /\ scans[i].status \in Closed => scans'[i].status \in Closed
    /\ assets \subseteq assets' /\ findings \subseteq findings'
    /\ \A row \in assets' :
           row \in assets \/ (row.scan = id /\ id # NoScan /\ scans[id].status = "running")
    /\ \A row \in findings' :
           row \in findings \/ (row.scan = id /\ id # NoScan /\ scans[id].status = "running")
    /\ IsFiniteSet(assets) => IsFiniteSet(assets')
    /\ IsFiniteSet(findings) => IsFiniteSet(findings')

\* A step without a transaction.
LEMMA NothingTouches ==
    ASSUME StoreTypeOK, UNCHANGED store, NEW id
    PROVE  Touches(id)
<1>1. UNCHANGED <<scans, assets, findings>> /\ Len(scans) \in Nat
  BY ScansAreRows DEF store
<1> QED  BY <1>1 DEF Touches, StoreTypeOK

\* create_scan.
LEMMA CreateTouches ==
    ASSUME StoreTypeOK, NEW target \in Targets, NEW ag \in Agents,
           CreateScan(target, ag), NEW id
    PROVE  Touches(id)
<1>1. /\ StoreTypeOK' /\ Len(scans') = Len(scans) + 1
      /\ \A i \in 1 .. Len(scans) : scans'[i] = scans[i]
  BY CreateScanEffect
<1>2. Len(scans) \in Nat /\ UNCHANGED <<assets, findings>>
  BY ScansAreRows DEF CreateScan
<1> QED  BY <1>1, <1>2 DEF Touches

\* mark_*.
LEMMA SetStatusTouches ==
    ASSUME StoreTypeOK, NEW id \in 1 .. Len(scans), NEW status \in Statuses,
           SetStatus(id, status), scans[id].status \in Closed => status \in Closed
    PROVE  Touches(id)
<1>1. /\ StoreTypeOK' /\ Len(scans') = Len(scans)
      /\ \A i \in 1 .. Len(scans) : i # id => scans'[i] = scans[i]
      /\ scans'[id].status = status
      /\ scans'[id].target = scans[id].target /\ scans'[id].agent = scans[id].agent
  BY SetStatusEffect
<1>2. Len(scans) \in Nat /\ UNCHANGED <<assets, findings>>
  BY ScansAreRows DEF SetStatus
<1> QED  BY <1>1, <1>2 DEF Touches

\* persist_assets adds rows of the scan it is given, and of no other.
LEMMA PersistAssetsEffect ==
    ASSUME StoreTypeOK, NEW id \in Nat \ {0},
           NEW D \in SUBSET Nat, NEW batches \in [D -> Seq(Assets)],
           PersistAssets(id, batches)
    PROVE  /\ StoreTypeOK'
           /\ scans' = scans
           /\ findings' = findings
           /\ assets \subseteq assets'
           /\ \A row \in assets' \ assets :
                  row.scan = id /\ row.asset \in FirstOfEachKey(batches)
           /\ \A row \in assets' : row \in assets \/ row.scan = id
<1>1. AssetRowsOf(id, batches) \subseteq AssetRow
  BY FirstOfEachKeyIsUnique DEF AssetRowsOf, AssetRow
<1> QED  BY <1>1 DEF PersistAssets, StoreTypeOK, AssetRowsOf

\* Storing assets touches only the rows of the scan they are stored under.
LEMMA PersistAssetsTouches ==
    ASSUME StoreTypeOK, NEW id \in Nat \ {0}, scans[id].status = "running",
           NEW D \in SUBSET Nat, IsFiniteSet(D), NEW batches \in [D -> Seq(Assets)],
           PersistAssets(id, batches)
    PROVE  Touches(id)
<1> DEFINE row == [p \in Places(batches) |-> [scan |-> id, asset |-> batches[p[1]][p[2]]]]
<1>1. IsFiniteSet({row[p] : p \in Places(batches)})
  <2>1. IsFiniteSet(Places(batches)) /\ DOMAIN row = Places(batches)
    BY PlacesAreFinite
  <2> HIDE DEF row
  <2> QED  BY <2>1, ImageOfPlacesIsFinite
<1>2. AssetRowsOf(id, batches) \subseteq {row[p] : p \in Places(batches)}
  BY DEF AssetRowsOf, FirstOfEachKey
<1>3. IsFiniteSet(AssetRowsOf(id, batches))
  <2> HIDE DEF row
  <2> QED  BY <1>1, <1>2, FS_Subset
<1>4. IsFiniteSet(assets) => IsFiniteSet(assets')
  BY <1>3, FS_Union DEF PersistAssets
<1>5. Len(scans) \in Nat /\ scans' = scans /\ findings' = findings /\ StoreTypeOK'
      /\ assets \subseteq assets' /\ \A r \in assets' : r \in assets \/ r.scan = id
  BY ScansAreRows, PersistAssetsEffect
<1> QED  BY <1>4, <1>5 DEF Touches, NoScan

\* save_attack_result adds the findings at their places, under the scan given.
LEMMA PersistFindingsEffect ==
    ASSUME StoreTypeOK, NEW id \in Nat \ {0},
           NEW D \in SUBSET Nat, NEW batches \in [D -> Seq(Findings)],
           PersistFindings(id, batches)
    PROVE  /\ StoreTypeOK'
           /\ scans' = scans
           /\ assets' = assets
           /\ findings \subseteq findings'
           /\ \A row \in findings' : row \in findings \/ row.scan = id
<1>1. \A p \in Places(batches) :
          /\ p[1] \in Nat /\ p[2] \in Nat
          /\ batches[p[1]][p[2]] \in Findings
  BY PlacesHoldElements
<1>2. FindingRowsOf(id, batches) \subseteq FindingRow
  BY <1>1 DEF FindingRowsOf, FindingRow
<1> QED  BY <1>2 DEF PersistFindings, StoreTypeOK, FindingRowsOf

\* Storing findings touches only the rows of the scan they are stored under.
LEMMA PersistFindingsTouches ==
    ASSUME StoreTypeOK, NEW id \in Nat \ {0}, scans[id].status = "running",
           NEW D \in SUBSET Nat, IsFiniteSet(D), NEW batches \in [D -> Seq(Findings)],
           PersistFindings(id, batches)
    PROVE  Touches(id)
<1> DEFINE row == [p \in Places(batches) |->
                      [scan |-> id, batch |-> p[1], place |-> p[2],
                       finding |-> batches[p[1]][p[2]]]]
<1>1. IsFiniteSet({row[p] : p \in Places(batches)})
  <2>1. IsFiniteSet(Places(batches)) /\ DOMAIN row = Places(batches)
    BY PlacesAreFinite
  <2> HIDE DEF row
  <2> QED  BY <2>1, ImageOfPlacesIsFinite
<1>2. FindingRowsOf(id, batches) = {row[p] : p \in Places(batches)}
  BY DEF FindingRowsOf
<1>3. IsFiniteSet(findings) => IsFiniteSet(findings')
  <2> HIDE DEF row
  <2> QED  BY <1>1, <1>2, FS_Union DEF PersistFindings
<1>4. Len(scans) \in Nat /\ scans' = scans /\ assets' = assets /\ StoreTypeOK'
      /\ findings \subseteq findings' /\ \A r \in findings' : r \in findings \/ r.scan = id
  BY ScansAreRows, PersistFindingsEffect
<1> QED  BY <1>3, <1>4 DEF Touches, NoScan

\* Only the rows of a scan decide what its index is.
LEMMA IndexDependsOnRows ==
    ASSUME NEW i, \A row : row.scan = i => (row \in assets' <=> row \in assets)
    PROVE  ListAssets(i)' = ListAssets(i) /\ Index(i)' = Index(i)
  BY DEF ListAssets, Index

\* The identities of the rows of a scan are keys.
LEMMA IndexType ==
    ASSUME StoreTypeOK, NEW i
    PROVE  Index(i) \subseteq Keys
  BY KeyOfType DEF StoreTypeOK, AssetRow, ListAssets, Index

\* Nor does a step change it that works for another scan, or for one that is
\* not running.
LEMMA IndexKept ==
    ASSUME NEW id, Touches(id), NEW i, i # id \/ scans[id].status # "running"
    PROVE  Index(i)' = Index(i)
<1>1. \A row : row.scan = i => (row \in assets' <=> row \in assets)
  BY DEF Touches
<1> QED  BY <1>1, IndexDependsOnRows

=============================================================================
